--------------------------- MODULE DeployContract ---------------------------
(***************************************************************************)
(* What nanoku promises about deploys, with everything the pipeline does   *)
(* in between left out.                                                    *)
(*                                                                         *)
(* A deploy of an app is admitted only while no other deploy of that app   *)
(* is; it gets its row in state "running" while it is admitted, and only   *)
(* an admitted deploy ever writes an outcome into its row, with one        *)
(* exception: a server that is shutting down may write "failed" over the   *)
(* row of a deploy it gave up waiting for.  A server that stops takes      *)
(* every admission with it; the rows stay.                                 *)
(***************************************************************************)

CONSTANTS Deploys,   \* ids of deploy rows
          Apps,      \* ids of apps
          AppOf      \* AppOf[d]: the app that deploy d is a deploy of

VARIABLES open,      \* FALSE from the shutdown signal on
          admitted,  \* deploys that own the right to deploy their app
          status     \* status[d]: what the row of deploy d says

vars == <<open, admitted, status>>

Outcomes == {"success", "failed"}

Init ==
  /\ open = TRUE
  /\ admitted = {}
  /\ status = [d \in Deploys |-> "none"]

(* The right to deploy an app goes to one deploy at a time.                *)
Admit(d) ==
  /\ status[d] = "none"
  /\ \A e \in admitted : AppOf[e] # AppOf[d]
  /\ admitted' = admitted \cup {d}
  /\ UNCHANGED <<open, status>>

Record(d) ==
  /\ d \in admitted
  /\ status[d] = "none"
  /\ status' = [status EXCEPT ![d] = "running"]
  /\ UNCHANGED <<open, admitted>>

(* An admitted deploy writes its outcome.  It writes success once; it may  *)
(* write over a "failed" that the shutdown left in its row.                *)
Settle(d, s) ==
  /\ d \in admitted
  /\ status[d] \in {"running", "failed"}
  /\ status' = [status EXCEPT ![d] = s]
  /\ UNCHANGED <<open, admitted>>

Leave(d) ==
  /\ d \in admitted
  /\ admitted' = admitted \ {d}
  /\ UNCHANGED <<open, status>>

Close ==
  /\ open' = FALSE
  /\ UNCHANGED <<admitted, status>>

(* The shutdown gives up on deploy d.                                      *)
GiveUp(d) ==
  /\ ~open
  /\ status[d] # "none"
  /\ status' = [status EXCEPT ![d] = "failed"]
  /\ UNCHANGED <<open, admitted>>

Die ==
  /\ open' = FALSE
  /\ admitted' = {}
  /\ UNCHANGED status

Reopen ==
  /\ admitted = {}
  /\ open' = TRUE
  /\ UNCHANGED <<admitted, status>>

Next ==
  \/ \E d \in Deploys :
        \/ Admit(d) \/ Record(d) \/ Leave(d) \/ GiveUp(d)
        \/ \E s \in Outcomes : Settle(d, s)
  \/ Close \/ Die \/ Reopen

Spec == Init /\ [][Next]_vars
=============================================================================
