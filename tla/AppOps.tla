------------------------------- MODULE AppOps -------------------------------
(***************************************************************************)
(* What operators do to apps while deploys run: start, stop and restart a  *)
(* container, apply a reconcile, remove an orphan container, create,       *)
(* rename and delete apps.  None of these handlers takes the deploy lock.  *)
(*                                                                         *)
(* A request r is one such HTTP request; req[r] holds where its handler is *)
(* and the locals it carries from one statement or engine call to the      *)
(* next.  The deploys are those of DeployPipeline, unchanged.              *)
(***************************************************************************)
EXTENDS DeployPipeline

CONSTANTS
  Requests,   \* requests the server may handle at a time
  Ops         \* which operations operators use, see OpKinds

OpKinds == {"action", "reconcile", "orphan", "delete", "rename", "create"}

ASSUME OpsAssumption == Ops \subseteq OpKinds

VARIABLES
  req,    \* req[r]: progress of request r
  gone    \* apps that have been deleted; ids are not used again

opVars == <<req, gone>>
allVars == <<vars, opVars>>

-----------------------------------------------------------------------------
Idle == [at |-> "idle"]

Step(r, from, to) ==
  /\ req[r].at = from
  /\ req' = [req EXCEPT ![r] = to]

Start(r, op, to) ==
  /\ op \in Ops
  /\ phase = "up"
  /\ Step(r, "idle", to)

RequestStates ==
  {Idle}
  \cup [at : {"load"}, do : {"start", "stop"}, app : Apps, name : Names]
  \cup [at : {"drive"}, do : {"start", "stop"}, row : Deploys, name : Names]
  \cup [at : {"mark"}, do : {"start", "stop"}, row : Deploys]
  \cup [at : {"listed"}, names : SUBSET Names]
  \cup [at : {"clear"}, apps : SUBSET Apps]
  \cup [at : {"remove"}, name : Names]
  \cup [at : {"down", "current"}, app : Apps, name : Names]
  \cup [at : {"force"}, app : Apps, name : Names]
  \cup [at : {"history"}, app : Apps]
  \cup [at : {"sweep"}, app : Apps, names : SUBSET Names]

OpsTypeOK ==
  /\ req \in [Requests -> RequestStates]
  /\ gone \in SUBSET Apps

Recorded(d) == crow[d] # "none"
Present(n) == engine[n] # "absent"

(* The engine after container n was removed by force.                      *)
Removed(n) ==
  /\ engine' = [engine EXCEPT ![n] = "absent"]
  /\ owner' = [owner EXCEPT ![n] = None]

Unnamed(n) == \A a \in Apps : appName[a] # n

-----------------------------------------------------------------------------
(* Faulty variants of actions below, one per mistake the properties are    *)
(* meant to catch.  No specification uses them.                            *)

(* Reconcile takes the ids of the container rows for those of the apps.    *)
CompareApps_RowIds(r) ==
  /\ req[r].at = "listed"
  /\ req' = [req EXCEPT ![r] =
       [at |-> "clear",
        apps |-> {current[a] : a \in {b \in Apps :
                    current[b] # None /\ cname[current[b]] \notin req[r].names}}]]
  /\ UNCHANGED <<vars, gone>>

(* The row of the app goes and its current_container stays.                *)
DeleteRow_KeepsEdge(r) ==
  /\ Step(r, "sweep", Idle)
  /\ req[r].names = {}
  /\ appName' = [appName EXCEPT ![req[r].app] = None]
  /\ gone' = gone \cup {req[r].app}
  /\ UNCHANGED <<procVars, pc, workVars, row, crow, cname, current, dockerVars>>

-----------------------------------------------------------------------------
(* StartApp, StopApp, RestartApp: containerAction.  A restart leaves the   *)
(* state a start leaves.                                                   *)

ReadApp(r, a, do) ==
  /\ appName[a] # None
  /\ Start(r, "action", [at |-> "load", do |-> do, app |-> a, name |-> appName[a]])
  /\ UNCHANGED <<vars, gone>>

(* A compose app is driven by the project of the name it was read with, a  *)
(* docker app by the name in the container row.                            *)
ReadCurrent(r) ==
  LET a == req[r].app
  IN  /\ req[r].at = "load"
      /\ current[a] # None
      /\ req' = [req EXCEPT ![r] =
           [at |-> "drive", do |-> req[r].do, row |-> current[a],
            name |-> IF a \in ComposeApps THEN req[r].name ELSE cname[current[a]]]]
      /\ UNCHANGED <<vars, gone>>

Drive(r) ==
  /\ req[r].at = "drive"
  /\ Present(req[r].name)
  /\ engine' = [engine EXCEPT ![req[r].name] =
                  IF req[r].do = "start" THEN "running"
                  ELSE IF @ = "running" THEN "exited" ELSE @]
  /\ req' = [req EXCEPT ![r] = [at |-> "mark", do |-> req[r].do, row |-> req[r].row]]
  /\ UNCHANGED <<procVars, pc, workVars, dbVars, owner, gone>>

(* UpdateOneID: a row that was deleted meanwhile is not made again.        *)
MarkDriven(r) ==
  /\ req[r].at = "mark"
  /\ Recorded(req[r].row)
  /\ crow' = [crow EXCEPT ![req[r].row] = IF req[r].do = "start" THEN "running" ELSE "exited"]
  /\ req' = [req EXCEPT ![r] = Idle]
  /\ UNCHANGED <<procVars, pc, workVars, appName, row, cname, current, dockerVars, gone>>

-----------------------------------------------------------------------------
(* ApplyReconcile: the engine is asked first, the database after it, and   *)
(* the edges are cleared one by one without another look.                  *)

ListContainers(r) ==
  /\ Start(r, "reconcile", [at |-> "listed", names |-> {n \in Names : Present(n)}])
  /\ UNCHANGED <<vars, gone>>

CompareApps(r) ==
  /\ req[r].at = "listed"
  /\ req' = [req EXCEPT ![r] =
       [at |-> "clear",
        apps |-> {a \in Apps : current[a] # None /\ cname[current[a]] \notin req[r].names}]]
  /\ UNCHANGED <<vars, gone>>

ClearEdge(r, a) ==
  /\ req[r].at = "clear"
  /\ a \in req[r].apps
  /\ appName[a] # None
  /\ current' = [current EXCEPT ![a] = None]
  /\ req' = [req EXCEPT ![r].apps = @ \ {a}]
  /\ UNCHANGED <<procVars, pc, workVars, appName, row, crow, cname, dockerVars, gone>>

-----------------------------------------------------------------------------
(* RemoveOrphanContainer.                                                  *)

CheckUntracked(r, n) ==
  /\ \A d \in Deploys : Recorded(d) => cname[d] # n
  /\ Start(r, "orphan", [at |-> "remove", name |-> n])
  /\ UNCHANGED <<vars, gone>>

RemoveOrphan(r) ==
  /\ Step(r, "remove", Idle)
  /\ Removed(req[r].name)
  /\ UNCHANGED <<procVars, pc, workVars, dbVars, gone>>

-----------------------------------------------------------------------------
(* CreateApp and UpdateApp: one INSERT, one UPDATE.  Names are UNIQUE.     *)

CreateApp(a, n) ==
  /\ "create" \in Ops
  /\ phase = "up"
  /\ appName[a] = None /\ a \notin gone
  /\ Unnamed(n)
  /\ appName' = [appName EXCEPT ![a] = n]
  /\ UNCHANGED <<procVars, pc, workVars, row, crow, cname, current, dockerVars, opVars>>

RenameApp(a, n) ==
  /\ "rename" \in Ops
  /\ phase = "up"
  /\ appName[a] # None
  /\ Unnamed(n)
  /\ appName' = [appName EXCEPT ![a] = n]
  /\ UNCHANGED <<procVars, pc, workVars, row, crow, cname, current, dockerVars, opVars>>

-----------------------------------------------------------------------------
(* DeleteApp.                                                              *)

ReadForDelete(r, a) ==
  /\ appName[a] # None
  /\ Start(r, "delete", [at |-> IF a \in ComposeApps THEN "down" ELSE "current",
                         app |-> a, name |-> appName[a]])
  /\ UNCHANGED <<vars, gone>>

(* `docker compose down`, its error dropped.                               *)
ComposeDown(r) ==
  /\ req[r].at = "down"
  /\ req' = [req EXCEPT ![r].at = "current"]
  /\ Removed(req[r].name) \/ UNCHANGED dockerVars
  /\ UNCHANGED <<procVars, pc, workVars, dbVars, gone>>

(* A query that fails is taken for an app without a current container.     *)
QueryCurrent(r) ==
  LET a == req[r].app
  IN  /\ req[r].at = "current"
      /\ \/ req' = [req EXCEPT ![r] = [at |-> "history", app |-> a]]
         \/ /\ current[a] # None
            /\ req' = [req EXCEPT ![r] =
                 [at |-> "force", app |-> a, name |-> cname[current[a]]]]
      /\ UNCHANGED <<vars, gone>>

RemoveCurrent(r) ==
  /\ req[r].at = "force"
  /\ Present(req[r].name) /\ Removed(req[r].name)
  /\ req' = [req EXCEPT ![r] = [at |-> "history", app |-> req[r].app]]
  /\ UNCHANGED <<procVars, pc, workVars, dbVars, gone>>

(* The container rows of the app, the names of which are swept one by one. *)
(* The error of the query is dropped, and nothing is swept.                *)
ReadHistory(r) ==
  LET a == req[r].app
  IN  /\ req[r].at = "history"
      /\ \E names \in {{}, {cname[d] : d \in {e \in Deploys : AppOf[e] = a /\ Recorded(e)}}} :
           req' = [req EXCEPT ![r] = [at |-> "sweep", app |-> a, names |-> names]]
      /\ UNCHANGED <<vars, gone>>

RemoveHistorical(r, n) ==
  /\ req[r].at = "sweep"
  /\ n \in req[r].names
  /\ req' = [req EXCEPT ![r].names = @ \ {n}]
  /\ Removed(n) \/ UNCHANGED dockerVars
  /\ UNCHANGED <<procVars, pc, workVars, dbVars, gone>>

(* The foreign keys that lead to the app become NULL.                      *)
DeleteRow(r) ==
  /\ req[r].at = "sweep"
  /\ req[r].names = {}
  /\ req' = [req EXCEPT ![r] = Idle]
  /\ appName' = [appName EXCEPT ![req[r].app] = None]
  /\ current' = [current EXCEPT ![req[r].app] = None]
  /\ gone' = gone \cup {req[r].app}
  /\ UNCHANGED <<procVars, pc, workVars, row, crow, cname, dockerVars>>

-----------------------------------------------------------------------------
(* The request ends early: a call failed, and the answer is 500 or 502, or *)
(* the edges are all cleared.  What was done before stays done.            *)
Leaves(r) ==
  /\ req[r].at \in {"load", "drive", "mark", "listed", "clear", "remove", "force", "sweep"}
  /\ req' = [req EXCEPT ![r] = Idle]
  /\ UNCHANGED <<vars, gone>>

Request(r) ==
  \/ ReadCurrent(r) \/ Drive(r) \/ MarkDriven(r) \/ CompareApps(r) \/ RemoveOrphan(r)
  \/ ComposeDown(r) \/ QueryCurrent(r) \/ RemoveCurrent(r) \/ ReadHistory(r) \/ DeleteRow(r)
  \/ Leaves(r)
  \/ \E a \in Apps : ClearEdge(r, a)
  \/ \E n \in Names : RemoveHistorical(r, n)

NewRequest(r) ==
  \/ ListContainers(r)
  \/ \E a \in Apps : ReadForDelete(r, a)
  \/ \E a \in Apps, do \in {"start", "stop"} : ReadApp(r, a, do)
  \/ \E n \in Names : CheckUntracked(r, n)

(* A request that is being handled keeps http.Server.Shutdown waiting.     *)
ShutdownWithRequests ==
  /\ Shutdown
  /\ phase = "closing" /\ "slow" \notin Events => \A r \in Requests : req[r] = Idle

OpsInit ==
  /\ Init
  /\ req = [r \in Requests |-> Idle]
  /\ gone = {}

OpsNext ==
  \/ \E r \in Requests : Request(r) \/ NewRequest(r)
  \/ \E a \in Apps, n \in Names : CreateApp(a, n) \/ RenameApp(a, n)
  \/ (\E d \in Deploys : Handler(d) \/ Worker(d) \/ Panic(d) \/ Expire(d)) /\ UNCHANGED opVars
  \/ ShutdownWithRequests /\ UNCHANGED opVars
  \/ (Boot \/ BootUnreconciled) /\ UNCHANGED opVars
  \/ ProcessEnds /\ req' = [r \in Requests |-> Idle] /\ UNCHANGED gone

OpsSpec == OpsInit /\ [][OpsNext]_allVars

-----------------------------------------------------------------------------
(* Whatever operators do meanwhile, an edge leads to a container row of    *)
(* the app itself, made by a deploy of it, and an app that was deleted has *)
(* none (DeleteApp and executeDeploy race without a lock between them).    *)
EdgeIsOwn ==
  \A a \in Apps : current[a] # None =>
    appName[a] # None /\ AppOf[current[a]] = a /\ Recorded(current[a])
=============================================================================
