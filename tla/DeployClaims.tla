---------------------------- MODULE DeployClaims ----------------------------
(***************************************************************************)
(* What a comment of nanoku says of deploys and the code does not keep.    *)
(***************************************************************************)
EXTENDS DeployPipeline

(* deploy_executor.go:390, of the old container once the new one is live:  *)
(* "stopped + removed; the DB row is kept (marked exited) for audit".      *)
(* When two deploys of an app have succeeded, one has replaced the other's *)
(* container, and one row at most still says that its container runs.      *)
OldIsRetired ==
  \A d, e \in Deploys :
    /\ d # e /\ AppOf[d] = AppOf[e]
    /\ pc[d] = "done" /\ pc[e] = "done"
    /\ row[d] = "success" /\ row[e] = "success"
    => "exited" \in {crow[d], crow[e]}
=============================================================================
