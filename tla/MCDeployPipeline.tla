-------------------------- MODULE MCDeployPipeline --------------------------
(* Small instances: two deploys of one app; or these and one of a second   *)
(* app, with one name for both, so that Init has one of the apps at most.  *)
EXTENDS DeployClaims

CONSTANTS a1, a2, d1, d2, d3

OneApp == [d \in Deploys |-> a1]
EitherApp == [d \in Deploys |-> IF d = d3 THEN a2 ELSE a1]
=============================================================================
