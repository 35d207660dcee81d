------------------------------ MODULE MCAppOps ------------------------------
(* Small instances: one or two apps, two deploys, one or two requests.     *)
EXTENDS AppOpsClaims, TLC

CONSTANTS a1, a2, d1, d2, r1, r2

OneApp == [d \in Deploys |-> a1]
Symmetry == Permutations(Requests)
=============================================================================
