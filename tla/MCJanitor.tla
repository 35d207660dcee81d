----------------------------- MODULE MCJanitor -----------------------------
(* One app with two deploys and one stray log.                             *)
EXTENDS Janitor, TLC

CONSTANTS a1, d1, d2

OneApp == [d \in Deploys |-> a1]
Symmetry == Permutations(Deploys)
=============================================================================
