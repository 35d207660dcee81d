--------------------------- MODULE SecretsClaims ---------------------------
(***************************************************************************)
(* What a text of nanoku says of environment variables and the code does   *)
(* not keep.                                                               *)
(***************************************************************************)
EXTENDS Secrets

(* apps.go:502, of the variables an operator sets: "Requires re-deploy to  *)
(* take effect."  A deploy hands over the values as they are stored, that  *)
(* is, encrypted.                                                          *)
DeployHandsOverValues ==
  \A a \in Apps, k \in Keys :
    container[a][k] # None => container[a][k] = AsTyped(asked[a][k])
=============================================================================
