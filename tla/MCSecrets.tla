----------------------------- MODULE MCSecrets -----------------------------
(* Small instances: one app, one or two variables, one or two requests.    *)
EXTENDS SecretsClaims
=============================================================================
