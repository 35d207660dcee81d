---------------------------- MODULE MCDeployLog ----------------------------
(* Four lines: the first plain, two of one progress row, a plain one.      *)
EXTENDS DeployLog

Lines == <<None, "layer", "layer", None>>
=============================================================================
