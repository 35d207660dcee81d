------------------------------ MODULE MCLogPump ------------------------------
(* A small instance of LogPump.                                            *)
EXTENDS LogPumpClaims
=============================================================================
