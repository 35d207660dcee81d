----------------------------- MODULE MCSessions -----------------------------
(* One user with one browser, two sessions, two requests at a time.        *)
EXTENDS Sessions, TLC

CONSTANTS t1, t2, r1, r2

Alike == Permutations(Tokens) \cup Permutations(Requests)
=============================================================================
