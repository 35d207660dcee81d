--------------------------- MODULE MCSiteRouting ---------------------------
(* Small instances.  Sites and requests are interchangeable, and no        *)
(* liveness property is checked under the symmetry.                        *)
EXTENDS SiteRouting, TLC

CONSTANTS s1, s2, r1, r2, a1, a2, n1, n2

Symmetry ==
  Permutations(Sites) \cup Permutations(Requests) \cup Permutations(Apps) \cup Permutations(Routes)
=============================================================================
