SPECIFICATION Spec
CONSTANTS
  s1 = s1
  s2 = s2
  r1 = r1
  r2 = r2
  a1 = a1
  a2 = a2
  n1 = n1
  n2 = n2
  None = None
  Sites = {s1}
  Apps = {a1, a2}
  Upstreams = {"ext"}
  Routes = {n1, n2}
  Requests = {r1, r2}
  Faults = {"db", "file", "caddy", "crash"}
SYMMETRY Symmetry
INVARIANTS
  TypeOK
  CoherentUnlessDrifted
  NoDanglingLink
