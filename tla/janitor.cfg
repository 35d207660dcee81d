SPECIFICATION JanitorSpec
CONSTANTS
  a1 = a1
  d1 = d1
  d2 = d2
  None = None
  Apps = {a1}
  Names = {"n1"}
  Deploys = {d1, d2}
  ComposeApps = {a1}
  Events = {"crash"}
  Requests = {"r1"}
  Ops = {"action"}
  Strays = {"f1"}
  AppOf <- OneApp
SYMMETRY Symmetry
INVARIANTS
  JanitorTypeOK
  LogsAreKept
PROPERTIES
  PruneSparesCurrent
CHECK_DEADLOCK FALSE
