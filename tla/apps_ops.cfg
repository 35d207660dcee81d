SPECIFICATION OpsSpec
CONSTANTS
  a1 = a1
  a2 = a2
  d1 = d1
  d2 = d2
  r1 = r1
  r2 = r2
  None = None
  Apps = {a1, a2}
  Names = {"n1", "n2"}
  Deploys = {d1}
  ComposeApps = {a2}
  Events = {"shutdown"}
  Requests = {r1, r2}
  Ops = {"action", "reconcile", "orphan", "delete", "rename", "create"}
  AppOf <- OneApp
SYMMETRY Symmetry
INVARIANTS
  OpsTypeOK
  EdgeIsOwn
CHECK_DEADLOCK FALSE
