SPECIFICATION OpsSpec
CONSTANTS
  a1 = a1
  a2 = a2
  d1 = d1
  d2 = d2
  r1 = r1
  r2 = r2
  None = None
  Apps = {a1}
  Names = {"n1"}
  Deploys = {d1}
  ComposeApps = {a1}
  Events = {}
  Requests = {r1}
  Ops = {"delete"}
  AppOf <- OneApp
INVARIANT CurrentStillThereToRemove
CHECK_DEADLOCK FALSE
