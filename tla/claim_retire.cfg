\* Two deploys, one after the other, with nothing that goes wrong.
SPECIFICATION Spec
CONSTANTS
  a1 = a1
  a2 = a2
  d1 = d1
  d2 = d2
  d3 = d3
  None = None
  Apps = {a1}
  Names = {"n1"}
  Deploys = {d1, d2}
  ComposeApps = {}
  Events = {}
  AppOf <- OneApp
INVARIANT OldIsRetired
CHECK_DEADLOCK FALSE
