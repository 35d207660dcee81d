SPECIFICATION Spec
CONSTANTS
  None = None
  Empty = Empty
  Apps = {"a1"}
  Creds = {"token"}
  Keys = {"k1"}
  Texts = {"x"}
  Requests = {"r1"}
  Faults = {}
INVARIANT DeployHandsOverValues
