SPECIFICATION FairSpec
CONSTANTS
  None = None
  Empty = Empty
  Apps = {"a1"}
  Creds = {"token", "password"}
  Keys = {"k1", "k2"}
  Texts = {"x"}
  Requests = {"r1", "r2"}
  Faults = {"db", "crash"}
INVARIANTS
  TypeOK
  ServingIsSealed
  ReadsBack
  OneSetHandedOver
PROPERTY ConnectionIsFreed
