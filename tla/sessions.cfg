SPECIFICATION Spec
CONSTANTS
  None = None
  t1 = t1
  r1 = r1
  r2 = r2
  t2 = t2
  Users = {"u1"}
  Browsers = {"b1"}
  Requests = {r1, r2}
  Addresses = {"i1"}
  Tokens = {t1, t2}
  TTL = 3
  Window = 1
  Limit = 1
  Delay = 1
  MaxNow = 4
  MaxVersion = 1
INVARIANTS
  TypeOK
  AtMostLimit
  SlidingWindow
  OldSessionsAreLate
PROPERTIES
  EndedStaysEnded
SYMMETRY Alike
CHECK_DEADLOCK FALSE
