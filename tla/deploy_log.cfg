SPECIFICATION FairSpec
CONSTANTS
  None = None
  Length = 4
  KeyOf <- Lines
  MaxLines = 4
  MaxConnections = 2
INVARIANTS
  TypeOK
  NoGap
  PauseDefers
  OneRowPerKey
PROPERTY StreamEnds
CHECK_DEADLOCK FALSE
