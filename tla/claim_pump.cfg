\* One stream is enough: a reader at a full channel whose handler has left.
SPECIFICATION Spec
CONSTANTS
  Sinks = {"stdout"}
  Capacity = 1
  MaxPieces = 3
CHECK_DEADLOCK FALSE
PROPERTY
  CancelUnblocks
