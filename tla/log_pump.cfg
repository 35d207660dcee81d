\* Two streams of up to three pieces, a channel with one place: it fills up
\* with the reader in the middle of a frame.
SPECIFICATION Spec
CONSTANTS
  Sinks = {"stdout", "stderr"}
  Capacity = 1
  MaxPieces = 3
CHECK_DEADLOCK FALSE
INVARIANTS
  TypeOK
  LinesAreWhole
  EndIsWhole
  ErrorIsShown
PROPERTY
  EngineIsReleased
