SPECIFICATION Spec
CONSTANTS
  HeaderLength = 2
  LengthFieldEnd = 1
  FrameLengths <- MCFrameLengths
  GarbageLength = 3
  LockStep = TRUE
  MaxBytes = 8
  MaxConnections = 2
INVARIANTS
  WholeFramesAfterReconnect
CHECK_DEADLOCK FALSE
