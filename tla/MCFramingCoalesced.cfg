SPECIFICATION Spec
CONSTANTS
  HeaderLength = 2
  LengthFieldEnd = 1
  FrameLengths <- MCFrameLengths
  GarbageLength = 3
  LockStep = FALSE
  MaxBytes = 8
  MaxConnections = 1
INVARIANTS
  NoFrameLost
CHECK_DEADLOCK FALSE
