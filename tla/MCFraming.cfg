SPECIFICATION FairSpec
CONSTANTS
  HeaderLength = 2
  LengthFieldEnd = 1
  FrameLengths <- MCFrameLengths
  GarbageLength = 3
  LockStep = TRUE
  MaxBytes = 8
  MaxConnections = 2
INVARIANTS
  TypeOK
  NoByteTwice
  WholeFrames
  NoFrameLost
PROPERTIES
  InOrder
  FrameArrives
CHECK_DEADLOCK FALSE
