SPECIFICATION Spec
CONSTANTS
  Requests = {1}
  Connected = {1}
  SequenceCounts = 3
  LargeOptions = {TRUE, FALSE}
  Leftovers <- MCLeftovers
  SupportsLarge = FALSE
  MayRefuse = FALSE
  MayClose = FALSE
  MayLose = FALSE
  MaxSerial = 8
  MaxSessions = 2
INVARIANTS
  ResendIsConnected
CHECK_DEADLOCK FALSE
