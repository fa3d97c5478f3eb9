SPECIFICATION FairSpec
CONSTANTS
  Requests = {1, 2, 3}
  Connected = {1, 2}
  SequenceCounts = 3
  LargeOptions = {TRUE}
  Leftovers <- MCLeftovers
  SupportsLarge = FALSE
  MayRefuse = TRUE
  MayClose = TRUE
  MayLose = TRUE
  MaxSerial = 8
  MaxSessions = 2
INVARIANTS
  TypeOK
  ConnectingEnds
  ConnectionIsOpen
  QueueIsDriven
  PendingHasRoute
  NoLeakedConnection
PROPERTIES
  NothingSentAfterRejection
  ImplementsService
  RequestsSettle
  CloseEnds
CHECK_DEADLOCK FALSE
