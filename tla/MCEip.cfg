SPECIFICATION FairSpec
CONSTANTS
  Requests = {1, 2}
  Unconnected <- MCUnconnected
  Users = {8}
  Command <- MCCommand
  Octets = 2
  ContextBytes = 2
  FirstContext <- MCFirstContext
  MayRefuse = TRUE
  MayFail = TRUE
  MayClose = TRUE
  MaxTicks = 1
  MaxSockets = 2
  IdleTimeout = TRUE
  TcpMessages <- MCTcpMessages
INVARIANTS
  TypeOK
  SessionIsRegistered
  PendingHasRoute
PROPERTIES
  OnlyInSession
  ImplementsService
  RequestsSettle
CHECK_DEADLOCK FALSE
