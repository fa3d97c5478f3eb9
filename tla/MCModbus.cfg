SPECIFICATION FairSpec
CONSTANTS
  Requests = {1, 2, 3}
  TransactionIDs = 4
  FirstTransaction <- MCFirstTransaction
  MaxCoalesced = 2
  MaxSockets = 3
  IdleTimeout = TRUE
  MayClose = TRUE
  MayDisconnect = TRUE
  ResendOnError = TRUE
  TcpMessages <- MCTcpMessages
INVARIANTS
  TypeOK
  StateMatchesSocket
  PendingIsFiled
  PendingIsUnderWay
PROPERTIES
  LegalTransitions
  NothingSentAfterRejection
  ImplementsService
  RequestsSettle
CHECK_DEADLOCK FALSE
