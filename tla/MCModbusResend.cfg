SPECIFICATION FairSpec
CONSTANTS
  Requests = {1, 2, 3}
  TransactionIDs = 4
  FirstTransaction <- MCFirstTransaction
  MaxCoalesced = 1
  MaxSockets = 3
  IdleTimeout = TRUE
  MayClose = FALSE
  MayDisconnect = FALSE
  ResendOnError = TRUE
  TcpMessages <- MCTcpMessages
PROPERTIES
  AllRequestsSettle
CHECK_DEADLOCK FALSE
