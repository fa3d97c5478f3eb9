SPECIFICATION FairSpec
CONSTANTS
  Devices = {"plc", "drive"}
  Calls = {1, 3}
  Hosts <- MCHosts
  MaxSockets = 4
  MaxDisconnects = 2
INVARIANTS
  TypeOK
  ListeningHasSocket
  QueueIsDriven
PROPERTIES
  IdentityCallsEnd
CHECK_DEADLOCK FALSE
