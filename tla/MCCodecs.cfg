CONSTANTS
  VendorID = 4921
  OriginatorSerialNumber = 42
  None = None
  Segments <- MCSegments
  Symbols <- MCSymbols
  Values <- MCValues
  Heard <- MCHeard
  Datas <- MCDatas
  Services <- MCServices
  Routes <- MCRoutes
  Options <- MCOptions
  Statuses = {0, 6, 30}
  Headers <- MCHeaders
  PcccFunctions <- MCPcccFunctions
  PcccElements <- MCPcccElements
  Transactions = {0, 65535}
  MaxPath = 2
  MaxParts = 2
SPECIFICATION Spec
INVARIANT SizesAreExact
INVARIANT RoundTrips
CHECK_DEADLOCK FALSE
