SPECIFICATION FairSpec
CONSTANTS
  Calls = {1, 2}
  Operations <- MCOperations
  Ids <- MCIds
  TypeOf <- MCTypeOf
  System = {3}
  Members <- MCMembers
  Bytes <- MCBytes
  Large = {1}
  TagBytes = 5
  Fit = 2
  MaxRetry = 1
  MayRefuse = TRUE
INVARIANTS
  TypeOK
  ListIsComplete
  TemplateIsWhole
PROPERTIES
  CallsEnd
CHECK_DEADLOCK FALSE
