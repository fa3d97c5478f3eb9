SPECIFICATION Spec
CONSTANTS
  Calls = {1, 2}
  Operations <- MCOperations
  Ids <- MCIds
  TypeOf <- MCTypeOf
  System = {3}
  Members <- MCMembers
  Bytes <- MCBytes
  Large = {1}
  TagBytes = 5
  Fit = 2
  MaxRetry = 1
  MayRefuse = TRUE
INVARIANTS
  InfoIsOfTheTag
CHECK_DEADLOCK FALSE
