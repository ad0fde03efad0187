SPECIFICATION FairSpec
CONSTANTS
  Infos <- TwoEntities
  Calls = {"available"}
  IdRange = 4
  MaxCalls = 2
  MaxTime = 3
  Unset = Unset
CHECK_DEADLOCK FALSE
PROPERTIES
  ExpiredRemoved
