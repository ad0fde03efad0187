SPECIFICATION FairSpec
CONSTANTS
  MyId = 42
  DiscoverIds = {0, 41}
  Changes <- OneGrandmaster
  LinkChanges = {FALSE}
  IndexRange = 2
  MaxQueue = 1
  MaxRequests = 1
  Unset = Unset
CHECK_DEADLOCK FALSE
INVARIANTS
  TypeOK
  DiscoverKept
PROPERTIES
  IndexRises
  DiscoverAnswered
  KeepsAdvertising
  Terminates
