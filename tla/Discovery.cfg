SPECIFICATION FairSpec
CONSTANTS
  Infos <- TwoEntities
  Calls <- EveryCall
  IdRange = 4
  MaxCalls = 2
  MaxTime = 3
  Unset = Unset
CHECK_DEADLOCK FALSE
INVARIANTS
  TypeOK
  PassInv
PROPERTIES
  ImplementsTable
  NoticeTaken
  Forgotten
  Terminates
