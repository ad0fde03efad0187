SPECIFICATION FairSerialSpec
CONSTANTS
  MyId <- TestId
  Controllers = {101}
  Sources <- Three
  ListenerIds = {42, 43}
  ListenerUids = {42, 0}
  Arrivals <- Conversation
  ErrorStatuses = {5}
  TimeoutRange = 65536
  StartTimes <- LongAfterEpoch
  TimeSteps = {}
  MaxNow = 70000000
  NoCmd = NoCmd
  NoInfo = NoInfo
CHECK_DEADLOCK FALSE
PROPERTIES
  ImplementsSequential
  AllServed
