SPECIFICATION FairSpec
CONSTANTS
  MyId <- TestId
  Controllers = {101}
  Sources <- Alone
  ListenerIds = {42, 43}
  ListenerUids = {42}
  Arrivals <- TwoConnects
  ErrorStatuses = {}
  TimeoutRange = 65536
  StartTimes <- LongAfterEpoch
  TimeSteps = {}
  MaxNow = 70000000
  NoCmd = NoCmd
  NoInfo = NoInfo
CHECK_DEADLOCK FALSE
PROPERTIES
  ConnectCommandHandled
