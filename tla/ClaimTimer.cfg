SPECIFICATION SerialSpec
CONSTANTS
  MyId <- TestId
  Controllers = {101}
  Sources <- Alone
  ListenerIds = {42}
  ListenerUids = {42}
  Arrivals <- OnlyConnect
  ErrorStatuses = {}
  TimeoutRange = 65536
  StartTimes <- LongAfterEpoch
  TimeSteps = {}
  MaxNow = 70000000
  NoCmd = NoCmd
  NoInfo = NoInfo
CHECK_DEADLOCK FALSE
INVARIANTS
  NotBeforeTimeout
