SPECIFICATION SerialSpec
CONSTANTS
  MyId <- DeployedId
  Controllers = {101}
  Sources <- Alone
  ListenerIds = {1000000}
  ListenerUids = {0, 1}
  Arrivals <- OnlyConnect
  ErrorStatuses = {}
  TimeoutRange = 65536
  StartTimes <- LongAfterEpoch
  TimeSteps = {}
  MaxNow = 70000000
  NoCmd = NoCmd
  NoInfo = NoInfo
CHECK_DEADLOCK FALSE
INVARIANTS
  DeclaredSinksKnown
