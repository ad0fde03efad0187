SPECIFICATION FairSpec
CONSTANTS
  MyId <- TestId
  Controllers = {101}
  Sources <- Alone
  ListenerIds = {42, 43}
  ListenerUids = {42, 0}
  Arrivals <- Retries
  ErrorStatuses = {}
  TimeoutRange = 65536
  StartTimes <- Epoch
  TimeSteps = {70000000}
  MaxNow = 70000000
  NoCmd = NoCmd
  NoInfo = NoInfo
CHECK_DEADLOCK FALSE
INVARIANTS
  TypeOK
  OnlyOwnSink
  FrameProvenance
  CostBounded
PROPERTIES
  Terminates
  QueueDrains
