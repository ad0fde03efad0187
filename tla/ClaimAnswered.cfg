SPECIFICATION FairSpec
CONSTANTS
  MyId = 42
  Targets = {42}
  Controllers = {101, 102}
  Statuses = {0}
  Shapes <- OnlyUnknown
  Notifications = 0
  NoCmd = NoCmd
  NoFrame = NoFrame
CHECK_DEADLOCK FALSE
PROPERTIES
  NotImplementedAnswered
