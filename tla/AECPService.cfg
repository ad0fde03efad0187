SPECIFICATION FairSpec
CONSTANTS
  MyId = 42
  Targets = {42, 43}
  Controllers = {101, 102}
  Statuses = {0}
  Shapes <- Mixture
  Notifications = 2
  NoCmd = NoCmd
  NoFrame = NoFrame
CHECK_DEADLOCK FALSE
INVARIANTS
  TypeOK
  OwnerTold
  AnsweredInOrder
PROPERTIES
  ImplementsService
  Terminates
  AllServed
  NoticeSent
