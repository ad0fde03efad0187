SPECIFICATION FairSpec
CONSTANTS
  Endings = {"interrupt", "normal", "early"}
  MaxFrames = 2
CHECK_DEADLOCK FALSE
INVARIANTS
  TypeOK
  Accounted
  HandedOver
  CalledOnceMore
PROPERTIES
  FramesGoOut
  ExitCompletes
