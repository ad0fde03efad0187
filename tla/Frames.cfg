SPECIFICATION Spec
CONSTANTS
  Config <- MCConfig
  Listed <- MCListed
  Sizes <- MCSizes
  ValidTimes <- MCValidTimes
  Macs <- MCMacs
  BufferSize = 510
CHECK_DEADLOCK FALSE
INVARIANTS
  HeaderKept
  LengthTruthful
  LifetimeCovers
  TablesMeet
  ListedReadable
