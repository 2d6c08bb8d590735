SPECIFICATION FairMixSpec
CONSTANTS
  Keys <- AllKeys
  AlmostFull = 1
  Capacity = 2
  StageDelay <- Stages
  TransferMemories = {"L0a"}
  TickWrap = 2
  MaxTick = 3
  MaxId = 4
  Mixes <- BothMixes
INVARIANTS TypeOK NoStrandedSet TokenConservation
PROPERTIES SetsReleasedInOrder RetiredWithItsFlags AdvanceEnds
CHECK_DEADLOCK FALSE
