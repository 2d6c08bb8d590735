CONSTANTS
  StageNum = 4
  GuardTicks = 2
  DelayTicks = 3
  FragmentCount = 8
  FlagLatency = 2
  BankCount = 16
  DataLatency = 2
  Bandwidth = 512
  MainSlots = 8
  FifoDepth = 2
  TotalSlots = 16
  StoreLimit = 2
  BusCapacity = 2
  Programs <- MCMixedPrograms
  MaxHold = 1
  AnswerTicks = 2
  MaxTick = 150
  CubeOutstanding = 2
  FixOutstanding = 2
SPECIFICATION MatrixSpec
INVARIANT NoFixError
CHECK_DEADLOCK FALSE
