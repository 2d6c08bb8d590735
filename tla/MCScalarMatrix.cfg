CONSTANTS
  StageNum = 4
  GuardTicks = 2
  DelayTicks = 3
  FragmentCount = 8
  FlagLatency = 2
  BankCount = 16
  DataLatency = 2
  Bandwidth = 512
  MainSlots = 8
  FifoDepth = 2
  TotalSlots = 16
  StoreLimit = 2
  BusCapacity = 2
  Programs <- MCPrograms
  MaxHold = 2
  AnswerTicks = 2
  MaxTick = 150
  CubeOutstanding = 2
  FixOutstanding = 2
  Bits = 16
  Sprs = {2, 3, 11, 67, 68, 90}
  LocalBits = 6
  AddressBits = 15
  JumpSignBit = 11
  UbCells = 24
  FloatEvaluate <- MCFloatEvaluate
  ConversionEvaluate <- MCConversionEvaluate
  AtomicCombine <- MCAtomicCombine
  LineCells = 8
  IngressLimit = 2
  RetireLimit = 64
  MaxAnswer = 6
  MaxRefusal = 2
  MaxScalarTick = 75
  ScalarPrograms <- MCScalarPrograms
  ProbedWords <- MCProbedWords
  ProbedXregs <- MCProbedXregs
  Perturbations = {60, 61}
  Buffers = {0, 1}
  RingSize = 3
  DirectReleases = {TRUE, FALSE}
  QueueCapacity = 2
  SlotCount = 2
  SlotPushes = 4
  BufferPrograms <- MCBufferPrograms
  MaxBufferTick = 5
  Cores = {"c1", "c2"}
  FlagIds = {0, 1, 2, 256}
  CreditLimit = 1
  FlagPrograms <- MCFlagPrograms
  MaxResets = 1
  Bandwidths <- MCBandwidths
  ReadLatencies = {1, 6}
  WriteLatency = 2
  DmaPrograms <- MCDmaPrograms
  MaxDmaTick = 180
  OutPrograms <- MCOutPrograms
  MaxOutTick = 320
SPECIFICATION HostSpec
INVARIANTS UnitFlagsConsistent MovesItsResult TicketExact CommandsComplete ScalarAgrees HandshakesHold TransfersExact
CHECK_DEADLOCK FALSE
