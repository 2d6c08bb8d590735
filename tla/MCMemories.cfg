SPECIFICATION MemoriesSpec
CONSTANTS
  BankWidth = 2
  BankCount = 2
  GroupCount = 2
  GroupSize = 4
  TransportCapacity = 1
  ResponseTicks <- Answers
  Accesses <- Clients
  Budget <- Budgets
  ServiceRequests = {"sr", "mw", "mw2", "mw3"}
  VectorRequests = {"vw", "vr"}
  UbPortOf <- MCUbPortOf
  UbBlocksOf <- MCUbBlocksOf
  BankGroups = 2
  PartialWriteTicks = 1
  UbResponseTicks <- MCUbResponseTicks
  ScalarUsesVectorPorts = TRUE
  ReadTags = {"rd", "rm"}
  WriteTags = {"wd", "wm"}
  Owner <- MCOwner
  Region <- MCRegion
  Bytes <- MCBytes
  Beats <- MCBeats
  ReadPorts <- MCReadPorts
  WritePorts = 1
  ReadLimit = 1
  WriteLimit = 1
  InputCapacity = 1
  PendingLimit = 1
  CreditLimit <- MCCreditLimit
  Refill <- MCRefill
  CreditPeriod = 2
  Latency <- MCLatency
  CacheCapacity = 1
  Uses = 1
INVARIANTS AcceptedAsArbitrated BankExclusive CreditsHold
PROPERTIES InOrderService MemoriesServed
CHECK_DEADLOCK FALSE
