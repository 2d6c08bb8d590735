SPECIFICATION FairMixSpec
CHECK_DEADLOCK FALSE
CONSTANTS
  Lines <- AllLines
  Operations <- AllOperations
  Offsets <- TwoBytes
  Ways = 1
  MissEntries = 1
  MissSubs = 2
  StoreEntries = 1
  StoreSubs = 2
  Timeout = 2
  DirectCapacity = 1
  ReadCapacity = 1
  WriteCapacity = 1
  CacheUb = FALSE
  UbWriteAllocate = FALSE
  Capacity = 3
  MaxRequests = 3
  Mixes <- ProgressMixes
PROPERTIES RequestsComplete
