SPECIFICATION FairSpec
CONSTANTS
  Workloads <- MCWorkloads
  Parts = 2
  Fragments = 2
  GeneratedCapacity <- MCGeneratedCapacity
  InputCapacity = 2
  WriteCapacity <- MCWriteCapacity
  OutstandingLimit = 2
INVARIANTS TypeOK CompletedWhenWritten ReadsInProgramOrder
PROPERTIES InOrderRetirement AllRetired
CHECK_DEADLOCK FALSE
