SPECIFICATION VectorSpec
CONSTANTS
  UbBytes = 4096
  Issues <- MCIssues
  Catalogue <- MCCatalogue
  Programs <- MCPrograms
  DispatchTicks = 2
  UopIssueInterval = 1
  VisibleTicks = 1
  IssueQueueCapacity = 2
  OutstandingLimit = 3
  Deadline = 100
  BankGroups = 16
  PartialWriteTicks = 6
INVARIANTS ExecutedAsPlanned TrafficCovered PipelineInOrder
PROPERTIES PredictionsKept
CHECK_DEADLOCK FALSE
