SPECIFICATION MixSpec
CONSTANTS
  Pipes <- AllPipes
  Words <- AllWords
  IssueDepth <- Issues
  CommandDepth <- Receives
  OutstandingLimit <- Limits
  MaxId = 5
  Mixes <- JustCube
INVARIANT RunningPredecessor
CHECK_DEADLOCK FALSE
