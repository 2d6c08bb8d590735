SPECIFICATION MixSpec
CONSTANTS
  Pipes <- AllPipes
  Words <- AllWords
  IssueDepth <- Issues
  CommandDepth <- Receives
  OutstandingLimit <- Limits
  MaxId = 5
  Mixes <- OrderMixes
INVARIANTS TypeOK NoStrandedEvent PublishedAfterOlder EventsKeepOrder DrainedStaysDrained
CHECK_DEADLOCK FALSE
