SPECIFICATION FairMixSpec
CONSTANTS
  Pipes <- AllPipes
  Words <- AllWords
  IssueDepth <- Issues
  CommandDepth <- Receives
  OutstandingLimit <- Limits
  MaxId = 5
  Mixes <- JustDrain
PROPERTY DrainCompletes
CHECK_DEADLOCK FALSE
