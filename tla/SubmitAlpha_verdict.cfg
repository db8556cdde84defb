CONSTANTS
  MaxRetries = 1
  MaxLongPolls = 2
SPECIFICATION FairToolSpec
INVARIANT ToolTypeOK
INVARIANT VerdictIsTrue
INVARIANT PendingIsTold
INVARIANT GateSavesSlots
PROPERTY ToolReturns
CHECK_DEADLOCK FALSE
