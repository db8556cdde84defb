CONSTANTS
  Stored = 5
  MaxNew = 1
  MaxRemoved = 2
  OptOffset = 1
  Limit = 3
  MaxPage = 2
SPECIFICATION FairSpec
INVARIANT UnchangedListIsRead
INVARIANT InsertionsHideNothing
INVARIANT RemovalsHideFew
PROPERTY ProducerEnds
CHECK_DEADLOCK FALSE
