CONSTANTS
  Calls = {c1, c2, c3}
  Batches = {2, 11}
  OptSims = 2
  OptSubmits = 1
  OptMaxSims = 1
  MaxRetries = 1
  LastDay = 2
SPECIFICATION Spec
SYMMETRY CallSymmetry
INVARIANT TypeOK
INVARIANT CountersMatchCalls
INVARIANT OverrunNeedsStraggler
INVARIANT SlotsMatchCalls
INVARIANT ExecutionsWithinUnits
CHECK_DEADLOCK FALSE
