CONSTANTS
  Calls = {c1, c2, c3}
  Batches = {2}
  OptSims = 1
  OptSubmits = 1
  OptMaxSims = 1
  MaxRetries = 0
  LastDay = 2
SPECIFICATION Spec
SYMMETRY CallSymmetry
INVARIANT BudgetPerDay
CHECK_DEADLOCK FALSE
