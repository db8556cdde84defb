CONSTANTS
  MaxNumber = 4
  OptWorkers = 3
  NumCPU = 2
  MaxRetries = 1
SPECIFICATION FairRegisterSpec
INVARIANT RegisterTypeOK
INVARIANT NoSolutionIsTrue
INVARIANT SolutionIsTrue
INVARIANT RegisteredIsTrue
INVARIANT ErrorMeansLost
PROPERTY RegisterReturns
CHECK_DEADLOCK FALSE
