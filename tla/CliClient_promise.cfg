CONSTANTS
  MaxChildren = 3
  MaxLongPolls = 2
  NaN = NaN
  Gap = Gap
  TrimDays = 3
  MinOverlapDays = 2
  CorrTopK = 2
  CorrInputs <- Inputs
SPECIFICATION FairCliSpec
INVARIANT CliTypeOK
INVARIANT ChildrenAreResolved
INVARIANT BestEffort
INVARIANT FulfilledIsTrue
INVARIANT RejectionIsTrue
INVARIANT SurfacesAgree
INVARIANT ReportIsFiledOnce
INVARIANT CorrIsReference
PROPERTY PromiseSettles
CHECK_DEADLOCK FALSE
