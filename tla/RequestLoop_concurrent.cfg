CONSTANTS
  Calls = {c1, c2}
  Kinds = {"plain"}
  OptMaxRetries = 1
  OptMaxLongPolls = 1
  OptBanThreshold = 2
  HintMaxLongPolls = 2
SPECIFICATION Spec
SYMMETRY CallSymmetry
INVARIANT BanIsEarned
INVARIANT NoBanLost
INVARIANT ReasonFollowsBan
PROPERTY KeepsPromise
