CONSTANTS
  Calls = {c1}
  Kinds = {"logout"}
  OptMaxRetries = 1
  OptMaxLongPolls = 1
  OptBanThreshold = 2
  HintMaxLongPolls = 0
SPECIFICATION Spec
SYMMETRY CallSymmetry
INVARIANT LogoutNeedsDelete
