CONSTANTS
  Calls = {c1}
  Kinds = {"plain"}
  OptMaxRetries = 1
  OptMaxLongPolls = 1
  OptBanThreshold = 2
  HintMaxLongPolls = 0
SPECIFICATION Spec
PROPERTY ClearedStaysCleared
