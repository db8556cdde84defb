CONSTANTS
  Calls = {c1}
  Kinds = {"plain", "submit", "corr", "check", "login", "logout"}
  OptMaxRetries = 2
  OptMaxLongPolls = 1
  OptBanThreshold = 2
  HintMaxLongPolls = 2
SPECIFICATION FairSpec
INVARIANT TypeOK
INVARIANT RequestsBounded
PROPERTY CallsReturn
