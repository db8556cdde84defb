CONSTANTS
  Procs = {p1}
  Threads = {t1, t2}
  Callers <- AllCallers
  MaxSessions = 2
  MaxCrashes = 1
SPECIFICATION Spec
INVARIANT WipedStaysWiped
INVARIANT FileKeepsUp
PROPERTY SavesMoveForward
