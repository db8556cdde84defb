CONSTANTS
  Procs = {p1, p2}
  Threads = {t1}
  Callers <- AllCallers
  MaxSessions = 2
  MaxCrashes = 1
SPECIFICATION Spec
INVARIANT JarFileIsWhole
