SPECIFICATION Spec
CONSTANTS
  a = a
  b = b
  e = e
  s1 = s1
  s2 = s2
  None = None
  Stray = Stray
  Cron = Cron
  Starts = {a, b}
  Stops = {e}
  Sessions = {s1, s2}
  CoverageSessions = {s1, s2}
  Untargeted = {s2}
  CxxOutcomes = {"same", "other", "missing"}
  CoverageOutcomes = {"same", "broken"}
INVARIANTS
  NewInstanceIsCreated
CHECK_DEADLOCK FALSE
