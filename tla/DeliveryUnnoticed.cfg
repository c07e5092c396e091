SPECIFICATION Spec
CONSTANTS
  None = None
  Sessions = {s1, s2}
  MaxStreams = 2
  ReadyCap = 1
  MaxParallel = 1
  NoticesAtOnce = FALSE
INVARIANTS
  AwaitedObjArrives
CHECK_DEADLOCK FALSE
