SPECIFICATION FairSpec
CONSTANTS
  None = None
  Sessions = {s1, s2, s3}
  MaxStreams = 2
  ReadyCap = 1
  MaxParallel = 1
  NoticesAtOnce = TRUE
INVARIANTS
  ReadySessionIsSentOnce
  AwaitedObjArrives
PROPERTIES
  QueuedIsCompiled
CHECK_DEADLOCK FALSE
