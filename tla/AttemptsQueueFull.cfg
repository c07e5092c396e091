SPECIFICATION FairSpec
CONSTANTS
  i1 = i1
  i2 = i2
  None = None
  Attempts = {i1}
  MaxFiles = 2
  QueueCap = 1
  MaxUploadErrs = 1
  MaxBreaks = 1
PROPERTIES
  DeadQueueNotAwaited
CHECK_DEADLOCK FALSE
