SPECIFICATION FairSpec
CONSTANTS
  i1 = i1
  i2 = i2
  None = None
  Attempts = {i1}
  MaxFiles = 2
  QueueCap = 2
  MaxUploadErrs = 2
  MaxBreaks = 2
PROPERTIES
  EveryAttemptEnds
CHECK_DEADLOCK FALSE
