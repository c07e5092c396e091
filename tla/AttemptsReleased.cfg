SPECIFICATION Spec
CONSTANTS
  i1 = i1
  i2 = i2
  None = None
  Attempts = {i1}
  MaxFiles = 2
  QueueCap = 2
  MaxUploadErrs = 1
  MaxBreaks = 1
INVARIANTS
  UploadsNeverOverReleased
CHECK_DEADLOCK FALSE
