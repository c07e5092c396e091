SPECIFICATION Spec
CONSTANTS
  i1 = i1
  i2 = i2
  None = None
  Attempts = {i1, i2}
  MaxFiles = 1
  QueueCap = 1
  MaxUploadErrs = 2
  MaxBreaks = 1
SYMMETRY AttemptSymmetry
INVARIANTS
  UploadsAreOwed
  CompiledOnlyIfReceived
  LostObjFailsItsAttempt
CHECK_DEADLOCK FALSE
