SPECIFICATION Spec
CONSTANTS
  covered = covered
  plain = plain
  bare = bare
  None = None
  Attempts = {1, 2, 3, 4, 5}
  Request <- MCRequest
  Stream <- MCStream
  ExitCode <- MCExitCode
  ObjSize <- MCObjSize
  NotesSize <- MCNotesSize
  WantsNotes = {covered, bare}
  ChunkSize = 2
  MaxFailures = 1
  MaxBreaks = 1
  MaxInterrupts = 1
INVARIANTS
  NotesBeforeObj
  DoneIsWhole
  StreamStaysInStep
CHECK_DEADLOCK FALSE
