SPECIFICATION Spec
CONSTANTS
  covered = covered
  plain = plain
  bare = bare
  None = None
  Attempts = {1, 2, 3, 4, 5}
  Request <- MCRequest
  Stream <- MCStream
  ExitCode <- MCExitCode
  ObjSize <- MCObjSize
  NotesSize <- MCNotesSize
  WantsNotes = {covered, bare}
  ChunkSize = 2
  MaxFailures = 0
  MaxBreaks = 0
  MaxInterrupts = 1
INVARIANTS
  FromOneCompilation
CHECK_DEADLOCK FALSE
