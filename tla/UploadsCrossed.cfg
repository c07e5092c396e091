SPECIFICATION FairSpec
CONSTANTS
  a = a
  b = b
  c = c
  h = h
  p = p
  sys = sys
  v1 = v1
  v2 = v2
  None = None
  Sessions = {a, b}
  Streams = {u1, u2}
  FileNames = {h, p}
  Shas = {v1, v2}
  Required <- CrossedRequired
  ShaOf <- OneVersion
  SystemHeaders = {}
  SystemSha <- SystemV1
  PchFiles = {p}
  CachedShas = {}
  CachedObjs = {b}
  MayFail = {p}
  MayHang = {}
INVARIANTS
  LaunchedWithFiles
  CompiledFromItsFiles
PROPERTIES
  EverySessionStarts
CHECK_DEADLOCK FALSE
