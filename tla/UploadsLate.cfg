SPECIFICATION Spec
CONSTANTS
  a = a
  b = b
  c = c
  h = h
  p = p
  sys = sys
  v1 = v1
  v2 = v2
  None = None
  Sessions = {a, b}
  Streams = {u1}
  FileNames = {h}
  Shas = {v1, v2}
  Required <- EditedRequired
  ShaOf <- OneVersion
  SystemHeaders = {}
  SystemSha <- SystemV1
  PchFiles = {}
  CachedShas = {}
  CachedObjs = {}
  MayFail = {}
  MayHang = {h}
INVARIANTS
  StreamsOnlyEnd
CHECK_DEADLOCK FALSE
