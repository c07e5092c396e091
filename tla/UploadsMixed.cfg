SPECIFICATION Spec
CONSTANTS
  a = a
  b = b
  c = c
  h = h
  p = p
  sys = sys
  v1 = v1
  v2 = v2
  None = None
  Sessions = {a, b, c}
  Streams = {u1}
  FileNames = {h, sys}
  Shas = {v1, v2}
  Required <- MixedRequired
  ShaOf <- MixedShas
  SystemHeaders = {sys}
  SystemSha <- SystemV1
  PchFiles = {h}
  CachedShas = {v1}
  CachedObjs = {}
  MayFail = {}
  MayHang = {h}
INVARIANTS
  TypeOK
  NoLostWakeup
  LaunchedAtMostOnce
  UploadingIsAwaited
CHECK_DEADLOCK FALSE
