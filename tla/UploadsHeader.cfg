SPECIFICATION Spec
CONSTANTS
  a = a
  b = b
  c = c
  h = h
  p = p
  sys = sys
  v1 = v1
  v2 = v2
  None = None
  Sessions = {a, b}
  Streams = {u1}
  FileNames = {h, sys}
  Shas = {v1, v2}
  Required <- HeaderRequired
  ShaOf <- HeaderShas
  SystemHeaders = {sys}
  SystemSha <- SystemV1
  PchFiles = {}
  CachedShas = {}
  CachedObjs = {}
  MayFail = {}
  MayHang = {}
INVARIANTS
  DifferingHeaderRefused
CHECK_DEADLOCK FALSE
