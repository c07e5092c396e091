SPECIFICATION PchFairSpec
CONSTANTS
  u1 = u1
  u2 = u2
  u3 = u3
  x = x
  y = y
  z = z
  Uploads = {u1, u2, u3}
  Clients = {x, y, z}
  ClientOf <- MCClientOf
  NoPch = NoPch
INVARIANTS
  LinkedIsComplete
  UploadedHasPch
  CompiledOnce
PROPERTY
  EveryUploadIsAnswered
CHECK_DEADLOCK FALSE
