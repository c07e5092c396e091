SPECIFICATION PchFairSpec
CONSTANTS
  u1 = u1
  u2 = u2
  u3 = u3
  x = x
  y = y
  z = z
  Uploads = {u1, u2, u3}
  Clients = {x, y, z}
  ClientOf <- MCClientOf
  NoPch = NoPch
\* Each of these is violated: to see how, take one of the others instead.
INVARIANTS
  OneCompilesAtATime
\* UploadedIsUsable
\* CompiledIsLinked
CHECK_DEADLOCK FALSE
