SPECIFICATION Spec
CONSTANTS
  Sessions = {s1, s2, s3}
  cpp = cpp
  Cpp = cpp
  a = a
  b = b
  x = x
  Headers <- MCHeaders
  Contents <- MCContents
  CxxArgs <- MCCxxArgs
  WithCoverage = {s2}
INVARIANT ReusedOnlyIfTheSame
CHECK_DEADLOCK FALSE
