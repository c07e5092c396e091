SPECIFICATION FairSpec
CONSTANTS
  r1 = r1
  r2 = r2
  None = None
  Requests = {r1, r2}
  NHosts = 2
  Kinds <- SomeKinds
  StartIndex <- StartFirst
  Refused <- RefusedFirst
  OldServers = {}
  RemoteRetries = 1
  DisableLocalFallback = FALSE
  MaxLocalCxx = 1
  MaxReconnects = 1
  MaxBreaks = 1
PROPERTIES
  RefusedByAll
CHECK_DEADLOCK FALSE
