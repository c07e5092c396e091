SPECIFICATION FairSpec
CONSTANTS
  k1 = k1
  k2 = k2
  k3 = k3
  Keys = {k1, k2, k3}
  Size <- Sizes
  Workers = {w1, w2}
  Cron = Cron
  HardLimit = 3
  SoftLimit = 2
  MaxSaves = 3
  MaxDrops = 1
  None = None
INVARIANTS
  ListIsTable
  SizeAccounted
  FilesMatchTable
PROPERTIES
  PurgeEnds
  SavedIsCached
  ImplementsLru
CHECK_DEADLOCK FALSE
