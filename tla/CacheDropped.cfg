SPECIFICATION FairSpec
CONSTANTS
  k1 = k1
  k2 = k2
  k3 = k3
  Keys = {k1}
  Size <- Sizes
  Workers = {w1}
  Cron = Cron
  HardLimit = 3
  SoftLimit = 2
  MaxSaves = 2
  MaxDrops = 1
  None = None
INVARIANTS
  SavedFindsItsDirectory
CHECK_DEADLOCK FALSE
