CONSTANTS
  MaxRows = 0
  MaxTicks = 1
  MaxCancels = 1
  ChanCap = 3
  Watched = TRUE
  Faults = {"panic", "persist"}
SPECIFICATION FairSpec
PROPERTIES
  WatcherSettles
CHECK_DEADLOCK FALSE
