CONSTANTS
  MaxRows = 1
  MaxTicks = 2
  MaxCancels = 2
  ChanCap = 2
  Watched = FALSE
  Faults = {"abort", "fail", "panic", "persist"}
SPECIFICATION FairSpec
INVARIANTS
  TicksInOrder
  FinalReportIsComplete
  PersistedBeforeAnnounced
  ForceKillIsRecorded
PROPERTIES
  ForwardersEnd
CHECK_DEADLOCK FALSE
