CONSTANTS
  NumRows = 5
  ParseErrors = {}
  SkipSeqs = {0, 3}
  OnlyRowIds = {{0, 1, 4, 7}}
  RowLimit = {}
  Size <- SizeUnit
  RowHardCap = 5
  BytesTarget = 5
  BytesMax = 5
  Mode = "batch"
  BatchSize = 2
  NumWorkers = 2
  Stateful = TRUE
  RowCap = 1
  JobCap = 1
  Clogging = {}
  Verdict <- Alternate
  Faults = {"crash", "stall", "soft", "hard"}
SPECIFICATION FairSpec
PROPERTIES
  Terminates
  StatefulInOrder
  EveryDueRowRecorded
