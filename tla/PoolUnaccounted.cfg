CONSTANTS
  NumRows = 3
  ParseErrors = {}
  SkipSeqs = {}
  OnlyRowIds = {}
  RowLimit = {}
  Size <- SizeUnit
  RowHardCap = 5
  BytesTarget = 5
  BytesMax = 5
  Mode = "row"
  BatchSize = 1
  NumWorkers = 1
  Stateful = FALSE
  RowCap = 3
  JobCap = 3
  Clogging = {}
  Verdict <- Alternate
  Faults = {"crash"}
SPECIFICATION Spec
INVARIANTS
  EveryRowInABucket
