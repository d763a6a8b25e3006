CONSTANTS
  NumRows = 7
  ParseErrors = {3}
  SkipSeqs = {0}
  OnlyRowIds = {}
  RowLimit = {4}
  Size <- SizeMixed
  RowHardCap = 8
  BytesTarget = 3
  BytesMax = 8
  Mode = "batch"
  BatchSize = 2
  NumWorkers = 2
  Stateful = FALSE
  RowCap = 2
  JobCap = 1
  Clogging = {}
  Verdict <- Alternate
  Faults = {"io", "protocol", "echo", "soft", "stall"}
SPECIFICATION Spec
INVARIANTS
  BatchWithinCaps
  RowsConserved
  AtMostOnce
  TooLargeNeverDelivered
  OnlyDueRowsTouched
PROPERTIES
  ImplementsAttempt
