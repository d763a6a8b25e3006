CONSTANTS
  NumRows = 3
  ParseErrors = {}
  SkipSeqs = {}
  OnlyRowIds = {}
  RowLimit = {}
  Size <- SizeUnit
  RowHardCap = 5
  BytesTarget = 5
  BytesMax = 5
  Mode = "row"
  BatchSize = 1
  NumWorkers = 2
  Stateful = FALSE
  RowCap = 1
  JobCap = 1
  Clogging = {}
  Verdict <- Alternate
  Faults = {"spawn", "crash", "io", "stall", "soft", "hard"}
SPECIFICATION Spec
INVARIANTS
  OnlyFailuresLeaveHandlers
  AnswersMatchRows
  OneSurvivorSuffices
  OperatorCancelIsReal
PROPERTIES
  LogFinalAtReport
