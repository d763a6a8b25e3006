CONSTANTS
  Files <- SomeFiles
  AttemptSeq <- TwoAttempts
  BatchRows = 2
  Outcomes = {"success", "error"}
  PageLimit = 1
  Clients = {"export", "page"}
SPECIFICATION Spec
INVARIANTS
  NumbersNameRows
  RetryHandsOutFailures
  ExportIsComplete
  HistoryIsResolution
PROPERTIES
  PagesFollowTheLog
CHECK_DEADLOCK FALSE
