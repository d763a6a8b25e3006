CONSTANTS
  r1 = r1
  r2 = r2
  r3 = r3
  p1 = p1
  p2 = p2
  Runs = {r1, r2}
  Rows = {0}
  Kinds = {"success", "too_large"}
  Procs = {p1}
  Execs = {e1}
  Home <- Mixed
  WorkspaceLimit = 1
  Policies = {"skip", "retry"}
  Overlap = TRUE
  Events = {"crash", "quiet", "delete", "set_state", "reopen"}
  MaxCores = 2
SPECIFICATION Spec
INVARIANTS
  FoldIsDerivation
  AttemptsHaveAnExecution
PROPERTIES
  VerdictIsFinal
  ResolvedIsAbsorbing
CHECK_DEADLOCK FALSE
