CONSTANTS
  r1 = r1
  r2 = r2
  r3 = r3
  p1 = p1
  p2 = p2
  Runs = {r1, r2}
  Rows = {0}
  Kinds = {"success", "error"}
  Procs = {p1, p2}
  Execs = {e1}
  Home <- OneWindow
  WorkspaceLimit = 2
  Policies = {"skip", "force"}
  Overlap = FALSE
  Events = {"crash", "quiet"}
  MaxCores = 3
SPECIFICATION FairSpec
INVARIANTS
  OneRunPerExecution
  SkipHonoured
PROPERTIES
  CanonicalIsStable
  RunsAreClosed
CHECK_DEADLOCK FALSE
