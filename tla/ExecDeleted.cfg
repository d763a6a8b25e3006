CONSTANTS
  r1 = r1
  r2 = r2
  r3 = r3
  p1 = p1
  p2 = p2
  Runs = {r1, r2}
  Rows = {0}
  Kinds = {"success", "error"}
  Procs = {p1, p2}
  Execs = {e1}
  Home <- OneWindow
  WorkspaceLimit = 1
  Policies = {"skip"}
  Overlap = FALSE
  Events = {"delete", "quiet"}
  MaxCores = 2
SPECIFICATION Spec
INVARIANTS
  NotDeletedUnderARun
CHECK_DEADLOCK FALSE
