CONSTANTS
  e1 = e1
  e2 = e2
  s1 = s1
  p1 = p1
  Studios = {s1}
  Clis = {p1}
  Execs = {e1, e2}
  Name <- SameName
  TTL = 1
  WalkMax = 1
  Scenes <- SomeScenes
SPECIFICATION Spec
INVARIANTS
  OpenMeansWhole
  RowsAreBacked
  ListsAreRecent
CHECK_DEADLOCK FALSE
