CONSTANTS
  c1 = c1
  c2 = c2
  r1 = r1
  b1 = b1
  Calls = {c1, c2}
  Fixtures <- SomeFixtures
  RowLimit = 2
  Clogging = {2}
  Brimming = {1}
  MaxChatter = 1
  Names = {n1, n2}
  Runs = {r1}
  Builders = {b1}
  Ops = {"fork", "rename", "delete", "scaffold", "import"}
  MaxDirs = 2
  Scenes <- SomeScenes
SPECIFICATION FairSpec
INVARIANTS
  SmokeAnswersMatch
  OneHandlerAtWork
  RunsWhatWasSaved
PROPERTIES
  SmokeCallsEnd
CHECK_DEADLOCK FALSE
