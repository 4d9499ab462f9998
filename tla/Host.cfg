CONSTANTS
  Chunk = 1
  Low = 0
  High = 1
  Most = 3
  RecvRoom = 1
  SendRoom = 1
  Scopes <- MCScopes
  Ids = {1, 2, 3}
  TestPlans <- MCTestPlans
  Names = {"proxy", "q"}
  FirstName = "proxy"
  Strokes <- MCStrokes
  Instances = {"A", "B"}
  Importer = "A"
  Launches = {"w", "x", "y"}
  KeepUnpinned = 1
  KeepMost = 2
  LastId = 2
  Chores <- MCChores
  Profiles = {"p", "q"}
  Loads = {1, 2, 3, 4, 5}
  Cap = 1
  Budgets <- MCBudgets
SPECIFICATION MCSpec
CHECK_DEADLOCK FALSE
INVARIANTS
    StreamSound
    TestSound
    PageSound
    FileSound
    RecentSound
PROPERTIES
    OneOutcome
