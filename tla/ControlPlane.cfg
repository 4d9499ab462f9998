SPECIFICATION MCSpec
CONSTANTS
  Pids = {1, 2}
  Scopes <- MCScopes
  Clients = {1, 2}
  Packages = {"a", "b"}
  Slots = {1, 2, 3}
  Plans <- MCPlans
CHECK_DEADLOCK FALSE
INVARIANTS
    GuardJust
    ChildrenSettled
    PipeSound
