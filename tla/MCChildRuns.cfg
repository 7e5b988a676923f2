CONSTANTS
  build = build
  test = test
  Direct = direct
  Tasks <- MCTasks
  depends_on <- MCDepends
  MaxChildren <- MCMaxChildren
  NeedsHuman <- MCNeedsHuman
  MaxRetries = 1
  MaxCrashes = 1
SPECIFICATION FairSpec
INVARIANTS
  TypeOK
  CountExact
  DependenciesFirst
  OneChildPerTask
  WaitsByRequestOnly
  WaitsForSomebody
PROPERTIES
  WakesWhenAllEnded
  PausedParentWakes
CHECK_DEADLOCK FALSE
