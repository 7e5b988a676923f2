CONSTANTS
  r1 = r1
  r2 = r2
  p1 = p1
  p2 = p2
  p3 = p3
  Runs <- MCRuns
  Pipelines <- MCPipelines
  run_of <- MCRunOf
  MaxMishaps = 2
SPECIFICATION FairSpec
INVARIANTS
  TypeOK
  MergedPassedGate
  LandedIsDone
PROPERTIES
  ImplementsLease
  GateEnds
CHECK_DEADLOCK FALSE
