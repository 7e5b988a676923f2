CONSTANTS
  plan_node = plan_node
  code_node = code_node
  docs_node = docs_node
  first = first
  second = second
  Nodes <- MCNodes
  depends_on <- MCDepends
  Executions <- MCExecutions
  MaxConcurrent = 1
  MaxEdits = 1
  MaxMishaps = 1
SPECIFICATION FairSpec
INVARIANTS
  TypeOK
  ExecutionAlone
  DependenciesDone
  DoneLeavesNoError
PROPERTIES
  ImplementsLease
  EditKept
  PlanEnds
CHECK_DEADLOCK FALSE
