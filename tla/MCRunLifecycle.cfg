CONSTANTS
  k1 = k1
  k2 = k2
  Keys <- TwoKeys
  MaxRuns = 2
  MaxSlots = 1
  MaxEdits = 1
  MaxCrashes = 1
SPECIFICATION Spec
SYMMETRY AnyKey
INVARIANTS
  TypeOK
  RunningHasPipeline
  WorkerRunsOnce
  SlotsRespected
  NothingRunsUnapproved
  DuplicatesWereStale
PROPERTY OutcomeIsFinal
CHECK_DEADLOCK FALSE
