CONSTANTS
  k1 = k1
  k2 = k2
  Keys <- OneKey
  MaxRuns = 2
  MaxSlots = 1
  MaxEdits = 0
  MaxCrashes = 0
SPECIFICATION Spec
INVARIANT OneActivePerKey
CHECK_DEADLOCK FALSE
