CONSTANTS
  m0 = m0
  Targets <- MCTargets
  Metas <- MCMetas
  NoMeta = m0
  Counts <- MCCounts
  NoCount = 0
  Absent = Absent
  Torn = Torn
  Gone = Gone
  CompactAt = 3
  MaxCrashes = 0
SPECIFICATION SpecRequeue
INVARIANT RequeuedIsPending
CHECK_DEADLOCK FALSE
