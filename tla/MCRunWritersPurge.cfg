CONSTANTS
  m0 = m0
  Targets <- MCTargets
  Metas <- MCMetas
  NoMeta = m0
  Counts <- MCCounts
  NoCount = 0
  Absent = Absent
  Torn = Torn
  Gone = Gone
  CompactAt = 3
  MaxCrashes = 2
SPECIFICATION SpecPurge
PROPERTY PurgeKeepsOutcome
CHECK_DEADLOCK FALSE
