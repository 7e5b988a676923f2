CONSTANTS
  m0 = m0
  m1 = m1
  Targets <- MCTargets
  Metas <- MCMetas
  NoMeta = m0
  Counts <- MCCounts
  NoCount = 0
  Absent = Absent
  Torn = Torn
  Gone = Gone
  CompactAt = 2
  MaxCrashes = 2
SPECIFICATION Spec
INVARIANTS
  TypeOK
  TruncateLosesNothing
  LogBounded
  OutcomeInBase
PROPERTY ImplementsRecord
\* A run that was removed or cannot be read takes no further call.
CHECK_DEADLOCK FALSE
