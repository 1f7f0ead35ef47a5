CONSTANTS
  Runners = {m1, m2}
  NFiles = 2
  MaxAttempts = 1
  MaxRuns = 2
  MaxChanges = 1
SPECIFICATION Spec
SYMMETRY Symmetry
INVARIANTS
  AppliedOnceAndRecorded
  SchemaIsAPrefix
  EditsAreCaught
  FailuresHaveCause
PROPERTIES
  RunsEnd
  HistoryIsImmutable
CHECK_DEADLOCK FALSE
