CONSTANTS
  Traces = {t1, t2, t3}
  NoTrace = NoTrace
  QueueSize = 1
  MaxRestarts = 1
SPECIFICATION FairSpec
INVARIANTS
  Conservation
  BoundedLoss
  PendingIsOnce
  CountersTellTheTruth
PROPERTIES
  ImplementsLedger
  PendingResolves
  AcloseReturns
CHECK_DEADLOCK FALSE
