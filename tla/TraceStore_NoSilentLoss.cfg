CONSTANTS
  Traces = {t1, t2, t3}
  NoTrace = NoTrace
  QueueSize = 1
  MaxRestarts = 0
SPECIFICATION Spec
INVARIANT NoSilentLoss
CHECK_DEADLOCK FALSE
