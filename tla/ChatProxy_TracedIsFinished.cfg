CONSTANTS
  Requests = {r1}
  MaxLines = 5
SPECIFICATION ProxySpec
INVARIANT TracedIsFinished
CHECK_DEADLOCK FALSE
