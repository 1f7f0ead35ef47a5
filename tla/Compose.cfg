CONSTANTS
  Requests = {r1, r2}
  NoTrace = NoTrace
  QueueSize = 1
  MaxRestarts = 1
  Passwords = {p1, p2}
  FirstPassword = p1
  NoRole = NoRole
  MaxFaults = 2
SPECIFICATION ComposeFairSpec
INVARIANTS
  DrainsBeforeClosing
  SubmittedOnceAnswered
  GateHolds
PROPERTIES
  ChatNeverWaits
  ChatComesBack
CHECK_DEADLOCK FALSE
