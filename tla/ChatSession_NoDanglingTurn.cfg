CONSTANTS
  Requests = {r1}
  MaxPrompts = 3
  MaxLines = 4
  MAX_TURNS = 1
  Impatient = FALSE
SPECIFICATION SessionSpec
INVARIANTS
  NoDanglingTurn
CHECK_DEADLOCK FALSE
