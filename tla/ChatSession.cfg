CONSTANTS
  Requests = {r1}
  MaxPrompts = 3
  MaxLines = 4
  MAX_TURNS = 1
  Impatient = TRUE
SPECIFICATION SessionSpec
INVARIANTS
  HistoryIsPaired
PROPERTIES
  KeptIsWhole
  EmptyReplyPoisons
  PromptEnds
CHECK_DEADLOCK FALSE
