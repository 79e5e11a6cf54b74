SPECIFICATION ControlSpec
CONSTANTS
  LastOffset = 8
  StatementKinds = {"ifelse", "while"}
  MaxStatements = 2
  Ties = TRUE
INVARIANTS
  ElseAroundBody
CHECK_DEADLOCK FALSE
