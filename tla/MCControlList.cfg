SPECIFICATION ControlSpec
CONSTANTS
  LastOffset = 10
  StatementKinds = {"if", "ifelse", "while", "do", "for", "foreach", "try", "switch",
           "switchdefault"}
  MaxStatements = 3
  Ties = FALSE
INVARIANTS
  ControlTypeOK
  WellNested
  Finished
CHECK_DEADLOCK FALSE
