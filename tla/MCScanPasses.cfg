SPECIFICATION Spec
CONSTANTS
  LastOffset = 4
  MaxPushes = 2
  MaxElements = 4
INVARIANTS
  TypeOK
PROPERTY
  ImplementsPasses
CHECK_DEADLOCK FALSE
