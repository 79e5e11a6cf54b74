SPECIFICATION Spec
CONSTANTS
  a = a
  b = b
  c = c
  Items <- MCItems
  ThreadId <- MCThreadId
  Routed <- MCRouted
  Half = 4
  Timeouts = {1}
  Deadlines = {0}
  MaxTime = 2
  NULL = NULL
INVARIANTS
  TypeOK
PROPERTIES
  AnsweredOnce
  AnsweredInTime
