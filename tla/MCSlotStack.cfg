SPECIFICATION Spec
CONSTANTS
  Values = {1, 2, 3}
  Slots = {s1, s2, s3, s4, s5}
  InitialMax = 2
  Growth = 2
  MaxMax = 4
  FromMiddle = FALSE
  NULL = NULL
SYMMETRY Symmetry
INVARIANTS
  TypeOK
  PointerKept
PROPERTY
  ImplementsValueStack
