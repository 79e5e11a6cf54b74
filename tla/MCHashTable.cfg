SPECIFICATION Spec
CONSTANTS
  Addresses = {b1, b2, b3}
  Strings = {"a"}
  HashOf <- MCHashOf
  Word = 4
  Values = {1, 2}
  InitialSize = 2
  MaxSize = 4
  Applies = {"forward", "reverse"}
  MaxDepth = 2
  Saves = TRUE
  RenameFails = FALSE
  FewHashes = {1, 3}
  NULL = NULL
SYMMETRY Symmetry
CONSTRAINT MCFocus
INVARIANTS
  TypeOK
  ListSound
  ChainsSound
  ApplyMissesNone
PROPERTY
  ImplementsOrderedMap
