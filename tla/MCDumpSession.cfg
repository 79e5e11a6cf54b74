SPECIFICATION Spec
CONSTANTS
  Stacks = {s1, s2, s3, s4, s5}
  Files = {"a.php"}
  Functions = {"f"}
  Classes = {"C"}
  Methods = {"m"}
  Flags = {0, 1}
  NoFlags = 0
  Main = "main"
  NULL = NULL
  MajorIds = {1, 2}
  Faults = {"exception", "heap"}
  MaxScripts = 2
  MaxDepth = 3
  MaxFlags = 2
SYMMETRY Symmetry
INVARIANTS
  TypeOK
  CurrentCall
  OwnVariables
  LostOnce
  OwnFlags
  Balanced
