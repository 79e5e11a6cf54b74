SPECIFICATION Spec
CONSTANTS
  Stacks = {s1, s2, s3, s4}
  Files = {"a.php"}
  Functions = {"f"}
  Classes = {"C"}
  Methods = {"m"}
  Flags = {0, 1}
  NoFlags = 0
  Main = "main"
  NULL = NULL
  MajorIds = {2}
  Faults = {}
  MaxScripts = 2
  MaxDepth = 2
  MaxFlags = 2
SYMMETRY Symmetry
INVARIANTS
  FileNamePopped
