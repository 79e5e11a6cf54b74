SPECIFICATION Spec
CONSTANTS
  LastOffset = 11
  Kinds = {"while", "do", "for", "foreach", "switch", "default"}
  MaxLoops = 2
  Levels = {1}
  NULL = NULL
INVARIANTS
  TypeOK
  JumpMeans
  NoJumpLost
