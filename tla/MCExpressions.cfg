SPECIFICATION Spec
CONSTANTS
  TwoOps = {"xor", "&", "==", "<", "-", ".", "*"}
  OneOps = {"!", "(int)", "~", "++", "print", "="}
  Connectives = {"&&", "||"}
  Conditions = {TRUE, FALSE}
  MaxOpcodes = 7
  Allowed = {}
  LongOps = {"==", "!"}
  MixedOpcodes = 4
CONSTRAINT MCFinishable
INVARIANTS
  TypeOK
  TextMeansCode
  OpenTernaries
CHECK_DEADLOCK FALSE
