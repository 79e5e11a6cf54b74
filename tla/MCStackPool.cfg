SPECIFICATION FairSpec
CONSTANTS
  Threads = {t1, t2}
  Stacks = {s1, s2, s3, s4, s5}
  MaxHold = 2
  NULL = NULL
  ListHead = ListHead
INVARIANTS
  TypeOK
  ExclusiveUse
  ScanReachesStack
  PoolBounded
  NoStackLost
PROPERTIES
  RequestAnswered
  ImplementsOwnedPool
