SPECIFICATION FairSpec
CONSTANTS
  c1 = c1
  c2 = c2
  c3 = c3
  c4 = c4
  x1 = x1
  d1 = d1
  a = a
  b = b
  User = {a, b}
  UserOf <- FourthOfB
  Creator = {c1, c2, c3, c4}
  Canceller = {x1}
  Debit = {d1}
  KeyOf <- TwoKeys
  Expiring = {c1}
  Matching = {c1}
  DbPool = 2
  RedisPool = 3
  Frail = {c2}
  NoConfig = NoConfig
INVARIANTS
  TypeOK
  OneActive
  CacheWasCommitted
  CancelledOnce
  DebitDisables
  OnlyRepeatedKeysDeadlock
PROPERTIES
  ImplementsStore
  EveryRequestEnds
CHECK_DEADLOCK FALSE
