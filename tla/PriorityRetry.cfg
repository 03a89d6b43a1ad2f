SPECIFICATION Spec
CONSTANTS
  c1 = c1
  c2 = c2
  c3 = c3
  c4 = c4
  x1 = x1
  d1 = d1
  a = a
  b = b
  User = {a}
  UserOf <- AllOfA
  Creator = {c1, c2}
  Canceller = {}
  Debit = {}
  KeyOf <- OneKey
  Expiring = {}
  Matching = {}
  DbPool = 2
  RedisPool = 2
  Frail = {}
  NoConfig = NoConfig
INVARIANTS
  RetryIsSafe
CHECK_DEADLOCK FALSE
