SPECIFICATION Spec
CONSTANTS
  r1 = r1
  r2 = r2
  r3 = r3
  r4 = r4
  x = x
  y = y
  Request = {r1, r2, r3, r4}
  Id = {x, y}
  KindOf <- AccountsKindOf
  TargetOf <- AccountsTargetOf
  BatchMaxSize = 2
  ChannelCapacity = 2
  Nobody = Nobody
  NoReply = NoReply
INVARIANTS
  OwnAccount
CHECK_DEADLOCK FALSE
