SPECIFICATION FairSpec
CONSTANTS
  r1 = r1
  r2 = r2
  r3 = r3
  r4 = r4
  x = x
  y = y
  Request = {r1, r2, r3}
  Id = {x, y}
  KindOf <- TransfersKindOf
  TargetOf <- TransfersTargetOf
  BatchMaxSize = 2
  ChannelCapacity = 2
  Nobody = Nobody
  NoReply = NoReply
INVARIANTS
  TypeOK
  AcceptedOwns
  ExecutedOnce
  FifoPerKind
  BatchBound
PROPERTIES
  ImplementsService
  EveryCallEnds
CHECK_DEADLOCK FALSE
