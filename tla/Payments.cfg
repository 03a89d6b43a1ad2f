SPECIFICATION PaymentsFairSpec
CONSTANTS
  p1 = p1
  p2 = p2
  l1 = l1
  l2 = l2
  o1 = o1
  x = x
  y = y
  Request = {p1, p2, l1, l2, o1}
  Payment = {p1, p2}
  Id = {x, y}
  KindOf <- MCKindOf
  TargetOf <- MCTargetOf
  LookupOf <- MCLookupOf
  TypeOf <- MCTypeOf
  AmountOf <- MCAmountOf
  MaxSigned = 1
  BatchMaxSize = 2
  ChannelCapacity = 1
  Nobody = Nobody
  NoReply = NoReply
  NoRow = NoRow
PROPERTIES
  ImplementsHandlers
  EveryPaymentEnds
  ShutdownEnds
CHECK_DEADLOCK FALSE
