SPECIFICATION Spec
CONSTANTS
  m1 = m1
  m2 = m2
  t1 = t1
  t2 = t2
  t3 = t3
  t4 = t4
  Account = {m1, m2}
  Transfer = {t1, t2, t3, t4}
  AccountOf <- MCAccountOf
  TypeOf <- MCTypeOf
  AmountOf <- MCAmountOf
  MaxSigned = 7
  MaxLimit = 3
  Limit <- MCLimit
  Page <- MCPage
  MaxAmount = 5
  MaxTime = 2
INVARIANTS
  TypeOK
  NoRowSkipped
  ExistingPageIsShown
  BalancesAreExact
  AcceptedIsCovered
CHECK_DEADLOCK FALSE
