SPECIFICATION Spec
CONSTANTS
  a1 = a1
  a2 = a2
  a3 = a3
  k1 = k1
  k2 = k2
  Request = {a1, a2, a3}
  Id = {k1, k2}
  KindOf <- MCKindOf
  TargetOf <- MCTargetOf
  TypeOf <- MixedTypeOf
  AmountOf <- MCAmountOf
  Amount3 = 3
  MaxSigned = 1
  MaxGroup = 2
  MayFail = TRUE
  Nobody = Nobody
  NoRow = NoRow
INVARIANTS
  TypeOK
  RowMatchesLedger
  InsertNeverConflicts
  SuccessIsPosted
PROPERTIES
  OnlyOwnerRecords
  AnsweredIsDecided
CHECK_DEADLOCK FALSE
