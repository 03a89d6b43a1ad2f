SPECIFICATION Spec
CONSTANTS
  u1 = u1
  u2 = u2
  u3 = u3
  n1 = n1
  p1 = p1
  p2 = p2
  Request = {u1, u2, u3}
  Nid = {n1}
  Provider = {p1, p2}
  NidOf <- MCNidOf
  ProviderOf <- MCProviderOf
  Tolerance = 1
  Skew = 1
  MaxTime = 1
  None = None
  MayFail = TRUE
INVARIANTS
  TypeOK
  InsertedIsProvisioned
  AccountInsertNeverConflicts
  NoOrphan
  SomebodyGoesOn
CHECK_DEADLOCK FALSE
