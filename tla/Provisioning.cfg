SPECIFICATION FairSpec
CONSTANTS
  s1 = s1
  s2 = s2
  q1 = q1
  q2 = q2
  Process = {h1, h2}
  h1 = h1
  h2 = h2
  SeedAt <- MCSeedAt
  Provider = {q1, q2}
  Core = {q1, q2}
  Platform = Platform
  Nowhere = Nowhere
INVARIANTS
  TypeOK
  ServingIsSeeded
  RowHasAccount
  KafkaInOrder
PROPERTIES
  StartSucceeds
CHECK_DEADLOCK FALSE
