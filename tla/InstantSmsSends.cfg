SPECIFICATION Spec
CONSTANTS
  s1 = s1
  s2 = s2
  s3 = s3
  t1 = t1
  t2 = t2
  v1 = v1
  v2 = v2
  Senders = {s1, s2, s3}
  BulkSenders = {s2, s3}
  Toppers = {}
  Viewers = {v1, v2}
  CostPerMessage = 1
  BulkSizes = {2, 5}
  TopupAmounts = {3}
  OpeningRows <- OpenAnyhow
  NoRow = NoRow
  Nobody = Nobody
  DbMayFail = TRUE
  MaxCrashes = 1
SYMMETRY ActorSymmetry
INVARIANTS
  LedgerExact
  DeliveredArePaid
  SuccessIsDelivered
PROPERTIES
  LedgerSpec
