SPECIFICATION Spec
CONSTANTS
  s1 = s1
  s2 = s2
  s3 = s3
  t1 = t1
  t2 = t2
  v1 = v1
  v2 = v2
  Senders = {s1}
  BulkSenders = {}
  Toppers = {t1}
  Viewers = {}
  CostPerMessage = 1
  BulkSizes = {2, 5}
  TopupAmounts = {3}
  OpeningRows <- OpenWithSix
  NoRow = NoRow
  Nobody = Nobody
  DbMayFail = FALSE
  MaxCrashes = 0
INVARIANT BalanceTracked
