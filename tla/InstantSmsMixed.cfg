SPECIFICATION FairSpec
CONSTANTS
  s1 = s1
  s2 = s2
  s3 = s3
  t1 = t1
  t2 = t2
  v1 = v1
  v2 = v2
  Senders = {s1, s2}
  BulkSenders = {s2}
  Toppers = {t1, t2}
  Viewers = {v1}
  CostPerMessage = 1
  BulkSizes = {6}
  TopupAmounts = {3}
  OpeningRows <- OpenOrNew
  NoRow = NoRow
  Nobody = Nobody
  DbMayFail = FALSE
  MaxCrashes = 0
INVARIANTS
  TypeOK
  BalanceSound
PROPERTIES
  EverythingEnds
