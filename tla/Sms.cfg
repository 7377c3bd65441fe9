SPECIFICATION FairSmsSpec
CONSTANTS
  m1 = m1
  m2 = m2
  i1 = i1
  i2 = i2
  rc1 = rc1
  rc2 = rc2
  ra1 = ra1
  ra2 = ra2
  rr1 = rr1
  ru1 = ru1
  rd1 = rd1
  rd2 = rd2
  k1 = k1
  k2 = k2
  b1 = b1
  b2 = b2
  p1 = p1
  p2 = p2
  v1 = v1
  v2 = v2
  v3 = v3
  c1 = c1
  c2 = c2
  a1 = a1
  a2 = a2
  r1 = r1
  Masks = {m1, m2}
  Institutes = {i1, i2}
  Creators = {rc1, rc2}
  MaskApprovers = {ra1, ra2}
  MaskRejecters = {rr1}
  Suspenders = {ru1}
  Defaulters = {rd1, rd2}
  OpeningMasks <- OpenInUse
  NoMask = NoMask
  MaskIds = {k1, k2}
  MaskMakers = {b1, b2}
  OpeningRows <- OpenBoth
  NoRow = NoRow
  NotCached = NotCached
  Submissions = {p1, p2}
  Verifiers = {v1, v2, v3}
  Requested = 2
  PoolSize = 3
  Composers = {c1, c2}
  Approvers = {a1, a2}
  Rejecters = {r1}
  Requests <- Messages
  Drift <- Joined
  MaxBulk = 3
  SuperAdmins = {c1}
  AdminRow <- Unlimited
  MaxCrashes = 1
  Worlds <- Days
INVARIANTS
  SmsTypeOK
  GrantsSettled
  ChargesAddUp
  SentSoundly
PROPERTIES
  MasksHold
  ListingHolds
  JobsEnd
