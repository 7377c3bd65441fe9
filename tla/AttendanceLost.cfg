SPECIFICATION ServicesSpec
CONSTANTS
  ann = ann
  bob = bob
  cat = cat
  dad = dad
  mum = mum
  eve = eve
  ad1 = ad1
  ad2 = ad2
  c1 = c1
  k1 = k1
  k2 = k2
  room = room
  NoRow = NoRow
  Users = {ann, bob, cat}
  UserType <- Profile
  Ads = {ad1, ad2}
  Kin <- Parents
  Emergency <- Friend
  Contacts <- Reach
  PackageOf <- Plan
  Available = {"email", "sms"}
  Pupils = {ann, bob, cat}
  Carded = {ann, bob}
  RideUsers = {ann, bob, cat}
  RidePupils = {ann, bob}
  Files = {k1, k2}
  Places = {room}
  Limit = 1
  Worlds <- LostDay
INVARIANT
  ReportedIsStored
