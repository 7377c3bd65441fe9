SPECIFICATION SchoolSpec
CONSTANTS
  ann = ann
  bob = bob
  cat = cat
  c1 = c1
  f1 = f1
  f2 = f2
  NoRow = NoRow
  Users = {ann, bob, cat}
  Values <- Contents
  RowNumber <- Numbers
  UserType <- Profile
  Worlds <- Days
INVARIANTS
  SchoolTypeOK
  CardsAndImages
PROPERTIES
  PresidencyHolds
  MembersHold
  CourseworkHolds
  EnrolmentsHold
  DetailsHold
