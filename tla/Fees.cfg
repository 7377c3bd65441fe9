SPECIFICATION FairFeesSpec
CONSTANTS
  fs1 = fs1
  fs2 = fs2
  fv1 = fv1
  fv2 = fv2
  fu1 = fu1
  ss1 = ss1
  ss2 = ss2
  sv1 = sv1
  sv2 = sv2
  sv3 = sv3
  sd1 = sd1
  du1 = du1
  bs1 = bs1
  bs2 = bs2
  bs3 = bs3
  bv1 = bv1
  bv2 = bv2
  FeeSubmits = {fs1, fs2}
  FeeVerifiers = {fv1, fv2}
  FeeUpdates = {fu1}
  FeePayers = {1, 2}
  FeeAmounts = {1, 2}
  NoReceipt = NoReceipt
  NoOne = NoOne
  SlipSubmits = {ss1, ss2}
  SlipVerifiers = {sv1, sv2, sv3}
  SlipDeletes = {sd1}
  DueUpdates = {du1}
  SlipPayers = {1, 2}
  NoSlip = NoSlip
  NoVerdict = NoVerdict
  BillSubmits = {bs1, bs2, bs3}
  BillVerifiers = {bv1, bv2}
  Months = {1, 2}
  Connections = 3
  NoBill = NoBill
  Nobody = Nobody
  OpeningFees <- OneFee
  Worlds <- Days
INVARIANTS
  FeesTypeOK
  OneAtATime
  WholeVerdict
  PlanIsPaid
PROPERTIES
  VerdictsStand
  GrantedByVerifying
  BillsEnd
