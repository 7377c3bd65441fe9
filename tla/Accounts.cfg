SPECIFICATION AccountsSpec
CONSTANTS
  q1 = q1
  q2 = q2
  q3 = q3
  q4 = q4
  x1 = x1
  x2 = x2
  i1 = i1
  i2 = i2
  v1 = v1
  v2 = v2
  v3 = v3
  p1 = p1
  s1 = s1
  s2 = s2
  d1 = d1
  d2 = d2
  h1 = h1
  w1 = w1
  l1 = l1
  l2 = l2
  n1 = n1
  n2 = n2
  r1 = r1
  r2 = r2
  r3 = r3
  o1 = o1
  CodeRequests = {q1, q2, q3, q4}
  CodeChecks = {x1, x2}
  Contacts = {1, 2}
  Taken = {2}
  MaxRequests = 3
  MaxRerequests = 2
  LastDay = 1
  NoOtp = NoOtp
  Issues = {i1, i2}
  CodeTypes = {"FIRST_LOGIN", "PASSWORD_RESET", "CHANGE_PASSWORD"}
  Verifies = {v1, v2, v3}
  Completes = {p1}
  Setups = {s1, s2}
  Redeems = {d1, d2}
  Changes = {h1}
  Rewrites = {w1}
  Logins = {l1, l2}
  MaxAttempts = 2
  Opening = Opening
  NoPassword = NoPassword
  NoCode = NoCode
  Uncached = Uncached
  SignIns = {n1, n2}
  Refreshes = {r1, r2, r3}
  SignOuts = {o1}
  LastSecond = 4
  NoToken = NoToken
  Worlds <- Days
INVARIANTS
  AccountsTypeOK
  OtpSound
PROPERTIES
  CodesHold
  LoginAfterSetup
  DeadStaysDead
