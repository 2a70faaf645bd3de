SPECIFICATION Spec
CONSTANTS
  Emails = {alice}
  Tokens = {t1, t2, t3}
  Calls = {c1, c2}
  MaxExpired = 1
  Crashes = FALSE
  DbFaults = {}
  NoEmail = NoEmail
  NoToken = NoToken
SYMMETRY MCSymmetry
INVARIANT RotatedOnce
