SPECIFICATION Spec
CONSTANTS
  Emails = {alice}
  Tokens = {t1, t2, t3, t4}
  Calls = {c1, c2}
  MaxExpired = 1
  Crashes = TRUE
  DbFaults = {"refused", "lostReply"}
  NoEmail = NoEmail
  NoToken = NoToken
SYMMETRY MCSymmetry
INVARIANTS TypeOK ExchangeBudget OneTokenPerSession SessionSurvives LogoutEndsSession LogoutIsTrue
PROPERTY FollowsLifecycle
