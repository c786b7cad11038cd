SPECIFICATION MCSpec
SYMMETRY Alike
CONSTANTS
  t1 = t1
  t2 = t2
  c1 = c1
  h1 = h1
  p1 = p1
  p2 = p2
  r1 = r1
  r2 = r2
  Nobody = Nobody
  Borrower = Borrower
  Transfers = {t1, t2}
  Listed = {t1}
  Channels = {c1}
  Walkins = {h1}
  Receipts = {1, 2}
  People = {p1, p2}
  Uploads = {r1, r2}
  Recorders = {1}
  AutoPosts = {TRUE, FALSE}
  Amount <- WalkinsAreLarge
  Scenes <- Together
  Mandates = {1}
  DueDates = {1, 2}
  MaxAttempts = 2
  RetryDays = 1
  MaxTroubles = 1
  Sessions = {r1, r2}
  Drawdowns = {1, 2}
  Amounts = {1}
  Limits = {1, 2}
  Reinstates = TRUE
  Capitals = {0}
  Backdate = 0
  Until = 2
  Renewal = 1
  LastDay = 2
CHECK_DEADLOCK FALSE
INVARIANTS
  LineAgrees
  MoneyIsUsedOnce
  DebitsInTurn
PROPERTIES
  ReleasedUnderLimit
