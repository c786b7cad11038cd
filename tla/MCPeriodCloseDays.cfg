SPECIFICATION MCSpec
SYMMETRY Alike
CONSTANTS
  l1 = l1
  o1 = o1
  c1 = c1
  c2 = c2
  c3 = c3
  p1 = p1
  None = None
  Scheduler = Scheduler
  Officers = {o1}
  Loans = {l1}
  Clerks = {c1, c2}
  Posters = {p1}
  LastToday = 2
  MonthLength = 1
  MaxTrouble = 1
  MaxBooked = 1
  Who <- OneEach
  MaxStep = 2
  MaxCatchUp = 2
CHECK_DEADLOCK FALSE
INVARIANTS
  LockedAfterEndOfDay
