SPECIFICATION FairSpec
CONSTANTS
  l1 = l1
  l2 = l2
  o1 = o1
  Scheduler = Scheduler
  Loans = {l1, l2}
  Officers = {o1}
  LastToday = 4
  MaxStep = 2
  MaxCatchUp = 2
  MaxTrouble = 1
CHECK_DEADLOCK FALSE
INVARIANTS
  CleanBatchIsWhole
PROPERTIES
  DateCatchesUp
