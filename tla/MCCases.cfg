SPECIFICATION MCSpec
SYMMETRY Alike
CONSTANTS
  s1 = s1
  s2 = s2
  s3 = s3
  s4 = s4
  t1 = t1
  t2 = t2
  c1 = c1
  c2 = c2
  Customer = Customer
  Nobody = Nobody
  Staff = {s1, s2, s3}
  Calls = {c1, c2}
  Proposals = {1, 2}
  Required = {2}
  Lent = 3
  MaxPaid = 1
  MaxStale = 1
  Officers = {s1, s2, s3, s4}
  Needed = 2
  Tellers = {t1, t2}
  Offers = {"A", "B"}
  Statements = {1, 2}
  Agreed = 1
  Backdate = 0
  LastPolicy = 2
  LastDay = 2
  MaxReceived = 2
CHECK_DEADLOCK FALSE
INVARIANTS
  LoanIsAmendedInOrder
  ContractedAsDisclosed
  DecidedInOrder
  PromisesAreFollowed
  DemandedIsPosted
