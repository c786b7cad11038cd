SPECIFICATION FairSpec
CONSTANTS
  k1 = k1
  k2 = k2
  c1 = c1
  c2 = c2
  c3 = c3
  A = A
  B = B
  None = None
  Keys = {k1, k2}
  Calls = {c1, c2, c3}
  Requests <- MCRequests
  OwedAtFirst <- MCOwed
CHECK_DEADLOCK FALSE
PROPERTIES
  CallsAreAnswered
