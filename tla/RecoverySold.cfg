SPECIFICATION Spec
CONSTANTS
  Start = 2
  Prices = {1, 3}
  Costs = {0, 1}
  Seizures = {1, 2}
  Claims = {1, 2}
  Sales = {1}
  Refunds = {1}
CHECK_DEADLOCK FALSE
PROPERTIES
  SoldStaysSold
