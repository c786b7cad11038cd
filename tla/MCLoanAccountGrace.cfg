SPECIFICATION Spec
VIEW Observed
CONSTANTS
  RateNum = 1
  RateDen = 4
  Rank <- FeesFirst
  OldestFirst = TRUE
  Principal = 4
  SeparateFee = 1
  InterestGrace = TRUE
  ReverseOnEntry = TRUE
  Schedule <- GraceThenOne
  PayAmounts = {1, 6}
  ExcessHandling = "ADVANCE"
  PrepaymentAllowed = FALSE
  Strategies = {}
  PrepaymentCharge = 0
  SettlementCharge = 0
  ReturnFee = 0
  MaxBackdateDays = 1
  NonAccrualFrom = 1
  CureAt = 0
  WriteOffMinDpd = 2
  Allowance = 1
  Agreed = {3}
  RefundAmounts = {1, 2, 5}
  MaxDay = 5
  MaxEvents = 2
CHECK_DEADLOCK FALSE
INVARIANTS
  AccountAgrees
  OpenLoanBills
PROPERTIES
  ImplementsLedger
