SPECIFICATION ContractsSpec
VIEW ObservedScene
CONSTANTS
  RateNum = 1
  RateDen = 2
  Rank <- FeesFirst
  OldestFirst = TRUE
  Principal = 5
  SeparateFee = 0
  InterestGrace = FALSE
  ReverseOnEntry = TRUE
  Schedule <- TwoInstalments
  PayAmounts = {3, 6}
  ExcessHandling = "ADVANCE"
  PrepaymentAllowed = FALSE
  Strategies = {}
  PrepaymentCharge = 0
  SettlementCharge = 0
  ReturnFee = 1
  MaxBackdateDays = 1
  NonAccrualFrom = 2
  CureAt = 0
  WriteOffMinDpd = 2
  Allowance = 1
  Agreed = {3}
  RefundAmounts = {1, 4}
  MaxDay = 4
  MaxEvents = 2
  Keys = {k1, k2}
  Calls = {c1, c2, c3}
  Requests <- MCRequests
  None = None
  OwedAtFirst <- MCOwed
CHECK_DEADLOCK FALSE
INVARIANTS
  ContractAgrees
  CheckedStillHolds
PROPERTIES
  ImplementsLedger
  FinalStaysFinal
  ContractUsesAdvance
  ImplementsAtMostOnce
