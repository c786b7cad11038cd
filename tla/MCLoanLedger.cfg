SPECIFICATION MCSpec
VIEW Observed
CONSTANTS
  Amounts = {0, 1}
  Principal = 1
  SeparateFee = 0
  InterestGrace = FALSE
  ReverseOnEntry = TRUE
  MaxBalance = 2
  Start = 2
  Prices = {1, 3}
  Costs = {0, 1}
  Seizures = {1, 2}
  Claims = {1, 2}
  Sales = {1}
  Refunds = {1}
CHECK_DEADLOCK FALSE
INVARIANTS
  BalancesReconcile
  SuspenseReconciles
  BooksBalance
  TerminalIsEmpty
  TerminalProfitIsCash
  LedgerAgrees
  SecurityIsUsedOnce
