----------------------------- MODULE LoanLedger -----------------------------
(***************************************************************************)
(* What servicing promises about the money of one loan: the balances held  *)
(* on the LoanAccount row and the general-ledger accounts posted for that  *)
(* loan.  Every operation of ServicingService is one database transaction, *)
(* and one action here: the journal lines the handler posts and the        *)
(* balances it writes, with the schedule left out.  The amounts a handler  *)
(* reads off the schedule are fields of the transaction tx; LoanAccount    *)
(* computes them and implements this module.                               *)
(*                                                                         *)
(* A general-ledger balance is kept as debits less credits.                *)
(***************************************************************************)
EXTENDS Integers

CONSTANTS
  Amounts,          \* amounts a transaction may carry
  Principal,        \* principal disbursed
  SeparateFee,      \* fees of treatment SEPARATE: billed at disbursement
  InterestGrace,    \* TRUE: the contract has instalments that capitalize interest
  ReverseOnEntry    \* operations.nonAccrual.reverseAccruedOnEntry

ASSUME LedgerAssumption ==
  /\ Amounts \subseteq Nat
  /\ Principal \in Nat
  /\ SeparateFee \in Nat
  /\ InterestGrace \in BOOLEAN
  /\ ReverseOnEntry \in BOOLEAN

VARIABLES
  led,   \* the loan's balances and ledger accounts
  tx     \* the transaction committed last

Statuses == {"ACTIVE", "CLOSED", "WRITTEN_OFF"}

\* The balances of the LoanAccount row.
Balances == {"principal", "interest", "fees", "advance", "suspended",
             "allowance"}

\* The ledger accounts of config.accounting that servicing posts to.
Ledgers == {"cash", "loansReceivable", "interestReceivable", "feesReceivable",
            "customerAdvances", "interestSuspense", "loanLossAllowance",
            "interestIncome", "feeIncome", "provisionExpense",
            "writeOffExpense", "concessionsExpense", "recoveryIncome"}

Books == [status : Statuses, nonAccrual : BOOLEAN,
          row : [Balances -> Nat], gl : [Ledgers -> Int]]

-----------------------------------------------------------------------------
(* The postings.  Here and in the modules above, the variants that no        *)
(* definition uses are plausible mistakes, each the one its neighbour must   *)
(* not be: put in its place, a property fails.                               *)

\* What f says of x; nothing said is nothing changed.
At(f, x) == IF x \in DOMAIN f THEN f[x] ELSE 0
Plus(f, d) == [x \in DOMAIN f |-> f[x] + At(d, x)]

\* A transaction's row update with the journal it posts.
Booked(L, changes, journal) ==
  [L EXCEPT !.row = Plus(L.row, changes), !.gl = Plus(L.gl, journal)]

\* What is paid of the instalments: interest, principal, fees.
Payments == [int : Amounts, prin : Amounts, fee : Amounts]
Total(p) == p.int + p.prin + p.fee

Lesser(a, b) == IF a <= b THEN a ELSE b

Outstanding(L) == L.row.principal + L.row.interest + L.row.fees

NothingReleased(L, int) == 0

\* suspenseRelease: collected interest leaves suspense, up to what is held.
Released(L, int) == Lesser(L.row.suspended, int)

AccruedTwice(L, a) ==
  LET held == IF L.nonAccrual THEN a ELSE 0
  IN  Booked(L, [interest |-> a, suspended |-> held],
                [interestReceivable |-> a, interestSuspense |-> 0 - held,
                 interestIncome |-> 0 - a])

\* catchUp: interest earned and not yet posted; on non-accrual it is owed but
\* credited to suspense.
Accrued(L, a) ==
  LET held == IF L.nonAccrual THEN a ELSE 0
  IN  Booked(L, [interest |-> a, suspended |-> held],
                [interestReceivable |-> a, interestSuspense |-> 0 - held,
                 interestIncome |-> held - a])

\* catchUp: the interest of a grace instalment becomes principal.
Capitalized(L, c) ==
  Booked(L, [principal |-> c, interest |-> 0 - c],
            [loansReceivable |-> c, interestReceivable |-> 0 - c])

\* The instalments p asks for leave the receivables, and the suspended interest
\* among them becomes income; the money is advance held, or cash.
Collected(L, p, advance, cash) ==
  LET released == Released(L, p.int)
  IN  Booked(L, [principal |-> 0 - p.prin, interest |-> 0 - p.int,
                 fees |-> 0 - p.fee, advance |-> 0 - advance,
                 suspended |-> 0 - released],
                [cash |-> cash, customerAdvances |-> advance,
                 loansReceivable |-> 0 - p.prin,
                 interestReceivable |-> 0 - p.int,
                 feesReceivable |-> 0 - p.fee,
                 interestSuspense |-> released,
                 interestIncome |-> 0 - released])

\* applyAdvance: money held for the borrower pays what has fallen due.
AdvanceApplied(L, p) == Collected(L, p, Total(p), 0)

\* repayInTx: cash pays the instalments due; the rest prepays principal (with
\* its charge) or is held on advance.
Repaid(L, p, prepaid, charge, advanced) ==
  Booked(Collected(L, p, 0, Total(p)),
         [principal |-> 0 - prepaid, advance |-> advanced],
         [cash |-> prepaid + charge + advanced,
          loansReceivable |-> 0 - prepaid, feeIncome |-> 0 - charge,
          customerAdvances |-> 0 - advanced])

AllowanceReleasedInBooks(L) ==
  Booked(L, <<>>, [loanLossAllowance |-> L.row.allowance,
                   provisionExpense |-> 0 - L.row.allowance])

\* allowanceRelease: the whole loss allowance back to the provision expense.
AllowanceReleased(L) ==
  Booked(L, [allowance |-> 0 - L.row.allowance],
            [loanLossAllowance |-> L.row.allowance,
             provisionExpense |-> 0 - L.row.allowance])

Closed(L) == [L EXCEPT !.status = "CLOSED", !.nonAccrual = FALSE]

ClosedHoldingAdvance(L, open) ==
  IF Outstanding(L) = 0 /\ ~open THEN Closed(AllowanceReleased(L)) ELSE L

ClosedIfUnprovisioned(L, open) ==
  IF Outstanding(L) + L.row.advance + L.row.allowance = 0 /\ ~open
  THEN Closed(L) ELSE L

\* closeIfRepaid: nothing owed, nothing held and no instalment open.
ClosedIfRepaid(L, open) ==
  IF Outstanding(L) = 0 /\ L.row.advance = 0 /\ ~open
  THEN Closed(AllowanceReleased(L)) ELSE L

\* nonAccrualTransition, entering: interest recognised and unpaid leaves income.
EnteredNonAccrual(L) ==
  LET moved == IF ReverseOnEntry /\ L.row.interest > L.row.suspended
               THEN L.row.interest - L.row.suspended ELSE 0
  IN  [Booked(L, [suspended |-> moved],
                 [interestIncome |-> moved, interestSuspense |-> 0 - moved])
       EXCEPT !.nonAccrual = TRUE]

CuredOnRow(L) ==
  [Booked(L, [suspended |-> 0 - L.row.suspended], <<>>) EXCEPT !.nonAccrual = FALSE]

\* nonAccrualTransition, curing: everything in suspense becomes income.
Cured(L) ==
  [Booked(L, [suspended |-> 0 - L.row.suspended],
             [interestSuspense |-> L.row.suspended,
              interestIncome |-> 0 - L.row.suspended])
   EXCEPT !.nonAccrual = FALSE]

\* provision: the allowance is brought to what the classification requires.
Provisioned(L, required) ==
  LET change == required - L.row.allowance
  IN  Booked(L, [allowance |-> change],
                [provisionExpense |-> change, loanLossAllowance |-> 0 - change])

\* Everything still owed leaves the row and the receivables, and `suspended`
\* is zeroed; the journal's other lines say where the money went.
Emptied(L, advance, journal) ==
  Booked(L, [principal |-> 0 - L.row.principal, interest |-> 0 - L.row.interest,
             fees |-> 0 - L.row.fees, suspended |-> 0 - L.row.suspended,
             advance |-> 0 - advance],
            [loansReceivable |-> 0 - L.row.principal,
             interestReceivable |-> 0 - L.row.interest,
             feesReceivable |-> 0 - L.row.fees,
             customerAdvances |-> advance,
             cash |-> At(journal, "cash"),
             feeIncome |-> At(journal, "feeIncome"),
             interestIncome |-> At(journal, "interestIncome"),
             interestSuspense |-> At(journal, "interestSuspense"),
             writeOffExpense |-> At(journal, "writeOffExpense"),
             concessionsExpense |-> At(journal, "concessionsExpense")])

\* quote: the cash that settles the loan.
Payoff(L, int, charge) ==
  L.row.principal + int + L.row.fees + charge - L.row.advance

\* settleInTx: everything owed is collected, the advance counts towards it.  The
\* interest owed on that day is `int`: under a rebate it is not what has accrued,
\* and the difference is income.
Settled(L, int, charge) ==
  LET released == Released(L, L.row.interest)
  IN  Closed(AllowanceReleased(Emptied(L, L.row.advance,
        [cash |-> Payoff(L, int, charge),
         feeIncome |-> 0 - charge,
         interestSuspense |-> released,
         interestIncome |-> L.row.interest - int - released])))

\* negotiatedSettlement: `agreed` is taken in full discharge, `int` of it
\* against interest; what is given up is an expense, less what was suspended.
SettledForLess(L, agreed, int) ==
  LET released == Released(L, int)
      cleared  == L.row.suspended - released
  IN  Closed(AllowanceReleased(Emptied(L, 0,
        [cash |-> agreed,
         concessionsExpense |-> Outstanding(L) - agreed - cleared,
         interestSuspense |-> released + cleared,
         interestIncome |-> 0 - released])))

\* decideWriteOff: the allowance absorbs the loss it was held for, the rest is
\* expense, less the interest that was never income; surplus allowance goes back.
WrittenOff(L) ==
  LET used    == Lesser(L.row.allowance, Outstanding(L))
      covered == Booked(L, [allowance |-> 0 - used],
                           [loanLossAllowance |-> used, writeOffExpense |-> 0 - used])
  IN  [AllowanceReleased(Emptied(covered, 0,
         [writeOffExpense |-> Outstanding(L) - L.row.suspended,
          interestSuspense |-> L.row.suspended]))
       EXCEPT !.status = "WRITTEN_OFF"]

\* recordRecovery: cash received on a written-off loan is income.
Recovered(L, amount) ==
  Booked(L, <<>>, [cash |-> amount, recoveryIncome |-> 0 - amount])

\* decideAdvanceRefund: money held for the borrower is paid back.
Refunded(L, amount) ==
  Booked(L, [advance |-> 0 - amount],
            [customerAdvances |-> amount, cash |-> 0 - amount])

\* A repayment or an application of the advance, as its event records it.
Events == [type : {"REPAYMENT", "ADVANCE_APPLIED"}, pay : Payments,
           prepaid : Amounts, charge : Amounts, advanced : Amounts,
           released : Amounts]

\* What reversing an event does to the money held on advance: a repayment's
\* advance goes back out, an application puts the money back.
AdvanceChange(e) == IF e.type = "ADVANCE_APPLIED" THEN Total(e.pay)
                    ELSE 0 - e.advanced

\* reverse: the journal is mirrored.  What the original released from suspense
\* goes back there, unless the loan has cured since: then it stays income.
Reversed(L, e) ==
  LET back  == AdvanceChange(e)
      again == IF L.nonAccrual THEN e.released ELSE 0
  IN  [Booked(L, [principal |-> e.pay.prin + e.prepaid, interest |-> e.pay.int,
                  fees |-> e.pay.fee, advance |-> back, suspended |-> again],
                 [loansReceivable |-> e.pay.prin + e.prepaid,
                  interestReceivable |-> e.pay.int,
                  feesReceivable |-> e.pay.fee,
                  customerAdvances |-> 0 - back,
                  cash |-> back - Total(e.pay) - e.prepaid - e.charge,
                  feeIncome |-> e.charge,
                  interestSuspense |-> 0 - again, interestIncome |-> again])
       EXCEPT !.status = "ACTIVE"]

\* reverse, of a returned payment: the product's fee on the earliest open line.
ReturnFeeCharged(L, fee) ==
  Booked(L, [fees |-> fee], [feesReceivable |-> fee, feeIncome |-> 0 - fee])
-----------------------------------------------------------------------------
(* The operations: one database transaction each. *)

vars == <<led, tx>>

Active == led.status = "ACTIVE"

\* What the schedule may ask of the balances: never more than they hold.
Owes(L, p) == /\ p.int <= L.row.interest
              /\ p.prin <= L.row.principal
              /\ p.fee <= L.row.fees

\* catchUp: accrual, then the grace instalments whose period has ended.
CaughtUp(L, t) == Capitalized(Accrued(L, t.accrual), t.cap)
MayCatchUp(L, t) == /\ t.cap > 0 => InterestGrace
                    /\ t.cap <= Accrued(L, t.accrual).row.interest

\* catchUp and applyAdvance, with which every repayment and every end of day
\* begins.
Prepared(L, t) == AdvanceApplied(CaughtUp(L, t), t.adv)
MayPrepare(L, t) == /\ Total(t.adv) <= L.row.advance
                    /\ MayCatchUp(L, t)
                    /\ Owes(CaughtUp(L, t), t.adv)

Init ==
  /\ led = [status |-> "ACTIVE", nonAccrual |-> FALSE,
            row |-> [b \in Balances |-> CASE b = "principal" -> Principal
                                          [] b = "fees" -> SeparateFee
                                          [] OTHER -> 0],
            gl |-> [g \in Ledgers |-> CASE g = "cash" -> 0 - Principal
                                        [] g = "loansReceivable" -> Principal
                                        [] g = "feesReceivable" -> SeparateFee
                                        [] g = "feeIncome" -> 0 - SeparateFee
                                        [] OTHER -> 0]]
  /\ tx = [op |-> "DISBURSEMENT"]

Repay ==
  /\ Active
  /\ tx' \in [op : {"REPAYMENT"}, accrual : Amounts, cap : Amounts,
              adv : Payments, pay : Payments, prepaid : Amounts,
              charge : Amounts, advanced : Amounts, open : BOOLEAN]
  /\ MayPrepare(led, tx')
  /\ LET L == Prepared(led, tx')
     IN  /\ Owes(L, tx'.pay)
         /\ tx'.pay.prin + tx'.prepaid <= L.row.principal
         /\ led' = ClosedIfRepaid(Repaid(L, tx'.pay, tx'.prepaid, tx'.charge,
                                         tx'.advanced), tx'.open)

EndOfDay ==
  /\ Active
  /\ tx' \in [op : {"END_OF_DAY"}, accrual : Amounts, cap : Amounts,
              adv : Payments, move : {"NONE", "ENTER", "CURE"},
              required : Amounts, open : BOOLEAN]
  /\ MayPrepare(led, tx')
  /\ tx'.move = "ENTER" => ~led.nonAccrual
  /\ tx'.move = "CURE" => led.nonAccrual
  /\ LET L == Prepared(led, tx')
         M == CASE tx'.move = "NONE"  -> L
                [] tx'.move = "ENTER" -> EnteredNonAccrual(L)
                [] tx'.move = "CURE"  -> Cured(L)
     IN  led' = ClosedIfRepaid(Provisioned(M, tx'.required), tx'.open)

\* The quote is struck before catchUp, so a grace instalment capitalized in the
\* same transaction leaves the journal unbalanced, and post refuses it.
Settle ==
  /\ Active
  /\ tx' \in [op : {"SETTLEMENT"}, accrual : Amounts, int : Amounts,
              charge : Amounts]
  /\ LET L == Accrued(led, tx'.accrual)
     IN  /\ Payoff(L, tx'.int, tx'.charge) >= 0
         /\ led' = Settled(L, tx'.int, tx'.charge)

SettleForLess ==
  /\ Active
  /\ led.row.advance = 0
  /\ tx' \in [op : {"NEGOTIATED_SETTLEMENT"}, accrual : Amounts,
              cap : Amounts, agreed : Amounts, int : Amounts]
  /\ MayCatchUp(led, tx')
  /\ LET L == CaughtUp(led, tx')
     IN  /\ tx'.agreed > 0 /\ tx'.agreed < Outstanding(L)
         /\ tx'.int <= Lesser(tx'.agreed, L.row.interest)
         /\ led' = SettledForLess(L, tx'.agreed, tx'.int)

Reverse ==
  /\ led.status \in {"ACTIVE", "CLOSED"}
  /\ tx' \in [op : {"REVERSAL"}, event : Events, returnFee : Amounts]
  /\ tx'.event.released <= tx'.event.pay.int
  /\ tx'.event.type = "ADVANCE_APPLIED" =>
       tx'.event.prepaid + tx'.event.charge + tx'.event.advanced = 0
  /\ led.row.advance + AdvanceChange(tx'.event) >= 0
  /\ led' = ReturnFeeCharged(Reversed(led, tx'.event), tx'.returnFee)

RefundAdvance ==
  /\ tx' \in [op : {"ADVANCE_REFUND"}, amount : Amounts, open : BOOLEAN]
  /\ 0 < tx'.amount /\ tx'.amount <= led.row.advance
  /\ led' = ClosedIfRepaid(Refunded(led, tx'.amount), tx'.open)

WriteOff ==
  /\ Active
  /\ led.row.advance = 0
  /\ tx' = [op |-> "WRITE_OFF"]
  /\ led' = WrittenOff(led)

Recover ==
  /\ led.status = "WRITTEN_OFF"
  /\ tx' \in [op : {"RECOVERY"}, amount : Amounts]
  /\ tx'.amount > 0
  /\ led' = Recovered(led, tx'.amount)

Next ==
  \/ Repay \/ EndOfDay \/ Settle \/ SettleForLess \/ Reverse
  \/ RefundAdvance \/ WriteOff \/ Recover

Spec == Init /\ [][Next]_vars

-----------------------------------------------------------------------------
(* Properties. *)

\* The row and the ledger accounts hold money, never a negative balance.
TypeOK == led \in Books

\* Every balance on the row, interest in suspense apart, and its ledger account.
Reconciles(L) ==
  /\ L.row.principal = L.gl.loansReceivable
  /\ L.row.interest  = L.gl.interestReceivable
  /\ L.row.fees      = L.gl.feesReceivable
  /\ L.row.advance   = 0 - L.gl.customerAdvances
  /\ L.row.allowance = 0 - L.gl.loanLossAllowance

SuspenseHeld(L) ==
  /\ L.row.suspended = 0 - L.gl.interestSuspense
  /\ L.row.suspended <= L.row.interest

DebitsAreCredits(L) ==
  L.gl.cash + L.gl.loansReceivable + L.gl.interestReceivable
  + L.gl.feesReceivable + L.gl.customerAdvances + L.gl.interestSuspense
  + L.gl.loanLossAllowance + L.gl.interestIncome + L.gl.feeIncome
  + L.gl.provisionExpense + L.gl.writeOffExpense
  + L.gl.concessionsExpense + L.gl.recoveryIncome = 0

\* LendingOperationsService.reconciliation: every balance on the row equals the
\* net of the journal lines posted to its mapped account (all but suspense).
BalancesReconcile == Reconciles(led)

\* The same reconciliation for interest in suspense, and what it rests on:
\* interest held in suspense is interest still owed.
SuspenseReconciles == SuspenseHeld(led)

\* PostingService.post refuses an unbalanced journal: over any sequence of
\* operations debits equal credits, so no handler ever builds one.
BooksBalance == DebitsAreCredits(led)

\* A loan that left the book owes nothing, holds none of the borrower's money
\* and carries no allowance.
TerminalIsEmpty ==
  led.status # "ACTIVE" =>
    Outstanding(led) + led.row.advance + led.row.allowance = 0

\* Once a loan has left the book the net cash it brought in is exactly the
\* income and expense recognised on it: no value stays in a balance account.
TerminalProfitIsCash ==
  led.status # "ACTIVE" =>
    led.gl.cash = 0 - (led.gl.interestIncome + led.gl.feeIncome
                       + led.gl.provisionExpense + led.gl.writeOffExpense
                       + led.gl.concessionsExpense + led.gl.recoveryIncome)
=============================================================================
