----------------------------- MODULE LoanAccount -----------------------------
(***************************************************************************)
(* One disbursed loan as ServicingService keeps it: the balances and       *)
(* journal of LoanLedger, the repayment schedule, the events a reversal    *)
(* may undo, and the tasks waiting for a second person.  Every handler     *)
(* locks the LoanAccount row for its whole transaction, so a handler is    *)
(* one action; what interleaves is the order of handlers of different      *)
(* users, the end-of-day batch and the business date.                      *)
(*                                                                         *)
(* Every action names the transaction it commits in tx, and applies the    *)
(* postings of LoanLedger; that it asks no more of a balance than the      *)
(* balance holds is what ImplementsLedger says.                            *)
(*                                                                         *)
(* Late penalties, taxes, fee waivers and permissions are left out.        *)
(***************************************************************************)
EXTENDS ServicingEngine

CONSTANTS
  Principal, SeparateFee, InterestGrace, ReverseOnEntry,  \* as in LoanLedger
  Schedule,           \* the instalments at disbursement
  PayAmounts,         \* amounts a borrower may pay
  ExcessHandling,     \* allocation.excessHandling
  PrepaymentAllowed,  \* prepayment.allowed
  Strategies,         \* prepayment.allowedStrategies
  PrepaymentCharge, SettlementCharge, ReturnFee,
  MaxBackdateDays,
  NonAccrualFrom, CureAt,  \* days past due that enter and leave non-accrual
  WriteOffMinDpd,     \* the higher of the product's and the lender's floor
  Allowance,          \* loss allowance of a loan that is past due
  Agreed,             \* amounts a negotiated settlement may be agreed at
  RefundAmounts,      \* amounts of an advance that may be asked back
  MaxDay, MaxEvents   \* bounds: the last business date, events before a payment

VARIABLES
  led, tx,         \* LoanLedger's
  lines,           \* the schedule, superseded instalments included
  events,          \* financial events a reversal reads
  version,         \* the agreement's latest version
  accrued,         \* interest posted by accrual events
  day,             \* the business date
  dpd,             \* LoanAccount.daysPastDue
  writeOffTask,    \* a write-off proposal is pending
  refundTask,      \* the amount of the pending refund proposal, or 0
  lossLeft         \* written off and not recovered

L == INSTANCE LoanLedger WITH Amounts <- Nat

vars == <<led, tx, lines, events, version, accrued, day, dpd,
          writeOffTask, refundTask, lossLeft>>

ASSUME AccountAssumption ==
  /\ {Principal, SeparateFee, PrepaymentCharge, SettlementCharge, ReturnFee,
      MaxBackdateDays, NonAccrualFrom, CureAt, WriteOffMinDpd, Allowance,
      MaxDay, MaxEvents} \subseteq Nat
  /\ InterestGrace \in BOOLEAN /\ ReverseOnEntry \in BOOLEAN
  /\ PrepaymentAllowed \in BOOLEAN
  /\ ExcessHandling \in {"REJECT", "ADVANCE", "PREPAY"}
  /\ Strategies \subseteq {"RECAST", "SHORTEN"}
  /\ PayAmounts \subseteq Nat \ {0}
  /\ Agreed \subseteq Nat \ {0}
  /\ RefundAmounts \subseteq Nat \ {0}
  /\ \A i \in DOMAIN Schedule : Schedule[i] \in Instalments

Active == led.status = "ACTIVE"

\* checkValueDate: no future dating, backdating within the product's window.
ValueDates == {d \in 0 .. day : day - d <= MaxBackdateDays}

NoUndo == [version |-> 0, superseded |-> {}, backdated |-> 0]

\* A posted event, as a later reversal reads it.  `first` is the event its
\* transaction began with: events of one transaction may share a timestamp.
Event(type, pay, allocations, released, first) ==
  [type |-> type, pay |-> pay, prepaid |-> 0, charge |-> 0, advanced |-> 0,
   released |-> released, version |-> version, undo |-> NoUndo,
   allocations |-> Restrict(allocations, {i \in DOMAIN allocations :
                                 \E c \in Components : allocations[i][c] > 0}),
   first |-> first, posted |-> TRUE]

Nothing == [c \in Components |-> 0]
-----------------------------------------------------------------------------
(* What a money operation begins with. *)

\* catchUp and applyAdvance on the schedule.
Prepare(asOf) ==
  LET grace  == Capitalizing(lines, asOf)
      caught == WithStatus(lines, grace, "PAID")
      used   == IF led.row.advance = 0 THEN <<>>
                ELSE AllocatePayment(caught, DueBy(caught, asOf), led.row.advance)
  IN  [accrual |-> Positive(ContractualAccrual(lines, asOf) - accrued),
       cap     |-> Over(grace, LAMBDA i : lines[i].cap),
       adv     |-> ByComponent(used),
       used    |-> used,
       caught  |-> caught,
       lines   |-> Applied(caught, used)]

\* The ADVANCE_APPLIED event, where any advance was used.
AdvanceEvents(p) ==
  IF L!Total(p.adv) = 0 THEN <<>>
  ELSE <<Event("ADVANCE_APPLIED", p.adv, p.used,
               L!Released(L!CaughtUp(led, p), p.adv.int), Len(events) + 1)>>

\* delinquency: days since the oldest unpaid instalment fell due.
DaysPastDue(s, today) ==
  LET overdue == {i \in DueBy(s, today - 1) : ~FullyPaid(s[i])}
  IN  IF overdue = {} THEN 0
      ELSE today - s[CHOOSE i \in overdue :
                       \A j \in overdue : s[i].end <= s[j].end].end

ClosingZeroes(days) == dpd' = IF led'.status = "CLOSED" THEN 0 ELSE days

-----------------------------------------------------------------------------
(* Repayment. *)

\* A payment allocated to what is due on its value date.
Paying(p, amount, asOf) == AllocatePayment(p.lines, DueBy(p.lines, asOf), amount)

AllocatedRepayment(p, paying, amount) ==
  [prepared |-> p, led |-> L!Prepared(led, p), paying |-> paying,
   pay |-> ByComponent(paying), excess |-> amount - L!Total(ByComponent(paying))]

Repayment(amount, asOf) ==
  LET p == Prepare(asOf)
  IN  AllocatedRepayment(p, Paying(p, amount, asOf), amount)

\* repayInTx from the allocations on: how much of the excess prepays, is
\* charged, and is held, and the schedule that results.
PostRepayment(r, prepaid, charge, advanced, schedule, newVersion, undo) ==
  LET p == r.prepared
      event == Event("REPAYMENT", r.pay, r.paying,
                     L!Released(r.led, r.pay.int), Len(events) + 1)
  IN  /\ tx' = [op |-> "REPAYMENT", accrual |-> p.accrual, cap |-> p.cap,
                adv |-> p.adv, pay |-> r.pay, prepaid |-> prepaid,
                charge |-> charge, advanced |-> advanced,
                open |-> Open(schedule) # {}]
      /\ led' = L!ClosedIfRepaid(L!Repaid(r.led, r.pay, prepaid, charge, advanced),
                                 Open(schedule) # {})
      /\ lines' = schedule
      /\ version' = newVersion
      /\ accrued' = accrued + p.accrual
      /\ events' = events \o AdvanceEvents(p)
                     \o <<[event EXCEPT !.prepaid = prepaid, !.charge = charge,
                                        !.advanced = advanced, !.undo = undo]>>
      /\ ClosingZeroes(dpd)
      /\ UNCHANGED <<day, writeOffTask, refundTask, lossLeft>>

MayPay == Active /\ Len(events) < MaxEvents

\* The payment is used up by what is due.
PostDue(r) ==
  /\ r.excess = 0
  /\ PostRepayment(r, 0, 0, 0, Applied(r.prepared.lines, r.paying), version, NoUndo)

RepayDue ==
  \E amount \in PayAmounts, asOf \in ValueDates :
    MayPay /\ PostDue(Repayment(amount, asOf))

\* What may still be held: never more than the loan owes.
Room(r) == L!Outstanding(r.led) - L!Total(r.pay) - r.led.row.advance

\* Money beyond what is due is held, up to what the loan owes today.
PostAdvance(r) ==
  /\ r.excess > 0 /\ ExcessHandling # "REJECT"
  /\ r.excess <= Room(r)
  /\ PostRepayment(r, 0, 0, r.excess, Applied(r.prepared.lines, r.paying),
                   version, NoUndo)

RepayInAdvance ==
  \E amount \in PayAmounts, asOf \in ValueDates :
    MayPay /\ PostAdvance(Repayment(amount, asOf))

\* Money beyond what is due prepays principal: what is not due yet, `future`,
\* is replaced by a new schedule of a new agreement version.
PostPrepayment(r, future, asOf, strategy) ==
  LET s       == r.prepared.lines
      prepaid == r.excess - PrepaymentCharge
      left    == r.led.row.principal - r.pay.prin
      first   == s[InOrder(s, future)[1]]
  IN  /\ r.excess > 0 /\ ExcessHandling # "REJECT" /\ PrepaymentAllowed
      /\ 0 < prepaid /\ prepaid < left
      /\ future # {} /\ asOf \in first.start .. first.end
      /\ PostRepayment(r, prepaid, PrepaymentCharge, 0,
           Applied(WithStatus(s, future, "SUPERSEDED"), r.paying)
             \o RescheduleAfterPrepayment(s, future, asOf, left - prepaid,
                                          strategy, version + 1),
           version + 1,
           [version |-> version + 1, superseded |-> future,
            backdated |-> day - asOf])

Future(s, asOf) == {i \in DueAfter(s, asOf) : s[i].n > 0}

Prepay ==
  \E amount \in PayAmounts, asOf \in ValueDates, strategy \in Strategies :
    MayPay /\ LET r == Repayment(amount, asOf)
              IN  PostPrepayment(r, Future(r.prepared.lines, asOf), asOf, strategy)
-----------------------------------------------------------------------------
(* Reversal. *)

LedgerEvent(e) == [type |-> e.type, pay |-> e.pay, prepaid |-> e.prepaid,
                   charge |-> e.charge, advanced |-> e.advanced,
                   released |-> e.released]

NoRepaymentLater(k) == \A j \in DOMAIN events :
  j > k /\ events[j].posted => events[j].type # "REPAYMENT"

\* "Reverse later repayments first": no event posted after this one stands.
\* Within one transaction the timestamps may be equal.
NoneLater(k) == \A j \in DOMAIN events :
  j > k /\ events[j].posted => events[j].first = events[k].first

Untouched(l) == (\A c \in Components : l.paid[c] <= 0) /\ l.due.fee = 0

RestoredBeside(s, undo) ==
  LET originals == InOrder(s, undo.superseded)
  IN  s \o [k \in DOMAIN originals |->
              [s[originals[k]] EXCEPT !.ver = undo.version + 1, !.status = "DUE"]]

\* The replaced instalments are put back as copies of a newer version.
Restored(s, undo) ==
  LET replaced == {i \in Live(s) : s[i].ver = undo.version}
      originals == InOrder(s, undo.superseded)
  IN  WithStatus(s, replaced, "SUPERSEDED")
        \o [k \in DOMAIN originals |->
              [s[originals[k]] EXCEPT !.ver = undo.version + 1, !.status = "DUE"]]

MayRestore(s, undo) ==
  /\ version = undo.version
  /\ \A i \in Live(s) : s[i].ver = undo.version => Untouched(s[i])
  /\ \A i \in undo.superseded : s[i].status = "SUPERSEDED"

\* What the event paid of each instalment is owed again.
Unallocated(s, a) ==
  [i \in DOMAIN s |->
     IF i \notin DOMAIN a THEN s[i]
     ELSE [s[i] EXCEPT !.paid = [c \in Components |-> @[c] - a[i][c]],
                       !.status = "DUE"]]

\* The returned-payment fee falls on the earliest open instalment.
Charged(s, fee) ==
  IF fee = 0 \/ Open(s) = {} THEN s
  ELSE LET i == CHOOSE i \in Open(s) : \A j \in Open(s) : s[i].n <= s[j].n
       IN  [s EXCEPT ![i].due.fee = @ + fee]

Reverse ==
  \E k \in DOMAIN events, returned \in BOOLEAN :
    LET e        == events[k]
        undoing  == e.undo # NoUndo
        schedule == Unallocated(IF undoing THEN Restored(lines, e.undo) ELSE lines,
                                e.allocations)
        fee      == IF returned /\ e.type = "REPAYMENT" /\ Open(schedule) # {}
                    THEN ReturnFee ELSE 0
    IN  /\ Len(events) <= MaxEvents
        /\ e.posted /\ e.type \in {"REPAYMENT", "ADVANCE_APPLIED"}
        /\ led.row.advance + L!AdvanceChange(e) >= 0
        /\ IF undoing THEN MayRestore(lines, e.undo) ELSE version = e.version
        /\ NoneLater(k)
        /\ \A i \in DOMAIN e.allocations : i \in Live(lines)
        /\ tx' = [op |-> "REVERSAL", event |-> LedgerEvent(e), returnFee |-> fee]
        /\ led' = L!ReturnFeeCharged(L!Reversed(led, LedgerEvent(e)), fee)
        /\ lines' = Charged(schedule, fee)
        /\ version' = IF undoing THEN e.undo.version + 1 ELSE version
        /\ events' = [events EXCEPT ![k].posted = FALSE]
        /\ UNCHANGED <<accrued, day, dpd, writeOffTask, refundTask, lossLeft>>

-----------------------------------------------------------------------------
(* End of day. *)

EndOfDay ==
  LET p    == Prepare(day)
      l1   == L!Prepared(led, p)
      days == DaysPastDue(p.lines, day)
      move == IF ~led.nonAccrual /\ days >= NonAccrualFrom THEN "ENTER"
              ELSE IF led.nonAccrual /\ days <= CureAt THEN "CURE" ELSE "NONE"
      l2   == CASE move = "NONE"  -> l1
                [] move = "ENTER" -> L!EnteredNonAccrual(l1)
                [] move = "CURE"  -> L!Cured(l1)
      required == IF days > 0 THEN Allowance ELSE 0
  IN  /\ Active
      /\ tx' = [op |-> "END_OF_DAY", accrual |-> p.accrual, cap |-> p.cap,
                adv |-> p.adv, move |-> move, required |-> required,
                open |-> Open(p.lines) # {}]
      /\ led' = L!ClosedIfRepaid(L!Provisioned(l2, required), Open(p.lines) # {})
      /\ lines' = p.lines
      /\ accrued' = accrued + p.accrual
      /\ events' = events \o AdvanceEvents(p)
      /\ ClosingZeroes(days)
      /\ UNCHANGED <<version, day, writeOffTask, refundTask, lossLeft>>

\* BusinessDateService.advance, by one day.
NextDay ==
  /\ day < MaxDay
  /\ day' = day + 1
  /\ UNCHANGED <<led, tx, lines, events, version, accrued, dpd,
                 writeOffTask, refundTask, lossLeft>>

-----------------------------------------------------------------------------
(* Settlement. *)

SettlementEvent == Event("SETTLEMENT", Nothing, <<>>, 0, Len(events) + 1)

\* quote, before catchUp: what is owed with the interest not yet posted.
QuotedInterest(p) == led.row.interest + p.accrual
Quoted(p) == L!Payoff(led, QuotedInterest(p), SettlementCharge)

\* The journal settleInTx posts after catchUp: interest owed beyond what is then
\* receivable is credited to income (interestAdjustment).
SettlementBalances(p) ==
  LET l1 == L!CaughtUp(led, p)
      adjustment == QuotedInterest(p) - l1.row.interest
  IN  Quoted(p) + l1.row.advance
        = L!Outstanding(l1) + SettlementCharge + adjustment

\* PostingService.post refuses a journal that does not balance.
Settle ==
  \E asOf \in ValueDates :
    LET p      == Prepare(asOf)
        l1     == L!Accrued(led, p.accrual)
        due    == DueBy(p.caught, asOf)
        future == DueAfter(p.caught, asOf)
        all    == [i \in due |-> Owed(p.caught[i])]
    IN  /\ Active
        /\ Quoted(p) >= 0
        /\ SettlementBalances(p)
        /\ tx' = [op |-> "SETTLEMENT", accrual |-> p.accrual,
                  int |-> l1.row.interest, charge |-> SettlementCharge]
        /\ led' = L!Settled(l1, l1.row.interest, SettlementCharge)
        /\ lines' = WithStatus(Applied(p.caught, all), future, "SUPERSEDED")
        /\ accrued' = accrued + p.accrual
        /\ events' = Append(events, SettlementEvent)
        /\ dpd' = 0
        /\ UNCHANGED <<version, day, writeOffTask, refundTask, lossLeft>>

\* negotiatedSettlement: the agreed amount clears principal, then interest, then
\* fees, and the product forgives the rest.  The days past due stay on the row.
SettleForLess ==
  \E asOf \in ValueDates, agreed \in Agreed :
    LET p   == Prepare(asOf)
        l1  == L!CaughtUp(led, p)
        int == Least(l1.row.interest, Positive(agreed - l1.row.principal))
    IN  /\ Active /\ led.row.advance = 0
        /\ agreed < L!Outstanding(l1)
        /\ tx' = [op |-> "NEGOTIATED_SETTLEMENT", accrual |-> p.accrual,
                  cap |-> p.cap, agreed |-> agreed, int |-> int]
        /\ led' = L!SettledForLess(l1, agreed, int)
        /\ lines' = WithStatus(p.caught, Open(p.caught), "SUPERSEDED")
        /\ accrued' = accrued + p.accrual
        /\ events' = Append(events, SettlementEvent)
        /\ UNCHANGED <<version, day, dpd, writeOffTask, refundTask, lossLeft>>

-----------------------------------------------------------------------------
(* Write-off, recovery and refund: proposed by one person, decided by another. *)

OnlyTasks == UNCHANGED <<led, tx, lines, events, version, accrued, day, dpd,
                         lossLeft>>

LateEnough == dpd >= WriteOffMinDpd

\* assertWriteOffFloor reads the days past due the last batch stored.
MayWriteOff == dpd >= WriteOffMinDpd /\ led.row.advance = 0

ProposeWriteOff ==
  /\ MayWriteOff /\ ~writeOffTask
  /\ writeOffTask' = TRUE
  /\ OnlyTasks /\ UNCHANGED refundTask

RejectWriteOff ==
  /\ writeOffTask /\ writeOffTask' = FALSE
  /\ OnlyTasks /\ UNCHANGED refundTask

ApproveWriteOff ==
  /\ writeOffTask /\ MayWriteOff /\ Active
  /\ writeOffTask' = FALSE
  /\ tx' = [op |-> "WRITE_OFF"]
  /\ led' = L!WrittenOff(led)
  /\ lossLeft' = L!Outstanding(led)
  /\ lines' = WithStatus(lines, Open(lines), "WRITTEN_OFF")
  /\ events' = Append(events, Event("WRITE_OFF", Nothing, <<>>, 0, Len(events) + 1))
  /\ UNCHANGED <<version, accrued, day, dpd, refundTask>>

Recover ==
  \E amount \in PayAmounts :
    /\ led.status = "WRITTEN_OFF"
    /\ amount <= lossLeft
    /\ tx' = [op |-> "RECOVERY", amount |-> amount]
    /\ led' = L!Recovered(led, amount)
    /\ lossLeft' = lossLeft - amount
    /\ UNCHANGED <<lines, events, version, accrued, day, dpd, writeOffTask,
                   refundTask>>

ProposeRefund ==
  /\ refundTask = 0
  /\ refundTask' \in RefundAmounts \cap 1 .. led.row.advance
  /\ OnlyTasks /\ UNCHANGED writeOffTask

RejectRefund ==
  /\ refundTask > 0 /\ refundTask' = 0
  /\ OnlyTasks /\ UNCHANGED writeOffTask

ApproveRefund ==
  /\ refundTask > 0
  /\ refundTask <= led.row.advance
  /\ refundTask' = 0
  /\ tx' = [op |-> "ADVANCE_REFUND", amount |-> refundTask, open |-> Open(lines) # {}]
  /\ led' = L!ClosedIfRepaid(L!Refunded(led, refundTask), Open(lines) # {})
  /\ ClosingZeroes(dpd)
  /\ UNCHANGED <<lines, events, version, accrued, day, writeOffTask, lossLeft>>

-----------------------------------------------------------------------------
Init ==
  /\ L!Init
  /\ lines = Schedule
  /\ events = <<>>
  /\ version = 1
  /\ accrued = 0
  /\ day = 0
  /\ dpd = 0
  /\ writeOffTask = FALSE
  /\ refundTask = 0
  /\ lossLeft = 0

Operation ==
  \/ RepayDue \/ RepayInAdvance \/ Prepay \/ Reverse
  \/ EndOfDay \/ NextDay
  \/ Settle \/ SettleForLess
  \/ ProposeWriteOff \/ RejectWriteOff \/ ApproveWriteOff \/ Recover
  \/ ProposeRefund \/ RejectRefund \/ ApproveRefund

\* The CHECK constraints of LoanAccount: the database refuses the transaction of
\* a handler that would leave a balance of the row below zero.
BalancesCheck == \A b \in L!Balances : led.row[b] >= 0

Next == Operation /\ BalancesCheck'

Spec == Init /\ [][Next]_vars
-----------------------------------------------------------------------------
(* Properties. *)

\* Records keep their shape, and amounts and days are no less than nothing.
TypeOK ==
  /\ led \in L!Books
  /\ \A i \in DOMAIN lines : lines[i] \in Instalments
  /\ \A k \in DOMAIN events :
       events[k].type \in {"REPAYMENT", "ADVANCE_APPLIED", "SETTLEMENT", "WRITE_OFF"}
  /\ {version, accrued, day, dpd, refundTask, lossLeft} \subseteq Nat
  /\ writeOffTask \in BOOLEAN

\* Every operation on the schedule is an operation of LoanLedger: no handler asks
\* more of a balance than the balance holds, whatever order they come in.
ImplementsLedger == L!Spec

\* LendingOperationsService.reconciliation: the principal the open instalments
\* still bill is the principal outstanding (interest yet to be capitalized apart).
ScheduleIsPrincipal ==
  Active => led.row.principal =
    Over(Open(lines), LAMBDA i : Owed(lines[i]).prin - lines[i].cap)

\* The prepayments that stand, and the instalments they replaced.
Prepayments == {k \in DOMAIN events : events[k].posted /\ events[k].undo # NoUndo}
Replaced == UNION {events[k].undo.superseded : k \in Prepayments}

\* The instalment in whose period prepayment k fell, and whether a later one fell
\* in the same period: the stub of that period is then billed from the later day.
Current(k) == lines[InOrder(lines, events[k].undo.superseded)[1]]
PrepaidAgain(k) ==
  \E j \in Prepayments : j > k /\ Current(j).end = Current(k).end

\* The interest no bill asks for because of prepayment k: on the money prepaid,
\* for the days it was backdated, or for the period's, when it was prepaid again.
\* A new schedule may round each of its instalments down by one.
LostBy(k) ==
  LET days == IF PrepaidAgain(k) THEN Current(k).end - Current(k).start
              ELSE events[k].undo.backdated
  IN  IF days = 0 THEN 0
      ELSE Interest(events[k].prepaid, days) + Cardinality(events[k].undo.superseded)

\* accruedOnLine: what accrual posts is what the contract bills; but for LostBy, no
\* interest is receivable that no open instalment will ever ask for.
InterestIsBilled ==
  Active => led.row.interest <=
    Over(Open(lines), LAMBDA i : Owed(lines[i]).int + lines[i].cap)
      + Over(Prepayments, LostBy)

\* What the instalments due today ask for is receivable once interest to today
\* is posted: nothing is billed twice, but interest that was paid on an instalment
\* a prepayment replaced.
BillsAreReceivable ==
  Active => Over(DueBy(lines, day), LAMBDA i : Owed(lines[i]).int)
              <= led.row.interest + Prepare(day).accrual
                   + Over(Replaced, LAMBDA i : lines[i].paid.int)

\* Every fee receivable is billed by one instalment, open or replaced.
FeesAreBilled ==
  Active => led.row.fees =
    Over(Open(lines) \cup Replaced, LAMBDA i : Owed(lines[i]).fee)

\* repayInTx: an advance never exceeds what the loan owes, so the loan uses it up.
AdvanceIsCovered == led.row.advance <= L!Outstanding(led)

\* What the instalments of one number show as paid is what standing payments
\* allocated to them, whichever version of the schedule they belong to: reversals
\* and reschedules neither lose a payment nor count one twice.
Paid(n, c, S) == Over({i \in S : lines[i].n = n}, LAMBDA i : lines[i].paid[c])
PaymentsStand ==
  Active => \A n \in {lines[i].n : i \in DOMAIN lines}, c \in Components :
    Paid(n, c, Live(lines) \cup Replaced) =
      Over({k \in DOMAIN events : events[k].posted}, LAMBDA k :
        Over({i \in DOMAIN events[k].allocations : lines[i].n = n},
             LAMBDA i : events[k].allocations[i][c]))

\* Row, schedule and standing payments agree, in each way in which handlers that
\* build on one another could bring them apart.
AccountAgrees ==
  /\ TypeOK
  /\ ScheduleIsPrincipal /\ InterestIsBilled /\ BillsAreReceivable /\ FeesAreBilled
  /\ PaymentsStand

\* closeIfRepaid: a loan with no instalment left to bill is closed.
OpenLoanBills == Active => Open(lines) # {}

\* A settled or written-off loan stays so: no reversal reopens it.
FinalStaysFinal ==
  [][(\E k \in DOMAIN events : events[k].type \in {"SETTLEMENT", "WRITE_OFF"})
       => led'.status = led.status]_vars

\* assertWriteOffFloor: a performing loan is not written off.
WriteOffIsLate ==
  [][Active /\ led'.status = "WRITTEN_OFF"
       => DaysPastDue(lines, day) >= WriteOffMinDpd]_vars

\* settleInTx: the amount the quote states settles the loan on that day.
QuoteIsHonoured ==
  Active /\ Quoted(Prepare(day)) >= 0 => SettlementBalances(Prepare(day))

\* settleInTx: every penny of interest is collected, so none stays in suspense.
SuspenseIsReleased ==
  led.status = "CLOSED" => led.gl.interestSuspense = 0

\* applyAdvance: once every instalment has fallen due, the end of day leaves none
\* of the borrower's money on advance.
UsesAdvance ==
  tx' # tx /\ tx'.op = "END_OF_DAY" /\ DueAfter(lines, day) = {} => led'.row.advance = 0
AdvanceIsUsed == [][UsesAdvance]_vars
=============================================================================
