# Magic Money lending: a verification development in TLA+

Magic Money (`src/`) is a multi-tenant lending platform. The models here are of
what happens to a loan's money and of the work around it that several people,
API instances and outside systems do at once: servicing, end of day and month
end, the calls that move money and the messages that tell of it, payments that
come in, facilities, applications, restructuring, recovery, collections, and an
organisation's own subscription and erasure.

TLC checks every model on small instances (`MC*.tla` and `*.cfg`); TLAPS proves
the central invariants for all values of the constants (`*Proofs.tla`).
`PROJECT.json` says which lines each definition is translated from, what each
run checks, which mistake each property catches, what disagreements between
code and documentation were met, and which hazards the code has.

## 1. The system

`apps/api` is a NestJS service over PostgreSQL (Prisma). Servicing math is a
pure library, `packages/shared/src/lending`. The web application `apps/web`
only calls the API. Paths below are under `src/`; `servicing/...` and so on are
under `apps/api/src/lending/`.

### The core of servicing

| Part | State it keeps | Operations | What is hard |
| --- | --- | --- | --- |
| Servicing, `servicing/servicing.service.ts`, `loan-state.ts` | `LoanAccount` row (six balances, status, version), `ScheduleInstalment`, `FinancialEvent`, write-off and refund tasks | repayment, prepayment, advance, reversal and return, settlement (full, negotiated), write-off, recovery, refund, and the loan's part of end of day | any order of operations must keep row, schedule and ledger in agreement; reversals undo what later operations built on; proposals are decided on a state that has moved |
| Schedule and allocation, `packages/shared/src/lending/{servicing,schedule,money}.ts` | none | accrual on a line, allocation of a payment, rescheduling after a prepayment | sums of rounded daily interest, two balances within one period |
| Money operation, `servicing.service.ts: money`, `recordEvent`, `common/lending-prisma.ts` | the idempotency key on `FinancialEvent` | look up, lock, handle, insert, commit | two calls with one key; a lost answer; a timeout |
| Posting, `accounting/posting.service.ts`, `period-lock.ts` | `JournalEntry` | post a balanced journal, refuse a locked month | an unbalanced journal blocks the operation for ever; the lock is read before the commit |
| Business date, `common/business-date.service.ts` | `TenantBusinessDate` | get, advance | read and written without a lock |
| End of day, `servicing/eod-scheduler.service.ts`, `servicing.service.ts: runBatch` | last batch date and failures | scheduled run with catch-up, manual run, one transaction per loan | partial failure, a death between any two steps, two runs at once |
| Month-end close, `accounting/period-close.service.ts` | `AccountingPeriod` | prepare, approve, reject, ask to reopen, decide, prepare automatically | checks in one transaction, writes in another, rows addressed by id alone |

A request enters through a controller, passes the permission and policy
checks, and runs a handler in `money(...)`: one database transaction that locks
the loan's row, first *catches up* (posts interest to the value date,
capitalizes grace interest, uses the advance held) and then does its own work;
journals go through `PostingService`. The end-of-day batch runs the same
catch-up for every loan, one transaction each, then provisions and refreshes
days past due. The scheduler moves the business date and runs the batch once
per missed day. Month-end close reads the date, the record of the last batch
and the books, and locks the month; the lock is enforced where entries are
inserted.

### Around the core

| Part | State it keeps | Operations | What is hard |
| --- | --- | --- | --- |
| Outbox, `accounting/operations.service.ts: deliverOutbox` | `LendingOutbox` rows: status, attempts, due time | claim under a lease, send, answer | instances that die or outlive the lease; answers that arrive after somebody else's |
| Webhooks, `integrations/webhooks.service.ts` | endpoints, deliveries | fan-out, send, switch off after failures, register and approve endpoints | a run acts on the endpoints it listed at its start; a decision takes a name resolution between reading and writing |
| Receipts, statements, channel files, suspense, `payments/khqr/`, `payments/{suspense,channel-files}.service.ts` | receipts, statement lines, channel payments, suspense items | claim, record, verify, import, match, refund | one transfer reported by three ways at once, by imports that read without locks |
| Automatic debits, `payments/payment-channels.service.ts: collectDue` | mandates and attempts | collect, retry, record the outcome | the bank's answer comes outside any transaction and may be lost |
| Facilities, `facilities/facilities.service.ts` | the facility's versioned row, drawdowns, limit changes | request, approve and release drawdowns, repay, statement, change limit and status, term out | the row is read before the lock that serializes the rest |
| Origination, `origination/{applications,key-facts}.service.ts`, disbursement in servicing | application, approvals, key facts statements, booked loan, conditions | draft to disbursement | terms, policy and statement may all change under a request |
| Restructuring, `restructuring/restructuring.service.ts` | case, proposals, amendments | assess, propose, approve, accept, execute, reverse | execution writes the case without a condition; payments move the balances a proposal was made for |
| Recovery, `recovery/recovery.service.ts`, `collateral/collateral.service.ts` | repossessions, pawned items, insurance claims, debt sales, surpluses | propose and decide each | tasks are decided on a loan that has since been paid, reopened, written off or sold |
| Collections, `collections/{collections,promises}.service.ts` | tasks, promises, demands on the guarantor, set-offs | raise, claim, complete, review, demand, pay, set off | a review counts receipts in one read and the loan in another |
| Subscription and quota, `apps/api/src/{billing,plan-tiers,tenants}` | tier, subscription, plan payments | Stripe events, QR payments, decisions, bookings under the quota | events repeated and reordered, decisions without a lock |
| Erasure and purge, `apps/api/src/{tenants,platform-approvals}` | trash, archive, purge requests | erase, reactivate, archive, ask, decide, purge | two administrators, seven reads before the first write |

Every part posts through servicing's transactions or stands beside them, and
meets them through the `LoanAccount` row (its lock and its version), the outbox
written in the same transaction as the business change, and end of day.

What makes the parts correct (section 4 says where the code falls short of it):

* servicing - the row agrees with the ledger; the schedule bills what is owed,
  no more and no less, and each due once; a payment is never lost or counted
  twice; a loan that leaves the book leaves nothing behind; a final status is
  final; borrowers' money held is used or returned;
* money operations - a key is executed at most once, and its callers are told so;
* business date and end of day - the date goes forward and reaches the calendar;
  no day and no loan is skipped; a clean record means a clean run;
* month-end close - a locked month was approved by a second person, is complete,
  stays as it was, and months are closed in order;
* delivery - what is recorded as sent was received, what is given up was tried,
  everything is answered in the end, one instance at a time holds a message;
* payments - money is posted once, held once, and used once; an instalment is
  debited in its turn and every debit leaves a trace;
* facilities - what is drawn agrees in row, drawdowns and ledger and goes out
  only within the limit as it stands;
* contract - a loan is booked as disclosed, on a decision taken by enough people,
  paid out once; it is amended only by what was approved and accepted, and a
  reversal restores what was there;
* realisation - security is used once, and nothing sold is still in hand;
* collections - promises are decided from what was paid, on time, and followed up;
  a guarantor's payment is posted;
* organisation - an event or payment changes the plan once, running loans stay
  within the plan, and a purge was approved by a second administrator for the
  erasure it carries out.

### Not modelled

Listed in `PROJECT.json`, each with its reason: impairment grading and the
regulatory reserve (the allowance a loan needs is a free amount here), rate
resets, cooling-off; product families built on the same postings (trade finance,
cards, pay-later, leasing, syndication, murabaha, income-contingent and project
finance); migration; products, policies, workflows and permissions, which the
models take as constants or as guards; scoring, AML, documents, reporting, work
lists, authentication, and the web application. Of the modelled parts the
component notes in `PROJECT.json` and the headers of the modules say what is
left out.

## 2. The modules

```
 LoanLedger     <-- implements -- LoanAccount -- extends --> ServicingEngine
 AtMostOnce     <-- implements -- MoneyOperation
 LeasedDelivery <-- implements -- Outbox, Webhooks
 BusinessDay    <-- extends ----- PeriodClose
 Receipts  AutoDebit  Facilities  Origination  Restructuring  Recovery
 Collections  Subscription  Erasure
```

A module has one variable per table or piece of shared state it is about, one
variable for what each request under way has read, and one action per handler,
or per transaction of a handler where it has several or reads before it locks.
`*Proofs` modules hold the theorems of the module they extend.

### LoanLedger: the money of one loan

The abstract specification of servicing. `led` holds the balances of the
`LoanAccount` row and, beside it, the general-ledger accounts posted for that
loan; every operation is one transaction and one action: the row update and the
journal its handler writes. The amounts a handler reads off the schedule are
fields of `tx`, chosen freely within what the balances hold. Operators are named
for the piece of handler they stand for (`Accrued`, `Capitalized`,
`AdvanceApplied`, `Repaid`, `Settled`, `WrittenOff`, ...), so that
`LoanAccount` uses the very same postings.

### ServicingEngine: the pure functions

Instalments as records (`due` and `paid` by component, opening balance,
capitalized interest, status), daily accrual rounded half up on a line and its
cumulative form, the components an instalment asks for, allocation of a payment
in the product's order, and rescheduling (`RECAST`, `SHORTEN`). Amounts are
whole numbers and the daily rate is the fraction `RateNum / RateDen`, so that
rounding matters. The instalments of a contract at disbursement are a constant,
as an `EXPLICIT` schedule is in the code; the due date is the period end.

### LoanAccount: the handlers of one loan

State: LoanLedger's `led` and `tx`, `lines` (superseded instalments included,
as in the table), `events` with what a reversal reads of them, `version` (the
agreement version a prepayment bumps), `accrued` (interest already posted), the
business date `day`, `dpd` as stored, and the tasks waiting for a second person.
One action per handler: `RepayDue`, `RepayInAdvance` and `Prepay` (the three
treatments of `repayInTx`), `Reverse` (reversal and return of a payment),
`EndOfDay` (the loan's transaction in `runBatch`), `NextDay`, `Settle`,
`SettleForLess`, the write-off and refund proposals and decisions, `Recover`. Each
handler is one step because `loadLoanState` locks the row `FOR UPDATE` and
`casAccount` compares the version at the end; what interleaves is the order of
handlers, and the batch with users. A step of `Next` is refused where it would leave
a balance of the row below zero (`BalancesCheck`), as the table's CHECK constraints
refuse it.

What the model leaves out: late penalties, taxes, fee waivers, permissions and
policy, guarantor and group contributions, foreign currency, the hooks of other
products at closure, and the rounding difference of a settlement. Which part of
an excess is prepaid follows the product's rule where the rule says so and is
free where the caller says. A reversal has no check of the loan's status in the
code, and has none here.

### AtMostOnce and MoneyOperation: a call with an idempotency key

`AtMostOnce` is the promise: the request of a key is executed once, every caller
is told what happened, nothing is taken that is not owed. `MoneyOperation` is
`money(...)`: the look-up outside the transaction, `BEGIN`, the row lock, the
handler's check, the insertion under the unique key, which waits for an
uncommitted holder of the key and either conflicts with it or goes on, commit, and
`Winner`, the second look-up after a conflict. `Die` is a crash or the
transaction timeout: everything uncommitted is gone and the caller is told
nothing but failure, and the answer of a committed call may be lost too. A request is a loan and an amount; its
hash is the whole request; a handler's refusals are "more than is owed".

### BusinessDay: date and batches

Officers advance the date and run batches whenever they like; the scheduler
works through the days it misses, each with its own steps: read the date, write
it, start the batch, loan by loan in any order, record the outcome. A loan may
fail; an actor may die at any step. `asOf` is the date each loan's days past due
were counted at; `ran` and `ended` are history. The set of ACTIVE loans is fixed.

### PeriodClose: months

Extends BusinessDay by `period` rows, clerks whose requests check in one step
and write in another (READ COMMITTED, no row lock), the automatic preparation of
the previous month after an end-of-day run, and postings that read their date,
insert (where the trigger looks at committed periods) and commit. A month is
`MonthLength` days. The table's check constraint is the guard of `Write`, and a
row created twice loses to the unique key. Checks on impairment policies,
balances and reconciliation are taken to pass; year end and the reserve's own
posting are left out. Automatic preparation takes the previous month to exist
when it is a month of the model, which is to say that the tenant has been
active since the first day modelled.

### LeasedDelivery, Outbox and Webhooks: messages to the outside

`LeasedDelivery` says what a lease is for: items are created, several at once where
a transaction writes several, and each is in one pair of hands at a time and is
answered once. `Outbox` is `deliverOutbox` on several instances: a
run lists what is due (`Fetch`), claims each message by moving its due time
past the lease (`Claim`), sends, and writes what it made of the answer, from the
attempt count it read in the list. `Tick` is time; a send takes at most
`MaxSend` ticks unless the instance dies. `Webhooks` adds the fan-out of
messages to the endpoints that a run listed at its start, deliveries claimed by
`nextAttemptAt`, endpoints that are switched off after failures, and the
registration and approval of endpoints, whose name is resolved between reading
and writing the row. Both are shown to implement `LeasedDelivery`, under the
mapping that an instance holds what it has claimed and not yet answered, as long
as a send ends within the lease.

### Receipts and AutoDebit: money that comes in

`Receipts`: borrowers' and staff's receipts (`ReadForm`, `Record`, `Verify`),
bank statements and channel files (`DecideStatement`, `DecideChannel`, then what
they decided), suspense items matched or refunded under maker-checker. Imports
and recordings decide on what they read without locks and write later; the rest
holds its row. `AutoDebit`: a batch plans, records an attempt, asks the bank
outside any transaction and writes the outcome; mandates may be revoked, batches
overlap and die, answers are lost.

### Facilities: a line of credit

The facility's row is read by `Look` before the `LoanAccount` row is locked;
the rest of a transaction is one step, with the row it saw (`seen`). Whether that
row is still current when it is written back is asked by `CasFacility` and not
by `Keeps`, as in the code. Movements are kept by value date, so that the
position of a past day can be computed as `facilityPosition` does.

### Origination, Restructuring: the contract

An application from draft to disbursement, each request a read and a
conditional write (`cas`), except where the code locks the loan's row or writes
without a condition; key facts statements are issued by two transactions, and
what was disclosed is compared with what is booked. A restructuring case the
same way; execution and the return of stale proposals write the case whatever
it has become, and the loan's money moves beside it (`Pay`, `ReversePayment`).

### Recovery, Collections: a loan that is not repaid

`Recovery`: every operation locks the loan, so each is one step, and what may go
wrong is the order: repossession, pawn, insurance, debt sale, surplus and
collateral release, each proposed and decided, beside repayment, reversal,
write-off and end of day. A loan has one pawned item in the model; the code allows
several, each with its own status. `Collections`: the ladder of tasks a batch raises,
their claims and outcomes, promises and their reviews (a review counts receipts,
then reads the loan, then writes under a condition), demands on the guarantor
and payments on them, and set-off.

### Subscription, Erasure: the organisation

`Subscription`: Stripe's events, each claimed by its id in the transaction that
applies it; QR payments minted, confirmed, rejected and lapsing; bookings that
count the running loans under the plan's ceiling, beside loans that close, are
reopened by a reversal (`ReopenLoan`), or come to run without asking (`BookUnasked`).
`Erasure`: the trash and its
grace period, the archive, the purge request decided by a second administrator,
and the purge itself in its five reads and two deletions.

Variants that no definition uses (`...Again`, `...Beside`, `...Short` and the
like) are plausible mistakes in the code their neighbour stands for. Each is
put in the neighbour's place to see a property fail.

## 3. What the runs check

Several small systems that do not share state are checked in one run: a variable
`scene`, chosen at first and never changed, says which of them moves. The
others stay in one fixed state, so the states are a sum, not a product. A
scene has constants of its own by `INSTANCE ... WITH`: `Prepaying` and `Money` in
`MCContracts`, `Hooks` in `MCDelivery`, `Debits` and `Money` in `MCPayments`, `Plan` in
`MCBackOffice`, `Application` and `Arrears(m)` in `MCCases`, where `m` is the
record of constants of a loan in arrears and `Loans` has one for each scene.

| Run | Scenes and instances | What it shows |
| --- | --- | --- |
| `ledger` | LoanLedger, amounts 0 and 1, at most 2 outstanding, held and provided; Recovery with 2 repossessions, 2 claims, a debt sale, a refund | row and ledger agree, suspense is covered, journals balance, terminal loans are empty and their profit is cash; the money realised agrees with the ledger, security is used once |
| `account_contracts` | LoanAccount, principal 5, two instalments of two days and of one, backdating by a day, fees for returned payments: excess held on advance; or excess prepaid, recast or shortened, by either of two payments or both; MoneyOperation: 3 calls, 2 keys, 2 loans, 3 requests | schedule, balances and payments agree; implements LoanLedger; final statuses are final; the advance is used up; implements AtMostOnce; what was checked under the locks holds at commit |
| `account_grace` | a separate fee, a grace period, one instalment | capitalization by whichever operation comes first; implements LoanLedger |
| `money` | the same calls | every call is answered |
| `day` | 2 loans, 1 officer, 4 days, one failure or death | a clean record is a whole batch; the date reaches the calendar |
| `close_days` | PeriodClose: 2 clerks, end of day with an officer and one trouble; or a request that posts | no month is locked before end of day was run at its end or later |
| `delivery` | Outbox: 2 instances, one of which may die; Webhooks: messages, endpoints, administrators | answers are true, the lease is exclusive, everything is answered |
| `payments` | a facility with 2 sessions and 2 drawdowns; receipts, a statement, a channel file and a walk-in with 2 uploads; debits of 2 due dates by 2 batches | the line agrees, money is used once, debits come in turn, drawdowns stay under the limit |
| `back_office` | the purge of an organisation by 2 administrators and 2 requests; Stripe; QR codes; the quota with 4 bookings | purges are approved; an event is applied once; loans that asked for their place stay within the plan |
| `cases` | a restructuring case; an application; promises under one review, under two with late payments, a collectors' queue with a set-off, two demands on the guarantor | amended in order, contracted as disclosed, decided in order; promises followed up, demands posted |

Properties that look at one invariant from several sides are conjunctions of
named parts, which the modules state and comment one by one:

| Property | Its parts |
| --- | --- |
| `AccountAgrees` | `TypeOK`, `ScheduleIsPrincipal`, `InterestIsBilled`, `BillsAreReceivable`, `FeesAreBilled`, `PaymentsStand` |
| `ContractAgrees` | `AccountAgrees` of the contract at hand, and `AdvanceIsCovered` where nothing prepays |
| `LockedAfterEndOfDay` | `CloseTypeOK`, and the statement itself |
| `AnswersAreTrue` | `TypeOK`, `GivenUpAfterTries`, `SentIsReceived` |
| `EverythingIsAnswered` | `Answered` of the outbox, `EventsArrive` of the webhooks |
| `LineAgrees` | `TypeOK`, `DrawnAgrees`, `NothingOpenAfterTermOut` |
| `MoneyIsUsedOnce` | `TypeOK`, `PostedOnce`, `HeldOnce`, `LinkedOnce` |
| `DebitsInTurn` | `TypeOK`, `TriesInTurn`, `DebitsAreTraced` |
| `PurgeIsApproved` | `TypeOK`, `ApprovalIsFresh`, `ApprovedForThisErasure` where `Ttl <= Grace`, `PurgedByTwo` |
| `AppliedOnce` | `TypeOK`, `NoOrphanClaim`, and that no event is applied twice |
| `LoanIsAmendedInOrder` | `TypeOK`, `TermsAreAgreed`, `OneLiveProposal`, `NothingIsLost` |
| `ContractedAsDisclosed` | `TypeOK`, `BookedAsDisclosed`, `OneStatementInForce` |
| `DecidedInOrder` | `ApprovedByEnough`, `PaidOutInOrder` |
| `SecurityIsUsedOnce` | `PolicyPaysOnce`, `NothingSoldInHand`, `SoldPledgeWasSeized` |
| `PromisesAreFollowed` | `TypeOK`, `OnePromise`, `ReviewsDecide`, `DecidedOnTime`, `FollowedUp` |
| `DemandedIsPosted` | `TypeOK`, `DemandsAreCovered`, `SetOffByTwo` |

Violation runs each show one disagreement between the code and what the code
says of itself; `findings` in `PROJECT.json` quotes the lines:

| Run | What happens |
| --- | --- |
| `recovery_sold` | a repayment made before a debt sale is reversed after it: the loan is ACTIVE again while the purchaser owns the debt |
| `guarantor_pays` | a demand is withdrawn after the guarantor paid part of it; the next may be for the whole guarantee again |

### Bounds, and why they are enough

Every bound is a constant or a conjunct named in a `.cfg` or an `MC` module.

* LoanAccount: the business date runs to day 4, one past the last instalment (to
  day 3, its due date, where money prepays), so that every instalment becomes due;
  `MaxEvents = 2` bounds the events that may precede a new payment, which a
  reversal, an application of the advance and a batch may still follow. Two
  instalments are enough for a payment to cross from one to the next. Amounts
  and the rate, half a unit a day, are such that two payments may prepay in one
  period, or one of them a day late, each with loss of interest, and that
  rounding occurs. `RefundAmounts` bounds what is asked back of an advance. With
  `MaxEvents <- 3` and no refunds the prepaying contract has 1.6 million states and
  needs a quarter of an hour; `ContractAgrees` and `ImplementsLedger` hold there too.
* LoanLedger: balances of 0, 1 and 2 distinguish nothing, part and all of a
  balance. TLAPS removes the bound, and with it the choice of `InterestGrace` and
  `ReverseOnEntry`; `account_grace` runs the other value of the first.
* MoneyOperation: three calls let two repeats race a first attempt; two keys on
  one loan race for the row, and a loan that can bear one payment only once
  distinguishes the order.
* BusinessDay and PeriodClose: months matter by their first and last day only,
  and are of one or two days; `MaxStep` and `MaxCatchUp` are 2 so that a run can
  reach its limit; `MaxTrouble` counts failed loans and deaths together.
* Everywhere else two of a kind race: two requests, two instances, two uploads,
  two administrators. Three are used where two only make one move possible (a
  third clerk who is not the same person, a third booking for two places). Time
  runs until a lease, a grace period or a due date has passed once more than
  there are retries. `NotAllAtOnce` keeps the purge to two of: a second erasure, a
  second request, a failed purge - with the first of each.

`VIEW` leaves `tx`, the record of the transaction committed last, out of the
fingerprint where no guard and no invariant reads it. Symmetry is used only in
runs without liveness, and only between requests, loans or people that start
alike. Deadlock is not checked, because every model may come to rest: a closed
loan, answered calls, the end of the modelled calendar.

### Fairness

* `money`: weak fairness on each call's own steps other than dying: a live server
  carries a call on, and PostgreSQL grants a lock that is free. No call need ever
  be made.
* `day`: weak fairness on the calendar and on the scheduler's own steps:
  the cron fires every day (`EodSchedulerService`), and a run that does not die
  goes on. Officers are not fair at all: they may stop at any step, and die. The
  number of troubles is bounded, not their place.
* `delivery`: weak fairness on time and on each live run's own steps. The cron
  starts a run each minute on every instance; deaths are bounded in number, so
  some instance lives. Publishing and administrators are not fair.

Other runs assume no fairness.

## 4. Statements the code does not keep

The modules state more of what comments and documents say than the runs check.
TLC finds each of these violated when it takes the place of the properties of
the configuration named, or of the module alone with the constants of its
scene; they are kept as the questions to ask again when the code changes.
(`FairSpec` is `Spec` there.)

| Statement | Where | What happens |
| --- | --- | --- |
| `AdvanceIsCovered`; `AdvanceIsUsed` with `PayAmounts <- {4, 5}` | `MCContracts`, prepaying contract | an advance is held within what is owed (`servicing.service.ts:1568`: it "never strands money"); a prepayment made meanwhile leaves more held than owed |
| `SuspenseIsReleased` | `MCLoanAccountGrace` | interest in suspense is capitalized at the end of grace; the loan settles and the suspense stays (`servicing.service.ts:1071`; `:2433` says "Every penny of interest is collected, so suspended interest is now income.") |
| `InterestIsBilled` without `LostBy` | `MCContracts`, prepaying contract | a second prepayment in one period, or one dated back behind a batch, bills less interest than was accrued (`packages/shared/src/lending/servicing.ts:147`; `:76` "Accounting accrual must reconcile to what the contract will bill") |
| `BillsAreReceivable` without its last sum | the same | a prepayment backdated into a partly paid period bills again what was paid (`servicing.service.ts:1648`) |
| `FeesAreBilled` and `PaymentsStand` without `Replaced` | the same | a prepayment replaces the instalment that bills a returned payment's fee, or that shows what was paid (`servicing.service.ts:1691`, `:2936`) |
| `WriteOffIsLate` | `MCContracts`, advance | the days past due of the last batch carry a write-off of a loan paid up since (`:4312`: "the floor is checked again") |
| `QuoteIsHonoured` | `MCLoanAccountGrace` | on the day grace ends, the quote leaves out what catch-up then capitalizes, and the settlement cannot post |
| `RepeatIsReplayed` | `MCMoneyOperation` | a repeat that waits for the row is refused by the handler although its request was executed (`:5199`; `:5168` "an existing event with this key is returned if the payload matches") |
| `DateNeverGoesBack` | `MCBusinessDay` | two callers read one date; the later write goes back (`business-date.service.ts:12`) |
| `NoDayIsLeftBehind` | `MCBusinessDay` | a death after the date is moved leaves that day without its batch (`eod-scheduler.service.ts:73`) |
| `ConcurrentRunLoses` | `MCBusinessDay` | a batch started for an earlier date overwrites a later one's days past due (`servicing.service.ts:4520`) |
| `LockedMonthIsProcessed` | `MCPeriodCloseDays` | a failed last day no longer blocks once the date has moved on (`docs/lending/OPERATIONS.md:243`) |
| `StaysClosed` | `MCPeriodCloseDays` | a preparation that read the month open takes it back to waiting after it was closed, without maker-checker (`period-close.service.ts:830`, `:94`) |
| `ReopenedByTwo` | `MCPeriodCloseDays` | a decision to reopen, read while the reopening was asked for, is written after the month was prepared and closed again: it is opened with nobody having asked (`:1014`; `:94` "A month can be reopened only under maker-checker") |
| `SnapshotIsMonthEnd` | `MCPeriodCloseDays` | postings between preparation and approval are not in the snapshot (`:575`) |
| `NothingPostedIntoLockedMonth` | `MCPeriodCloseDays` | an entry inserted before the lock commits after it (`:91`) |
| `ClosedInOrder` | `MCPeriodCloseDays` | a month is closed while the month before it is reopened (`:437`) |
| `FailuresAreCounted` | `MCDelivery`, outbox | two runs list a message with one count of attempts, and take it one after the other; each writes the count it listed plus one |
| `ImplementsLeased` | `MCDelivery` with `MaxSend = Lease` | two instances hold one message once a send may outlast its lease |
| `SecondAdministrator`, `StaysOff`, `OnlyFailingAreSwitchedOff` | `MCDelivery`, webhooks | decisions write the row they read before the name was resolved; a run's failures count against an endpoint that was approved anew |
| `OneTransferOnce`, `EveryLineIsBooked` | `MCPayments`, receipts | a transfer to an account no statement lists is recorded twice; a line whose post fails after import is not entered again (D-164) |
| `DebitedOnceADay`, `NeverWithoutMandate` | `MCPayments`, debits | a batch run again after its answer was lost asks the bank again; a revocation between plan and ask does not stop it |
| `LimitCoversDrawn`, `ScheduleIsPrincipal`, `ApprovedIsSettled` | `MCPayments`, facility | the limit is cut below what was drawn since the request; after term-out a statement or a session that read the row before moves principal beside the schedule; an approved drawdown that can no longer be released cannot be withdrawn |
| `ActivatedByPayment`, `OneLivePayment`, `DecidedOnce`, `EndedGivesNoPlan`, `TrashedStaysOff` | `MCBackOffice`, stripe and codes | payments and events are read in one step and written in another, so decisions and deliveries that race overwrite each other |
| `RunningWithinPlan` | `MCBackOffice`, quota | a loan closes, another takes its place, and a reversal of the first one's last payment writes ACTIVE without `assertRoom` (`servicing.service.ts:2980`); or a loan is refinanced, migrated or converted, which never asks for room (`applications.service.ts:1176`; D-170) |
| `BookedWithinPlan` | `MCBackOffice`, quota | the same between a booking's count and its commit: it takes a place that is no longer free (`docs/servicing/DECISIONS.md:181`) |
| `ApprovedForThisErasure` | `MCBackOffice`, purge with `Ttl = 2` | `config/operational-config.ts:173` lets approvals live up to 90 days and a grace be none at all, so an approval may outlive a reactivation and serve the next erasure; with 7 and 30 days, the defaults, it holds |
| `OnlyErasedArePurged`, `ReactivatedHasItsFiles`, `ExecutedStays`, `ArchiveIsOfThisErasure` | `MCBackOffice`, purge | a reactivation or a withdrawal between the purge's checks and its deletions |
| `SupersededIsNotExecuted`, `ReviewChangesNothing`, `ConditionsAdvance` | `MCCases`, case | execution and the return of a stale proposal write the case whatever it has become; a condition marked beside the acceptance leaves the case waiting |
| `NothingToAcceptAfterBooking`, `ResolvedOnce`, `StaleDisbursementCanBeRejected` | `MCCases`, application | a statement prepared before the booking is issued after it; a condition is resolved twice; a disbursement task whose date has passed its window can be neither executed nor rejected (`docs/user-guide/06-disbursement.md:168`) |
| `ReleasedOnceClosed`, `SeizedIsOwed`, `ForfeitedIsOwed` | `MCLoanLedger`, recovery | a loan reopened by a reversal after its pledge was released (`docs/user-guide/13-covenants-and-collateral.md:169`); tasks approved on a loan paid meanwhile |
| `TaskIsItsCollectors`, `SetOffIsOverdue`, `BrokenWasNotPaid`, `PaidIsKept` | `MCCases`, queue and reviews | a task claimed is completed by another (`docs/user-guide/11-collections-and-recovery.md:83`); a set-off is approved on instalments no longer overdue; a late entry contradicts a review; a promise paid by the payment that closes the loan is cancelled |

The first four hold in one contract and fail in another: `AdvanceIsCovered` holds
while prepayments are not allowed, and so do the next three without the terms
named. `ContractAgrees` checks them with these terms in the contract that prepays:
the interest lost is no more than that on the money prepaid, for the days it
was backdated or for those of the period it fell in when it was prepaid again
(`LostBy`); what is billed twice is no more than what was paid of the instalments
replaced; and fees and payments are all found on instalments that are open or
replaced. So the deviations are no larger than the text of each row says. The interest
billed twice would, once paid, take the row's receivable below zero; the table's
CHECK constraint then refuses the payment (`BalancesCheck`).

## 5. What is proved

TLAPS checks every step, from assumptions that the modules name
(`LedgerAssumption`, `RecoveryAssumption`, `CallsAssumption`, `DayAssumption`,
`CloseAssumption`, `OutboxAssumption`, `HooksAssumption`, `PlanAssumption`,
`RestructuringAssumption`, `ApplicationAssumption`, `FacilityAssumption`,
`DebitAssumption`, `ReceiptsAssumption`): constants are sets and numbers of the
right kind, and TLC evaluates each assumption in the run it belongs to. Where a
theorem needs more, its statement says so. TLC checked each inductive invariant on the
run's constants before it was proved. Each theorem is about the specification
a run checks, scenes included, for every value of the constants.

**SumProofs.** The lemmas about sums that others cite. A sum over a finite set is
a fold of the community modules, which is to say a `CHOOSE` of a function with a
recursive equation. That such a function exists is shown by the number of
members (`CountUp`, `SumIsSum`); then a sum moves by what one of its terms does
(`OneTermMoves`), or by a term that leaves it (`OneTermLess`), is nothing where
all terms are, and is no less than the sum of a part.

**LoanLedgerProofs, the ledger.** For every contract, every amount and every order of
operations: `TypeOK`, `BalancesReconcile`, `BooksBalance`, `TerminalIsEmpty`, and,
when the contract has no interest grace, `SuspenseReconciles` and
`TerminalProfitIsCash`. None of these is inductive alone. `IInv` joins the types
of the balances (no balance falls below nothing), agreement of each balance with
its ledger account, balance of debits and credits, the cover of suspense by
interest owed, and emptiness of terminal loans. The core is the lemma
`BookedGood`: a row update and a journal that agree with each other and take no
more than is there keep the books good; each kind of posting has a lemma that its
journal is such, each action composes two or three of them. `TerminalProfit`
follows: books that balance, with every balance account empty, leave cash
against income and expense. The condition on interest grace is real: see
`SuspenseIsReleased` in section 4.

**LoanLedgerProofs, recovery.** For any security, claims, prices and costs:
`SecurityIsUsedOnce` and `LedgerAgrees`. `RecoveryInv` has that a pledge is sold
exactly when one seizure of it is; that one claim at most is pending or settled,
a settled one used up the policy, and nothing came in on one that waits; that
nothing of a debt that was sold is on its way to a sale; and that what the ledger
owes is the sum, row by row, of surpluses held and of claims settled less what
came in on them.

**AccountProofs.** `FinalStaysFinal` under either contract, for any schedule and
amounts. Nothing in the reversal handler asks whether the loan is closed, so what
keeps a final status is the journal: the event that ended the loan is its last, a
transaction of its own, and stands (`EndingIsLast`). An earlier event cannot be
reversed before the later ones, an ending event is of no reversible type, and every
handler that adds an event needs an active loan; a refund, which may leave a loan
closed, needs an advance, and a loan written off has none (`NothingHeld`). What handlers compute does
not matter to this, so books and events are typed as loosely as they can be, and
a step is one of three shapes: it adds events, undoes one, or rests.
For any keys, calls, requests and loans: `CheckedStillHolds`, and that
MoneyOperation implements AtMostOnce. One transaction at most writes a loan
(`OneWriter`) and one at most holds an uncommitted key (`OneHolder`); that is why
what was checked still holds at commit. Under the mapping, commit is `Execute`,
every answer is `Inform`, and all other steps stutter.

**PeriodCloseProofs, end of day.** For any loans, officers, days and failures:
`CleanBatchIsWhole`. `SoFar` relates a batch in progress to what was run: while
it has counted no failure, the loans it has no longer left were run for its
date. `IInv` adds the types, that a batch has counted no more failures than
loans it has left behind (`Jobs`), and that the batch on record has ended
(`LastEnded`). `StepInvariant` is proved of `DayStep`, which also has the step of
a batch that fails on a loan because its month is locked: the close needs it.

**PeriodCloseProofs, the close.** For any calendar, clerks, requests and loans, with end of
day running beside them: `LockedAfterEndOfDay`, and
`CleanBatchIsWhole` again, now that the lock refuses postings. A call checks the
month in one transaction and writes it in another, so what it checked may be old
by then. The invariant therefore speaks of the calls too (`CallsRan`): whoever is
about to lock a month, or found it locked, may rely on a batch that ended at its
end or later, because batches that ended stay ended, whatever the record of the
last one says later. The assumption asks that the calendar has at least one
month.

**DeliveryProofs, the outbox.** Under `LeaseOutlastsSend`: `AnswersAreTrue`, and that Outbox
implements LeasedDelivery. `IInv` has that the row's due time of a message
somebody works on is the lease less the age of the claim (`HasLease`), so a row
that is due is nobody's, and one instance at most holds a message (`OneHolder`);
that neither a row nor what a run listed of it counts more failures than there
were (`Counted`); and that a run about to record a success had one (`Heard`). A
run takes the first message of its list: that a non-empty set of numbers has a
least one is proved from the library's facts on well-founded relations. Without the
hypothesis the refinement fails: see section 4.

**DeliveryProofs, webhooks.** `ActiveEndpointsHear` for any endpoints, events and
instances that fan out at once, and whatever the lease. An endpoint that was
active all along is in the list of every run (`RunsFit`), and a run marks only
what has its rows; several runs may create the same rows, which the unique key
allows once. Under `LeaseOutlastsSend`, Webhooks implements LeasedDelivery too,
by `HookLease` and `HookHolder`, the counterparts of the outbox's.

**BackOfficeProofs, the purge.** For any grace and any lapse: `PurgeIsApproved`. The
request a purge relies on was decided by a second administrator and may be executed
long after it was asked for. What ties it to the erasure at hand is time: it had not
lapsed when it was found (`ApprovalIsFresh`), and where a request lapses (`Ttl`) no
later than the grace of an erasure is over, it was therefore asked for after that
erasure. The configuration does not demand this of the two numbers, so it is the
premise of that part and not an assumption.

**BackOfficeProofs, the plan.** `AppliedOnce` and `PlacesWithinPlan`, for any events,
handlers, payments, bookings and ceilings. An event has its effect once because the one
delivery that decides on it holds its claim, and before it is done the effect has
not happened (`EventsOK`). The loans that took their place by asking are within the
best tier held because one booking at most has been counted and has not taken its
place, which the advisory lock is for; loans that run without asking only leave less
room. They are also why no more can be said: `RunningWithinPlan` fails (section 4).

**CasesProofs, the restructuring.** For any staff, calls and numbers of proposals:
`LoanIsAmendedInOrder`. Most writers of a case ask for its version, and the order
of versions makes what they read true when they write; but execution, the
marking of a condition and the return of a stale proposal write without asking,
so the invariant says per call what it may rely on (`Relies`): a call that
executes holds the loan's lock, no other does (`OneExecutes`), and the proposal it
was called for was accepted and is not executed yet, though it may have been
superseded. `AmendedOnce` and `OneAlive` tie proposals to amendments; `TermsInForce`
and `BeforeIsKept` say of the loan that, as long as nothing was posted since, the
amendment in force keeps exactly what there was before it, which is what a
reversal restores. `NothingIsLost` counts: what is owed is what was lent, less
payments, less one waiver for each amendment in force. The assumption on `Lent`
is that the loan bears all payments and waivers of the model.

**CasesProofs, the application.** For any officers, offers, statements and policies:
`ContractedAsDisclosed` and `DecidedInOrder`. Whoever writes the application asks for the
version it read, so what a request has read of it is so until somebody writes it,
and then the request is dropped (`Current`, `WriteKeepsCurrent`). Key facts statements
are not of that row. A request that prepares one takes the next number, and the
number is free when it writes only if no statement was written since: so it has
seen the one in force, and replaces that one.

**CasesProofs, arrears.** `PromisesAreFollowed` and `DemandedIsPosted`, of the loans of the
run and of any other (`ArrearsInOrder`): of a record `m` of constants it asks that the loan
owes something, that days and amounts are numbers, and that receipts and demands
are finitely many. A review counts receipts, reads the loan and writes, and
receipts, other reviews and officers get in between. It may trust what it found:
the terms of a promise and that it was made stay, so a decision written under the one
condition that the promise is still pending is on time; and a promise overdue on
the date of a review is decided, or still before it. What was paid of a demand, and
what is owed, are sums of which a step moves one term.

**PaymentsProofs, facilities.** For any number of sessions, drawdowns, limits and days:
`LineAgrees` and `ReleasedUnderLimit`. `SumMoves` says what a posting on one day does to
the sum up to another. `IInv` has that a session which `casFacility` would let write has read
the row as it is (`SessionsRead`); so a total computed from an old read is never
written, and a release tests the limit that holds. Actions that write
without the version (a decision on a drawdown, a repayment, a limit request) leave the row
alone. `ReleasedUnderLimit`, an action property, is the part of `ReleaseStep` that
compares the state after with the limit before.

**PaymentsProofs, debits.** For any mandates, due dates, tries and overlapping batches:
`DebitsInTurn`. A batch that has recorded an attempt is the only one at it
(`OneBatchAnswers`), and the bank is asked of what is recorded, not before. A plan
may be old when it is recorded: that the try before it has failed stays true, and
a failed try that was followed by another is not retried (`FollowsFailure`). A
refusal may be untrue only where an answer was lost (`RefusedIsTrue`).

**PaymentsProofs, receipts.** For any payments, people, imports and recordings under way at
once, with amounts positive and money entered by hand told apart from lines of files:
`MoneyIsUsedOnce`. An import decides on a line,
and a form is filled in, from rows that others change before anything is
written, so the invariant says nothing of what they read: only that an import knows a line
and, where it means a receipt, one that exists. It speaks of the rows:
one standing receipt a reference, which the unique index keeps (`OneStanding`);
links lead only to lines filed as held (`LinkedToHeld`); money of a line is held
once the line is filed so and not before (`HeldWhenFiled`); and while no receipt of a
transfer is posted, the transfer was entered as received exactly where its line
is held (`EnteredWhenHeld`). The last is what makes a linked receipt safe, though an
import that read the receipt before it was linked may still post it, and though
`OneTransferOnce` fails (section 4).

**What a proof attempt found.** LeasedDelivery created one item in a step, but a
run that fans out writes all rows of an event in one transaction. TLC had not shown
it with the constants of the run. The abstract step now takes a set.

**Only model-checked.**

* `AccountAgrees`, `ContractAgrees`, `OpenLoanBills` and `ContractUsesAdvance` of LoanAccount,
  and that it implements LoanLedger: its handlers fold over schedules of any
  length - allocation, daily interest, rebuilding - and what a fold computes for
  every sequence is an induction over data, for which the library's theorems take
  an operator as a parameter and cannot be instantiated by the provers. A sum in
  which one term moves is within reach (SumProofs); an allocation across
  instalments is not. The
  parts of `AccountAgrees` are moreover not true without the terms for what
  prepayments leave behind (section 4).
* All liveness (`CallsAreAnswered`, `DateCatchesUp`, `EverythingIsAnswered`):
  liveness under fairness and `ENABLED` are beyond this prover.

No module declares a `RECURSIVE` operator.

## 6. How the parts meet

LoanAccount takes a handler as one step and one caller's answer for granted;
MoneyOperation justifies both: it models the row lock, key and answer in small
steps with the handler reduced to its check. LoanAccount takes the business date
as a counter that moves by one and batches as coming in order; BusinessDay is
what the code really guarantees of them, and section 4 says where it falls short
of that. LoanLedger's journals are entries; PeriodClose adds when they are
dated, inserted and committed.

The other parts meet servicing in the `LoanAccount` row, its lock and its version.
Each module has of that row what its own properties tell apart (a principal, a
status, days past due) and, as actions of their own, what servicing may do to it
meanwhile: payments and reversals in Restructuring, Recovery and Collections,
repayment of instalments in Facilities. Messages leave through the outbox, whose
rows are written in the transaction of the change: Outbox begins where they
are committed. Webhooks is a second implementation of LeasedDelivery on tables of
its own.

## 7. Hazards

`PROJECT.json` lists 40 hazards at the line where each bites, with the
properties that would catch it going wrong. Three have no property. The code runs
into two of them and section 4 states them instead: the scheduler that dies
between moving the date and running that date's batch (`NoDayIsLeftBehind`), and
the posting that passed the check of the lock and commits after the month is
locked (`NothingPostedIntoLockedMonth`). The third, a month prepared again by its
approver, is refused by a CHECK constraint of the database (`Sealed` in `PeriodClose`),
of which a property would be a copy.

## 8. Running it

```
tlc -workers 2 -config MCContracts.cfg MCContracts
tlapm CasesProofs.tla
```

A run takes from ten seconds to three minutes; a proof module from ten
seconds to five minutes.

## 9. Plan

Done: the modules of section 2, the runs of section 3, and the proofs of section 5.

Left, in order of importance:

1. Proofs for LoanAccount that its actions are those of LoanLedger and that row and
   schedule agree, but for the terms section 4 names: from
   what the folds keep of a total, if a schedule can be had as a function on instalment
   numbers instead of a sequence.
2. LatePenalty: accrual, rewinding by a backdated payment, penalties in suspense
   across a change of non-accrual.
3. The engine's algorithms against reference definitions over bounded inputs:
   allocation, annuity and other schedules, fees, rebates.
4. A second scheduler instance that starts when the lock's transaction times out.
5. Invoice finance and letters of credit, customer documents, cards and
   pay-later, leasing, syndication, migration, the work lists.
