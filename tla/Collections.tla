---------------------------- MODULE Collections ----------------------------
(***************************************************************************)
(* A loan in arrears, and the people who chase it: the ladder of tasks     *)
(* that end of day raises, promises to pay and their review, demands on    *)
(* the guarantor, and set-off against a deposit (CollectionsService,       *)
(* PromisesService).                                                       *)
(*                                                                         *)
(* Operations that lock the loan are one step.  Those that do not - a task *)
(* completed, a promise reviewed, a guarantor's payment - read in one step *)
(* and write, under a condition, in another.  The loan is its instalments  *)
(* of one unit each and the money received on it; the oldest is paid       *)
(* first.                                                                  *)
(***************************************************************************)
EXTENDS Integers, Sequences, FiniteSetsExt

CONSTANTS
  Due,         \* the day each instalment falls due, in their order
  Grace,       \* days after the promised date that payments still count
  MaxAhead,    \* how far ahead a promise may run
  Backdate,    \* days a payment may be backdated
  From,        \* days past due that each stage of the ladder begins at
  Automatic,   \* the stages that send a notice
  Guarantee,   \* what the guarantor answers for
  Staff,
  Reviewers,   \* reviews of promises under way at once
  Promises, Demands, SetOffs, Receipts, Calls, \* bounds: how many of each; calls of guarantors at once
  LastDay,     \* bound of the business date
  Nobody

Broken == 0    \* PROMISE_BROKEN, which is no stage of the ladder
Stages == DOMAIN From
Days == 0..LastDay
Tasks == ({Broken} \cup Stages) \X Days
Sums == 1..Len(Due)
Decided == {"KEPT", "BROKEN", "CANCELLED"}

VARIABLES
  day,      \* the business date
  loan,     \* its status
  late,     \* daysPastDue, as the last batch left it
  receipt,  \* financial events of the kinds that bring money in
  task,     \* CollectionTask rows, by stage and first day of the episode
  form,     \* the task whose outcome each person records, as it was read
  promise,  \* CollectionPromise rows
  review,   \* what each review of promises is at
  claimed,  \* the review of today was claimed
  done,     \* history: the last date whose review ended well
  demand,   \* GuarantorDemand rows
  call,     \* what each payment of the guarantor has read
  posted,   \* history: what was posted on the loan under each demand
  setoff,   \* SET_OFF tasks
  applied   \* history: the times each set-off was posted

taskVars == <<task, form>>
promiseVars == <<promise, review, claimed, done>>
demandVars == <<demand, call, posted>>
setoffVars == <<setoff, applied>>
loanVars == <<loan, receipt>>
vars == <<day, late, loanVars, taskVars, promiseVars, demandVars, setoffVars>>

-----------------------------------------------------------------------------
(* The loan. *)

Instalments == DOMAIN Due
AmountOf(R) == MapThenSumSet(LAMBDA r : receipt[r].amount, R)
Posted == {r \in Receipts : receipt[r].status = "POSTED"}
Outstanding == Len(Due) - AmountOf(Posted)

Unpaid(on) == {i \in Instalments : Due[i] < on /\ i > AmountOf(Posted)}
Overdue(on) == Cardinality(Unpaid(on))

\* delinquency: days since the oldest unpaid instalment fell due, and the stage.
Dpd(on) == IF Unpaid(on) = {} THEN 0 ELSE on - Due[Min(Unpaid(on))]
Stage(dpd) == Max({Broken} \cup {s \in Stages : From[s] <= dpd})

\* repayInTx, on a loan that still takes payments: the last one closes it.
Posts(n, on) ==
  /\ loan = "ACTIVE"
  /\ n <= Outstanding
  /\ \E r \in Receipts : receipt[r].status = "NONE"
  /\ receipt' = [receipt EXCEPT ![Min({r \in Receipts : receipt[r].status = "NONE"})] =
                   [status |-> "POSTED", amount |-> n, on |-> on]]
  /\ loan' = IF n = Outstanding THEN "CLOSED" ELSE loan

Repay ==
  /\ \E n \in Sums, on \in {d \in Days : day - Backdate <= d /\ d <= day} : Posts(n, on)
  /\ UNCHANGED <<day, late, taskVars, promiseVars, demandVars, setoffVars>>

ReversePayment(r) ==
  /\ receipt[r].status = "POSTED"
  /\ loan # "WRITTEN_OFF"
  /\ receipt' = [receipt EXCEPT ![r].status = "REVERSED"]
  /\ loan' = "ACTIVE"
  /\ UNCHANGED <<day, late, taskVars, promiseVars, demandVars, setoffVars>>

WriteOff ==
  /\ loan = "ACTIVE" /\ late > 0
  /\ loan' = "WRITTEN_OFF"
  /\ UNCHANGED <<day, late, receipt, taskVars, promiseVars, demandVars, setoffVars>>

NextDay ==
  /\ day < LastDay
  /\ day' = day + 1
  /\ claimed' = FALSE
  /\ UNCHANGED <<late, loanVars, taskVars, promise, review, done, demandVars, setoffVars>>

-----------------------------------------------------------------------------
(* The ladder. *)

NoTask == [status |-> "NONE", to |-> Nobody, by |-> Nobody]

\* Open work of the loan is taken off the queues.
Cleared ==
  [t \in Tasks |-> IF task[t].status = "OPEN" THEN [task[t] EXCEPT !.status = "CANCELLED"]
                                              ELSE task[t]]

\* escalate: one task per stage of an episode of arrears, over the earlier ones.
Escalated ==
  LET dpd == Dpd(day)
      rung == <<Stage(dpd), day - dpd>>
  IN IF dpd = 0 \/ Stage(dpd) = Broken THEN Cleared
     ELSE IF task[rung].status # "NONE" THEN task
     ELSE [Cleared EXCEPT ![rung].status = IF Stage(dpd) \in Automatic THEN "DONE" ELSE "OPEN"]

Batch ==
  /\ loan = "ACTIVE"
  /\ late' = Dpd(day)
  /\ task' = Escalated
  /\ UNCHANGED <<day, loanVars, form, promiseVars, demandVars, setoffVars>>

Claim(c, t) ==
  /\ task[t].status = "OPEN" /\ task[t].to = Nobody
  /\ task' = [task EXCEPT ![t].to = c]
  /\ UNCHANGED <<day, late, loanVars, form, promiseVars, demandVars, setoffVars>>

NoForm == [stage |-> Broken, from |-> 0, to |-> Nobody, open |-> FALSE]
Held(c) == <<form[c].stage, form[c].from>>

\* complete reads the task ...
TakeUp(c, t) ==
  /\ ~form[c].open
  /\ task[t].status = "OPEN" /\ task[t].to \in {Nobody, c}
  /\ form' = [form EXCEPT ![c] = [stage |-> t[1], from |-> t[2], to |-> task[t].to, open |-> TRUE]]
  /\ UNCHANGED <<day, late, loanVars, task, promiseVars, demandVars, setoffVars>>

\* ... and records the outcome if it is still open.
Completed(c) ==
  [task EXCEPT ![Held(c)] = [status |-> "DONE", by |-> c,
                             to |-> IF form[c].to = Nobody THEN c ELSE form[c].to]]

Complete(c) ==
  /\ form[c].open
  /\ task' = IF task[Held(c)].status = "OPEN" THEN Completed(c) ELSE task
  /\ form' = [form EXCEPT ![c] = NoForm]
  /\ UNCHANGED <<day, late, loanVars, promiseVars, demandVars, setoffVars>>

-----------------------------------------------------------------------------
(* Promises to pay. *)

NoPromise == [status |-> "NONE", amount |-> 0, on |-> 0, payBy |-> 0, received |-> 0,
              task |-> 0, chased |-> FALSE]
Pending == {p \in Promises : promise[p].status = "PENDING"}
Deadline(p) == promise[p].payBy + Grace

RecordedBeside(p, row) == [promise EXCEPT ![p] = row]

\* recordInTx: the new promise replaces the pending one.
Recorded(p, row) ==
  [q \in Promises |-> IF q = p THEN row
                      ELSE IF q \in Pending THEN [promise[q] EXCEPT !.status = "CANCELLED"]
                      ELSE promise[q]]

\* A transaction may have read the date just before it moved.
RecordPromise ==
  \E n \in Sums, on \in {d \in Days : day - 1 <= d /\ d <= day} :
    \E by \in on..(on + MaxAhead), p \in Promises :
      /\ loan = "ACTIVE"
      /\ promise[p].status = "NONE"
      /\ \A q \in Promises : q < p => promise[q].status # "NONE"
      /\ promise' = Recorded(p, [NoPromise EXCEPT !.status = "PENDING", !.amount = n,
                                                  !.on = on, !.payBy = by])

TakePromise ==
  /\ RecordPromise
  /\ UNCHANGED <<day, late, loanVars, taskVars, review, claimed, done, demandVars, setoffVars>>

\* The outcome PROMISE_TO_PAY: with it the promise, or neither.
CompleteWithPromise(c) ==
  /\ form[c].open /\ task[Held(c)].status = "OPEN"
  /\ task' = Completed(c)
  /\ form' = [form EXCEPT ![c] = NoForm]
  /\ RecordPromise
  /\ UNCHANGED <<day, late, loanVars, review, claimed, done, demandVars, setoffVars>>

Withdraw(p) ==
  /\ p \in Pending
  /\ promise' = [promise EXCEPT ![p].status = "CANCELLED"]
  /\ UNCHANGED <<day, late, loanVars, taskVars, review, claimed, done, demandVars, setoffVars>>

Idle == [at |-> "IDLE", on |-> 0, left |-> {}, p |-> 0, verdict |-> "NONE", received |-> 0,
         chase |-> FALSE, found |-> FALSE]

Begins(r) ==
  /\ review[r].at = "IDLE"
  /\ review' = [review EXCEPT ![r] = [Idle EXCEPT !.at = "LOOP", !.on = day, !.left = Pending]]

\* After end of day, or by the cron of its own: the claim lets one of them in.
Scheduled(r) ==
  /\ ~claimed
  /\ claimed' = TRUE
  /\ Begins(r)
  /\ UNCHANGED <<day, late, loanVars, taskVars, promise, done, demandVars, setoffVars>>

ReviewNow(r) ==
  /\ Begins(r)
  /\ UNCHANGED <<day, late, loanVars, taskVars, promise, claimed, done, demandVars, setoffVars>>

InWindow(p) ==
  {r \in Posted : promise[p].on <= receipt[r].on /\ receipt[r].on <= Deadline(p)}

Verdict(p, received, on) ==
  IF received >= promise[p].amount THEN "KEPT"
  ELSE IF loan # "ACTIVE" THEN "CANCELLED"
  ELSE IF on > Deadline(p) THEN "BROKEN" ELSE "NONE"

\* reviewOne reads the promise and the money received ...
Count(r, p) ==
  /\ review[r].at = "LOOP" /\ p \in review[r].left
  /\ LET rest == [review[r] EXCEPT !.left = @ \ {p}] IN
     review' = [review EXCEPT ![r] =
       IF p \in Pending
       THEN [rest EXCEPT !.at = "COUNTED", !.p = p, !.received = AmountOf(InWindow(p))]
       ELSE rest]
  /\ UNCHANGED <<day, late, loanVars, taskVars, promise, claimed, done, demandVars, setoffVars>>

Again(r) == [Idle EXCEPT !.at = "LOOP", !.on = review[r].on, !.left = review[r].left]

\* ... the state of the loan, its arrears and the task of the day, if any ...
Judge(r) ==
  LET on == review[r].on
      verdict == Verdict(review[r].p, review[r].received, on)
  IN /\ review[r].at = "COUNTED"
     /\ review' = [review EXCEPT ![r] =
          IF verdict = "NONE" THEN Again(r)
          ELSE [@ EXCEPT !.at = "DECIDED", !.verdict = verdict,
                         !.chase = verdict = "BROKEN" /\ Dpd(on) > 0,
                         !.found = task[<<Broken, on>>].status # "NONE"]]
     /\ UNCHANGED <<day, late, loanVars, taskVars, promise, claimed, done, demandVars, setoffVars>>

\* ... and writes the decision, and the task a broken promise raises, if it is
\* still pending.  Another review that raised the task of the day meanwhile makes
\* the insertion fail, and with it the review.
Rung(r) == <<Broken, review[r].on>>
Raises(r) == review[r].chase /\ ~review[r].found
Collides(r) == Raises(r) /\ task[Rung(r)].status # "NONE"

Decide(r) ==
  LET p == review[r].p IN
  /\ review[r].at = "DECIDED" /\ ~Collides(r)
  /\ IF p \in Pending
     THEN /\ promise' = [promise EXCEPT ![p].status = review[r].verdict,
                                        ![p].received = review[r].received,
                                        ![p].task = IF review[r].chase THEN review[r].on ELSE 0,
                                        ![p].chased = review[r].chase]
          /\ task' = IF Raises(r) THEN [task EXCEPT ![Rung(r)].status = "OPEN"] ELSE task
     ELSE UNCHANGED <<promise, task>>
  /\ review' = [review EXCEPT ![r] = Again(r)]
  /\ UNCHANGED <<day, late, loanVars, form, claimed, done, demandVars, setoffVars>>

Finish(r) ==
  /\ review[r].at = "LOOP" /\ review[r].left = {}
  /\ review' = [review EXCEPT ![r] = Idle]
  /\ done' = Max({done, review[r].on})
  /\ UNCHANGED <<day, late, loanVars, taskVars, promise, claimed, demandVars, setoffVars>>

\* The insertion collided, the database failed or the process died.
Fail(r) ==
  /\ review[r].at # "IDLE"
  /\ review' = [review EXCEPT ![r] = Idle]
  /\ UNCHANGED <<day, late, loanVars, taskVars, promise, claimed, done, demandVars, setoffVars>>

-----------------------------------------------------------------------------
(* Demands on the guarantor. *)

NoDemand == [status |-> "NONE", amount |-> 0, paid |-> 0]
Demanded ==
  MapThenSumSet(LAMBDA d : demand[d].amount,
                {d \in Demands : demand[d].status \notin {"NONE", "WITHDRAWN"}})
Cap == Min({Guarantee - Demanded, Outstanding})

IssueDemand(d) ==
  /\ demand[d].status = "NONE"
  /\ \A e \in Demands : e < d => demand[e].status # "NONE"
  /\ loan = "ACTIVE" /\ late > 0
  /\ \E n \in 1..Cap : demand' = [demand EXCEPT ![d] = [status |-> "OPEN", amount |-> n, paid |-> 0]]
  /\ UNCHANGED <<day, late, loanVars, taskVars, promiseVars, call, posted, setoffVars>>

WithdrawDemand(d) ==
  /\ demand[d].status = "OPEN"
  /\ demand' = [demand EXCEPT ![d].status = "WITHDRAWN"]
  /\ UNCHANGED <<day, late, loanVars, taskVars, promiseVars, call, posted, setoffVars>>

NoCall == [demand |-> 0, seen |-> 0, amount |-> 0]

\* guarantorPayment reads the demand ...
ReadDemand(k, d) ==
  /\ call[k] = NoCall
  /\ demand[d].status = "OPEN"
  /\ \E n \in 1..(demand[d].amount - demand[d].paid) :
       call' = [call EXCEPT ![k] = [demand |-> d, seen |-> demand[d].paid, amount |-> n]]
  /\ UNCHANGED <<day, late, loanVars, taskVars, promiseVars, demand, posted, setoffVars>>

StillOpen(k) == demand[call[k].demand].status = "OPEN"

\* ... posts the money and writes the demand if it is as it was read.
Unchanged(k) ==
  LET d == demand[call[k].demand] IN d.status = "OPEN" /\ d.paid = call[k].seen

PayDemand(k) ==
  LET d == call[k].demand
      paid == call[k].seen + call[k].amount
  IN /\ call[k] # NoCall /\ Unchanged(k)
     /\ Posts(call[k].amount, day)
     /\ demand' = [demand EXCEPT ![d].paid = paid,
                     ![d].status = IF paid >= demand[d].amount THEN "PAID" ELSE "OPEN"]
     /\ posted' = [posted EXCEPT ![d] = @ + call[k].amount]
     /\ call' = [call EXCEPT ![k] = NoCall]
     /\ UNCHANGED <<day, late, taskVars, promiseVars, setoffVars>>

\* The loan or the demand changed, or the connection broke.
GiveUp(k) ==
  /\ call[k] # NoCall
  /\ call' = [call EXCEPT ![k] = NoCall]
  /\ UNCHANGED <<day, late, loanVars, taskVars, promiseVars, demand, posted, setoffVars>>

-----------------------------------------------------------------------------
(* Set-off against the borrower's deposit. *)

NoSetOff == [status |-> "NONE", amount |-> 0, maker |-> Nobody, by |-> Nobody]

ProposeSetOff(o, c) ==
  /\ setoff[o].status = "NONE"
  /\ \A e \in SetOffs : e < o => setoff[e].status # "NONE"
  /\ loan = "ACTIVE" /\ late > 0
  /\ \E n \in 1..Overdue(day) :
       setoff' = [setoff EXCEPT ![o] = [NoSetOff EXCEPT !.status = "PENDING", !.amount = n,
                                                        !.maker = c]]
  /\ UNCHANGED <<day, late, loanVars, taskVars, promiseVars, demandVars, applied>>

Decides(o, c, status) ==
  /\ setoff[o].status = "PENDING" /\ c # setoff[o].maker
  /\ setoff' = [setoff EXCEPT ![o].status = status, ![o].by = c]

ApproveSetOff(o, c) ==
  /\ Decides(o, c, "EXECUTED")
  /\ Posts(setoff[o].amount, day)
  /\ applied' = [applied EXCEPT ![o] = @ + 1]
  /\ UNCHANGED <<day, late, taskVars, promiseVars, demandVars>>

RejectSetOff(o, c) ==
  /\ Decides(o, c, "REJECTED")
  /\ UNCHANGED <<day, late, loanVars, taskVars, promiseVars, demandVars, applied>>

-----------------------------------------------------------------------------
Init ==
  /\ day = 0 /\ loan = "ACTIVE" /\ late = 0
  /\ receipt = [r \in Receipts |-> [status |-> "NONE", amount |-> 0, on |-> 0]]
  /\ task = [t \in Tasks |-> NoTask]
  /\ form = [c \in Staff |-> NoForm]
  /\ promise = [p \in Promises |-> NoPromise]
  /\ review = [r \in Reviewers |-> Idle]
  /\ claimed = FALSE /\ done = 0
  /\ demand = [d \in Demands |-> NoDemand]
  /\ call = [k \in Calls |-> NoCall]
  /\ posted = [d \in Demands |-> 0]
  /\ setoff = [o \in SetOffs |-> NoSetOff]
  /\ applied = [o \in SetOffs |-> 0]

Chases(c) ==
  \/ \E t \in Tasks : Claim(c, t) \/ TakeUp(c, t)
  \/ Complete(c) \/ CompleteWithPromise(c)
  \/ \E o \in SetOffs : ProposeSetOff(o, c) \/ ApproveSetOff(o, c) \/ RejectSetOff(o, c)

Reviews(r) ==
  \/ Scheduled(r) \/ ReviewNow(r) \/ Judge(r) \/ Decide(r) \/ Finish(r) \/ Fail(r)
  \/ \E p \in Promises : Count(r, p)

Next ==
  \/ Repay \/ WriteOff \/ NextDay \/ Batch \/ TakePromise
  \/ \E r \in Receipts : ReversePayment(r)
  \/ \E c \in Staff : Chases(c)
  \/ \E p \in Promises : Withdraw(p)
  \/ \E r \in Reviewers : Reviews(r)
  \/ \E d \in Demands : IssueDemand(d) \/ WithdrawDemand(d) \/ \E k \in Calls : ReadDemand(k, d)
  \/ \E k \in Calls : PayDemand(k) \/ GiveUp(k)

Spec == Init /\ [][Next]_vars

-----------------------------------------------------------------------------
\* Types, among them: nobody takes more than is owed on the loan.
TypeOK ==
  /\ day \in Days /\ late \in 0..LastDay
  /\ loan \in {"ACTIVE", "CLOSED", "WRITTEN_OFF"}
  /\ Outstanding >= 0 /\ (loan = "CLOSED") = (Outstanding = 0)
  /\ \A t \in Tasks : task[t].status \in {"NONE", "OPEN", "DONE", "CANCELLED"}
  /\ \A p \in Promises : promise[p].status \in {"NONE", "PENDING"} \cup Decided
  /\ \A d \in Demands : demand[d].status \in {"NONE", "OPEN", "PAID", "WITHDRAWN"}
  /\ \A o \in SetOffs : setoff[o].status \in {"NONE", "PENDING", "EXECUTED", "REJECTED"}

\* "A new promise on a loan replaces one that is still pending."
OnePromise == Cardinality(Pending) <= 1

\* A review of a date that ended well left no promise whose days had passed:
\* none but one that was being recorded when the date moved.
ReviewsDecide == \A p \in Pending : Deadline(p) >= done - 1

\* A broken promise had its days, and less than was promised within them.
DecidedOnTime ==
  \A p \in Promises :
    /\ promise[p].status = "KEPT" => promise[p].received >= promise[p].amount
    /\ promise[p].status = "BROKEN" => /\ promise[p].received < promise[p].amount
                                      /\ Deadline(p) < day

\* A task PROMISE_BROKEN stands for a promise that was broken, and a promise
\* that says it raised one did: both are written, or neither.
FollowedUp ==
  /\ \A p \in Promises : promise[p].chased => /\ promise[p].status = "BROKEN"
                                              /\ task[<<Broken, promise[p].task>>].status # "NONE"
  /\ \A d \in Days : task[<<Broken, d>>].status # "NONE" =>
       \E p \in Promises : promise[p].chased /\ promise[p].task = d

\* Reviews of the same promises by several processes, with collectors who record
\* and withdraw them and money that comes in or bounces, decide each promise
\* once, on time, and with its follow-up.
PromisesAreFollowed == TypeOK /\ OnePromise /\ ReviewsDecide /\ DecidedOnTime /\ FollowedUp

\* "The demand can be at most ... what the guarantee still covers", and what a
\* demand says was paid is what was posted on the loan under it.
DemandsAreCovered ==
  /\ Demanded <= Guarantee
  /\ \A d \in Demands :
       /\ demand[d].paid = posted[d] /\ posted[d] <= demand[d].amount
       /\ demand[d].status = "PAID" => posted[d] = demand[d].amount
       /\ demand[d].status = "OPEN" => posted[d] < demand[d].amount

\* A set-off is posted once, when a second person approves it.
SetOffByTwo ==
  \A o \in SetOffs :
    /\ applied[o] = IF setoff[o].status = "EXECUTED" THEN 1 ELSE 0
    /\ setoff[o].status = "EXECUTED" => setoff[o].by # setoff[o].maker

\* Money of others than the borrower's payments is taken within what was
\* demanded or approved, whoever pays, withdraws or reverses meanwhile.
DemandedIsPosted == TypeOK /\ DemandsAreCovered /\ SetOffByTwo

\* "You guaranteed loan ... up to ...": what the guarantor paid in all.
GuaranteeIsNotExceeded == MapThenSumSet(LAMBDA d : posted[d], Demands) <= Guarantee

\* "The task is now yours; other collectors cannot complete it."
TaskIsItsCollectors ==
  [][\A t \in Tasks : task[t].status = "OPEN" /\ task'[t].status = "DONE"
       => task[t].to \in {Nobody, task'[t].by}]_vars

\* What is set off was overdue when it was taken.
SetOffIsOverdue ==
  [][\A o \in SetOffs : applied'[o] # applied[o] => setoff[o].amount <= Overdue(day)]_vars

\* "CANCELLED when the loan stops being active first": a promise whose payment
\* closed the loan was kept.
PaidIsKept ==
  [][\A r \in Reviewers : Decide(r) /\ review[r].p \in Pending /\ review[r].verdict = "CANCELLED"
       => AmountOf(InWindow(review[r].p)) < promise[review[r].p].amount]_vars

\* A promise found broken was not paid within its days, later entries included.
BrokenWasNotPaid ==
  \A p \in Promises : promise[p].status = "BROKEN" => AmountOf(InWindow(p)) < promise[p].amount
=============================================================================
