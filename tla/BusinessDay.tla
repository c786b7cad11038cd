---------------------------- MODULE BusinessDay ----------------------------
(***************************************************************************)
(* A tenant's business date and the end-of-day batch that runs for it.     *)
(* Officers move the date and run the batch whenever they like;            *)
(* EodSchedulerService rolls the tenant through every missed day up to the *)
(* calendar day, moving the date and then running the batch.  Nothing in   *)
(* either is atomic: the date is read and written without a lock, and each *)
(* loan of a batch is a transaction of its own.                            *)
(***************************************************************************)
EXTENDS Integers, FiniteSets

CONSTANTS
  Loans,        \* the ACTIVE loans of the tenant
  Officers,     \* people who advance the date and run the batch
  Scheduler,    \* EodSchedulerService, on the instance that holds the lock
  LastToday,    \* bound: the calendar stops here
  MaxStep,      \* advance: 31 days
  MaxCatchUp,   \* LENDING_EOD_MAX_CATCHUP_DAYS
  MaxTrouble    \* bound: loans that fail and processes that die

VARIABLES
  today,     \* the calendar
  date,      \* TenantBusinessDate.businessDate
  last,      \* its lastBatchDate and lastBatchFailures
  asOf,      \* the date each loan's days past due were counted at
  ran,       \* history: the loans processed, with the date they were processed for
  ended,     \* history: the dates a batch over the whole book ended for
  job,       \* what each actor is doing
  trouble    \* how many failures and deaths there were

dayVars == <<today, date, last, asOf, ran, ended, job, trouble>>

ASSUME DayAssumption ==
  /\ Scheduler \notin Officers
  /\ IsFiniteSet(Loans)
  /\ LastToday \in Nat \ {0} /\ MaxStep \in Nat \ {0}
  /\ MaxCatchUp \in Nat \ {0} /\ MaxTrouble \in Nat

Actors == Officers \cup {Scheduler}
FirstDay == 1
Days == FirstDay .. LastToday

\* READ: about to call advance.  MOVE: advance has read the date.  START: the
\* date is moved, the batch not started.  BATCH: loans left to process.
Stages == {"IDLE", "READ", "MOVE", "START", "BATCH"}

\* day: the date the actor moves the tenant to; upTo: the scheduler's last day;
\* for: the date runBatch read; left: loans not processed; failed: their count.
Rest == [pc |-> "IDLE", day |-> FirstDay, upTo |-> FirstDay, for |-> FirstDay,
         left |-> {}, failed |-> 0]

At(a, pc) == job[a].pc = pc
Becomes(a, j) == job' = [job EXCEPT ![a] = j]

Earlier(x, y) == IF x < y THEN x ELSE y

NextCalendarDay ==
  /\ today < LastToday
  /\ today' = today + 1
  /\ UNCHANGED <<date, last, asOf, ran, ended, job, trouble>>

DaysToYesterday == Earlier(today - 1, date + MaxCatchUp)

\* daysToRun: the last of the days a scheduled run goes through.
DaysToRun == Earlier(today, date + MaxCatchUp)

StartEndOfDay ==
  /\ At(Scheduler, "IDLE")
  /\ DaysToRun > date
  /\ Becomes(Scheduler, [Rest EXCEPT !.pc = "READ", !.day = date + 1, !.upTo = DaysToRun])
  /\ UNCHANGED <<today, date, last, asOf, ran, ended, trouble>>

\* advance reads the date, refuses to go back or too far, and writes it later
\* whatever it has become since.  A refusal ends the run.
ReadDate(a, j) ==
  /\ Becomes(a, IF j.day > date /\ j.day - date <= MaxStep
                THEN [j EXCEPT !.pc = "MOVE"] ELSE Rest)
  /\ UNCHANGED <<today, date, last, asOf, ran, ended, trouble>>

OfficerAdvances(o, to) ==
  /\ At(o, "IDLE")
  /\ to > date
  /\ ReadDate(o, [Rest EXCEPT !.day = to])

SchedulerAdvances == At(Scheduler, "READ") /\ ReadDate(Scheduler, job[Scheduler])

WriteDate(a) ==
  /\ At(a, "MOVE")
  /\ date' = job[a].day
  /\ Becomes(a, IF a = Scheduler THEN [job[a] EXCEPT !.pc = "START"] ELSE Rest)
  /\ UNCHANGED <<today, last, asOf, ran, ended, trouble>>

\* runBatch reads the date anew and lists the loans.
StartBatch(a) ==
  /\ IF a = Scheduler THEN At(a, "START") ELSE At(a, "IDLE")
  /\ Becomes(a, [job[a] EXCEPT !.pc = "BATCH", !.for = date, !.left = Loans, !.failed = 0])
  /\ UNCHANGED <<today, date, last, asOf, ran, ended, trouble>>

\* batchLoan: days past due are written for the batch's date.
ProcessLoan(a, l) ==
  /\ At(a, "BATCH") /\ l \in job[a].left
  /\ asOf' = [asOf EXCEPT ![l] = job[a].for]
  /\ ran' = ran \cup {<<l, job[a].for>>}
  /\ Becomes(a, [job[a] EXCEPT !.left = @ \ {l}])
  /\ UNCHANGED <<today, date, last, ended, trouble>>

NotCounted(n) == n
Counted(n) == n + 1

\* A loan that fails rolls back alone, and is counted.
LoanFails(a, l) ==
  /\ At(a, "BATCH") /\ l \in job[a].left
  /\ Becomes(a, [job[a] EXCEPT !.left = @ \ {l}, !.failed = Counted(@)])
  /\ UNCHANGED <<today, date, last, asOf, ran, ended>>

FailLoan(a, l) ==
  /\ trouble < MaxTrouble /\ trouble' = trouble + 1
  /\ LoanFails(a, l)

\* The batch's outcome is written over the last one, whichever date that was of.
Recorded(a) ==
  /\ At(a, "BATCH") /\ job[a].left = {}
  /\ last' = [day |-> job[a].for, failures |-> job[a].failed]
  /\ ended' = ended \cup {job[a].for}
  /\ UNCHANGED <<today, date, asOf, ran, trouble>>

\* runTenant: the scheduler goes on with the next of its days.
NextRun(j) == IF j.day < j.upTo
              THEN [Rest EXCEPT !.pc = "READ", !.day = j.day + 1, !.upTo = j.upTo]
              ELSE Rest

FinishBatch(a) ==
  /\ Recorded(a)
  /\ Becomes(a, IF a = Scheduler THEN NextRun(job[a]) ELSE Rest)

\* The process dies, or the run throws; what it committed stays, and the lock
\* is released.
Die(a) ==
  /\ ~At(a, "IDLE")
  /\ trouble < MaxTrouble /\ trouble' = trouble + 1
  /\ Becomes(a, Rest)
  /\ UNCHANGED <<today, date, last, asOf, ran, ended>>

DayInit ==
  /\ today = FirstDay /\ date = FirstDay
  /\ last = [day |-> 0, failures |-> 0]   \* the batch never ran
  /\ asOf = [l \in Loans |-> 0]
  /\ ran = {} /\ ended = {}
  /\ job = [a \in Actors |-> Rest]
  /\ trouble = 0

\* The scheduler's own steps: those a live server carries through.
SchedulerWorks ==
  \/ StartEndOfDay
  \/ SchedulerAdvances
  \/ WriteDate(Scheduler)
  \/ StartBatch(Scheduler)
  \/ \E l \in Loans : ProcessLoan(Scheduler, l)
  \/ FinishBatch(Scheduler)

OfficerWorks(o) ==
  \/ \E to \in Days : OfficerAdvances(o, to)
  \/ WriteDate(o)
  \/ StartBatch(o)
  \/ \E l \in Loans : ProcessLoan(o, l)
  \/ FinishBatch(o)

Next ==
  \/ NextCalendarDay
  \/ SchedulerWorks
  \/ \E o \in Officers : OfficerWorks(o)
  \/ \E a \in Actors, l \in Loans : FailLoan(a, l)
  \/ \E a \in Actors : Die(a)

Spec == DayInit /\ [][Next]_dayVars

\* The calendar goes on, the cron fires again and a live scheduler finishes.
FairSpec == Spec /\ WF_dayVars(NextCalendarDay) /\ WF_dayVars(SchedulerWorks)
-----------------------------------------------------------------------------
(* Properties. *)

\* Dates are days of the calendar, and a job's loans are loans of the tenant.
TypeOK ==
  /\ today \in Days /\ date \in Days
  /\ last \in [day : Days \cup {0}, failures : 0 .. Cardinality(Loans)]
  /\ asOf \in [Loans -> Days \cup {0}]
  /\ ran \subseteq Loans \X Days /\ ended \subseteq Days
  /\ job \in [Actors -> [pc : Stages, day : Days, upTo : Days, for : Days,
                         left : SUBSET Loans, failed : 0 .. Cardinality(Loans)]]
  /\ trouble \in 0 .. MaxTrouble

\* What period close relies on: when the last batch reports no failure, every
\* loan was processed for its date, whatever batches ran beside it and whatever
\* failed or died before.
CleanBatchIsWhole ==
  last.day # 0 /\ last.failures = 0 => \A l \in Loans : <<l, last.day>> \in ran

\* EodSchedulerService: however often runs die and whatever officers do to the
\* date, the tenant comes to the calendar day and stays there.
DateCatchesUp == <>[](date >= LastToday)

\* business-date.service: the date moves "never automatically, never backwards".
DateNeverGoesBack == [][date' >= date]_dayVars

\* eod-scheduler.service: a failed tenant's date "stays where it stopped, so the
\* next run catches it up".  No day is left behind without its batch.
NoDayIsLeftBehind ==
  \A d \in ended : \A e \in FirstDay + 1 .. d : e \in ended

\* runBatch: "a concurrent run of the same account loses".  A loan is never put
\* back to its days past due of an earlier date.
ConcurrentRunLoses == [][\A l \in Loans : asOf'[l] >= asOf[l]]_dayVars
=============================================================================
