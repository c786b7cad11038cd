---------------------------- MODULE PeriodClose ----------------------------
(***************************************************************************)
(* Month-end close (PeriodCloseService) beside end of day and the postings *)
(* that go on while a month is being closed.  A month is prepared by the   *)
(* scheduler after its last day's batch, or by finance; another person     *)
(* approves and the month is locked; a locked month is reopened by two     *)
(* people.  Each call checks in one transaction and acts in another, and   *)
(* none of them locks what it read.                                        *)
(***************************************************************************)
EXTENDS BusinessDay

CONSTANTS
  Clerks,        \* requests of finance and risk to prepare, approve and reopen
  Who,           \* the person behind each: one may send two at once
  Posters,       \* other requests that post: payments, disbursements
  None,
  MonthLength,   \* days in a month
  MaxBooked      \* bound: what posters post in all

VARIABLES
  period,    \* AccountingPeriod of each month
  desk,      \* the call each clerk, or the scheduler, is in
  posting,   \* each poster's transaction
  booked     \* committed postings of posters, by entry date

closeVars == <<period, desk, posting, booked>>
vars == <<dayVars, closeVars>>

ASSUME CloseAssumption ==
  /\ Scheduler \notin Clerks
  /\ DOMAIN Who = Clerks \cup {Scheduler}
  /\ \A c \in Clerks : Who[c] \notin {None, Who[Scheduler]}
  /\ MonthLength \in 1 .. LastToday /\ MaxBooked \in Nat

Closers == Clerks \cup {Scheduler}
People == {Who[c] : c \in Closers}
Months == 1 .. (LastToday \div MonthLength)
Start(m) == (m - 1) * MonthLength + 1
End(m) == m * MonthLength

\* ABSENT: the month has no row yet.
Statuses == {"ABSENT", "OPEN", "PENDING", "CLOSED", "REOPEN_PENDING"}
IsLocked(s) == s \in {"CLOSED", "REOPEN_PENDING"}

\* assertPeriodOpen, and the trigger LendingJournalEntry_period_lock.
Locked(d) == \E m \in Months : d \in Start(m) .. End(m) /\ IsLocked(period[m].status)

\* The constraint AccountingPeriod_closed_check.
Sealed(p) == p.approvedBy \notin {None, p.preparedBy}

\* A row the constraint refuses is not written.
Write(m, p) == period' = IF IsLocked(p.status) /\ ~Sealed(p) THEN period
                         ELSE [period EXCEPT ![m] = p]

\* What is posted up to a month's end: a loan's accrual posts once a day.
Posted(m) == Cardinality({x \in ran : x[2] <= End(m)})
             + Cardinality({x \in booked : x[1] <= End(m)})

EndOfDayRan(m) == Loans = {} \/ last.day # 0

\* END_OF_DAY: some batch over the whole book ran at month end or later.
EndOfDayDone(m) == Loans = {} \/ last.day >= End(m)

\* checks: what the code requires of a month before it is prepared, and again
\* before it is locked.
ChecksPass(m) ==
  /\ date >= End(m)
  /\ EndOfDayDone(m)
  /\ ~(last.failures > 0 /\ last.day = date)
  /\ m > 1 => period[m - 1].status = "CLOSED"

Free == [doing |-> "NOTHING", month |-> 1, new |-> FALSE, snapshot |-> 0]
Does(c, what) == desk[c].doing = what
Proceeds(c, what) == desk' = [desk EXCEPT ![c].doing = what]
Leaves(c) == desk' = [desk EXCEPT ![c] = Free]
-----------------------------------------------------------------------------
(* Closing. *)

\* prepareMonth: the checks, before its transaction.
Prepare(c, m) ==
  /\ Does(c, "NOTHING")
  /\ ChecksPass(m)
  /\ desk' = [desk EXCEPT ![c] = [Free EXCEPT !.doing = "PREPARE", !.month = m]]
  /\ UNCHANGED <<dayVars, period, posting, booked>>

\* Its transaction reads the row and takes the snapshot ...
TakeSnapshot(c) ==
  LET m == desk[c].month
  IN  /\ Does(c, "PREPARE")
      /\ IF period[m].status \in {"ABSENT", "OPEN"}
         THEN desk' = [desk EXCEPT ![c] =
                         [doing |-> "PREPARED", month |-> m, snapshot |-> Posted(m),
                          new |-> period[m].status = "ABSENT"]]
         ELSE Leaves(c)
      /\ UNCHANGED <<dayVars, period, posting, booked>>

\* ... and writes the row by its id, or creates it unless another call has.
WritePrepared(c) ==
  LET m == desk[c].month
  IN  /\ Does(c, "PREPARED")
      /\ IF desk[c].new /\ period[m].status # "ABSENT" THEN UNCHANGED period
         ELSE Write(m, [period[m] EXCEPT !.status = "PENDING", !.preparedBy = Who[c],
                          !.approvedBy = None, !.snapshot = desk[c].snapshot])
      /\ Leaves(c)
      /\ UNCHANGED <<dayVars, posting, booked>>

\* decideMonth: the maker of the row may not decide on it.
Consider(c, m) ==
  /\ Does(c, "NOTHING")
  /\ period[m].status = "PENDING" /\ period[m].preparedBy # Who[c]
  /\ desk' = [desk EXCEPT ![c] = [Free EXCEPT !.doing = "DECIDE", !.month = m]]
  /\ UNCHANGED <<dayVars, period, posting, booked>>

CheckAgain(c) ==
  /\ Does(c, "DECIDE")
  /\ IF ChecksPass(desk[c].month) THEN Proceeds(c, "LOCK") ELSE Leaves(c)
  /\ UNCHANGED <<dayVars, period, posting, booked>>

\* updateMany ... where status is PENDING.
Decide(c, p) ==
  /\ IF period[desk[c].month].status = "PENDING" THEN Write(desk[c].month, p)
     ELSE UNCHANGED period
  /\ Leaves(c)
  /\ UNCHANGED <<dayVars, posting, booked>>

Approve(c) ==
  /\ Does(c, "LOCK")
  /\ Decide(c, [period[desk[c].month] EXCEPT !.status = "CLOSED", !.approvedBy = Who[c]])

Reject(c) ==
  /\ Does(c, "DECIDE")
  /\ Decide(c, [period[desk[c].month] EXCEPT !.status = "OPEN"])
-----------------------------------------------------------------------------
(* Reopening. *)

\* requestReopen: the latest month first.
AskToReopen(c, m) ==
  /\ Does(c, "NOTHING")
  /\ period[m].status = "CLOSED"
  /\ \A n \in Months : n > m => period[n].status \in {"ABSENT", "OPEN"}
  /\ desk' = [desk EXCEPT ![c] = [Free EXCEPT !.doing = "ASK", !.month = m]]
  /\ UNCHANGED <<dayVars, period, posting, booked>>

WriteAsked(c) ==
  LET m == desk[c].month
  IN  /\ Does(c, "ASK")
      /\ Write(m, [period[m] EXCEPT !.status = "REOPEN_PENDING", !.askedBy = Who[c]])
      /\ Leaves(c)
      /\ UNCHANGED <<dayVars, posting, booked>>

\* decideReopen: not by the one who asked.
ConsiderReopening(c, m) ==
  /\ Does(c, "NOTHING")
  /\ period[m].status = "REOPEN_PENDING" /\ period[m].askedBy # Who[c]
  /\ desk' = [desk EXCEPT ![c] = [Free EXCEPT !.doing = "REOPEN", !.month = m]]
  /\ UNCHANGED <<dayVars, period, posting, booked>>

WriteReopened(c) ==
  LET m == desk[c].month
  IN  /\ Does(c, "REOPEN")
      /\ \/ Write(m, [period[m] EXCEPT !.status = "OPEN", !.approvedBy = None])
         \/ Write(m, [period[m] EXCEPT !.status = "CLOSED", !.askedBy = None])
      /\ Leaves(c)
      /\ UNCHANGED <<dayVars, posting, booked>>
-----------------------------------------------------------------------------
(* Posting: an entry is dated the business date its transaction read. *)

BeginPosting(p) ==
  /\ posting[p].pc = "IDLE"
  /\ Cardinality(booked) < MaxBooked
  /\ posting' = [posting EXCEPT ![p] = [pc |-> "DATED", day |-> date]]
  /\ UNCHANGED <<dayVars, period, desk, booked>>

\* The service and the trigger look at the months when the entry is inserted.
InsertEntry(p) ==
  /\ posting[p].pc = "DATED"
  /\ posting' = [posting EXCEPT ![p].pc = IF Locked(posting[p].day) THEN "IDLE"
                                          ELSE "INSERTED"]
  /\ UNCHANGED <<dayVars, period, desk, booked>>

CommitPosting(p) ==
  /\ posting[p].pc = "INSERTED"
  /\ posting' = [posting EXCEPT ![p].pc = "IDLE"]
  /\ booked' = booked \cup {<<posting[p].day, Cardinality(booked)>>}
  /\ UNCHANGED <<dayVars, period, desk>>
-----------------------------------------------------------------------------
(* End of day, with months that may be locked under it. *)

\* A loan already processed for the date has nothing left to post.
Done(a, l) == <<l, job[a].for>> \in ran

BatchLoan(a, l) ==
  /\ ProcessLoan(a, l)
  /\ Done(a, l) \/ ~Locked(job[a].for)
  /\ UNCHANGED closeVars

BatchLoanRefused(a, l) ==
  /\ LoanFails(a, l)
  /\ ~Done(a, l) /\ Locked(job[a].for)
  /\ UNCHANGED <<trouble, closeVars>>

\* runTenant: after a clean batch of a month's last day, autoPrepare.
Prepares(a) == /\ a = Scheduler
               /\ job[a].failed = 0
               /\ \E m \in Months : job[a].day = End(m)

EndBatch(a) ==
  /\ FinishBatch(a)
  /\ IF Prepares(a) /\ ChecksPass(job[a].day \div MonthLength)'
     THEN desk' = [desk EXCEPT ![a] = [Free EXCEPT !.doing = "PREPARE",
                                                   !.month = job[a].day \div MonthLength]]
     ELSE UNCHANGED desk
  /\ UNCHANGED <<period, posting, booked>>

Crash(a) ==
  /\ Die(a)
  /\ desk' = [desk EXCEPT ![Scheduler] = IF a = Scheduler THEN Free ELSE @]
  /\ UNCHANGED <<period, posting, booked>>

CloseInit ==
  /\ DayInit
  /\ period = [m \in Months |-> [status |-> "ABSENT", preparedBy |-> None,
                                 approvedBy |-> None, askedBy |-> None, snapshot |-> 0]]
  /\ desk = [c \in Closers |-> Free]
  /\ posting = [p \in Posters |-> [pc |-> "IDLE", day |-> FirstDay]]
  /\ booked = {}

\* The scheduler closes a month before it goes on to the next day.
DayWork ==
  \/ NextCalendarDay
  \/ Does(Scheduler, "NOTHING") /\ (StartEndOfDay \/ SchedulerAdvances)
  \/ \E o \in Officers, to \in Days : OfficerAdvances(o, to)
  \/ \E a \in Actors : WriteDate(a) \/ StartBatch(a)
  \/ \E a \in Actors, l \in Loans : FailLoan(a, l)

ClerkWork(c) ==
  \/ \E m \in Months : \/ Prepare(c, m) \/ Consider(c, m)
                       \/ AskToReopen(c, m) \/ ConsiderReopening(c, m)
  \/ CheckAgain(c) \/ Approve(c) \/ Reject(c)
  \/ WriteAsked(c) \/ WriteReopened(c)

CloseNext ==
  \/ DayWork /\ UNCHANGED closeVars
  \/ \E a \in Actors, l \in Loans : BatchLoan(a, l) \/ BatchLoanRefused(a, l)
  \/ \E a \in Actors : EndBatch(a) \/ Crash(a)
  \/ \E c \in Clerks : ClerkWork(c)
  \/ \E c \in Closers : TakeSnapshot(c) \/ WritePrepared(c)
  \/ \E p \in Posters : BeginPosting(p) \/ InsertEntry(p) \/ CommitPosting(p)

CloseSpec == CloseInit /\ [][CloseNext]_vars
-----------------------------------------------------------------------------
(* Properties. *)

\* Every month has the row of a known state, every call is about a month, and
\* end of day stays on the calendar beside them.
CloseTypeOK ==
  /\ TypeOK
  /\ period \in [Months -> [status : Statuses, preparedBy : People \cup {None},
                            approvedBy : People \cup {None},
                            askedBy : People \cup {None}, snapshot : Nat]]
  /\ \A c \in Closers : /\ desk[c].month \in Months /\ desk[c].snapshot \in Nat
                        /\ desk[c].doing \in {"NOTHING", "PREPARE", "PREPARED", "DECIDE",
                                              "LOCK", "ASK", "REOPEN"}
  /\ \A p \in Posters : /\ posting[p].pc \in {"IDLE", "DATED", "INSERTED"}
                        /\ posting[p].day \in Days

\* A month is never locked while end of day has not been run for the book at or
\* after its last day, even when the record of the last run has since gone back.
LockedAfterEndOfDay ==
  /\ CloseTypeOK
  /\ \A m \in Months :
       IsLocked(period[m].status) /\ Loans # {} => \E d \in ended : d >= End(m)

\* checks: "End of day processed every day of the month"; OPERATIONS.md: "month
\* end stays blocked until a clean run".  A locked month's last day was
\* processed for every loan.
LockedMonthIsProcessed == \A m \in Months :
  IsLocked(period[m].status) => \A l \in Loans : <<l, End(m)>> \in ran

\* snapshot: "The books and the portfolio at month end, kept with the close".
SnapshotIsMonthEnd == \A m \in Months :
  period[m].status = "CLOSED" => period[m].snapshot = Posted(m)

\* "Nothing is posted into a locked month".
NothingPostedIntoLockedMonth ==
  [][\A x \in booked' \ booked : ~Locked(x[1])]_vars

\* "Months are closed in order".
ClosedInOrder == \A m \in Months :
  period[m].status = "CLOSED" /\ m > 1 => period[m - 1].status # "OPEN"

\* "A month can be reopened only under maker-checker": no step takes a closed
\* month back to waiting for approval.
StaysClosed ==
  [][\A m \in Months : period[m].status = "CLOSED" => period'[m].status # "PENDING"]_vars

\* The same of reopening: a locked month is opened by somebody other than the one
\* who asked for it last.
ReopenedByTwo == [][\A m \in Months, c \in Clerks :
  /\ Does(c, "REOPEN") /\ desk[c].month = m /\ desk'[c] = Free
  /\ IsLocked(period[m].status) /\ period'[m].status = "OPEN"
  => period[m].status = "REOPEN_PENDING" /\ period[m].askedBy # Who[c]]_vars
=============================================================================
