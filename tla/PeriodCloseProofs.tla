-------------------------- MODULE PeriodCloseProofs --------------------------
(***************************************************************************)
(* End of day and month-end close, for any people, loans, months and order *)
(* of their calls.  A batch that reports no failure processed the whole    *)
(* book; a batch knows only its own work, so the invariant speaks of every *)
(* batch in progress: without a failure counted, a loan it has not left is *)
(* one that was processed for its date.  A month is locked only once end   *)
(* of day ran for the book at its end or later; what a call has checked is *)
(* old when it writes, so the invariant speaks of the calls too: batches   *)
(* that ended stay ended.                                                  *)
(***************************************************************************)
EXTENDS PeriodClose, TLAPS, FiniteSetTheorems
-----------------------------------------------------------------------------
(* End of day. *)

Fields == [pc : Stages, day : Days, upTo : Days, for : Days, left : SUBSET Loans,
           failed : 0 .. Cardinality(Loans)]

\* A batch counts a loan as failed when it leaves it.
Jobs == {j \in Fields : j.failed + Cardinality(j.left) <= Cardinality(Loans)}

\* What a batch in progress without failures has done.
SoFar == \A a \in Actors :
  At(a, "BATCH") /\ job[a].failed = 0 =>
    \A l \in Loans \ job[a].left : <<l, job[a].for>> \in ran

\* The batch on record has ended.
LastEnded == last.day # 0 => last.day \in ended

IInv == /\ TypeOK
        /\ job \in [Actors -> Jobs]
        /\ SoFar /\ LastEnded
        /\ CleanBatchIsWhole

\* What runBatch does to a loan that fails is a step of its own where the failure
\* is the month's lock and no trouble of the model.
DayStep == Next \/ \E a \in Actors, l \in Loans : LoanFails(a, l) /\ trouble' = trouble

\* The days of the model are numbers, and it has a first one.
LEMMA DaysAreNumbers ==
  /\ FirstDay \in Days /\ \A d \in Days : d \in Int /\ 1 <= d /\ d <= LastToday
  /\ LastToday \in Int /\ MaxCatchUp \in Int /\ MaxCatchUp >= 1 /\ MaxTrouble \in Nat
  /\ Cardinality(Loans) \in Nat
  BY DayAssumption, FS_CardinalityType DEF DayAssumption, Days, FirstDay

\* A part of the book is no larger than the book.
LEMMA PartOfBook ==
  ASSUME NEW L \in SUBSET Loans
  PROVE  /\ IsFiniteSet(L) /\ Cardinality(L) \in Nat /\ Cardinality(L) <= Cardinality(Loans)
         /\ \A l \in L : Cardinality(L \ {l}) = Cardinality(L) - 1
  BY DayAssumption, FS_Subset, FS_CardinalityType, FS_RemoveElement DEF DayAssumption

\* An actor that goes on to anything but a batch leaves the batches alone.
LEMMA Aside ==
  ASSUME IInv, NEW a \in Actors, NEW j \in Jobs, Becomes(a, j), j.pc # "BATCH",
         today' \in Days, date' \in Days, trouble' \in 0 .. MaxTrouble,
         UNCHANGED <<ran, last, asOf, ended>>
  PROVE  IInv'
<1> USE DEF IInv
<1>1. job' \in [Actors -> Jobs] BY DEF Becomes
<1>2. \A b \in Actors : job'[b] = IF b = a THEN j ELSE job[b] BY DEF Becomes
<1>3. SoFar' BY <1>2 DEF SoFar, At
<1>4. TypeOK' BY <1>1 DEF TypeOK, Jobs, Fields
<1>5. CleanBatchIsWhole' /\ LastEnded' BY DEF CleanBatchIsWhole, LastEnded
<1> QED BY <1>1, <1>3, <1>4, <1>5

\* An idle actor is in no batch.
LEMMA RestIsJob == Rest \in Jobs /\ Rest.pc # "BATCH"
<1>1. Cardinality({}) = 0 BY FS_EmptySet
<1> QED BY <1>1, DaysAreNumbers DEF Rest, Jobs, Fields, Stages

\* An actor goes on with its job.
LEMMA GoesOn ==
  ASSUME NEW j \in Jobs, NEW pc \in Stages
  PROVE  [j EXCEPT !.pc = pc] \in Jobs /\ [j EXCEPT !.pc = pc].pc = pc
  BY DEF Jobs, Fields

\* An actor is about to move the date.
LEMMA AboutToMove ==
  ASSUME NEW d \in Days, NEW u \in Days
  PROVE  LET j == [Rest EXCEPT !.pc = "READ", !.day = d, !.upTo = u]
         IN  j \in Jobs /\ j.pc # "BATCH"
<1>1. "READ" \in Stages /\ "READ" # "BATCH" BY DEF Stages
<1> QED BY <1>1, RestIsJob DEF Jobs, Fields

\* No batch has started yet.
LEMMA InitInvariant == DayInit => IInv
<1> SUFFICES ASSUME DayInit PROVE IInv OBVIOUS
<1>1. job \in [Actors -> Jobs] BY RestIsJob DEF DayInit
<1>2. SoFar BY RestIsJob DEF DayInit, SoFar, At
<1>3. CleanBatchIsWhole /\ LastEnded BY DEF DayInit, CleanBatchIsWhole, LastEnded
<1>4. TypeOK
  <2>1. job \in [Actors -> Fields] BY <1>1 DEF Jobs
  <2>2. 0 \in 0 .. Cardinality(Loans) /\ 0 \in 0 .. MaxTrouble BY DaysAreNumbers
  <2>3. today \in Days /\ date \in Days BY DaysAreNumbers DEF DayInit
  <2> QED BY <2>1, <2>2, <2>3 DEF DayInit, TypeOK, Fields
<1> QED BY <1>1, <1>2, <1>3, <1>4 DEF IInv

\* Reading the date, of the scheduler or of an officer, runs no loan.
LEMMA ReadInvariant ==
  ASSUME IInv, NEW a \in Actors, NEW j \in Jobs, ReadDate(a, j), j.pc # "BATCH"
  PROVE  IInv'
<1> DEFINE k == IF j.day > date /\ j.day - date <= MaxStep
                THEN [j EXCEPT !.pc = "MOVE"] ELSE Rest
<1>1. k \in Jobs /\ k.pc # "BATCH"
  <2>1. "MOVE" \in Stages /\ "MOVE" # "BATCH" BY DEF Stages
  <2>2. [j EXCEPT !.pc = "MOVE"] \in Jobs /\ [j EXCEPT !.pc = "MOVE"].pc # "BATCH"
    BY <2>1, GoesOn
  <2> QED BY <2>2, RestIsJob
<1>2. Becomes(a, k) /\ UNCHANGED <<today, date, last, asOf, ran, ended, trouble>>
  BY DEF ReadDate
<1> HIDE DEF k
<1>3. today' \in Days /\ date' \in Days /\ trouble' \in 0 .. MaxTrouble
  BY <1>2 DEF IInv, TypeOK
<1> QED BY <1>1, <1>2, <1>3, Aside

\* The scheduler working out the days it has to catch up runs no loan.
LEMMA StartInvariant ==
  ASSUME IInv, StartEndOfDay
  PROVE  IInv'
<1> DEFINE j == [Rest EXCEPT !.pc = "READ", !.day = date + 1, !.upTo = DaysToRun]
<1>1. DaysToRun \in Days /\ date + 1 \in Days
  <2>1. today \in Days /\ date \in Days BY DEF IInv, TypeOK
  <2>2. DaysToRun \in Int /\ DaysToRun <= today /\ DaysToRun > date
    BY <2>1, DaysAreNumbers DEF DaysToRun, Earlier, StartEndOfDay
  <2> QED BY <2>1, <2>2, DaysAreNumbers DEF Days, FirstDay
<1>2. j \in Jobs /\ j.pc # "BATCH" BY <1>1, AboutToMove
<1>3. /\ Becomes(Scheduler, j) /\ Scheduler \in Actors
      /\ UNCHANGED <<today, date, last, asOf, ran, ended, trouble>>
  BY DEF StartEndOfDay, Actors
<1> HIDE DEF j
<1>4. today' \in Days /\ date' \in Days /\ trouble' \in 0 .. MaxTrouble
  BY <1>3 DEF IInv, TypeOK
<1> QED BY <1>2, <1>3, <1>4, Aside

\* Moving the date leaves the batches and their record alone.
LEMMA WriteInvariant ==
  ASSUME IInv, NEW a \in Actors, WriteDate(a)
  PROVE  IInv'
<1> DEFINE j == IF a = Scheduler THEN [job[a] EXCEPT !.pc = "START"] ELSE Rest
<1>1. j \in Jobs /\ j.pc # "BATCH"
  <2>1. "START" \in Stages /\ "START" # "BATCH" /\ job[a] \in Jobs BY DEF Stages, IInv
  <2>2. [job[a] EXCEPT !.pc = "START"] \in Jobs /\ [job[a] EXCEPT !.pc = "START"].pc # "BATCH"
    BY <2>1, GoesOn
  <2> QED BY <2>2, RestIsJob
<1>2. Becomes(a, j) /\ UNCHANGED <<today, last, asOf, ran, ended, trouble>>
  BY DEF WriteDate
<1>3. today' \in Days /\ date' \in Days /\ trouble' \in 0 .. MaxTrouble
  BY DEF WriteDate, IInv, TypeOK
<1> HIDE DEF j
<1> QED BY <1>1, <1>2, <1>3, Aside

\* A batch goes on: it has left no loan without a failure or a run for its date.
LEMMA BatchStep ==
  ASSUME IInv, NEW a \in Actors, NEW j \in Jobs, Becomes(a, j),
         UNCHANGED <<today, date, last, ended>>, trouble' \in 0 .. MaxTrouble,
         asOf' \in [Loans -> Days \cup {0}],
         ran \subseteq ran', ran' \subseteq Loans \X Days,
         j.failed = 0 => \A l \in Loans \ j.left : <<l, j.for>> \in ran'
  PROVE  IInv'
<1> USE DEF IInv
<1>1. job' \in [Actors -> Jobs] BY DEF Becomes
<1>2. \A b \in Actors : job'[b] = IF b = a THEN j ELSE job[b] BY DEF Becomes
<1>3. SoFar' BY <1>2 DEF SoFar, At
<1>4. TypeOK' BY <1>1 DEF TypeOK, Jobs, Fields
<1>5. CleanBatchIsWhole' /\ LastEnded' BY DEF CleanBatchIsWhole, LastEnded
<1> QED BY <1>1, <1>3, <1>4, <1>5

\* A batch that has just listed the loans has done nothing.
LEMMA StartBatchInvariant ==
  ASSUME IInv, NEW a \in Actors, StartBatch(a)
  PROVE  IInv'
<1> DEFINE j == [job[a] EXCEPT !.pc = "BATCH", !.for = date, !.left = Loans, !.failed = 0]
<1>1. job[a] \in Fields /\ date \in Days BY DEF IInv, TypeOK, Jobs
<1>2. j \in Fields /\ j.left = Loans /\ j.failed = 0 /\ j.for = date
  <2>1. 0 \in 0 .. Cardinality(Loans) /\ "BATCH" \in Stages BY DaysAreNumbers DEF Stages
  <2> QED BY <1>1, <2>1 DEF Fields
<1>3. j \in Jobs
  <2>1. j.failed + Cardinality(j.left) <= Cardinality(Loans)
    <3> HIDE DEF j
    <3> QED BY <1>2, DaysAreNumbers
  <2> QED BY <1>2, <2>1 DEF Jobs
<1>4. Becomes(a, j) /\ UNCHANGED <<today, date, last, asOf, ran, ended, trouble>>
  BY DEF StartBatch
<1> HIDE DEF j
<1>5. \A l \in Loans \ j.left : <<l, j.for>> \in ran' BY <1>2
<1>6. /\ trouble' \in 0 .. MaxTrouble /\ asOf' \in [Loans -> Days \cup {0}]
      /\ ran \subseteq ran' /\ ran' \subseteq Loans \X Days
  BY <1>4 DEF IInv, TypeOK
<1> QED BY <1>3, <1>4, <1>5, <1>6, BatchStep

\* A loan processed is one less left, and is run for the day of the batch.
LEMMA ProcessInvariant ==
  ASSUME IInv, NEW a \in Actors, NEW l \in Loans, ProcessLoan(a, l)
  PROVE  IInv'
<1> DEFINE j == [job[a] EXCEPT !.left = @ \ {l}]
<1>1. /\ job[a] \in Fields /\ job[a].for \in Days /\ job[a].left \in SUBSET Loans
      /\ job[a].failed + Cardinality(job[a].left) <= Cardinality(Loans)
      /\ l \in job[a].left /\ job[a].failed \in Nat
  BY DaysAreNumbers DEF IInv, Jobs, Fields, ProcessLoan
<1>2. /\ j \in Fields /\ j.left = job[a].left \ {l}
      /\ j.for = job[a].for /\ j.failed = job[a].failed
  BY <1>1 DEF Fields
<1>3. j \in Jobs
  <2>1. Cardinality(j.left) = Cardinality(job[a].left) - 1 /\ Cardinality(job[a].left) \in Nat
    BY <1>1, <1>2, PartOfBook
  <2> HIDE DEF j
  <2>2. Cardinality(Loans) \in Nat BY DaysAreNumbers
  <2>3. j.failed + Cardinality(j.left) <= Cardinality(Loans) BY <1>1, <1>2, <2>1, <2>2
  <2> QED BY <1>2, <2>3 DEF Jobs
<1>4. /\ Becomes(a, j) /\ ran' = ran \cup {<<l, job[a].for>>}
      /\ asOf' = [asOf EXCEPT ![l] = job[a].for]
      /\ UNCHANGED <<today, date, last, ended, trouble>>
  BY DEF ProcessLoan
<1> HIDE DEF j
<1>5. j.failed = 0 => \A k \in Loans \ j.left : <<k, j.for>> \in ran'
  BY <1>2, <1>4 DEF IInv, SoFar, ProcessLoan
<1>6. /\ trouble' \in 0 .. MaxTrouble /\ asOf' \in [Loans -> Days \cup {0}]
      /\ ran \subseteq ran' /\ ran' \subseteq Loans \X Days
  BY <1>1, <1>4 DEF IInv, TypeOK
<1> QED BY <1>3, <1>4, <1>5, <1>6, BatchStep

\* A loan that fails is counted: the batch is no longer one without failures.
LEMMA FailInvariant ==
  ASSUME IInv, NEW a \in Actors, NEW l \in Loans, LoanFails(a, l),
         trouble' \in 0 .. MaxTrouble
  PROVE  IInv'
<1> DEFINE n == job[a].failed + 1
           j == [job[a] EXCEPT !.left = @ \ {l}, !.failed = n]
<1>1. /\ job[a] \in Fields /\ job[a].left \in SUBSET Loans
      /\ job[a].failed + Cardinality(job[a].left) <= Cardinality(Loans)
      /\ l \in job[a].left /\ job[a].failed \in Nat
  BY DaysAreNumbers DEF IInv, Jobs, Fields, LoanFails
<1>2. /\ Cardinality(job[a].left \ {l}) = Cardinality(job[a].left) - 1
      /\ Cardinality(job[a].left) \in Nat /\ Cardinality(job[a].left \ {l}) \in Nat
      /\ Cardinality(Loans) \in Nat
  <2>1. job[a].left \ {l} \in SUBSET Loans BY <1>1
  <2> QED BY <1>1, <2>1, PartOfBook, DaysAreNumbers
<1>3. /\ n \in 0 .. Cardinality(Loans) /\ n # 0
      /\ n + Cardinality(job[a].left \ {l}) <= Cardinality(Loans)
  BY <1>1, <1>2
<1>4. Becomes(a, j) /\ UNCHANGED <<today, date, last, asOf, ran, ended>>
  BY DEF LoanFails, Counted
<1> HIDE DEF n
<1>5. j \in Fields /\ j.left = job[a].left \ {l} /\ j.failed = n BY <1>1, <1>3 DEF Fields
<1> HIDE DEF j
<1>6. j \in Jobs BY <1>3, <1>5 DEF Jobs
<1>7. asOf' \in [Loans -> Days \cup {0}] /\ ran' \subseteq Loans \X Days
  BY <1>4 DEF IInv, TypeOK
<1> QED BY <1>3, <1>4, <1>5, <1>6, <1>7, BatchStep

\* A batch that left no loan and counted no failure processed them all.
LEMMA FinishInvariant ==
  ASSUME IInv, NEW a \in Actors, FinishBatch(a)
  PROVE  IInv'
<1> USE DEF IInv
<1> DEFINE j == IF a = Scheduler THEN NextRun(job[a]) ELSE Rest
<1>1. job[a] \in Jobs OBVIOUS
<1>2. j \in Jobs /\ j.pc # "BATCH"
  <2>1. job[a].day \in Days /\ job[a].upTo \in Days BY <1>1 DEF Jobs, Fields
  <2>2. CASE a = Scheduler /\ job[a].day < job[a].upTo
    <3>1. job[a].day + 1 \in Days BY <2>1, <2>2, DaysAreNumbers DEF Days, FirstDay
    <3>2. j = [Rest EXCEPT !.pc = "READ", !.day = job[a].day + 1, !.upTo = job[a].upTo]
      BY <2>2 DEF NextRun
    <3> HIDE DEF j
    <3> QED BY <2>1, <3>1, <3>2, AboutToMove
  <2>3. CASE ~(a = Scheduler /\ job[a].day < job[a].upTo)
    BY <2>3, RestIsJob DEF NextRun
  <2> QED BY <2>2, <2>3
<1>3. Becomes(a, j) BY DEF FinishBatch
<1> HIDE DEF j
<1>4. job' \in [Actors -> Jobs] BY <1>2, <1>3 DEF Becomes
<1>5. \A b \in Actors : job'[b] = IF b = a THEN j ELSE job[b] BY <1>3 DEF Becomes
<1>6. /\ last' = [day |-> job[a].for, failures |-> job[a].failed]
      /\ ended' = ended \cup {job[a].for} /\ At(a, "BATCH") /\ job[a].left = {}
      /\ UNCHANGED <<today, date, asOf, ran, trouble>>
  BY DEF FinishBatch, Recorded
<1>7. SoFar' BY <1>2, <1>5, <1>6 DEF SoFar, At
<1>8. CleanBatchIsWhole' BY <1>6 DEF SoFar, CleanBatchIsWhole
<1>9. LastEnded' BY <1>6 DEF LastEnded
<1>10. TypeOK'
  <2>1. job[a].for \in Days /\ job[a].failed \in 0 .. Cardinality(Loans)
    BY <1>1 DEF Jobs, Fields
  <2> QED BY <1>4, <1>6, <2>1 DEF TypeOK, Jobs, Fields
<1> QED BY <1>4, <1>7, <1>8, <1>9, <1>10

\* The calendar moves alone.
LEMMA CalendarInvariant == ASSUME IInv, NextCalendarDay PROVE IInv'
<1> USE DEF IInv, NextCalendarDay
<1>1. today' \in Days BY DaysAreNumbers DEF TypeOK, Days, FirstDay
<1>2. TypeOK' BY <1>1 DEF TypeOK
<1>3. SoFar' /\ CleanBatchIsWhole' /\ LastEnded' BY DEF SoFar, CleanBatchIsWhole, LastEnded, At
<1> QED BY <1>2, <1>3

\* Every step of an actor or of the calendar keeps the invariant.
LEMMA StepInvariant == IInv /\ [DayStep]_dayVars => IInv'
<1> SUFFICES ASSUME IInv, [DayStep]_dayVars PROVE IInv' OBVIOUS
<1>0. trouble \in 0 .. MaxTrouble /\ MaxTrouble \in Int BY DaysAreNumbers DEF IInv, TypeOK
<1>1. CASE NextCalendarDay BY <1>1, CalendarInvariant
<1>2. CASE StartEndOfDay BY <1>2, StartInvariant
<1>3. CASE SchedulerAdvances
  <2>1. job[Scheduler] \in Jobs BY DEF IInv, Actors
  <2> QED BY <1>3, <2>1, ReadInvariant DEF SchedulerAdvances, At, Actors
<1>4. ASSUME NEW o \in Officers, NEW to \in Days, OfficerAdvances(o, to) PROVE IInv'
  <2> DEFINE j == [Rest EXCEPT !.day = to]
  <2>1. j \in Jobs /\ j.pc # "BATCH" BY RestIsJob DEF Jobs, Fields
  <2>2. ReadDate(o, j) /\ o \in Actors BY <1>4 DEF OfficerAdvances, Actors
  <2> HIDE DEF j
  <2> QED BY <2>1, <2>2, ReadInvariant
<1>5. ASSUME NEW a \in Actors, WriteDate(a) PROVE IInv' BY <1>5, WriteInvariant
<1>6. ASSUME NEW a \in Actors, StartBatch(a) PROVE IInv' BY <1>6, StartBatchInvariant
<1>7. ASSUME NEW a \in Actors, NEW l \in Loans, ProcessLoan(a, l) PROVE IInv'
  BY <1>7, ProcessInvariant
<1>8. ASSUME NEW a \in Actors, NEW l \in Loans, FailLoan(a, l) PROVE IInv'
  <2>1. LoanFails(a, l) /\ trouble' \in 0 .. MaxTrouble BY <1>0, <1>8 DEF FailLoan
  <2> QED BY <2>1, FailInvariant
<1>9. ASSUME NEW a \in Actors, FinishBatch(a) PROVE IInv' BY <1>9, FinishInvariant
<1>10. ASSUME NEW a \in Actors, Die(a) PROVE IInv'
  <2>1. today' \in Days /\ date' \in Days /\ trouble' \in 0 .. MaxTrouble
    BY <1>0, <1>10 DEF Die, IInv, TypeOK
  <2> QED BY <1>10, <2>1, Aside, RestIsJob DEF Die
<1>11. ASSUME NEW a \in Actors, NEW l \in Loans, LoanFails(a, l), trouble' = trouble
       PROVE  IInv'
  BY <1>0, <1>11, FailInvariant
<1>12. CASE UNCHANGED dayVars
  BY <1>12 DEF dayVars, IInv, TypeOK, SoFar, CleanBatchIsWhole, LastEnded, At
<1> QED
  BY <1>1, <1>2, <1>3, <1>4, <1>5, <1>6, <1>7, <1>8, <1>9, <1>10, <1>11, <1>12
  DEF DayStep, Next, SchedulerWorks, OfficerWorks, Actors

\* runBatch: when the last batch on record reports no failure, every loan was
\* processed for its date, however batches overlapped, failed or died.
THEOREM CleanBatch == Spec => []CleanBatchIsWhole
<1>1. IInv => CleanBatchIsWhole BY DEF IInv
<1>2. [Next]_dayVars => [DayStep]_dayVars BY DEF DayStep
<1> QED BY <1>1, <1>2, InitInvariant, StepInvariant, PTL DEF Spec

-----------------------------------------------------------------------------
(* The close. *)

PeriodRows == [status : Statuses, preparedBy : People \cup {None},
               approvedBy : People \cup {None}, askedBy : People \cup {None}, snapshot : Nat]
Doings == {"NOTHING", "PREPARE", "PREPARED", "DECIDE", "LOCK", "ASK", "REOPEN"}
Desks == [doing : Doings, month : Months, new : BOOLEAN, snapshot : Nat]

\* A batch ended for the month's last day or a later one.
DayRan(m) == Loans # {} => \E d \in ended : d >= End(m)

ClosingTyped ==
  /\ period \in [Months -> PeriodRows]
  /\ desk \in [Closers -> Desks]
  /\ \A p \in Posters : /\ posting[p].pc \in {"IDLE", "DATED", "INSERTED"}
                        /\ posting[p].day \in Days
  /\ posting = [p \in Posters |-> [pc |-> posting[p].pc, day |-> posting[p].day]]
  /\ IsFiniteSet(booked)

LockedRan == \A m \in Months : IsLocked(period[m].status) => DayRan(m)

\* Who is about to lock a month, or found it locked, may rely on that.
CallsRan == \A c \in Closers : desk[c].doing \in {"LOCK", "ASK", "REOPEN"} => DayRan(desk[c].month)

CInv == IInv /\ ClosingTyped /\ LockedRan /\ CallsRan
-----------------------------------------------------------------------------
(* The calendar's months. *)

\* Months are numbered, and each ends on a day that the model has.
LEMMA MonthsAreNumbers ==
  /\ 1 \in Months
  /\ \A m \in Months : m \in Nat /\ End(m) \in Nat /\ 1 <= End(m) /\ End(m) \div MonthLength = m
<1>1. MonthLength \in Nat /\ 1 <= MonthLength /\ MonthLength <= LastToday /\ LastToday \in Nat
  BY DayAssumption, CloseAssumption DEF DayAssumption, CloseAssumption
<1>2. LastToday \div MonthLength \in Nat /\ 1 <= LastToday \div MonthLength BY <1>1
<1>3. ASSUME NEW m \in Months
      PROVE  m \in Nat /\ End(m) \in Nat /\ 1 <= End(m) /\ End(m) \div MonthLength = m
  <2>1. m \in Nat /\ 1 <= m BY <1>2 DEF Months
  <2>2. m * MonthLength \in Nat /\ 1 <= m * MonthLength BY <1>1, <2>1
  <2>3. (m * MonthLength) \div MonthLength = m BY <1>1, <2>1
  <2> QED BY <2>1, <2>2, <2>3 DEF End
<1> QED BY <1>2, <1>3 DEF Months

\* What the checks find of a month stays true.
LEMMA ChecksRan == ASSUME CInv, NEW m \in Months, ChecksPass(m) PROVE DayRan(m)
<1>1. Loans = {} \/ last.day >= End(m) BY DEF ChecksPass, EndOfDayDone
<1>2. last.day >= End(m) => last.day # 0
  <2>1. last.day \in Int BY DaysAreNumbers DEF CInv, IInv, TypeOK
  <2> QED BY <2>1, MonthsAreNumbers
<1> QED BY <1>1, <1>2 DEF CInv, IInv, LastEnded, DayRan

\* A snapshot is a number.
LEMMA PostedIsNumber == ASSUME CInv, NEW m \in Months PROVE Posted(m) \in Nat
<1>1. IsFiniteSet(Loans \X Days)
  BY DayAssumption, FS_Interval, FS_Product, DaysAreNumbers DEF DayAssumption, Days, FirstDay
<1>2. IsFiniteSet(ran) BY <1>1, FS_Subset DEF CInv, IInv, TypeOK
<1>3. IsFiniteSet(booked) BY DEF CInv, ClosingTyped
<1>4. /\ IsFiniteSet({x \in ran : x[2] <= End(m)})
      /\ IsFiniteSet({x \in booked : x[1] <= End(m)})
  <2>1. {x \in ran : x[2] <= End(m)} \subseteq ran OBVIOUS
  <2>2. {x \in booked : x[1] <= End(m)} \subseteq booked OBVIOUS
  <2> QED BY <1>2, <1>3, <2>1, <2>2, FS_Subset
<1> QED BY <1>4, FS_CardinalityType DEF Posted

\* A batch that ended, ended.
LEMMA EndedGrows == DayStep \/ UNCHANGED dayVars => ended \subseteq ended'
  BY DEF DayStep, Next, NextCalendarDay, SchedulerWorks, OfficerWorks, StartEndOfDay,
         SchedulerAdvances, ReadDate, OfficerAdvances, WriteDate, StartBatch, ProcessLoan,
         FailLoan, LoanFails, FinishBatch, Recorded, Die, dayVars
-----------------------------------------------------------------------------
(* The invariant. *)

\* Nothing is closed at first.
LEMMA CloseInitInvariant == CloseInit => CInv
<1> SUFFICES ASSUME CloseInit PROVE CInv OBVIOUS
<1> USE DEF CloseInit
<1>1. IInv BY InitInvariant
<1>2. ClosingTyped
  <2>1. Free \in Desks BY MonthsAreNumbers DEF Free, Desks, Doings
  <2>2. FirstDay \in Days BY DaysAreNumbers
  <2>3. IsFiniteSet(booked) BY FS_EmptySet
  <2> QED BY <2>1, <2>2, <2>3 DEF ClosingTyped, PeriodRows, Statuses
<1>3. LockedRan BY DEF LockedRan, IsLocked
<1>4. CallsRan BY DEF CallsRan, Free
<1> QED BY <1>1, <1>2, <1>3, <1>4 DEF CInv

\* End of day goes on beside the months.
LEMMA DayInvariant ==
  ASSUME CInv, [DayStep]_dayVars, UNCHANGED closeVars
  PROVE  CInv'
<1> USE DEF CInv, closeVars
<1>1. IInv' BY StepInvariant
<1>2. ended \subseteq ended' BY EndedGrows
<1>3. ClosingTyped' BY DEF ClosingTyped
<1>5. LockedRan' BY <1>2 DEF LockedRan, DayRan
<1>6. CallsRan' BY <1>2 DEF CallsRan, DayRan
<1> QED BY <1>1, <1>3, <1>5, <1>6

\* A call goes on, or ends; a step of end of day may start it.
LEMMA DeskInvariant ==
  ASSUME CInv, [DayStep]_dayVars, UNCHANGED <<period, posting, booked>>,
         NEW c \in Closers, NEW d \in Desks, desk' = [desk EXCEPT ![c] = d],
         d.doing \in {"LOCK", "ASK", "REOPEN"} => DayRan(d.month)
  PROVE  CInv'
<1> USE DEF CInv
<1>1. IInv' BY StepInvariant
<1>2. ended \subseteq ended' BY EndedGrows
<1>3. ClosingTyped' BY DEF ClosingTyped
<1>5. LockedRan' BY <1>2 DEF LockedRan, DayRan
<1>6. CallsRan'
  <2>1. \A e \in Closers : desk'[e] = IF e = c THEN d ELSE desk[e] BY DEF ClosingTyped
  <2> QED BY <1>2, <2>1 DEF CallsRan, DayRan
<1> QED BY <1>1, <1>3, <1>5, <1>6

\* A row is written where the constraint lets it be, and the call ends.
LEMMA WriteMonth ==
  ASSUME CInv, UNCHANGED <<dayVars, posting, booked>>, NEW c \in Closers, Leaves(c),
         NEW m \in Months, NEW p \in PeriodRows, Write(m, p) \/ UNCHANGED period,
         IsLocked(p.status) => DayRan(m)
  PROVE  CInv'
<1> USE DEF CInv
<1>1. IInv' BY StepInvariant
<1>2. ended' = ended BY DEF dayVars
<1>3. \/ period' = period
      \/ period' = [period EXCEPT ![m] = p]
  <2>1. CASE IsLocked(p.status) /\ ~Sealed(p) BY <2>1 DEF Write
  <2>2. CASE ~(IsLocked(p.status) /\ ~Sealed(p)) BY <2>2 DEF Write
  <2> QED BY <2>1, <2>2
<1>4. Free \in Desks /\ Free.doing = "NOTHING"
  BY MonthsAreNumbers DEF Free, Desks, Doings
<1>5. ClosingTyped' BY <1>3, <1>4 DEF ClosingTyped, Leaves
<1>6. \A n \in Months :
        \/ period'[n] = period[n]
        \/ n = m /\ period'[n] = p
  <2>1. CASE period' = period BY <2>1
  <2>2. CASE period' = [period EXCEPT ![m] = p]
    BY <2>2 DEF ClosingTyped
  <2> QED BY <1>3, <2>1, <2>2
<1>8. LockedRan' BY <1>2, <1>6 DEF LockedRan, DayRan
<1>9. CallsRan'
  <2>1. \A e \in Closers : desk'[e] = IF e = c THEN Free ELSE desk[e]
    BY DEF ClosingTyped, Leaves
  <2> QED BY <1>2, <1>4, <2>1 DEF CallsRan, DayRan
<1> QED BY <1>1, <1>5, <1>8, <1>9
-----------------------------------------------------------------------------
(* Call by call. *)

\* Nothing moves but closing.
LEMMA Beside == UNCHANGED dayVars => [DayStep]_dayVars
  OBVIOUS

\* Preparing a month, up to the snapshot.
LEMMA PrepareInvariant ==
  ASSUME CInv, NEW c \in Closers,
         \/ \E m \in Months : Prepare(c, m) \/ Consider(c, m) \/ ConsiderReopening(c, m)
         \/ TakeSnapshot(c)
  PROVE  CInv'
<1>1. ASSUME NEW m \in Months, NEW what \in {"PREPARE", "DECIDE"},
             desk' = [desk EXCEPT ![c] = [Free EXCEPT !.doing = what, !.month = m]],
             UNCHANGED <<dayVars, period, posting, booked>>
      PROVE  CInv'
  <2> DEFINE d == [Free EXCEPT !.doing = what, !.month = m]
  <2>1. d \in Desks /\ d.doing \notin {"LOCK", "ASK", "REOPEN"} BY DEF Free, Desks, Doings
  <2>2. desk' = [desk EXCEPT ![c] = d] BY <1>1
  <2>3. UNCHANGED <<period, posting, booked>> /\ [DayStep]_dayVars BY <1>1, Beside
  <2> HIDE DEF d
  <2> QED BY <2>1, <2>2, <2>3, DeskInvariant
<1>2. ASSUME NEW m \in Months, ConsiderReopening(c, m) PROVE CInv'
  <2> DEFINE d == [Free EXCEPT !.doing = "REOPEN", !.month = m]
  <2>1. d \in Desks /\ d.month = m BY DEF Free, Desks, Doings
  <2>2. DayRan(m) BY <1>2 DEF ConsiderReopening, CInv, LockedRan, IsLocked
  <2>3. desk' = [desk EXCEPT ![c] = d] /\ UNCHANGED <<dayVars, period, posting, booked>>
    BY <1>2 DEF ConsiderReopening
  <2> HIDE DEF d
  <2> QED BY <2>1, <2>2, <2>3, Beside, DeskInvariant
<1>3. CASE TakeSnapshot(c)
  <2> DEFINE m == desk[c].month
             s == [doing |-> "PREPARED", month |-> m, snapshot |-> Posted(m),
                   new |-> period[m].status = "ABSENT"]
  <2>1. m \in Months BY DEF CInv, ClosingTyped, Desks
  <2>2. Free \in Desks /\ Free.doing = "NOTHING" BY MonthsAreNumbers DEF Free, Desks, Doings
  <2>3. s \in Desks /\ s.doing = "PREPARED" BY <2>1, PostedIsNumber DEF Desks, Doings
  <2>4. /\ desk' = [desk EXCEPT ![c] = s] \/ desk' = [desk EXCEPT ![c] = Free]
        /\ UNCHANGED <<dayVars, period, posting, booked>>
    BY <1>3 DEF TakeSnapshot, Leaves
  <2> HIDE DEF s
  <2> QED BY <2>2, <2>3, <2>4, Beside, DeskInvariant
<1> QED BY <1>1, <1>2, <1>3 DEF Prepare, Consider

\* The checks again, and what a call finds locked.
LEMMA CheckInvariant ==
  ASSUME CInv, NEW c \in Closers,
         CheckAgain(c) \/ \E m \in Months : AskToReopen(c, m)
  PROVE  CInv'
<1>1. CASE CheckAgain(c)
  <2> DEFINE d == [desk[c] EXCEPT !.doing = "LOCK"]
  <2>1. desk[c] \in Desks /\ desk[c].month \in Months BY DEF CInv, ClosingTyped, Desks
  <2>2. d \in Desks /\ d.month = desk[c].month BY <2>1 DEF Desks, Doings
  <2>3. Free \in Desks /\ Free.doing = "NOTHING" BY MonthsAreNumbers DEF Free, Desks, Doings
  <2>4. UNCHANGED <<dayVars, period, posting, booked>> BY <1>1 DEF CheckAgain
  <2>5. CASE ChecksPass(desk[c].month)
    <3>1. desk' = [desk EXCEPT ![c] = d]
      BY <1>1, <2>5 DEF CheckAgain, Proceeds, CInv, ClosingTyped
    <3>2. DayRan(desk[c].month) BY <2>1, <2>5, ChecksRan
    <3> HIDE DEF d
    <3> QED BY <2>2, <2>4, <3>1, <3>2, Beside, DeskInvariant
  <2>6. CASE ~ChecksPass(desk[c].month)
    <3>1. desk' = [desk EXCEPT ![c] = Free] BY <1>1, <2>6 DEF CheckAgain, Leaves
    <3> QED BY <2>3, <2>4, <3>1, Beside, DeskInvariant
  <2> QED BY <2>5, <2>6
<1>2. ASSUME NEW m \in Months, AskToReopen(c, m) PROVE CInv'
  <2> DEFINE d == [Free EXCEPT !.doing = "ASK", !.month = m]
  <2>1. d \in Desks /\ d.month = m BY DEF Free, Desks, Doings
  <2>2. DayRan(m) BY <1>2 DEF AskToReopen, CInv, LockedRan, IsLocked
  <2>3. desk' = [desk EXCEPT ![c] = d] /\ UNCHANGED <<dayVars, period, posting, booked>>
    BY <1>2 DEF AskToReopen
  <2> HIDE DEF d
  <2> QED BY <2>1, <2>2, <2>3, Beside, DeskInvariant
<1> QED BY <1>1, <1>2

\* A call writes the month it has read of.
LEMMA WriteMonthInvariant ==
  ASSUME CInv, NEW c \in Closers,
         \/ WritePrepared(c) \/ Approve(c) \/ Reject(c) \/ WriteAsked(c) \/ WriteReopened(c)
  PROVE  CInv'
<1> DEFINE m == desk[c].month
<1>1. /\ m \in Months /\ period[m] \in PeriodRows /\ desk[c].snapshot \in Nat
      /\ Who[c] \in People
  BY DEF CInv, ClosingTyped, Desks, People
<1>2. CASE WritePrepared(c)
  <2> DEFINE p == [period[m] EXCEPT !.status = "PENDING", !.preparedBy = Who[c],
                     !.approvedBy = None, !.snapshot = desk[c].snapshot]
  <2>1. p \in PeriodRows /\ p.status = "PENDING" BY <1>1 DEF PeriodRows, Statuses
  <2>2. /\ Write(m, p) \/ UNCHANGED period
        /\ Leaves(c) /\ UNCHANGED <<dayVars, posting, booked>>
    BY <1>2 DEF WritePrepared
  <2> HIDE DEF m, p
  <2> QED BY <1>1, <2>1, <2>2, WriteMonth DEF IsLocked
<1>3. CASE Approve(c)
  <2> DEFINE p == [period[m] EXCEPT !.status = "CLOSED", !.approvedBy = Who[c]]
  <2>1. p \in PeriodRows BY <1>1 DEF PeriodRows, Statuses
  <2>2. /\ Write(m, p) \/ UNCHANGED period
        /\ Leaves(c) /\ UNCHANGED <<dayVars, posting, booked>>
    BY <1>3 DEF Approve, Decide
  <2>3. DayRan(m) BY <1>3 DEF Approve, Does, CInv, CallsRan
  <2> HIDE DEF m, p
  <2> QED BY <1>1, <2>1, <2>2, <2>3, WriteMonth
<1>4. CASE Reject(c)
  <2> DEFINE p == [period[m] EXCEPT !.status = "OPEN"]
  <2>1. p \in PeriodRows /\ p.status = "OPEN" BY <1>1 DEF PeriodRows, Statuses
  <2>2. /\ Write(m, p) \/ UNCHANGED period
        /\ Leaves(c) /\ UNCHANGED <<dayVars, posting, booked>>
    BY <1>4 DEF Reject, Decide
  <2> HIDE DEF m, p
  <2> QED BY <1>1, <2>1, <2>2, WriteMonth DEF IsLocked
<1>5. CASE WriteAsked(c)
  <2> DEFINE p == [period[m] EXCEPT !.status = "REOPEN_PENDING", !.askedBy = Who[c]]
  <2>1. p \in PeriodRows BY <1>1 DEF PeriodRows, Statuses
  <2>2. Write(m, p) /\ Leaves(c) /\ UNCHANGED <<dayVars, posting, booked>>
    BY <1>5 DEF WriteAsked
  <2>3. DayRan(m) BY <1>5 DEF WriteAsked, Does, CInv, CallsRan
  <2> HIDE DEF m, p
  <2> QED BY <1>1, <2>1, <2>2, <2>3, WriteMonth
<1>6. CASE WriteReopened(c)
  <2>1. PICK p \in {[period[m] EXCEPT !.status = "OPEN", !.approvedBy = None],
                    [period[m] EXCEPT !.status = "CLOSED", !.askedBy = None]} :
          Write(m, p) /\ Leaves(c) /\ UNCHANGED <<dayVars, posting, booked>>
    BY <1>6 DEF WriteReopened
  <2>2. p \in PeriodRows BY <1>1 DEF PeriodRows, Statuses
  <2>3. DayRan(m) BY <1>6 DEF WriteReopened, Does, CInv, CallsRan
  <2> HIDE DEF m
  <2> QED BY <1>1, <2>1, <2>2, <2>3, WriteMonth
<1> QED BY <1>2, <1>3, <1>4, <1>5, <1>6

\* A posting is dated a day of the calendar.
LEMMA PostingInvariant ==
  ASSUME CInv, NEW p \in Posters, BeginPosting(p) \/ InsertEntry(p) \/ CommitPosting(p)
  PROVE  CInv'
<1> USE DEF CInv
<1>1. UNCHANGED <<dayVars, period, desk>> BY DEF BeginPosting, InsertEntry, CommitPosting
<1>2. IInv' BY <1>1, StepInvariant
<1>3. /\ IsFiniteSet(booked')
      /\ \A q \in Posters : /\ posting'[q].pc \in {"IDLE", "DATED", "INSERTED"}
                            /\ posting'[q].day \in Days
      /\ posting' = [q \in Posters |-> [pc |-> posting'[q].pc, day |-> posting'[q].day]]
  <2>1. IsFiniteSet(booked')
    <3>1. \A x : IsFiniteSet(booked \cup {x}) BY FS_AddElement DEF ClosingTyped
    <3> QED BY <3>1 DEF ClosingTyped, BeginPosting, InsertEntry, CommitPosting
  <2>2. date \in Days BY DEF IInv, TypeOK
  <2>3. posting \in [Posters -> [pc : {"IDLE", "DATED", "INSERTED"}, day : Days]]
    BY DEF ClosingTyped
  <2>4. posting' \in [Posters -> [pc : {"IDLE", "DATED", "INSERTED"}, day : Days]]
    BY <2>2, <2>3 DEF BeginPosting, InsertEntry, CommitPosting
  <2> QED BY <2>1, <2>4
<1>4. ClosingTyped' BY <1>1, <1>3 DEF ClosingTyped
<1>5. ended' = ended BY <1>1 DEF dayVars
<1>6. LockedRan' /\ CallsRan'
  BY <1>1, <1>5 DEF LockedRan, CallsRan, DayRan
<1> QED BY <1>2, <1>4, <1>6

\* After a batch the scheduler may prepare the month that ended.
LEMMA EndBatchInvariant == ASSUME CInv, NEW a \in Actors, EndBatch(a) PROVE CInv'
<1>1. [DayStep]_dayVars /\ UNCHANGED <<period, posting, booked>>
  BY DEF EndBatch, DayStep, Next, SchedulerWorks, OfficerWorks, Actors
<1>2. CASE UNCHANGED desk BY <1>1, <1>2, DayInvariant DEF closeVars
<1>3. CASE ~UNCHANGED desk
  <2> DEFINE d == [Free EXCEPT !.doing = "PREPARE", !.month = job[a].day \div MonthLength]
  <2>1. Prepares(a) /\ desk' = [desk EXCEPT ![a] = d] BY <1>3 DEF EndBatch
  <2>2. a \in Closers BY <2>1 DEF Prepares, Closers
  <2>3. job[a].day \div MonthLength \in Months BY <2>1, MonthsAreNumbers DEF Prepares
  <2>4. d \in Desks /\ d.doing = "PREPARE" BY <2>3 DEF Free, Desks, Doings
  <2> HIDE DEF d
  <2> QED BY <1>1, <2>1, <2>2, <2>4, DeskInvariant
<1> QED BY <1>2, <1>3

\* A crash of the scheduler ends the preparation it was in.
LEMMA CrashInvariant == ASSUME CInv, NEW a \in Actors, Crash(a) PROVE CInv'
<1>1. [DayStep]_dayVars /\ UNCHANGED <<period, posting, booked>>
  BY DEF Crash, DayStep, Next
<1> DEFINE d == IF a = Scheduler THEN Free ELSE desk[Scheduler]
<1>2. Scheduler \in Closers BY DEF Closers
<1>3. d \in Desks BY <1>2, MonthsAreNumbers DEF Free, Desks, Doings, CInv, ClosingTyped
<1>4. d.doing \in {"LOCK", "ASK", "REOPEN"} => DayRan(d.month)
  BY <1>2 DEF Free, CInv, CallsRan
<1>5. desk' = [desk EXCEPT ![Scheduler] = d] BY DEF Crash
<1> HIDE DEF d
<1> QED BY <1>1, <1>2, <1>3, <1>4, <1>5, DeskInvariant

\* Every step of CloseNext is one of these, or a step of end of day.
LEMMA CloseNextInvariant == CInv /\ [CloseNext]_vars => CInv'
<1> SUFFICES ASSUME CInv, [CloseNext]_vars PROVE CInv' OBVIOUS
<1>1. CASE DayWork /\ UNCHANGED closeVars
  <2>1. DayStep
    BY <1>1 DEF DayWork, DayStep, Next, SchedulerWorks, OfficerWorks, Actors
  <2> QED BY <1>1, <2>1, DayInvariant
<1>2. ASSUME NEW a \in Actors, NEW l \in Loans, BatchLoan(a, l) PROVE CInv'
  <2>1. DayStep BY <1>2 DEF BatchLoan, DayStep, Next, SchedulerWorks, OfficerWorks, Actors
  <2> QED BY <1>2, <2>1, DayInvariant DEF BatchLoan
<1>3. ASSUME NEW a \in Actors, NEW l \in Loans, BatchLoanRefused(a, l) PROVE CInv'
  <2>1. DayStep BY <1>3 DEF BatchLoanRefused, DayStep
  <2> QED BY <1>3, <2>1, DayInvariant DEF BatchLoanRefused
<1>4. ASSUME NEW c \in Clerks, ClerkWork(c) PROVE CInv'
  BY <1>4, PrepareInvariant, CheckInvariant, WriteMonthInvariant DEF ClerkWork, Closers
<1>5. CASE UNCHANGED vars BY <1>5, Beside, DayInvariant DEF vars
<1> QED
  BY <1>1, <1>2, <1>3, <1>4, <1>5, EndBatchInvariant, CrashInvariant, PrepareInvariant,
     WriteMonthInvariant, PostingInvariant
  DEF CloseNext

\* prepareMonth, decideMonth, decideReopen: whatever calls, batches, failures and
\* crashes come between a check and the writing it allows, a month is locked only
\* when end of day had ended for its last day or later.
THEOREM MonthIsOver == CloseSpec => []LockedAfterEndOfDay
<1>1. CInv => LockedAfterEndOfDay
  <2> SUFFICES ASSUME CInv PROVE LockedAfterEndOfDay OBVIOUS
  <2>1. CloseTypeOK
    BY DEF CloseTypeOK, CInv, IInv, ClosingTyped, PeriodRows, Desks, Doings
  <2> QED BY <2>1 DEF LockedAfterEndOfDay, CInv, LockedRan, DayRan
<1> QED BY <1>1, CloseInitInvariant, CloseNextInvariant, PTL DEF CloseSpec

\* runBatch: a clean record means the whole book also where months are locked under
\* a batch and the lock refuses its loans.
THEOREM CleanBatchUnderLocks == CloseSpec => []CleanBatchIsWhole
<1>1. CInv => CleanBatchIsWhole BY DEF CInv, IInv
<1> QED BY <1>1, CloseInitInvariant, CloseNextInvariant, PTL DEF CloseSpec
==============================================================================
