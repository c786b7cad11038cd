------------------------------ MODULE AutoDebit ------------------------------
(***************************************************************************)
(* Direct debits under a mandate (PaymentChannelsService.collectDue): at   *)
(* the start of end of day, a batch plans what to collect, records an      *)
(* attempt, asks the bank outside any transaction, and writes how it went. *)
(* Batches of one day or of several may overlap, and die anywhere.  Of     *)
(* loans there is one, whose instalments ask for 1 each and are paid in    *)
(* order; what it has on advance counts as paid.                           *)
(***************************************************************************)
EXTENDS Integers, FiniteSets

CONSTANTS
  Mandates,    \* numbered in the order they are set up
  DueDates,    \* days an instalment falls due
  LastDay,     \* bound
  MaxAttempts, \* autoDebitMaxAttempts
  RetryDays,   \* autoDebitRetryDays
  Batches,     \* batches under way at once
  MaxTroubles  \* bound: batches that die, answers that are lost

VARIABLES
  day,       \* the business date
  mandate,   \* DirectDebitMandate.status
  attempt,   \* AutoDebitAttempt rows, by mandate, due date and number
  paid,      \* instalments paid
  batch,     \* what each batch is doing
  asked,     \* history: the times the bank was asked for an attempt
  debited,   \* history: attempts the bank took the money of
  lost,      \* history: attempts whose answer did not come
  late,      \* history: attempts the bank was asked for without a mandate
  troubles

vars == <<day, mandate, attempt, paid, batch, asked, debited, lost, late, troubles>>

Attempts == Mandates \X DueDates \X (1 .. MaxAttempts)
Never == LastDay + RetryDays + 1   \* no nextRetryDate

NoAttempt == [status |-> "NONE", amount |-> 0, day |-> 0, retry |-> Never]
Exists(a) == attempt[a].status # "NONE"

\* PLANNED: to be recorded.  ASK: recorded.  REFUSED, COLLECTED: answered.
\* HOLD: the loan refused the money.
Idle == [pc |-> "IDLE", day |-> 0, at |-> <<0, 0, 0>>]
At(b, pc) == batch[b].pc = pc
Proceeds(b, pc) == batch' = [batch EXCEPT ![b].pc = pc]
Ends(b) == batch' = [batch EXCEPT ![b] = Idle]

Unpaid(d) == {k \in DueDates : k <= d /\ Cardinality({j \in DueDates : j <= k}) > paid}

\* amountToCollect
AmountDue(d) == Cardinality(Unpaid(d))

Trouble == troubles < MaxTroubles /\ troubles' = troubles + 1
History == <<asked, debited, lost, late>>

-----------------------------------------------------------------------------
(* Around the batch. *)

NextDay ==
  /\ day < LastDay /\ day' = day + 1
  /\ UNCHANGED <<mandate, attempt, paid, batch, History, troubles>>

\* A payment made otherwise.
Pay ==
  /\ paid < Cardinality(DueDates) /\ paid' = paid + 1
  /\ UNCHANGED <<day, mandate, attempt, batch, History, troubles>>

CreateMandate(m) ==
  /\ mandate[m] = "NONE" /\ \A k \in Mandates : mandate[k] # "ACTIVE"
  /\ \A k \in Mandates : k < m => mandate[k] # "NONE"
  /\ mandate' = [mandate EXCEPT ![m] = "ACTIVE"]
  /\ UNCHANGED <<day, attempt, paid, batch, History, troubles>>

RevokeMandate(m) ==
  /\ mandate[m] = "ACTIVE"
  /\ mandate' = [mandate EXCEPT ![m] = "REVOKED"]
  /\ attempt' = [a \in Attempts |->
       IF a[1] = m /\ attempt[a].status = "FAILED"
       THEN [attempt[a] EXCEPT !.retry = Never] ELSE attempt[a]]
  /\ UNCHANGED <<day, paid, batch, History, troubles>>

-----------------------------------------------------------------------------
(* The batch. *)

\* Failed attempts whose retry has come, the latest of them first.
Retries(m) == {a \in Attempts :
  a[1] = m /\ attempt[a].status = "FAILED" /\ attempt[a].retry <= day}
Latest(S) == CHOOSE a \in S : \A c \in S : c[2] < a[2] \/ (c[2] = a[2] /\ c[3] <= a[3])

Planned(b, a) == batch' = [batch EXCEPT ![b] = [pc |-> "PLANNED", day |-> day, at |-> a]]

\* "A batch re-run on the same day does not debit twice": an instalment due
\* today is left to the attempts there are.
Plan(b) ==
  /\ At(b, "IDLE")
  /\ \E m \in Mandates :
       /\ mandate[m] = "ACTIVE"
       /\ \/ /\ Retries(m) # {}
             /\ LET a == Latest(Retries(m))
                IN  Planned(b, [a EXCEPT ![3] = @ + 1])
          \/ /\ Retries(m) = {}
             /\ day \in Unpaid(day) /\ \A n \in 1 .. MaxAttempts : ~Exists(<<m, day, n>>)
             /\ Planned(b, <<m, day, 1>>)
  /\ UNCHANGED <<day, mandate, attempt, paid, History, troubles>>

WithRetry(a) == attempt

\* The rows once the attempt before a is not to be retried any more.
Without(a) == IF a[3] = 1 THEN attempt ELSE [attempt EXCEPT ![<<a[1], a[2], a[3] - 1>>].retry = Never]

\* The unique key of mandate, due date and number lets one batch record it.
Free(a) == ~Exists(a)

Record(b) ==
  LET a == batch[b].at
      amount == AmountDue(batch[b].day)
  IN  /\ At(b, "PLANNED")
      /\ \/ /\ amount = 0   \* paid otherwise since
            /\ attempt' = Without(a) /\ Ends(b)
         \/ /\ amount > 0 /\ Free(a)
            /\ attempt' = [Without(a) EXCEPT ![a] =
                 [status |-> "PENDING", amount |-> amount, day |-> batch[b].day, retry |-> Never]]
            /\ Proceeds(b, "ASK")
         \/ /\ amount > 0 /\ ~Free(a)
            /\ Ends(b) /\ UNCHANGED attempt
      /\ UNCHANGED <<day, mandate, paid, History, troubles>>

\* The bank takes the money or refuses.  "The bank sees the attempt id and
\* refuses a repeat."
Ask(b) ==
  LET a == batch[b].at
  IN  /\ At(b, "ASK")
      /\ asked' = [asked EXCEPT ![a] = IF @ < 2 THEN @ + 1 ELSE @]
      /\ late' = IF mandate[a[1]] = "ACTIVE" THEN late ELSE late \cup {a}
      /\ \/ a \notin debited /\ debited' = debited \cup {a} /\ Proceeds(b, "COLLECTED")
         \/ UNCHANGED debited /\ Proceeds(b, "REFUSED")
      /\ UNCHANGED <<day, mandate, attempt, paid, lost, troubles>>

\* The call throws after the bank took the money: the same as a refusal.
LoseAnswer(b) ==
  LET a == batch[b].at
  IN  /\ At(b, "ASK") /\ Trouble
      /\ asked' = [asked EXCEPT ![a] = IF @ < 2 THEN @ + 1 ELSE @]
      /\ debited' = debited \cup {a} /\ lost' = lost \cup {a}
      /\ Proceeds(b, "REFUSED")
      /\ UNCHANGED <<day, mandate, attempt, paid, late>>

\* nextDebitAttempt: after the interval, or never where the failure is final
\* or the attempts are used up.
NextRetry(a, d, final) == IF final \/ a[3] >= MaxAttempts THEN Never ELSE d + RetryDays

WriteRefused(b) ==
  LET a == batch[b].at
  IN  /\ At(b, "REFUSED")
      /\ \E final \in BOOLEAN :
           attempt' = IF attempt[a].status # "PENDING" THEN attempt
                      ELSE [attempt EXCEPT ![a].status = "FAILED",
                                           ![a].retry = NextRetry(a, batch[b].day, final)]
      /\ Ends(b)
      /\ UNCHANGED <<day, mandate, paid, History, troubles>>

Marked(a, status) == IF attempt[a].status # "PENDING" THEN attempt
                     ELSE [attempt EXCEPT ![a].status = status]

\* The ordinary repayment, in one transaction with the attempt.
Apply(b) ==
  LET a == batch[b].at
  IN  /\ At(b, "COLLECTED") /\ paid + attempt[a].amount <= Cardinality(DueDates)
      /\ paid' = paid + attempt[a].amount
      /\ attempt' = Marked(a, "SUCCEEDED")
      /\ Ends(b)
      /\ UNCHANGED <<day, mandate, History, troubles>>

\* The loan refuses: closed, or changed.
LoanRefuses(b) ==
  /\ At(b, "COLLECTED") /\ Proceeds(b, "HOLD")
  /\ UNCHANGED <<day, mandate, attempt, paid, History, troubles>>

Hold(b) ==
  /\ At(b, "HOLD")
  /\ attempt' = Marked(batch[b].at, "SUSPENSE")
  /\ Ends(b)
  /\ UNCHANGED <<day, mandate, paid, History, troubles>>

\* The server dies, or the database fails: nobody takes the attempt up again.
Die(b) ==
  /\ ~At(b, "IDLE") /\ Trouble
  /\ Ends(b)
  /\ UNCHANGED <<day, mandate, attempt, paid, History>>

-----------------------------------------------------------------------------
Init ==
  /\ day = 1
  /\ mandate = [m \in Mandates |-> "NONE"]
  /\ attempt = [a \in Attempts |-> NoAttempt]
  /\ paid = 0
  /\ batch = [b \in Batches |-> Idle]
  /\ asked = [a \in Attempts |-> 0]
  /\ debited = {} /\ lost = {} /\ late = {}
  /\ troubles = 0

Next ==
  \/ NextDay \/ Pay
  \/ \E m \in Mandates : CreateMandate(m) \/ RevokeMandate(m)
  \/ \E b \in Batches :
       \/ Plan(b) \/ Record(b) \/ Ask(b) \/ LoseAnswer(b) \/ WriteRefused(b)
       \/ Apply(b) \/ LoanRefuses(b) \/ Hold(b) \/ Die(b)

Spec == Init /\ [][Next]_vars
-----------------------------------------------------------------------------
(* Properties. *)

TypeOK ==
  /\ day \in 1 .. LastDay
  /\ mandate \in [Mandates -> {"NONE", "ACTIVE", "REVOKED"}]
  /\ attempt \in [Attempts ->
       [status : {"NONE", "PENDING", "FAILED", "SUCCEEDED", "SUSPENSE"},
        amount : 0 .. Cardinality(DueDates), day : 0 .. LastDay, retry : 1 .. Never]]
  /\ paid \in 0 .. Cardinality(DueDates)
  /\ \A b \in Batches : batch[b].at \in Attempts \cup {Idle.at}
  /\ debited \subseteq Attempts /\ lost \subseteq Attempts /\ late \subseteq Attempts
  /\ troubles \in 0 .. MaxTroubles

\* The tries of a due date come one after another, however batches overlap, die
\* and are run again: each is made once, after the one before it failed, which is
\* then not retried again.
TriesInTurn == \A a \in Attempts :
  /\ asked[a] <= 1
  /\ Exists(a) /\ a[3] > 1 =>
       LET before == attempt[<<a[1], a[2], a[3] - 1>>]
       IN  before.status = "FAILED" /\ before.retry = Never

\* collectDue: "a crash between the two leaves a PENDING attempt to chase rather
\* than an untraceable debit": unless the bank's answer was lost, what it took is
\* with an attempt that is pending, posted or in suspense.
DebitsAreTraced == \A a \in debited \ lost :
  attempt[a].status \in {"PENDING", "SUCCEEDED", "SUSPENSE"}

\* What batches that overlap, die and are run again leave of the debits.
DebitsInTurn == TypeOK /\ TriesInTurn /\ DebitsAreTraced

\* "A batch re-run on the same day does not debit twice."
DebitedOnceADay == \A a, c \in debited :
  a[1] = c[1] /\ attempt[a].day = attempt[c].day => a = c

\* revokeMandate: "A revoked mandate is never retried."
NeverWithoutMandate == \A a \in late : a[3] = 1
=============================================================================
