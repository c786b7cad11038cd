----------------------------- MODULE Facilities -----------------------------
(***************************************************************************)
(* A facility (FacilitiesService): a limit agreed once and drawn on in     *)
(* parts, each requested, approved and released; statements, repayments,   *)
(* changes of the limit, suspension, expiry, and the term-out that turns   *)
(* what is drawn into an instalment loan.                                  *)
(*                                                                         *)
(* loadFacilityState reads the facility's row and only then locks the      *)
(* LoanAccount row, under which it reads the movements.  A session is such *)
(* a transaction: Look reads the row, and the rest, under the lock, is one *)
(* step.  What it read may be old by then; casFacility refuses to write    *)
(* over a row that changed, where it is called.                            *)
(*                                                                         *)
(* Money is principal: interest and fees are left out but for the interest *)
(* that a statement capitalizes.  Tranches, borrowing bases and the        *)
(* over-limit allowance are left out, and who may decide is the policy     *)
(* engine's.                                                               *)
(***************************************************************************)
EXTENDS Integers, FiniteSetsExt

CONSTANTS
  Sessions,    \* transactions under way at once
  Drawdowns,   \* numbers of drawdowns, 1 .. n
  Amounts,     \* that may be drawn or repaid
  Limits,      \* that may be agreed
  Reinstates,  \* limitReinstates: repaying restores the limit
  Capitals,    \* interest a statement may capitalize
  LastDay,     \* bound
  Backdate,    \* maxBackdateDays
  Until,       \* availabilityTo at first
  Renewal      \* days a renewal adds to it

Days == 1 .. LastDay

ASSUME FacilityAssumption ==
  /\ IsFiniteSet(Drawdowns) /\ Drawdowns = 1 .. Cardinality(Drawdowns)
  /\ Amounts \subseteq Nat /\ Limits \subseteq Nat /\ Capitals \subseteq Nat
  /\ Reinstates \in BOOLEAN
  /\ LastDay \in Nat \ {0}
  /\ Backdate \in Nat /\ Until \in Nat /\ Renewal \in Nat

VARIABLES
  day,        \* the business date
  facility,   \* Facility row
  drawdown,   \* Drawdown rows, by sequence
  change,     \* the FacilityLimitChange that is REQUESTED
  principal,  \* LoanAccount.principalOutstanding
  scheduled,  \* principal of the schedule made at term-out, less what was paid on it
  moved,      \* posted movements of the balance, by value date
  advanced,   \* of them drawdowns
  seen,       \* the facility row that each session has read
  current     \* sessions whose row has the version it had then

vars == <<day, facility, drawdown, change, principal, scheduled, moved, advanced, seen, current>>
Balances == <<principal, scheduled, moved, advanced>>

Nothing == [status |-> "NONE"]
NoDrawdown == [status |-> "NONE", amount |-> 0, date |-> 0]
NoChange == [limit |-> 0, renews |-> FALSE]

Awaiting(k) == drawdown[k].status \in {"REQUESTED", "APPROVED"}
DaysTo(d) == {x \in Days : x <= d}
Total(f, S) == MapThenSumSet(LAMBDA x : f[x], S)
SumTo(f, d) == Total(f, DaysTo(d))

\* facilityPosition: what counts against the limit, of the movements to a day.
Consumed(d) == IF Reinstates THEN SumTo(moved, d) ELSE SumTo(advanced, d)

\* assertDrawable on the row a session has read and the movements committed:
\* status, availability and checkDrawdown, as of the value date.
Drawable(row, n, d) ==
  /\ row.status \in {"PENDING", "ACTIVE"}
  /\ d <= row.until
  /\ Consumed(d) + n <= row.limit

ValueDates == {d \in Days : d <= day /\ day - d <= Backdate}

-----------------------------------------------------------------------------
(* Sessions. *)

Look(s) ==
  /\ seen[s] = Nothing
  /\ seen' = [seen EXCEPT ![s] = facility]
  /\ current' = current \cup {s}
  /\ UNCHANGED <<day, facility, drawdown, change, Balances>>

\* A refusal, or casFacility finding another version.
Abort(s) ==
  /\ seen[s] # Nothing
  /\ seen' = [seen EXCEPT ![s] = Nothing] /\ current' = current \ {s}
  /\ UNCHANGED <<day, facility, drawdown, change, Balances>>

\* The session commits, with the facility row as it is...
Keeps(s) ==
  /\ seen[s] # Nothing
  /\ seen' = [seen EXCEPT ![s] = Nothing] /\ current' = current \ {s}
  /\ UNCHANGED facility

\* A write that does not ask for the version.
WriteFacility(s, row) ==
  /\ seen[s] # Nothing
  /\ facility' = row
  /\ seen' = [seen EXCEPT ![s] = Nothing] /\ current' = {}

\* ...or with casFacility.
CasFacility(s, row) ==
  /\ seen[s] # Nothing /\ s \in current
  /\ facility' = row
  /\ seen' = [seen EXCEPT ![s] = Nothing] /\ current' = {}

NextDay ==
  /\ day < LastDay /\ day' = day + 1
  /\ UNCHANGED <<facility, drawdown, change, Balances, seen, current>>

-----------------------------------------------------------------------------
(* Drawdowns. *)

\* "One drawdown decision at a time, so two cannot be approved against one limit."
RequestDrawdown(s, n, d) ==
  /\ \A k \in Drawdowns : ~Awaiting(k)
  /\ Drawable(seen[s], n, d)
  /\ \E k \in Drawdowns :
       /\ {j \in Drawdowns : drawdown[j] # NoDrawdown} = 1 .. k - 1
       /\ drawdown' = [drawdown EXCEPT ![k] =
            [status |-> "REQUESTED", amount |-> n, date |-> d]]
  /\ CasFacility(s, facility)
  /\ UNCHANGED <<day, change, Balances>>

\* decideDrawdown: casDrawdown, and no casFacility.
ApproveDrawdown(s, k) ==
  /\ drawdown[k].status = "REQUESTED"
  /\ Drawable(seen[s], drawdown[k].amount, drawdown[k].date)
  /\ drawdown' = [drawdown EXCEPT ![k].status = "APPROVED"]
  /\ Keeps(s)
  /\ UNCHANGED <<day, change, Balances>>

RejectOrCancelDrawdown(s, k) ==
  /\ drawdown[k].status = "REQUESTED"
  /\ drawdown' = [drawdown EXCEPT ![k].status = "REJECTED"]   \* or CANCELLED
  /\ Keeps(s)
  /\ UNCHANGED <<day, change, Balances>>

\* "Final check on committed state: approval may be minutes or days old."
ReleaseDrawdown(s, k) ==
  LET n == drawdown[k].amount
      d == drawdown[k].date
  IN  /\ drawdown[k].status = "APPROVED"
      /\ Drawable(seen[s], n, d)
      /\ drawdown' = [drawdown EXCEPT ![k].status = "RELEASED"]
      /\ principal' = principal + n
      /\ moved' = [moved EXCEPT ![d] = @ + n]
      /\ advanced' = [advanced EXCEPT ![d] = @ + n]
      /\ CasFacility(s, [seen[s] EXCEPT !.drawn = @ + n, !.status = "ACTIVE"])
      /\ UNCHANGED <<day, change, scheduled>>

-----------------------------------------------------------------------------
(* Statements and repayments. *)

GenerateStatement(s, d, c) ==
  /\ seen[s] # Nothing /\ seen[s].stated < d /\ d <= day
  /\ IF principal > 0 /\ seen[s].status # "TERMED_OUT"
     THEN principal' = principal + c /\ moved' = [moved EXCEPT ![d] = @ + c]
     ELSE UNCHANGED <<principal, moved>>
  /\ CasFacility(s, [seen[s] EXCEPT !.stated = d])
  /\ UNCHANGED <<day, drawdown, change, scheduled, advanced>>

\* "Paying more than is owed is refused."
IsOwed(n) == n <= principal

\* Against the balances of the account, without casFacility.
PostRepayment(s, n, d) ==
  /\ seen[s] # Nothing /\ seen[s].status # "TERMED_OUT"
  /\ IsOwed(n)
  /\ principal' = principal - n
  /\ moved' = [moved EXCEPT ![d] = @ - n]
  /\ Keeps(s)
  /\ UNCHANGED <<day, drawdown, change, scheduled, advanced>>

\* ServicingService, on the schedule: how a facility is repaid after term-out.
RepayInstalments(n) ==
  /\ n <= scheduled /\ n <= principal
  /\ scheduled' = scheduled - n /\ principal' = principal - n
  /\ moved' = [moved EXCEPT ![day] = @ - n]
  /\ UNCHANGED <<day, facility, drawdown, change, advanced, seen, current>>

-----------------------------------------------------------------------------
(* The limit and the status. *)

RequestLimitChange(s, l, renews) ==
  /\ change = NoChange
  /\ Consumed(day) <= l
  /\ change' = [limit |-> l, renews |-> renews]
  /\ Keeps(s)
  /\ UNCHANGED <<day, drawdown, Balances>>

RejectLimitChange(s) ==
  /\ change # NoChange
  /\ change' = NoChange
  /\ Keeps(s)
  /\ UNCHANGED <<day, drawdown, Balances>>

\* What was drawn since the request is not looked at again.
ApproveLimitChange(s) ==
  /\ change # NoChange
  /\ change' = NoChange
  /\ \/ ~change.renews /\ CasFacility(s, [seen[s] EXCEPT !.limit = change.limit])
     \/ /\ change.renews /\ seen[s].status \in {"ACTIVE", "SUSPENDED", "EXPIRED"}
        /\ CasFacility(s, [seen[s] EXCEPT !.limit = change.limit,
             !.until = IF @ > LastDay THEN @ ELSE @ + Renewal,
             !.status = IF @ = "EXPIRED" THEN "ACTIVE" ELSE @])
  /\ UNCHANGED <<day, drawdown, Balances>>

Moves == {<<"PENDING", "SUSPENDED">>, <<"ACTIVE", "SUSPENDED">>, <<"SUSPENDED", "ACTIVE">>,
          <<"ACTIVE", "EXPIRED">>, <<"SUSPENDED", "EXPIRED">>}

ChangeStatus(s, to) ==
  /\ <<seen[s].status, to>> \in Moves
  /\ CasFacility(s, [seen[s] EXCEPT !.status = to])
  /\ UNCHANGED <<day, drawdown, change, Balances>>

TermOut(s) ==
  /\ seen[s].status \in {"ACTIVE", "EXPIRED"}
  /\ day >= seen[s].until /\ seen[s].stated = day
  /\ \A k \in Drawdowns : ~Awaiting(k)
  /\ SumTo(moved, seen[s].until) > 0 /\ principal > 0
  /\ scheduled' = principal
  /\ CasFacility(s, [seen[s] EXCEPT !.status = "TERMED_OUT"])
  /\ UNCHANGED <<day, drawdown, change, principal, moved, advanced>>

-----------------------------------------------------------------------------
Init ==
  /\ day = 1
  /\ \E l \in Limits : facility =
       [status |-> "PENDING", limit |-> l, drawn |-> 0, until |-> Until, stated |-> 0]
  /\ drawdown = [k \in Drawdowns |-> NoDrawdown]
  /\ change = NoChange
  /\ principal = 0 /\ scheduled = 0
  /\ moved = [d \in Days |-> 0] /\ advanced = [d \in Days |-> 0]
  /\ seen = [s \in Sessions |-> Nothing] /\ current = {}

Next ==
  \/ NextDay
  \/ \E n \in Amounts : RepayInstalments(n)
  \/ \E s \in Sessions :
       \/ Look(s) \/ Abort(s)
       \/ \E n \in Amounts, d \in ValueDates : RequestDrawdown(s, n, d) \/ PostRepayment(s, n, d)
       \/ \E k \in Drawdowns : \/ ApproveDrawdown(s, k) \/ RejectOrCancelDrawdown(s, k)
                               \/ ReleaseDrawdown(s, k)
       \/ \E d \in Days, c \in Capitals : GenerateStatement(s, d, c)
       \/ \E l \in Limits, renews \in BOOLEAN : RequestLimitChange(s, l, renews)
       \/ RejectLimitChange(s) \/ ApproveLimitChange(s)
       \/ \E to \in {"SUSPENDED", "ACTIVE", "EXPIRED"} : ChangeStatus(s, to)
       \/ TermOut(s)

Spec == Init /\ [][Next]_vars
-----------------------------------------------------------------------------
(* Properties. *)

TypeOK ==
  /\ day \in Days
  /\ facility \in [status : {"PENDING", "ACTIVE", "SUSPENDED", "EXPIRED", "TERMED_OUT"},
                   limit : Limits, drawn : Nat, until : Nat, stated : 0 .. LastDay]
  /\ drawdown \in [Drawdowns ->
       [status : {"NONE", "REQUESTED", "APPROVED", "REJECTED", "RELEASED"},
        amount : Amounts \cup {0}, date : 0 .. LastDay]]
  /\ change.limit \in Limits \cup {0} /\ change.renews \in BOOLEAN
  /\ principal \in Nat /\ scheduled \in Nat
  /\ moved \in [Days -> Int] /\ advanced \in [Days -> Nat]
  /\ current \subseteq {s \in Sessions : seen[s] # Nothing}

Released == [k \in Drawdowns |->
  IF drawdown[k].status = "RELEASED" THEN drawdown[k].amount ELSE 0]

\* What sessions do with rows read before the lock keeps three accounts of the
\* money drawn in agreement: the facility's total, the drawdowns released and the
\* movements posted; and the account's principal with all movements.
DrawnAgrees ==
  /\ facility.drawn = SumTo(advanced, LastDay)
  /\ facility.drawn = Total(Released, Drawdowns)
  /\ principal = SumTo(moved, LastDay)

\* releaseDrawdown: "Final check on committed state": money goes out only while the
\* facility as it stands lets it: not suspended, expired or termed out since the
\* session read it, nor past the limit that holds now.
ReleasedUnderLimit == [][\A k \in Drawdowns :
  drawdown[k].status = "APPROVED" /\ drawdown'[k].status = "RELEASED" =>
    /\ facility.status \in {"PENDING", "ACTIVE"}
    /\ Consumed(drawdown[k].date)' <= facility.limit]_vars

\* termOut: "Settle the outstanding drawdown requests before terming out": none is
\* left open, or made afterwards by a session that read the row before.
NothingOpenAfterTermOut ==
  facility.status = "TERMED_OUT" => \A k \in Drawdowns : ~Awaiting(k)

\* What sessions that race leave of a line.
LineAgrees == TypeOK /\ DrawnAgrees /\ NothingOpenAfterTermOut

\* requestLimitChange: "A limit cannot be cut below money already advanced and
\* outstanding."
LimitCoversDrawn == Consumed(day) <= facility.limit

\* After term-out the schedule asks for what is owed.
ScheduleIsPrincipal == facility.status = "TERMED_OUT" => scheduled = principal

\* An approved drawdown can be released, or be withdrawn some way.
ApprovedIsSettled == \A k \in Drawdowns :
  (drawdown[k].status = "APPROVED") ~> (drawdown[k].status # "APPROVED")
=============================================================================
