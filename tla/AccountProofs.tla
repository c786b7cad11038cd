---------------------------- MODULE AccountProofs ----------------------------
(***************************************************************************)
(* The service about one loan.  Under either contract a settled or         *)
(* written-off loan stays so, whatever amounts its events carry.  And for  *)
(* any keys, calls, requests and loans, what a transaction of money        *)
(* checked still holds when it commits, and MoneyOperation implements      *)
(* AtMostOnce: a row has one writer, a key has one uncommitted event.      *)
(***************************************************************************)
EXTENDS MCContracts, TLAPS

-----------------------------------------------------------------------------
(* A settled or written-off loan stays so, whatever its contract: the event  *)
(* that ended it is the last of its journal, and the loan is no longer       *)
(* active.  No handler that needs an active loan runs, and no event before   *)
(* the last can be reversed: "reverse later repayments first".               *)

\* The events that end a loan.
Endings == {"SETTLEMENT", "WRITE_OFF"}

\* The books of a loan, and an event of its journal, whatever amounts they hold.
IsBooks(l) == \E V, G :
  l \in [status : {"ACTIVE", "CLOSED", "WRITTEN_OFF"}, nonAccrual : BOOLEAN,
         row : [L!Balances -> V], gl : G]

IsEvent(e) == \E V :
  e \in [type : {"REPAYMENT", "ADVANCE_APPLIED"} \cup Endings, pay : V,
         prepaid : V, charge : V, advanced : V, released : V, version : V, undo : V,
         allocations : V, first : Nat, posted : BOOLEAN]

\* An event begins its transaction or follows the event that did.
EventsStand ==
  /\ \E S : events \in Seq(S)
  /\ \A k \in 1 .. Len(events) : IsEvent(events[k]) /\ events[k].first <= k

\* An event that ended the loan is the last, is a transaction of its own, stands,
\* and the loan is not active.
EndingIsLast ==
  \A k \in 1 .. Len(events) : events[k].type \in Endings =>
    /\ led.status # "ACTIVE"
    /\ k = Len(events) /\ events[k].first = k /\ events[k].posted

\* Nothing is held for the borrower of a loan written off.
NothingHeld == led.status = "WRITTEN_OFF" => led.row.advance = 0

FinalInv == /\ IsBooks(led) /\ refundTask \in Nat
            /\ EventsStand /\ EndingIsLast /\ NothingHeld

\* What FinalStaysFinal says of a step.
KeepsFinal == (\E k \in DOMAIN events : events[k].type \in Endings)
                => led'.status = led.status

\* The positions of a journal are the numbers up to its length.
LEMMA Positions ==
  ASSUME NEW s, \E S : s \in Seq(S)
  PROVE  Len(s) \in Nat /\ DOMAIN s = 1 .. Len(s)
OBVIOUS

\* A transaction on an active loan that adds events: they begin behind the others,
\* and one that ends the loan comes alone.
Adds ==
  /\ Active /\ IsBooks(led') /\ NothingHeld' /\ refundTask' \in Nat
  /\ \E S : events' \in Seq(S)
  /\ Len(events') >= Len(events)
  /\ \A k \in 1 .. Len(events) : events'[k] = events[k]
  /\ \A k \in Len(events) + 1 .. Len(events') :
       /\ IsEvent(events'[k]) /\ events'[k].first = Len(events) + 1
       /\ events'[k].type \in Endings =>
            /\ led'.status # "ACTIVE"
            /\ Len(events') = Len(events) + 1 /\ events'[k].posted

\* No ending was recorded before it, so the one it may record is the last.
LEMMA AddsKeeps ==
  ASSUME FinalInv, Adds
  PROVE  FinalInv' /\ KeepsFinal
<1>1. Len(events) \in Nat /\ DOMAIN events = 1 .. Len(events)
  BY Positions DEF FinalInv, EventsStand
<1>2. Len(events') \in Nat BY Positions DEF Adds
<1>3. \A k \in 1 .. Len(events) : events[k].type \notin Endings
  BY DEF FinalInv, EndingIsLast, Adds, Active
<1>4. EventsStand'
  <2>1. \A k \in 1 .. Len(events') :
          k \in 1 .. Len(events) \/ k \in Len(events) + 1 .. Len(events')
    BY <1>1, <1>2
  <2>2. \A k \in 1 .. Len(events') : IsEvent(events'[k]) /\ events'[k].first <= k
    BY <1>1, <1>2, <2>1 DEF FinalInv, EventsStand, Adds
  <2> QED BY <2>2 DEF EventsStand, Adds
<1>5. EndingIsLast'
  BY <1>1, <1>2, <1>3 DEF EndingIsLast, Adds
<1>6. KeepsFinal BY <1>1, <1>3 DEF KeepsFinal
<1> QED BY <1>4, <1>5, <1>6 DEF FinalInv, Adds

\* A reversal of an event that is no ending and that nothing follows.
Undoes(k) ==
  /\ k \in DOMAIN events /\ events[k].type \notin Endings
  /\ \A j \in DOMAIN events : j > k /\ events[j].posted => events[j].first = events[k].first
  /\ events' = [events EXCEPT ![k].posted = FALSE]
  /\ IsBooks(led') /\ led'.status = "ACTIVE" /\ refundTask' \in Nat

\* Had an ending been recorded it would follow that event, in a transaction of its
\* own.
LEMMA UndoesKeeps ==
  ASSUME FinalInv, NEW k, Undoes(k)
  PROVE  FinalInv' /\ KeepsFinal
<1>1. Len(events) \in Nat /\ DOMAIN events = 1 .. Len(events)
  BY Positions DEF FinalInv, EventsStand
<1>2. k \in 1 .. Len(events) BY <1>1 DEF Undoes
<1>3. \A j \in 1 .. Len(events) : events[j].type \notin Endings
  <2> SUFFICES ASSUME NEW j \in 1 .. Len(events), events[j].type \in Endings
               PROVE  FALSE
    OBVIOUS
  <2>1. j = Len(events) /\ events[j].first = j /\ events[j].posted
    BY DEF FinalInv, EndingIsLast
  <2>2. j > k BY <1>1, <1>2, <2>1 DEF Undoes
  <2>3. events[k].first = j BY <1>1, <2>1, <2>2 DEF Undoes
  <2>4. events[k].first <= k BY <1>2 DEF FinalInv, EventsStand
  <2> QED BY <1>2, <2>2, <2>3, <2>4
<1> DEFINE e == [events[k] EXCEPT !.posted = FALSE]
<1>4. IsEvent(e) /\ e.type = events[k].type /\ e.first = events[k].first
  <2>1. IsEvent(events[k]) BY <1>2 DEF FinalInv, EventsStand
  <2>2. PICK V : events[k] \in [type : {"REPAYMENT", "ADVANCE_APPLIED"} \cup Endings,
                  pay : V, prepaid : V, charge : V, advanced : V, released : V, version : V,
                  undo : V, allocations : V, first : Nat, posted : BOOLEAN]
    BY <2>1 DEF IsEvent
  <2> QED BY <2>2 DEF IsEvent
<1> HIDE DEF e
<1>5. events' = [events EXCEPT ![k] = e] BY DEF Undoes, e
<1>6. (\E S : events' \in Seq(S)) /\ Len(events') = Len(events)
  <2>1. PICK S : events \in Seq(S) BY DEF FinalInv, EventsStand
  <2>2. events' \in Seq(S \cup {e}) /\ Len(events') = Len(events)
    BY <1>2, <1>5, <2>1
  <2> QED BY <2>2
<1>7. \A j \in 1 .. Len(events) : events'[j] = IF j = k THEN e ELSE events[j]
  BY <1>1, <1>5
<1>8. EventsStand' BY <1>4, <1>6, <1>7, <1>2 DEF FinalInv, EventsStand
<1>9. EndingIsLast' BY <1>3, <1>4, <1>6, <1>7, <1>2 DEF EndingIsLast
<1>10. KeepsFinal BY <1>1, <1>3 DEF KeepsFinal
<1>11. NothingHeld' BY DEF NothingHeld, Undoes
<1> QED BY <1>8, <1>9, <1>10, <1>11 DEF FinalInv, Undoes

\* A step that records nothing, and may close a loan that was not written off.
Rests ==
  /\ UNCHANGED events /\ IsBooks(led') /\ NothingHeld' /\ refundTask' \in Nat
  /\ led'.status # led.status => led.status = "ACTIVE"

\* A loan with an ending is not active, so its status stays.
LEMMA RestsKeeps ==
  ASSUME FinalInv, Rests
  PROVE  FinalInv' /\ KeepsFinal
<1>1. Len(events) \in Nat /\ DOMAIN events = 1 .. Len(events)
  BY Positions DEF FinalInv, EventsStand
<1>2. EventsStand' BY DEF FinalInv, EventsStand, Rests
<1>3. EndingIsLast' BY DEF FinalInv, EndingIsLast, Rests
<1>4. KeepsFinal BY <1>1 DEF FinalInv, EndingIsLast, KeepsFinal, Rests
<1> QED BY <1>2, <1>3, <1>4 DEF FinalInv, Rests
-----------------------------------------------------------------------------
(* What the operations of LoanLedger do to the status of the books. *)

\* m are books of the status of l.
Stays(l, m) == IsBooks(m) /\ m.status = l.status

\* A posting moves balances and nothing else.
LEMMA BookedStays ==
  ASSUME NEW l, IsBooks(l), NEW c, NEW j
  PROVE  /\ Stays(l, L!Booked(l, c, j))
         /\ L!Booked(l, c, j).row.advance = l.row.advance + L!At(c, "advance")
<1> DEFINE r == L!Plus(l.row, c)
           g == L!Plus(l.gl, j)
<1>1. PICK V, G : l \in [status : {"ACTIVE", "CLOSED", "WRITTEN_OFF"}, nonAccrual : BOOLEAN,
                         row : [L!Balances -> V], gl : G]
  BY DEF IsBooks
<1>2. /\ r \in [L!Balances -> {r[b] : b \in L!Balances}]
      /\ r["advance"] = l.row["advance"] + L!At(c, "advance")
  BY <1>1 DEF L!Plus, L!Balances
<1>3. L!Booked(l, c, j) = [l EXCEPT !.row = r, !.gl = g] BY DEF L!Booked
<1> HIDE DEF r, g
<1>4. /\ [l EXCEPT !.row = r, !.gl = g] \in
           [status : {"ACTIVE", "CLOSED", "WRITTEN_OFF"}, nonAccrual : BOOLEAN,
            row : [L!Balances -> {r[b] : b \in L!Balances}], gl : {g}]
      /\ [l EXCEPT !.row = r, !.gl = g].status = l.status
      /\ [l EXCEPT !.row = r, !.gl = g].row = r
  BY <1>1, <1>2
<1> QED BY <1>2, <1>3, <1>4 DEF Stays, IsBooks

\* The status and the mark of non-accrual may be set beside a posting.
LEMMA MarkedStays ==
  ASSUME NEW l, IsBooks(l), NEW b \in BOOLEAN
  PROVE  /\ Stays(l, [l EXCEPT !.nonAccrual = b])
         /\ [l EXCEPT !.nonAccrual = b].row = l.row
<1>1. PICK V, G : l \in [status : {"ACTIVE", "CLOSED", "WRITTEN_OFF"}, nonAccrual : BOOLEAN,
                         row : [L!Balances -> V], gl : G]
  BY DEF IsBooks
<1> QED BY <1>1 DEF Stays, IsBooks

\* Setting the status leaves the balances alone.
LEMMA StatusIsSet ==
  ASSUME NEW l, IsBooks(l), NEW s \in {"ACTIVE", "CLOSED", "WRITTEN_OFF"}
  PROVE  /\ IsBooks([l EXCEPT !.status = s]) /\ [l EXCEPT !.status = s].status = s
         /\ [l EXCEPT !.status = s].row = l.row
<1>1. PICK V, G : l \in [status : {"ACTIVE", "CLOSED", "WRITTEN_OFF"}, nonAccrual : BOOLEAN,
                         row : [L!Balances -> V], gl : G]
  BY DEF IsBooks
<1> QED BY <1>1 DEF IsBooks

\* What every repayment and every end of day begins with.
LEMMA PreparedStays ==
  ASSUME NEW l, IsBooks(l), NEW p
  PROVE  /\ Stays(l, L!Accrued(l, p.accrual))
         /\ Stays(l, L!CaughtUp(l, p))
         /\ Stays(l, L!Prepared(l, p))
<1>1. Stays(l, L!Accrued(l, p.accrual)) BY BookedStays DEF L!Accrued
<1>2. Stays(l, L!CaughtUp(l, p))
  BY <1>1, BookedStays DEF L!CaughtUp, L!Capitalized, Stays
<1>3. Stays(l, L!Prepared(l, p))
  BY <1>2, BookedStays DEF L!Prepared, L!AdvanceApplied, L!Collected, Stays
<1> QED BY <1>1, <1>2, <1>3

\* A repayment and the allowance of a classification.
LEMMA PostedStays ==
  ASSUME NEW l, IsBooks(l), NEW pay, NEW a, NEW b, NEW c
  PROVE  /\ Stays(l, L!Repaid(l, pay, a, b, c))
         /\ Stays(l, L!Provisioned(l, a))
         /\ Stays(l, L!AllowanceReleased(l))
         /\ Stays(l, L!Refunded(l, a))
         /\ Stays(l, L!ReturnFeeCharged(l, a))
<1>1. Stays(l, L!Repaid(l, pay, a, b, c))
  BY BookedStays DEF L!Repaid, L!Collected, Stays
<1> QED BY <1>1, BookedStays DEF L!Provisioned, L!AllowanceReleased, L!Refunded,
             L!ReturnFeeCharged

\* Entering and curing non-accrual.
LEMMA MovedStays ==
  ASSUME NEW l, IsBooks(l)
  PROVE  Stays(l, L!EnteredNonAccrual(l)) /\ Stays(l, L!Cured(l))
<1>1. \A c, j, b : b \in BOOLEAN => Stays(l, [L!Booked(l, c, j) EXCEPT !.nonAccrual = b])
  BY BookedStays, MarkedStays DEF Stays
<1>2. Stays(l, L!EnteredNonAccrual(l)) BY <1>1 DEF L!EnteredNonAccrual
<1>3. Stays(l, L!Cured(l)) BY <1>1 DEF L!Cured
<1> QED BY <1>2, <1>3

\* A loan is closed and nothing else.
LEMMA CloseCloses ==
  ASSUME NEW l, IsBooks(l)
  PROVE  IsBooks(L!Closed(l)) /\ L!Closed(l).status = "CLOSED"
<1>1. PICK V, G : l \in [status : {"ACTIVE", "CLOSED", "WRITTEN_OFF"}, nonAccrual : BOOLEAN,
                         row : [L!Balances -> V], gl : G]
  BY DEF IsBooks
<1> QED BY <1>1 DEF IsBooks, L!Closed

\* closeIfRepaid closes a loan or leaves it.
LEMMA ClosesOrStays ==
  ASSUME NEW l, IsBooks(l), NEW open
  PROVE  LET m == L!ClosedIfRepaid(l, open)
         IN  IsBooks(m) /\ m.status \in {l.status, "CLOSED"}
BY PostedStays, CloseCloses DEF L!ClosedIfRepaid, Stays

\* A settlement, for all or for less, closes it.
LEMMA SettledCloses ==
  ASSUME NEW l, IsBooks(l), NEW a, NEW b
  PROVE  /\ IsBooks(L!Settled(l, a, b)) /\ L!Settled(l, a, b).status = "CLOSED"
         /\ IsBooks(L!SettledForLess(l, a, b)) /\ L!SettledForLess(l, a, b).status = "CLOSED"
<1>1. \A c, j : Stays(l, L!Emptied(l, c, j)) BY BookedStays DEF L!Emptied
<1>2. \A c, j : Stays(l, L!AllowanceReleased(L!Emptied(l, c, j)))
  BY <1>1, PostedStays DEF Stays
<1> QED BY <1>2, CloseCloses DEF L!Settled, L!SettledForLess, Stays

\* A write-off moves no money held for the borrower.
LEMMA WrittenOffHolds ==
  ASSUME NEW l, IsBooks(l), l.row.advance = 0
  PROVE  /\ IsBooks(L!WrittenOff(l)) /\ L!WrittenOff(l).status = "WRITTEN_OFF"
         /\ L!WrittenOff(l).row.advance = 0
<1>1. \A m, c, j : IsBooks(m) /\ m.row.advance = 0 /\ L!At(c, "advance") = 0
        => IsBooks(L!Booked(m, c, j)) /\ L!Booked(m, c, j).row.advance = 0
  BY BookedStays DEF Stays
<1>2. \A m : IsBooks(m) /\ m.row.advance = 0 =>
        /\ IsBooks(L!AllowanceReleased(m)) /\ L!AllowanceReleased(m).row.advance = 0
        /\ \A j : IsBooks(L!Emptied(m, 0, j)) /\ L!Emptied(m, 0, j).row.advance = 0
  BY <1>1 DEF L!AllowanceReleased, L!Emptied, L!At
<1> DEFINE used == L!Lesser(l.row.allowance, L!Outstanding(l))
           covered == L!Booked(l, [allowance |-> 0 - used],
                               [loanLossAllowance |-> used, writeOffExpense |-> 0 - used])
           emptied == L!AllowanceReleased(L!Emptied(covered, 0,
                        [writeOffExpense |-> L!Outstanding(l) - l.row.suspended,
                         interestSuspense |-> l.row.suspended]))
<1>3. IsBooks(covered) /\ covered.row.advance = 0 BY <1>1 DEF L!At
<1>4. IsBooks(emptied) /\ emptied.row.advance = 0
  <2> HIDE DEF covered
  <2> QED BY <1>2, <1>3
<1>5. L!WrittenOff(l) = [emptied EXCEPT !.status = "WRITTEN_OFF"] BY DEF L!WrittenOff
<1> HIDE DEF emptied
<1> QED BY <1>4, <1>5, StatusIsSet

\* A recovery moves no money held for the borrower.
LEMMA RecoveredHolds ==
  ASSUME NEW l, IsBooks(l), l.row.advance = 0, NEW a
  PROVE  Stays(l, L!Recovered(l, a)) /\ L!Recovered(l, a).row.advance = 0
BY BookedStays DEF L!Recovered, L!At

\* A reversal makes the loan active.
LEMMA ReversedActive ==
  ASSUME NEW l, IsBooks(l), NEW e, NEW fee
  PROVE  LET m == L!ReturnFeeCharged(L!Reversed(l, e), fee)
         IN  IsBooks(m) /\ m.status = "ACTIVE"
<1>1. IsBooks(L!Reversed(l, e)) /\ L!Reversed(l, e).status = "ACTIVE"
  <2>1. \A c, j : LET m == [L!Booked(l, c, j) EXCEPT !.status = "ACTIVE"]
                  IN  IsBooks(m) /\ m.status = "ACTIVE"
    BY BookedStays, StatusIsSet DEF Stays
  <2> QED BY <2>1 DEF L!Reversed
<1> QED BY <1>1, PostedStays DEF Stays
-----------------------------------------------------------------------------
(* The steps of a contract. *)

\* The types of events and the places they may begin.
Types == {"REPAYMENT", "ADVANCE_APPLIED"} \cup Endings

\* A new event of a type that is one, at a place that is one.
IsNew(e, type, first) == IsEvent(e) /\ e.type = type /\ e.first = first /\ e.posted

\* An event with the rest of a repayment filled in is that event.
LEMMA FilledIn ==
  ASSUME NEW e, NEW type, NEW first, IsNew(e, type, first), NEW a, NEW b, NEW c, NEW u
  PROVE  IsNew([e EXCEPT !.prepaid = a, !.charge = b, !.advanced = c, !.undo = u],
               type, first)
<1>1. PICK V : e \in [type : Types, pay : V, prepaid : V, charge : V, advanced : V,
                      released : V, version : V, undo : V, allocations : V,
                      first : Nat, posted : BOOLEAN]
  BY DEF IsNew, IsEvent, Types
<1> DEFINE W == V \cup {a, b, c, u}
           f == [e EXCEPT !.prepaid = a, !.charge = b, !.advanced = c, !.undo = u]
<1>2. f \in [type : Types, pay : W, prepaid : W, charge : W, advanced : W,
             released : W, version : W, undo : W, allocations : W,
             first : Nat, posted : BOOLEAN]
  BY <1>1
<1>3. f.type = e.type /\ f.first = e.first /\ f.posted = e.posted BY <1>1
<1> HIDE DEF f, W
<1>4. IsEvent(f) BY <1>2 DEF IsEvent, Types
<1>5. IsNew(f, type, first) BY <1>3, <1>4 DEF IsNew
<1> QED BY <1>5 DEF f

\* Events that do not end the loan, added to an active loan.
LEMMA AddsTwo ==
  ASSUME FinalInv, Active, NEW A, NEW R,
         A = <<>> \/ \E e : A = <<e>> /\ IsNew(e, "ADVANCE_APPLIED", Len(events) + 1),
         R = <<>> \/ \E e : R = <<e>> /\ IsNew(e, "REPAYMENT", Len(events) + 1),
         events' = events \o A \o R,
         IsBooks(led'), led'.status \in {"ACTIVE", "CLOSED"}, refundTask' = refundTask
  PROVE  Adds
<1>1. PICK S : events \in Seq(S) BY DEF FinalInv, EventsStand
<1>2. Len(events) \in Nat BY <1>1
<1>3. PICK a : A = <<>> \/ (A = <<a>> /\ IsNew(a, "ADVANCE_APPLIED", Len(events) + 1))
  OBVIOUS
<1>4. PICK r : R = <<>> \/ (R = <<r>> /\ IsNew(r, "REPAYMENT", Len(events) + 1)) OBVIOUS
<1>5. A \in Seq({a, r}) /\ R \in Seq({a, r})
  <2>1. <<>> \in Seq({a, r}) /\ <<a>> \in Seq({a, r}) /\ <<r>> \in Seq({a, r}) OBVIOUS
  <2> QED BY <1>3, <1>4, <2>1, Zenon
<1>6. events' \in Seq(S \cup {a, r})
  <2>1. events \o A \in Seq(S \cup {a, r}) BY <1>1, <1>5
  <2> QED BY <1>5, <2>1
<1>7. /\ Len(events') >= Len(events)
      /\ \A k \in 1 .. Len(events) : events'[k] = events[k]
  BY <1>1, <1>3, <1>4
<1>8. ASSUME NEW k \in Len(events) + 1 .. Len(events')
      PROVE  (A = <<a>> /\ events'[k] = a) \/ (R = <<r>> /\ events'[k] = r)
  BY <1>1, <1>3, <1>4
<1>9. \A k \in Len(events) + 1 .. Len(events') :
        /\ IsEvent(events'[k]) /\ events'[k].first = Len(events) + 1
        /\ events'[k].type \notin Endings
  BY <1>3, <1>4, <1>8 DEF IsNew, Endings
<1> QED BY <1>6, <1>7, <1>9 DEF Adds, NothingHeld, FinalInv

\* An event that ends the loan, alone.
LEMMA AddsEnding ==
  ASSUME FinalInv, Active, NEW e, NEW type \in Endings,
         IsNew(e, type, Len(events) + 1), events' = Append(events, e),
         IsBooks(led'), led'.status # "ACTIVE", NothingHeld', refundTask' = refundTask
  PROVE  Adds
<1>1. PICK S : events \in Seq(S) BY DEF FinalInv, EventsStand
<1>2. /\ events' \in Seq(S \cup {e}) /\ Len(events') = Len(events) + 1
      /\ \A k \in 1 .. Len(events) : events'[k] = events[k]
      /\ events'[Len(events) + 1] = e /\ Len(events) \in Nat
  BY <1>1
<1>3. \A k \in Len(events) + 1 .. Len(events') : k = Len(events) + 1 BY <1>2
<1> QED BY <1>2, <1>3 DEF Adds, IsNew, FinalInv

\* A new event is one, whatever it says was paid.
LEMMA EventIsNew ==
  ASSUME NEW type \in Types, NEW pay, NEW a, NEW released, NEW first \in Nat
  PROVE  IsNew(Event(type, pay, a, released, first), type, first)
<1> DEFINE e == Event(type, pay, a, released, first)
           V == {e.pay, e.prepaid, e.charge, e.advanced, e.released, e.version, e.undo,
                 e.allocations}
<1>1. /\ e = [type |-> type, pay |-> e.pay, prepaid |-> e.prepaid, charge |-> e.charge,
              advanced |-> e.advanced, released |-> e.released, version |-> e.version,
              undo |-> e.undo, allocations |-> e.allocations, first |-> e.first,
              posted |-> e.posted]
      /\ e.type = type /\ e.first = first /\ e.posted = TRUE
  BY DEF Event
<1> HIDE DEF e
<1>2. e \in [type : Types, pay : V, prepaid : V, charge : V, advanced : V,
             released : V, version : V, undo : V, allocations : V,
             first : Nat, posted : BOOLEAN]
  BY <1>1
<1>3. IsNew(e, type, first) BY <1>1, <1>2 DEF IsNew, IsEvent, Types
<1> QED BY <1>3 DEF e

\* applyAdvance records one event or none.
LEMMA AdvanceIsNew ==
  ASSUME FinalInv, NEW p
  PROVE  LET A == AdvanceEvents(p)
         IN  A = <<>> \/ \E e : A = <<e>> /\ IsNew(e, "ADVANCE_APPLIED", Len(events) + 1)
<1>1. Len(events) + 1 \in Nat BY Positions DEF FinalInv, EventsStand
<1> QED BY <1>1, EventIsNew DEF AdvanceEvents, Types

\* A repayment, of whatever kind, records at most those two.
LEMMA RepaymentAdds ==
  ASSUME FinalInv, Active, NEW amount, NEW asOf, NEW prepaid, NEW charge, NEW advanced,
         NEW schedule, NEW newVersion, NEW undo,
         PostRepayment(Repayment(amount, asOf), prepaid, charge, advanced,
                       schedule, newVersion, undo)
  PROVE  Adds
<1> DEFINE r == Repayment(amount, asOf)
           p == Prepare(asOf)
           n == Len(events) + 1
           released == L!Released(r.led, r.pay.int)
           e == Event("REPAYMENT", r.pay, r.paying, released, n)
           f == [e EXCEPT !.prepaid = prepaid, !.charge = charge,
                          !.advanced = advanced, !.undo = undo]
           m == L!Repaid(r.led, r.pay, prepaid, charge, advanced)
<1>1. r.led = L!Prepared(led, p) /\ r.prepared = p
  BY DEF Repayment, AllocatedRepayment
<1>2. n \in Nat BY Positions DEF FinalInv, EventsStand
<1>3. IsNew(f, "REPAYMENT", n)
  <2>1. IsNew(e, "REPAYMENT", n) BY <1>2, EventIsNew DEF Types
  <2> HIDE DEF e
  <2> QED BY <2>1, FilledIn
<1>4. IsBooks(m) /\ m.status = "ACTIVE"
  <2> HIDE DEF r, p
  <2>1. Stays(led, L!Prepared(led, p)) BY PreparedStays DEF FinalInv
  <2>2. IsBooks(r.led) /\ r.led.status = "ACTIVE" BY <1>1, <2>1 DEF Stays, Active
  <2> QED BY <2>2, PostedStays DEF Stays
<1>5. /\ led' = L!ClosedIfRepaid(m, Open(schedule) # {})
      /\ events' = events \o AdvanceEvents(p) \o <<f>>
      /\ refundTask' = refundTask
  <2> HIDE DEF p
  <2>1. /\ led' = L!ClosedIfRepaid(m, Open(schedule) # {})
        /\ events' = events \o AdvanceEvents(r.prepared) \o <<f>>
        /\ refundTask' = refundTask
    BY DEF PostRepayment
  <2> QED BY <1>1, <2>1
<1> HIDE DEF r, p, f, m
<1>6. IsBooks(led') /\ led'.status \in {"ACTIVE", "CLOSED"}
  BY <1>4, <1>5, ClosesOrStays
<1> HIDE DEF n
<1>7. \E g : <<f>> = <<g>> /\ IsNew(g, "REPAYMENT", n) BY <1>3
<1> QED BY <1>5, <1>6, <1>7, AdvanceIsNew, AddsTwo DEF n

\* The three repayments are repayments.
LEMMA RepayAdds ==
  ASSUME FinalInv, RepayDue \/ RepayInAdvance \/ Prepay
  PROVE  Adds
<1>1. CASE RepayDue
  BY <1>1, RepaymentAdds DEF RepayDue, PostDue, MayPay
<1>2. CASE RepayInAdvance
  BY <1>2, RepaymentAdds DEF RepayInAdvance, PostAdvance, MayPay
<1>3. CASE Prepay
  BY <1>3, RepaymentAdds DEF Prepay, PostPrepayment, MayPay
<1> QED BY <1>1, <1>2, <1>3

\* The end of day uses the advance, moves the loan and may close it.
LEMMA EndOfDayAdds ==
  ASSUME FinalInv, EndOfDay
  PROVE  Adds
<1> DEFINE p == Prepare(day)
<1>1. Active BY DEF EndOfDay
<1>2. PICK m, required, open :
        /\ m \in {L!Prepared(led, p), L!EnteredNonAccrual(L!Prepared(led, p)),
                  L!Cured(L!Prepared(led, p))}
        /\ led' = L!ClosedIfRepaid(L!Provisioned(m, required), open)
        /\ events' = events \o AdvanceEvents(p) /\ refundTask' = refundTask
  <2> HIDE DEF p
  <2> QED BY DEF EndOfDay, p
<1>3. IsBooks(m) /\ m.status = "ACTIVE"
  <2> DEFINE l == L!Prepared(led, p)
  <2> HIDE DEF p
  <2>1. IsBooks(l) /\ l.status = "ACTIVE"
    BY <1>1, PreparedStays DEF Stays, FinalInv, Active
  <2> HIDE DEF l
  <2>2. Stays(l, L!EnteredNonAccrual(l)) /\ Stays(l, L!Cured(l))
    BY <2>1, MovedStays
  <2> QED BY <1>2, <2>1, <2>2 DEF Stays, l
<1>4. IsBooks(led') /\ led'.status \in {"ACTIVE", "CLOSED"}
  <2> DEFINE l == L!Provisioned(m, required)
  <2>1. IsBooks(l) /\ l.status = "ACTIVE" BY <1>3, PostedStays DEF Stays
  <2>2. led' = L!ClosedIfRepaid(l, open) BY <1>2
  <2> HIDE DEF l
  <2> QED BY <2>1, <2>2, ClosesOrStays
<1> HIDE DEF p
<1>5. events \o AdvanceEvents(p) = events \o AdvanceEvents(p) \o <<>>
  BY AdvanceIsNew DEF FinalInv, EventsStand
<1> QED BY <1>1, <1>2, <1>4, <1>5, AdvanceIsNew, AddsTwo

\* A settlement closes the loan with an event of its own.
LEMMA SettleAdds ==
  ASSUME FinalInv, Settle \/ SettleForLess
  PROVE  Adds
<1>1. Active BY DEF Settle, SettleForLess
<1>2. PICK m, a, b :
        /\ IsBooks(m)
        /\ led' = L!Settled(m, a, b) \/ led' = L!SettledForLess(m, a, b)
        /\ events' = Append(events, SettlementEvent) /\ refundTask' = refundTask
  <2>1. CASE Settle
    BY <2>1, PreparedStays DEF Settle, FinalInv, Stays
  <2>2. CASE SettleForLess
    BY <2>2, PreparedStays DEF SettleForLess, FinalInv, Stays
  <2> QED BY <2>1, <2>2
<1>3. IsBooks(led') /\ led'.status = "CLOSED" BY <1>2, SettledCloses
<1>4. IsNew(SettlementEvent, "SETTLEMENT", Len(events) + 1)
  BY EventIsNew, Positions DEF SettlementEvent, Types, Endings, FinalInv, EventsStand
<1> QED BY <1>1, <1>2, <1>3, <1>4, AddsEnding DEF Endings, NothingHeld

\* A write-off is allowed where no advance is held.
LEMMA WriteOffAdds ==
  ASSUME FinalInv, ApproveWriteOff
  PROVE  Adds
<1> DEFINE e == Event("WRITE_OFF", Nothing, <<>>, 0, Len(events) + 1)
<1>1. /\ Active /\ led.row.advance = 0 /\ led' = L!WrittenOff(led)
      /\ events' = Append(events, e) /\ refundTask' = refundTask
  BY DEF ApproveWriteOff, MayWriteOff
<1>2. /\ IsBooks(led') /\ led'.status = "WRITTEN_OFF" /\ led'.row.advance = 0
  BY <1>1, WrittenOffHolds DEF FinalInv
<1>3. IsNew(e, "WRITE_OFF", Len(events) + 1)
  BY EventIsNew, Positions DEF Types, Endings, FinalInv, EventsStand
<1> HIDE DEF e
<1> QED BY <1>1, <1>2, <1>3, AddsEnding DEF Endings, NothingHeld

\* A reversal is of a repayment or an application that nothing later stands on.
LEMMA ReverseUndoes ==
  ASSUME FinalInv, Reverse
  PROVE  \E k : Undoes(k)
<1>1. PICK k, e, fee :
        /\ k \in DOMAIN events /\ events[k].type \in {"REPAYMENT", "ADVANCE_APPLIED"}
        /\ NoneLater(k)
        /\ led' = L!ReturnFeeCharged(L!Reversed(led, e), fee)
        /\ events' = [events EXCEPT ![k].posted = FALSE]
        /\ refundTask' = refundTask
  BY DEF Reverse
<1>2. IsBooks(led') /\ led'.status = "ACTIVE"
  BY <1>1, ReversedActive DEF FinalInv
<1>3. Undoes(k) BY <1>1, <1>2 DEF Undoes, NoneLater, FinalInv, Endings
<1> QED BY <1>3

\* A refund is of money held, so it closes no loan written off.
LEMMA RefundRests ==
  ASSUME FinalInv, ApproveRefund
  PROVE  Rests
<1>1. PICK open :
        /\ led' = L!ClosedIfRepaid(L!Refunded(led, refundTask), open)
        /\ UNCHANGED events /\ refundTask' = 0
        /\ refundTask > 0 /\ refundTask <= led.row.advance
  BY DEF ApproveRefund
<1>2. led.status # "WRITTEN_OFF" BY <1>1 DEF FinalInv, NothingHeld
<1>3. IsBooks(led') /\ led'.status \in {led.status, "CLOSED"}
  BY <1>1, PostedStays, ClosesOrStays DEF Stays, FinalInv
<1>4. led.status \in {"ACTIVE", "CLOSED"} BY <1>2 DEF FinalInv, IsBooks
<1> QED BY <1>1, <1>3, <1>4 DEF Rests, NothingHeld

\* What only proposes, rejects, recovers or waits for the next day.
LEMMA QuietRests ==
  ASSUME FinalInv, \/ NextDay \/ ProposeWriteOff \/ RejectWriteOff \/ Recover
                   \/ ProposeRefund \/ RejectRefund
  PROVE  Rests
<1>1. CASE Recover
  <2>1. PICK a : /\ led.status = "WRITTEN_OFF" /\ led' = L!Recovered(led, a)
                 /\ UNCHANGED <<events, refundTask>>
    BY <1>1 DEF Recover
  <2>2. Stays(led, led') /\ led'.row.advance = 0
    BY <2>1, RecoveredHolds DEF FinalInv, NothingHeld
  <2> QED BY <2>1, <2>2 DEF Rests, Stays, NothingHeld, FinalInv
<1>2. CASE ProposeRefund
  BY <1>2 DEF ProposeRefund, OnlyTasks, Rests, FinalInv, NothingHeld
<1>3. CASE \/ NextDay \/ ProposeWriteOff \/ RejectWriteOff \/ RejectRefund
  BY <1>3 DEF NextDay, ProposeWriteOff, RejectWriteOff, RejectRefund,
              OnlyTasks, Rests, FinalInv, NothingHeld
<1> QED BY <1>1, <1>2, <1>3

\* Every step of the contract keeps an ended loan ended.
LEMMA NextKeeps ==
  ASSUME FinalInv, Next
  PROVE  FinalInv' /\ KeepsFinal
<1>1. CASE RepayDue \/ RepayInAdvance \/ Prepay BY <1>1, RepayAdds, AddsKeeps
<1>2. CASE EndOfDay BY <1>2, EndOfDayAdds, AddsKeeps
<1>3. CASE Settle \/ SettleForLess BY <1>3, SettleAdds, AddsKeeps
<1>4. CASE ApproveWriteOff BY <1>4, WriteOffAdds, AddsKeeps
<1>5. CASE Reverse BY <1>5, ReverseUndoes, UndoesKeeps
<1>6. CASE ApproveRefund BY <1>6, RefundRests, RestsKeeps
<1>7. CASE \/ NextDay \/ ProposeWriteOff \/ RejectWriteOff \/ Recover
           \/ ProposeRefund \/ RejectRefund
  BY <1>7, QuietRests, RestsKeeps
<1> QED BY <1>1, <1>2, <1>3, <1>4, <1>5, <1>6, <1>7 DEF Next, Operation

-----------------------------------------------------------------------------
(* The same steps of the prepaying contract, whose instance has operators    *)
(* of its own.                                                               *)

\* LoanLedger is the same under both contracts: its postings, ...
LEMMA SamePostings ==
  /\ \A l, c, j : Prepaying!L!Booked(l, c, j) = L!Booked(l, c, j)
  /\ \A l : /\ Prepaying!L!AllowanceReleased(l) = L!AllowanceReleased(l)
            /\ Prepaying!L!Closed(l) = L!Closed(l)
            /\ Prepaying!L!Outstanding(l) = L!Outstanding(l)
  /\ \A l, a : Prepaying!L!Released(l, a) = L!Released(l, a)
  /\ \A l, p, a, b : Prepaying!L!Collected(l, p, a, b) = L!Collected(l, p, a, b)
  /\ \A l, a, j : Prepaying!L!Emptied(l, a, j) = L!Emptied(l, a, j)
<1>1. \A l, c, j : Prepaying!L!Booked(l, c, j) = L!Booked(l, c, j)
  BY DEF L!Booked, Prepaying!L!Booked, L!Plus, Prepaying!L!Plus, L!At, Prepaying!L!At
<1>2. \A l : /\ Prepaying!L!AllowanceReleased(l) = L!AllowanceReleased(l)
             /\ Prepaying!L!Closed(l) = L!Closed(l)
             /\ Prepaying!L!Outstanding(l) = L!Outstanding(l)
  BY <1>1 DEF L!AllowanceReleased, Prepaying!L!AllowanceReleased, L!Closed,
              Prepaying!L!Closed, L!Outstanding, Prepaying!L!Outstanding
<1>3. \A l, a : Prepaying!L!Released(l, a) = L!Released(l, a)
  BY DEF L!Released, Prepaying!L!Released, L!Lesser, Prepaying!L!Lesser
<1>4. \A l, p, a, b : Prepaying!L!Collected(l, p, a, b) = L!Collected(l, p, a, b)
  BY <1>1, <1>3 DEF L!Collected, Prepaying!L!Collected
<1>5. \A l, a, j : Prepaying!L!Emptied(l, a, j) = L!Emptied(l, a, j)
  BY <1>1 DEF L!Emptied, Prepaying!L!Emptied, L!At, Prepaying!L!At
<1> QED BY <1>1, <1>2, <1>3, <1>4, <1>5

\* ... and the operations made of them.
LEMMA SameLedger ==
  /\ \A l, a : /\ Prepaying!L!Accrued(l, a) = L!Accrued(l, a)
               /\ Prepaying!L!CaughtUp(l, a) = L!CaughtUp(l, a)
               /\ Prepaying!L!Prepared(l, a) = L!Prepared(l, a)
               /\ Prepaying!L!Provisioned(l, a) = L!Provisioned(l, a)
               /\ Prepaying!L!Refunded(l, a) = L!Refunded(l, a)
               /\ Prepaying!L!Recovered(l, a) = L!Recovered(l, a)
               /\ Prepaying!L!Reversed(l, a) = L!Reversed(l, a)
               /\ Prepaying!L!ReturnFeeCharged(l, a) = L!ReturnFeeCharged(l, a)
               /\ Prepaying!L!ClosedIfRepaid(l, a) = L!ClosedIfRepaid(l, a)
  /\ \A l, a, b : /\ Prepaying!L!Settled(l, a, b) = L!Settled(l, a, b)
                  /\ Prepaying!L!SettledForLess(l, a, b) = L!SettledForLess(l, a, b)
  /\ \A l, p, a, b, c : Prepaying!L!Repaid(l, p, a, b, c) = L!Repaid(l, p, a, b, c)
  /\ \A l : /\ Prepaying!L!EnteredNonAccrual(l) = L!EnteredNonAccrual(l)
            /\ Prepaying!L!Cured(l) = L!Cured(l)
            /\ Prepaying!L!WrittenOff(l) = L!WrittenOff(l)
<1> USE SamePostings
<1>1. \A l, a : Prepaying!L!Accrued(l, a) = L!Accrued(l, a)
  BY DEF L!Accrued, Prepaying!L!Accrued
<1>2. \A l, a : Prepaying!L!CaughtUp(l, a) = L!CaughtUp(l, a)
  BY <1>1 DEF L!CaughtUp, Prepaying!L!CaughtUp, L!Capitalized, Prepaying!L!Capitalized
<1>3. \A l, a : Prepaying!L!Prepared(l, a) = L!Prepared(l, a)
  BY <1>2 DEF L!Prepared, Prepaying!L!Prepared, L!AdvanceApplied,
              Prepaying!L!AdvanceApplied, L!Total, Prepaying!L!Total
<1>4. \A l, a : /\ Prepaying!L!Provisioned(l, a) = L!Provisioned(l, a)
                /\ Prepaying!L!Refunded(l, a) = L!Refunded(l, a)
                /\ Prepaying!L!Recovered(l, a) = L!Recovered(l, a)
                /\ Prepaying!L!ReturnFeeCharged(l, a) = L!ReturnFeeCharged(l, a)
  BY DEF L!Provisioned, Prepaying!L!Provisioned, L!Refunded, Prepaying!L!Refunded,
         L!Recovered, Prepaying!L!Recovered, L!ReturnFeeCharged,
         Prepaying!L!ReturnFeeCharged
<1>5. \A l, a : Prepaying!L!Reversed(l, a) = L!Reversed(l, a)
  BY DEF L!Reversed, Prepaying!L!Reversed, L!AdvanceChange, Prepaying!L!AdvanceChange,
         L!Total, Prepaying!L!Total
<1>6. \A l, a : Prepaying!L!ClosedIfRepaid(l, a) = L!ClosedIfRepaid(l, a)
  BY DEF L!ClosedIfRepaid, Prepaying!L!ClosedIfRepaid
<1>7. \A l, a, b : /\ Prepaying!L!Settled(l, a, b) = L!Settled(l, a, b)
                   /\ Prepaying!L!SettledForLess(l, a, b) = L!SettledForLess(l, a, b)
  BY DEF L!Settled, Prepaying!L!Settled, L!SettledForLess, Prepaying!L!SettledForLess,
         L!Payoff, Prepaying!L!Payoff
<1>8. \A l, p, a, b, c : Prepaying!L!Repaid(l, p, a, b, c) = L!Repaid(l, p, a, b, c)
  BY DEF L!Repaid, Prepaying!L!Repaid, L!Total, Prepaying!L!Total
<1>9. \A l : /\ Prepaying!L!EnteredNonAccrual(l) = L!EnteredNonAccrual(l)
             /\ Prepaying!L!Cured(l) = L!Cured(l)
  BY DEF L!EnteredNonAccrual, Prepaying!L!EnteredNonAccrual, L!Cured, Prepaying!L!Cured
<1>10. \A l : Prepaying!L!WrittenOff(l) = L!WrittenOff(l)
  BY DEF L!WrittenOff, Prepaying!L!WrittenOff, L!Lesser, Prepaying!L!Lesser
<1> QED BY <1>1, <1>2, <1>3, <1>4, <1>5, <1>6, <1>7, <1>8, <1>9, <1>10

\* A new event is one, whatever it says was paid.
LEMMA PrepayingEventIsNew ==
  ASSUME NEW type \in Types, NEW pay, NEW a, NEW released, NEW first \in Nat
  PROVE  IsNew(Prepaying!Event(type, pay, a, released, first), type, first)
<1> DEFINE e == Prepaying!Event(type, pay, a, released, first)
           V == {e.pay, e.prepaid, e.charge, e.advanced, e.released, e.version, e.undo,
                 e.allocations}
<1>1. /\ e = [type |-> type, pay |-> e.pay, prepaid |-> e.prepaid, charge |-> e.charge,
              advanced |-> e.advanced, released |-> e.released, version |-> e.version,
              undo |-> e.undo, allocations |-> e.allocations, first |-> e.first,
              posted |-> e.posted]
      /\ e.type = type /\ e.first = first /\ e.posted = TRUE
  BY DEF Prepaying!Event
<1> HIDE DEF e
<1>2. e \in [type : Types, pay : V, prepaid : V, charge : V, advanced : V,
             released : V, version : V, undo : V, allocations : V,
             first : Nat, posted : BOOLEAN]
  BY <1>1
<1>3. IsNew(e, type, first) BY <1>1, <1>2 DEF IsNew, IsEvent, Types
<1> QED BY <1>3 DEF e

\* applyAdvance records one event or none.
LEMMA PrepayingAdvanceIsNew ==
  ASSUME FinalInv, NEW p
  PROVE  LET A == Prepaying!AdvanceEvents(p)
         IN  A = <<>> \/ \E e : A = <<e>> /\ IsNew(e, "ADVANCE_APPLIED", Len(events) + 1)
<1>1. Len(events) + 1 \in Nat BY Positions DEF FinalInv, EventsStand
<1> QED BY <1>1, PrepayingEventIsNew DEF Prepaying!AdvanceEvents, Types

\* A repayment, of whatever kind, records at most those two.
LEMMA PrepayingRepaymentAdds ==
  ASSUME FinalInv, Active, NEW amount, NEW asOf, NEW prepaid, NEW charge, NEW advanced,
         NEW schedule, NEW newVersion, NEW undo,
         Prepaying!PostRepayment(Prepaying!Repayment(amount, asOf), prepaid, charge, advanced,
                       schedule, newVersion, undo)
  PROVE  Adds
<1> DEFINE r == Prepaying!Repayment(amount, asOf)
           p == Prepaying!Prepare(asOf)
           n == Len(events) + 1
           released == Prepaying!L!Released(r.led, r.pay.int)
           e == Prepaying!Event("REPAYMENT", r.pay, r.paying, released, n)
           f == [e EXCEPT !.prepaid = prepaid, !.charge = charge,
                          !.advanced = advanced, !.undo = undo]
           m == Prepaying!L!Repaid(r.led, r.pay, prepaid, charge, advanced)
<1>1. r.led = Prepaying!L!Prepared(led, p) /\ r.prepared = p
  BY DEF Prepaying!Repayment, Prepaying!AllocatedRepayment
<1>2. n \in Nat BY Positions DEF FinalInv, EventsStand
<1>3. IsNew(f, "REPAYMENT", n)
  <2>1. IsNew(e, "REPAYMENT", n) BY <1>2, PrepayingEventIsNew DEF Types
  <2> HIDE DEF e
  <2> QED BY <2>1, FilledIn
<1>4. IsBooks(m) /\ m.status = "ACTIVE"
  <2> HIDE DEF r, p
  <2>1. Stays(led, Prepaying!L!Prepared(led, p))
    BY PreparedStays, SameLedger DEF FinalInv
  <2>2. IsBooks(r.led) /\ r.led.status = "ACTIVE" BY <1>1, <2>1 DEF Stays, Active
  <2> QED BY <2>2, PostedStays, SameLedger DEF Stays
<1>5. /\ led' = Prepaying!L!ClosedIfRepaid(m, Prepaying!Open(schedule) # {})
      /\ events' = events \o Prepaying!AdvanceEvents(p) \o <<f>>
      /\ refundTask' = refundTask
  <2> HIDE DEF p
  <2>1. /\ led' = Prepaying!L!ClosedIfRepaid(m, Prepaying!Open(schedule) # {})
        /\ events' = events \o Prepaying!AdvanceEvents(r.prepared) \o <<f>>
        /\ refundTask' = refundTask
    BY DEF Prepaying!PostRepayment
  <2> QED BY <1>1, <2>1
<1> HIDE DEF r, p, f, m
<1>6. IsBooks(led') /\ led'.status \in {"ACTIVE", "CLOSED"}
  BY <1>4, <1>5, ClosesOrStays, SameLedger
<1> HIDE DEF n
<1>7. \E g : <<f>> = <<g>> /\ IsNew(g, "REPAYMENT", n) BY <1>3
<1> QED BY <1>5, <1>6, <1>7, PrepayingAdvanceIsNew, AddsTwo DEF n

\* The three repayments are repayments.
LEMMA PrepayingRepayAdds ==
  ASSUME FinalInv, Prepaying!RepayDue \/ Prepaying!RepayInAdvance \/ Prepaying!Prepay
  PROVE  Adds
<1>1. CASE Prepaying!RepayDue
  BY <1>1, PrepayingRepaymentAdds DEF Prepaying!RepayDue, Prepaying!PostDue,
     Prepaying!MayPay, Prepaying!Active, Active
<1>2. CASE Prepaying!RepayInAdvance
  BY <1>2, PrepayingRepaymentAdds DEF Prepaying!RepayInAdvance, Prepaying!PostAdvance,
     Prepaying!MayPay, Prepaying!Active, Active
<1>3. CASE Prepaying!Prepay
  <2>1. PICK amount, asOf, strategy :
          LET r == Prepaying!Repayment(amount, asOf)
          IN  Prepaying!PostPrepayment(r, Prepaying!Future(r.prepared.lines, asOf), asOf, strategy)
    BY <1>3 DEF Prepaying!Prepay
  <2>2. \E prepaid, charge, schedule, newVersion, undo :
          Prepaying!PostRepayment(Prepaying!Repayment(amount, asOf), prepaid, charge, 0,
                                  schedule, newVersion, undo)
    BY <2>1 DEF Prepaying!PostPrepayment
  <2>3. Active BY <1>3 DEF Prepaying!Prepay, Prepaying!MayPay, Prepaying!Active, Active
  <2> QED BY <2>2, <2>3, PrepayingRepaymentAdds
<1> QED BY <1>1, <1>2, <1>3

\* The end of day uses the advance, moves the loan and may close it.
LEMMA PrepayingEndOfDayAdds ==
  ASSUME FinalInv, Prepaying!EndOfDay
  PROVE  Adds
<1> DEFINE p == Prepaying!Prepare(day)
<1>1. Active BY DEF Prepaying!EndOfDay, Prepaying!Active, Active
<1>2. PICK m, required, open :
        /\ m \in {Prepaying!L!Prepared(led, p),
                  Prepaying!L!EnteredNonAccrual(Prepaying!L!Prepared(led, p)),
                  Prepaying!L!Cured(Prepaying!L!Prepared(led, p))}
        /\ led' = Prepaying!L!ClosedIfRepaid(Prepaying!L!Provisioned(m, required), open)
        /\ events' = events \o Prepaying!AdvanceEvents(p) /\ refundTask' = refundTask
  <2> HIDE DEF p
  <2> QED BY DEF Prepaying!EndOfDay, p
<1>3. IsBooks(m) /\ m.status = "ACTIVE"
  <2> DEFINE l == Prepaying!L!Prepared(led, p)
  <2> HIDE DEF p
  <2>1. IsBooks(l) /\ l.status = "ACTIVE"
    BY <1>1, PreparedStays, SameLedger DEF Stays, FinalInv, Active
  <2> HIDE DEF l
  <2>2. Stays(l, Prepaying!L!EnteredNonAccrual(l)) /\ Stays(l, Prepaying!L!Cured(l))
    BY <2>1, MovedStays, SameLedger
  <2> QED BY <1>2, <2>1, <2>2 DEF Stays, l
<1>4. IsBooks(led') /\ led'.status \in {"ACTIVE", "CLOSED"}
  <2> DEFINE l == Prepaying!L!Provisioned(m, required)
  <2>1. IsBooks(l) /\ l.status = "ACTIVE" BY <1>3, PostedStays, SameLedger DEF Stays
  <2>2. led' = Prepaying!L!ClosedIfRepaid(l, open) BY <1>2
  <2> HIDE DEF l
  <2> QED BY <2>1, <2>2, ClosesOrStays, SameLedger
<1> HIDE DEF p
<1>5. events \o Prepaying!AdvanceEvents(p) = events \o Prepaying!AdvanceEvents(p) \o <<>>
  BY PrepayingAdvanceIsNew DEF FinalInv, EventsStand
<1> QED BY <1>1, <1>2, <1>4, <1>5, PrepayingAdvanceIsNew, AddsTwo

\* A settlement closes the loan with an event of its own.
LEMMA PrepayingSettleAdds ==
  ASSUME FinalInv, Prepaying!Settle \/ Prepaying!SettleForLess
  PROVE  Adds
<1>1. Active BY DEF Prepaying!Settle, Prepaying!SettleForLess, Prepaying!Active, Active
<1>2. PICK m, a, b :
        /\ IsBooks(m)
        /\ led' = Prepaying!L!Settled(m, a, b) \/ led' = Prepaying!L!SettledForLess(m, a, b)
        /\ events' = Append(events, Prepaying!SettlementEvent) /\ refundTask' = refundTask
  <2>1. CASE Prepaying!Settle
    BY <2>1, PreparedStays, SameLedger DEF Prepaying!Settle, FinalInv, Stays
  <2>2. CASE Prepaying!SettleForLess
    BY <2>2, PreparedStays, SameLedger DEF Prepaying!SettleForLess, FinalInv, Stays
  <2> QED BY <2>1, <2>2
<1>3. IsBooks(led') /\ led'.status = "CLOSED" BY <1>2, SettledCloses, SameLedger
<1>4. IsNew(Prepaying!SettlementEvent, "SETTLEMENT", Len(events) + 1)
  BY PrepayingEventIsNew, Positions DEF Prepaying!SettlementEvent, Types, Endings,
     FinalInv, EventsStand
<1> QED BY <1>1, <1>2, <1>3, <1>4, AddsEnding DEF Endings, NothingHeld

\* A write-off is allowed where no advance is held.
LEMMA PrepayingWriteOffAdds ==
  ASSUME FinalInv, Prepaying!ApproveWriteOff
  PROVE  Adds
<1> DEFINE e == Prepaying!Event("WRITE_OFF", Prepaying!Nothing, <<>>, 0, Len(events) + 1)
<1>1. /\ Active /\ led.row.advance = 0 /\ led' = Prepaying!L!WrittenOff(led)
      /\ events' = Append(events, e) /\ refundTask' = refundTask
  BY DEF Prepaying!ApproveWriteOff, Prepaying!MayWriteOff, Prepaying!Active, Active
<1>2. /\ IsBooks(led') /\ led'.status = "WRITTEN_OFF" /\ led'.row.advance = 0
  BY <1>1, WrittenOffHolds, SameLedger DEF FinalInv
<1>3. IsNew(e, "WRITE_OFF", Len(events) + 1)
  BY PrepayingEventIsNew, Positions DEF Types, Endings, FinalInv, EventsStand
<1> HIDE DEF e
<1> QED BY <1>1, <1>2, <1>3, AddsEnding DEF Endings, NothingHeld

\* A reversal is of a repayment or an application that nothing later stands on.
LEMMA PrepayingReverseUndoes ==
  ASSUME FinalInv, Prepaying!Reverse
  PROVE  \E k : Undoes(k)
<1>1. PICK k, e, fee :
        /\ k \in DOMAIN events /\ events[k].type \in {"REPAYMENT", "ADVANCE_APPLIED"}
        /\ Prepaying!NoneLater(k)
        /\ led' = Prepaying!L!ReturnFeeCharged(Prepaying!L!Reversed(led, e), fee)
        /\ events' = [events EXCEPT ![k].posted = FALSE]
        /\ refundTask' = refundTask
  BY DEF Prepaying!Reverse
<1>2. IsBooks(led') /\ led'.status = "ACTIVE"
  BY <1>1, ReversedActive, SameLedger DEF FinalInv
<1>3. Undoes(k) BY <1>1, <1>2 DEF Undoes, Prepaying!NoneLater, FinalInv, Endings
<1> QED BY <1>3

\* A refund is of money held, so it closes no loan written off.
LEMMA PrepayingRefundRests ==
  ASSUME FinalInv, Prepaying!ApproveRefund
  PROVE  Rests
<1>1. PICK open :
        /\ led' = Prepaying!L!ClosedIfRepaid(Prepaying!L!Refunded(led, refundTask), open)
        /\ UNCHANGED events /\ refundTask' = 0
        /\ refundTask > 0 /\ refundTask <= led.row.advance
  BY DEF Prepaying!ApproveRefund
<1>2. led.status # "WRITTEN_OFF" BY <1>1 DEF FinalInv, NothingHeld
<1>3. IsBooks(led') /\ led'.status \in {led.status, "CLOSED"}
  BY <1>1, PostedStays, ClosesOrStays, SameLedger DEF Stays, FinalInv
<1>4. led.status \in {"ACTIVE", "CLOSED"} BY <1>2 DEF FinalInv, IsBooks
<1> QED BY <1>1, <1>3, <1>4 DEF Rests, NothingHeld

\* What only proposes, rejects, recovers or waits for the next day.
LEMMA PrepayingQuietRests ==
  ASSUME FinalInv, \/ Prepaying!NextDay \/ Prepaying!ProposeWriteOff
                   \/ Prepaying!RejectWriteOff \/ Prepaying!Recover
                   \/ Prepaying!ProposeRefund \/ Prepaying!RejectRefund
  PROVE  Rests
<1>1. CASE Prepaying!Recover
  <2>1. PICK a : /\ led.status = "WRITTEN_OFF" /\ led' = Prepaying!L!Recovered(led, a)
                 /\ UNCHANGED <<events, refundTask>>
    BY <1>1 DEF Prepaying!Recover
  <2>2. Stays(led, led') /\ led'.row.advance = 0
    BY <2>1, RecoveredHolds, SameLedger DEF FinalInv, NothingHeld
  <2> QED BY <2>1, <2>2 DEF Rests, Stays, NothingHeld, FinalInv
<1>2. CASE Prepaying!ProposeRefund
  BY <1>2 DEF Prepaying!ProposeRefund, Prepaying!OnlyTasks, Rests, FinalInv, NothingHeld
<1>3. CASE \/ Prepaying!NextDay \/ Prepaying!ProposeWriteOff
           \/ Prepaying!RejectWriteOff \/ Prepaying!RejectRefund
  BY <1>3 DEF Prepaying!NextDay, Prepaying!ProposeWriteOff, Prepaying!RejectWriteOff,
     Prepaying!RejectRefund,
              Prepaying!OnlyTasks, Rests, FinalInv, NothingHeld
<1> QED BY <1>1, <1>2, <1>3

\* Every step of the contract keeps an ended loan ended.
LEMMA PrepayingNextKeeps ==
  ASSUME FinalInv, Prepaying!Next
  PROVE  FinalInv' /\ KeepsFinal
<1>1. CASE Prepaying!RepayDue \/ Prepaying!RepayInAdvance \/ Prepaying!Prepay
  BY <1>1, PrepayingRepayAdds, AddsKeeps
<1>2. CASE Prepaying!EndOfDay BY <1>2, PrepayingEndOfDayAdds, AddsKeeps
<1>3. CASE Prepaying!Settle \/ Prepaying!SettleForLess
  BY <1>3, PrepayingSettleAdds, AddsKeeps
<1>4. CASE Prepaying!ApproveWriteOff BY <1>4, PrepayingWriteOffAdds, AddsKeeps
<1>5. CASE Prepaying!Reverse BY <1>5, PrepayingReverseUndoes, UndoesKeeps
<1>6. CASE Prepaying!ApproveRefund BY <1>6, PrepayingRefundRests, RestsKeeps
<1>7. CASE \/ Prepaying!NextDay \/ Prepaying!ProposeWriteOff
           \/ Prepaying!RejectWriteOff \/ Prepaying!Recover
           \/ Prepaying!ProposeRefund \/ Prepaying!RejectRefund
  BY <1>7, PrepayingQuietRests, RestsKeeps
<1> QED BY <1>1, <1>2, <1>3, <1>4, <1>5, <1>6, <1>7 
        DEF Prepaying!Next, Prepaying!Operation
-----------------------------------------------------------------------------
\* A new loan has no events and is in its books.
LEMMA FinalInit == Init => FinalInv
<1> SUFFICES ASSUME Init PROVE FinalInv OBVIOUS
<1>1. events = <<>> /\ refundTask = 0 /\ led.status = "ACTIVE" BY DEF Init, L!Init
<1>2. IsBooks(led)
  <2>1. PICK r, g :
          /\ r = [b \in L!Balances |-> r[b]]
          /\ led = [status |-> "ACTIVE", nonAccrual |-> FALSE, row |-> r, gl |-> g]
    BY DEF Init, L!Init
  <2>2. r \in [L!Balances -> {r[b] : b \in L!Balances}] BY <2>1
  <2>3. led \in [status : {"ACTIVE", "CLOSED", "WRITTEN_OFF"}, nonAccrual : BOOLEAN,
                 row : [L!Balances -> {r[b] : b \in L!Balances}], gl : {g}]
    BY <2>1, <2>2
  <2> QED BY <2>3 DEF IsBooks
<1>3. Len(events) = 0 /\ events \in Seq({}) BY <1>1
<1> QED BY <1>1, <1>2, <1>3 DEF FinalInv, EventsStand, EndingIsLast, NothingHeld

\* Under either contract, and while calls are made, an ended loan stays ended.
LEMMA FinalNext ==
  ASSUME FinalInv, [ContractsNext]_contractVars
  PROVE  FinalInv' /\ KeepsFinal
<1>1. CASE UNCHANGED vars
  <2>1. Rests BY <1>1 DEF vars, Rests, FinalInv, NothingHeld
  <2> QED BY <2>1, RestsKeeps
<1>2. CASE Next BY <1>2, NextKeeps
<1>3. CASE Prepaying!Next BY <1>3, PrepayingNextKeeps
<1> QED BY <1>1, <1>2, <1>3 DEF ContractsNext, InContract, InCalls, contractVars

\* reverse, settleInTx, decideWriteOff: a settled or written-off loan stays so,
\* under either contract: no reversal reopens it and no refund closes it.
THEOREM FinalLoansStayFinal == ContractsSpec => FinalStaysFinal
<1>1. ContractsInit => FinalInv BY FinalInit DEF ContractsInit
<1>2. FinalInv /\ [ContractsNext]_contractVars => FinalInv' BY FinalNext
<1>3. FinalInv /\ [ContractsNext]_contractVars
        => [(\E k \in DOMAIN events : events[k].type \in {"SETTLEMENT", "WRITE_OFF"})
              => led'.status = led.status]_vars
  BY FinalNext DEF KeepsFinal, Endings
<1> QED BY <1>1, <1>2, <1>3, PTL DEF ContractsSpec, FinalStaysFinal
-----------------------------------------------------------------------------
(* The calls: MoneyOperation. *)

\* What a call carries and knows at each step.
CallsOK == \A c \in Calls :
  /\ Money!At(c, "IDLE") => call[c].key = None /\ call[c].req = None
  /\ ~Money!At(c, "IDLE") => call[c].key \in Keys /\ call[c].req \in Requests
  /\ ~Money!At(c, "ANSWERED") => call[c].answer = "PENDING"
  /\ Money!At(c, "WINNER") => recorded[call[c].key] # None

\* A row has one writer.
OneWriter == \A c, d \in Calls :
  /\ call[c].pc \in {"HANDLER", "INSERTED"} /\ call[d].pc \in {"HANDLER", "INSERTED"}
  /\ call[c].req.loan = call[d].req.loan
  => c = d

\* A key has one uncommitted event.
OneHolder == \A c, d \in Calls :
  Money!At(c, "INSERTED") /\ Money!At(d, "INSERTED") /\ call[c].key = call[d].key => c = d

CallsInv == Money!TypeOK /\ CallsOK /\ OneWriter /\ OneHolder /\ Money!CheckedStillHolds

\* Only call c moves, and it keeps its request.
Moves(c, pc, answer) == \A d \in Calls :
  /\ call'[d].key = call[d].key
  /\ call'[d].req = call[d].req
  /\ call'[d].pc = IF d = c THEN pc ELSE call[d].pc
  /\ call'[d].answer = IF d = c THEN answer ELSE call[d].answer

\* A call that goes to its next step keeps its key, its request and its answer.
LEMMA GoToMoves ==
  ASSUME Money!TypeOK, NEW c \in Calls, NEW pc \in Money!Steps, Money!GoTo(c, pc)
  PROVE  /\ Moves(c, pc, call[c].answer)
         /\ call' \in [Calls -> [pc : Money!Steps, key : Keys \cup {None},
                                 req : Requests \cup {None}, answer : Money!Answers]]
  BY DEF Money!TypeOK, Money!GoTo, Moves

\* A call that is answered keeps its key and its request.
LEMMA AnswerMoves ==
  ASSUME Money!TypeOK, NEW c \in Calls, NEW a \in Money!Answers, Money!Answer(c, a)
  PROVE  /\ Moves(c, "ANSWERED", a)
         /\ call' \in [Calls -> [pc : Money!Steps, key : Keys \cup {None},
                                 req : Requests \cup {None}, answer : Money!Answers]]
<1> DEFINE Rows == [pc : Money!Steps, key : Keys \cup {None},
                    req : Requests \cup {None}, answer : Money!Answers]
           row == [call[c] EXCEPT !.pc = "ANSWERED", !.answer = a]
<1>1. call \in [Calls -> Rows] BY DEF Money!TypeOK
<1>2. row \in Rows BY <1>1 DEF Money!Steps
<1>3. call' = [call EXCEPT ![c] = row] BY DEF Money!Answer
<1>4. Moves(c, "ANSWERED", a) BY <1>1, <1>3 DEF Moves
<1> HIDE DEF Rows, row
<1>5. call' \in [Calls -> Rows] BY <1>1, <1>2, <1>3
<1> QED BY <1>4, <1>5 DEF Rows

\* Nothing has been asked yet.
LEMMA CallsInit == Money!Init => CallsInv
<1> SUFFICES ASSUME Money!Init PROVE CallsInv OBVIOUS
<1>1. Money!TypeOK
  BY CallsAssumption DEF Money!Init, Money!TypeOK, Money!Steps, Money!Answers
<1>2. CallsOK BY DEF Money!Init, CallsOK, Money!At
<1>3. OneWriter /\ OneHolder /\ Money!CheckedStillHolds
  BY DEF Money!Init, OneWriter, OneHolder, Money!CheckedStillHolds, Money!At
<1> QED BY <1>1, <1>2, <1>3 DEF CallsInv

\* A call that is answered, or goes on without holding a row or a key it did
\* not hold, disturbs nobody.
LEMMA HarmlessStep ==
  ASSUME CallsInv, NEW c \in Calls, ~Money!At(c, "IDLE"),
         NEW pc \in Money!Steps \ {"IDLE"}, NEW a \in Money!Answers,
         Moves(c, pc, a), Money!TypeOK', UNCHANGED <<recorded, balances>>,
         pc # "ANSWERED" => a = "PENDING",
         pc = "WINNER" => recorded[call[c].key] # None,
         pc \notin {"HANDLER", "INSERTED"}
  PROVE  CallsInv'
<1> USE DEF CallsInv, Moves, Money!At
<1>1. CallsOK' BY DEF CallsOK
<1>2. OneWriter' BY DEF OneWriter
<1>3. OneHolder' BY DEF OneHolder
<1>4. Money!CheckedStillHolds' BY DEF Money!CheckedStillHolds
<1> QED BY <1>1, <1>2, <1>3, <1>4

\* A new call holds no row and no key.
LEMMA SendInvariant ==
  ASSUME CallsInv, NEW c \in Calls, NEW k \in Keys, NEW r \in Requests, Money!Send(c, k, r)
  PROVE  CallsInv'
<1>0. Money!TypeOK BY DEF CallsInv
<1>1. Money!TypeOK'
  <2>1. /\ call' \in [Calls -> [pc : Money!Steps, key : Keys \cup {None},
                                req : Requests \cup {None}, answer : Money!Answers]]
        /\ UNCHANGED <<recorded, balances>>
    <3> DEFINE Rows == [pc : Money!Steps, key : Keys \cup {None},
                        req : Requests \cup {None}, answer : Money!Answers]
               row == [call[c] EXCEPT !.pc = "LOOKUP", !.key = k, !.req = r]
    <3>1. call \in [Calls -> Rows] BY <1>0 DEF Money!TypeOK
    <3>2. row \in Rows BY <3>1 DEF Money!Steps
    <3>3. call' = [call EXCEPT ![c] = row] /\ UNCHANGED <<recorded, balances>>
      BY DEF Money!Send
    <3> HIDE DEF Rows, row
    <3>4. call' \in [Calls -> Rows] BY <3>1, <3>2, <3>3
    <3> QED BY <3>3, <3>4 DEF Rows
  <2> QED BY <1>0, <2>1 DEF Money!TypeOK
<1> USE DEF CallsInv, Money!At
<1>2. \A d \in Calls :
        /\ call'[d].key = IF d = c THEN k ELSE call[d].key
        /\ call'[d].req = IF d = c THEN r ELSE call[d].req
        /\ call'[d].pc = IF d = c THEN "LOOKUP" ELSE call[d].pc
        /\ call'[d].answer = call[d].answer
  BY DEF Money!Send, Money!TypeOK
<1>3. /\ call[c].pc = "IDLE" /\ call[c].answer = "PENDING"
      /\ k # None /\ UNCHANGED <<recorded, balances>>
  BY CallsAssumption DEF Money!Send, CallsOK
<1>4. CallsOK'
  <2> SUFFICES ASSUME NEW d \in Calls
               PROVE  /\ Money!At(d, "IDLE")' => call'[d].key = None /\ call'[d].req = None
                      /\ ~Money!At(d, "IDLE")' =>
                           call'[d].key \in Keys /\ call'[d].req \in Requests
                      /\ ~Money!At(d, "ANSWERED")' => call'[d].answer = "PENDING"
                      /\ Money!At(d, "WINNER")' => recorded'[call'[d].key] # None
    BY DEF CallsOK
  <2>1. CASE d = c BY <1>2, <1>3, <2>1
  <2>2. CASE d # c BY <1>2, <1>3, <2>2 DEF CallsOK
  <2> QED BY <2>1, <2>2
<1>5. OneWriter' BY <1>2 DEF OneWriter
<1>6. OneHolder' BY <1>2 DEF OneHolder
<1>7. Money!CheckedStillHolds' BY <1>2, <1>3 DEF Money!CheckedStillHolds
<1> QED BY <1>1, <1>4, <1>5, <1>6, <1>7

\* An answer leaves every other call and all that is committed alone.
LEMMA AnswerInvariant ==
  ASSUME CallsInv, NEW c \in Calls, NEW a \in Money!Answers, ~Money!At(c, "IDLE"),
         Money!Answer(c, a), UNCHANGED <<recorded, balances>>
  PROVE  CallsInv'
<1>1. Moves(c, "ANSWERED", a) /\ Money!TypeOK'
  BY AnswerMoves DEF CallsInv, Money!TypeOK
<1> QED BY <1>1, HarmlessStep DEF Money!Steps

\* The lookup outside the transaction takes nothing: it replays or goes on.
LEMMA LookupInvariant ==
  ASSUME CallsInv, NEW c \in Calls, Money!Lookup(c)
  PROVE  CallsInv'
<1>1. CASE recorded[call[c].key] = None
  <2>1. Moves(c, "BEGIN", "PENDING") /\ Money!TypeOK'
    BY <1>1, GoToMoves DEF CallsInv, CallsOK, Money!TypeOK, Money!Lookup, Money!At,
       Money!Steps
  <2> QED BY <1>1, <2>1, HarmlessStep DEF Money!Steps, Money!Answers, Money!Lookup,
             Money!At
<1>2. CASE recorded[call[c].key] # None
  BY <1>2, AnswerInvariant DEF Money!Lookup, Money!Replay, Money!At, Money!Answers
<1> QED BY <1>1, <1>2

\* The row is free: nobody else may write the loan.
LEMMA LockInvariant ==
  ASSUME CallsInv, NEW c \in Calls, Money!Lock(c)
  PROVE  CallsInv'
<1>1. Moves(c, "HANDLER", "PENDING") /\ Money!TypeOK'
  BY GoToMoves DEF CallsInv, CallsOK, Money!TypeOK, Money!Lock, Money!At, Money!Steps
<1> USE DEF CallsInv, Moves, Money!At
<1>2. CallsOK' BY <1>1 DEF CallsOK, Money!Lock
<1>3. OneWriter'
  <2>1. \A d \in Calls : call[d].pc \in {"HANDLER", "INSERTED"} =>
                         call[d].req.loan # call[c].req.loan
    BY DEF Money!Lock, Money!Locks
  <2> QED BY <1>1, <2>1 DEF OneWriter
<1>4. OneHolder' BY <1>1 DEF OneHolder
<1>5. Money!CheckedStillHolds' BY <1>1 DEF Money!CheckedStillHolds, Money!Lock
<1> QED BY <1>1, <1>2, <1>3, <1>4, <1>5

\* The key is free of uncommitted events: the call holds it alone, or finds the
\* event that was committed under it.
LEMMA InsertInvariant ==
  ASSUME CallsInv, NEW c \in Calls, Money!Insert(c)
  PROVE  CallsInv'
<1>1. CASE recorded[call[c].key] = None
  <2>1. Moves(c, "INSERTED", "PENDING") /\ Money!TypeOK'
    BY <1>1, GoToMoves DEF CallsInv, CallsOK, Money!TypeOK, Money!Insert, Money!At,
       Money!Steps
  <2> USE DEF CallsInv, Moves, Money!At
  <2>2. CallsOK' BY <2>1 DEF CallsOK, Money!Insert
  <2>3. OneWriter' BY <2>1 DEF OneWriter, Money!Insert
  <2>4. OneHolder' BY <2>1 DEF OneHolder, Money!Insert, Money!Waits
  <2>5. Money!CheckedStillHolds' BY <1>1, <2>1 DEF Money!CheckedStillHolds, Money!Insert
  <2> QED BY <2>1, <2>2, <2>3, <2>4, <2>5
<1>2. CASE recorded[call[c].key] # None
  <2>1. Moves(c, "WINNER", "PENDING") /\ Money!TypeOK'
    BY <1>2, GoToMoves DEF CallsInv, CallsOK, Money!TypeOK, Money!Insert, Money!At,
       Money!Steps
  <2> QED BY <1>2, <2>1, HarmlessStep DEF Money!Steps, Money!Answers, Money!Insert,
             Money!At
<1> QED BY <1>1, <1>2

\* The commit takes a free key and what the loan still owes: by OneHolder and
\* OneWriter no other transaction had counted on either.
LEMMA CommitInvariant ==
  ASSUME CallsInv, NEW c \in Calls, Money!Commit(c)
  PROVE  CallsInv'
<1> DEFINE r == call[c].req
<1>1. PICK a \in {"EXECUTED", "FAILED"} : Money!Answer(c, a) BY DEF Money!Commit
<1>2. /\ Moves(c, "ANSWERED", a)
      /\ call' \in [Calls -> [pc : Money!Steps, key : Keys \cup {None},
                              req : Requests \cup {None}, answer : Money!Answers]]
  BY <1>1, AnswerMoves DEF CallsInv, Money!Answers
<1>3. /\ call[c].key \in Keys /\ r \in Requests /\ r.loan \in Money!Loans
      /\ r.amount \in Nat /\ r.amount <= balances[r.loan]
      /\ recorded' = [recorded EXCEPT ![call[c].key] = r]
      /\ balances' = [balances EXCEPT ![r.loan] = @ - r.amount]
  BY CallsAssumption DEF CallsInv, CallsOK, Money!CheckedStillHolds, Money!Commit,
     Money!At, Money!Loans
<1>4. Money!TypeOK' BY <1>2, <1>3 DEF CallsInv, Money!TypeOK
<1>5. /\ \A k \in Keys : recorded'[k] = IF k = call[c].key THEN r ELSE recorded[k]
      /\ \A l \in Money!Loans :
           balances'[l] = IF l = r.loan THEN balances[l] - r.amount ELSE balances[l]
  BY <1>3 DEF CallsInv, Money!TypeOK
<1> USE DEF CallsInv, Moves, Money!At
<1>6. CallsOK' BY <1>2, <1>3, <1>5, CallsAssumption DEF CallsOK
<1>7. OneWriter' BY <1>2 DEF OneWriter
<1>8. OneHolder' BY <1>2 DEF OneHolder
<1>9. Money!CheckedStillHolds'
  <2> SUFFICES ASSUME NEW d \in Calls, call'[d].pc = "INSERTED"
               PROVE  /\ recorded'[call'[d].key] = None
                      /\ call'[d].req.amount <= balances'[call'[d].req.loan]
    BY DEF Money!CheckedStillHolds
  <2>1. d # c /\ call[d].pc = "INSERTED" BY <1>2
  <2>2. call[d].key # call[c].key BY <2>1 DEF OneHolder, Money!Commit
  <2>3. call[d].req.loan # r.loan BY <2>1 DEF OneWriter, Money!Commit
  <2>4. call[d].key \in Keys /\ call[d].req \in Requests BY <2>1 DEF CallsOK
  <2>5. call[d].req.loan \in Money!Loans BY <2>4 DEF Money!Loans
  <2> QED BY <1>2, <1>5, <2>1, <2>2, <2>3, <2>4, <2>5 DEF Money!CheckedStillHolds
<1> QED BY <1>4, <1>6, <1>7, <1>8, <1>9

\* Every step of every call keeps the invariant.
LEMMA CallsNext == CallsInv /\ [Money!Next]_(Money!vars) => CallsInv'
<1> SUFFICES ASSUME CallsInv, [Money!Next]_(Money!vars) PROVE CallsInv' OBVIOUS
<1>1. ASSUME NEW c \in Calls, NEW k \in Keys, NEW r \in Requests, Money!Send(c, k, r)
      PROVE  CallsInv'
  BY <1>1, SendInvariant
<1>2. ASSUME NEW c \in Calls, Money!Lookup(c) PROVE CallsInv' BY <1>2, LookupInvariant
<1>3. ASSUME NEW c \in Calls, Money!Lock(c) PROVE CallsInv' BY <1>3, LockInvariant
<1>4. ASSUME NEW c \in Calls, Money!Refuse(c) PROVE CallsInv'
  BY <1>4, AnswerInvariant DEF Money!Refuse, Money!At, Money!Answers
<1>5. ASSUME NEW c \in Calls, Money!Insert(c) PROVE CallsInv' BY <1>5, InsertInvariant
<1>6. ASSUME NEW c \in Calls, Money!Commit(c) PROVE CallsInv' BY <1>6, CommitInvariant
<1>7. ASSUME NEW c \in Calls, Money!Winner(c) PROVE CallsInv'
  BY <1>7, AnswerInvariant DEF Money!Winner, Money!Replay, Money!At, Money!Answers
<1>8. ASSUME NEW c \in Calls, Money!Die(c) PROVE CallsInv'
  BY <1>8, AnswerInvariant DEF Money!Die, Money!Answers
<1>9. CASE UNCHANGED Money!vars
  BY <1>9 DEF Money!vars, CallsInv, Money!TypeOK, CallsOK, OneWriter, OneHolder,
              Money!CheckedStillHolds, Money!At
<1> QED BY <1>1, <1>2, <1>3, <1>4, <1>5, <1>6, <1>7, <1>8, <1>9 DEF Money!Next,
           Money!Work

\* A step of the account leaves the calls alone.
LEMMA CallsStep == [ContractsNext]_contractVars => [Money!Next]_(Money!vars)
BY DEF ContractsNext, contractVars, InContract, InCalls, callVars, Money!vars

\* Together: the invariant holds of every execution.
LEMMA CallsInvariant == ContractsSpec => []CallsInv
<1>1. ContractsInit => Money!Init BY DEF ContractsInit
<1>2. CallsInv /\ [ContractsNext]_contractVars => CallsInv' BY CallsStep, CallsNext
<1> QED BY <1>1, <1>2, CallsInit, PTL DEF ContractsSpec

\* money: what a transaction checked under its locks still holds when it commits.
THEOREM ChecksHold == ContractsSpec => []CheckedStillHolds
<1>1. CallsInv => CheckedStillHolds BY DEF CallsInv, CheckedStillHolds
<1> QED BY <1>1, CallsInvariant, PTL
-----------------------------------------------------------------------------

\* AtMostOnce's view of the calls.
Asked == [c \in Calls |-> [key |-> call[c].key, req |-> call[c].req]]
Told == [c \in Calls |-> call[c].answer]

\* Initially no key was executed: the abstract service starts as the detailed one.
LEMMA MapsInit == Money!Init => Money!Promise!Init
  BY DEF Money!Init, Money!Promise!Init, Asked, Told

\* An answer to a call that was asked is a step of the promise.
LEMMA MapsAnswer ==
  ASSUME CallsInv, NEW c \in Calls, NEW a \in Money!Answers \ {"PENDING"},
         ~Money!At(c, "IDLE"), ~Money!At(c, "ANSWERED"), Money!Answer(c, a)
  PROVE  /\ Asked' = Asked
         /\ Told[c] = "PENDING" /\ Told' = [Told EXCEPT ![c] = a]
         /\ Asked[c].key = call[c].key /\ Asked[c].req = call[c].req
         /\ call[c].key \in Keys /\ call[c].req \in Requests
<1>1. Moves(c, "ANSWERED", a) BY AnswerMoves DEF CallsInv
<1>2. Asked' = Asked BY <1>1 DEF Asked, Moves
<1>3. Told' = [Told EXCEPT ![c] = a] BY <1>1 DEF Told, Moves
<1> QED BY <1>2, <1>3 DEF CallsInv, CallsOK, Asked, Told

\* Telling a call what the books hold, or that it failed.
LEMMA MapsInform ==
  ASSUME CallsInv, NEW c \in Calls, NEW a \in {"EXECUTED", "CONFLICT", "FAILED"},
         ~Money!At(c, "IDLE"), ~Money!At(c, "ANSWERED"), Money!Answer(c, a),
         UNCHANGED <<recorded, balances>>,
         a = "EXECUTED" => recorded[call[c].key] = call[c].req,
         a = "CONFLICT" => recorded[call[c].key] \notin {None, call[c].req}
  PROVE  Money!Promise!Inform(c)
<1>1. /\ Asked' = Asked
      /\ Told[c] = "PENDING" /\ Told' = [Told EXCEPT ![c] = a]
      /\ Asked[c].key = call[c].key /\ Asked[c].req = call[c].req
      /\ call[c].req \in Requests
  BY MapsAnswer DEF Money!Answers
<1>2. Money!Promise!Tell(c, a) BY <1>1 DEF Money!Promise!Tell, Told
<1> QED BY <1>1, <1>2 DEF Money!Promise!Inform, Asked

\* Moving on without an answer is no step of the promise.
LEMMA MapsGoTo ==
  ASSUME CallsInv, NEW c \in Calls, NEW pc \in Money!Steps, Money!GoTo(c, pc),
         UNCHANGED <<recorded, balances>>
  PROVE  UNCHANGED Money!Promise!vars
<1>1. Moves(c, pc, call[c].answer) BY GoToMoves DEF CallsInv
<1>2. Asked' = Asked /\ Told' = Told BY <1>1 DEF Asked, Told, Moves
<1> QED BY <1>2 DEF Money!Promise!vars, Asked, Told

\* Answering a repeat from the committed event is an abstract answer.
LEMMA MapsReplay ==
  ASSUME CallsInv, NEW c \in Calls, ~Money!At(c, "IDLE"), ~Money!At(c, "ANSWERED"),
         Money!Replay(c), recorded[call[c].key] # None, UNCHANGED <<recorded, balances>>
  PROVE  Money!Promise!Inform(c)
<1>1. CASE recorded[call[c].key] = call[c].req
  BY <1>1, MapsInform DEF Money!Replay
<1>2. CASE recorded[call[c].key] # call[c].req
  BY <1>2, MapsInform DEF Money!Replay
<1> QED BY <1>1, <1>2

\* Sending a call is the abstract call.
LEMMA MapsSend ==
  ASSUME CallsInv, NEW c \in Calls, NEW k \in Keys, NEW r \in Requests, Money!Send(c, k, r)
  PROVE  Money!Promise!Ask(c, k, r)
<1>1. \A d \in Calls :
        /\ call'[d].key = IF d = c THEN k ELSE call[d].key
        /\ call'[d].req = IF d = c THEN r ELSE call[d].req
        /\ call'[d].answer = call[d].answer
  BY DEF Money!Send, CallsInv, Money!TypeOK
<1>2. Told' = Told BY <1>1 DEF Told
<1>3. Asked' = [Asked EXCEPT ![c] = [key |-> k, req |-> r]]
  BY <1>1 DEF Asked
<1>4. Asked[c] = [key |-> None, req |-> None]
  BY DEF Asked, Money!Send, CallsInv, CallsOK
<1> QED BY <1>2, <1>3, <1>4 DEF Money!Promise!Ask, Asked, Told, Money!Send

\* The commit is the execution: the key is still free, the loan still owes.
LEMMA MapsCommit ==
  ASSUME CallsInv, NEW c \in Calls, Money!Commit(c)
  PROVE  Money!Promise!Execute(c)
<1>1. PICK a \in {"EXECUTED", "FAILED"} : Money!Answer(c, a) BY DEF Money!Commit
<1>2. /\ Asked' = Asked
      /\ Told[c] = "PENDING" /\ Told' = [Told EXCEPT ![c] = a]
      /\ Asked[c].key = call[c].key /\ Asked[c].req = call[c].req
      /\ call[c].req \in Requests
  BY <1>1, MapsAnswer DEF Money!Commit, Money!At, Money!Answers
<1>3. Money!Promise!Tell(c, a) BY <1>2 DEF Money!Promise!Tell, Told
<1>4. /\ recorded[call[c].key] = None
      /\ call[c].req.amount <= balances[call[c].req.loan]
  BY DEF CallsInv, Money!CheckedStillHolds, Money!Commit
<1> QED BY <1>2, <1>3, <1>4 DEF Money!Promise!Execute, Asked, Money!Commit

\* Each step maps to a step of the abstract service or to a stutter; commit is the
\* one that executes.
LEMMA MapsNext ==
  CallsInv /\ [Money!Next]_(Money!vars)
    => [Money!Promise!Next]_(Money!Promise!vars)
<1> SUFFICES ASSUME CallsInv, [Money!Next]_(Money!vars)
             PROVE  [Money!Promise!Next]_(Money!Promise!vars)
  OBVIOUS
<1>1. ASSUME NEW c \in Calls, NEW k \in Keys, NEW r \in Requests, Money!Send(c, k, r)
      PROVE  Money!Promise!Next
  BY <1>1, MapsSend DEF Money!Promise!Next
<1>2. ASSUME NEW c \in Calls, Money!Lookup(c)
      PROVE  Money!Promise!Next \/ UNCHANGED Money!Promise!vars
  <2>1. CASE recorded[call[c].key] = None
    BY <1>2, <2>1, MapsGoTo DEF Money!Lookup, Money!Steps
  <2>2. CASE recorded[call[c].key] # None
    BY <1>2, <2>2, MapsReplay DEF Money!Lookup, Money!At, Money!Promise!Next
  <2> QED BY <2>1, <2>2
<1>3. ASSUME NEW c \in Calls, Money!Lock(c) PROVE UNCHANGED Money!Promise!vars
  BY <1>3, MapsGoTo DEF Money!Lock, Money!Steps
<1>4. ASSUME NEW c \in Calls, Money!Refuse(c) PROVE Money!Promise!Next
  BY <1>4, MapsInform DEF Money!Refuse, Money!At, Money!Promise!Next
<1>5. ASSUME NEW c \in Calls, Money!Insert(c) PROVE UNCHANGED Money!Promise!vars
  BY <1>5, MapsGoTo DEF Money!Insert, Money!Steps
<1>6. ASSUME NEW c \in Calls, Money!Commit(c) PROVE Money!Promise!Next
  BY <1>6, MapsCommit DEF Money!Promise!Next
<1>7. ASSUME NEW c \in Calls, Money!Winner(c) PROVE Money!Promise!Next
  <2>1. recorded[call[c].key] # None BY <1>7 DEF CallsInv, CallsOK, Money!Winner
  <2> QED BY <1>7, <2>1, MapsReplay DEF Money!Winner, Money!At, Money!Promise!Next
<1>8. ASSUME NEW c \in Calls, Money!Die(c) PROVE Money!Promise!Next
  BY <1>8, MapsInform DEF Money!Die, Money!Promise!Next
<1>9. CASE UNCHANGED Money!vars
  BY <1>9 DEF Money!vars, Money!Promise!vars
<1> QED BY <1>1, <1>2, <1>3, <1>4, <1>5, <1>6, <1>7, <1>8, <1>9 DEF Money!Next,
           Money!Work

\* money executes the request of a key at most once and never says otherwise:
\* its steps are steps of AtMostOnce, the commit being the execution.
THEOREM Implements == ContractsSpec => ImplementsAtMostOnce
<1>1. ContractsInit => Money!Promise!Init BY MapsInit DEF ContractsInit
<1>2. CallsInv /\ [ContractsNext]_contractVars
        => [Money!Promise!Next]_(Money!Promise!vars)
  BY CallsStep, MapsNext
<1> QED BY <1>1, <1>2, CallsInvariant, PTL
        DEF ContractsSpec, ImplementsAtMostOnce, Money!ImplementsAtMostOnce,
            Money!Promise!Spec
=============================================================================
