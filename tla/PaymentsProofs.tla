---------------------------- MODULE PaymentsProofs ----------------------------
(***************************************************************************)
(* Money in and out beside the teller.  The facility's total, its          *)
(* drawdowns and its posted movements agree, and money is released under   *)
(* the limit that holds, for every number of sessions, drawdowns and days; *)
(* the tries of a direct debit come one after another, for any mandates,   *)
(* instalments and batches; and received money is used once, for any       *)
(* payments, people and imports.                                           *)
(*                                                                         *)
(* Of receipts: an import decides on a line, and a form is filled in, from *)
(* rows that change before anything is written, so nothing is said of what *)
(* they read.  What holds is said of the rows: one standing receipt a      *)
(* reference, which the database keeps; links only to money that was filed *)
(* as held; and money entered once while no receipt is posted.             *)
(***************************************************************************)
EXTENDS MCPayments, SumProofs

-----------------------------------------------------------------------------
(* Sums. *)

\* The sums of facilities are sums.
LEMMA TotalIsSum ==
  ASSUME NEW f, NEW S
  PROVE  Total(f, S) = SumOver(f, S)
BY DEF Total, SumOver

\* A total moves by what one of its terms does.
LEMMA TotalMoves ==
  ASSUME NEW S, IsFiniteSet(S), NEW f, NEW h, NEW d, NEW n, Shifts(S, f, h, d, n)
  PROVE  /\ Total(f, S) \in Int
         /\ Total(h, S) = Total(f, S) + (IF d \in S THEN n ELSE 0)
<1>1. /\ SumOver(f, S) \in Int
      /\ SumOver(h, S) = SumOver(f, S) + (IF d \in S THEN n ELSE 0)
  BY OneTermMoves
<1> QED BY <1>1, TotalIsSum

\* Nothing adds up to nothing.
LEMMA TotalOfNothing ==
  ASSUME NEW S, IsFiniteSet(S), NEW f, \A x \in S : f[x] = 0
  PROVE  Total(f, S) = 0
BY NothingAddsUp, TotalIsSum

\* The days to any day are finitely many, and to the last they are all.
LEMMA DaysAreFinite ==
  /\ IsFiniteSet(Days) /\ LastDay \in Nat \ {0}
  /\ \A d : DaysTo(d) \in SUBSET Days /\ IsFiniteSet(DaysTo(d))
  /\ DaysTo(LastDay) = Days
<1>1. LastDay \in Nat \ {0} BY FacilityAssumption DEF FacilityAssumption
<1>2. IsFiniteSet(Days) BY <1>1, FS_Interval DEF Days
<1>3. DaysTo(LastDay) = Days BY <1>1 DEF DaysTo, Days
<1>4. \A d : DaysTo(d) \in SUBSET Days BY DEF DaysTo
<1> QED BY <1>1, <1>2, <1>3, <1>4, FS_Subset

\* An amount is posted on a day.
Posted(f, h, d, n) == h = [f EXCEPT ![d] = @ + n]

\* It counts to every day that is not before that one.
LEMMA SumMoves ==
  ASSUME NEW f \in [Days -> Int], NEW h, NEW d \in Days, NEW n \in Int, Posted(f, h, d, n)
  PROVE  \A e : /\ SumTo(f, e) \in Int
                /\ SumTo(h, e) = SumTo(f, e) + (IF d <= e THEN n ELSE 0)
<1> SUFFICES ASSUME NEW e
             PROVE  /\ SumTo(f, e) \in Int
                    /\ SumTo(h, e) = SumTo(f, e) + (IF d <= e THEN n ELSE 0)
  OBVIOUS
<1>1. d \in DaysTo(e) <=> d <= e BY DEF DaysTo
<1> DEFINE S == DaysTo(e)
<1>2. S \in SUBSET Days /\ IsFiniteSet(S) BY DaysAreFinite
<1> HIDE DEF S
<1>3. Shifts(S, f, h, d, n) BY <1>2 DEF Shifts, Posted
<1>4. Total(f, S) \in Int /\ Total(h, S) = Total(f, S) + (IF d \in S THEN n ELSE 0)
  BY <1>2, <1>3, TotalMoves
<1>5. SumTo(f, e) = Total(f, S) /\ SumTo(h, e) = Total(h, S) BY DEF SumTo, S
<1>6. d \in S <=> d <= e BY <1>1 DEF S
<1> QED BY <1>4, <1>5, <1>6

\* Nothing posted adds up to nothing.
LEMMA SumOfNothing == \A e : SumTo([d \in Days |-> 0], e) = 0
<1> DEFINE f == [d \in Days |-> 0]
<1> SUFFICES ASSUME NEW e PROVE SumTo(f, e) = 0 OBVIOUS
<1>1. \A d \in DaysTo(e) : f[d] = 0 BY DEF DaysTo
<1> HIDE DEF f
<1> QED BY <1>1, DaysAreFinite, TotalOfNothing DEF SumTo

-----------------------------------------------------------------------------
(* The invariant. *)

Rows == [status : {"PENDING", "ACTIVE", "SUSPENDED", "EXPIRED", "TERMED_OUT"},
         limit : Limits, drawn : Nat, until : Nat, stated : 0 .. LastDay]

\* What sessions have read are rows, and a session that casFacility lets write has
\* read the row as it is.
SessionsRead ==
  /\ seen \in [Sessions -> Rows \cup {Nothing}]
  /\ current \subseteq {s \in Sessions : seen[s] # Nothing}
  /\ \A s \in current : seen[s] = facility

\* A change that awaits a decision has a limit.
ChangeHasLimit ==
  /\ change \in [limit : Limits \cup {0}, renews : BOOLEAN]
  /\ change # NoChange => change.limit \in Limits

\* A drawdown that was requested has a value date.
DrawdownsDated ==
  /\ drawdown \in [Drawdowns ->
       [status : {"NONE", "REQUESTED", "APPROVED", "REJECTED", "RELEASED"},
        amount : Amounts \cup {0}, date : 0 .. LastDay]]
  /\ \A k \in Drawdowns : drawdown[k].status # "NONE" => drawdown[k].date \in Days

MoneyIsNumbers ==
  /\ principal \in Nat /\ scheduled \in Nat
  /\ moved \in [Days -> Int] /\ advanced \in [Days -> Nat]

RowIsRow == day \in Days /\ facility \in Rows

IInv == RowIsRow /\ SessionsRead /\ ChangeHasLimit /\ DrawdownsDated /\ MoneyIsNumbers
        /\ DrawnAgrees /\ NothingOpenAfterTermOut

\* A row is not the mark of a session that has read none.
LEMMA NothingIsNoRow == Nothing \notin Rows
BY DEF Nothing, Rows

\* The invariant is what the run checks, and more.
LEMMA InvariantImplies == IInv => LineAgrees
BY DEF IInv, LineAgrees, TypeOK, RowIsRow, Rows, SessionsRead, ChangeHasLimit, DrawdownsDated,
       MoneyIsNumbers

\* A line that was not drawn on agrees.
LEMMA InitInvariant == Init => IInv
<1> SUFFICES ASSUME Init PROVE IInv OBVIOUS
<1>1. RowIsRow
  BY DaysAreFinite, FacilityAssumption DEF Init, RowIsRow, Rows, Days, FacilityAssumption
<1>2. SessionsRead /\ ChangeHasLimit /\ MoneyIsNumbers
  BY DaysAreFinite DEF Init, SessionsRead, ChangeHasLimit, MoneyIsNumbers, NoChange
<1>3. DrawdownsDated /\ NothingOpenAfterTermOut
  BY DaysAreFinite DEF Init, DrawdownsDated, NothingOpenAfterTermOut, NoDrawdown
<1>4. DrawnAgrees
  <2>1. SumTo(advanced, LastDay) = 0 /\ SumTo(moved, LastDay) = 0
    BY SumOfNothing DEF Init
  <2>2. \A k \in Drawdowns : Released[k] = 0 BY DEF Init, Released, NoDrawdown
  <2>3. Total(Released, Drawdowns) = 0
    BY <2>2, TotalOfNothing, FacilityAssumption DEF FacilityAssumption
  <2> QED BY <2>1, <2>3 DEF Init, DrawnAgrees
<1> QED BY <1>1, <1>2, <1>3, <1>4 DEF IInv

-----------------------------------------------------------------------------
(* What the steps have in common. *)

\* A session that may write has read the row as it is.
LEMMA CurrentReads ==
  ASSUME IInv, NEW s \in Sessions, s \in current
  PROVE  seen[s] = facility /\ facility \in Rows
BY DEF IInv, SessionsRead, RowIsRow

\* A session that ends leaves what the others have read.
LEMMA SessionEnds ==
  ASSUME IInv, NEW s \in Sessions, seen' = [seen EXCEPT ![s] = Nothing],
         \/ current' = current \ {s} /\ facility' = facility
         \/ current' = {}
  PROVE  SessionsRead'
<1>1. seen' \in [Sessions -> Rows \cup {Nothing}] BY DEF IInv, SessionsRead
<1>2. current' \subseteq {t \in Sessions : seen'[t] # Nothing} BY DEF IInv, SessionsRead
<1>3. \A t \in current' : seen'[t] = facility' BY DEF IInv, SessionsRead
<1> QED BY <1>1, <1>2, <1>3 DEF SessionsRead

\* The accounts of the money drawn agree as long as no money moves.
LEMMA NoMoneyMoves ==
  ASSUME IInv, facility'.drawn = facility.drawn, Released' = Released,
         UNCHANGED <<principal, moved, advanced>>
  PROVE  DrawnAgrees'
BY DEF IInv, DrawnAgrees, SumTo

\* A step that neither makes nor changes a released drawdown leaves what was released.
LEMMA NothingReleased ==
  ASSUME \A k \in Drawdowns :
           drawdown[k].status = "RELEASED" \/ drawdown'[k].status = "RELEASED" =>
             drawdown'[k] = drawdown[k]
  PROVE  Released' = Released
BY DEF Released

\* What is posted on a day moves the principal and the movements alike.
LEMMA PrincipalMoves ==
  ASSUME IInv, NEW d \in Days, NEW n \in Int,
         principal' = principal + n, Posted(moved, moved', d, n)
  PROVE  moved' \in [Days -> Int] /\ principal' = SumTo(moved', LastDay)
<1>1. moved \in [Days -> Int] /\ d <= LastDay
  BY DaysAreFinite DEF IInv, MoneyIsNumbers, Days
<1>2. SumTo(moved', LastDay) = SumTo(moved, LastDay) + n BY <1>1, SumMoves
<1>3. moved' \in [Days -> Int] BY <1>1 DEF Posted
<1> QED BY <1>2, <1>3 DEF IInv, DrawnAgrees

-----------------------------------------------------------------------------
(* Sessions and drawdowns. *)

\* The day passes, and a session reads the row, or gives up.
LEMMA SessionStep ==
  ASSUME IInv, NEW s \in Sessions, NextDay \/ Look(s) \/ Abort(s)
  PROVE  IInv'
<1>1. /\ UNCHANGED <<facility, drawdown, change, Balances>>
      /\ day' \in Days
  BY DaysAreFinite DEF NextDay, Look, Abort, IInv, RowIsRow, Days
<1>2. SessionsRead'
  <2>1. CASE NextDay BY <2>1 DEF NextDay, IInv, SessionsRead
  <2>2. CASE Look(s) BY <2>2, NothingIsNoRow DEF Look, IInv, SessionsRead, RowIsRow
  <2>3. CASE Abort(s) BY <1>1, <2>3, SessionEnds DEF Abort
  <2> QED BY <2>1, <2>2, <2>3
<1>3. DrawnAgrees' BY <1>1, NoMoneyMoves DEF Balances, Released
<1>4. NothingOpenAfterTermOut' BY <1>1 DEF IInv, NothingOpenAfterTermOut, Awaiting
<1> QED BY <1>1, <1>2, <1>3, <1>4
        DEF IInv, RowIsRow, ChangeHasLimit, DrawdownsDated, MoneyIsNumbers, Balances

\* A drawdown is requested of a line that the session that may write has read.
LEMMA RequestStep ==
  ASSUME IInv, NEW s \in Sessions, NEW n \in Amounts, NEW d \in ValueDates,
         RequestDrawdown(s, n, d)
  PROVE  IInv'
<1>1. PICK k \in Drawdowns :
        /\ {j \in Drawdowns : drawdown[j] # NoDrawdown} = 1 .. k - 1
        /\ drawdown' = [drawdown EXCEPT ![k] =
             [status |-> "REQUESTED", amount |-> n, date |-> d]]
  BY DEF RequestDrawdown
<1>2. UNCHANGED <<day, facility, change, Balances>> /\ s \in current
      /\ seen' = [seen EXCEPT ![s] = Nothing] /\ current' = {}
  BY DEF RequestDrawdown, CasFacility
<1>3. drawdown[k] = NoDrawdown
  <2>1. k \notin 1 .. k - 1
    BY FacilityAssumption, FS_CardinalityType DEF FacilityAssumption
  <2> QED BY <1>1, <2>1
<1>4. d \in Days /\ d \in 0 .. LastDay BY DaysAreFinite DEF ValueDates, Days
<1>5. DrawdownsDated' BY <1>1, <1>4 DEF IInv, DrawdownsDated
<1>6. DrawnAgrees'
  <2>1. Released' = Released
    BY <1>1, <1>3, NothingReleased DEF NoDrawdown, IInv, DrawdownsDated
  <2> QED BY <1>2, <2>1, NoMoneyMoves DEF Balances
<1>7. NothingOpenAfterTermOut'
  <2>1. facility.status # "TERMED_OUT"
    BY <1>2, CurrentReads DEF RequestDrawdown, Drawable
  <2> QED BY <1>2, <2>1 DEF NothingOpenAfterTermOut
<1>8. SessionsRead' BY <1>2, SessionEnds
<1> QED BY <1>2, <1>5, <1>6, <1>7, <1>8
        DEF IInv, RowIsRow, ChangeHasLimit, MoneyIsNumbers, Balances

\* A decision takes a request on, or away.
LEMMA DecideStep ==
  ASSUME IInv, NEW s \in Sessions, NEW k \in Drawdowns,
         ApproveDrawdown(s, k) \/ RejectOrCancelDrawdown(s, k)
  PROVE  IInv'
<1>1. /\ UNCHANGED <<day, facility, change, Balances>>
      /\ seen' = [seen EXCEPT ![s] = Nothing] /\ current' = current \ {s}
      /\ drawdown[k].status = "REQUESTED"
      /\ \/ drawdown' = [drawdown EXCEPT ![k].status = "APPROVED"]
         \/ drawdown' = [drawdown EXCEPT ![k].status = "REJECTED"]
  BY DEF ApproveDrawdown, RejectOrCancelDrawdown, Keeps
<1>2. DrawdownsDated' BY <1>1 DEF IInv, DrawdownsDated
<1>3. DrawnAgrees'
  <2>1. Released' = Released BY <1>1, NothingReleased DEF IInv, DrawdownsDated
  <2> QED BY <1>1, <2>1, NoMoneyMoves DEF Balances
<1>4. NothingOpenAfterTermOut'
  BY <1>1 DEF IInv, NothingOpenAfterTermOut, Awaiting, DrawdownsDated
<1>5. SessionsRead' BY <1>1, SessionEnds
<1> QED BY <1>1, <1>2, <1>3, <1>4, <1>5
        DEF IInv, RowIsRow, ChangeHasLimit, MoneyIsNumbers, Balances

\* A release posts the drawdown on its value date and adds it to the row's total:
\* the session has read the total as it is, for casFacility to let it write.
LEMMA ReleaseStep ==
  ASSUME IInv, NEW s \in Sessions, NEW k \in Drawdowns, ReleaseDrawdown(s, k)
  PROVE  /\ IInv'
         /\ facility.status \in {"PENDING", "ACTIVE"}
         /\ Consumed(drawdown[k].date)' <= facility.limit
         /\ drawdown' = [drawdown EXCEPT ![k].status = "RELEASED"]
<1>0. PICK n, d : n = drawdown[k].amount /\ d = drawdown[k].date OBVIOUS
<1>1. /\ drawdown[k].status = "APPROVED" /\ Drawable(seen[s], n, d)
      /\ drawdown' = [drawdown EXCEPT ![k].status = "RELEASED"]
      /\ principal' = principal + n
      /\ Posted(moved, moved', d, n) /\ Posted(advanced, advanced', d, n)
      /\ s \in current /\ facility' = [seen[s] EXCEPT !.drawn = @ + n, !.status = "ACTIVE"]
      /\ seen' = [seen EXCEPT ![s] = Nothing] /\ current' = {}
      /\ UNCHANGED <<day, change, scheduled>>
  BY <1>0 DEF ReleaseDrawdown, CasFacility, Posted
<1>2. seen[s] = facility /\ facility \in Rows BY <1>1, CurrentReads
<1>3. n \in Nat /\ d \in Days
  BY <1>0, <1>1, FacilityAssumption DEF IInv, DrawdownsDated, FacilityAssumption
<1>4. moved \in [Days -> Int] /\ advanced \in [Days -> Int] /\ advanced \in [Days -> Nat]
      /\ principal \in Nat
  BY DEF IInv, MoneyIsNumbers
<1>5. DrawdownsDated' BY <1>1 DEF IInv, DrawdownsDated
<1>6. facility' \in Rows /\ facility'.drawn = facility.drawn + n
  <2>1. facility' = [facility EXCEPT !.drawn = @ + n, !.status = "ACTIVE"] BY <1>1, <1>2
  <2>2. PICK m : m = facility.drawn + n OBVIOUS
  <2>3. m \in Nat BY <1>2, <1>3, <2>2 DEF Rows
  <2>4. facility' = [facility EXCEPT !.drawn = m, !.status = "ACTIVE"] BY <2>1, <2>2
  <2> QED BY <1>2, <2>2, <2>3, <2>4 DEF Rows
<1>7. /\ \A e : SumTo(moved', e) = SumTo(moved, e) + (IF d <= e THEN n ELSE 0)
      /\ \A e : SumTo(advanced', e) = SumTo(advanced, e) + (IF d <= e THEN n ELSE 0)
  BY <1>1, <1>3, <1>4, SumMoves
<1>8. DrawnAgrees'
  <2>1. d <= LastDay BY <1>3, DaysAreFinite DEF Days
  <2>2. facility'.drawn = SumTo(advanced', LastDay)
    BY <1>6, <1>7, <2>1 DEF IInv, DrawnAgrees
  <2>3. principal' = SumTo(moved', LastDay) BY <1>1, <1>3, PrincipalMoves
  <2>4. Shifts(Drawdowns, Released, Released', k, n)
    <3>1. \A j \in Drawdowns : Released[j] \in Int
      <4>1. \A j \in Drawdowns : drawdown[j].amount \in Amounts \cup {0}
        BY DEF IInv, DrawdownsDated
      <4>2. \A m \in Amounts \cup {0} : m \in Int
        BY FacilityAssumption DEF FacilityAssumption
      <4> QED BY <4>1, <4>2 DEF Released
    <3>2. \A j \in Drawdowns : j # k => Released'[j] = Released[j]
      BY <1>1 DEF Released, IInv, DrawdownsDated
    <3>3. Released[k] = 0 /\ Released'[k] = n
      BY <1>0, <1>1 DEF Released, IInv, DrawdownsDated
    <3> QED BY <1>3, <3>1, <3>2, <3>3 DEF Shifts
  <2>5. Total(Released', Drawdowns) = Total(Released, Drawdowns) + n
    BY <2>4, TotalMoves, FacilityAssumption DEF FacilityAssumption
  <2>6. facility'.drawn = Total(Released', Drawdowns)
    BY <1>6, <2>5 DEF IInv, DrawnAgrees
  <2> QED BY <2>2, <2>3, <2>6 DEF DrawnAgrees
<1>9. Consumed(drawdown[k].date)' <= facility.limit
  <2>1. drawdown'[k].date = d BY <1>0, <1>1 DEF IInv, DrawdownsDated
  <2>2. Consumed(d) + n <= facility.limit BY <1>1, <1>2 DEF Drawable
  <2>3. Consumed(d)' = Consumed(d) + n
    <3>1. d <= d BY <1>3, DaysAreFinite DEF Days
    <3> QED BY <1>7, <3>1 DEF Consumed
  <2> QED BY <2>1, <2>2, <2>3 DEF Consumed
<1>10. NothingOpenAfterTermOut' BY <1>1, <1>2 DEF NothingOpenAfterTermOut, Rows
<1>11. SessionsRead' BY <1>1, SessionEnds
<1>12. MoneyIsNumbers'
  BY <1>1, <1>3, <1>4 DEF IInv, MoneyIsNumbers, Posted
<1>13. facility.status \in {"PENDING", "ACTIVE"} BY <1>1, <1>2 DEF Drawable
<1> QED BY <1>1, <1>5, <1>6, <1>8, <1>9, <1>10, <1>11, <1>12, <1>13
        DEF IInv, RowIsRow, ChangeHasLimit

-----------------------------------------------------------------------------
(* Statements and repayments. *)

\* A statement adds what it capitalizes to the principal and to the movements.
LEMMA StatementStep ==
  ASSUME IInv, NEW s \in Sessions, NEW d \in Days, NEW c \in Capitals,
         GenerateStatement(s, d, c)
  PROVE  IInv'
<1>1. /\ s \in current /\ facility' = [seen[s] EXCEPT !.stated = d]
      /\ seen' = [seen EXCEPT ![s] = Nothing] /\ current' = {}
      /\ UNCHANGED <<day, drawdown, change, scheduled, advanced>>
      /\ \/ principal' = principal + c /\ Posted(moved, moved', d, c)
         \/ UNCHANGED <<principal, moved>>
  BY DEF GenerateStatement, CasFacility, Posted
<1>2. seen[s] = facility /\ facility \in Rows BY <1>1, CurrentReads
<1>3. c \in Nat /\ d \in 0 .. LastDay
  BY FacilityAssumption, DaysAreFinite DEF FacilityAssumption, Days
<1>4. facility' \in Rows /\ facility'.drawn = facility.drawn
      /\ facility'.status = facility.status
  BY <1>1, <1>2, <1>3 DEF Rows
<1>5. Released' = Released BY <1>1 DEF Released
<1>6. /\ principal' \in Nat /\ moved' \in [Days -> Int]
      /\ principal' = SumTo(moved', LastDay)
  <2>1. CASE UNCHANGED <<principal, moved>>
    BY <2>1 DEF IInv, MoneyIsNumbers, DrawnAgrees
  <2>2. CASE principal' = principal + c /\ Posted(moved, moved', d, c)
    BY <1>3, <2>2, PrincipalMoves DEF IInv, MoneyIsNumbers
  <2> QED BY <1>1, <2>1, <2>2
<1>7. DrawnAgrees' BY <1>1, <1>4, <1>5, <1>6 DEF IInv, DrawnAgrees
<1>8. NothingOpenAfterTermOut' BY <1>1, <1>4 DEF IInv, NothingOpenAfterTermOut, Awaiting
<1>9. SessionsRead' BY <1>1, SessionEnds
<1> QED BY <1>1, <1>4, <1>6, <1>7, <1>8, <1>9
        DEF IInv, RowIsRow, ChangeHasLimit, DrawdownsDated, MoneyIsNumbers

\* A repayment takes what is owed off the principal and off the movements.
LEMMA RepaymentStep ==
  ASSUME IInv, NEW n \in Amounts,
         \/ RepayInstalments(n)
         \/ \E s \in Sessions, d \in ValueDates : PostRepayment(s, n, d)
  PROVE  IInv'
<1>1. n \in Nat BY FacilityAssumption DEF FacilityAssumption
<1>2. PICK d \in Days : /\ principal' = principal - n /\ n <= principal
                        /\ moved' = [moved EXCEPT ![d] = @ - n]
  BY DEF RepayInstalments, PostRepayment, IsOwed, ValueDates, IInv, RowIsRow
<1>3. UNCHANGED <<day, facility, drawdown, change, advanced>>
  BY DEF RepayInstalments, PostRepayment, Keeps
<1>4. scheduled' \in Nat
  BY <1>1 DEF RepayInstalments, PostRepayment, IInv, MoneyIsNumbers
<1>5. SessionsRead'
  <2>1. CASE RepayInstalments(n) BY <2>1 DEF RepayInstalments, IInv, SessionsRead
  <2>2. CASE \E s \in Sessions, d_1 \in ValueDates : PostRepayment(s, n, d_1)
    BY <1>3, <2>2, SessionEnds DEF PostRepayment, Keeps
  <2> QED BY <2>1, <2>2
<1>6. moved \in [Days -> Int] /\ principal \in Nat BY DEF IInv, MoneyIsNumbers
<1>7. moved' \in [Days -> Int] /\ principal' = SumTo(moved', LastDay)
  <2>1. 0 - n \in Int /\ principal' = principal + (0 - n) BY <1>1, <1>2, <1>6
  <2>2. Posted(moved, moved', d, 0 - n)
    <3>1. moved[d] - n = moved[d] + (0 - n) BY <1>1, <1>6
    <3> QED BY <1>2, <3>1 DEF Posted
  <2> QED BY <2>1, <2>2, PrincipalMoves
<1>8. DrawnAgrees' BY <1>3, <1>7 DEF IInv, DrawnAgrees, Released
<1>9. NothingOpenAfterTermOut' BY <1>3 DEF IInv, NothingOpenAfterTermOut, Awaiting
<1>10. principal' \in Nat BY <1>1, <1>2, <1>6
<1> QED BY <1>3, <1>4, <1>5, <1>7, <1>8, <1>9, <1>10
        DEF IInv, RowIsRow, ChangeHasLimit, DrawdownsDated, MoneyIsNumbers

-----------------------------------------------------------------------------
(* The limit and the status. *)

\* A limit is asked for, or refused; the row stays.
LEMMA RequestLimitStep ==
  ASSUME IInv, NEW s \in Sessions,
         RejectLimitChange(s)
           \/ \E l \in Limits, renews \in BOOLEAN : RequestLimitChange(s, l, renews)
  PROVE  IInv'
<1>1. /\ UNCHANGED <<day, facility, drawdown, Balances>>
      /\ seen' = [seen EXCEPT ![s] = Nothing] /\ current' = current \ {s}
  BY DEF RequestLimitChange, RejectLimitChange, Keeps
<1>2. ChangeHasLimit'
  <2>1. CASE RejectLimitChange(s) BY <2>1 DEF RejectLimitChange, ChangeHasLimit, NoChange
  <2>2. ASSUME NEW l \in Limits, NEW renews \in BOOLEAN, RequestLimitChange(s, l, renews)
        PROVE  ChangeHasLimit'
    <3>1. change' = [limit |-> l, renews |-> renews] BY <2>2 DEF RequestLimitChange
    <3> QED BY <3>1 DEF ChangeHasLimit
  <2> QED BY <2>1, <2>2
<1>3. Released' = Released BY <1>1 DEF Released
<1>4. DrawnAgrees' BY <1>1, <1>3, NoMoneyMoves DEF Balances
<1>5. NothingOpenAfterTermOut' BY <1>1 DEF IInv, NothingOpenAfterTermOut, Awaiting
<1>6. SessionsRead' BY <1>1, SessionEnds
<1> QED BY <1>1, <1>2, <1>4, <1>5, <1>6
        DEF IInv, RowIsRow, DrawdownsDated, MoneyIsNumbers, Balances

\* The row is written, and neither money nor drawdowns move: what was drawn stays,
\* and no line that is termed out has a drawdown open.
LEMMA RowStep ==
  ASSUME IInv, NEW s \in Sessions,
         s \in current, seen' = [seen EXCEPT ![s] = Nothing], current' = {},
         UNCHANGED <<day, drawdown, principal, moved, advanced>>,
         facility' \in Rows, facility'.drawn = facility.drawn,
         scheduled' \in Nat, ChangeHasLimit',
         \/ facility'.status # "TERMED_OUT"
         \/ facility.status = "TERMED_OUT"
         \/ \A k \in Drawdowns : ~Awaiting(k)
  PROVE  IInv'
<1>1. Released' = Released BY DEF Released
<1>2. DrawnAgrees' BY <1>1, NoMoneyMoves
<1>3. NothingOpenAfterTermOut' BY DEF IInv, NothingOpenAfterTermOut, Awaiting
<1>4. SessionsRead' BY SessionEnds
<1> QED BY <1>2, <1>3, <1>4 DEF IInv, RowIsRow, DrawdownsDated, MoneyIsNumbers

\* A limit is agreed, with a longer line or without.
LEMMA ApproveLimitStep ==
  ASSUME IInv, NEW s \in Sessions, ApproveLimitChange(s)
  PROVE  IInv'
<1>1. /\ s \in current /\ seen' = [seen EXCEPT ![s] = Nothing] /\ current' = {}
      /\ UNCHANGED <<day, drawdown, principal, scheduled, moved, advanced>>
      /\ change # NoChange /\ change' = NoChange
  BY DEF ApproveLimitChange, CasFacility, Balances
<1>2. seen[s] = facility /\ facility \in Rows BY <1>1, CurrentReads
<1>3. PICK l \in Limits : l = change.limit BY <1>1 DEF IInv, ChangeHasLimit
<1>4. PICK u \in Nat : u = IF facility.until > LastDay THEN facility.until
                           ELSE facility.until + Renewal
  BY <1>2, FacilityAssumption DEF Rows, FacilityAssumption
<1>5. \/ facility' = [facility EXCEPT !.limit = l]
      \/ facility' = [facility EXCEPT !.limit = l, !.until = u,
                       !.status = IF facility.status = "EXPIRED" THEN "ACTIVE" ELSE facility.status]
  BY <1>2, <1>3, <1>4 DEF ApproveLimitChange, CasFacility
<1>6. /\ facility' \in Rows /\ facility'.drawn = facility.drawn
      /\ facility'.status = "TERMED_OUT" => facility.status = "TERMED_OUT"
  BY <1>2, <1>5 DEF Rows
<1>7. ChangeHasLimit' /\ scheduled' \in Nat
  BY <1>1 DEF ChangeHasLimit, NoChange, IInv, MoneyIsNumbers
<1> QED BY <1>1, <1>6, <1>7, RowStep

\* A line is suspended, resumed, or expires.
LEMMA StatusStep ==
  ASSUME IInv, NEW s \in Sessions, NEW to \in {"SUSPENDED", "ACTIVE", "EXPIRED"},
         ChangeStatus(s, to)
  PROVE  IInv'
<1>1. /\ s \in current /\ seen' = [seen EXCEPT ![s] = Nothing] /\ current' = {}
      /\ UNCHANGED <<day, drawdown, change, principal, scheduled, moved, advanced>>
      /\ facility' = [seen[s] EXCEPT !.status = to]
  BY DEF ChangeStatus, CasFacility, Balances
<1>2. seen[s] = facility /\ facility \in Rows BY <1>1, CurrentReads
<1>3. facility' \in Rows /\ facility'.drawn = facility.drawn /\ facility'.status # "TERMED_OUT"
  BY <1>1, <1>2 DEF Rows
<1>4. ChangeHasLimit' /\ scheduled' \in Nat BY <1>1 DEF ChangeHasLimit, IInv, MoneyIsNumbers
<1> QED BY <1>1, <1>3, <1>4, RowStep

\* A line is termed out once every request was settled.
LEMMA TermOutStep ==
  ASSUME IInv, NEW s \in Sessions, TermOut(s)
  PROVE  IInv'
<1>1. /\ s \in current /\ seen' = [seen EXCEPT ![s] = Nothing] /\ current' = {}
      /\ UNCHANGED <<day, drawdown, change, principal, moved, advanced>>
      /\ facility' = [seen[s] EXCEPT !.status = "TERMED_OUT"]
      /\ \A k \in Drawdowns : ~Awaiting(k)
      /\ scheduled' = principal
  BY DEF TermOut, CasFacility
<1>2. seen[s] = facility /\ facility \in Rows BY <1>1, CurrentReads
<1>3. facility' \in Rows /\ facility'.drawn = facility.drawn BY <1>1, <1>2 DEF Rows
<1>4. ChangeHasLimit' /\ scheduled' \in Nat BY <1>1 DEF ChangeHasLimit, IInv, MoneyIsNumbers
<1> QED BY <1>1, <1>3, <1>4, RowStep

-----------------------------------------------------------------------------
(* All steps. *)

\* Every step keeps the invariant, and is a release of one drawdown or makes none.
LEMMA StepInvariant ==
  ASSUME IInv, [Next]_vars
  PROVE  /\ IInv'
         /\ \/ \E s \in Sessions, k \in Drawdowns : ReleaseDrawdown(s, k)
            \/ \A k \in Drawdowns : drawdown'[k].status = "RELEASED" =>
                                      drawdown[k].status = "RELEASED"
<1>1. CASE UNCHANGED vars
  BY <1>1 DEF vars, IInv, RowIsRow, SessionsRead, ChangeHasLimit, DrawdownsDated,
              MoneyIsNumbers, DrawnAgrees, NothingOpenAfterTermOut, Awaiting, SumTo, Released,
              Balances
<1>2. CASE NextDay
  <2>1. UNCHANGED drawdown BY <1>2 DEF NextDay
  <2>2. IInv'
    <3>1. /\ UNCHANGED <<facility, drawdown, change, Balances, seen, current>>
          /\ day' \in Days
      BY <1>2, DaysAreFinite DEF NextDay, IInv, RowIsRow, Days
    <3>2. DrawnAgrees' BY <3>1, NoMoneyMoves DEF Balances, Released
    <3> QED BY <3>1, <3>2
            DEF IInv, RowIsRow, SessionsRead, ChangeHasLimit, DrawdownsDated, MoneyIsNumbers,
                NothingOpenAfterTermOut, Awaiting, Balances
  <2> QED BY <2>1, <2>2
<1>3. CASE \E n \in Amounts : RepayInstalments(n)
  BY <1>3, RepaymentStep DEF RepayInstalments
<1>4. ASSUME NEW s \in Sessions, Look(s) \/ Abort(s)
      PROVE  IInv' /\ UNCHANGED drawdown
  BY <1>4, SessionStep DEF Look, Abort
<1>5. ASSUME NEW s \in Sessions, NEW n \in Amounts, NEW d \in ValueDates, RequestDrawdown(s, n, d)
      PROVE  IInv' /\ \A k \in Drawdowns : drawdown'[k].status = "RELEASED" =>
                                             drawdown[k].status = "RELEASED"
  <2>1. PICK j \in Drawdowns : drawdown' = [drawdown EXCEPT ![j] =
                                 [status |-> "REQUESTED", amount |-> n, date |-> d]]
    BY <1>5 DEF RequestDrawdown
  <2>2. drawdown'[j].status = "REQUESTED" BY <1>5, <2>1 DEF IInv, DrawdownsDated
  <2>3. \A k \in Drawdowns : k # j => drawdown'[k] = drawdown[k] BY <2>1
  <2> QED BY <1>5, <2>2, <2>3, RequestStep
<1>6. ASSUME NEW s \in Sessions, NEW n \in Amounts, NEW d \in ValueDates, PostRepayment(s, n, d)
      PROVE  IInv' /\ UNCHANGED drawdown
  BY <1>6, RepaymentStep DEF PostRepayment
<1>7. ASSUME NEW s \in Sessions, NEW k \in Drawdowns,
             ApproveDrawdown(s, k) \/ RejectOrCancelDrawdown(s, k)
      PROVE  IInv' /\ \A j \in Drawdowns : drawdown'[j].status = "RELEASED" =>
                                             drawdown[j].status = "RELEASED"
  BY <1>7, DecideStep DEF ApproveDrawdown, RejectOrCancelDrawdown, IInv, DrawdownsDated
<1>8. ASSUME NEW s \in Sessions, NEW k \in Drawdowns, ReleaseDrawdown(s, k) PROVE IInv'
  BY <1>8, ReleaseStep
<1>9. ASSUME NEW s \in Sessions, NEW d \in Days, NEW c \in Capitals, GenerateStatement(s, d, c)
      PROVE  IInv' /\ UNCHANGED drawdown
  BY <1>9, StatementStep DEF GenerateStatement
<1>10. ASSUME NEW s \in Sessions,
              \/ RejectLimitChange(s) \/ ApproveLimitChange(s) \/ TermOut(s)
              \/ \E l \in Limits, renews \in BOOLEAN : RequestLimitChange(s, l, renews)
              \/ \E to \in {"SUSPENDED", "ACTIVE", "EXPIRED"} : ChangeStatus(s, to)
       PROVE  IInv' /\ UNCHANGED drawdown
  <2>1. CASE RejectLimitChange(s)
               \/ \E l \in Limits, renews \in BOOLEAN : RequestLimitChange(s, l, renews)
    BY <2>1, RequestLimitStep DEF RejectLimitChange, RequestLimitChange
  <2>2. CASE ApproveLimitChange(s)
    <3>1. IInv' BY <2>2, ApproveLimitStep, Zenon
    <3>2. UNCHANGED drawdown BY <2>2 DEF ApproveLimitChange
    <3> QED BY <3>1, <3>2
  <2>3. CASE TermOut(s) BY <2>3, TermOutStep DEF TermOut
  <2>4. CASE \E to \in {"SUSPENDED", "ACTIVE", "EXPIRED"} : ChangeStatus(s, to)
    BY <2>4, StatusStep DEF ChangeStatus
  <2> QED BY <1>10, <2>1, <2>2, <2>3, <2>4
<1> QED BY <1>1, <1>2, <1>3, <1>4, <1>5, <1>6, <1>7, <1>8, <1>9, <1>10 DEF Next

\* The invariant holds.
LEMMA Invariant == Spec => []IInv
<1>1. Init => IInv BY InitInvariant
<1>2. IInv /\ [Next]_vars => IInv' BY StepInvariant
<1> QED BY <1>1, <1>2, PTL DEF Spec

\* Whatever sessions do with rows they read before the lock, the facility's total,
\* the drawdowns released and the movements posted stay one amount, the principal
\* is the sum of the movements, and no drawdown is open once the line is termed out.
THEOREM SessionsAgree == Spec => []LineAgrees
BY Invariant, InvariantImplies, PTL

\* releaseDrawdown: money goes out only while the facility as it stands lets it, and
\* never past the limit that holds then.
THEOREM ReleasesWithinLimit == Spec => ReleasedUnderLimit
<1>1. ASSUME IInv, [Next]_vars
      PROVE  [\A k \in Drawdowns :
                drawdown[k].status = "APPROVED" /\ drawdown'[k].status = "RELEASED" =>
                  /\ facility.status \in {"PENDING", "ACTIVE"}
                  /\ Consumed(drawdown[k].date)' <= facility.limit]_vars
  <2> SUFFICES ASSUME NEW k \in Drawdowns,
                      drawdown[k].status = "APPROVED", drawdown'[k].status = "RELEASED"
               PROVE  /\ facility.status \in {"PENDING", "ACTIVE"}
                      /\ Consumed(drawdown[k].date)' <= facility.limit
    OBVIOUS
  <2>1. PICK s \in Sessions, j \in Drawdowns : ReleaseDrawdown(s, j) BY <1>1, StepInvariant
  <2>2. drawdown' = [drawdown EXCEPT ![j].status = "RELEASED"] BY <1>1, <2>1, ReleaseStep
  <2>3. j = k BY <1>1, <2>2 DEF IInv, DrawdownsDated
  <2> QED BY <1>1, <2>1, <2>3, ReleaseStep
<1> QED BY <1>1, Invariant, PTL DEF Spec, ReleasedUnderLimit
-----------------------------------------------------------------------------
(* Direct debits. *)

\* Rows of attempts.
AttemptRows == [status : {"NONE", "PENDING", "FAILED", "SUCCEEDED", "SUSPENSE"},
                amount : 0 .. Debits!Cardinality(DueDates), day : 0 .. LastDay, retry : 1 .. Debits!Never]

\* The try before.
Before(a) == <<a[1], a[2], a[3] - 1>>

\* A batch that has planned is at an attempt, of a day there has been.
BatchRows == [pc : {"IDLE", "PLANNED", "ASK", "REFUSED", "COLLECTED", "HOLD"},
              day : 0 .. LastDay, at : Debits!Attempts \cup {<<0, 0, 0>>}]
BatchesTyped ==
  /\ batch \in [Uploads -> BatchRows]
  /\ \A b \in Uploads : batch[b].pc # "IDLE" => batch[b].at \in Debits!Attempts /\ batch[b].day >= 1

\* A batch that has recorded an attempt is the only one at it, and it is pending
\* until the batch has answered.
Answering(b) == batch[b].pc \in {"ASK", "REFUSED", "COLLECTED", "HOLD"}
OneBatchAnswers ==
  /\ \A b \in Uploads : Answering(b) => attempt[batch[b].at].status = "PENDING"
  /\ \A b, c \in Uploads : Answering(b) /\ Answering(c) /\ batch[b].at = batch[c].at => b = c

\* The bank is asked of an attempt that is recorded, and not before the batch that
\* recorded it asks.
AskedOfRecorded ==
  /\ asked \in [Debits!Attempts -> {0, 1}]
  /\ \A a \in Debits!Attempts : asked[a] = 1 => Debits!Exists(a)
  /\ \A b \in Uploads : batch[b].pc = "ASK" => asked[batch[b].at] = 0
  /\ \A a \in debited : asked[a] = 1

\* The last try that is allowed is not followed by another.
LastTryEnds == \A a \in Debits!Attempts :
  attempt[a].status = "FAILED" /\ a[3] = MaxAttempts => attempt[a].retry = Debits!Never

\* What is tried again has failed, also once the plan of it is old.
PlannedAfterFailure == \A b \in Uploads :
  batch[b].pc = "PLANNED" /\ batch[b].at[3] > 1 => attempt[Before(batch[b].at)].status = "FAILED"

\* The tries that follow another, which failed and is not retried again.
FollowsFailure == \A a \in Debits!Attempts :
  Debits!Exists(a) /\ a[3] > 1 =>
    attempt[Before(a)].status = "FAILED" /\ attempt[Before(a)].retry = Debits!Never

\* A refusal is of money the bank did not take, or took without saying so.
RefusedIsTrue == \A b \in Uploads :
  batch[b].pc = "REFUSED" => batch[b].at \notin debited \ lost

DebitInv ==
  /\ Debits!TypeOK /\ BatchesTyped /\ OneBatchAnswers /\ AskedOfRecorded /\ LastTryEnds
  /\ PlannedAfterFailure /\ FollowsFailure /\ RefusedIsTrue /\ Debits!DebitsAreTraced

\* An attempt is of a mandate, a due date and a number.
LEMMA AttemptsAreTriples ==
  /\ \A a \in Debits!Attempts : /\ a = <<a[1], a[2], a[3]>>
                                /\ a[1] \in Mandates /\ a[2] \in DueDates /\ a[3] \in 1 .. MaxAttempts
  /\ \A m \in Mandates, d \in DueDates, n \in 1 .. MaxAttempts : <<m, d, n>> \in Debits!Attempts
BY DEF Debits!Attempts

\* The try before, and the one after.
LEMMA NextTry ==
  ASSUME NEW a \in Debits!Attempts, a[3] # MaxAttempts
  PROVE  LET next == [a EXCEPT ![3] = @ + 1]
         IN  next \in Debits!Attempts /\ next[3] > 1 /\ Before(next) = a
<1> DEFINE next == [a EXCEPT ![3] = @ + 1]
<1>1. PICK m \in Mandates, d \in DueDates, n \in 1 .. MaxAttempts : a = <<m, d, n>>
  BY AttemptsAreTriples
<1>2. next = <<m, d, n + 1>> BY <1>1
<1>3. n + 1 \in 1 .. MaxAttempts BY <1>1, DebitAssumption DEF DebitAssumption
<1>4. next \in Debits!Attempts
  <2>1. <<m, d, n + 1>> \in Debits!Attempts BY <1>3, AttemptsAreTriples, Zenon
  <2> QED BY <1>2, <2>1
<1> HIDE DEF next
<1>5. Before(next) = a /\ next[3] > 1 BY <1>1, <1>2, <1>3 DEF Before
<1> QED BY <1>4, <1>5 DEF next

LEMMA TryBefore ==
  ASSUME NEW a \in Debits!Attempts, a[3] > 1
  PROVE  Before(a) \in Debits!Attempts /\ Before(a) # a
<1>1. a[1] \in Mandates /\ a[2] \in DueDates /\ a[3] \in 1 .. MaxAttempts BY AttemptsAreTriples
<1>2. a[3] - 1 \in 1 .. MaxAttempts BY <1>1, DebitAssumption DEF DebitAssumption
<1>3. Before(a) \in Debits!Attempts BY <1>1, <1>2, AttemptsAreTriples DEF Before
<1>4. Before(a)[3] = a[3] - 1 BY DEF Before
<1> QED BY <1>1, <1>3, <1>4

\* A finite set of numbers has a greatest.
LEMMA MaxExists ==
  ASSUME NEW S \in SUBSET Nat, IsFiniteSet(S), S # {}
  PROVE  \E x \in S : \A y \in S : y <= x
<1> DEFINE Has(s) == s = {} \/ \E x \in s : \A y \in s : y <= x
           T == {n \in Nat : \A s \in Layer(S, n) : Has(s)}
<1>1. 0 \in T BY BottomLayer
<1>2. ASSUME NEW n \in T PROVE n + 1 \in T
  <2> SUFFICES ASSUME NEW s \in Layer(S, n + 1), s # {} PROVE Has(s) OBVIOUS
  <2> DEFINE c == Pick(s)
             r == s \ {c}
  <2>1. s \in SUBSET S /\ n \in Nat BY DEF Layer
  <2>2. c \in s /\ r \in Layer(S, n)
    <3>1. /\ Pick(s) \in s /\ s \ {Pick(s)} \in SUBSET S
          /\ Cardinality(s) \in Nat /\ Cardinality(s \ {Pick(s)}) = Cardinality(s) - 1
      BY <2>1, Picks
    <3>2. Cardinality(s) <= n + 1 BY DEF Layer
    <3> QED BY <2>1, <3>1, <3>2 DEF Layer
  <2>3. Has(r) /\ s \subseteq Nat BY <2>1, <2>2
  <2> HIDE DEF c
  <2>4. CASE r = {} BY <2>2, <2>3, <2>4
  <2>5. CASE r # {}
    <3>1. PICK x \in r : \A y \in r : y <= x BY <2>3, <2>5
    <3>2. CASE x <= c
      <4>1. \A y \in s : y <= c BY <2>2, <2>3, <3>1, <3>2
      <4> QED BY <4>1, <2>2
    <3>3. CASE c <= x
      <4>1. \A y \in s : y <= x BY <2>2, <2>3, <3>1, <3>3
      <4> QED BY <4>1, <3>1
    <3> QED BY <3>2, <3>3, <2>2, <2>3, <3>1
  <2> QED BY <2>4, <2>5
<1> HIDE DEF T
<1>3. T = Nat
  <2>1. T \in SUBSET Nat BY DEF T
  <2> QED BY <1>1, <1>2, <2>1, CountUp
<1>4. Cardinality(S) \in T /\ S \in Layer(S, Cardinality(S)) BY <1>3, FS_CardinalityType DEF Layer
<1> QED BY <1>4 DEF T

\* What is tried again is one of what is to be tried again.
LEMMA LatestIsOne ==
  ASSUME NEW S \in SUBSET Debits!Attempts, S # {}
  PROVE  Debits!Latest(S) \in S
<1> DEFINE Dates == {a[2] : a \in S}
<1>1. Dates \in SUBSET Nat /\ IsFiniteSet(Dates) /\ Dates # {}
  <2>1. \A a \in S : a[2] \in DueDates BY AttemptsAreTriples
  <2>2. Dates \in SUBSET DueDates BY <2>1
  <2>3. Dates # {} OBVIOUS
  <2> HIDE DEF Dates
  <2> QED BY <2>2, <2>3, FS_Subset, DebitAssumption DEF DebitAssumption
<1>2. PICK d \in Dates : \A y \in Dates : y <= d BY <1>1, MaxExists
<1> DEFINE Numbers == {a[3] : a \in {c \in S : c[2] = d}}
<1>3. Numbers \in SUBSET (1 .. MaxAttempts) /\ Numbers # {}
  <2>1. \A a \in S : a[3] \in 1 .. MaxAttempts BY AttemptsAreTriples
  <2> QED BY <1>2, <2>1
<1> HIDE DEF Numbers
<1>4. Numbers \in SUBSET Nat /\ IsFiniteSet(Numbers)
  <2>1. IsFiniteSet(1 .. MaxAttempts) BY FS_Interval, DebitAssumption DEF DebitAssumption
  <2>2. Numbers \in SUBSET Nat BY <1>3
  <2> QED BY <1>3, <2>1, <2>2, FS_Subset, Zenon
<1>5. PICK n \in Numbers : \A y \in Numbers : y <= n BY <1>3, <1>4, MaxExists
<1>6. PICK a \in S : a[2] = d /\ a[3] = n BY <1>5 DEF Numbers
<1>7. \A c \in S : c[2] \in Dates /\ (c[2] = d => c[3] \in Numbers) BY DEF Numbers
<1>8. d \in Nat /\ \A c \in S : c[2] \in Nat BY <1>1, <1>2, <1>7
<1> HIDE DEF Dates
<1>9. \A c \in S : c[2] < a[2] \/ (c[2] = a[2] /\ c[3] <= a[3])
  <2> SUFFICES ASSUME NEW c \in S PROVE c[2] < a[2] \/ (c[2] = a[2] /\ c[3] <= a[3]) OBVIOUS
  <2>1. c[2] <= d BY <1>2, <1>7
  <2>2. c[2] = d => c[3] <= n BY <1>5, <1>7
  <2> QED BY <1>6, <1>8, <2>1, <2>2
<1> QED BY <1>6, <1>9, Zenon DEF Debits!Latest


-----------------------------------------------------------------------------
\* The number of members is the one the theorems about finite sets speak of.
LEMMA SameCardinality == \A S : Debits!Cardinality(S) = Cardinality(S)
BY DEF Debits!Cardinality, Cardinality

\* What is due is a number of instalments.
LEMMA DueIsNumber ==
  /\ Debits!Cardinality(DueDates) \in Nat
  /\ \A d : Debits!AmountDue(d) \in 0 .. Debits!Cardinality(DueDates)
<1>1. IsFiniteSet(DueDates) BY DebitAssumption DEF DebitAssumption
<1>2. Debits!Cardinality(DueDates) \in Nat BY <1>1, SameCardinality, FS_CardinalityType
<1>3. ASSUME NEW d PROVE Debits!AmountDue(d) \in 0 .. Debits!Cardinality(DueDates)
  <2> DEFINE U == Debits!Unpaid(d)
  <2>1. U \in SUBSET DueDates BY DEF Debits!Unpaid
  <2> HIDE DEF U
  <2>2. Cardinality(U) \in Nat /\ Cardinality(U) <= Cardinality(DueDates)
    BY <1>1, <2>1, FS_Subset, FS_CardinalityType
  <2> QED BY <1>2, <2>2, SameCardinality DEF Debits!AmountDue, U
<1> QED BY <1>2, <1>3

\* Nobody has debited anything at first.
LEMMA DebitInit == Debits!Init => DebitInv
<1> SUFFICES ASSUME Debits!Init PROVE DebitInv OBVIOUS
<1> USE DEF Debits!Init
<1>1. Debits!Cardinality(DueDates) \in Nat BY DueIsNumber
<1>2. LastDay \in Nat /\ LastDay >= 1 /\ Debits!Never \in 1 .. Debits!Never
  BY FacilityAssumption, DebitAssumption DEF FacilityAssumption, DebitAssumption, Debits!Never
<1>3. Debits!TypeOK
  <2>1. Debits!NoAttempt \in AttemptRows BY <1>1, <1>2 DEF Debits!NoAttempt, AttemptRows
  <2>2. attempt \in [Debits!Attempts -> AttemptRows] BY <2>1
  <2>3. mandate \in [Mandates -> {"NONE", "ACTIVE", "REVOKED"}] OBVIOUS
  <2>4. \A b \in Uploads : batch[b].at \in Debits!Attempts \cup {Debits!Idle.at} OBVIOUS
  <2>5. day \in 1 .. LastDay /\ paid \in 0 .. Debits!Cardinality(DueDates) /\ troubles \in 0 .. MaxTroubles
    BY <1>1, <1>2, DebitAssumption DEF DebitAssumption
  <2>6. debited \subseteq Debits!Attempts /\ lost \subseteq Debits!Attempts /\ late \subseteq Debits!Attempts
    OBVIOUS
  <2> QED BY <2>2, <2>3, <2>4, <2>5, <2>6 DEF Debits!TypeOK, AttemptRows
<1>4. BatchesTyped BY <1>2 DEF BatchesTyped, BatchRows, Debits!Idle
<1>5. OneBatchAnswers /\ PlannedAfterFailure /\ RefusedIsTrue
  BY DEF OneBatchAnswers, PlannedAfterFailure, RefusedIsTrue, Answering, Debits!Idle
<1>6. AskedOfRecorded BY DEF AskedOfRecorded, Debits!Idle
<1>7. LastTryEnds /\ FollowsFailure /\ Debits!DebitsAreTraced
  BY DEF LastTryEnds, FollowsFailure, Debits!DebitsAreTraced, Debits!NoAttempt, Debits!Exists
<1> QED BY <1>3, <1>4, <1>5, <1>6, <1>7 DEF DebitInv

\* A step of other things.
LEMMA DebitsUntouched ==
  ASSUME DebitInv, Debits!TypeOK', UNCHANGED <<attempt, batch, asked, debited, lost>>
  PROVE  DebitInv'
BY DEF DebitInv, BatchesTyped, OneBatchAnswers, Answering, AskedOfRecorded, LastTryEnds,
       PlannedAfterFailure, FollowsFailure, RefusedIsTrue, Debits!DebitsAreTraced, Debits!Exists

LEMMA AroundTheBatch ==
  ASSUME DebitInv, \/ Debits!NextDay \/ Debits!Pay
                   \/ \E m \in Mandates : Debits!CreateMandate(m)
  PROVE  DebitInv'
<1>1. UNCHANGED <<attempt, batch, asked, debited, lost, late, troubles>>
  BY DEF Debits!NextDay, Debits!Pay, Debits!CreateMandate, Debits!History
<1>2. day' \in 1 .. LastDay /\ paid' \in 0 .. Debits!Cardinality(DueDates)
      /\ mandate' \in [Mandates -> {"NONE", "ACTIVE", "REVOKED"}]
  BY FacilityAssumption, DueIsNumber
  DEF FacilityAssumption, DebitInv, Debits!TypeOK, Debits!NextDay, Debits!Pay, Debits!CreateMandate
<1>3. Debits!TypeOK' BY <1>1, <1>2 DEF DebitInv, Debits!TypeOK
<1> QED BY <1>1, <1>3, DebitsUntouched

\* Some attempts that failed are not to be tried again.
GivesUp ==
  /\ attempt' \in [Debits!Attempts -> AttemptRows]
  /\ \A a \in Debits!Attempts : attempt'[a] # attempt[a] =>
       attempt[a].status = "FAILED" /\ attempt'[a].status = "FAILED" /\ attempt'[a].retry = Debits!Never

LEMMA AttemptsTyped ==
  ASSUME DebitInv
  PROVE  /\ attempt \in [Debits!Attempts -> AttemptRows]
         /\ debited \subseteq Debits!Attempts
         /\ \A b \in Uploads : batch[b].pc # "IDLE" => batch[b].at \in Debits!Attempts
BY DEF DebitInv, Debits!TypeOK, AttemptRows, BatchesTyped

\* That, and batches that end, disturb nothing.
LEMMA GivingUp ==
  ASSUME DebitInv, GivesUp, Debits!TypeOK', BatchesTyped', UNCHANGED <<asked, debited, lost>>,
         \A b \in Uploads : batch'[b] = batch[b] \/ batch'[b].pc = "IDLE"
  PROVE  DebitInv'
<1>1. \A a \in Debits!Attempts : /\ attempt'[a].status = attempt[a].status
                                 /\ attempt'[a].retry \in {attempt[a].retry, Debits!Never}
  BY DEF GivesUp
<1> USE DEF DebitInv
<1>2. OneBatchAnswers' BY <1>1, AttemptsTyped DEF OneBatchAnswers, Answering
<1>3. AskedOfRecorded' BY <1>1 DEF AskedOfRecorded, Debits!Exists
<1>4. LastTryEnds' BY <1>1 DEF LastTryEnds
<1>5. PlannedAfterFailure' BY <1>1, AttemptsTyped, TryBefore DEF PlannedAfterFailure
<1>6. FollowsFailure' BY <1>1, TryBefore DEF FollowsFailure, Debits!Exists
<1>7. RefusedIsTrue' BY DEF RefusedIsTrue
<1>8. Debits!DebitsAreTraced' BY <1>1, AttemptsTyped DEF Debits!DebitsAreTraced
<1> QED BY <1>2, <1>3, <1>4, <1>5, <1>6, <1>7, <1>8

\* A retry that is never is a retry.
LEMMA NeverIsDay == Debits!Never \in Nat /\ Debits!Never > LastDay /\ LastDay \in Nat /\ LastDay >= 1
BY FacilityAssumption, DebitAssumption DEF FacilityAssumption, DebitAssumption, Debits!Never

LEMMA RetryNever ==
  ASSUME NEW r \in AttemptRows
  PROVE  LET s == [r EXCEPT !.retry = Debits!Never]
         IN  s \in AttemptRows /\ s.retry = Debits!Never /\ s.status = r.status
BY NeverIsDay DEF AttemptRows

LEMMA RevokeStep ==
  ASSUME DebitInv, NEW m \in Mandates, Debits!RevokeMandate(m)
  PROVE  DebitInv'
<1>1. UNCHANGED <<day, paid, batch, asked, debited, lost, late, troubles>>
  BY DEF Debits!RevokeMandate, Debits!History
<1>2. GivesUp
  <2>1. attempt' = [a \in Debits!Attempts |->
          IF a[1] = m /\ attempt[a].status = "FAILED"
          THEN [attempt[a] EXCEPT !.retry = Debits!Never] ELSE attempt[a]]
    BY DEF Debits!RevokeMandate
  <2> QED BY <2>1, AttemptsTyped, RetryNever DEF GivesUp
<1>3. Debits!TypeOK'
  <2>1. mandate' \in [Mandates -> {"NONE", "ACTIVE", "REVOKED"}]
    BY DEF Debits!RevokeMandate, DebitInv, Debits!TypeOK
  <2> QED BY <1>1, <1>2, <2>1 DEF DebitInv, Debits!TypeOK, GivesUp, AttemptRows
<1>4. BatchesTyped' BY <1>1 DEF DebitInv, BatchesTyped
<1> QED BY <1>1, <1>2, <1>3, <1>4, GivingUp

LEMMA DieStep ==
  ASSUME DebitInv, NEW b \in Uploads, Debits!Die(b)
  PROVE  DebitInv'
<1>1. /\ UNCHANGED <<day, mandate, attempt, paid, asked, debited, lost, late>>
      /\ batch' = [batch EXCEPT ![b] = Debits!Idle]
      /\ troubles' = troubles + 1 /\ troubles < MaxTroubles
  BY DEF Debits!Die, Debits!History, Debits!Ends, Debits!Trouble
<1>2. BatchesTyped' BY <1>1, NeverIsDay DEF DebitInv, BatchesTyped, BatchRows, Debits!Idle
<1>3. Debits!TypeOK' BY <1>1, DebitAssumption DEF DebitInv, Debits!TypeOK, DebitAssumption
<1>4. GivesUp BY <1>1, AttemptsTyped DEF GivesUp
<1>5. \A c \in Uploads : batch'[c] = batch[c] \/ batch'[c].pc = "IDLE"
  BY <1>1 DEF DebitInv, BatchesTyped, Debits!Idle
<1> QED BY <1>1, <1>2, <1>3, <1>4, <1>5, GivingUp

LEMMA PlanStep ==
  ASSUME DebitInv, NEW b \in Uploads, Debits!Plan(b)
  PROVE  DebitInv'
<1>1. UNCHANGED <<day, mandate, attempt, paid, asked, debited, lost, late, troubles>>
  BY DEF Debits!Plan, Debits!History
<1>2. day \in 1 .. LastDay /\ LastDay \in Nat BY NeverIsDay DEF DebitInv, Debits!TypeOK
<1>3. PICK a \in Debits!Attempts :
        /\ batch' = [batch EXCEPT ![b] = [pc |-> "PLANNED", day |-> day, at |-> a]]
        /\ a[3] > 1 => attempt[Before(a)].status = "FAILED"
  <2>1. PICK m \in Mandates :
          \/ /\ Debits!Retries(m) # {}
             /\ Debits!Planned(b, [Debits!Latest(Debits!Retries(m)) EXCEPT ![3] = @ + 1])
          \/ /\ day \in Debits!Unpaid(day) /\ \A n \in 1 .. MaxAttempts : ~Debits!Exists(<<m, day, n>>)
             /\ Debits!Planned(b, <<m, day, 1>>)
    BY DEF Debits!Plan
  <2>2. CASE /\ Debits!Retries(m) # {}
             /\ Debits!Planned(b, [Debits!Latest(Debits!Retries(m)) EXCEPT ![3] = @ + 1])
    <3> DEFINE a == Debits!Latest(Debits!Retries(m))
               next == [a EXCEPT ![3] = @ + 1]
    <3>1. Debits!Retries(m) \in SUBSET Debits!Attempts BY DEF Debits!Retries
    <3>2. a \in Debits!Retries(m) BY <2>2, <3>1, LatestIsOne
    <3>3. batch' = [batch EXCEPT ![b] = [pc |-> "PLANNED", day |-> day, at |-> next]]
      BY <2>2 DEF Debits!Planned
    <3> HIDE DEF a
    <3>4. a \in Debits!Attempts /\ attempt[a].status = "FAILED" /\ attempt[a].retry <= day
      BY <3>2 DEF Debits!Retries
    <3>5. attempt[a].retry # Debits!Never BY <1>2, <3>4, NeverIsDay
    <3>6. a[3] # MaxAttempts BY <3>4, <3>5 DEF DebitInv, LastTryEnds
    <3>7. next \in Debits!Attempts /\ Before(next) = a BY <3>4, <3>6, NextTry
    <3> HIDE DEF next
    <3> QED BY <3>3, <3>4, <3>7
  <2>3. CASE /\ day \in Debits!Unpaid(day) /\ \A n \in 1 .. MaxAttempts : ~Debits!Exists(<<m, day, n>>)
             /\ Debits!Planned(b, <<m, day, 1>>)
    <3> DEFINE first == <<m, day, 1>>
    <3>1. day \in DueDates /\ 1 \in 1 .. MaxAttempts
      BY <2>3, DebitAssumption DEF DebitAssumption, Debits!Unpaid
    <3>2. first \in Debits!Attempts /\ ~(first[3] > 1) BY <3>1, AttemptsAreTriples
    <3>3. batch' = [batch EXCEPT ![b] = [pc |-> "PLANNED", day |-> day, at |-> first]]
      BY <2>3 DEF Debits!Planned
    <3> HIDE DEF first
    <3> QED BY <3>2, <3>3
  <2> QED BY <2>1, <2>2, <2>3
<1>4. BatchesTyped' BY <1>2, <1>3 DEF DebitInv, BatchesTyped, BatchRows
<1>5. Debits!TypeOK' BY <1>1, <1>4 DEF DebitInv, Debits!TypeOK, BatchesTyped, BatchRows, Debits!Idle
<1> QED BY <1>1, <1>3, <1>4, <1>5
  DEF DebitInv, BatchesTyped, OneBatchAnswers, Answering, AskedOfRecorded, LastTryEnds,
      PlannedAfterFailure, FollowsFailure, RefusedIsTrue, Debits!DebitsAreTraced, Debits!Exists

\* The batch that acts on an attempt.
LEMMA ActsOn ==
  ASSUME DebitInv, NEW b \in Uploads, batch[b].pc # "IDLE"
  PROVE  /\ batch \in [Uploads -> BatchRows] /\ batch[b] \in BatchRows
         /\ batch[b].at \in Debits!Attempts /\ batch[b].day \in 1 .. LastDay
         /\ attempt[batch[b].at] \in AttemptRows
BY AttemptsTyped, NeverIsDay DEF DebitInv, BatchesTyped, BatchRows

LEMMA AskStep ==
  ASSUME DebitInv, NEW b \in Uploads, Debits!Ask(b) \/ Debits!LoseAnswer(b)
  PROVE  DebitInv'
<1> DEFINE a == batch[b].at
<1>1. /\ batch[b].pc = "ASK" /\ UNCHANGED <<day, mandate, attempt, paid>>
      /\ asked' = [asked EXCEPT ![a] = IF @ < 2 THEN @ + 1 ELSE @]
  BY DEF Debits!Ask, Debits!LoseAnswer, Debits!At
<1>2. /\ debited' \in {debited, debited \cup {a}} /\ lost' \in {lost, lost \cup {a}}
      /\ late' \in {late, late \cup {a}} /\ troubles' \in 0 .. MaxTroubles
  BY DebitAssumption
  DEF Debits!Ask, Debits!LoseAnswer, Debits!Trouble, DebitAssumption, DebitInv, Debits!TypeOK
<1>3. \/ batch' = [batch EXCEPT ![b].pc = "COLLECTED"]
      \/ /\ batch' = [batch EXCEPT ![b].pc = "REFUSED"]
         /\ debited' \ lost' = (debited \ lost) \ {a}
  <2>1. a \notin debited BY <1>1, ActsOn DEF DebitInv, AskedOfRecorded
  <2> QED BY <2>1 DEF Debits!Ask, Debits!LoseAnswer, Debits!Proceeds
<1>4. a \in Debits!Attempts /\ asked[a] = 0 /\ attempt[a].status = "PENDING"
  BY <1>1, ActsOn DEF DebitInv, AskedOfRecorded, OneBatchAnswers, Answering
<1>5. \A c \in Uploads : Answering(c) /\ c # b => batch[c].at # a
  BY <1>1 DEF DebitInv, OneBatchAnswers, Answering
<1>6. PICK stage \in {"COLLECTED", "REFUSED"} : batch' = [batch EXCEPT ![b].pc = stage]
  BY <1>3
<1>7. /\ batch' \in [Uploads -> BatchRows] /\ batch'[b].pc = stage
      /\ \A c \in Uploads : /\ batch'[c].at = batch[c].at /\ batch'[c].day = batch[c].day
                            /\ c # b => batch'[c] = batch[c]
  BY <1>1, <1>6, ActsOn DEF BatchRows
<1> HIDE DEF a
<1> USE DEF DebitInv
<1>8. BatchesTyped' BY <1>1, <1>7 DEF BatchesTyped
<1>9. Debits!TypeOK'
  <2>1. /\ debited' \subseteq Debits!Attempts /\ lost' \subseteq Debits!Attempts
        /\ late' \subseteq Debits!Attempts
    BY <1>2, <1>4 DEF Debits!TypeOK
  <2> QED BY <1>1, <1>2, <1>7, <2>1 DEF Debits!TypeOK
<1>10. OneBatchAnswers' BY <1>1, <1>5, <1>7 DEF OneBatchAnswers, Answering, a
<1>11. AskedOfRecorded'
  <2>1. asked' \in [Debits!Attempts -> {0, 1}]
        /\ \A c \in Debits!Attempts : asked'[c] = IF c = a THEN 1 ELSE asked[c]
    BY <1>1, <1>4 DEF AskedOfRecorded
  <2>2. \A c \in Uploads : batch'[c].pc = "ASK" => batch[c].pc = "ASK" /\ batch[c].at # a
    BY <1>1, <1>5, <1>6, <1>7 DEF Answering
  <2>3. \A c \in debited' : c \in Debits!Attempts /\ asked'[c] = 1
    BY <1>2, <1>4, <2>1 DEF AskedOfRecorded, Debits!TypeOK
  <2> QED BY <1>1, <1>4, <1>7, <1>8, <2>1, <2>2, <2>3
    DEF AskedOfRecorded, Debits!Exists, BatchesTyped
<1>12. PlannedAfterFailure' BY <1>1, <1>7 DEF PlannedAfterFailure
<1>13. LastTryEnds' /\ FollowsFailure'
  BY <1>1 DEF LastTryEnds, FollowsFailure, Debits!Exists
<1>14. RefusedIsTrue'
  <2>1. stage = "REFUSED" => a \notin debited' \ lost' BY <1>1, <1>3, <1>7, ActsOn DEF BatchRows
  <2>2. \A c \in Uploads : c # b /\ batch[c].pc = "REFUSED" => batch[c].at \notin debited' \ lost'
    BY <1>2, <1>5 DEF RefusedIsTrue, Answering
  <2> QED BY <1>7, <2>1, <2>2 DEF RefusedIsTrue, a
<1>15. Debits!DebitsAreTraced' BY <1>1, <1>2, <1>4 DEF Debits!DebitsAreTraced
<1> QED BY <1>8, <1>9, <1>10, <1>11, <1>12, <1>13, <1>14, <1>15

LEMMA LoanRefusesStep ==
  ASSUME DebitInv, NEW b \in Uploads, Debits!LoanRefuses(b)
  PROVE  DebitInv'
<1>1. /\ batch[b].pc = "COLLECTED" /\ batch' = [batch EXCEPT ![b].pc = "HOLD"]
      /\ UNCHANGED <<day, mandate, attempt, paid, asked, debited, lost, late, troubles>>
  BY DEF Debits!LoanRefuses, Debits!At, Debits!Proceeds, Debits!History
<1>2. /\ batch' \in [Uploads -> BatchRows] /\ batch'[b].pc = "HOLD"
      /\ \A c \in Uploads : /\ batch'[c].at = batch[c].at /\ batch'[c].day = batch[c].day
                            /\ c # b => batch'[c] = batch[c]
  BY <1>1, ActsOn DEF BatchRows
<1> QED BY <1>1, <1>2
  DEF DebitInv, Debits!TypeOK, BatchesTyped, OneBatchAnswers, Answering, AskedOfRecorded,
     LastTryEnds,
      PlannedAfterFailure, FollowsFailure, RefusedIsTrue, Debits!DebitsAreTraced, Debits!Exists

\* A batch ends, having written how its attempt went.
Answers(b, row) ==
  /\ Answering(b) /\ batch' = [batch EXCEPT ![b] = Debits!Idle]
  /\ attempt' = [attempt EXCEPT ![batch[b].at] = row]
  /\ UNCHANGED <<day, mandate, asked, debited, lost, late, troubles>>
  /\ row \in AttemptRows /\ row.status # "NONE" /\ row.status # "PENDING"
  /\ row.status = "FAILED" => batch[b].at \notin debited \ lost
  /\ row.status = "FAILED" /\ batch[b].at[3] = MaxAttempts => row.retry = Debits!Never

LEMMA AnswersKeep ==
  ASSUME DebitInv, NEW b \in Uploads, NEW row, Answers(b, row), paid' \in 0 .. Debits!Cardinality(DueDates)
  PROVE  DebitInv'
<1> DEFINE a == batch[b].at
<1> USE DEF DebitInv
<1>1. a \in Debits!Attempts /\ attempt[a].status = "PENDING"
  BY ActsOn DEF Answers, Answering, OneBatchAnswers
<1>2. /\ attempt' \in [Debits!Attempts -> AttemptRows]
      /\ \A c \in Debits!Attempts : attempt'[c] = IF c = a THEN row ELSE attempt[c]
  BY <1>1, AttemptsTyped DEF Answers
<1>3. \A c \in Uploads : batch'[c] = IF c = b THEN Debits!Idle ELSE batch[c]
  BY DEF Answers, BatchesTyped
<1>4. \A c \in Uploads : Answering(c) /\ c # b => batch[c].at # a
  BY DEF Answers, OneBatchAnswers
<1>5. BatchesTyped' BY <1>3, NeverIsDay DEF Answers, BatchesTyped, BatchRows, Debits!Idle
<1>6. Debits!TypeOK'
  BY <1>2, <1>5 DEF Answers, Debits!TypeOK, AttemptRows, BatchesTyped, BatchRows, Debits!Idle
<1> HIDE DEF a
<1>7. OneBatchAnswers'
  BY <1>2, <1>3, <1>4, AttemptsTyped DEF OneBatchAnswers, Answering, Debits!Idle
<1>8. AskedOfRecorded' BY <1>2, <1>3 DEF Answers, AskedOfRecorded, Debits!Exists, Debits!Idle
<1>9. LastTryEnds' BY <1>2 DEF Answers, LastTryEnds, a
<1>10. PlannedAfterFailure'
  BY <1>1, <1>2, <1>3, TryBefore, AttemptsTyped DEF PlannedAfterFailure, Debits!Idle
<1>11. FollowsFailure'
  <2> SUFFICES ASSUME NEW c \in Debits!Attempts, Debits!Exists(c)', c[3] > 1
               PROVE  attempt'[Before(c)].status = "FAILED" /\ attempt'[Before(c)].retry = Debits!Never
    BY DEF FollowsFailure
  <2>1. Debits!Exists(c) BY <1>1, <1>2 DEF Debits!Exists
  <2>2. attempt[Before(c)].status = "FAILED" /\ attempt[Before(c)].retry = Debits!Never
    BY <2>1 DEF FollowsFailure
  <2> QED BY <1>1, <1>2, <2>2, TryBefore
<1>12. RefusedIsTrue' BY <1>3 DEF Answers, RefusedIsTrue, Debits!Idle
<1>13. Debits!DebitsAreTraced'
  BY <1>2, AttemptsTyped DEF Answers, Debits!DebitsAreTraced, a, AttemptRows
<1> QED BY <1>5, <1>6, <1>7, <1>8, <1>9, <1>10, <1>11, <1>12, <1>13

LEMMA AnswerSteps ==
  ASSUME DebitInv, NEW b \in Uploads, Debits!WriteRefused(b) \/ Debits!Apply(b) \/ Debits!Hold(b)
  PROVE  DebitInv'
<1> DEFINE a == batch[b].at
<1>1. Answering(b) /\ batch' = [batch EXCEPT ![b] = Debits!Idle]
      /\ UNCHANGED <<day, mandate, asked, debited, lost, late, troubles>>
  BY DEF Debits!WriteRefused, Debits!Apply, Debits!Hold, Debits!At, Debits!Ends,
     Debits!History, Answering
<1>2. /\ a \in Debits!Attempts /\ attempt[a].status = "PENDING" /\ attempt[a] \in AttemptRows
      /\ batch[b].day \in 1 .. LastDay
  BY <1>1, ActsOn DEF DebitInv, OneBatchAnswers, Answering
<1>3. CASE Debits!WriteRefused(b)
  <2>1. PICK final \in BOOLEAN :
          attempt' = [attempt EXCEPT ![a].status = "FAILED",
                                     ![a].retry = Debits!NextRetry(a, batch[b].day, final)]
    BY <1>2, <1>3 DEF Debits!WriteRefused
  <2> DEFINE n == Debits!NextRetry(a, batch[b].day, final)
             row == [attempt[a] EXCEPT !.status = "FAILED", !.retry = n]
  <2>2. n \in 1 .. Debits!Never /\ (a[3] = MaxAttempts => n = Debits!Never)
    BY <1>2, NeverIsDay, DebitAssumption DEF Debits!NextRetry, Debits!Never, DebitAssumption
  <2>3. attempt' = [attempt EXCEPT ![a] = row]
    BY <1>2, <2>1, AttemptsTyped
  <2> HIDE DEF n
  <2>4. row \in AttemptRows /\ row.status = "FAILED" /\ row.retry = n BY <1>2, <2>2 DEF AttemptRows
  <2>5. a \notin debited \ lost
    BY <1>3 DEF DebitInv, RefusedIsTrue, Debits!WriteRefused, Debits!At
  <2> HIDE DEF row
  <2>6. Answers(b, row) BY <1>1, <2>2, <2>3, <2>4, <2>5 DEF Answers
  <2>7. paid' \in 0 .. Debits!Cardinality(DueDates)
    BY <1>3 DEF Debits!WriteRefused, DebitInv, Debits!TypeOK
  <2> QED BY <2>6, <2>7, AnswersKeep
<1>4. CASE Debits!Apply(b) \/ Debits!Hold(b)
  <2>1. PICK status \in {"SUCCEEDED", "SUSPENSE"} : attempt' = [attempt EXCEPT ![a].status = status]
    BY <1>2, <1>4 DEF Debits!Apply, Debits!Hold, Debits!Marked
  <2> DEFINE row == [attempt[a] EXCEPT !.status = status]
  <2>2. attempt' = [attempt EXCEPT ![a] = row] BY <1>2, <2>1, AttemptsTyped
  <2>3. row \in AttemptRows /\ row.status = status BY <1>2 DEF AttemptRows
  <2> HIDE DEF row
  <2>4. Answers(b, row) BY <1>1, <2>2, <2>3 DEF Answers
  <2>5. paid' \in 0 .. Debits!Cardinality(DueDates)
    BY <1>2, <1>4, DueIsNumber DEF Debits!Apply, Debits!Hold, DebitInv, Debits!TypeOK, AttemptRows
  <2> QED BY <2>4, <2>5, AnswersKeep
<1> QED BY <1>3, <1>4

\* The try before is not made again.
LEMMA WithoutGivesUp ==
  ASSUME DebitInv, NEW b \in Uploads, batch[b].pc = "PLANNED"
  PROVE  LET a == batch[b].at
             f == Debits!Without(a)
         IN  /\ f \in [Debits!Attempts -> AttemptRows]
             /\ \A c \in Debits!Attempts :
                  /\ f[c] # attempt[c] =>
                       attempt[c].status = "FAILED" /\ f[c].status = "FAILED" /\ f[c].retry = Debits!Never
                  /\ a[3] > 1 /\ c = Before(a) => f[c].status = "FAILED" /\ f[c].retry = Debits!Never
<1> DEFINE a == batch[b].at
<1>1. a \in Debits!Attempts BY ActsOn
<1>2. CASE a[3] = 1 BY <1>2, AttemptsTyped DEF Debits!Without
<1>3. CASE a[3] # 1
  <2>1. a[3] > 1 BY <1>1, <1>3, AttemptsAreTriples
  <2> DEFINE c == Before(a)
  <2>2. c \in Debits!Attempts /\ attempt[c].status = "FAILED" /\ attempt[c] \in AttemptRows
    BY <1>1, <2>1, TryBefore, AttemptsTyped DEF DebitInv, PlannedAfterFailure
  <2>3. Debits!Without(a) = [attempt EXCEPT ![c] = [attempt[c] EXCEPT !.retry = Debits!Never]]
    BY <1>3, <2>2, AttemptsTyped DEF Debits!Without, Before
  <2> HIDE DEF c
  <2> DEFINE row == [attempt[c] EXCEPT !.retry = Debits!Never]
  <2>4. row \in AttemptRows /\ row.status = "FAILED" /\ row.retry = Debits!Never
    BY <2>2, RetryNever
  <2> HIDE DEF row
  <2>5. Debits!Without(a) = [attempt EXCEPT ![c] = row] BY <2>3 DEF row
  <2> QED BY <2>2, <2>4, <2>5, AttemptsTyped DEF c
<1> QED BY <1>2, <1>3

LEMMA RecordStep ==
  ASSUME DebitInv, NEW b \in Uploads, Debits!Record(b)
  PROVE  DebitInv'
<1> DEFINE a == batch[b].at
           amount == Debits!AmountDue(batch[b].day)
           f == Debits!Without(a)
<1>1. /\ batch[b].pc = "PLANNED"
      /\ UNCHANGED <<day, mandate, paid, asked, debited, lost, late, troubles>>
  BY DEF Debits!Record, Debits!At, Debits!History
<1>2. /\ a \in Debits!Attempts /\ batch[b].day \in 1 .. LastDay
      /\ batch \in [Uploads -> BatchRows] /\ batch[b] \in BatchRows
      /\ amount \in 0 .. Debits!Cardinality(DueDates)
  BY <1>1, ActsOn, DueIsNumber
<1>3. f \in [Debits!Attempts -> AttemptRows]
  BY <1>1, WithoutGivesUp
<1>4. \A c \in Debits!Attempts :
        /\ f[c] # attempt[c] =>
             attempt[c].status = "FAILED" /\ f[c].status = "FAILED" /\ f[c].retry = Debits!Never
        /\ a[3] > 1 /\ c = Before(a) => f[c].status = "FAILED" /\ f[c].retry = Debits!Never
  BY <1>1, WithoutGivesUp
<1>5. CASE batch' = [batch EXCEPT ![b] = Debits!Idle] /\ (attempt' = f \/ attempt' = attempt)
  <2> HIDE DEF f
  <2>1. BatchesTyped' BY <1>5, NeverIsDay DEF DebitInv, BatchesTyped, BatchRows, Debits!Idle
  <2>2. GivesUp BY <1>3, <1>4, <1>5, AttemptsTyped DEF GivesUp
  <2>3. Debits!TypeOK'
    BY <1>1, <2>1, <2>2 DEF DebitInv, Debits!TypeOK, GivesUp, AttemptRows, BatchesTyped,
       BatchRows, Debits!Idle
  <2>4. \A c \in Uploads : batch'[c] = batch[c] \/ batch'[c].pc = "IDLE"
    BY <1>2, <1>5 DEF Debits!Idle
  <2> QED BY <1>1, <2>1, <2>2, <2>3, <2>4, GivingUp
<1> DEFINE row == [status |-> "PENDING", amount |-> amount, day |-> batch[b].day, retry |-> Debits!Never]
<1>6. CASE /\ attempt[a].status = "NONE" /\ attempt' = [f EXCEPT ![a] = row]
           /\ batch' = [batch EXCEPT ![b].pc = "ASK"]
  <2> HIDE DEF f, amount
  <2>1. row \in AttemptRows /\ row.status = "PENDING" BY <1>2, NeverIsDay DEF AttemptRows
  <2> HIDE DEF row
  <2>2. /\ attempt' \in [Debits!Attempts -> AttemptRows]
        /\ \A c \in Debits!Attempts : attempt'[c] = IF c = a THEN row ELSE f[c]
    BY <1>2, <1>3, <1>6, <2>1
  <2>3. /\ \A c \in Debits!Attempts : c # a =>
             /\ attempt'[c].status = attempt[c].status
             /\ attempt'[c].retry \in {attempt[c].retry, Debits!Never}
        /\ attempt'[a].status = "PENDING"
    BY <1>2, <1>4, <2>1, <2>2
  <2>4. /\ batch' \in [Uploads -> BatchRows] /\ batch'[b].pc = "ASK"
        /\ \A c \in Uploads : /\ batch'[c].at = batch[c].at /\ batch'[c].day = batch[c].day
                              /\ c # b => batch'[c] = batch[c]
    BY <1>2, <1>6 DEF BatchRows
  <2> USE DEF DebitInv
  <2>5. \A c \in Uploads : Answering(c) => batch[c].at # a
    BY <1>6 DEF OneBatchAnswers
  <2>6. asked[a] = 0 /\ a \notin debited
    BY <1>2, <1>6 DEF AskedOfRecorded, Debits!Exists
  <2>7. BatchesTyped' BY <1>1, <2>4 DEF BatchesTyped
  <2>8. Debits!TypeOK' BY <1>1, <2>2, <2>4 DEF Debits!TypeOK, AttemptRows
  <2>9. OneBatchAnswers'
    BY <1>1, <2>3, <2>4, <2>5, AttemptsTyped DEF OneBatchAnswers, Answering
  <2>10. AskedOfRecorded' BY <1>1, <2>3, <2>4, <2>6 DEF AskedOfRecorded, Debits!Exists
  <2>11. LastTryEnds' BY <2>3 DEF LastTryEnds
  <2>12. PlannedAfterFailure'
    BY <1>2, <1>6, <2>3, <2>4, TryBefore, AttemptsTyped DEF PlannedAfterFailure
  <2>13. FollowsFailure'
    <3> SUFFICES ASSUME NEW c \in Debits!Attempts, Debits!Exists(c)', c[3] > 1
                 PROVE  attempt'[Before(c)].status = "FAILED" /\ attempt'[Before(c)].retry = Debits!Never
      BY DEF FollowsFailure
    <3>1. Before(c) \in Debits!Attempts /\ Before(c) # c BY TryBefore
    <3>2. CASE c = a BY <1>4, <2>2, <3>1, <3>2
    <3>3. CASE c # a
      <4>1. Debits!Exists(c) BY <2>3, <3>3 DEF Debits!Exists
      <4>2. attempt[Before(c)].status = "FAILED" /\ attempt[Before(c)].retry = Debits!Never
        BY <4>1 DEF FollowsFailure
      <4> QED BY <1>6, <2>3, <3>1, <4>2
    <3> QED BY <3>2, <3>3
  <2>14. RefusedIsTrue' BY <1>1, <2>4 DEF RefusedIsTrue
  <2>15. Debits!DebitsAreTraced' BY <1>1, <2>3, AttemptsTyped DEF Debits!DebitsAreTraced
  <2> QED BY <2>7, <2>8, <2>9, <2>10, <2>11, <2>12, <2>13, <2>14, <2>15
<1> QED BY <1>5, <1>6
  DEF Debits!Record, Debits!Ends, Debits!Proceeds, Debits!Free, Debits!Exists

\* No step of a batch, or around it, disturbs the debits.
LEMMA DebitStep ==
  ASSUME DebitInv, Debits!Next
  PROVE  DebitInv'
BY AroundTheBatch, RevokeStep, PlanStep, RecordStep, AskStep, AnswerSteps, LoanRefusesStep, DieStep
DEF Debits!Next

\* What the invariant says is what was to be shown.
LEMMA DebitInvImplies == DebitInv => Debits!DebitsInTurn
<1> SUFFICES ASSUME DebitInv PROVE Debits!DebitsInTurn OBVIOUS
<1>1. Debits!TriesInTurn
  <2>1. \A a \in Debits!Attempts : asked[a] <= 1 BY DEF DebitInv, AskedOfRecorded
  <2>2. FollowsFailure BY DEF DebitInv
  <2>3. ASSUME NEW a \in Debits!Attempts, Debits!Exists(a), a[3] > 1
        PROVE  /\ attempt[<<a[1], a[2], a[3] - 1>>].status = "FAILED"
               /\ attempt[<<a[1], a[2], a[3] - 1>>].retry = Debits!Never
    BY <2>2, <2>3, Zenon DEF FollowsFailure, Before
  <2> QED BY <2>1, <2>3, Zenon DEF Debits!TriesInTurn
<1> QED BY <1>1 DEF DebitInv, Debits!DebitsInTurn

\* collectDue, for any mandates, instalments, batches under way at once and troubles
\* they meet: the tries of a due date come one after another, each asked of the bank
\* once, and what the bank took without losing its answer is with an attempt that is
\* pending, posted or in suspense.
THEOREM EveryDebitInTurn == MCSpec => []DebitsInTurn
<1> DEFINE Inv == scene = "debits" => DebitInv
<1>1. MCInit => Inv BY DebitInit DEF MCInit
<1>2. Inv /\ [MCNext]_allVars => Inv'
  <2> SUFFICES ASSUME Inv, [MCNext]_allVars, scene' = "debits" PROVE DebitInv' OBVIOUS
  <2>1. scene = "debits" /\ DebitInv BY DEF MCNext, allVars
  <2>2. CASE Debits!Next BY <2>1, <2>2, DebitStep
  <2>3. CASE UNCHANGED <<day, mandate, attempt, paid, batch, asked, debited, lost, late, troubles>>
    <3>1. Debits!TypeOK' BY <2>1, <2>3 DEF DebitInv, Debits!TypeOK
    <3> QED BY <2>1, <2>3, <3>1, DebitsUntouched
  <2> QED BY <2>1, <2>2, <2>3 DEF MCNext, allVars, vars, debitVars
<1>3. Inv => DebitsInTurn BY DebitInvImplies DEF DebitsInTurn
<1> QED BY <1>1, <1>2, <1>3, PTL DEF MCSpec

-----------------------------------------------------------------------------
(* Receipts, statements and suspense. *)

Lines == Transfers \cup Channels

\* Payments of each kind are told apart, and every amount is one of money.
ReceiptsConstants ==
  /\ Amount \in [Money!Payments -> Nat \ {0}]
  /\ Transfers \cap Walkins = {} /\ Channels \cap Walkins = {}
  /\ Nobody \notin Money!Payments
  /\ Listed \subseteq Transfers
  /\ Receipts \subseteq Nat \ {0}
  /\ AutoPosts \subseteq BOOLEAN

ReceiptRows == [status : {"NONE", "PENDING", "POSTED", "REJECTED"}, ref : Transfers \cup {Nobody},
         amount : Money!Sums \cup {0}, maker : Money!Makers \cup {Nobody}, held : Transfers \cup {Nobody}]
Accounts == [status : {"NONE", "OPEN", "MATCHED", "REFUNDED"}, remaining : Nat]
Tasks == [amount : Money!Sums \cup {0}, maker : People \cup {Nobody}]
Forms == [ref : Transfers \cup {Nobody}, amount : Money!Sums \cup {0}, maker : Money!Makers \cup {Nobody},
          held : Transfers \cup {Nobody}]
Decisions == [kind : {"IDLE", "LOAN", "RECEIPT", "SUSPENSE"}, at : Lines \cup {Nobody},
              receipt : Receipts \cup {0}, auto : BOOLEAN, held : Transfers \cup {Nobody}]

\* What an import has decided is about a line, and what it did not post by itself
\* about a statement's.
Decided(d) ==
  /\ d.kind # "IDLE" => d.at \in Lines /\ (~d.auto => d.at \in Transfers)
  /\ d.kind = "RECEIPT" => d.receipt \in Receipts /\ d.at \in Transfers

ReceiptsAreTyped ==
  /\ coming \in Scenes
  /\ receipt \in [Receipts -> ReceiptRows]
  /\ line \in [Lines -> {"NONE", "POSTED", "SUSPENSE"}]
  /\ held \in [Money!Payments -> Accounts]
  /\ refund \in [Money!Payments -> Tasks]
  /\ upload \in [Uploads -> Decisions] /\ \A u \in Uploads : Decided(upload[u])
  /\ form \in [Recorders -> Forms]
  /\ \A f \in Recorders : form[f] # Money!NoForm => form[f].ref \in Transfers
  /\ cash \in [Money!Payments -> Nat]
  /\ posts \in [Receipts -> Nat]
  /\ spent \in [Money!Payments -> [matched : Nat, refunded : Nat]]

\* The unique index: a reference has one receipt that was not rejected.
Stands(r) == receipt[r].status \in {"PENDING", "POSTED"}
OneStanding ==
  /\ \A r \in Receipts : receipt[r].status # "NONE" => receipt[r].ref \in Transfers
  /\ \A r, k \in Receipts : Stands(r) /\ Stands(k) /\ receipt[r].ref = receipt[k].ref => r = k

\* What a receipt, or a form, is linked to was filed as held money.
Links(x) == x.held # Nobody => line[x.held] = "SUSPENSE"
LinkedToHeld ==
  /\ \A r \in Receipts : Links(receipt[r])
  /\ \A f \in Recorders : Links(form[f])

\* Money of a line is held once the line is filed so, and not before.
HeldWhenFiled ==
  /\ \A h \in Money!Payments : held[h].status = "NONE" =>
       held[h] = Money!NotHeld /\ spent[h] = [matched |-> 0, refunded |-> 0]
  /\ \A t \in Lines : line[t] # "SUSPENSE" => held[t].status = "NONE"

\* While no receipt of a transfer is posted, it is entered where its line is held.
Unposted(t) == \A r \in Receipts : receipt[r].status = "POSTED" => receipt[r].ref # t
EnteredWhenHeld == \A t \in Transfers : Unposted(t) =>
  /\ line[t] = "NONE" => cash[t] = 0
  /\ line[t] = "SUSPENSE" => cash[t] = 1

ReceiptsInv == ReceiptsAreTyped /\ OneStanding /\ LinkedToHeld /\ HeldWhenFiled /\ EnteredWhenHeld
          /\ Money!PostedOnce /\ Money!HeldOnce /\ Money!LinkedOnce
-----------------------------------------------------------------------------
(* What the parts of a step keep. *)

\* A filed line stays filed as it is.
FiledStays ==
  /\ line' \in [Lines -> {"NONE", "POSTED", "SUSPENSE"}]
  /\ \A t \in Lines : line[t] = "SUSPENSE" => line'[t] = "SUSPENSE"

HeldTyped == held \in [Money!Payments -> Accounts] /\ spent \in [Money!Payments -> [matched : Nat, refunded : Nat]]

HeldAgrees == HeldTyped /\ HeldWhenFiled /\ Money!HeldOnce

\* Amounts are whole money.
LEMMA Whole == ASSUME ReceiptsConstants
  PROVE  /\ Money!Sums \subseteq Nat /\ \A p \in Money!Payments : Amount[p] \in Nat /\ Amount[p] > 0
         /\ \A p \in Money!Payments : Amount[p] \in Money!Sums
         /\ Lines \subseteq Money!Payments /\ Nobody \notin Lines /\ 0 \notin Receipts
  BY DEF ReceiptsConstants, Money!Sums, Money!Payments, Lines

\* What is owed of held money is neither matched nor refunded twice.
LEMMA SettleKeeps ==
  ASSUME ReceiptsConstants, ReceiptsInv, FiledStays, NEW h \in Money!Payments, NEW n \in Nat,
         NEW kind \in {"MATCH", "REFUND"}, Money!Open(h), n <= held[h].remaining, Money!Settle(h, n, kind)
  PROVE  HeldAgrees'
<1> DEFINE account == Money!Settled(h, n, kind)
           out == spent'[h]
<1>1. held[h] \in Accounts /\ spent[h] \in [matched : Nat, refunded : Nat]
      /\ held[h].status = "OPEN"
  BY DEF ReceiptsInv, ReceiptsAreTyped, Money!Open
<1>2. /\ account \in Accounts /\ account.remaining = held[h].remaining - n
      /\ account.status # "NONE" /\ (account.status = "OPEN" <=> account.remaining # 0)
  <2> DEFINE m == held[h].remaining - n
             ending == IF kind = "MATCH" \/ spent[h].matched > 0 THEN "MATCHED" ELSE "REFUNDED"
             status == IF held[h].remaining # n THEN "OPEN" ELSE ending
  <2>1. m \in Nat /\ (held[h].remaining # n <=> m # 0) BY <1>1 DEF Accounts
  <2>2. account = [held[h] EXCEPT !.remaining = m, !.status = status] BY DEF Money!Settled
  <2>3. status \in {"OPEN", "MATCHED", "REFUNDED"} /\ (status = "OPEN" <=> m # 0) BY <2>1
  <2> HIDE DEF account, m, status
  <2>4. account \in Accounts /\ account.remaining = m /\ account.status = status
    BY <1>1, <2>1, <2>2, <2>3 DEF Accounts
  <2> QED BY <2>3, <2>4 DEF m
<1>3. /\ \A p \in Money!Payments : p # h => spent'[p] = spent[p]
      /\ spent' \in [Money!Payments -> [matched : Nat, refunded : Nat]]
      /\ out.matched + out.refunded = spent[h].matched + spent[h].refunded + n
  <2>1. CASE kind = "MATCH" BY <1>1, <2>1 DEF Money!Settle, ReceiptsInv, ReceiptsAreTyped
  <2>2. CASE kind = "REFUND" BY <1>1, <2>2 DEF Money!Settle, ReceiptsInv, ReceiptsAreTyped
  <2> QED BY <2>1, <2>2
<1>4. held' = [held EXCEPT ![h] = account] BY DEF Money!Settle
<1>5. out \in [matched : Nat, refunded : Nat] BY <1>3
<1> HIDE DEF account, out
<1>6. HeldTyped' BY <1>2, <1>3, <1>4 DEF HeldTyped, ReceiptsInv, ReceiptsAreTyped
<1>7. /\ held'[h] = account /\ spent'[h] = out
      /\ \A p \in Money!Payments : p # h => held'[p] = held[p] /\ spent'[p] = spent[p]
  BY <1>3, <1>4 DEF ReceiptsInv, ReceiptsAreTyped, out
<1>8. HeldWhenFiled'
  BY <1>1, <1>2, <1>7, Whole DEF HeldWhenFiled, ReceiptsInv, FiledStays
<1>9. Money!HeldOnce'
  <2>1. held[h].remaining + spent[h].matched + spent[h].refunded = Amount[h]
    BY <1>1 DEF ReceiptsInv, Money!HeldOnce
  <2>2. account.remaining + out.matched + out.refunded = Amount[h]
    BY <1>1, <1>2, <1>3, <1>5, <2>1 DEF Accounts
  <2>3. account.remaining >= 0 /\ (account.status = "OPEN") = (account.remaining > 0)
    BY <1>2 DEF Accounts
  <2> QED BY <1>7, <2>2, <2>3 DEF Money!HeldOnce, ReceiptsInv
<1> QED BY <1>6, <1>8, <1>9 DEF HeldAgrees

\* Held money that no step touches agrees as before.
LEMMA HeldUntouched ==
  ASSUME ReceiptsConstants, ReceiptsInv, FiledStays, UNCHANGED <<held, spent>>
  PROVE  HeldAgrees'
<1>1. HeldTyped' /\ Money!HeldOnce' BY DEF HeldTyped, ReceiptsInv, ReceiptsAreTyped, Money!HeldOnce
<1>2. HeldWhenFiled' BY DEF HeldWhenFiled, ReceiptsInv, FiledStays
<1> QED BY <1>1, <1>2 DEF HeldAgrees

\* A repayment of a receipt takes held money, or enters cash for one payment.
LEMMA FundKeeps ==
  ASSUME ReceiptsConstants, ReceiptsInv, FiledStays, NEW link \in Transfers \cup {Nobody},
         NEW n \in Nat, NEW used \in Money!Payments, Money!Fund(link, n, used)
  PROVE  /\ HeldAgrees'
         /\ cash' \in [Money!Payments -> Nat]
         /\ \A p \in Money!Payments : p # used => cash'[p] = cash[p]
         /\ link # Nobody => cash' = cash
<1>1. cash \in [Money!Payments -> Nat] BY DEF ReceiptsInv, ReceiptsAreTyped
<1>2. CASE link = Nobody
  <2>1. /\ cash' = [cash EXCEPT ![used] = Money!Count(cash[used])] /\ UNCHANGED <<held, spent>>
    BY <1>2 DEF Money!Fund
  <2>2. Money!Count(cash[used]) \in Nat BY <1>1 DEF Money!Count
  <2>3. HeldAgrees' BY <2>1, HeldUntouched
  <2> QED BY <1>1, <1>2, <2>1, <2>2, <2>3
<1>3. CASE link # Nobody
  <2>1. link \in Money!Payments BY <1>3 DEF Money!Payments
  <2>2. Money!Open(link) /\ n <= held[link].remaining /\ Money!Settle(link, n, "MATCH") /\ cash' = cash
    BY <1>3 DEF Money!Fund
  <2>3. HeldAgrees' BY <2>1, <2>2, SettleKeeps
  <2> QED BY <1>1, <2>2, <2>3
<1> QED BY <1>2, <1>3

ReceiptsTyped == receipt \in [Receipts -> ReceiptRows] /\ posts \in [Receipts -> Nat]

\* A receipt that was pending is posted, once; its reference stays taken.
LEMMA PostingKeeps ==
  ASSUME ReceiptsConstants, ReceiptsInv, FiledStays, NEW r \in Receipts, receipt[r].status = "PENDING",
         receipt' = [receipt EXCEPT ![r].status = "POSTED"],
         posts' = [posts EXCEPT ![r] = Money!Count(@)], UNCHANGED form
  PROVE  /\ ReceiptsTyped' /\ OneStanding' /\ LinkedToHeld' /\ Money!PostedOnce'
         /\ receipt[r].ref \in Transfers /\ Unposted(receipt[r].ref)
         /\ \A k \in Receipts : /\ k # r => receipt'[k] = receipt[k]
                                /\ receipt'[k].ref = receipt[k].ref
                                /\ receipt'[k].held = receipt[k].held
         /\ receipt'[r].status = "POSTED"
<1> DEFINE row == [receipt[r] EXCEPT !.status = "POSTED"]
<1>1. receipt \in [Receipts -> ReceiptRows] /\ posts \in [Receipts -> Nat] /\ receipt[r] \in ReceiptRows
  BY DEF ReceiptsInv, ReceiptsAreTyped
<1>2. receipt' = [receipt EXCEPT ![r] = row] OBVIOUS
<1>3. /\ row \in ReceiptRows /\ row.status = "POSTED"
      /\ row.ref = receipt[r].ref /\ row.held = receipt[r].held
  BY <1>1 DEF ReceiptRows
<1> HIDE DEF row
<1>4. /\ \A k \in Receipts : k # r => receipt'[k] = receipt[k]
      /\ receipt'[r] = row
  BY <1>1, <1>2
<1>5. posts[r] = 0 BY DEF ReceiptsInv, Money!PostedOnce
<1>6. ReceiptsTyped' BY <1>1, <1>2, <1>3, <1>5 DEF ReceiptsTyped, Money!Count
<1>7. Money!PostedOnce' BY <1>1, <1>3, <1>4, <1>5 DEF Money!PostedOnce, ReceiptsInv, Money!Count
<1>8. OneStanding' BY <1>3, <1>4 DEF OneStanding, Stands, ReceiptsInv
<1>9. \A k \in Receipts : /\ receipt'[k].ref = receipt[k].ref
                          /\ receipt'[k].held = receipt[k].held
  BY <1>3, <1>4
<1>10. LinkedToHeld'
  <2>1. \A k \in Receipts : receipt[k].held \in Transfers \cup {Nobody}
    BY <1>1 DEF ReceiptRows
  <2>2. \A f \in Recorders : form[f].held \in Transfers \cup {Nobody}
    BY DEF ReceiptsInv, ReceiptsAreTyped, Forms
  <2> QED BY <1>9, <2>1, <2>2 DEF LinkedToHeld, Links, FiledStays, ReceiptsInv, Lines
<1>11. receipt[r].ref \in Transfers /\ Unposted(receipt[r].ref)
  BY DEF ReceiptsInv, OneStanding, Stands, Unposted
<1> QED BY <1>3, <1>4, <1>6, <1>7, <1>8, <1>9, <1>10, <1>11

\* The money of a posted receipt is entered for a line that was not filed, or for
\* its reference where it is not linked to held money.
LEMMA EnteredKeeps ==
  ASSUME ReceiptsConstants, ReceiptsInv, FiledStays, NEW r \in Receipts, NEW used \in Money!Payments,
         receipt[r].status = "PENDING",
         receipt' = [receipt EXCEPT ![r].status = "POSTED"],
         posts' = [posts EXCEPT ![r] = Money!Count(@)], UNCHANGED form,
         cash \in [Money!Payments -> Nat], cash' \in [Money!Payments -> Nat],
         \A p \in Money!Payments : p # used => cash'[p] = cash[p],
         \/ /\ used = receipt[r].ref /\ line' = line
            /\ receipt[r].held # Nobody => cash' = cash
         \/ /\ used \in Lines /\ line[used] = "NONE" /\ line'[used] = "POSTED"
            /\ \A t \in Lines : t # used => line'[t] = line[t]
  PROVE  EnteredWhenHeld' /\ Money!LinkedOnce'
<1> Transfers \subseteq Money!Payments /\ Transfers \subseteq Lines BY DEF Money!Payments, Lines
<1>1. EnteredWhenHeld'
  <2> SUFFICES ASSUME NEW t \in Transfers, Unposted(t)'
               PROVE  /\ line'[t] = "NONE" => cash'[t] = 0
                      /\ line'[t] = "SUSPENSE" => cash'[t] = 1
    BY DEF EnteredWhenHeld
  <2>0. /\ \A k \in Receipts : (k # r => receipt'[k] = receipt[k]) /\ receipt'[k].ref = receipt[k].ref
        /\ receipt'[r].status = "POSTED"
    BY PostingKeeps, Zenon
  <2>1. Unposted(t) /\ t # receipt[r].ref BY <2>0 DEF Unposted
  <2>2. /\ line[t] = "NONE" => cash[t] = 0
        /\ line[t] = "SUSPENSE" => cash[t] = 1
    BY <2>1 DEF ReceiptsInv, EnteredWhenHeld
  <2> QED BY <2>1, <2>2
<1>2. Money!LinkedOnce'
  <2> SUFFICES ASSUME NEW k \in Receipts, receipt'[k].status = "POSTED",
                      receipt'[k].held = receipt'[k].ref
               PROVE  cash'[receipt'[k].ref] = 1
    BY DEF Money!LinkedOnce
  <2> DEFINE t == receipt[k].ref
  <2>1. receipt'[k].ref = t /\ receipt[k].held = t BY PostingKeeps
  <2>2. receipt[k].status \in {"PENDING", "POSTED"} BY PostingKeeps
  <2>3. t \in Transfers /\ t # Nobody /\ line[t] = "SUSPENSE"
    BY <2>1, <2>2 DEF ReceiptsInv, OneStanding, LinkedToHeld, Links, ReceiptsConstants,
       Money!Payments
  <2>4. CASE k = r
    <3>1. cash[t] = 1 BY <2>3, <2>4, PostingKeeps DEF ReceiptsInv, EnteredWhenHeld
    <3> QED BY <2>1, <2>3, <2>4, <3>1
  <2>5. CASE k # r
    <3>1. receipt[k].status = "POSTED" BY <2>5, PostingKeeps
    <3>2. cash[t] = 1 BY <2>1, <3>1 DEF ReceiptsInv, Money!LinkedOnce
    <3>3. t # receipt[r].ref BY <2>5, <3>1 DEF ReceiptsInv, OneStanding, Stands
    <3> QED BY <2>1, <2>3, <3>2, <3>3
  <2> QED BY <2>4, <2>5
<1> QED BY <1>1, <1>2
-----------------------------------------------------------------------------
(* One lemma for each kind of step. *)

\* Nothing has happened.
LEMMA ReceiptsBegin == ReceiptsConstants /\ Money!Init => ReceiptsInv
<1> SUFFICES ASSUME ReceiptsConstants, Money!Init PROVE ReceiptsInv OBVIOUS
<1> USE DEF Money!Init, Money!NoReceipt, Money!NotHeld, Money!NoTask, Money!NoUpload, Money!NoForm
<1>1. ReceiptsAreTyped
  BY DEF ReceiptsAreTyped, ReceiptRows, Accounts, Tasks, Forms, Decisions, Decided, Lines
<1>2. OneStanding /\ LinkedToHeld BY DEF OneStanding, Stands, LinkedToHeld, Links
<1>3. HeldWhenFiled BY DEF HeldWhenFiled, Lines, Money!Payments
<1>4. EnteredWhenHeld BY DEF EnteredWhenHeld, Lines, Money!Payments
<1>5. Money!PostedOnce /\ Money!HeldOnce /\ Money!LinkedOnce
  BY DEF Money!PostedOnce, Money!HeldOnce, Money!LinkedOnce
<1> QED BY <1>1, <1>2, <1>3, <1>4, <1>5 DEF ReceiptsInv

\* A step that touches neither lines, receipts, forms nor cash.
LEMMA SuspenseKeeps ==
  ASSUME ReceiptsConstants, ReceiptsInv, HeldAgrees', refund' \in [Money!Payments -> Tasks],
         UNCHANGED <<coming, receipt, line, upload, form, cash, posts>>
  PROVE  ReceiptsInv'
<1> USE DEF ReceiptsInv
<1>1. ReceiptsAreTyped' BY DEF ReceiptsAreTyped, HeldAgrees, HeldTyped
<1>2. OneStanding' /\ LinkedToHeld' /\ EnteredWhenHeld' /\ Money!PostedOnce' /\ Money!LinkedOnce'
  BY DEF OneStanding, Stands, LinkedToHeld, Links, EnteredWhenHeld, Unposted, Money!PostedOnce,
         Money!LinkedOnce
<1> QED BY <1>1, <1>2 DEF HeldAgrees

\* Matches and refunds of held money.
LEMMA SuspenseStep ==
  ASSUME ReceiptsConstants, ReceiptsInv, NEW h \in Money!Payments,
         \/ \E n \in Money!Sums : Money!Match(h, n)
         \/ \E p \in People, n \in Money!Sums : Money!ProposeRefund(p, h, n)
         \/ \E p \in People : Money!ApproveRefund(p, h) \/ Money!RejectRefund(p, h)
  PROVE  ReceiptsInv'
<1> FiledStays
  BY DEF Money!Match, Money!ProposeRefund, Money!ApproveRefund, Money!RejectRefund, FiledStays,
     ReceiptsInv, ReceiptsAreTyped
<1>1. refund \in [Money!Payments -> Tasks] /\ Money!NoTask \in Tasks
  BY DEF ReceiptsInv, ReceiptsAreTyped, Tasks, Money!NoTask
<1>2. ASSUME NEW n \in Money!Sums, Money!Match(h, n) PROVE ReceiptsInv'
  <2>1. HeldAgrees' BY <1>2, SettleKeeps, Whole DEF Money!Match
  <2> QED BY <1>1, <1>2, <2>1, SuspenseKeeps DEF Money!Match
<1>3. ASSUME NEW p \in People, NEW n \in Money!Sums, Money!ProposeRefund(p, h, n) PROVE ReceiptsInv'
  <2>1. HeldAgrees' BY <1>3, HeldUntouched DEF Money!ProposeRefund
  <2>2. refund' \in [Money!Payments -> Tasks] BY <1>1, <1>3 DEF Money!ProposeRefund, Tasks
  <2> QED BY <1>3, <2>1, <2>2, SuspenseKeeps DEF Money!ProposeRefund
<1>4. ASSUME NEW p \in People, Money!ApproveRefund(p, h) PROVE ReceiptsInv'
  <2>1. refund[h].amount \in Nat BY <1>1, Whole DEF Tasks
  <2>2. HeldAgrees' BY <1>4, <2>1, SettleKeeps DEF Money!ApproveRefund, Money!Covers
  <2>3. refund' \in [Money!Payments -> Tasks] BY <1>1, <1>4 DEF Money!ApproveRefund
  <2> QED BY <1>4, <2>2, <2>3, SuspenseKeeps DEF Money!ApproveRefund
<1>5. ASSUME NEW p \in People, Money!RejectRefund(p, h) PROVE ReceiptsInv'
  <2>1. HeldAgrees' BY <1>5, HeldUntouched DEF Money!RejectRefund
  <2>2. refund' \in [Money!Payments -> Tasks] BY <1>1, <1>5 DEF Money!RejectRefund
  <2> QED BY <1>5, <2>1, <2>2, SuspenseKeeps DEF Money!RejectRefund
<1> QED BY <1>2, <1>3, <1>4, <1>5

\* Money that came in becomes held, in full.
LEMMA HeldBegins ==
  ASSUME ReceiptsConstants, ReceiptsInv, FiledStays, NEW h \in Money!Payments, held[h].status = "NONE",
         held' = [held EXCEPT ![h] = Money!Received(h)], UNCHANGED spent,
         h \in Lines => line'[h] = "SUSPENSE"
  PROVE  HeldAgrees'
<1>1. Amount[h] \in Nat /\ Amount[h] > 0 BY Whole
<1>2. HeldTyped' BY <1>1 DEF HeldTyped, ReceiptsInv, ReceiptsAreTyped, Money!Received, Accounts
<1>3. \A p \in Money!Payments : held'[p] = IF p = h THEN Money!Received(h) ELSE held[p]
  BY DEF ReceiptsInv, ReceiptsAreTyped
<1>4. HeldWhenFiled' BY <1>3, Whole DEF HeldWhenFiled, ReceiptsInv, FiledStays, Money!Received
<1>5. spent[h] = [matched |-> 0, refunded |-> 0] BY DEF ReceiptsInv, HeldWhenFiled
<1>6. Money!HeldOnce' BY <1>1, <1>3, <1>5 DEF Money!HeldOnce, ReceiptsInv, Money!Received
<1> QED BY <1>2, <1>4, <1>6 DEF HeldAgrees

\* Staff enter money of unknown origin.
LEMMA ReceiveStep ==
   ASSUME ReceiptsConstants, ReceiptsInv, NEW h \in Walkins, Money!Receive(h)
   PROVE ReceiptsInv'
<1> USE DEF ReceiptsInv
<1>1. h \in Money!Payments /\ h \notin Lines /\ h \notin Transfers
  BY DEF ReceiptsConstants, Money!Payments, Lines
<1>2. FiledStays BY DEF Money!Receive, FiledStays, ReceiptsAreTyped
<1>3. HeldAgrees' BY <1>1, <1>2, HeldBegins DEF Money!Receive
<1>4. cash' = [cash EXCEPT ![h] = Money!Count(cash[h])] /\ cash \in [Money!Payments -> Nat]
  BY DEF Money!Receive, ReceiptsAreTyped
<1>5. cash' \in [Money!Payments -> Nat] /\ \A t \in Transfers : cash'[t] = cash[t]
  BY <1>1, <1>4 DEF Money!Count, Money!Payments
<1>6. ReceiptsAreTyped' BY <1>3, <1>5 DEF ReceiptsAreTyped, HeldAgrees, HeldTyped, Money!Receive
<1>7. EnteredWhenHeld' /\ Money!LinkedOnce'
  BY <1>5 DEF Money!Receive, EnteredWhenHeld, Unposted, Money!LinkedOnce, OneStanding
<1>8. OneStanding' /\ LinkedToHeld' /\ Money!PostedOnce'
  BY DEF Money!Receive, OneStanding, Stands, LinkedToHeld, Links, Money!PostedOnce
<1> QED BY <1>3, <1>6, <1>7, <1>8 DEF HeldAgrees

\* A form is filled in, or an import decides or comes to nothing: only what it
\* has read changes.
LEMMA ReadingKeeps ==
  ASSUME ReceiptsConstants, ReceiptsInv,
         form' \in [Recorders -> Forms],
         \A f \in Recorders : (form'[f] # Money!NoForm => form'[f].ref \in Transfers) /\ Links(form[f])',
         upload' \in [Uploads -> Decisions], \A u \in Uploads : Decided(upload'[u]),
         UNCHANGED <<coming, receipt, line, held, refund, cash, posts, spent>>
  PROVE  ReceiptsInv'
<1> USE DEF ReceiptsInv
<1>1. HeldAgrees' BY HeldUntouched DEF FiledStays, ReceiptsAreTyped
<1>2. ReceiptsAreTyped' BY DEF ReceiptsAreTyped
<1>3. LinkedToHeld' BY DEF LinkedToHeld, Links
<1>4. OneStanding' /\ EnteredWhenHeld' /\ Money!PostedOnce' /\ Money!LinkedOnce'
  BY DEF OneStanding, Stands, EnteredWhenHeld, Unposted, Money!PostedOnce, Money!LinkedOnce
<1> QED BY <1>1, <1>2, <1>3, <1>4 DEF HeldAgrees

\* recordReceipt, up to what it reads.
LEMMA ReadFormStep ==
  ASSUME ReceiptsConstants, ReceiptsInv, NEW f \in Recorders, NEW m \in Money!Makers, NEW t \in Transfers,
         NEW n \in Money!Sums, Money!ReadForm(f, m, t, n)
  PROVE  ReceiptsInv'
<1> DEFINE d == [ref |-> t, amount |-> n, maker |-> m, held |-> Money!LinkOf(t)]
<1>1. d \in Forms /\ d.ref = t /\ (d.held # Nobody => line[d.held] = "SUSPENSE")
  BY DEF Forms, Money!LinkOf
<1>2. form' = [form EXCEPT ![f] = d] /\ form \in [Recorders -> Forms] /\ line' = line
  BY DEF Money!ReadForm, ReceiptsInv, ReceiptsAreTyped
<1> HIDE DEF d
<1>3. form' \in [Recorders -> Forms] BY <1>1, <1>2
<1>4. \A g \in Recorders : form'[g] = IF g = f THEN d ELSE form[g] BY <1>2
<1>5. \A g \in Recorders : (form'[g] # Money!NoForm => form'[g].ref \in Transfers) /\ Links(form[g])'
  BY <1>1, <1>2, <1>4 DEF ReceiptsInv, ReceiptsAreTyped, LinkedToHeld, Links
<1> QED BY <1>3, <1>5, ReadingKeeps DEF Money!ReadForm, ReceiptsInv, ReceiptsAreTyped

\* An import that begins, or comes to nothing.
LEMMA DecisionStep ==
  ASSUME ReceiptsConstants, ReceiptsInv, NEW u \in Uploads, NEW d \in Decisions, Decided(d),
         upload' = [upload EXCEPT ![u] = d],
         UNCHANGED <<coming, receipt, line, held, refund, form, cash, posts, spent>>
  PROVE  ReceiptsInv'
<1>1. /\ upload' \in [Uploads -> Decisions]
      /\ \A v \in Uploads : Decided(upload'[v])
  BY DEF ReceiptsInv, ReceiptsAreTyped
<1>2. form' \in [Recorders -> Forms]
      /\ \A f \in Recorders : (form'[f] # Money!NoForm => form'[f].ref \in Transfers) /\ Links(form[f])'
  BY DEF ReceiptsInv, ReceiptsAreTyped, LinkedToHeld, Links
<1> QED BY <1>1, <1>2, ReadingKeeps

\* decide, of a statement's line.
LEMMA DecideStatementStep ==
  ASSUME ReceiptsConstants, ReceiptsInv, NEW u \in Uploads, NEW t \in Transfers, Money!DecideStatement(u, t)
  PROVE  ReceiptsInv'
<1>1. PICK kind \in {"LOAN", "RECEIPT", "SUSPENSE"}, r \in Receipts \cup {0} :
        Money!Decides(u, t, kind, r) /\ (kind = "RECEIPT" => r \in Receipts)
  BY DEF Money!DecideStatement, Money!Standing, Money!Candidates
<1>2. PICK auto \in AutoPosts : upload' = [upload EXCEPT ![u] =
        [kind |-> kind, at |-> t, receipt |-> r, auto |-> auto,
         held |-> IF r = 0 THEN Nobody ELSE receipt[r].held]]
  BY <1>1 DEF Money!Decides
<1> DEFINE link == IF r = 0 THEN Nobody ELSE receipt[r].held
           d == [kind |-> kind, at |-> t, receipt |-> r, auto |-> auto, held |-> link]
<1>3. link \in Transfers \cup {Nobody} BY Whole DEF ReceiptsInv, ReceiptsAreTyped, ReceiptRows
<1>4. d \in Decisions /\ Decided(d)
  BY <1>1, <1>3 DEF Decisions, Decided, Lines, ReceiptsConstants
<1> HIDE DEF d
<1>5. upload' = [upload EXCEPT ![u] = d] BY <1>2 DEF d
<1> QED BY <1>4, <1>5, DecisionStep DEF Money!DecideStatement

\* processLine, of a channel's line; and an import of which nothing is kept.
LEMMA DecideChannelStep ==
  ASSUME ReceiptsConstants, ReceiptsInv, NEW u \in Uploads,
         (\E c \in Channels : Money!DecideChannel(u, c)) \/ Money!Fail(u)
  PROVE  ReceiptsInv'
<1>1. ASSUME NEW c \in Channels, Money!DecideChannel(u, c) PROVE ReceiptsInv'
  <2>1. PICK kind \in {"LOAN", "SUSPENSE"} : upload' = [upload EXCEPT ![u] =
          [Money!NoUpload EXCEPT !.kind = kind, !.at = c, !.auto = TRUE]]
    BY <1>1, Zenon DEF Money!DecideChannel
  <2> DEFINE d == [Money!NoUpload EXCEPT !.kind = kind, !.at = c, !.auto = TRUE]
  <2>2. d \in Decisions /\ Decided(d) BY DEF Money!NoUpload, Decisions, Decided, Lines
  <2> HIDE DEF d
  <2>3. upload' = [upload EXCEPT ![u] = d] BY <2>1 DEF d
  <2>4. UNCHANGED <<coming, receipt, line, held, refund, form, cash, posts, spent>>
    BY <1>1, Zenon DEF Money!DecideChannel
  <2> QED BY <2>2, <2>3, <2>4, DecisionStep
<1>2. CASE Money!Fail(u)
  <2>1. Money!NoUpload \in Decisions /\ Decided(Money!NoUpload)
    BY DEF Money!NoUpload, Decisions, Decided
  <2> QED BY <1>2, <2>1, DecisionStep DEF Money!Fail
<1> QED BY <1>1, <1>2

\* A receipt is recorded only where its reference has none that stands.
LEMMA RecordFormStep ==
   ASSUME ReceiptsConstants, ReceiptsInv, NEW f \in Recorders, Money!Record(f)
   PROVE ReceiptsInv'
<1> USE DEF ReceiptsInv
<1>1. form' = [form EXCEPT ![f] = Money!NoForm] /\ Money!NoForm \in Forms /\ Money!NoForm.held = Nobody
      /\ form' \in [Recorders -> Forms]
  BY DEF Money!Record, Money!NoForm, Forms, ReceiptsAreTyped
<1>2. \A g \in Recorders : form'[g] = IF g = f THEN Money!NoForm ELSE form[g]
  BY <1>1 DEF ReceiptsAreTyped
<1>3. \A g \in Recorders : (form'[g] # Money!NoForm => form'[g].ref \in Transfers) /\ Links(form[g])'
  BY <1>1, <1>2 DEF Money!Record, ReceiptsAreTyped, LinkedToHeld, Links
<1>4. CASE UNCHANGED receipt
  BY <1>1, <1>3, <1>4, ReadingKeeps DEF Money!Record, ReceiptsAreTyped
<1>5. CASE ~UNCHANGED receipt
  <2> DEFINE d == [status |-> "PENDING", ref |-> form[f].ref, amount |-> form[f].amount,
                   maker |-> form[f].maker, held |-> form[f].held]
  <2>1. PICK r \in Money!Unused : receipt' = [receipt EXCEPT ![r] = d] BY <1>5 DEF Money!Record
  <2>2. Money!Standing(form[f].ref) = {} BY <1>5 DEF Money!Record
  <2>3. /\ r \in Receipts /\ receipt[r].status = "NONE" BY DEF Money!Unused
  <2>4. /\ d \in ReceiptRows /\ d.status = "PENDING" /\ d.ref = form[f].ref /\ d.held = form[f].held
        /\ form[f].ref \in Transfers /\ (d.held # Nobody => line[d.held] = "SUSPENSE")
    BY DEF Money!Record, ReceiptRows, Forms, ReceiptsAreTyped, LinkedToHeld, Links
  <2> HIDE DEF d
  <2>5. \A k \in Receipts : receipt'[k] = IF k = r THEN d ELSE receipt[k]
    BY <2>1 DEF ReceiptsAreTyped
  <2>6. ReceiptsAreTyped' BY <1>1, <1>3, <2>1, <2>4 DEF ReceiptsAreTyped, Money!Record
  <2>7. OneStanding' BY <2>2, <2>3, <2>4, <2>5 DEF OneStanding, Stands, Money!Standing
  <2>8. LinkedToHeld' BY <1>3, <2>4, <2>5 DEF LinkedToHeld, Links, Money!Record
  <2>9. HeldAgrees' BY HeldUntouched DEF Money!Record, FiledStays, ReceiptsAreTyped
  <2>10. EnteredWhenHeld' BY <2>3, <2>4, <2>5 DEF EnteredWhenHeld, Unposted, Money!Record
  <2>11. Money!PostedOnce' /\ Money!LinkedOnce'
    BY <2>3, <2>4, <2>5 DEF Money!PostedOnce, Money!LinkedOnce, Money!Record
  <2> QED BY <2>6, <2>7, <2>8, <2>9, <2>10, <2>11 DEF HeldAgrees
<1> QED BY <1>4, <1>5

\* verify: money is taken from suspense where the receipt is linked to it.
LEMMA VerifyStep ==
  ASSUME ReceiptsConstants, ReceiptsInv, NEW p \in People, NEW r \in Receipts, Money!Verify(p, r)
  PROVE  ReceiptsInv'
<1> USE DEF ReceiptsInv
<1>1. /\ receipt[r].status = "PENDING" /\ receipt' = [receipt EXCEPT ![r].status = "POSTED"]
      /\ posts' = [posts EXCEPT ![r] = Money!Count(@)]
      /\ UNCHANGED <<coming, line, refund, upload, form>>
  BY DEF Money!Verify
<1>2. FiledStays BY <1>1 DEF FiledStays, ReceiptsAreTyped
<1>3. /\ receipt[r].held \in Transfers \cup {Nobody} /\ receipt[r].amount \in Nat
      /\ receipt[r].ref \in Money!Payments
  BY <1>1, Whole DEF ReceiptsAreTyped, ReceiptRows, OneStanding, Money!Payments
<1>4. /\ HeldAgrees' /\ cash' \in [Money!Payments -> Nat]
      /\ \A q \in Money!Payments : q # receipt[r].ref => cash'[q] = cash[q]
      /\ receipt[r].held # Nobody => cash' = cash
  BY <1>2, <1>3, FundKeeps DEF Money!Verify
<1>5. ReceiptsTyped' /\ OneStanding' /\ LinkedToHeld' /\ Money!PostedOnce'
  BY <1>1, <1>2, PostingKeeps
<1>6. EnteredWhenHeld' /\ Money!LinkedOnce'
  BY <1>1, <1>2, <1>3, <1>4, EnteredKeeps DEF ReceiptsAreTyped
<1>7. ReceiptsAreTyped'
  BY <1>1, <1>4, <1>5 DEF ReceiptsAreTyped, ReceiptsTyped, HeldAgrees, HeldTyped
<1> QED BY <1>4, <1>5, <1>6, <1>7 DEF HeldAgrees

\* reject: the reference is free again.
LEMMA RejectStep ==
  ASSUME ReceiptsConstants, ReceiptsInv, NEW p \in People, NEW r \in Receipts, Money!Reject(p, r)
  PROVE  ReceiptsInv'
<1> USE DEF ReceiptsInv
<1>1. /\ receipt[r].status = "PENDING" /\ receipt' = [receipt EXCEPT ![r].status = "REJECTED"]
      /\ UNCHANGED <<coming, line, held, refund, upload, form, cash, posts, spent>>
  BY DEF Money!Reject
<1>2. /\ receipt' \in [Receipts -> ReceiptRows]
      /\ \A k \in Receipts : /\ k # r => receipt'[k] = receipt[k]
                             /\ receipt'[k].ref = receipt[k].ref
                             /\ receipt'[k].held = receipt[k].held
      /\ receipt'[r].status = "REJECTED"
  <2> DEFINE row == [receipt[r] EXCEPT !.status = "REJECTED"]
  <2>1. receipt \in [Receipts -> ReceiptRows] BY DEF ReceiptsAreTyped
  <2>2. /\ row \in ReceiptRows /\ row.status = "REJECTED"
        /\ row.ref = receipt[r].ref /\ row.held = receipt[r].held
    BY <2>1 DEF ReceiptRows
  <2>3. receipt' = [receipt EXCEPT ![r] = row] BY <1>1
  <2> HIDE DEF row, ReceiptRows
  <2>4. /\ receipt' \in [Receipts -> ReceiptRows] /\ receipt'[r] = row
        /\ \A k \in Receipts : k # r => receipt'[k] = receipt[k]
    BY <2>1, <2>2, <2>3
  <2> QED BY <2>2, <2>4
<1>3. ReceiptsAreTyped' BY <1>1, <1>2 DEF ReceiptsAreTyped
<1>4. HeldAgrees' BY <1>1, HeldUntouched DEF FiledStays, ReceiptsAreTyped
<1>5. OneStanding' BY <1>1, <1>2 DEF OneStanding, Stands
<1>6. LinkedToHeld' BY <1>1, <1>2 DEF LinkedToHeld, Links
<1>7. EnteredWhenHeld' BY <1>1, <1>2 DEF EnteredWhenHeld, Unposted
<1>8. Money!PostedOnce' /\ Money!LinkedOnce' BY <1>1, <1>2 DEF Money!PostedOnce, Money!LinkedOnce
<1> QED BY <1>3, <1>4, <1>5, <1>6, <1>7, <1>8 DEF HeldAgrees

\* A line is filed once, as posted or as held.
LEMMA FilesKeeps ==
  ASSUME ReceiptsConstants, ReceiptsInv, NEW u \in Uploads, NEW outcome \in {"POSTED", "SUSPENSE"},
         upload[u].kind # "IDLE", Money!Files(u, outcome)
  PROVE  /\ FiledStays
         /\ upload' \in [Uploads -> Decisions] /\ \A v \in Uploads : Decided(upload'[v])
         /\ upload[u].at \in Lines /\ upload[u].at \in Money!Payments
         /\ line[upload[u].at] = "NONE" /\ line'[upload[u].at] = outcome
         /\ \A t \in Lines : t # upload[u].at => line'[t] = line[t]
         /\ UNCHANGED <<coming, refund, form>>
<1>1. Decided(upload[u]) BY DEF ReceiptsInv, ReceiptsAreTyped
<1>2. upload[u].at \in Lines /\ upload[u].at \in Money!Payments BY <1>1, Whole DEF Decided
<1>3. line \in [Lines -> {"NONE", "POSTED", "SUSPENSE"}] /\ upload \in [Uploads -> Decisions]
  BY DEF ReceiptsInv, ReceiptsAreTyped
<1>4. /\ line[upload[u].at] = "NONE" /\ line' = [line EXCEPT ![upload[u].at] = outcome]
      /\ upload' = [upload EXCEPT ![u] = Money!NoUpload] /\ UNCHANGED <<coming, refund, form>>
  BY DEF Money!Files
<1>5. Money!NoUpload \in Decisions /\ Decided(Money!NoUpload)
  BY DEF Money!NoUpload, Decisions, Decided
<1>6. upload' \in [Uploads -> Decisions] /\ \A v \in Uploads : Decided(upload'[v])
  BY <1>3, <1>4, <1>5 DEF ReceiptsInv, ReceiptsAreTyped
<1>7. FiledStays BY <1>2, <1>3, <1>4 DEF FiledStays
<1> QED BY <1>2, <1>3, <1>4, <1>6, <1>7

\* A line that pays a receipt: its money is entered for the line, or was held.
LEMMA PostReceiptStep ==
   ASSUME ReceiptsConstants, ReceiptsInv, NEW u \in Uploads, Money!PostReceipt(u)
   PROVE ReceiptsInv'
<1> USE DEF ReceiptsInv
<1> DEFINE r == upload[u].receipt
           t == upload[u].at
<1>1. /\ upload[u].kind = "RECEIPT" /\ receipt[r].status = "PENDING"
      /\ receipt' = [receipt EXCEPT ![r].status = "POSTED"]
      /\ posts' = [posts EXCEPT ![r] = Money!Count(@)]
      /\ Money!Fund(upload[u].held, receipt[r].amount, t) /\ Money!Files(u, "POSTED")
  BY DEF Money!PostReceipt, Money!StillPending
<1>2. /\ FiledStays /\ t \in Lines /\ t \in Money!Payments /\ line[t] = "NONE" /\ line'[t] = "POSTED"
      /\ \A x \in Lines : x # t => line'[x] = line[x]
      /\ upload' \in [Uploads -> Decisions] /\ \A v \in Uploads : Decided(upload'[v])
      /\ UNCHANGED <<coming, refund, form>>
  BY <1>1, FilesKeeps
<1>3. /\ r \in Receipts /\ receipt[r].amount \in Nat
      /\ upload[u].held \in Transfers \cup {Nobody}
  BY <1>1, Whole DEF ReceiptsAreTyped, ReceiptRows, Decided, Decisions
<1> HIDE DEF r, t
<1>4. /\ HeldAgrees' /\ cash' \in [Money!Payments -> Nat]
      /\ \A q \in Money!Payments : q # t => cash'[q] = cash[q]
  BY <1>1, <1>2, <1>3, FundKeeps
<1>5. ReceiptsTyped' /\ OneStanding' /\ LinkedToHeld' /\ Money!PostedOnce'
  BY <1>1, <1>2, <1>3, PostingKeeps
<1>6. EnteredWhenHeld' /\ Money!LinkedOnce'
  BY <1>1, <1>2, <1>3, <1>4, EnteredKeeps DEF ReceiptsAreTyped
<1>7. ReceiptsAreTyped'
  BY <1>2, <1>4, <1>5 DEF ReceiptsAreTyped, ReceiptsTyped, HeldAgrees, HeldTyped, FiledStays
<1> QED BY <1>4, <1>5, <1>6, <1>7 DEF HeldAgrees

\* A line that pays a loan without a receipt.
LEMMA PostLoanStep ==
   ASSUME ReceiptsConstants, ReceiptsInv, NEW u \in Uploads, Money!PostLoan(u)
   PROVE ReceiptsInv'
<1> USE DEF ReceiptsInv
<1> DEFINE t == upload[u].at
<1>1. upload[u].kind = "LOAN" /\ Money!Files(u, "POSTED") /\ cash' = [cash EXCEPT ![t] = Money!Count(@)]
      /\ UNCHANGED <<receipt, held, posts, spent>>
  BY DEF Money!PostLoan
<1>2. /\ FiledStays /\ t \in Lines /\ t \in Money!Payments /\ line[t] = "NONE" /\ line'[t] = "POSTED"
      /\ \A x \in Lines : x # t => line'[x] = line[x]
      /\ upload' \in [Uploads -> Decisions] /\ \A v \in Uploads : Decided(upload'[v])
      /\ UNCHANGED <<coming, refund, form>>
  BY <1>1, FilesKeeps
<1> HIDE DEF t
<1>3. cash' \in [Money!Payments -> Nat] /\ \A q \in Money!Payments : q # t => cash'[q] = cash[q]
  BY <1>1, <1>2 DEF ReceiptsAreTyped, Money!Count
<1>4. HeldAgrees' BY <1>1, <1>2, HeldUntouched
<1>5. ReceiptsAreTyped' BY <1>1, <1>2, <1>3 DEF ReceiptsAreTyped, FiledStays
<1>6. OneStanding' /\ Money!PostedOnce' BY <1>1 DEF OneStanding, Stands, Money!PostedOnce
<1>7. LinkedToHeld'
  BY <1>1, <1>2 DEF LinkedToHeld, Links, FiledStays, ReceiptsAreTyped, ReceiptRows, Forms, Lines
<1>8. EnteredWhenHeld'
  BY <1>1, <1>2, <1>3 DEF EnteredWhenHeld, Unposted, Lines, Money!Payments
<1>9. Money!LinkedOnce'
  <2> SUFFICES ASSUME NEW k \in Receipts, receipt[k].status = "POSTED",
                      receipt[k].held = receipt[k].ref
               PROVE  cash'[receipt[k].ref] = 1
    BY <1>1 DEF Money!LinkedOnce
  <2>1. receipt[k].ref \in Transfers /\ line[receipt[k].ref] = "SUSPENSE"
    BY DEF OneStanding, LinkedToHeld, Links, ReceiptsConstants, Money!Payments
  <2> QED BY <1>2, <1>3, <2>1 DEF Money!LinkedOnce, Money!Payments
<1> QED BY <1>4, <1>5, <1>6, <1>7, <1>8, <1>9 DEF HeldAgrees

\* What holding the money of line t may do to the receipts: nothing, or it links
\* one that is pending, or makes one where the reference has none.
LinksOne(t, k, d) ==
  /\ k \in Receipts /\ d \in ReceiptRows /\ receipt' = [receipt EXCEPT ![k] = d]
  /\ t \in Transfers /\ d.status = "PENDING" /\ d.held = t
  /\ \/ receipt[k].status = "PENDING" /\ d.ref = receipt[k].ref
     \/ receipt[k].status = "NONE" /\ d.ref = t /\ Money!Standing(t) = {}

LEMMA HoldLinks ==
  ASSUME ReceiptsConstants, ReceiptsInv, NEW u \in Uploads, Money!Hold(u), receipt' # receipt
  PROVE  \E k, d : LinksOne(upload[u].at, k, d)
<1> USE DEF ReceiptsInv
<1> DEFINE t == upload[u].at
<1>1. /\ ~upload[u].auto /\ upload[u].kind \in {"RECEIPT", "LOAN"} /\ t \in Transfers
      /\ upload[u].kind = "RECEIPT" => upload[u].receipt \in Receipts
  <2>1. Decided(upload[u]) BY DEF ReceiptsAreTyped
  <2>2. upload[u].kind # "IDLE" /\ ~upload[u].auto /\ upload[u].kind \in {"RECEIPT", "LOAN"}
    BY DEF Money!Hold
  <2> QED BY <2>1, <2>2 DEF Decided
<1>2. CASE upload[u].kind = "RECEIPT"
  <2> DEFINE r == upload[u].receipt
  <2>1. receipt[r].status = "PENDING" /\ receipt' = [receipt EXCEPT ![r].held = t]
    BY <1>1, <1>2 DEF Money!Hold, Money!StillPending
  <2>2. r \in Receipts BY <1>1, <1>2
  <2> HIDE DEF r, t
  <2>3. receipt[r] \in ReceiptRows /\ t \in Transfers BY <1>1, <2>2 DEF ReceiptsAreTyped
  <2> DEFINE d == [receipt[r] EXCEPT !.held = t]
  <2>4. /\ d \in ReceiptRows /\ d.status = "PENDING" /\ d.held = t /\ d.ref = receipt[r].ref
    BY <2>1, <2>3 DEF ReceiptRows
  <2>5. receipt' = [receipt EXCEPT ![r] = d] BY <2>1
  <2> HIDE DEF d
  <2>6. LinksOne(t, r, d) BY <2>1, <2>2, <2>3, <2>4, <2>5 DEF LinksOne
  <2> QED BY <2>6 DEF t
<1>3. CASE upload[u].kind = "LOAN"
  <2>1. PICK k \in Money!Unused, m \in People : receipt' = [receipt EXCEPT ![k] =
          [status |-> "PENDING", ref |-> t, amount |-> Amount[t], maker |-> m, held |-> t]]
    BY <1>1, <1>3 DEF Money!Hold
  <2> DEFINE d == [status |-> "PENDING", ref |-> t, amount |-> Amount[t], maker |-> m, held |-> t]
  <2>2. Money!Standing(t) = {} BY <1>1, <1>3 DEF Money!Hold
  <2>3. k \in Receipts /\ receipt[k].status = "NONE" BY DEF Money!Unused
  <2>4. d \in ReceiptRows /\ d.status = "PENDING" /\ d.held = t /\ d.ref = t
    BY <1>1, Whole DEF ReceiptRows, Money!Makers, Money!Payments
  <2>5. receipt' = [receipt EXCEPT ![k] = d] BY <2>1
  <2> HIDE DEF d
  <2>6. LinksOne(t, k, d) BY <1>1, <2>2, <2>3, <2>4, <2>5 DEF LinksOne
  <2> QED BY <2>6
<1> QED BY <1>1, <1>2, <1>3

\* A line that no loan takes is held, and entered as received.
LEMMA HoldStep ==
   ASSUME ReceiptsConstants, ReceiptsInv, NEW u \in Uploads, Money!Hold(u)
   PROVE ReceiptsInv'
<1> USE DEF ReceiptsInv
<1> DEFINE t == upload[u].at
<1>1. /\ upload[u].kind # "IDLE" /\ Money!Files(u, "SUSPENSE")
      /\ held' = [held EXCEPT ![t] = Money!Received(t)] /\ cash' = [cash EXCEPT ![t] = Money!Count(@)]
      /\ UNCHANGED <<posts, spent>>
  BY DEF Money!Hold
<1>2. /\ FiledStays /\ t \in Lines /\ t \in Money!Payments /\ line[t] = "NONE" /\ line'[t] = "SUSPENSE"
      /\ \A x \in Lines : x # t => line'[x] = line[x]
      /\ upload' \in [Uploads -> Decisions] /\ \A v \in Uploads : Decided(upload'[v])
      /\ UNCHANGED <<coming, refund, form>>
  BY <1>1, FilesKeeps
<1>3. receipt' = receipt \/ \E k, d : LinksOne(t, k, d) BY HoldLinks
<1> HIDE DEF t
<1>4. HeldAgrees'
  <2>1. held[t].status = "NONE" BY <1>2 DEF HeldWhenFiled
  <2> QED BY <1>1, <1>2, <2>1, HeldBegins
<1>5. /\ cash' \in [Money!Payments -> Nat] /\ \A q \in Money!Payments : q # t => cash'[q] = cash[q]
      /\ cash[t] = 0 => cash'[t] = 1
  BY <1>1, <1>2 DEF ReceiptsAreTyped, Money!Count
<1>6. /\ receipt' \in [Receipts -> ReceiptRows]
      /\ \A k \in Receipts :
           \/ receipt'[k] = receipt[k]
           \/ /\ receipt'[k].status = "PENDING" /\ receipt'[k].ref \in Transfers
              /\ receipt'[k].held = t /\ receipt[k].status \in {"PENDING", "NONE"}
      /\ OneStanding'
  <2>1. CASE receipt' = receipt BY <2>1 DEF ReceiptsAreTyped, OneStanding, Stands
  <2>2. CASE receipt' # receipt
    <3>1. PICK k, d : LinksOne(t, k, d) BY <1>3, <2>2
    <3>2. k \in Receipts /\ \A j \in Receipts : receipt'[j] = IF j = k THEN d ELSE receipt[j]
      BY <3>1 DEF LinksOne, ReceiptsAreTyped
    <3>3. d.ref \in Transfers BY <3>1 DEF LinksOne, OneStanding
    <3>4. receipt' \in [Receipts -> ReceiptRows] BY <3>1 DEF LinksOne, ReceiptsAreTyped
    <3>5. OneStanding' BY <3>1, <3>2, <3>3 DEF LinksOne, OneStanding, Stands, Money!Standing
    <3> QED BY <3>1, <3>2, <3>3, <3>4, <3>5 DEF LinksOne
  <2> QED BY <2>1, <2>2
<1>7. ReceiptsAreTyped'
  BY <1>1, <1>2, <1>4, <1>5, <1>6 DEF ReceiptsAreTyped, FiledStays, HeldAgrees, HeldTyped
<1>8. Money!PostedOnce' BY <1>1, <1>6 DEF Money!PostedOnce
<1>9. LinkedToHeld'
  BY <1>2, <1>6 DEF LinkedToHeld, Links, FiledStays, ReceiptsAreTyped, ReceiptRows, Forms, Lines
<1>10. EnteredWhenHeld'
  <2> SUFFICES ASSUME NEW x \in Transfers, Unposted(x)'
               PROVE  /\ line'[x] = "NONE" => cash'[x] = 0
                      /\ line'[x] = "SUSPENSE" => cash'[x] = 1
    BY DEF EnteredWhenHeld
  <2>1. Unposted(x) BY <1>6 DEF Unposted
  <2>2. x \in Lines /\ x \in Money!Payments BY DEF Lines, Money!Payments
  <2> QED BY <1>2, <1>5, <2>1, <2>2 DEF EnteredWhenHeld
<1>11. Money!LinkedOnce'
  <2> SUFFICES ASSUME NEW k \in Receipts, receipt'[k].status = "POSTED",
                      receipt'[k].held = receipt'[k].ref
               PROVE  cash'[receipt'[k].ref] = 1
    BY DEF Money!LinkedOnce
  <2>1. receipt'[k] = receipt[k] BY <1>6
  <2>2. receipt[k].ref \in Transfers /\ line[receipt[k].ref] = "SUSPENSE"
    BY <2>1 DEF OneStanding, LinkedToHeld, Links, ReceiptsConstants, Money!Payments
  <2> QED BY <1>2, <1>5, <2>1, <2>2 DEF Money!LinkedOnce, Money!Payments
<1> QED BY <1>4, <1>6, <1>7, <1>8, <1>9, <1>10, <1>11 DEF HeldAgrees

\* Every step keeps the invariant.
LEMMA ReceiptsStep == ReceiptsConstants /\ ReceiptsInv /\ [Money!Next]_Money!vars => ReceiptsInv'
<1> SUFFICES ASSUME ReceiptsConstants, ReceiptsInv, [Money!Next]_Money!vars PROVE ReceiptsInv' OBVIOUS
<1>1. CASE UNCHANGED Money!vars
  <2>1. HeldAgrees' BY <1>1, HeldUntouched DEF Money!vars, FiledStays, ReceiptsInv, ReceiptsAreTyped
  <2> QED BY <1>1, <2>1, SuspenseKeeps DEF Money!vars, ReceiptsInv, ReceiptsAreTyped
<1>2. ASSUME NEW h \in Money!Payments,
             \/ \E n \in Money!Sums : Money!Match(h, n)
             \/ \E p \in People, n \in Money!Sums : Money!ProposeRefund(p, h, n)
             \/ \E p \in People : Money!ApproveRefund(p, h) \/ Money!RejectRefund(p, h)
      PROVE  ReceiptsInv'
  BY <1>2, SuspenseStep
<1>3. ASSUME NEW h \in Walkins, Money!Receive(h) PROVE ReceiptsInv' BY <1>3, ReceiveStep
<1>4. ASSUME NEW f \in Recorders,
             Money!Record(f) \/ \E m \in Money!Makers, t \in Transfers, n \in Money!Sums : Money!ReadForm(f, m, t, n)
      PROVE  ReceiptsInv'
  BY <1>4, RecordFormStep, ReadFormStep
<1>5. ASSUME NEW p \in People, NEW r \in Receipts, Money!Verify(p, r) \/ Money!Reject(p, r) PROVE ReceiptsInv'
  BY <1>5, VerifyStep, RejectStep
<1>6. ASSUME NEW u \in Uploads,
             \/ \E t \in Transfers : Money!DecideStatement(u, t)
             \/ (\E c \in Channels : Money!DecideChannel(u, c)) \/ Money!Fail(u)
             \/ Money!PostLoan(u) \/ Money!PostReceipt(u) \/ Money!Hold(u)
      PROVE  ReceiptsInv'
  BY <1>6, DecideStatementStep, DecideChannelStep, PostLoanStep, PostReceiptStep, HoldStep
<1>7. \A t \in Listed : t \in Transfers BY DEF ReceiptsConstants
<1> QED BY <1>1, <1>2, <1>3, <1>4, <1>5, <1>6, <1>7 DEF Money!Next

\* The invariant says what was to be shown.
LEMMA ReceiptsInvImplies == ReceiptsConstants /\ ReceiptsInv => Money!MoneyIsUsedOnce
<1> SUFFICES ASSUME ReceiptsConstants, ReceiptsInv PROVE Money!MoneyIsUsedOnce OBVIOUS
<1> USE DEF ReceiptsInv
<1>1. ASSUME NEW h \in Money!Payments PROVE held[h].remaining \in 0 .. Amount[h]
  <2>1. /\ held[h].remaining \in Nat /\ spent[h].matched \in Nat /\ spent[h].refunded \in Nat
        /\ Amount[h] \in Nat
    BY Whole DEF ReceiptsAreTyped, Accounts
  <2>2. CASE held[h].status = "NONE" BY <2>1, <2>2 DEF HeldWhenFiled, Money!NotHeld
  <2>3. CASE held[h].status # "NONE" BY <2>1, <2>3 DEF Money!HeldOnce
  <2> QED BY <2>2, <2>3
<1>2. Money!TypeOK
  <2>1. /\ coming \in Scenes /\ receipt \in [Receipts -> ReceiptRows]
        /\ line \in [Lines -> {"NONE", "POSTED", "SUSPENSE"}]
    BY DEF ReceiptsAreTyped
  <2>2. \A h \in Money!Payments :
          /\ held[h].status \in {"NONE", "OPEN", "MATCHED", "REFUNDED"}
          /\ refund[h].amount \in Money!Sums \cup {0} /\ refund[h].maker \in People \cup {Nobody}
    BY DEF ReceiptsAreTyped, Accounts, Tasks
  <2>3. \A u \in Uploads : upload[u].kind \in {"IDLE", "LOAN", "RECEIPT", "SUSPENSE"}
    BY DEF ReceiptsAreTyped, Decisions
  <2> QED BY <1>1, <2>1, <2>2, <2>3 DEF Money!TypeOK, ReceiptRows, Lines
<1> QED BY <1>2 DEF Money!MoneyIsUsedOnce

\* The run's constants are such.
LEMMA ReceiptsAreSound == ReceiptsConstants
BY ReceiptsAssumption DEF ReceiptsAssumption, ReceiptsConstants

\* D-164, for any transfers, payments, receipts, people and imports at once: money that
\* was received is entered once, posted for one receipt, held in suspense once, and
\* leaves suspense for no more than came in.
THEOREM EveryMoneyIsUsedOnce == MCSpec => []MoneyIsUsedOnce
<1> DEFINE Inv == scene = "receipts" => ReceiptsInv
<1>1. MCInit => Inv BY ReceiptsAreSound, ReceiptsBegin DEF MCInit
<1>2. Inv /\ [MCNext]_allVars => Inv'
  <2> SUFFICES ASSUME Inv, [MCNext]_allVars, scene' = "receipts" PROVE ReceiptsInv' OBVIOUS
  <2>1. scene = "receipts" /\ ReceiptsInv BY DEF MCNext, allVars
  <2>2. [Money!Next]_(Money!vars) BY <2>1 DEF MCNext, allVars, moneyVars, Money!vars
  <2> QED BY <2>1, <2>2, ReceiptsAreSound, ReceiptsStep
<1>3. Inv => MoneyIsUsedOnce BY ReceiptsAreSound, ReceiptsInvImplies DEF MoneyIsUsedOnce
<1> QED BY <1>1, <1>2, <1>3, PTL DEF MCSpec
=============================================================================
