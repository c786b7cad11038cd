--------------------------- MODULE ServicingEngine ---------------------------
(***************************************************************************)
(* The pure calculations servicing makes on a repayment schedule: interest *)
(* earned to a day, the allocation of a payment to what is due, and the    *)
(* schedule rebuilt after a prepayment.  Days are numbered from            *)
(* disbursement; interest accrues daily at one rate, amounts are whole     *)
(* minor units and round half up; an instalment falls due on the day its   *)
(* period ends; the repayment plan is explicit (method EXPLICIT).          *)
(*                                                                         *)
(* A schedule is a sequence of instalments; an instalment's identity is    *)
(* its position, so superseded ones stay where they are.                   *)
(***************************************************************************)
EXTENDS Integers, Sequences, FiniteSets, Functions

CONSTANTS
  RateNum, RateDen,  \* interest of one day on one unit: RateNum / RateDen
  Rank,              \* allocation.order: the components numbered 1 to 3
  OldestFirst        \* allocation.strategy: OLDEST_DUE_FIRST or COMPONENT_FIRST

Seqs == INSTANCE SequencesExt

Components == {"int", "prin", "fee"}

ASSUME EngineAssumption ==
  /\ RateNum \in Nat
  /\ RateDen \in Nat \ {0}
  /\ Rank \in [Components -> 1 .. 3] /\ IsInjective(Rank)
  /\ OldestFirst \in BOOLEAN

Least(a, b) == IF a <= b THEN a ELSE b
Positive(x) == IF x > 0 THEN x ELSE 0

\* roundMoney of n / d, half up.
Rounded(n, d) == (2 * n + d) \div (2 * d)

Interest(balance, days) == Rounded(balance * days * RateNum, RateDen)

\* An instalment: n its number, due and paid by component, `cap` the interest
\* of a grace period that becomes principal, ver its agreement version.
Instalments ==
  [n : Nat, ver : Nat, start : Nat, end : Nat, opening : Nat, cap : Nat,
   due : [Components -> Nat], paid : [Components -> Int],
   status : {"DUE", "PAID", "SUPERSEDED", "WRITTEN_OFF"}]

\* The sum of f over the instalments S.
Over(S, f(_)) == SumFunction([i \in S |-> f(i)])

Owed(l) == [c \in Components |-> l.due[c] - l.paid[c]]
FullyPaid(l) == \A c \in Components : Owed(l)[c] <= 0

Open(s) == {i \in DOMAIN s : s[i].status = "DUE"}
Live(s) == {i \in DOMAIN s : s[i].status \in {"DUE", "PAID"}}
DueBefore(s, day) == {i \in Open(s) : s[i].end < day}
DueBy(s, day) == {i \in Open(s) : s[i].end <= day}
DueAfter(s, day) == {i \in Open(s) : s[i].end > day}

-----------------------------------------------------------------------------
(* Accrual. *)

AccruedPastEnd(l, day) == Interest(l.opening, Positive(day - l.start))

\* accruedOnLine: interest earned on an instalment before the start of `day`,
\* never more than is scheduled.
AccruedOnLine(l, day) ==
  LET scheduled == l.due.int + l.cap
  IN  IF day <= l.start THEN 0
      ELSE IF day >= l.end THEN scheduled
      ELSE Least(Interest(l.opening, day - l.start), scheduled)

\* contractualAccrual: over the live instalments; number 0 only bills fees.
ContractualAccrual(s, day) ==
  Over({i \in Live(s) : s[i].n > 0}, LAMBDA i : AccruedOnLine(s[i], day))

CapitalizingAgain(s, day) ==
  {i \in Live(s) : s[i].end <= day /\ s[i].cap > 0}

\* catchUp: the grace instalments whose interest becomes principal by `day`.
Capitalizing(s, day) == {i \in DueBy(s, day) : s[i].cap > 0}

-----------------------------------------------------------------------------
(* Allocation. *)

\* The order in which a payment clears what is due.
Before(s, x, y) ==
  LET older  == s[x[1]].n < s[y[1]].n
      same   == s[x[1]].n = s[y[1]].n
      higher == Rank[x[2]] < Rank[y[2]]
  IN  IF OldestFirst THEN older \/ (same /\ higher)
      ELSE higher \/ (x[2] = y[2] /\ older)

\* allocatePayment: `amount` over what the instalments S still ask for, each
\* item in full before the next one.
AllocatePayment(s, S, amount) ==
  LET owed(x) == Owed(s[x[1]])[x[2]]
      items   == {x \in S \X Components : owed(x) > 0}
      first(x) == Over({y \in items : Before(s, y, x)}, owed)
      share(x) == IF x \in items THEN Least(owed(x), Positive(amount - first(x))) ELSE 0
  IN  [i \in S |-> [c \in Components |-> share(<<i, c>>)]]

ByComponent(a) == [c \in Components |-> Over(DOMAIN a, LAMBDA i : a[i][c])]

\* applyAllocations: only instalments that receive something are touched.
Applied(s, a) ==
  [i \in DOMAIN s |->
     IF i \notin DOMAIN a \/ \A c \in Components : a[i][c] = 0 THEN s[i]
     ELSE LET l == [s[i] EXCEPT !.paid = [c \in Components |-> @[c] + a[i][c]]]
          IN  [l EXCEPT !.status = IF FullyPaid(l) THEN "PAID" ELSE "DUE"]]

WithStatus(s, S, status) ==
  [i \in DOMAIN s |-> IF i \in S THEN [s[i] EXCEPT !.status = status] ELSE s[i]]

-----------------------------------------------------------------------------
(* Prepayment. *)

InOrder(s, S) == Seqs!SetToSortSeq(S, LAMBDA i, j : s[i].n < s[j].n)

\* scaleProRata: the plan scaled to the new balance, the rounding residual in
\* its last non-zero amount.
Scaled(plan, balance) ==
  LET old   == SumFunction(plan)
      raw   == [k \in DOMAIN plan |-> Rounded(plan[k] * balance, old)]
      lasts == {k \in DOMAIN plan : k = 1 \/ plan[k] > 0}
      last  == CHOOSE k \in lasts : \A j \in lasts : j <= k
  IN  [raw EXCEPT ![last] = @ + balance - SumFunction(raw)]

\* amortize of an explicit plan: what is left before each instalment.  The last
\* one takes the rest, and the schedule ends as soon as nothing is left.
LeftBefore(plan, balance) ==
  LET n == Len(plan)
      left[k \in 1 .. n + 1] ==
        IF k = 1 THEN balance
        ELSE left[k - 1] - (IF k = n + 1 THEN left[n]
                            ELSE Least(plan[k - 1], left[k - 1]))
  IN  left

WholePeriodInterest(l, day, balance) == Interest(balance, l.end - l.start)

\* The current period's interest: the old balance up to `day`, then the new one.
CurrentPeriodInterest(l, day, balance) ==
  Rounded((l.opening * (day - l.start) + balance * (l.end - day)) * RateNum, RateDen)

\* RECAST scales the principal of the instalments, SHORTEN drops the last ones.
Plan(old, balance, strategy) ==
  LET p == [k \in DOMAIN old |-> old[k].due.prin]
  IN  IF strategy = "RECAST" THEN Scaled(p, balance) ELSE p

\* The instalments `old` billing the balance `left` before each of them.
Rebuilt(old, left, day, balance, version) ==
  LET line(k) ==
        [n |-> old[1].n + k - 1, ver |-> version, start |-> old[k].start,
         end |-> old[k].end, opening |-> left[k], cap |-> 0,
         due |-> [int |-> IF k = 1 THEN CurrentPeriodInterest(old[1], day, balance)
                          ELSE Interest(left[k], old[k].end - old[k].start),
                  prin |-> left[k] - left[k + 1], fee |-> 0],
         paid |-> [c \in Components |-> 0], status |-> "DUE"]
  IN  [k \in 1 .. Cardinality({j \in DOMAIN old : left[j] > 0}) |-> line(k)]

\* rescheduleAfterPrepayment: the open instalments S rebuilt for a balance of
\* `balance` on `day`.
RescheduleAfterPrepayment(s, S, day, balance, strategy, version) ==
  LET old == [k \in 1 .. Cardinality(S) |-> s[InOrder(s, S)[k]]]
  IN  Rebuilt(old, LeftBefore(Plan(old, balance, strategy), balance),
              day, balance, version)
=============================================================================
