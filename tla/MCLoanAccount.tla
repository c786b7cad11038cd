--------------------------- MODULE MCLoanAccount ---------------------------
(* LoanAccount on small contracts. *)
EXTENDS LoanAccount

FeesFirst == [fee |-> 1, int |-> 2, prin |-> 3]

Nought == [int |-> 0, prin |-> 0, fee |-> 0]

Instalment(n, start, end, opening, int, prin) ==
  [n |-> n, ver |-> 1, start |-> start, end |-> end, opening |-> opening,
   cap |-> 0, due |-> [Nought EXCEPT !.int = int, !.prin = prin],
   paid |-> Nought, status |-> "DUE"]

\* Principal 5 in two instalments, of two days and of one.
TwoInstalments == <<Instalment(1, 0, 2, 5, 5, 3), Instalment(2, 2, 3, 2, 1, 2)>>

\* Principal 4: a separate fee, a grace period of two days, one instalment.
GraceThenOne == <<[Instalment(0, 0, 0, 0, 0, 0) EXCEPT !.due.fee = 1],
                  [Instalment(1, 0, 2, 4, 0, 0) EXCEPT !.cap = 2],
                  Instalment(2, 2, 4, 6, 3, 6)>>

\* No property and no guard reads the committed transaction again.
Observed == <<led, lines, events, version, accrued, day, dpd, writeOffTask,
              refundTask, lossLeft>>

=============================================================================
