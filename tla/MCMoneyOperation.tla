-------------------------- MODULE MCMoneyOperation --------------------------
(* Three calls, two keys, two loans: a payment sent again, another payment   *)
(* under its key, and one that the loan can bear only once.                  *)
EXTENDS MoneyOperation, TLC

CONSTANTS k1, k2, c1, c2, c3, A, B

MCRequests == {[loan |-> A, amount |-> 1], [loan |-> A, amount |-> 2],
               [loan |-> B, amount |-> 1]}
MCOwed == [l \in {A, B} |-> IF l = A THEN 2 ELSE 1]

Alike == Permutations(Calls)
=============================================================================
