----------------------------- MODULE MCPayments -----------------------------
(* Money in and out beside the teller: a facility; receipts, statements and  *)
(* suspense; or direct debits of one loan.                                   *)
EXTENDS Facilities, TLC

CONSTANTS
  t1, t2, c1, h1, p1, p2, r1, r2,   \* r1 and r2 are requests or batches under way at once
  Transfers, Listed, Channels, Walkins, Receipts, People, Borrower, Uploads, Recorders,
  AutoPosts, Nobody,
  Amount, Scenes,
  Mandates, DueDates, MaxAttempts, RetryDays, MaxTroubles

VARIABLES
  scene,
  coming, receipt, line, held, refund, upload, form, cash, posts, spent,
  mandate, attempt, paid, batch, asked, debited, lost, late, troubles

moneyVars == <<coming, receipt, line, held, refund, upload, form, cash, posts, spent>>
debitVars == <<mandate, attempt, paid, batch, asked, debited, lost, late, troubles>>
allVars == <<vars, scene, moneyVars, debitVars>>

\* t1 is listed on a statement; t2 is a transfer to an account that is not.
Together == {{t1, t2}, {c1}, {h1}}
WalkinsAreLarge == [p \in {t1, t2, c1, h1} |-> IF p = h1 THEN 2 ELSE 1]
Alike == Permutations(People) \cup Permutations(Uploads)

Money == INSTANCE Receipts WITH Nothing <- Nobody
Debits == INSTANCE AutoDebit WITH Batches <- Uploads

\* Payments of each kind are told apart, and every amount is one of money.
ASSUME ReceiptsAssumption ==
  /\ Amount \in [Money!Payments -> Nat \ {0}]
  /\ Transfers \cap Walkins = {} /\ Channels \cap Walkins = {}
  /\ Nobody \notin Money!Payments
  /\ Listed \subseteq Transfers
  /\ Receipts \subseteq Nat \ {0}
  /\ AutoPosts \subseteq BOOLEAN

\* A debit may be tried once at least.
ASSUME DebitAssumption ==
  /\ DueDates \in SUBSET Nat /\ IsFiniteSet(DueDates)
  /\ MaxAttempts \in Nat \ {0} /\ RetryDays \in Nat /\ MaxTroubles \in Nat

MCInit ==
  /\ scene \in {"receipts", "debits", "facility"}
  /\ Init /\ Debits!Init /\ Money!Init
  /\ scene # "receipts" => coming = {h1}   \* one state of the part left aside
  /\ \A l \in Limits : facility.limit <= l

MCNext ==
  \/ scene = "facility" /\ Next /\ UNCHANGED <<scene, moneyVars, debitVars>>
  \/ scene = "receipts" /\ Money!Next /\ UNCHANGED <<scene, vars, debitVars>>
  \/ scene = "debits" /\ Debits!Next
       /\ UNCHANGED <<scene, moneyVars, facility, drawdown, change, Balances, seen, current>>

MCSpec == MCInit /\ [][MCNext]_allVars

\* The properties of AutoDebit and Receipts, under names of their own.
DebitsInTurn == scene = "debits" => Debits!DebitsInTurn
MoneyIsUsedOnce == scene = "receipts" => Money!MoneyIsUsedOnce
=============================================================================
