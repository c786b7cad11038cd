-------------------------- MODULE LoanLedgerProofs --------------------------
(***************************************************************************)
(* Proofs of LoanLedger's invariants, for every set of amounts, every      *)
(* principal and both settings of the product.  The books are good when    *)
(* every balance on the row agrees with its ledger account, debits equal   *)
(* credits and interest in suspense is interest owed.  One lemma says when *)
(* a row update and its journal keep books good; then one lemma per        *)
(* posting, and one step per operation.                                    *)
(*                                                                         *)
(* Then those of Recovery, in the specification the run checks: what holds *)
(* of the loan, the pledge, the claims, the item and the books apart is    *)
(* kept by every step, and says that security is used once and that the    *)
(* ledger owes what its rows do.                                           *)
(***************************************************************************)
EXTENDS MCLoanLedger, SumProofs

\* The three facts that together are inductive.
Good(L) == /\ L \in Books
           /\ Reconciles(L)
           /\ DebitsAreCredits(L)
           /\ ~InterestGrace => SuspenseHeld(L)

\* A loan that left the book has nothing left in its balances.
Discharged(L) == L.status # "ACTIVE" =>
                 Outstanding(L) + L.row.advance + L.row.allowance = 0

IInv == Good(led) /\ Discharged(led)

\* The lines are amounts, debits equal credits, and every mapped ledger account
\* the journal moves is moved on the row by the same amount.
Entries(changes, journal) ==
  /\ \A b \in Balances : At(changes, b) \in Int
  /\ \A g \in Ledgers : At(journal, g) \in Int
  /\ At(changes, "principal") = At(journal, "loansReceivable")
  /\ At(changes, "interest") = At(journal, "interestReceivable")
  /\ At(changes, "fees") = At(journal, "feesReceivable")
  /\ At(changes, "advance") = 0 - At(journal, "customerAdvances")
  /\ At(changes, "allowance") = 0 - At(journal, "loanLossAllowance")
  /\ At(journal, "cash") + At(journal, "loansReceivable")
     + At(journal, "interestReceivable") + At(journal, "feesReceivable")
     + At(journal, "customerAdvances") + At(journal, "interestSuspense")
     + At(journal, "loanLossAllowance") + At(journal, "interestIncome")
     + At(journal, "feeIncome") + At(journal, "provisionExpense")
     + At(journal, "writeOffExpense") + At(journal, "concessionsExpense")
     + At(journal, "recoveryIncome") = 0

\* No balance is overdrawn.
Covers(L, changes) == \A b \in Balances : L.row[b] + At(changes, b) >= 0

\* Suspense is moved on both sides, and never beyond the interest owed.
KeepsSuspense(L, changes, journal) ==
  /\ At(changes, "suspended") = 0 - At(journal, "interestSuspense")
  /\ L.row.suspended + At(changes, "suspended")
       <= L.row.interest + At(changes, "interest")

NatPayments == [int : Nat, prin : Nat, fee : Nat]

\* The fields of M are those of L after the row changes.
Moved(M, L, changes) ==
  /\ M.status = L.status
  /\ M.nonAccrual = L.nonAccrual
  /\ \A b \in Balances : M.row[b] = L.row[b] + At(changes, b)

\* Posting: a row update and a journal that agree keep the books good.
LEMMA BookedGood ==
  ASSUME NEW L, Good(L), NEW changes, NEW journal,
         Entries(changes, journal), Covers(L, changes),
         ~InterestGrace => KeepsSuspense(L, changes, journal)
  PROVE  /\ Good(Booked(L, changes, journal))
         /\ Moved(Booked(L, changes, journal), L, changes)
<1> DEFINE M == Booked(L, changes, journal)
<1>1. L \in Books BY DEF Good
<1>2. /\ M.row = Plus(L.row, changes) /\ M.gl = Plus(L.gl, journal)
      /\ M.status = L.status /\ M.nonAccrual = L.nonAccrual
  BY <1>1 DEF Booked, Books
<1>3. /\ M.row \in [Balances -> Nat]
      /\ \A b \in Balances : M.row[b] = L.row[b] + At(changes, b)
  <2>1. \A b \in Balances : L.row[b] + At(changes, b) \in Nat
    BY <1>1 DEF Books, Entries, Covers
  <2> QED BY <1>1, <1>2, <2>1 DEF Books, Plus
<1>4. /\ M.gl \in [Ledgers -> Int]
      /\ \A g \in Ledgers : M.gl[g] = L.gl[g] + At(journal, g)
  BY <1>1, <1>2 DEF Books, Entries, Plus
<1>5. M \in Books
  BY <1>1, <1>2, <1>3, <1>4 DEF Books, Booked
<1>6. Reconciles(M)
  BY <1>1, <1>3, <1>4 DEF Good, Books, Reconciles, Entries, Balances, Ledgers
<1>7. DebitsAreCredits(M)
  BY <1>1, <1>4, SMTT(30) DEF Good, Books, DebitsAreCredits, Entries, Ledgers
<1>8. ~InterestGrace => SuspenseHeld(M)
  BY <1>1, <1>3, <1>4 DEF Good, Books, SuspenseHeld, KeepsSuspense, Entries,
                          Balances, Ledgers
<1> QED BY <1>2, <1>3, <1>5, <1>6, <1>7, <1>8 DEF Good, Moved

\* The status is no part of what makes books good.
LEMMA StatusGood ==
  ASSUME NEW L, Good(L), NEW s \in Statuses
  PROVE  /\ Good([L EXCEPT !.status = s])
         /\ [L EXCEPT !.status = s].row = L.row
         /\ [L EXCEPT !.status = s].status = s
<1> DEFINE M == [L EXCEPT !.status = s]
<1>1. M \in Books /\ M.row = L.row /\ M.gl = L.gl /\ M.status = s
  BY DEF Good, Books
<1> QED BY <1>1 DEF Good, Reconciles, DebitsAreCredits, SuspenseHeld

\* So is the non-accrual flag.
LEMMA NonAccrualGood ==
  ASSUME NEW L, Good(L), NEW n \in BOOLEAN
  PROVE  /\ Good([L EXCEPT !.nonAccrual = n])
         /\ [L EXCEPT !.nonAccrual = n].row = L.row
         /\ [L EXCEPT !.nonAccrual = n].status = L.status
<1> DEFINE M == [L EXCEPT !.nonAccrual = n]
<1>1. M \in Books /\ M.row = L.row /\ M.gl = L.gl /\ M.status = L.status
  BY DEF Good, Books
<1> QED BY <1>1 DEF Good, Reconciles, DebitsAreCredits, SuspenseHeld

\* Closing moves no money.
LEMMA ClosedGood ==
  ASSUME NEW L, Good(L)
  PROVE  Good(Closed(L)) /\ Closed(L).row = L.row
<1> DEFINE M == Closed(L)
<1>1. M \in Books /\ M.row = L.row /\ M.gl = L.gl
  BY DEF Good, Books, Closed, Statuses
<1> QED BY <1>1 DEF Good, Reconciles, DebitsAreCredits, SuspenseHeld

\* Interest earned is owed, and held in suspense on a non-accrual loan.
LEMMA AccruedGood ==
  ASSUME NEW L, Good(L), NEW a \in Nat
  PROVE  /\ Good(Accrued(L, a))
         /\ Accrued(L, a).row.advance = L.row.advance
         /\ Accrued(L, a).row.principal = L.row.principal
         /\ Accrued(L, a).row.interest = L.row.interest + a
         /\ Accrued(L, a).status = L.status
<1> DEFINE held == IF L.nonAccrual THEN a ELSE 0
           changes == [interest |-> a, suspended |-> held]
           journal == [interestReceivable |-> a, interestSuspense |-> 0 - held,
                       interestIncome |-> held - a]
<1>1. held \in Nat /\ held <= a OBVIOUS
<1>2. Entries(changes, journal)
  BY <1>1 DEF Entries, At, Balances, Ledgers
<1>3. Covers(L, changes)
  BY <1>1 DEF Covers, At, Good, Books
<1>4. ~InterestGrace => KeepsSuspense(L, changes, journal)
  BY <1>1 DEF KeepsSuspense, At, Good, Books, SuspenseHeld, Balances
<1>5. Good(Booked(L, changes, journal)) /\ Moved(Booked(L, changes, journal), L, changes)
  BY <1>2, <1>3, <1>4, BookedGood
<1> QED BY <1>1, <1>5 DEF Accrued, Moved, At, Balances, Good, Books

\* Without grace instalments nothing is capitalized; with them the interest
\* that becomes principal is interest owed.
LEMMA CapitalizedGood ==
  ASSUME NEW L, Good(L), NEW c \in Nat, c <= L.row.interest,
         c > 0 => InterestGrace
  PROVE  /\ Good(Capitalized(L, c))
         /\ Capitalized(L, c).row.advance = L.row.advance
         /\ Capitalized(L, c).status = L.status
<1> DEFINE changes == [principal |-> c, interest |-> 0 - c]
           journal == [loansReceivable |-> c, interestReceivable |-> 0 - c]
<1>1. Entries(changes, journal)
  BY DEF Entries, At, Balances, Ledgers
<1>2. Covers(L, changes)
  BY DEF Covers, At, Good, Books, Balances
<1>3. ~InterestGrace => KeepsSuspense(L, changes, journal)
  BY DEF KeepsSuspense, At, Good, Books, SuspenseHeld, Balances
<1>4. Good(Booked(L, changes, journal)) /\ Moved(Booked(L, changes, journal), L, changes)
  BY <1>1, <1>2, <1>3, BookedGood
<1> QED BY <1>4 DEF Capitalized, Moved, At, Balances, Good, Books

\* Instalments paid release no more suspense than the interest they pay.
LEMMA CollectedGood ==
  ASSUME NEW L, Good(L), NEW p \in NatPayments, Owes(L, p),
         NEW advance \in Nat, NEW cash \in Nat,
         advance <= L.row.advance, advance + cash = Total(p)
  PROVE  /\ Good(Collected(L, p, advance, cash))
         /\ Collected(L, p, advance, cash).row.principal = L.row.principal - p.prin
         /\ Collected(L, p, advance, cash).status = L.status
<1> DEFINE released == Released(L, p.int)
           changes == [principal |-> 0 - p.prin, interest |-> 0 - p.int,
                       fees |-> 0 - p.fee, advance |-> 0 - advance,
                       suspended |-> 0 - released]
           journal == [cash |-> cash, customerAdvances |-> advance,
                       loansReceivable |-> 0 - p.prin,
                       interestReceivable |-> 0 - p.int,
                       feesReceivable |-> 0 - p.fee,
                       interestSuspense |-> released,
                       interestIncome |-> 0 - released]
<1>0. /\ p.int \in Nat /\ p.prin \in Nat /\ p.fee \in Nat
      /\ L.row \in [Balances -> Nat]
  BY DEF NatPayments, Good, Books
<1>1. /\ released \in Nat /\ released <= L.row.suspended /\ released <= p.int
      /\ released = L.row.suspended \/ released = p.int
  BY <1>0 DEF Released, Lesser, Balances
<1>2. Entries(changes, journal)
  BY <1>0, <1>1 DEF Entries, At, Balances, Ledgers, Total
<1>3. Covers(L, changes)
  BY <1>0, <1>1 DEF Covers, At, Balances, Owes
<1>4. ~InterestGrace => KeepsSuspense(L, changes, journal)
  BY <1>0, <1>1 DEF KeepsSuspense, At, Good, SuspenseHeld, Balances, Owes
<1>5. Good(Booked(L, changes, journal)) /\ Moved(Booked(L, changes, journal), L, changes)
  BY <1>2, <1>3, <1>4, BookedGood
<1> QED BY <1>0, <1>5 DEF Collected, Moved, At, Balances

\* A repayment collects, and prepays no more principal than is left.
LEMMA RepaidGood ==
  ASSUME NEW L, Good(L), NEW p \in NatPayments, Owes(L, p),
         NEW prepaid \in Nat, NEW charge \in Nat, NEW advanced \in Nat,
         p.prin + prepaid <= L.row.principal
  PROVE  /\ Good(Repaid(L, p, prepaid, charge, advanced))
         /\ Repaid(L, p, prepaid, charge, advanced).status = L.status
<1> DEFINE M == Collected(L, p, 0, Total(p))
           changes == [principal |-> 0 - prepaid, advance |-> advanced]
           journal == [cash |-> prepaid + charge + advanced,
                       loansReceivable |-> 0 - prepaid,
                       feeIncome |-> 0 - charge,
                       customerAdvances |-> 0 - advanced]
<1>1. Total(p) \in Nat /\ p.prin \in Nat /\ L.row \in [Balances -> Nat]
  BY DEF NatPayments, Total, Good, Books
<1>2. /\ Good(M) /\ M.status = L.status
      /\ M.row.principal = L.row.principal - p.prin
  <2>1. 0 <= L.row.advance
    BY <1>1 DEF Balances
  <2> QED BY <1>1, <2>1, CollectedGood
<1>3. Entries(changes, journal)
  BY DEF Entries, At, Balances, Ledgers
<1>4. Covers(M, changes)
  BY <1>1, <1>2 DEF Covers, At, Balances, Good, Books
<1>5. ~InterestGrace => KeepsSuspense(M, changes, journal)
  BY <1>2 DEF KeepsSuspense, At, Good, Books, SuspenseHeld, Balances
<1>6. Good(Booked(M, changes, journal)) /\ Moved(Booked(M, changes, journal), M, changes)
  BY <1>2, <1>3, <1>4, <1>5, BookedGood
<1> QED BY <1>2, <1>6 DEF Repaid, Moved

\* Releasing the allowance leaves no allowance and nothing else changed.
LEMMA AllowanceReleasedGood ==
  ASSUME NEW L, Good(L)
  PROVE  /\ Good(AllowanceReleased(L))
         /\ AllowanceReleased(L).status = L.status
         /\ AllowanceReleased(L).row = [L.row EXCEPT !.allowance = 0]
<1> DEFINE changes == [allowance |-> 0 - L.row.allowance]
           journal == [loanLossAllowance |-> L.row.allowance,
                       provisionExpense |-> 0 - L.row.allowance]
<1>1. L.row \in [Balances -> Nat]
  BY DEF Good, Books
<1>2. Entries(changes, journal)
  BY <1>1 DEF Entries, At, Balances, Ledgers
<1>3. Covers(L, changes)
  BY <1>1 DEF Covers, At, Balances
<1>4. ~InterestGrace => KeepsSuspense(L, changes, journal)
  BY <1>1 DEF KeepsSuspense, At, Good, SuspenseHeld, Balances
<1>5. Good(Booked(L, changes, journal)) /\ Moved(Booked(L, changes, journal), L, changes)
  BY <1>2, <1>3, <1>4, BookedGood
<1>6. AllowanceReleased(L).row = [L.row EXCEPT !.allowance = 0]
  BY <1>1, <1>5 DEF AllowanceReleased, Moved, At, Balances, Good, Books
<1> QED BY <1>5, <1>6 DEF AllowanceReleased, Moved

\* closeIfRepaid closes only a loan with nothing owed and nothing held.
LEMMA ClosedIfRepaidGood ==
  ASSUME NEW L, Good(L), L.status = "ACTIVE", NEW open
  PROVE  Good(ClosedIfRepaid(L, open)) /\ Discharged(ClosedIfRepaid(L, open))
<1> DEFINE M == AllowanceReleased(L)
<1>1. Good(M) /\ M.row = [L.row EXCEPT !.allowance = 0]
  BY AllowanceReleasedGood
<1>2. Good(Closed(M)) /\ Closed(M).row = M.row
  BY <1>1, ClosedGood
<1>3. CASE Outstanding(L) = 0 /\ L.row.advance = 0 /\ ~open
  <2>1. Outstanding(M) + M.row.advance + M.row.allowance = 0
    BY <1>1, <1>3 DEF Outstanding, Good, Books, Balances
  <2> QED BY <1>2, <1>3, <2>1 DEF ClosedIfRepaid, Discharged, Outstanding
<1>4. CASE ~(Outstanding(L) = 0 /\ L.row.advance = 0 /\ ~open)
  BY <1>4 DEF ClosedIfRepaid, Discharged
<1> QED BY <1>3, <1>4

\* Entering non-accrual moves at most the interest that is owed into suspense.
LEMMA EnteredNonAccrualGood ==
  ASSUME NEW L, Good(L)
  PROVE  /\ Good(EnteredNonAccrual(L))
         /\ EnteredNonAccrual(L).status = L.status
<1> DEFINE moved == IF ReverseOnEntry /\ L.row.interest > L.row.suspended
                    THEN L.row.interest - L.row.suspended ELSE 0
           changes == [suspended |-> moved]
           journal == [interestIncome |-> moved, interestSuspense |-> 0 - moved]
<1>1. L.row \in [Balances -> Nat]
  BY DEF Good, Books
<1>2. moved \in Nat /\ (moved = 0 \/ moved = L.row.interest - L.row.suspended)
  BY <1>1 DEF Balances
<1>3. Entries(changes, journal)
  BY <1>2 DEF Entries, At, Balances, Ledgers
<1>4. Covers(L, changes)
  BY <1>1, <1>2 DEF Covers, At, Balances
<1>5. ~InterestGrace => KeepsSuspense(L, changes, journal)
  BY <1>1, <1>2 DEF KeepsSuspense, At, Good, SuspenseHeld, Balances
<1>6. Good(Booked(L, changes, journal)) /\ Booked(L, changes, journal).status = L.status
  BY <1>3, <1>4, <1>5, BookedGood DEF Moved
<1> QED BY <1>6, NonAccrualGood DEF EnteredNonAccrual

\* Curing empties suspense on both sides.
LEMMA CuredGood ==
  ASSUME NEW L, Good(L)
  PROVE  Good(Cured(L)) /\ Cured(L).status = L.status
<1> DEFINE changes == [suspended |-> 0 - L.row.suspended]
           journal == [interestSuspense |-> L.row.suspended,
                       interestIncome |-> 0 - L.row.suspended]
<1>1. L.row \in [Balances -> Nat]
  BY DEF Good, Books
<1>2. Entries(changes, journal)
  BY <1>1 DEF Entries, At, Balances, Ledgers
<1>3. Covers(L, changes)
  BY <1>1 DEF Covers, At, Balances
<1>4. ~InterestGrace => KeepsSuspense(L, changes, journal)
  BY <1>1 DEF KeepsSuspense, At, Good, SuspenseHeld, Balances
<1>5. Good(Booked(L, changes, journal)) /\ Booked(L, changes, journal).status = L.status
  BY <1>2, <1>3, <1>4, BookedGood DEF Moved
<1> QED BY <1>5, NonAccrualGood DEF Cured

\* The allowance is brought to the amount required.
LEMMA ProvisionedGood ==
  ASSUME NEW L, Good(L), NEW required \in Nat
  PROVE  Good(Provisioned(L, required)) /\ Provisioned(L, required).status = L.status
<1> DEFINE change == required - L.row.allowance
           changes == [allowance |-> change]
           journal == [provisionExpense |-> change, loanLossAllowance |-> 0 - change]
<1>1. L.row \in [Balances -> Nat]
  BY DEF Good, Books
<1>2. Entries(changes, journal)
  BY <1>1 DEF Entries, At, Balances, Ledgers
<1>3. Covers(L, changes)
  BY <1>1 DEF Covers, At, Balances
<1>4. ~InterestGrace => KeepsSuspense(L, changes, journal)
  BY <1>1 DEF KeepsSuspense, At, Good, SuspenseHeld, Balances
<1> QED BY <1>2, <1>3, <1>4, BookedGood DEF Provisioned, Moved

\* Taking everything owed off the row: the other lines of the journal add up to
\* what was owed, less the advance used.
LEMMA EmptiedGood ==
  ASSUME NEW L, Good(L), NEW advance \in Nat, advance <= L.row.advance,
         NEW j, \A g \in Ledgers : At(j, g) \in Int,
         At(j, "cash") + At(j, "feeIncome") + At(j, "interestIncome")
           + At(j, "interestSuspense") + At(j, "writeOffExpense")
           + At(j, "concessionsExpense") = Outstanding(L) - advance,
         ~InterestGrace => At(j, "interestSuspense") = L.row.suspended
  PROVE  /\ Good(Emptied(L, advance, j))
         /\ Emptied(L, advance, j).status = L.status
         /\ Emptied(L, advance, j).row.advance = L.row.advance - advance
         /\ Emptied(L, advance, j).row.allowance = L.row.allowance
         /\ Outstanding(Emptied(L, advance, j)) = 0
<1> DEFINE changes ==
             [principal |-> 0 - L.row.principal, interest |-> 0 - L.row.interest,
              fees |-> 0 - L.row.fees, suspended |-> 0 - L.row.suspended,
              advance |-> 0 - advance]
           journal ==
             [loansReceivable |-> 0 - L.row.principal,
              interestReceivable |-> 0 - L.row.interest,
              feesReceivable |-> 0 - L.row.fees,
              customerAdvances |-> advance,
              cash |-> At(j, "cash"),
              feeIncome |-> At(j, "feeIncome"),
              interestIncome |-> At(j, "interestIncome"),
              interestSuspense |-> At(j, "interestSuspense"),
              writeOffExpense |-> At(j, "writeOffExpense"),
              concessionsExpense |-> At(j, "concessionsExpense")]
<1>1. L.row \in [Balances -> Nat]
  BY DEF Good, Books
<1>2. /\ At(j, "cash") \in Int /\ At(j, "feeIncome") \in Int
      /\ At(j, "interestIncome") \in Int /\ At(j, "interestSuspense") \in Int
      /\ At(j, "writeOffExpense") \in Int /\ At(j, "concessionsExpense") \in Int
  BY DEF Ledgers
<1>3. \A g \in Ledgers : At(journal, g) \in Int
  BY <1>1, <1>2 DEF Ledgers, Balances, At
<1>4. Entries(changes, journal)
  <2>1. \A b \in Balances : At(changes, b) = 0 - IF b = "allowance" THEN 0
                               ELSE IF b = "advance" THEN advance ELSE L.row[b]
    BY <1>1 DEF At, Balances
  <2>2. /\ DOMAIN journal = Ledgers \ {"loanLossAllowance", "provisionExpense",
                                       "recoveryIncome"}
        /\ journal.loansReceivable = 0 - L.row.principal
        /\ journal.interestReceivable = 0 - L.row.interest
        /\ journal.feesReceivable = 0 - L.row.fees
        /\ journal.customerAdvances = advance
        /\ journal.cash = At(j, "cash")
        /\ journal.feeIncome = At(j, "feeIncome")
        /\ journal.interestIncome = At(j, "interestIncome")
        /\ journal.interestSuspense = At(j, "interestSuspense")
        /\ journal.writeOffExpense = At(j, "writeOffExpense")
        /\ journal.concessionsExpense = At(j, "concessionsExpense")
    BY DEF Ledgers
  <2> HIDE DEF journal
  <2>3. /\ \A g \in DOMAIN journal : At(journal, g) = journal[g]
        /\ \A g \in Ledgers \ DOMAIN journal : At(journal, g) = 0
    BY DEF At
  <2> HIDE DEF changes
  <2> QED BY <1>1, <1>2, <1>3, <2>1, <2>2, <2>3 DEF Entries, Balances, Ledgers, Outstanding
<1>5. Covers(L, changes)
  BY <1>1 DEF Covers, At, Balances
<1>6. ~InterestGrace => KeepsSuspense(L, changes, journal)
  BY <1>1 DEF KeepsSuspense, At, Good, SuspenseHeld, Balances
<1>7. Good(Booked(L, changes, journal)) /\ Moved(Booked(L, changes, journal), L, changes)
  BY <1>4, <1>5, <1>6, BookedGood
<1> QED BY <1>1, <1>7 DEF Emptied, Moved, At, Balances, Outstanding

\* Closing an emptied loan leaves it with nothing.
LEMMA ClosedEmptyGood ==
  ASSUME NEW M, Good(M), Outstanding(M) = 0, M.row.advance = 0
  PROVE  /\ Good(Closed(AllowanceReleased(M)))
         /\ Discharged(Closed(AllowanceReleased(M)))
<1> DEFINE N == AllowanceReleased(M)
<1>1. Good(N) /\ N.row = [M.row EXCEPT !.allowance = 0]
  BY AllowanceReleasedGood
<1>2. Good(Closed(N)) /\ Closed(N).row = N.row
  BY <1>1, ClosedGood
<1>3. Outstanding(N) + N.row.advance + N.row.allowance = 0
  BY <1>1 DEF Outstanding, Good, Books, Balances
<1> QED BY <1>2, <1>3 DEF Discharged, Outstanding

\* Settlement takes cash for what is owed beyond the advance.
LEMMA SettledGood ==
  ASSUME NEW L, Good(L), NEW int \in Nat, NEW charge \in Nat
  PROVE  Good(Settled(L, int, charge)) /\ Discharged(Settled(L, int, charge))
<1> DEFINE released == Released(L, L.row.interest)
           j == [cash |-> Payoff(L, int, charge),
                 feeIncome |-> 0 - charge,
                 interestSuspense |-> released,
                 interestIncome |-> L.row.interest - int - released]
<1>1. L.row \in [Balances -> Nat]
  BY DEF Good, Books
<1>2. /\ released \in Nat
      /\ ~InterestGrace => released = L.row.suspended
  BY <1>1 DEF Released, Lesser, Balances, Good, SuspenseHeld
<1>3. \A g \in Ledgers : At(j, g) \in Int
  BY <1>1, <1>2 DEF At, Ledgers, Balances, Payoff
<1>4. /\ At(j, "cash") + At(j, "feeIncome") + At(j, "interestIncome")
           + At(j, "interestSuspense") + At(j, "writeOffExpense")
           + At(j, "concessionsExpense") = Outstanding(L) - L.row.advance
      /\ At(j, "interestSuspense") = released
  BY <1>1, <1>2 DEF At, Outstanding, Payoff, Balances
<1>5. /\ Good(Emptied(L, L.row.advance, j))
      /\ Emptied(L, L.row.advance, j).row.advance = L.row.advance - L.row.advance
      /\ Outstanding(Emptied(L, L.row.advance, j)) = 0
  <2> HIDE DEF j, released
  <2>1. L.row.advance \in Nat /\ L.row.advance <= L.row.advance
    BY <1>1 DEF Balances
  <2> QED BY <1>2, <1>3, <1>4, <2>1, EmptiedGood
<1>6. L.row.advance - L.row.advance = 0
  BY <1>1 DEF Balances
<1> QED BY <1>5, <1>6, ClosedEmptyGood DEF Settled

\* A settlement for less gives up the rest, and what was suspended with it.
LEMMA SettledForLessGood ==
  ASSUME NEW L, Good(L), L.row.advance = 0, NEW agreed \in Nat, NEW int \in Nat,
         int <= L.row.interest
  PROVE  /\ Good(SettledForLess(L, agreed, int))
         /\ Discharged(SettledForLess(L, agreed, int))
<1> DEFINE released == Released(L, int)
           cleared == L.row.suspended - released
           j == [cash |-> agreed,
                 concessionsExpense |-> Outstanding(L) - agreed - cleared,
                 interestSuspense |-> released + cleared,
                 interestIncome |-> 0 - released]
<1>1. L.row \in [Balances -> Nat]
  BY DEF Good, Books
<1>2. released \in Nat /\ cleared \in Int /\ released + cleared = L.row.suspended
  BY <1>1 DEF Released, Lesser, Balances
<1>3. \A g \in Ledgers : At(j, g) \in Int
  BY <1>1, <1>2 DEF At, Ledgers, Balances, Outstanding
<1>4. /\ At(j, "cash") + At(j, "feeIncome") + At(j, "interestIncome")
           + At(j, "interestSuspense") + At(j, "writeOffExpense")
           + At(j, "concessionsExpense") = Outstanding(L) - 0
      /\ At(j, "interestSuspense") = L.row.suspended
  BY <1>1, <1>2 DEF At, Outstanding, Balances
<1>5. /\ Good(Emptied(L, 0, j))
      /\ Emptied(L, 0, j).row.advance = L.row.advance - 0
      /\ Outstanding(Emptied(L, 0, j)) = 0
  <2> HIDE DEF j, released, cleared
  <2> QED BY <1>3, <1>4, EmptiedGood
<1> QED BY <1>5, ClosedEmptyGood DEF SettledForLess

\* A write-off uses the allowance, expenses the rest and gives the surplus back.
LEMMA WrittenOffGood ==
  ASSUME NEW L, Good(L), L.row.advance = 0
  PROVE  Good(WrittenOff(L)) /\ Discharged(WrittenOff(L))
<1> DEFINE used == Lesser(L.row.allowance, Outstanding(L))
           changes == [allowance |-> 0 - used]
           journal == [loanLossAllowance |-> used, writeOffExpense |-> 0 - used]
           covered == Booked(L, changes, journal)
           j == [writeOffExpense |-> Outstanding(L) - L.row.suspended,
                 interestSuspense |-> L.row.suspended]
           empty == Emptied(covered, 0, j)
           final == AllowanceReleased(empty)
<1>1. L.row \in [Balances -> Nat]
  BY DEF Good, Books
<1>2. used \in Nat /\ used <= L.row.allowance
  BY <1>1 DEF Lesser, Outstanding, Balances
<1>3. Good(covered) /\ Moved(covered, L, changes)
  <2>1. Entries(changes, journal)
    BY <1>2 DEF Entries, At, Balances, Ledgers
  <2>2. Covers(L, changes)
    BY <1>1, <1>2 DEF Covers, At, Balances
  <2>3. ~InterestGrace => KeepsSuspense(L, changes, journal)
    BY <1>1 DEF KeepsSuspense, At, Good, SuspenseHeld, Balances
  <2> QED BY <2>1, <2>2, <2>3, BookedGood
<1>4. /\ Outstanding(covered) = Outstanding(L)
      /\ covered.row.advance = 0 /\ covered.row.suspended = L.row.suspended
  BY <1>1, <1>3 DEF Moved, At, Balances, Outstanding
<1>5. /\ \A g \in Ledgers : At(j, g) \in Int
      /\ At(j, "cash") + At(j, "feeIncome") + At(j, "interestIncome")
           + At(j, "interestSuspense") + At(j, "writeOffExpense")
           + At(j, "concessionsExpense") = Outstanding(L)
      /\ At(j, "interestSuspense") = L.row.suspended
  BY <1>1 DEF At, Ledgers, Outstanding, Balances
<1>6. Outstanding(L) \in Nat
  BY <1>1 DEF Outstanding, Balances
<1>7. /\ Good(empty) /\ empty.row.advance = 0 /\ Outstanding(empty) = 0
  <2> HIDE DEF j, covered
  <2>1. 0 \in Nat /\ 0 <= covered.row.advance /\ Outstanding(L) = Outstanding(covered) - 0
        /\ covered.row.advance - 0 = 0
    BY <1>4, <1>6
  <2> QED BY <1>3, <1>4, <1>5, <2>1, EmptiedGood
<1>8. Good(final) /\ final.row = [empty.row EXCEPT !.allowance = 0]
  BY <1>7, AllowanceReleasedGood
<1>9. Outstanding(final) + final.row.advance + final.row.allowance = 0
  <2> HIDE DEF final, empty
  <2> QED BY <1>7, <1>8 DEF Outstanding, Good, Books, Balances
<1>10. WrittenOff(L) = [final EXCEPT !.status = "WRITTEN_OFF"]
  BY DEF WrittenOff
<1>11. /\ Good([final EXCEPT !.status = "WRITTEN_OFF"])
       /\ [final EXCEPT !.status = "WRITTEN_OFF"].row = final.row
  BY <1>8, StatusGood DEF Statuses
<1> HIDE DEF final
<1> QED BY <1>9, <1>10, <1>11 DEF Discharged, Outstanding

\* A recovery touches no balance of the row.
LEMMA RecoveredGood ==
  ASSUME NEW L, Good(L), NEW amount \in Nat
  PROVE  /\ Good(Recovered(L, amount))
         /\ Discharged(L) => Discharged(Recovered(L, amount))
<1> DEFINE journal == [cash |-> amount, recoveryIncome |-> 0 - amount]
           M == Booked(L, <<>>, journal)
<1>1. L.row \in [Balances -> Nat]
  BY DEF Good, Books
<1>2. \A b \in Balances : At(<<>>, b) = 0
  BY DEF At, Balances
<1>3. Entries(<<>>, journal)
  BY <1>2 DEF Entries, At, Balances, Ledgers
<1>4. Covers(L, <<>>)
  BY <1>1, <1>2 DEF Covers
<1>5. ~InterestGrace => KeepsSuspense(L, <<>>, journal)
  BY <1>1, <1>2 DEF KeepsSuspense, At, Good, SuspenseHeld, Balances
<1>6. Good(M) /\ Moved(M, L, <<>>)
  BY <1>3, <1>4, <1>5, BookedGood
<1>7. M.status = L.status /\ \A b \in Balances : M.row[b] = L.row[b]
  BY <1>1, <1>2, <1>6 DEF Moved
<1>8. M = Recovered(L, amount)
  BY DEF Recovered
<1> HIDE DEF M
<1> QED BY <1>1, <1>6, <1>7, <1>8 DEF Discharged, Outstanding, Balances

\* A refund pays out no more than is held.
LEMMA RefundedGood ==
  ASSUME NEW L, Good(L), NEW amount \in Nat, amount <= L.row.advance
  PROVE  /\ Good(Refunded(L, amount))
         /\ Refunded(L, amount).status = L.status
         /\ Refunded(L, amount).row = [L.row EXCEPT !.advance = @ - amount]
<1> DEFINE changes == [advance |-> 0 - amount]
           journal == [customerAdvances |-> amount, cash |-> 0 - amount]
           M == Booked(L, changes, journal)
<1>1. L.row \in [Balances -> Nat]
  BY DEF Good, Books
<1>2. Entries(changes, journal)
  BY DEF Entries, At, Balances, Ledgers
<1>3. Covers(L, changes)
  BY <1>1 DEF Covers, At, Balances
<1>4. ~InterestGrace => KeepsSuspense(L, changes, journal)
  BY <1>1 DEF KeepsSuspense, At, Good, SuspenseHeld, Balances
<1>5. Good(M) /\ Moved(M, L, changes)
  BY <1>2, <1>3, <1>4, BookedGood
<1>6. M.row = [L.row EXCEPT !.advance = L.row.advance - amount]
  BY <1>1, <1>5 DEF Moved, At, Balances, Good, Books
<1> QED BY <1>5, <1>6 DEF Refunded, Moved

NatEvents == [type : {"REPAYMENT", "ADVANCE_APPLIED"}, pay : NatPayments,
              prepaid : Nat, charge : Nat, advanced : Nat, released : Nat]

\* A reversal mirrors an event whose suspense release was part of its interest.
LEMMA ReversedGood ==
  ASSUME NEW L, Good(L), NEW e \in NatEvents, e.released <= e.pay.int,
         e.type = "ADVANCE_APPLIED" => e.prepaid + e.charge + e.advanced = 0,
         L.row.advance + AdvanceChange(e) >= 0
  PROVE  Good(Reversed(L, e)) /\ Reversed(L, e).status = "ACTIVE"
<1> DEFINE back == AdvanceChange(e)
           again == IF L.nonAccrual THEN e.released ELSE 0
           changes == [principal |-> e.pay.prin + e.prepaid,
                       interest |-> e.pay.int, fees |-> e.pay.fee,
                       advance |-> back, suspended |-> again]
           journal == [loansReceivable |-> e.pay.prin + e.prepaid,
                       interestReceivable |-> e.pay.int,
                       feesReceivable |-> e.pay.fee,
                       customerAdvances |-> 0 - back,
                       cash |-> back - Total(e.pay) - e.prepaid - e.charge,
                       feeIncome |-> e.charge,
                       interestSuspense |-> 0 - again, interestIncome |-> again]
           M == Booked(L, changes, journal)
<1>1. /\ L.row \in [Balances -> Nat]
      /\ e.pay.prin \in Nat /\ e.pay.int \in Nat /\ e.pay.fee \in Nat
      /\ e.prepaid \in Nat /\ e.charge \in Nat /\ e.advanced \in Nat
      /\ e.released \in Nat
  BY DEF Good, Books, NatEvents, NatPayments
<1>2. /\ Total(e.pay) = e.pay.int + e.pay.prin + e.pay.fee
      /\ back \in Int
      /\ again \in Nat /\ again <= e.pay.int
  BY <1>1 DEF Total, AdvanceChange
<1>3. Entries(changes, journal)
  <2> HIDE DEF back, again
  <2> QED BY <1>1, <1>2 DEF Entries, At, Balances, Ledgers
<1>4. Covers(L, changes)
  <2> HIDE DEF again
  <2> QED BY <1>1, <1>2 DEF Covers, At, Balances
<1>5. ~InterestGrace => KeepsSuspense(L, changes, journal)
  <2> HIDE DEF back, again
  <2> QED BY <1>1, <1>2 DEF KeepsSuspense, At, Good, SuspenseHeld, Balances
<1>6. Good(M)
  BY <1>3, <1>4, <1>5, BookedGood
<1>7. Reversed(L, e) = [M EXCEPT !.status = "ACTIVE"]
  BY DEF Reversed
<1> HIDE DEF M
<1> QED BY <1>6, <1>7, StatusGood DEF Statuses

\* The fee for a returned payment is owed and earned.
LEMMA ReturnFeeChargedGood ==
  ASSUME NEW L, Good(L), NEW fee \in Nat
  PROVE  Good(ReturnFeeCharged(L, fee)) /\ ReturnFeeCharged(L, fee).status = L.status
<1> DEFINE changes == [fees |-> fee]
           journal == [feesReceivable |-> fee, feeIncome |-> 0 - fee]
<1>1. Entries(changes, journal)
  BY DEF Entries, At, Balances, Ledgers
<1>2. Covers(L, changes)
  BY DEF Covers, At, Balances, Good, Books
<1>3. ~InterestGrace => KeepsSuspense(L, changes, journal)
  BY DEF KeepsSuspense, At, Good, Books, SuspenseHeld, Balances
<1> QED BY <1>1, <1>2, <1>3, BookedGood DEF ReturnFeeCharged, Moved
-----------------------------------------------------------------------------
(* The operations. *)

\* catchUp keeps good books good and moves no advance.
LEMMA CaughtUpGood ==
  ASSUME NEW L, Good(L), NEW t, t.accrual \in Nat, t.cap \in Nat, MayCatchUp(L, t)
  PROVE  /\ Good(CaughtUp(L, t))
         /\ CaughtUp(L, t).status = L.status
         /\ CaughtUp(L, t).row.advance = L.row.advance
<1>1. /\ Good(Accrued(L, t.accrual)) /\ Accrued(L, t.accrual).status = L.status
      /\ Accrued(L, t.accrual).row.advance = L.row.advance
  BY AccruedGood
<1> QED BY <1>1, CapitalizedGood DEF CaughtUp, MayCatchUp

\* catchUp and applyAdvance, the head of every repayment and end of day.
LEMMA PreparedGood ==
  ASSUME NEW L, Good(L), NEW t, t.accrual \in Nat, t.cap \in Nat,
         t.adv \in NatPayments, MayPrepare(L, t)
  PROVE  Good(Prepared(L, t)) /\ Prepared(L, t).status = L.status
<1> DEFINE M == CaughtUp(L, t)
<1>1. Good(M) /\ M.status = L.status /\ M.row.advance = L.row.advance
  BY CaughtUpGood DEF MayPrepare
<1>2. Total(t.adv) \in Nat /\ Total(t.adv) + 0 = Total(t.adv)
  BY DEF NatPayments, Total
<1> HIDE DEF M
<1>3. Good(Collected(M, t.adv, Total(t.adv), 0)) /\ Collected(M, t.adv, Total(t.adv), 0).status = M.status
  BY <1>1, <1>2, CollectedGood DEF MayPrepare, M
<1> QED BY <1>1, <1>3 DEF Prepared, AdvanceApplied, M

\* The amounts a transaction carries are natural numbers.
LEMMA AmountsAreNat ==
  /\ Amounts \subseteq Nat
  /\ Payments \subseteq NatPayments
  /\ Events \subseteq NatEvents
<1>1. Amounts \subseteq Nat
  BY LedgerAssumption
<1>2. Payments \subseteq NatPayments
  BY <1>1 DEF Payments, NatPayments
<1> QED BY <1>1, <1>2 DEF Events, NatEvents

\* A disbursed loan starts with good books.
LEMMA InitIInv == Init => IInv
<1> SUFFICES ASSUME Init PROVE IInv
  OBVIOUS
<1> USE LedgerAssumption
<1>1. /\ led \in Books /\ led.status = "ACTIVE"
      /\ \A b \in Balances : led.row[b] = CASE b = "principal" -> Principal
                                            [] b = "fees" -> SeparateFee
                                            [] OTHER -> 0
      /\ \A g \in Ledgers : led.gl[g] = CASE g = "cash" -> 0 - Principal
                                          [] g = "loansReceivable" -> Principal
                                          [] g = "feesReceivable" -> SeparateFee
                                          [] g = "feeIncome" -> 0 - SeparateFee
                                          [] OTHER -> 0
  <2>1. [b \in Balances |-> CASE b = "principal" -> Principal
                             [] b = "fees" -> SeparateFee
                             [] OTHER -> 0] \in [Balances -> Nat]
    OBVIOUS
  <2>2. [g \in Ledgers |-> CASE g = "cash" -> 0 - Principal
                             [] g = "loansReceivable" -> Principal
                             [] g = "feesReceivable" -> SeparateFee
                             [] g = "feeIncome" -> 0 - SeparateFee
                             [] OTHER -> 0] \in [Ledgers -> Int]
    OBVIOUS
  <2> QED BY <2>1, <2>2 DEF Init, Books, Statuses
<1>2. Reconciles(led)
  BY <1>1 DEF Reconciles, Balances, Ledgers
<1>3. DebitsAreCredits(led)
  BY <1>1 DEF DebitsAreCredits, Ledgers
<1>4. SuspenseHeld(led)
  BY <1>1 DEF SuspenseHeld, Balances, Ledgers
<1> QED BY <1>1, <1>2, <1>3, <1>4 DEF IInv, Good, Discharged

\* Every operation keeps the books good and empties a loan that leaves the book.
LEMMA StepIInv == IInv /\ [Next]_vars => IInv'
<1> SUFFICES ASSUME IInv, [Next]_vars PROVE IInv'
  OBVIOUS
<1> USE AmountsAreNat
<1>1. CASE Repay
  <2> DEFINE L == Prepared(led, tx')
             M == Repaid(L, tx'.pay, tx'.prepaid, tx'.charge, tx'.advanced)
  <2>1. /\ tx'.accrual \in Nat /\ tx'.cap \in Nat /\ tx'.adv \in NatPayments
        /\ tx'.pay \in NatPayments /\ tx'.prepaid \in Nat
        /\ tx'.charge \in Nat /\ tx'.advanced \in Nat
    BY <1>1 DEF Repay
  <2>2. Good(L) /\ L.status = "ACTIVE"
    BY <1>1, <2>1, PreparedGood DEF Repay, IInv, Active
  <2>3. /\ Owes(L, tx'.pay) /\ tx'.pay.prin + tx'.prepaid <= L.row.principal
        /\ led' = ClosedIfRepaid(M, tx'.open)
    BY <1>1 DEF Repay
  <2> HIDE DEF L
  <2>4. Good(M) /\ M.status = "ACTIVE"
    BY <2>1, <2>2, <2>3, RepaidGood
  <2> HIDE DEF M
  <2> QED BY <2>3, <2>4, ClosedIfRepaidGood DEF IInv, Good, Discharged
<1>2. CASE EndOfDay
  <2> DEFINE L == Prepared(led, tx')
             M == CASE tx'.move = "NONE"  -> L
                    [] tx'.move = "ENTER" -> EnteredNonAccrual(L)
                    [] tx'.move = "CURE"  -> Cured(L)
             N == Provisioned(M, tx'.required)
  <2>1. /\ tx'.accrual \in Nat /\ tx'.cap \in Nat /\ tx'.adv \in NatPayments
        /\ tx'.required \in Nat /\ tx'.move \in {"NONE", "ENTER", "CURE"}
    BY <1>2 DEF EndOfDay
  <2>2. Good(L) /\ L.status = "ACTIVE"
    BY <1>2, <2>1, PreparedGood DEF EndOfDay, IInv, Active
  <2>3. led' = ClosedIfRepaid(N, tx'.open)
    BY <1>2 DEF EndOfDay
  <2> HIDE DEF L
  <2>4. Good(M) /\ M.status = "ACTIVE"
    BY <2>1, <2>2, EnteredNonAccrualGood, CuredGood
  <2> HIDE DEF M
  <2>5. Good(N) /\ N.status = "ACTIVE"
    BY <2>1, <2>4, ProvisionedGood
  <2> HIDE DEF N
  <2> QED BY <2>3, <2>5, ClosedIfRepaidGood DEF IInv, Good, Discharged
<1>3. CASE Settle
  <2> DEFINE L == Accrued(led, tx'.accrual)
  <2>1. tx'.accrual \in Nat /\ tx'.int \in Nat /\ tx'.charge \in Nat
    BY <1>3 DEF Settle
  <2>2. Good(L) /\ led' = Settled(L, tx'.int, tx'.charge)
    BY <1>3, <2>1, AccruedGood DEF Settle, IInv
  <2> HIDE DEF L
  <2> QED BY <2>1, <2>2, SettledGood DEF IInv, Good, Discharged
<1>4. CASE SettleForLess
  <2> DEFINE L == CaughtUp(led, tx')
  <2>1. /\ tx'.accrual \in Nat /\ tx'.cap \in Nat
        /\ tx'.agreed \in Nat /\ tx'.int \in Nat
    BY <1>4 DEF SettleForLess
  <2>2. Good(L) /\ L.row.advance = 0
    BY <1>4, <2>1, CaughtUpGood DEF SettleForLess, IInv
  <2>3. /\ tx'.int <= Lesser(tx'.agreed, L.row.interest)
        /\ led' = SettledForLess(L, tx'.agreed, tx'.int)
    BY <1>4 DEF SettleForLess
  <2> HIDE DEF L
  <2>4. tx'.int <= L.row.interest
    BY <2>1, <2>2, <2>3 DEF Lesser, Good, Books, Balances
  <2> QED BY <2>1, <2>2, <2>3, <2>4, SettledForLessGood DEF IInv, Good, Discharged
<1>5. CASE Reverse
  <2> DEFINE M == Reversed(led, tx'.event)
  <2>1. tx'.event \in NatEvents /\ tx'.returnFee \in Nat
    BY <1>5 DEF Reverse
  <2>2. Good(M) /\ M.status = "ACTIVE"
    BY <1>5, <2>1, ReversedGood DEF Reverse, IInv
  <2>3. led' = ReturnFeeCharged(M, tx'.returnFee)
    BY <1>5 DEF Reverse
  <2> HIDE DEF M
  <2> QED BY <2>1, <2>2, <2>3, ReturnFeeChargedGood DEF IInv, Good, Discharged
<1>6. CASE RefundAdvance
  <2> DEFINE M == Refunded(led, tx'.amount)
  <2>1. tx'.amount \in Nat /\ tx'.amount > 0 /\ tx'.amount <= led.row.advance
    BY <1>6 DEF RefundAdvance
  <2>2. led.row \in [Balances -> Nat]
    BY DEF IInv, Good, Books
  <2>3. led.status = "ACTIVE"
    BY <2>1, <2>2 DEF IInv, Discharged, Outstanding, Balances
  <2>4. Good(M) /\ M.status = "ACTIVE"
    BY <2>1, <2>3, RefundedGood DEF IInv
  <2>5. led' = ClosedIfRepaid(M, tx'.open)
    BY <1>6 DEF RefundAdvance
  <2> HIDE DEF M
  <2> QED BY <2>4, <2>5, ClosedIfRepaidGood DEF IInv, Good, Discharged
<1>7. CASE WriteOff
  BY <1>7, WrittenOffGood DEF WriteOff, IInv, Good, Discharged
<1>8. CASE Recover
  <2>1. tx'.amount \in Nat /\ led' = Recovered(led, tx'.amount)
    BY <1>8 DEF Recover
  <2> QED BY <2>1, RecoveredGood DEF IInv, Good, Discharged
<1>9. CASE UNCHANGED vars
  BY <1>9 DEF vars, IInv, Good, Discharged, Reconciles, DebitsAreCredits,
              SuspenseHeld, Outstanding
<1> QED BY <1>1, <1>2, <1>3, <1>4, <1>5, <1>6, <1>7, <1>8, <1>9 DEF Next

\* The inductive invariant of the ledger.
THEOREM LedgerInvariant == Spec => []IInv
BY InitIInv, StepIInv, PTL DEF Spec

\* Balances and ledger accounts keep their types: no balance goes negative.
THEOREM TypeCorrect == Spec => []TypeOK
<1>1. IInv => TypeOK
  BY DEF IInv, Good, TypeOK
<1> QED BY <1>1, LedgerInvariant, PTL

\* The nightly reconciliation never finds a break between row and ledger.
THEOREM Reconciliation == Spec => []BalancesReconcile
<1>1. IInv => BalancesReconcile
  BY DEF IInv, Good, BalancesReconcile
<1> QED BY <1>1, LedgerInvariant, PTL

\* Debits equal credits after every operation.
THEOREM BooksStayBalanced == Spec => []BooksBalance
<1>1. IInv => BooksBalance
  BY DEF IInv, Good, BooksBalance
<1> QED BY <1>1, LedgerInvariant, PTL

\* Where no instalment capitalizes interest, suspense reconciles too and never
\* exceeds the interest owed.
THEOREM SuspenseReconciliation == ~InterestGrace => (Spec => []SuspenseReconciles)
<1> SUFFICES ASSUME ~InterestGrace PROVE Spec => []SuspenseReconciles
  OBVIOUS
<1>1. IInv => SuspenseReconciles
  BY DEF IInv, Good, SuspenseReconciles
<1> QED BY <1>1, LedgerInvariant, PTL

\* A closed or written-off loan owes nothing, holds nothing and needs no allowance.
THEOREM TerminalEmptiness == Spec => []TerminalIsEmpty
<1>1. IInv => TerminalIsEmpty
  BY DEF IInv, Discharged, TerminalIsEmpty
<1> QED BY <1>1, LedgerInvariant, PTL

\* Balances that are not negative and add up to nothing are nothing.
LEMMA EmptyRow ==
  ASSUME NEW row \in [Balances -> Nat],
         row.principal + row.interest + row.fees + row.advance + row.allowance = 0
  PROVE  /\ row.principal = 0 /\ row.interest = 0 /\ row.fees = 0
         /\ row.advance = 0 /\ row.allowance = 0
<1> DEFINE a == row.principal
           b == row.interest
           c == row.fees
           d == row.advance
           e == row.allowance
<1>1. /\ a \in Nat /\ b \in Nat /\ c \in Nat /\ d \in Nat /\ e \in Nat
      /\ a + b + c + d + e = 0
  BY DEF Balances
<1>2. a = 0 /\ b = 0 /\ c = 0 /\ d = 0 /\ e = 0
  <2> HIDE DEF a, b, c, d, e
  <2> QED BY <1>1
<1> QED BY <1>2

\* Ledger accounts that mirror an empty row are empty.
LEMMA EmptyAccounts ==
  ASSUME NEW gl \in [Ledgers -> Int],
         0 = gl.loansReceivable, 0 = gl.interestReceivable,
         0 = gl.feesReceivable, 0 = 0 - gl.customerAdvances,
         0 = 0 - gl.loanLossAllowance, 0 = 0 - gl.interestSuspense,
         gl.cash + gl.loansReceivable + gl.interestReceivable
           + gl.feesReceivable + gl.customerAdvances + gl.interestSuspense
           + gl.loanLossAllowance + gl.interestIncome + gl.feeIncome
           + gl.provisionExpense + gl.writeOffExpense
           + gl.concessionsExpense + gl.recoveryIncome = 0
  PROVE  gl.cash = 0 - (gl.interestIncome + gl.feeIncome + gl.provisionExpense
                        + gl.writeOffExpense + gl.concessionsExpense
                        + gl.recoveryIncome)
<1> DEFINE a == gl.customerAdvances
           b == gl.loanLossAllowance
           c == gl.interestSuspense
<1>1. /\ a \in Int /\ b \in Int /\ c \in Int
      /\ 0 = 0 - a /\ 0 = 0 - b /\ 0 = 0 - c
  BY DEF Ledgers
<1>2. a = 0 /\ b = 0 /\ c = 0
  <2> HIDE DEF a, b, c
  <2> QED BY <1>1
<1> QED BY <1>2 DEF Ledgers

\* Emptied books with suspense reconciled hold cash against profit alone.
LEMMA EmptyBooksProfit ==
  ASSUME NEW L, Good(L), SuspenseHeld(L),
         Outstanding(L) + L.row.advance + L.row.allowance = 0
  PROVE  L.gl.cash = 0 - (L.gl.interestIncome + L.gl.feeIncome
                          + L.gl.provisionExpense + L.gl.writeOffExpense
                          + L.gl.concessionsExpense + L.gl.recoveryIncome)
<1>1. L.row \in [Balances -> Nat] /\ L.gl \in [Ledgers -> Int]
  BY DEF Good, Books
<1>2. /\ L.row.principal = 0 /\ L.row.interest = 0 /\ L.row.fees = 0
      /\ L.row.advance = 0 /\ L.row.allowance = 0
  BY <1>1, EmptyRow DEF Outstanding
<1>3. L.row.suspended = 0
  BY <1>1, <1>2 DEF SuspenseHeld, Balances
<1> QED BY <1>1, <1>2, <1>3, EmptyAccounts
        DEF Good, Reconciles, SuspenseHeld, DebitsAreCredits

\* Without grace, everything a loan that left the book brought in beyond its
\* principal is income and expense: nothing is stranded in a balance account.
THEOREM TerminalProfit == ~InterestGrace => (Spec => []TerminalProfitIsCash)
<1> SUFFICES ASSUME ~InterestGrace PROVE Spec => []TerminalProfitIsCash
  OBVIOUS
<1>1. IInv => TerminalProfitIsCash
  BY EmptyBooksProfit DEF IInv, Good, Discharged, TerminalProfitIsCash
<1> QED BY <1>1, LedgerInvariant, PTL

-----------------------------------------------------------------------------
(* Recovery: security is used once, and the ledger agrees with its rows. *)

\* Of the terms of a sum, numbers, only the one of d differs, by n.
Moves(S, f, h, d, n) == d \in S /\ Shifts(S, f, h, d, n)

\* Then the total differs by n.
LEMMA SumMoves ==
  ASSUME NEW S, IsFiniteSet(S), NEW f, NEW h, NEW d, NEW n, Moves(S, f, h, d, n)
  PROVE  Recovery!Total(h, S) = Recovery!Total(f, S) + n
<1>1. \A g : Recovery!Total(g, S) = SumOver(g, S)
  BY DEF Recovery!Total, SumOver, Recovery!MapThenSumSet, Recovery!MapThenFoldSet,
         MapThenSumSet, MapThenFoldSet
<1>2. SumOver(h, S) = SumOver(f, S) + n BY OneTermMoves DEF Moves
<1> QED BY <1>1, <1>2

\* Nothing adds up to nothing.
LEMMA SumOfNothing ==
  ASSUME NEW S, IsFiniteSet(S), NEW f, \A x \in S : f[x] = 0
  PROVE  Recovery!Total(f, S) = 0
<1>1. Recovery!Total(f, S) = SumOver(f, S)
  BY DEF Recovery!Total, SumOver, Recovery!MapThenSumSet, Recovery!MapThenFoldSet,
         MapThenSumSet, MapThenFoldSet
<1> QED BY <1>1, NothingAddsUp

LoanRow == [status : {"ACTIVE", "CLOSED", "WRITTEN_OFF", "SOLD"},
            owed : Nat, paid : Nat, late : BOOLEAN]
PledgeRow == [status : {"ACTIVE", "RELEASED", "SOLD"}, asked : BOOLEAN]
ItemRow == [status : {"NONE", "IN_CUSTODY", "FORFEITED", "SOLD", "RETURNED"},
            overdue : BOOLEAN, asked : BOOLEAN]
SeizureStatus == {"NONE", "PROPOSED", "SEIZED", "REJECTED", "VALUED", "SOLD"}
ClaimRow == [status : {"NONE", "PENDING", "SETTLED", "REJECTED"},
             amount : Nat, received : Nat, whole : BOOLEAN]
RefundRow == [status : {"NONE", "PAYABLE", "PAID"}, amount : Nat, asked : BOOLEAN]

\* A loan owes something as long as it is ACTIVE.
LoanFits == loan \in LoanRow /\ (loan.owed > 0 <=> loan.status = "ACTIVE")

\* A pledge is sold once it was seized and the seizure sold, and only one was.
PledgeFits ==
  /\ pledge \in PledgeRow /\ seizure \in [Seizures -> SeizureStatus]
  /\ pledge.status = "SOLD" <=> \E k \in Seizures : seizure[k] = "SOLD"
  /\ \A j, k \in Seizures : seizure[j] = "SOLD" /\ seizure[k] = "SOLD" => j = k

\* A claim that was paid, or may be.
Pays(k) == claim[k].status \in {"PENDING", "SETTLED"}

\* One claim at a time is pending or was settled, and a policy that one was
\* settled on takes no other; nothing is paid on one that waits.
ClaimsFit ==
  /\ policy \in {"ACTIVE", "CLAIMED"} /\ claim \in [Claims -> ClaimRow]
  /\ \A j, k \in Claims : Pays(j) /\ Pays(k) => j = k
  /\ \A k \in Claims : /\ claim[k].status = "SETTLED" => policy = "CLAIMED"
                       /\ claim[k].status = "PENDING" => claim[k].received = 0

\* Nothing of a loan that was sold is on its way to a sale.
SoldFits == item \in ItemRow /\ Recovery!NothingSoldInHand

\* Surpluses held, and what the insurer still owes, row by row.
BooksFit ==
  /\ refund \in [Refunds -> RefundRow]
  /\ account \in [claims : Int, refunds : Int]
  /\ account.refunds = Recovery!Total(Recovery!Held, Refunds)
  /\ account.claims = Recovery!Total(Recovery!Owing, Claims)

RecoveryInv == LoanFits /\ PledgeFits /\ ClaimsFit /\ SoldFits /\ BooksFit

\* What proceeds leave the borrower is a number.
LEMMA SurplusIsMoney ==
  ASSUME LoanFits, NEW gross \in Nat, NEW costs \in Nat
  PROVE  LET net == IF costs < gross THEN gross - costs ELSE 0
         IN  /\ net \in Nat /\ Recovery!Applied(net) \in Nat
             /\ Recovery!Applied(net) <= loan.owed /\ net - Recovery!Applied(net) \in Nat
<1>1. loan.owed \in Nat BY DEF LoanFits, LoanRow
<1> QED BY <1>1 DEF Recovery!Applied

\* Proceeds keep the loan's row, and what is held for the borrower is a refund.
LEMMA ProceedsKeep ==
  ASSUME LoanFits, BooksFit, NEW gross \in Nat, NEW costs \in Nat, NEW due \in Nat,
         Recovery!ApplyProceeds(gross, costs, due)
  PROVE  /\ LoanFits' /\ loan'.status # "SOLD"
         /\ refund' \in [Refunds -> RefundRow]
         /\ account' \in [claims : Int, refunds : Int] /\ account'.claims = account.claims + due
         /\ account'.refunds = Recovery!Total(Recovery!Held', Refunds)
<1> DEFINE net == IF costs < gross THEN gross - costs ELSE 0
           take == Recovery!Applied(net)
           surplus == net - take
<1>1. net \in Nat /\ take \in Nat /\ take <= loan.owed /\ surplus \in Nat BY SurplusIsMoney
<1>2. /\ loan.status = "ACTIVE"
      /\ loan' = IF take = loan.owed
                 THEN [loan EXCEPT !.status = "CLOSED", !.owed = 0, !.late = FALSE]
                 ELSE [loan EXCEPT !.owed = @ - take]
      /\ account' = [account EXCEPT !.claims = @ + due, !.refunds = @ + surplus]
      /\ IF surplus = 0 THEN UNCHANGED refund
         ELSE \E r \in Refunds :
                /\ Recovery!Next1(refund, Recovery!NoRefund, r)
                /\ refund' = [refund EXCEPT ![r] =
                     [status |-> "PAYABLE", amount |-> surplus, asked |-> TRUE]]
  BY DEF Recovery!ApplyProceeds
<1> HIDE DEF take, surplus, net
<1>3. loan \in LoanRow /\ loan.owed \in Nat /\ loan.owed > 0 BY <1>2 DEF LoanFits, LoanRow
<1>4. LoanFits' /\ loan'.status # "SOLD"
  <2>1. CASE take = loan.owed
    <3>1. loan' = [loan EXCEPT !.status = "CLOSED", !.owed = 0, !.late = FALSE] BY <1>2, <2>1
    <3>2. loan' \in LoanRow /\ loan'.status = "CLOSED" /\ loan'.owed = 0
      BY <1>3, <3>1 DEF LoanRow
    <3> QED BY <3>2 DEF LoanFits
  <2>2. CASE take # loan.owed
    <3>1. loan.owed - take \in Nat /\ loan.owed - take > 0 BY <1>1, <1>3, <2>2
    <3>2. loan' = [loan EXCEPT !.owed = loan.owed - take] BY <1>2, <2>2
    <3> QED BY <1>2, <1>3, <3>1, <3>2 DEF LoanFits, LoanRow
  <2> QED BY <2>1, <2>2
<1>5. account \in [claims : Int, refunds : Int] BY DEF BooksFit
<1>6. /\ account' \in [claims : Int, refunds : Int]
      /\ account'.refunds = account.refunds + surplus /\ account'.claims = account.claims + due
  <2>1. /\ account.claims \in Int /\ account.refunds \in Int
        /\ account.claims + due \in Int /\ account.refunds + surplus \in Int
    BY <1>1, <1>5
  <2>2. account' = [account EXCEPT !.claims = account.claims + due,
                                   !.refunds = account.refunds + surplus]
    BY <1>2
  <2> HIDE DEF surplus
  <2> QED BY <1>5, <2>1, <2>2
<1>7. refund \in [Refunds -> RefundRow] /\ account.refunds = Recovery!Total(Recovery!Held, Refunds)
  BY DEF BooksFit
<1>8. CASE surplus = 0
  <2>1. refund' = refund BY <1>2, <1>8
  <2>2. Recovery!Held' = Recovery!Held BY <2>1 DEF Recovery!Held
  <2> QED BY <1>4, <1>6, <1>7, <1>8, <2>1, <2>2, <1>5
<1>9. CASE surplus # 0
  <2>1. PICK r \in Refunds :
          /\ refund[r] = Recovery!NoRefund
          /\ refund' = [refund EXCEPT ![r] =
                [status |-> "PAYABLE", amount |-> surplus, asked |-> TRUE]]
    BY <1>2, <1>9 DEF Recovery!Next1, Recovery!Free
  <2>2. refund' \in [Refunds -> RefundRow] BY <1>1, <1>7, <2>1 DEF RefundRow
  <2>3. Moves(Refunds, Recovery!Held, Recovery!Held', r, surplus)
    BY <1>1, <1>7, <2>1 DEF Moves, Shifts, Recovery!Held, RefundRow, Recovery!NoRefund
  <2>4. Recovery!Total(Recovery!Held', Refunds) = Recovery!Total(Recovery!Held, Refunds) + surplus
    BY <2>3, SumMoves, RecoveryAssumption, Zenon
  <2> QED BY <1>4, <1>6, <1>7, <2>2, <2>4
<1> QED BY <1>8, <1>9

\* The loan, the security and the books begin so.
LEMMA RecoveryBegins == Recovery!Init => RecoveryInv
<1> SUFFICES ASSUME Recovery!Init PROVE RecoveryInv OBVIOUS
<1> USE DEF Recovery!Init
<1>1. LoanFits BY RecoveryAssumption DEF LoanFits, LoanRow
<1>2. PledgeFits BY DEF PledgeFits, PledgeRow, SeizureStatus
<1>3. ClaimsFit
  <2>1. Recovery!NoClaim \in ClaimRow /\ Recovery!NoClaim.status = "NONE"
    BY DEF ClaimRow, Recovery!NoClaim
  <2>2. claim \in [Claims -> ClaimRow] /\ \A k \in Claims : claim[k].status = "NONE" BY <2>1
  <2>3. /\ policy \in {"ACTIVE", "CLAIMED"}
        /\ \A k \in Claims : ~Pays(k) /\ claim[k].status # "SETTLED"
    BY <2>2 DEF Pays
  <2> QED BY <2>2, <2>3 DEF ClaimsFit
<1>4. SoldFits BY DEF SoldFits, ItemRow, Recovery!NothingSoldInHand
<1>5. BooksFit
  <2>1. \A r \in Refunds : Recovery!Held[r] = 0 BY DEF Recovery!Held, Recovery!NoRefund
  <2>2. \A k \in Claims : Recovery!Owing[k] = 0 BY DEF Recovery!Owing, Recovery!NoClaim
  <2>3. Recovery!Total(Recovery!Held, Refunds) = 0 BY <2>1, SumOfNothing, RecoveryAssumption, Zenon
  <2>4. Recovery!Total(Recovery!Owing, Claims) = 0 BY <2>2, SumOfNothing, RecoveryAssumption, Zenon
  <2> QED BY <2>3, <2>4 DEF BooksFit, RefundRow, Recovery!NoRefund
<1> QED BY <1>1, <1>2, <1>3, <1>4, <1>5 DEF RecoveryInv

\* What moves no money leaves the books as they are.
LEMMA BooksUntouched ==
  ASSUME BooksFit, UNCHANGED <<refund, claim, account>>
  PROVE  BooksFit'
<1>1. Recovery!Held' = Recovery!Held /\ Recovery!Owing' = Recovery!Owing
  BY DEF Recovery!Held, Recovery!Owing
<1> QED BY <1>1 DEF BooksFit

\* A claim that owes as much as before leaves them too.
LEMMA ClaimsOweTheSame ==
  ASSUME BooksFit, UNCHANGED <<refund, account>>, Recovery!Owing' = Recovery!Owing
  PROVE  BooksFit'
<1>1. Recovery!Held' = Recovery!Held BY DEF Recovery!Held
<1> QED BY <1>1 DEF BooksFit

\* A loan that is not sold has nothing to hold back.
LEMMA NotSoldFits ==
  ASSUME item' \in ItemRow, loan'.status # "SOLD"
  PROVE  SoldFits'
BY DEF SoldFits, Recovery!NothingSoldInHand

\* The loan's own steps: none sells it.
LEMMA LoanStep ==
  ASSUME RecoveryInv, Recovery!EndOfDay \/ Recovery!Pay \/ Recovery!Reverse \/ Recovery!WriteOff
  PROVE  RecoveryInv'
<1> USE DEF RecoveryInv
<1>1. UNCHANGED <<pledge, seizure, policy, claim, sale, refund, account>>
  BY DEF Recovery!EndOfDay, Recovery!Pay, Recovery!Reverse, Recovery!WriteOff
<1>2. PledgeFits' BY <1>1 DEF PledgeFits
<1>3. ClaimsFit' BY <1>1 DEF ClaimsFit, Pays
<1>4. BooksFit' BY <1>1, BooksUntouched
<1>5. /\ loan \in LoanRow /\ (loan.owed > 0 <=> loan.status = "ACTIVE") /\ item \in ItemRow
      /\ loan.owed \in Nat /\ loan.paid \in Nat
  BY DEF LoanFits, SoldFits, LoanRow
<1>6. LoanFits' /\ SoldFits'
  <2>1. CASE Recovery!EndOfDay
    <3>1. /\ loan' = loan \/ loan' = [loan EXCEPT !.late = TRUE]
          /\ item' = item \/ item' = [item EXCEPT !.overdue = TRUE]
      BY <2>1 DEF Recovery!EndOfDay
    <3>2. LoanFits' /\ loan'.status = loan.status BY <1>5, <3>1 DEF LoanFits, LoanRow
    <3>3. item' \in ItemRow /\ item'.status = item.status BY <1>5, <3>1 DEF ItemRow
    <3> QED BY <1>1, <3>2, <3>3 DEF SoldFits, Recovery!NothingSoldInHand, Recovery!InProgress
  <2>2. CASE Recovery!Pay
    <3>1. /\ loan' = [status |-> IF loan.owed = 1 THEN "CLOSED" ELSE "ACTIVE",
                      owed |-> loan.owed - 1, paid |-> loan.paid + 1, late |-> FALSE]
          /\ loan.owed > 0 /\ item' = item
      BY <1>5, <2>2 DEF Recovery!Pay
    <3>2. loan.owed - 1 \in Nat /\ loan.paid + 1 \in Nat BY <1>5, <3>1
    <3>3. LoanFits' /\ loan'.status # "SOLD" BY <1>5, <3>1, <3>2 DEF LoanFits, LoanRow
    <3> QED BY <1>5, <3>1, <3>3, NotSoldFits
  <2>3. CASE Recovery!Reverse
    <3>1. /\ loan.paid > 0 /\ item' = item
          /\ loan' = [loan EXCEPT !.status = "ACTIVE", !.owed = @ + 1, !.paid = @ - 1]
      BY <2>3 DEF Recovery!Reverse
    <3>2. loan.owed + 1 \in Nat /\ loan.owed + 1 > 0 /\ loan.paid - 1 \in Nat BY <1>5, <3>1
    <3>3. loan'.status = "ACTIVE" /\ loan'.owed = loan.owed + 1 /\ loan'.paid = loan.paid - 1
          /\ loan' \in LoanRow
      BY <1>5, <3>1, <3>2 DEF LoanRow
    <3>4. LoanFits' /\ loan'.status # "SOLD" BY <3>2, <3>3 DEF LoanFits
    <3> QED BY <1>5, <3>1, <3>4, NotSoldFits
  <2>4. CASE Recovery!WriteOff
    <3>1. loan' = [loan EXCEPT !.status = "WRITTEN_OFF", !.owed = 0, !.paid = 0] /\ item' = item
      BY <2>4 DEF Recovery!WriteOff
    <3>2. loan' \in LoanRow /\ loan'.status = "WRITTEN_OFF" /\ loan'.owed = 0
      BY <1>5, <3>1 DEF LoanRow
    <3>3. LoanFits' /\ loan'.status # "SOLD" BY <3>2 DEF LoanFits
    <3> QED BY <1>5, <3>1, <3>3, NotSoldFits
  <2> QED BY <2>1, <2>2, <2>3, <2>4
<1> QED BY <1>2, <1>3, <1>4, <1>6

\* A release looks at the pledge alone: one that was sold is not released.
LEMMA ReleaseStep ==
  ASSUME RecoveryInv,
         Recovery!ProposeRelease \/ Recovery!ApproveRelease \/ Recovery!RejectRelease
  PROVE  RecoveryInv'
<1> USE DEF RecoveryInv
<1>1. UNCHANGED <<loan, seizure, item, policy, claim, sale, refund, account>>
  BY DEF Recovery!ProposeRelease, Recovery!ApproveRelease, Recovery!RejectRelease
<1>2. pledge \in PledgeRow BY DEF PledgeFits
<1>3. \/ \E b \in BOOLEAN : pledge' = [pledge EXCEPT !.asked = b]
      \/ pledge.status = "ACTIVE" /\ pledge' = [status |-> "RELEASED", asked |-> FALSE]
  BY <1>2 DEF Recovery!ProposeRelease, Recovery!ApproveRelease, Recovery!RejectRelease,
              Recovery!StillPledged, PledgeRow
<1>4. pledge' \in PledgeRow /\ (pledge'.status = "SOLD" <=> pledge.status = "SOLD")
  <2>1. ASSUME NEW b \in BOOLEAN, pledge' = [pledge EXCEPT !.asked = b]
        PROVE  pledge' \in PledgeRow /\ pledge'.status = pledge.status
    BY <1>2, <2>1 DEF PledgeRow
  <2>2. ASSUME pledge' = [status |-> "RELEASED", asked |-> FALSE]
        PROVE  pledge' \in PledgeRow /\ pledge'.status = "RELEASED"
    BY <2>2 DEF PledgeRow
  <2> QED BY <1>3, <2>1, <2>2
<1>5. PledgeFits' BY <1>1, <1>4 DEF PledgeFits
<1>6. LoanFits' /\ ClaimsFit' /\ SoldFits'
  BY <1>1 DEF LoanFits, ClaimsFit, Pays, SoldFits, Recovery!NothingSoldInHand, Recovery!InProgress
<1>7. BooksFit' BY <1>1, BooksUntouched
<1> QED BY <1>5, <1>6, <1>7

\* A seizure that is no sale.
LEMMA SeizureStep ==
  ASSUME RecoveryInv, NEW k \in Seizures,
         \/ Recovery!ProposeRepossession(k) \/ Recovery!DecideSeizure(k)
         \/ Recovery!ValueRepossession(k)
  PROVE  RecoveryInv'
<1> USE DEF RecoveryInv
<1>1. PICK to \in {"PROPOSED", "SEIZED", "REJECTED", "VALUED"} :
        /\ seizure[k] # "SOLD" /\ seizure' = [seizure EXCEPT ![k] = to]
        /\ to = "PROPOSED" => loan.status = "ACTIVE"
        /\ to \in {"SEIZED", "VALUED"} => Recovery!InProgress(k)
        /\ UNCHANGED <<loan, pledge, item, policy, claim, sale, refund, account>>
  BY DEF Recovery!ProposeRepossession, Recovery!DecideSeizure, Recovery!ValueRepossession,
         Recovery!OnlySeizure, Recovery!SeizureTo, Recovery!InProgress, Recovery!Next1, Recovery!Free
<1>2. /\ seizure' \in [Seizures -> SeizureStatus]
      /\ \A j \in Seizures : seizure'[j] = "SOLD" <=> seizure[j] = "SOLD"
  BY <1>1 DEF PledgeFits, SeizureStatus
<1>3. PledgeFits' BY <1>1, <1>2 DEF PledgeFits
<1>4. SoldFits'
  <2>1. item' = item /\ loan' = loan /\ item \in ItemRow BY <1>1 DEF SoldFits
  <2>2. ASSUME loan.status = "SOLD", NEW j \in Seizures PROVE ~Recovery!InProgress(j)'
    <3>1. ~Recovery!InProgress(j) /\ ~Recovery!InProgress(k)
      BY <2>2 DEF SoldFits, Recovery!NothingSoldInHand
    <3>2. to = "REJECTED" BY <1>1, <2>2, <3>1
    <3> QED BY <1>1, <3>1, <3>2 DEF Recovery!InProgress, PledgeFits
  <2> QED BY <2>1, <2>2 DEF SoldFits, Recovery!NothingSoldInHand
<1>5. LoanFits' /\ ClaimsFit' BY <1>1 DEF LoanFits, ClaimsFit, Pays
<1>6. BooksFit' BY <1>1, BooksUntouched
<1> QED BY <1>3, <1>4, <1>5, <1>6

\* The sums of the model are numbers.
LEMMA SumsAreMoney == Prices \subseteq Nat /\ Costs \subseteq Nat
BY RecoveryAssumption DEF RecoveryAssumption

\* Proceeds of a sale, of which nothing is due from an insurer.
LEMMA SaleKeeps ==
  ASSUME RecoveryInv, item' \in ItemRow, UNCHANGED claim,
         \E gross \in Prices, costs \in Costs : Recovery!ApplyProceeds(gross, costs, 0)
  PROVE  LoanFits' /\ SoldFits' /\ BooksFit'
<1> USE DEF RecoveryInv
<1>0. LoanFits /\ BooksFit /\ 0 \in Nat OBVIOUS
<1>1. PICK gross \in Prices, costs \in Costs : Recovery!ApplyProceeds(gross, costs, 0) OBVIOUS
<1>2. gross \in Nat /\ costs \in Nat BY SumsAreMoney
<1>3. /\ LoanFits' /\ loan'.status # "SOLD" /\ refund' \in [Refunds -> RefundRow]
      /\ account' \in [claims : Int, refunds : Int] /\ account'.claims = account.claims + 0
      /\ account'.refunds = Recovery!Total(Recovery!Held', Refunds)
  BY <1>0, <1>1, <1>2, ProceedsKeep, Zenon
<1>4. SoldFits' BY <1>3, NotSoldFits
<1>5. account \in [claims : Int, refunds : Int] BY DEF BooksFit
<1>6. account'.claims = account.claims BY <1>3, <1>5
<1>7. Recovery!Owing' = Recovery!Owing BY DEF Recovery!Owing
<1> QED BY <1>3, <1>4, <1>6, <1>7 DEF BooksFit

\* The sale of what was seized: the pledge was still there, so it is the first.
LEMMA SellRepossessionStep ==
  ASSUME RecoveryInv, NEW k \in Seizures, Recovery!SellRepossession(k)
  PROVE  RecoveryInv'
<1> USE DEF RecoveryInv
<1>1. /\ pledge.status = "ACTIVE" /\ pledge' = [pledge EXCEPT !.status = "SOLD"]
      /\ seizure' = [seizure EXCEPT ![k] = "SOLD"]
      /\ UNCHANGED <<item, policy, claim, sale>>
      /\ \E gross \in Prices, costs \in Costs : Recovery!ApplyProceeds(gross, costs, 0)
  BY Zenon DEF Recovery!SellRepossession, Recovery!SeizureTo
<1>2. \A j \in Seizures : seizure[j] # "SOLD" BY <1>1 DEF PledgeFits
<1>3. PledgeFits' BY <1>1, <1>2 DEF PledgeFits, PledgeRow, SeizureStatus
<1>4. ClaimsFit' BY <1>1 DEF ClaimsFit, Pays
<1>5. LoanFits' /\ SoldFits' /\ BooksFit' BY <1>1, SaleKeeps DEF SoldFits
<1> QED BY <1>3, <1>4, <1>5

\* The pawned item: it is received of a loan that is ACTIVE, and what a loan that
\* was sold has left is out of the lender's hands.
LEMMA ItemStep ==
  ASSUME RecoveryInv,
         \/ Recovery!ReceivePawn \/ Recovery!ProposeForfeiture \/ Recovery!ApproveForfeiture
         \/ Recovery!RejectForfeiture \/ Recovery!ReturnPawn
  PROVE  RecoveryInv'
<1> USE DEF RecoveryInv
<1>1. UNCHANGED <<loan, pledge, seizure, policy, claim, sale, refund, account>>
  BY DEF Recovery!ReceivePawn, Recovery!ProposeForfeiture, Recovery!ApproveForfeiture,
         Recovery!RejectForfeiture, Recovery!ReturnPawn, Recovery!OnlyItem
<1>2. item \in ItemRow BY DEF SoldFits
<1>3. /\ item' \in ItemRow
      /\ item'.status \in {"IN_CUSTODY", "FORFEITED"} =>
           loan.status = "ACTIVE" \/ item.status \in {"IN_CUSTODY", "FORFEITED"}
  <2>1. CASE Recovery!ReceivePawn
    <3>1. loan.status = "ACTIVE" /\ item' = [status |-> "IN_CUSTODY", overdue |-> FALSE, asked |-> FALSE]
      BY <2>1 DEF Recovery!ReceivePawn
    <3> QED BY <3>1 DEF ItemRow
  <2>2. CASE Recovery!ProposeForfeiture \/ Recovery!RejectForfeiture
    <3>1. PICK b \in BOOLEAN : item' = [item EXCEPT !.asked = b]
      BY <2>2 DEF Recovery!ProposeForfeiture, Recovery!RejectForfeiture
    <3>2. item' \in ItemRow /\ item'.status = item.status BY <1>2, <3>1 DEF ItemRow
    <3> QED BY <3>2
  <2>3. CASE Recovery!ApproveForfeiture
    <3>1. loan.status = "ACTIVE" /\ item' = [item EXCEPT !.status = "FORFEITED", !.asked = FALSE]
      BY <2>3 DEF Recovery!ApproveForfeiture, Recovery!Forfeitable
    <3>2. item' \in ItemRow BY <1>2, <3>1 DEF ItemRow
    <3> QED BY <3>1, <3>2
  <2>4. CASE Recovery!ReturnPawn
    <3>1. item' = [item EXCEPT !.status = "RETURNED"] BY <2>4 DEF Recovery!ReturnPawn
    <3> QED BY <1>2, <3>1 DEF ItemRow
  <2> QED BY <2>1, <2>2, <2>3, <2>4
<1>4. SoldFits'
  BY <1>1, <1>3 DEF SoldFits, Recovery!NothingSoldInHand, Recovery!InProgress
<1>5. LoanFits' /\ PledgeFits' /\ ClaimsFit' BY <1>1 DEF LoanFits, PledgeFits, ClaimsFit, Pays
<1>6. BooksFit' BY <1>1, BooksUntouched
<1> QED BY <1>4, <1>5, <1>6

\* Its sale.
LEMMA SellPawnStep ==
  ASSUME RecoveryInv, Recovery!SellPawn
  PROVE  RecoveryInv'
<1> USE DEF RecoveryInv
<1>1. /\ item' = [item EXCEPT !.status = "SOLD"] /\ UNCHANGED <<pledge, seizure, policy, claim, sale>>
      /\ \E gross \in Prices, costs \in Costs : Recovery!ApplyProceeds(gross, costs, 0)
  BY Zenon DEF Recovery!SellPawn
<1>2. item' \in ItemRow BY <1>1 DEF SoldFits, ItemRow
<1>3. PledgeFits' /\ ClaimsFit' BY <1>1 DEF PledgeFits, ClaimsFit, Pays
<1> QED BY <1>1, <1>2, <1>3, SaleKeeps

\* A claim is filed on a policy that no claim was settled on, or waits on.
LEMMA FileClaimStep ==
  ASSUME RecoveryInv, NEW k \in Claims, Recovery!FileClaim(k)
  PROVE  RecoveryInv'
<1>0. LoanFits /\ PledgeFits /\ ClaimsFit /\ SoldFits /\ BooksFit BY DEF RecoveryInv
<1>1. /\ policy = "ACTIVE" /\ \A j \in Claims : claim[j].status # "PENDING"
      /\ claim[k] = Recovery!NoClaim
      /\ \E whole \in BOOLEAN, n \in Prices :
           claim' = [claim EXCEPT ![k] = [status |-> "PENDING", received |-> 0, whole |-> whole,
                                          amount |-> IF whole THEN loan.owed ELSE n]]
      /\ UNCHANGED <<loan, pledge, seizure, item, policy, sale, refund, account>>
  BY DEF Recovery!FileClaim, Recovery!Claimable, Recovery!Next1, Recovery!Free
<1>2. PICK row : /\ row \in ClaimRow /\ row.status = "PENDING" /\ row.received = 0
                 /\ claim' = [claim EXCEPT ![k] = row]
  <2>1. PICK whole \in BOOLEAN, n \in Prices :
          claim' = [claim EXCEPT ![k] = [status |-> "PENDING", received |-> 0, whole |-> whole,
                                         amount |-> IF whole THEN loan.owed ELSE n]]
    BY <1>1
  <2>2. n \in Nat /\ loan.owed \in Nat BY <1>0, SumsAreMoney DEF LoanFits, LoanRow
  <2> QED BY <2>1, <2>2 DEF ClaimRow
<1>3. claim \in [Claims -> ClaimRow] BY <1>0 DEF ClaimsFit
<1>4. \A j \in Claims : ~Pays(j) BY <1>0, <1>1 DEF ClaimsFit, Pays
<1>5. \A j \in Claims : j # k => claim'[j] = claim[j] BY <1>2, <1>3
<1>6. claim' \in [Claims -> ClaimRow] /\ claim'[k] = row BY <1>2, <1>3
<1>7. ClaimsFit'
  <2>1. \A j \in Claims : j # k => ~Pays(j)' BY <1>4, <1>5 DEF Pays
  <2>2. \A j \in Claims : claim'[j].status # "SETTLED" BY <1>2, <1>4, <1>5, <1>6 DEF Pays
  <2>3. policy' \in {"ACTIVE", "CLAIMED"} BY <1>1
  <2>4. \A j \in Claims : claim'[j].status = "PENDING" => claim'[j].received = 0
    BY <1>2, <1>4, <1>5, <1>6 DEF Pays
  <2> QED BY <1>6, <2>1, <2>2, <2>3, <2>4 DEF ClaimsFit
<1>8. Recovery!Owing' = Recovery!Owing
  <2>1. \A j \in Claims : claim'[j] = claim[j] \/ (claim'[j].status # "SETTLED" /\ claim[j].status # "SETTLED")
    BY <1>1, <1>2, <1>5, <1>6 DEF Recovery!NoClaim
  <2> QED BY <2>1 DEF Recovery!Owing
<1>9. BooksFit' BY <1>0, <1>1, <1>8, ClaimsOweTheSame
<1>10. LoanFits' /\ PledgeFits' /\ SoldFits'
  BY <1>0, <1>1 DEF LoanFits, PledgeFits, SoldFits, Recovery!NothingSoldInHand, Recovery!InProgress
<1> QED BY <1>7, <1>9, <1>10 DEF RecoveryInv

\* The insurer's decision on the one claim that waits: what it owes is its amount.
LEMMA SettleClaimStep ==
  ASSUME RecoveryInv, NEW k \in Claims, Recovery!SettleClaim(k)
  PROVE  RecoveryInv'
<1> DEFINE gross == IF claim[k].whole THEN loan.owed ELSE claim[k].amount
<1>0. LoanFits /\ PledgeFits /\ ClaimsFit /\ SoldFits /\ BooksFit BY DEF RecoveryInv
<1>1. /\ claim[k].status = "PENDING"
      /\ Recovery!ApplyProceeds(gross, 0, gross)
      /\ claim' = [claim EXCEPT ![k].status = "SETTLED", ![k].amount = gross]
      /\ policy' = "CLAIMED"
      /\ UNCHANGED <<pledge, seizure, item, sale>>
  BY Zenon DEF Recovery!SettleClaim
<1>2. claim \in [Claims -> ClaimRow] /\ claim[k] \in ClaimRow BY <1>0 DEF ClaimsFit
<1>3. gross \in Nat /\ 0 \in Nat BY <1>0, <1>2 DEF LoanFits, LoanRow, ClaimRow
<1> HIDE DEF gross
<1>4. /\ LoanFits' /\ loan'.status # "SOLD" /\ refund' \in [Refunds -> RefundRow]
      /\ account' \in [claims : Int, refunds : Int] /\ account'.claims = account.claims + gross
      /\ account'.refunds = Recovery!Total(Recovery!Held', Refunds)
  BY <1>0, <1>1, <1>3, ProceedsKeep, Zenon
<1>5. /\ claim' \in [Claims -> ClaimRow] /\ claim'[k].status = "SETTLED"
      /\ claim'[k].amount = gross /\ claim'[k].received = claim[k].received
      /\ \A j \in Claims : j # k => claim'[j] = claim[j]
  BY <1>1, <1>2, <1>3 DEF ClaimRow
<1>6. \A j \in Claims : j # k => ~Pays(j) BY <1>0, <1>1 DEF ClaimsFit, Pays
<1>7. ClaimsFit'
  <2>1. \A j \in Claims : j # k => ~Pays(j)' BY <1>5, <1>6 DEF Pays
  <2>2. \A j \in Claims : claim'[j].status # "PENDING" BY <1>5, <2>1 DEF Pays
  <2> QED BY <1>1, <1>5, <2>1, <2>2 DEF ClaimsFit
<1>8. claim[k].received = 0 BY <1>0, <1>1 DEF ClaimsFit
<1>9. Moves(Claims, Recovery!Owing, Recovery!Owing', k, gross)
  <2>1. gross \in Int /\ \A j \in Claims : Recovery!Owing[j] \in Int
    BY <1>2, <1>3 DEF Recovery!Owing, ClaimRow
  <2>2. Recovery!Owing[k] = 0 /\ Recovery!Owing'[k] = gross - 0
    BY <1>1, <1>5, <1>8 DEF Recovery!Owing
  <2>3. \A j \in Claims : j # k => Recovery!Owing'[j] = Recovery!Owing[j]
    BY <1>5 DEF Recovery!Owing
  <2>4. gross - 0 = 0 + gross BY <2>1
  <2> QED BY <2>1, <2>2, <2>3, <2>4, Zenon DEF Moves, Shifts
<1>10. Recovery!Total(Recovery!Owing', Claims) = Recovery!Total(Recovery!Owing, Claims) + gross
  BY <1>9, SumMoves, RecoveryAssumption, Zenon
<1>11. BooksFit' BY <1>0, <1>4, <1>10 DEF BooksFit
<1>12. PledgeFits' BY <1>0, <1>1 DEF PledgeFits
<1>13. SoldFits' BY <1>0, <1>1, <1>4, NotSoldFits DEF SoldFits
<1> QED BY <1>4, <1>7, <1>11, <1>12, <1>13 DEF RecoveryInv

\* A claim that is refused owes nothing.
LEMMA RejectClaimStep ==
  ASSUME RecoveryInv, NEW k \in Claims, Recovery!RejectClaim(k)
  PROVE  RecoveryInv'
<1>0. LoanFits /\ PledgeFits /\ ClaimsFit /\ SoldFits /\ BooksFit BY DEF RecoveryInv
<1>1. /\ claim[k].status = "PENDING" /\ claim' = [claim EXCEPT ![k].status = "REJECTED"]
      /\ UNCHANGED <<loan, pledge, seizure, item, policy, sale, refund, account>>
  BY DEF Recovery!RejectClaim
<1>2. claim \in [Claims -> ClaimRow] BY <1>0 DEF ClaimsFit
<1>3. /\ claim' \in [Claims -> ClaimRow] /\ claim'[k].status = "REJECTED"
      /\ \A j \in Claims : j # k => claim'[j] = claim[j]
  BY <1>1, <1>2 DEF ClaimRow
<1>4. ClaimsFit'
  <2>1. \A j \in Claims : Pays(j)' => Pays(j) BY <1>1, <1>3 DEF Pays
  <2>2. \A j \in Claims : /\ claim'[j].status = "SETTLED" => policy' = "CLAIMED"
                          /\ claim'[j].status = "PENDING" => claim'[j].received = 0
    BY <1>0, <1>1, <1>3 DEF ClaimsFit
  <2>3. policy' \in {"ACTIVE", "CLAIMED"} BY <1>0, <1>1 DEF ClaimsFit
  <2> QED BY <1>0, <1>3, <2>1, <2>2, <2>3 DEF ClaimsFit
<1>5. Recovery!Owing' = Recovery!Owing
  <2>1. \A j \in Claims : claim'[j] = claim[j] \/ (claim'[j].status # "SETTLED" /\ claim[j].status # "SETTLED")
    BY <1>1, <1>3
  <2> QED BY <2>1 DEF Recovery!Owing
<1>6. BooksFit' BY <1>0, <1>1, <1>5, ClaimsOweTheSame
<1>7. LoanFits' /\ PledgeFits' /\ SoldFits'
  BY <1>0, <1>1 DEF LoanFits, PledgeFits, SoldFits, Recovery!NothingSoldInHand, Recovery!InProgress
<1> QED BY <1>4, <1>6, <1>7 DEF RecoveryInv

\* What the insurer pays, the claim and the account owe less.
LEMMA ReceiveClaimPaymentStep ==
  ASSUME RecoveryInv, NEW k \in Claims, Recovery!ReceiveClaimPayment(k)
  PROVE  RecoveryInv'
<1>0. LoanFits /\ PledgeFits /\ ClaimsFit /\ SoldFits /\ BooksFit BY DEF RecoveryInv
<1>1. claim \in [Claims -> ClaimRow] /\ claim[k] \in ClaimRow BY <1>0 DEF ClaimsFit
<1>2. PICK n \in 1 .. claim[k].amount - claim[k].received :
        /\ claim' = [claim EXCEPT ![k].received = @ + n]
        /\ account' = [account EXCEPT !.claims = @ - n]
  BY DEF Recovery!ReceiveClaimPayment
<1>3. /\ claim[k].status = "SETTLED"
      /\ UNCHANGED <<loan, pledge, seizure, item, policy, sale, refund>>
  BY DEF Recovery!ReceiveClaimPayment
<1>4. /\ claim[k].amount \in Nat /\ claim[k].received \in Nat /\ n \in Nat
      /\ claim[k].received + n \in Nat
  BY <1>1, <1>2 DEF ClaimRow
<1>5. /\ claim' \in [Claims -> ClaimRow] /\ claim'[k].status = "SETTLED"
      /\ claim'[k].amount = claim[k].amount /\ claim'[k].received = claim[k].received + n
      /\ \A j \in Claims : j # k => claim'[j] = claim[j]
  BY <1>1, <1>2, <1>3, <1>4 DEF ClaimRow
<1>6. ClaimsFit'
  <2>1. \A j \in Claims : claim'[j].status = claim[j].status BY <1>3, <1>5
  <2>2. \A j \in Claims : Pays(j)' <=> Pays(j) BY <2>1 DEF Pays
  <2>3. \A j \in Claims : /\ claim'[j].status = "SETTLED" => policy' = "CLAIMED"
                          /\ claim'[j].status = "PENDING" => claim'[j].received = 0
    BY <1>0, <1>3, <1>5 DEF ClaimsFit
  <2>4. policy' \in {"ACTIVE", "CLAIMED"} BY <1>0, <1>3 DEF ClaimsFit
  <2> QED BY <1>0, <1>5, <2>2, <2>3, <2>4 DEF ClaimsFit
<1>7. Moves(Claims, Recovery!Owing, Recovery!Owing', k, 0 - n)
  <2>1. 0 - n \in Int /\ \A j \in Claims : Recovery!Owing[j] \in Int
    BY <1>1, <1>4 DEF Recovery!Owing, ClaimRow
  <2>2. Recovery!Owing'[k] = Recovery!Owing[k] + (0 - n)
    BY <1>3, <1>4, <1>5 DEF Recovery!Owing
  <2>3. \A j \in Claims : j # k => Recovery!Owing'[j] = Recovery!Owing[j]
    BY <1>5 DEF Recovery!Owing
  <2> QED BY <2>1, <2>2, <2>3, Zenon DEF Moves, Shifts
<1>8. Recovery!Total(Recovery!Owing', Claims) = Recovery!Total(Recovery!Owing, Claims) + (0 - n)
  BY <1>7, SumMoves, RecoveryAssumption, Zenon
<1>9. Recovery!Held' = Recovery!Held BY <1>3 DEF Recovery!Held
<1>10. /\ account \in [claims : Int, refunds : Int] /\ refund' \in [Refunds -> RefundRow]
       /\ account.refunds = Recovery!Total(Recovery!Held, Refunds)
       /\ account.claims = Recovery!Total(Recovery!Owing, Claims)
  BY <1>0, <1>3 DEF BooksFit
<1>11. /\ account' \in [claims : Int, refunds : Int]
       /\ account'.claims = account.claims + (0 - n) /\ account'.refunds = account.refunds
  BY <1>2, <1>4, <1>10
<1>12. BooksFit' BY <1>8, <1>9, <1>10, <1>11 DEF BooksFit
<1>13. LoanFits' /\ PledgeFits' /\ SoldFits'
  BY <1>0, <1>3 DEF LoanFits, PledgeFits, SoldFits, Recovery!NothingSoldInHand, Recovery!InProgress
<1> QED BY <1>6, <1>12, <1>13 DEF RecoveryInv

\* A sale of the debt, executed where nothing of its security is on its way to one.
LEMMA DebtSaleStep ==
  ASSUME RecoveryInv, NEW k \in Sales,
         \/ Recovery!ProposeDebtSale(k) \/ Recovery!ExecuteDebtSale(k) \/ Recovery!RejectDebtSale(k)
  PROVE  RecoveryInv'
<1>0. LoanFits /\ PledgeFits /\ ClaimsFit /\ SoldFits /\ BooksFit BY DEF RecoveryInv
<1>1. UNCHANGED <<pledge, seizure, item, policy, claim, refund, account>>
  BY DEF Recovery!ProposeDebtSale, Recovery!ExecuteDebtSale, Recovery!RejectDebtSale
<1>2. PledgeFits' /\ ClaimsFit' BY <1>0, <1>1 DEF PledgeFits, ClaimsFit, Pays
<1>3. BooksFit' BY <1>0, <1>1, BooksUntouched
<1>4. LoanFits' /\ SoldFits'
  <2>1. CASE loan' = loan
    BY <1>0, <1>1, <2>1 DEF LoanFits, SoldFits, Recovery!NothingSoldInHand, Recovery!InProgress
  <2>2. CASE Recovery!ExecuteDebtSale(k)
    <3>1. /\ loan' = [loan EXCEPT !.status = "SOLD", !.owed = 0]
          /\ \A j \in Seizures : ~Recovery!InProgress(j)
          /\ item.status \notin {"IN_CUSTODY", "FORFEITED"}
      BY <2>2 DEF Recovery!ExecuteDebtSale, Recovery!StillSellable, Recovery!Sellable
    <3>2. loan' \in LoanRow /\ loan'.status = "SOLD" /\ loan'.owed = 0
      BY <1>0, <3>1 DEF LoanFits, LoanRow
    <3>3. LoanFits' BY <3>2 DEF LoanFits
    <3>4. SoldFits'
      BY <1>0, <1>1, <3>1 DEF SoldFits, Recovery!NothingSoldInHand, Recovery!InProgress
    <3> QED BY <3>3, <3>4
  <2> QED BY <2>1, <2>2 DEF Recovery!ProposeDebtSale, Recovery!RejectDebtSale
<1> QED BY <1>0, <1>2, <1>3, <1>4 DEF RecoveryInv

\* A surplus is paid out while it is held: what the ledger owes is less by it.
LEMMA PayoutStep ==
  ASSUME RecoveryInv, NEW r \in Refunds,
         Recovery!ProposeRefundPayout(r) \/ \E pay \in BOOLEAN : Recovery!DecidePayout(r, pay)
  PROVE  RecoveryInv'
<1>0. LoanFits /\ PledgeFits /\ ClaimsFit /\ SoldFits /\ BooksFit BY DEF RecoveryInv
<1>1. UNCHANGED <<loan, pledge, seizure, item, policy, claim, sale>>
  BY DEF Recovery!ProposeRefundPayout, Recovery!DecidePayout
<1>2. LoanFits' /\ PledgeFits' /\ ClaimsFit' /\ SoldFits'
  BY <1>0, <1>1 DEF LoanFits, PledgeFits, ClaimsFit, Pays, SoldFits, Recovery!NothingSoldInHand,
                    Recovery!InProgress
<1>3. /\ account \in [claims : Int, refunds : Int] /\ refund \in [Refunds -> RefundRow]
      /\ account.refunds = Recovery!Total(Recovery!Held, Refunds)
      /\ account.claims = Recovery!Total(Recovery!Owing, Claims)
      /\ refund[r] \in RefundRow
  BY <1>0 DEF BooksFit
<1>4. Recovery!Owing' = Recovery!Owing BY <1>1 DEF Recovery!Owing
<1>5. CASE /\ account' = account /\ refund' \in [Refunds -> RefundRow]
           /\ \A q \in Refunds : /\ refund'[q].status = refund[q].status
                                 /\ refund'[q].amount = refund[q].amount
  <2>1. Recovery!Held' = Recovery!Held BY <1>5 DEF Recovery!Held
  <2>2. BooksFit' BY <1>3, <1>4, <1>5, <2>1 DEF BooksFit
  <2> QED BY <1>2, <2>2 DEF RecoveryInv
<1>6. CASE Recovery!DecidePayout(r, TRUE)
  <2> DEFINE n == refund[r].amount
  <2>1. /\ refund[r].status = "PAYABLE" /\ account' = [account EXCEPT !.refunds = @ - n]
        /\ refund' = [refund EXCEPT ![r].asked = FALSE, ![r].status = "PAID"]
    BY <1>6 DEF Recovery!DecidePayout, Recovery!IsHeld
  <2>2. /\ refund' \in [Refunds -> RefundRow] /\ refund'[r].status = "PAID"
        /\ \A q \in Refunds : q # r => refund'[q] = refund[q]
    BY <1>3, <2>1 DEF RefundRow
  <2>3. n \in Nat /\ \A q \in Refunds : refund[q].amount \in Nat BY <1>3 DEF RefundRow
  <2>4. Moves(Refunds, Recovery!Held, Recovery!Held', r, 0 - n)
    <3>1. 0 - n \in Int /\ \A q \in Refunds : Recovery!Held[q] \in Int
      BY <2>3 DEF Recovery!Held
    <3>2. Recovery!Held[r] = n /\ Recovery!Held'[r] = 0 /\ n + (0 - n) = 0
      BY <2>1, <2>2, <2>3 DEF Recovery!Held
    <3>3. \A q \in Refunds : q # r => Recovery!Held'[q] = Recovery!Held[q]
      BY <2>2 DEF Recovery!Held
    <3> HIDE DEF n
    <3> QED BY <3>1, <3>2, <3>3, Zenon DEF Moves, Shifts
  <2>5. Recovery!Total(Recovery!Held', Refunds) = Recovery!Total(Recovery!Held, Refunds) + (0 - n)
    BY <2>4, SumMoves, RecoveryAssumption, Zenon
  <2>6. /\ account' \in [claims : Int, refunds : Int]
        /\ account'.refunds = account.refunds + (0 - n) /\ account'.claims = account.claims
    BY <1>3, <2>1, <2>3
  <2>7. BooksFit' BY <1>1, <1>3, <1>4, <2>2, <2>5, <2>6 DEF BooksFit
  <2> QED BY <1>2, <2>7 DEF RecoveryInv
<1>7. CASE Recovery!ProposeRefundPayout(r)
  <2>1. account' = account /\ refund' = [refund EXCEPT ![r].asked = TRUE]
    BY <1>7 DEF Recovery!ProposeRefundPayout
  <2> QED BY <1>3, <1>5, <2>1 DEF RefundRow
<1>8. CASE Recovery!DecidePayout(r, FALSE)
  <2>1. /\ account' = account
        /\ refund' = [refund EXCEPT ![r].asked = FALSE, ![r].status = IF FALSE THEN "PAID" ELSE @]
    BY <1>8 DEF Recovery!DecidePayout
  <2>2. refund' \in [Refunds -> RefundRow] BY <1>3, <2>1 DEF RefundRow
  <2>3. /\ \A q \in Refunds : q # r => refund'[q] = refund[q]
        /\ refund'[r].status = refund[r].status /\ refund'[r].amount = refund[r].amount
    BY <1>3, <2>1 DEF RefundRow
  <2> QED BY <1>5, <2>1, <2>2, <2>3
<1> QED BY <1>6, <1>7, <1>8

\* Every step of a recovery keeps the invariant.
LEMMA RecoveryStep == RecoveryInv /\ [Recovery!Next]_recoveryVars => RecoveryInv'
<1> SUFFICES ASSUME RecoveryInv, [Recovery!Next]_recoveryVars PROVE RecoveryInv' OBVIOUS
<1>1. CASE UNCHANGED recoveryVars
  <2>1. UNCHANGED <<loan, pledge, seizure, item, policy, claim, sale, refund, account>>
    BY <1>1 DEF recoveryVars
  <2>2. BooksFit' BY <2>1, BooksUntouched DEF RecoveryInv
  <2> QED BY <2>1, <2>2 DEF RecoveryInv, LoanFits, PledgeFits, ClaimsFit, Pays, SoldFits,
                            Recovery!NothingSoldInHand, Recovery!InProgress
<1>2. CASE Recovery!Next
  BY <1>2, LoanStep, ReleaseStep, SeizureStep, SellRepossessionStep, ItemStep, SellPawnStep,
     FileClaimStep, SettleClaimStep, RejectClaimStep, ReceiveClaimPaymentStep, DebtSaleStep,
     PayoutStep, Zenon
  DEF Recovery!Next
<1> QED BY <1>1, <1>2

\* The instance counts as this module does.
LEMMA Counts == \A S : Recovery!Cardinality(S) = Cardinality(S)
BY DEF Recovery!Cardinality, Cardinality, Recovery!IsFiniteSet, IsFiniteSet

\* A set in which any two members are one has one, or none.
LEMMA OneAtMost ==
  ASSUME NEW S, \A j, k \in S : j = k
  PROVE  Cardinality(S) = IF S = {} THEN 0 ELSE 1
<1>1. CASE S = {} BY <1>1, FS_EmptySet
<1>2. CASE S # {}
  <2>1. PICK k : k \in S BY <1>2
  <2>2. S = {k} BY <2>1
  <2> QED BY <1>2, <2>2, FS_Singleton
<1> QED BY <1>1, <1>2

\* What the invariant says of the security.
LEMMA SecurityFollows == RecoveryInv => SecurityIsUsedOnce
<1> SUFFICES ASSUME RecoveryInv PROVE Recovery!SecurityIsUsedOnce BY DEF SecurityIsUsedOnce
<1>0. PledgeFits /\ ClaimsFit /\ SoldFits BY DEF RecoveryInv
<1>1. Recovery!PolicyPaysOnce
  <2> DEFINE S == {k \in Claims : claim[k].status = "SETTLED"}
  <2>1. \A j, k \in S : j = k BY <1>0 DEF ClaimsFit, Pays
  <2>2. Cardinality(S) <= 1 BY <2>1, OneAtMost
  <2> QED BY <2>2, Counts DEF Recovery!PolicyPaysOnce
<1>2. Recovery!SoldPledgeWasSeized
  <2> DEFINE S == {k \in Seizures : seizure[k] = "SOLD"}
  <2>1. \A j, k \in S : j = k BY <1>0 DEF PledgeFits
  <2>2. S # {} <=> pledge.status = "SOLD" BY <1>0 DEF PledgeFits
  <2>3. Cardinality(S) = IF pledge.status = "SOLD" THEN 1 ELSE 0 BY <2>1, <2>2, OneAtMost
  <2> QED BY <2>3, Counts DEF Recovery!SoldPledgeWasSeized
<1> QED BY <1>0, <1>1, <1>2 DEF SoldFits, Recovery!SecurityIsUsedOnce

\* And of the ledger.
LEMMA LedgerFollows == RecoveryInv => LedgerAgrees
<1> SUFFICES ASSUME RecoveryInv PROVE Recovery!LedgerAgrees BY DEF LedgerAgrees
<1>0. LoanFits /\ PledgeFits /\ ClaimsFit /\ SoldFits /\ BooksFit BY DEF RecoveryInv
<1>1. Recovery!TypeOK
  <2>1. /\ loan.status \in {"ACTIVE", "CLOSED", "WRITTEN_OFF", "SOLD"}
        /\ loan.owed \in Nat /\ loan.paid \in Nat /\ (loan.owed > 0 <=> loan.status = "ACTIVE")
    BY <1>0 DEF LoanFits, LoanRow
  <2>2. pledge.status \in {"ACTIVE", "RELEASED", "SOLD"} BY <1>0 DEF PledgeFits, PledgeRow
  <2>3. item.status \in {"NONE", "IN_CUSTODY", "FORFEITED", "SOLD", "RETURNED"}
    BY <1>0 DEF SoldFits, ItemRow
  <2> QED BY <1>0, <2>1, <2>2, <2>3 DEF ClaimsFit, Recovery!TypeOK
<1> QED BY <1>0, <1>1 DEF BooksFit, Recovery!LedgerAgrees

\* The inductive invariant of recovery, in every scene of the run.
LEMMA RecoveryInvariant == MCSpec => []RecoveryInv
<1>1. MCInit => RecoveryInv BY RecoveryBegins DEF MCInit
<1>2. RecoveryInv /\ [MCNext]_allVars => RecoveryInv'
  <2>1. [MCNext]_allVars => [Recovery!Next]_recoveryVars BY DEF MCNext, allVars
  <2> QED BY <2>1, RecoveryStep
<1> QED BY <1>1, <1>2, PTL DEF MCSpec

\* RecoveryService, for any numbers of seizures, claims, sales and refunds, whatever
\* waits for its approval while the loan is paid, reopened, written off or sold: an
\* insurer settles one claim on a policy, a pledge is sold once and not released as
\* well, and a debt is not sold from under security in the lender's hands.
THEOREM SecurityIsRealisedOnce == MCSpec => []SecurityIsUsedOnce
BY RecoveryInvariant, SecurityFollows, PTL

\* applyProceeds, payRefund, settleClaim: what the ledger owes borrowers is the sum
\* of the refunds that are payable, what the insurer owes that of the settled claims
\* less what was received on them; and a loan owes something while it is ACTIVE.
THEOREM RecoveryBooksAgree == MCSpec => []LedgerAgrees
BY RecoveryInvariant, LedgerFollows, PTL
=============================================================================
