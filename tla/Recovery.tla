------------------------------ MODULE Recovery ------------------------------
(***************************************************************************)
(* Security realised on one loan that is not repaid (RecoveryService, and  *)
(* the release of a pledge by CollateralService).  A pledged asset is      *)
(* seized, valued and sold; a pawned item is forfeited and auctioned; an   *)
(* insurer settles a claim; the debt is sold.  Money from a sale or a      *)
(* claim runs through one waterfall, and its surplus is held until it is   *)
(* paid out.                                                               *)
(*                                                                         *)
(* Each request locks the loan's row until it ends, so each is one step.   *)
(* What may go wrong is the order they come in: a task waits for its       *)
(* approval while the loan is paid off, reopened, written off or sold.     *)
(* That the approver is not the proposer is left out: there is always      *)
(* another.                                                                *)
(***************************************************************************)
EXTENDS Integers, FiniteSets, FiniteSetsExt

CONSTANTS
  Start,      \* what the loan owes at first
  Prices,     \* what a sale may bring, and what may be claimed
  Costs,      \* what a sale may cost
  Seizures,   \* numbers of repossessions, 1 .. n
  Claims,     \* numbers of insurance claims
  Sales,      \* numbers of debt sales
  Refunds     \* numbers of surpluses

VARIABLES
  loan,      \* LoanAccount: status, what is owed, payments that may be reversed, overdue
  pledge,    \* CollateralPledge.status, and whether a release awaits approval
  seizure,   \* Repossession.status, by number
  item,      \* PawnItem: status, past its deadline, and whether a forfeiture awaits approval
  policy,    \* InsurancePolicy.status
  claim,     \* InsuranceClaim rows
  sale,      \* DebtSale.status, by number
  refund,    \* RecoveryRefund rows, and whether a payout awaits approval
  account    \* the ledger: claims on the insurer, and refunds payable

vars == <<loan, pledge, seizure, item, policy, claim, sale, refund, account>>

NoClaim == [status |-> "NONE", amount |-> 0, received |-> 0, whole |-> FALSE]
NoRefund == [status |-> "NONE", amount |-> 0, asked |-> FALSE]

\* The rows that are still free, and the first of them.
Free(rows, none) == {k \in DOMAIN rows : rows[k] = none}
Next1(rows, none, k) == k \in Free(rows, none) /\ \A j \in Free(rows, none) : k <= j

InProgress(k) == seizure[k] \in {"PROPOSED", "SEIZED", "VALUED"}

-----------------------------------------------------------------------------
(* The loan. *)

\* The day's batch finds it overdue, or the item's redemption deadline passes.
EndOfDay ==
  /\ \/ /\ loan.status = "ACTIVE" /\ ~loan.late
        /\ loan' = [loan EXCEPT !.late = TRUE] /\ UNCHANGED item
     \/ /\ ~item.overdue /\ item' = [item EXCEPT !.overdue = TRUE] /\ UNCHANGED loan
  /\ UNCHANGED <<pledge, seizure, policy, claim, sale, refund, account>>

\* repay: an instalment.  The last one closes the loan.
Pay ==
  /\ loan.status = "ACTIVE"
  /\ loan' = [status |-> IF loan.owed = 1 THEN "CLOSED" ELSE "ACTIVE",
              owed |-> loan.owed - 1, paid |-> loan.paid + 1, late |-> FALSE]
  /\ UNCHANGED <<pledge, seizure, item, policy, claim, sale, refund, account>>

\* reverse: the latest repayment, whatever the loan's status: it is ACTIVE again.
Reverse ==
  /\ loan.paid > 0
  /\ loan' = [loan EXCEPT !.status = "ACTIVE", !.owed = @ + 1, !.paid = @ - 1]
  /\ UNCHANGED <<pledge, seizure, item, policy, claim, sale, refund, account>>

\* approveWriteOff: nothing before it can be reversed.
WriteOff ==
  /\ loan.status = "ACTIVE" /\ loan.late
  /\ loan' = [loan EXCEPT !.status = "WRITTEN_OFF", !.owed = 0, !.paid = 0]
  /\ UNCHANGED <<pledge, seizure, item, policy, claim, sale, refund, account>>

-----------------------------------------------------------------------------
(* Proceeds. *)

\* applyRecoveryProceeds: the balances that are owed, as far as the money goes.
Applied(net) == IF net < loan.owed THEN net ELSE loan.owed

\* applyProceeds: costs first, then the loan; what is left is held for the
\* borrower, and a payout of it waits for approval.
ApplyProceeds(gross, costs, receivable) ==
  LET net == IF costs < gross THEN gross - costs ELSE 0
      surplus == net - Applied(net)
  IN  /\ loan.status = "ACTIVE"
      /\ loan' = IF Applied(net) = loan.owed
                 THEN [loan EXCEPT !.status = "CLOSED", !.owed = 0, !.late = FALSE]
                 ELSE [loan EXCEPT !.owed = @ - Applied(net)]
      /\ account' = [account EXCEPT !.claims = @ + receivable, !.refunds = @ + surplus]
      /\ IF surplus = 0 THEN UNCHANGED refund
         ELSE \E r \in Refunds :
                /\ Next1(refund, NoRefund, r)
                /\ refund' = [refund EXCEPT ![r] =
                     [status |-> "PAYABLE", amount |-> surplus, asked |-> TRUE]]

-----------------------------------------------------------------------------
(* The pledge. *)

ProposeRelease ==
  /\ loan.status = "CLOSED" /\ pledge.status = "ACTIVE" /\ ~pledge.asked
  /\ pledge' = [pledge EXCEPT !.asked = TRUE]
  /\ UNCHANGED <<loan, seizure, item, policy, claim, sale, refund, account>>

\* decideRelease: the pledge is still there; the loan is not looked at again.
StillPledged == pledge.status = "ACTIVE"

ApproveRelease ==
  /\ pledge.asked /\ StillPledged
  /\ pledge' = [status |-> "RELEASED", asked |-> FALSE]
  /\ UNCHANGED <<loan, seizure, item, policy, claim, sale, refund, account>>

RejectRelease ==
  /\ pledge.asked /\ pledge' = [pledge EXCEPT !.asked = FALSE]
  /\ UNCHANGED <<loan, seizure, item, policy, claim, sale, refund, account>>

-----------------------------------------------------------------------------
(* Repossession. *)

SeizureTo(k, to) ==
  /\ seizure' = [seizure EXCEPT ![k] = to]
  /\ UNCHANGED <<item, policy, claim, sale>>
OnlySeizure(k, to) == SeizureTo(k, to) /\ UNCHANGED <<loan, pledge, refund, account>>

ProposeRepossession(k) ==
  /\ loan.status = "ACTIVE" /\ loan.late
  /\ pledge.status = "ACTIVE"
  /\ \A j \in Seizures : ~InProgress(j)
  /\ Next1(seizure, "NONE", k) /\ OnlySeizure(k, "PROPOSED")

\* decide, REPOSSESSION_SEIZURE: of the loan nothing is asked again.
DecideSeizure(k) ==
  /\ seizure[k] = "PROPOSED"
  /\ \E to \in {"SEIZED", "REJECTED"} : OnlySeizure(k, to)

ValueRepossession(k) == seizure[k] \in {"SEIZED", "VALUED"} /\ OnlySeizure(k, "VALUED")

SellRepossession(k) ==
  /\ seizure[k] = "VALUED" /\ pledge.status = "ACTIVE"
  /\ \E gross \in Prices, costs \in Costs : ApplyProceeds(gross, costs, 0)
  /\ pledge' = [pledge EXCEPT !.status = "SOLD"]
  /\ SeizureTo(k, "SOLD")

-----------------------------------------------------------------------------
(* The pawned item. *)

OnlyItem == UNCHANGED <<loan, pledge, seizure, policy, claim, sale, refund, account>>

ReceivePawn ==
  /\ loan.status = "ACTIVE" /\ item.status = "NONE"
  /\ item' = [status |-> "IN_CUSTODY", overdue |-> FALSE, asked |-> FALSE] /\ OnlyItem

\* assertForfeitable
Forfeitable == loan.status = "ACTIVE" /\ item.overdue

ProposeForfeiture ==
  /\ item.status = "IN_CUSTODY" /\ Forfeitable /\ ~item.asked
  /\ item' = [item EXCEPT !.asked = TRUE] /\ OnlyItem

\* decide, PAWN_FORFEITURE
ApproveForfeiture ==
  /\ item.asked /\ item.status = "IN_CUSTODY" /\ Forfeitable
  /\ item' = [item EXCEPT !.status = "FORFEITED", !.asked = FALSE] /\ OnlyItem

RejectForfeiture == item.asked /\ item' = [item EXCEPT !.asked = FALSE] /\ OnlyItem

SellPawn ==
  /\ item.status = "FORFEITED"
  /\ \E gross \in Prices, costs \in Costs : ApplyProceeds(gross, costs, 0)
  /\ item' = [item EXCEPT !.status = "SOLD"]
  /\ UNCHANGED <<pledge, seizure, policy, claim, sale>>

ReturnPawn ==
  /\ loan.status = "CLOSED" /\ item.status = "IN_CUSTODY"
  /\ item' = [item EXCEPT !.status = "RETURNED"] /\ OnlyItem

-----------------------------------------------------------------------------
(* Credit insurance. *)

\* fileClaim: the policy was not claimed, and no claim on it is pending.
Claimable == policy = "ACTIVE" /\ \A k \in Claims : claim[k].status # "PENDING"

\* fileClaim: for an amount, or for whatever is owed when it is settled.
FileClaim(k) ==
  /\ loan.status = "ACTIVE" /\ Claimable /\ Next1(claim, NoClaim, k)
  /\ \E whole \in BOOLEAN, n \in Prices :
       claim' = [claim EXCEPT ![k] = [status |-> "PENDING", received |-> 0, whole |-> whole,
                                      amount |-> IF whole THEN loan.owed ELSE n]]
  /\ UNCHANGED <<loan, pledge, seizure, item, policy, sale, refund, account>>

\* decide, INSURANCE_CLAIM (settleClaim)
SettleClaim(k) ==
  LET gross == IF claim[k].whole THEN loan.owed ELSE claim[k].amount
  IN  /\ claim[k].status = "PENDING"
      /\ ApplyProceeds(gross, 0, gross)
      /\ claim' = [claim EXCEPT ![k].status = "SETTLED", ![k].amount = gross]
      /\ policy' = "CLAIMED"
      /\ UNCHANGED <<pledge, seizure, item, sale>>

RejectClaim(k) ==
  /\ claim[k].status = "PENDING" /\ claim' = [claim EXCEPT ![k].status = "REJECTED"]
  /\ UNCHANGED <<loan, pledge, seizure, item, policy, sale, refund, account>>

ReceiveClaimPayment(k) ==
  /\ claim[k].status = "SETTLED"
  /\ \E n \in 1 .. claim[k].amount - claim[k].received :
       /\ claim' = [claim EXCEPT ![k].received = @ + n]
       /\ account' = [account EXCEPT !.claims = @ - n]
  /\ UNCHANGED <<loan, pledge, seizure, item, policy, sale, refund>>

-----------------------------------------------------------------------------
(* Debt sale. *)

\* assertSellable: overdue or written off, with no security being realised.
Sellable ==
  /\ loan.status = "WRITTEN_OFF" \/ (loan.status = "ACTIVE" /\ loan.late)
  /\ \A k \in Seizures : ~InProgress(k)
  /\ item.status \notin {"IN_CUSTODY", "FORFEITED"}

ProposeDebtSale(k) ==
  /\ Sellable
  /\ \A j \in Sales : sale[j] \notin {"PENDING", "EXECUTED"}
  /\ Next1(sale, "NONE", k) /\ sale' = [sale EXCEPT ![k] = "PENDING"]
  /\ UNCHANGED <<loan, pledge, seizure, item, policy, claim, refund, account>>

\* A sale that looks at the loan alone when it is approved.
StillOnTheBooks == loan.status \in {"ACTIVE", "WRITTEN_OFF"}

\* executeDebtSale asks again what the proposal asked.
StillSellable == Sellable

ExecuteDebtSale(k) ==
  /\ sale[k] = "PENDING" /\ StillSellable
  /\ sale' = [sale EXCEPT ![k] = "EXECUTED"]
  /\ loan' = [loan EXCEPT !.status = "SOLD", !.owed = 0]
  /\ UNCHANGED <<pledge, seizure, item, policy, claim, refund, account>>

RejectDebtSale(k) ==
  /\ sale[k] = "PENDING" /\ sale' = [sale EXCEPT ![k] = "REJECTED"]
  /\ UNCHANGED <<loan, pledge, seizure, item, policy, claim, refund, account>>

-----------------------------------------------------------------------------
(* Surpluses. *)

\* A payout proposed without a look at the refund.
WasHeld(r) == refund[r].status # "NONE"

IsHeld(r) == refund[r].status = "PAYABLE"

ProposeRefundPayout(r) ==
  /\ IsHeld(r) /\ ~refund[r].asked
  /\ refund' = [refund EXCEPT ![r].asked = TRUE]
  /\ UNCHANGED <<loan, pledge, seizure, item, policy, claim, sale, account>>

\* decide, RECOVERY_REFUND (payRefund)
DecidePayout(r, pay) ==
  /\ refund[r].asked /\ (pay => IsHeld(r))
  /\ refund' = [refund EXCEPT ![r].asked = FALSE, ![r].status = IF pay THEN "PAID" ELSE @]
  /\ account' = IF ~pay THEN account
                ELSE [account EXCEPT !.refunds = @ - refund[r].amount]
  /\ UNCHANGED <<loan, pledge, seizure, item, policy, claim, sale>>

-----------------------------------------------------------------------------
Init ==
  /\ loan = [status |-> "ACTIVE", owed |-> Start, paid |-> 0, late |-> FALSE]
  /\ pledge = [status |-> "ACTIVE", asked |-> FALSE]
  /\ seizure = [k \in Seizures |-> "NONE"]
  /\ item = [status |-> "NONE", overdue |-> TRUE, asked |-> FALSE]
  /\ policy = "ACTIVE"
  /\ claim = [k \in Claims |-> NoClaim]
  /\ sale = [k \in Sales |-> "NONE"]
  /\ refund = [r \in Refunds |-> NoRefund]
  /\ account = [claims |-> 0, refunds |-> 0]

Next ==
  \/ EndOfDay \/ Pay \/ Reverse \/ WriteOff
  \/ ProposeRelease \/ ApproveRelease \/ RejectRelease
  \/ \E k \in Seizures : \/ ProposeRepossession(k) \/ DecideSeizure(k)
                         \/ ValueRepossession(k) \/ SellRepossession(k)
  \/ ReceivePawn \/ ProposeForfeiture \/ ApproveForfeiture \/ RejectForfeiture
  \/ SellPawn \/ ReturnPawn
  \/ \E k \in Claims : \/ FileClaim(k) \/ SettleClaim(k) \/ RejectClaim(k)
                       \/ ReceiveClaimPayment(k)
  \/ \E k \in Sales : ProposeDebtSale(k) \/ ExecuteDebtSale(k) \/ RejectDebtSale(k)
  \/ \E r \in Refunds : \/ ProposeRefundPayout(r)
                        \/ \E pay \in BOOLEAN : DecidePayout(r, pay)

Spec == Init /\ [][Next]_vars
-----------------------------------------------------------------------------
(* Properties. *)

TypeOK ==
  /\ loan.status \in {"ACTIVE", "CLOSED", "WRITTEN_OFF", "SOLD"}
  /\ loan.owed \in Nat /\ loan.paid \in Nat
  /\ loan.owed > 0 <=> loan.status = "ACTIVE"
  /\ pledge.status \in {"ACTIVE", "RELEASED", "SOLD"}
  /\ item.status \in {"NONE", "IN_CUSTODY", "FORFEITED", "SOLD", "RETURNED"}
  /\ policy \in {"ACTIVE", "CLAIMED"}

\* What a refund owes the borrower, and the insurer owes on a claim.
Held == [r \in Refunds |-> IF refund[r].status = "PAYABLE" THEN refund[r].amount ELSE 0]
Owing == [k \in Claims |-> IF claim[k].status = "SETTLED"
                           THEN claim[k].amount - claim[k].received ELSE 0]
Total(f, S) == MapThenSumSet(LAMBDA x : f[x], S)

\* What the ledger owes borrowers, and what the insurer owes, is what the
\* refunds and the claims say, and a loan owes something while it is ACTIVE.
LedgerAgrees ==
  /\ TypeOK
  /\ account.refunds = Total(Held, Refunds)
  /\ account.claims = Total(Owing, Claims)

\* "A claim has already been paid on this policy": an insurer settles one claim
\* on a policy, however many were filed and whenever they are decided.
PolicyPaysOnce == Cardinality({k \in Claims : claim[k].status = "SETTLED"}) <= 1

\* D-015: "A sale is refused while ... a repossession or pawn sale is in
\* progress": a debt that was sold left no security in the lender's hands.
NothingSoldInHand ==
  loan.status = "SOLD" =>
    /\ \A k \in Seizures : ~InProgress(k)
    /\ item.status \notin {"IN_CUSTODY", "FORFEITED"}

\* A pledge is sold if and only if a repossession of it was, once, and a pledge
\* that was sold is not released to the borrower as well.
SoldPledgeWasSeized ==
  Cardinality({k \in Seizures : seizure[k] = "SOLD"}) = IF pledge.status = "SOLD" THEN 1 ELSE 0

\* No security is realised twice, or sold to two: whatever waited for its approval
\* while the loan went on.
SecurityIsUsedOnce == PolicyPaysOnce /\ NothingSoldInHand /\ SoldPledgeWasSeized

\* D-015: "The loan becomes SOLD and is no longer serviced."
SoldStaysSold == [][loan.status = "SOLD" => loan'.status = "SOLD"]_vars

\* "Collateral is released only once the loan is closed."
ReleasedOnceClosed ==
  [][pledge.status = "ACTIVE" /\ pledge'.status = "RELEASED" => loan.status = "CLOSED"]_vars

\* assertForfeitable: "only an unredeemed pawn is forfeited": a forfeited item is
\* sold, so the loan it secures is not repaid without it.
ForfeitedIsOwed == item.status = "FORFEITED" => loan.status # "CLOSED"

\* proposeRepossession: the loan of an asset that is seized is overdue.
SeizedIsOwed ==
  [][\A k \in Seizures : seizure[k] # seizure'[k] /\ seizure'[k] = "SEIZED"
       => loan.status = "ACTIVE"]_vars
=============================================================================
