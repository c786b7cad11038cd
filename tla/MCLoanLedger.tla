---------------------------- MODULE MCLoanLedger ----------------------------
(* The books of one loan: its row and the ledger, with amounts of 0 and 1    *)
(* and balances up to a bound; or the recovery of what is not repaid.        *)
EXTENDS LoanLedger, FiniteSets

CONSTANT MaxBalance   \* bound on what may be owed, held and provided

\* Those of Recovery.
CONSTANTS Start, Prices, Costs, Seizures, Claims, Sales, Refunds

\* A loan owes something at first, sums are of money, rows are few.
ASSUME RecoveryAssumption ==
  /\ Start \in Nat \ {0} /\ Prices \subseteq Nat /\ Costs \subseteq Nat
  /\ IsFiniteSet(Seizures) /\ IsFiniteSet(Claims) /\ IsFiniteSet(Refunds)

VARIABLES
  scene,
  loan, pledge, seizure, item, policy, claim, sale, refund, account

recoveryVars == <<loan, pledge, seizure, item, policy, claim, sale, refund, account>>
allVars == <<vars, scene, recoveryVars>>

Recovery == INSTANCE Recovery

Bounded ==
  /\ Outstanding(led) + led.row.advance + led.row.allowance <= MaxBalance
  /\ led.gl.cash \in (0 - MaxBalance) .. MaxBalance
  /\ led.gl.feeIncome \in -1 .. 1
  /\ led.gl.interestIncome \in -1 .. 1
  /\ led.row.suspended + led.gl.interestSuspense \in -1 .. 1

MCInit == scene \in {"ledger", "recovery"} /\ Init /\ Recovery!Init

MCNext ==
  \/ scene = "ledger" /\ Next /\ Bounded' /\ UNCHANGED <<scene, recoveryVars>>
  \/ scene = "recovery" /\ Recovery!Next /\ UNCHANGED <<scene, vars>>

\* No property and no guard reads the committed transaction again.
Observed == <<led, scene, recoveryVars>>

MCSpec == MCInit /\ [][MCNext]_allVars

\* The properties of Recovery, under names of their own.
LedgerAgrees == Recovery!LedgerAgrees
SecurityIsUsedOnce == Recovery!SecurityIsUsedOnce
=============================================================================
