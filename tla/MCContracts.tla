---------------------------- MODULE MCContracts ----------------------------
(* The handlers of servicing in two scenes, LoanAccount under a contract     *)
(* whose excess money is held on advance and under one whose excess money    *)
(* prepays; and in a third the calls that ask for them, MoneyOperation.      *)
EXTENDS MCLoanAccount

CONSTANTS Keys, Calls, Requests, None, OwedAtFirst  \* of MoneyOperation

VARIABLES
  scene,
  recorded, balances, call   \* MoneyOperation's

Money == INSTANCE MoneyOperation WITH
  events <- recorded, owed <- balances

ASSUME CallsAssumption ==
  /\ None \notin Requests /\ None \notin Keys
  /\ \A r \in Requests : r.amount \in Nat \ {0}
  /\ OwedAtFirst \in [Money!Loans -> Nat]

Prepaying == INSTANCE LoanAccount WITH
  PayAmounts <- {2, 4}, ExcessHandling <- "PREPAY", PrepaymentAllowed <- TRUE,
  Strategies <- {"RECAST", "SHORTEN"}, PrepaymentCharge <- 1, ReturnFee <- 1,
  MaxBackdateDays <- 1, NonAccrualFrom <- 1, WriteOffMinDpd <- 9, Agreed <- {}, MaxDay <- 3,
  RefundAmounts <- {2}

MCRequests == {[loan |-> "A", amount |-> 1], [loan |-> "A", amount |-> 2],
               [loan |-> "B", amount |-> 1]}
MCOwed == [l \in {"A", "B"} |-> IF l = "A" THEN 2 ELSE 1]

callVars == <<recorded, balances, call>>
contractVars == <<vars, scene, callVars>>
ObservedScene == <<scene, Observed, callVars>>

InContract(s, A) == /\ scene = s /\ A
                    /\ UNCHANGED <<scene, callVars>>
InCalls == /\ scene = "calls" /\ Money!Next
           /\ UNCHANGED <<scene, vars>>

ContractsInit ==
  scene \in {"advance", "prepay", "calls"} /\ Init /\ Money!Init
ContractsNext ==
  InContract("advance", Next) \/ InContract("prepay", Prepaying!Next) \/ InCalls

ContractsSpec == ContractsInit /\ [][ContractsNext]_contractVars

\* The contract at hand agrees with its payments, and its advance, where nothing
\* prepays behind it, never exceeds what the loan owes.
ContractAgrees == AccountAgrees /\ (scene = "advance" => AdvanceIsCovered)

\* AdvanceIsUsed, where nothing prepays behind the advance.
ContractUsesAdvance == [][scene = "advance" => UsesAdvance]_<<vars, scene>>

\* money: what a call checked before it inserted its event still holds when it
\* commits, and calls look like calls of a service that executes each key once.
CheckedStillHolds == Money!CheckedStillHolds
ImplementsAtMostOnce == Money!ImplementsAtMostOnce
=============================================================================
