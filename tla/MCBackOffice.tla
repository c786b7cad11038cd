---------------------------- MODULE MCBackOffice ----------------------------
(* What an office does beside the loans: the erasure of an organisation; its *)
(* subscription by Stripe or by QR code, and the quota of loans it gives.    *)
EXTENDS Erasure, TLC

CONSTANTS a1, a2, r1, r2, h1, h2, b1, b2, b3, b4

\* Those of Subscription.
CONSTANTS FreePlan, Paid, Ceiling, Subscribed, Handlers, Clerks, Bookings, Payments, MaxCrashes

\* Every tier has its ceiling, every subscription is for a tier.
ASSUME PlanAssumption ==
  /\ \A plan \in {FreePlan} \cup Paid : Ceiling[plan] \in Nat
  /\ \A s \in DOMAIN Subscribed : Subscribed[s] \in {FreePlan} \cup Paid
  /\ IsFiniteSet(Bookings)

VARIABLES
  scene,
  account, payment, event, handler, clerk, booking, best, applied, crashes

planVars == <<account, payment, event, handler, clerk, booking, best, applied, crashes>>
allVars == <<vars, scene, planVars>>

Alike == Permutations({a1, a2}) \cup Permutations({r1, r2}) \cup Permutations({h1, h2})

Ceilings == [plan \in {"FREE", "PLUS"} |-> IF plan = "FREE" THEN 1 ELSE 2]
ForPlus == [s \in {"s1"} |-> "PLUS"]

Plan == INSTANCE Subscription WITH org <- account, Free <- FreePlan

Scenes == {"purge", "stripe", "codes", "quota"}

\* Bound: two erasures, two requests and a purge that fails, but not all of them.
NotAllAtOnce == erasures' + faults' + Cardinality({k \in Requests : request'[k].at # 0}) <= 4

\* Bound: Stripe's events beside one payment and one request about it; payments
\* without Stripe; and bookings beside what the operator does.
Asks(c) == clerk'[c].doing # "NOTHING"
OnePayment == /\ \A k \in Payments \ {1} : UNCHANGED payment[k]
              /\ \A c, d \in Clerks : Asks(c) /\ Asks(d) => c = d
NoStripe == UNCHANGED <<event, handler, booking, crashes>>
NoPayments == UNCHANGED <<event, handler, payment, clerk>>

MCInit == scene \in Scenes /\ Init /\ Plan!Init

MCNext ==
  \/ scene = "purge" /\ Next /\ NotAllAtOnce /\ UNCHANGED <<scene, planVars>>
  \/ scene = "stripe" /\ UNCHANGED booking /\ Plan!Next /\ OnePayment /\ UNCHANGED <<scene, vars>>
  \/ scene = "codes" /\ NoStripe /\ Plan!Next /\ UNCHANGED <<scene, vars>>
  \/ scene = "quota" /\ NoPayments /\ Plan!Next /\ UNCHANGED <<scene, vars>>

MCSpec == MCInit /\ [][MCNext]_allVars

\* The properties of Subscription, under names of their own.
AppliedOnce == Plan!AppliedOnce
PlacesWithinPlan == Plan!PlacesWithinPlan
=============================================================================
