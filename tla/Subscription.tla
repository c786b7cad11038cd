---------------------------- MODULE Subscription ----------------------------
(***************************************************************************)
(* The subscription of one organisation: its plan, how it is paid for, and *)
(* the quota of running loans the plan sets.                               *)
(*                                                                         *)
(* Stripe delivers its events at least once and in any order; each is      *)
(* applied in one transaction that first claims the event's id             *)
(* (StripeWebhookService).  A QR code (PlanChangeService) is paid by bank  *)
(* transfer, and the platform operator confirms or rejects it              *)
(* (TenantsService): each of these reads a payment and writes it later,    *)
(* without a lock.  A booking of a loan asks for room in its transaction   *)
(* (PlanQuotaService); a refinance, a migrated loan and a converted drawing *)
(* do not ask, nor does a reversal that sets a closed loan running again.  *)
(* Erasure is in module Erasure; here an organisation is in the trash or   *)
(* not.                                                                    *)
(***************************************************************************)
EXTENDS Integers, FiniteSets

CONSTANTS
  Free,         \* the default tier
  Paid,         \* the other tiers
  Ceiling,      \* running loans each tier allows
  Subscribed,   \* Stripe subscriptions, with the tier each is for
  Nobody,
  Handlers,     \* deliveries of Stripe's events handled at once
  Clerks,       \* requests about payments under way at once
  Bookings,     \* loans there may be
  Payments,     \* numbers of plan payments, 1 .. n
  MaxCrashes    \* bound: transactions that come to nothing

VARIABLES
  org,       \* Tenant row: status, plan, stripeSubscriptionId, trashed
  payment,   \* PlanPayment rows
  event,     \* StripeWebhookEvent rows, by event
  handler,   \* what each delivery is doing
  clerk,     \* the payment each request has read, and what it is to do
  booking,   \* where each loan is, the ceiling its booking read, whether it asked
  best,      \* history: the highest ceiling there has been
  applied,   \* history: how often the effect of an event was committed
  crashes

vars == <<org, payment, event, handler, clerk, booking, best, applied, crashes>>

Plans == {Free} \cup Paid
Subs == DOMAIN Subscribed

\* What Stripe sends of a subscription: its checkout was paid, it was deleted, an
\* invoice was not paid.
Events == {"CHECKOUT", "DELETED", "UNPAID"} \X Subs

NoPayment == [status |-> "NONE", plan |-> Free, live |-> FALSE]
NoEvent == <<"NONE", Nobody>>
Idle == [pc |-> "IDLE", event |-> NoEvent, matches |-> FALSE]
Away == [doing |-> "NOTHING", at |-> 0]
Unbooked == [pc |-> "IDLE", limit |-> 0, asked |-> FALSE]
Unasked == [Unbooked EXCEPT !.pc = "BOOKED"]

Pending == {k \in Payments : payment[k].status = "PENDING"}
Live == {k \in Pending : payment[k].live}

\* Loans BOOKED or ACTIVE, and among them those that took their place by asking.
Running == {b \in Bookings : booking[b].pc = "BOOKED"}
Placed == {b \in Running : booking[b].asked}

Raised(plan) == best' = IF Ceiling[plan] > best THEN Ceiling[plan] ELSE best
Stripe == <<event, handler, applied>>
Crash == crashes < MaxCrashes /\ crashes' = crashes + 1

-----------------------------------------------------------------------------
(* Stripe's events. *)

\* createSubscriptionCheckout, by a member of an ACTIVE organisation; it is paid.
PayCheckout(s) ==
  /\ org.status = "ACTIVE" /\ event[<<"CHECKOUT", s>>] = "NONE"
  /\ event' = [event EXCEPT ![<<"CHECKOUT", s>>] = "SENT"]
  /\ UNCHANGED <<org, payment, handler, clerk, booking, best, applied, crashes>>

\* The card fails, or the subscription is cancelled in Stripe's portal.
EndSubscription(s, what) ==
  /\ event[<<"CHECKOUT", s>>] # "NONE" /\ event[<<what, s>>] = "NONE"
  /\ event' = [event EXCEPT ![<<what, s>>] = "SENT"]
  /\ UNCHANGED <<org, payment, handler, clerk, booking, best, applied, crashes>>

\* A claim that looks the event up before it inserts it.
ClaimLookedUp(e) == event[e] \in {"SENT", "CLAIMED"}

\* INSERT ... ON CONFLICT DO NOTHING: a second delivery waits for the first.
Claimable(e) == event[e] = "SENT"

\* decide reads the organisation.
ClaimEvent(h, e) ==
  /\ handler[h].pc = "IDLE" /\ Claimable(e)
  /\ event' = [event EXCEPT ![e] = "CLAIMED"]
  /\ handler' = [handler EXCEPT ![h] = [pc |-> "DECIDE", event |-> e, matches |->
       CASE e[1] = "CHECKOUT" -> ~org.trashed
         [] e[1] = "DELETED" -> org.sub = e[2]
         [] e[1] = "UNPAID" -> TRUE]]    \* the customer is the organisation's
  /\ UNCHANGED <<org, payment, clerk, booking, best, applied, crashes>>

\* The update, and the commit.  checkoutCompleted writes the plan whatever the
\* status is; subscriptionDeleted, by the id it read; paymentFailed, where the
\* status is ACTIVE.
CommitEvent(h) ==
  LET e == handler[h].event
  IN  /\ handler[h].pc = "DECIDE"
      /\ org' =
           CASE ~handler[h].matches -> org
             [] handler[h].matches /\ e[1] = "CHECKOUT" ->
                  [org EXCEPT !.plan = Subscribed[e[2]], !.sub = e[2]]
             [] handler[h].matches /\ e[1] = "DELETED" ->
                  [org EXCEPT !.plan = Free, !.sub = Nobody]
             [] handler[h].matches /\ e[1] = "UNPAID" ->
                  [org EXCEPT !.status = IF @ = "ACTIVE" THEN "SUSPENDED" ELSE @]
      /\ Raised(org'.plan)
      /\ event' = [event EXCEPT ![e] = "DONE"]
      /\ applied' = [applied EXCEPT ![e] = IF @ < 2 THEN @ + 1 ELSE @]
      /\ handler' = [handler EXCEPT ![h] = Idle]
      /\ UNCHANGED <<payment, clerk, booking, crashes>>

\* The claim is rolled back with everything else.
Unclaimed(e) == [event EXCEPT ![e] = "SENT"]

\* The transaction fails; Stripe sends the event again.
LoseEvent(h) ==
  /\ handler[h].pc = "DECIDE" /\ Crash
  /\ event' = Unclaimed(handler[h].event)
  /\ handler' = [handler EXCEPT ![h] = Idle]
  /\ UNCHANGED <<org, payment, clerk, booking, best, applied>>

-----------------------------------------------------------------------------
(* Payments by QR code. *)

Reads(c, what, k) == clerk' = [clerk EXCEPT ![c] = [doing |-> what, at |-> k]]
Leaves(c) == clerk' = [clerk EXCEPT ![c] = Away]
Does(c, what) == clerk[c].doing = what

\* A code expires; the payment stays PENDING.
Lapse(k) ==
  /\ k \in Live
  /\ payment' = [payment EXCEPT ![k].live = FALSE]
  /\ UNCHANGED <<org, clerk, booking, best, Stripe, crashes>>

\* request: livePending finds none.
LookForPending(c) ==
  /\ Does(c, "NOTHING") /\ Live = {}
  /\ Reads(c, "REQUEST", 0)
  /\ UNCHANGED <<org, payment, booking, best, Stripe, crashes>>

MintPayment(c, plan) ==
  /\ Does(c, "REQUEST") /\ plan # org.plan
  /\ \E k \in Payments :
       /\ {j \in Payments : payment[j] # NoPayment} = 1 .. k - 1
       /\ payment' = [payment EXCEPT ![k] =
            [status |-> "PENDING", plan |-> plan, live |-> TRUE]]
  /\ Leaves(c)
  /\ UNCHANGED <<org, booking, best, Stripe, crashes>>

\* confirmPlanPayment, rejectPlanPayment and cancel read that it is pending ...
ReadPayment(c, k, what) ==
  /\ Does(c, "NOTHING") /\ k \in Pending
  /\ Reads(c, what, k)
  /\ UNCHANGED <<org, payment, booking, best, Stripe, crashes>>

\* ... and write the row by its id.
ConfirmPayment(c) ==
  LET k == clerk[c].at
  IN  /\ Does(c, "CONFIRM")
      /\ payment' = [payment EXCEPT ![k].status = "CONFIRMED"]
      /\ org' = [org EXCEPT !.status = "ACTIVE", !.plan = payment[k].plan]
      /\ Raised(org'.plan)
      /\ Leaves(c)
      /\ UNCHANGED <<booking, Stripe, crashes>>

Dropped == "REJECTED"

RejectOrCancel(c) ==
  /\ Does(c, "REJECT")
  /\ payment' = [payment EXCEPT ![clerk[c].at].status = Dropped]
  /\ Leaves(c)
  /\ UNCHANGED <<org, booking, best, Stripe, crashes>>

-----------------------------------------------------------------------------
(* The operator. *)

Operates == UNCHANGED <<payment, booking, clerk, Stripe, crashes>>

SetPlan(plan) ==
  /\ plan # org.plan /\ org' = [org EXCEPT !.plan = plan]
  /\ Raised(plan) /\ Operates

Suspend == org' = [org EXCEPT !.status = "SUSPENDED"] /\ UNCHANGED best /\ Operates

\* assertActivatable
Reactivate ==
  /\ org.status # "PENDING_PAYMENT"
  /\ org' = [org EXCEPT !.status = "ACTIVE", !.trashed = FALSE]
  /\ UNCHANGED best /\ Operates

\* remove
Trash ==
  /\ org' = [org EXCEPT !.status = "SUSPENDED", !.trashed = TRUE]
  /\ UNCHANGED best /\ Operates

-----------------------------------------------------------------------------
(* Quotas. *)

Books == UNCHANGED <<org, payment, event, handler, clerk, best, applied>>

Turns(b, loan) == booking' = [booking EXCEPT ![b] = loan] /\ Books

\* assertRoom reads the plan, and then waits for the lock of the quota.
AskForRoom(b) ==
  /\ booking[b].pc = "IDLE"
  /\ Turns(b, [pc |-> "ASKS", limit |-> Ceiling[org.plan], asked |-> TRUE])
  /\ UNCHANGED crashes

Unlocked == TRUE
QuotaFree == \A b \in Bookings : booking[b].pc # "COUNTED"

\* pg_advisory_xact_lock, and the count.
CountRoom(b) ==
  /\ booking[b].pc = "ASKS" /\ QuotaFree
  /\ Turns(b, IF Cardinality(Running) + 1 > booking[b].limit THEN Unbooked
              ELSE [booking[b] EXCEPT !.pc = "COUNTED"])
  /\ UNCHANGED crashes

CommitBooking(b) ==
  /\ booking[b].pc = "COUNTED"
  /\ Turns(b, [Unasked EXCEPT !.asked = TRUE])
  /\ UNCHANGED crashes

LoseBooking(b) ==
  /\ booking[b].pc \in {"ASKS", "COUNTED"} /\ Crash
  /\ Turns(b, Unbooked)

\* A refinance, beside the loan it is to replace; a migrated loan; a letter of
\* credit's drawing that becomes a loan.
BookUnasked(b) ==
  /\ booking[b].pc = "IDLE"
  /\ Turns(b, Unasked)
  /\ UNCHANGED crashes

\* The loan is repaid; or settled, written off or sold, which a reversal does not
\* take back.
CloseLoan(b) ==
  /\ booking[b].pc = "BOOKED"
  /\ Turns(b, [Unbooked EXCEPT !.pc = "CLOSED"])
  /\ UNCHANGED crashes

\* reverse writes ACTIVE, and neither asks for room nor takes the lock.
ReopenLoan(b) ==
  /\ booking[b].pc = "CLOSED"
  /\ Turns(b, Unasked)
  /\ UNCHANGED crashes

-----------------------------------------------------------------------------
Init ==
  /\ org = [status |-> "PENDING_PAYMENT", plan |-> Free, sub |-> Nobody, trashed |-> FALSE]
  /\ payment \in [Payments -> {NoPayment} \cup [status : {"PENDING"}, plan : Paid, live : {TRUE}]]
  /\ {k \in Payments : payment[k] # NoPayment} = {1}   \* made at signup
  /\ event = [e \in Events |-> "NONE"]
  /\ handler = [h \in Handlers |-> Idle]
  /\ clerk = [c \in Clerks |-> Away]
  /\ booking = [b \in Bookings |-> Unbooked]
  /\ best = Ceiling[Free]
  /\ applied = [e \in Events |-> 0]
  /\ crashes = 0

Next ==
  \/ \E s \in Subs : PayCheckout(s) \/ \E what \in {"DELETED", "UNPAID"} : EndSubscription(s, what)
  \/ \E h \in Handlers : CommitEvent(h) \/ LoseEvent(h) \/ \E e \in Events : ClaimEvent(h, e)
  \/ \E k \in Payments : Lapse(k)
  \/ \E c \in Clerks : \/ LookForPending(c) \/ ConfirmPayment(c) \/ RejectOrCancel(c)
                       \/ \E plan \in Paid : MintPayment(c, plan)
                       \/ \E k \in Payments, what \in {"CONFIRM", "REJECT"} : ReadPayment(c, k, what)
  \/ \E plan \in Plans : SetPlan(plan)
  \/ Suspend \/ Reactivate \/ Trash
  \/ \E b \in Bookings : \/ AskForRoom(b) \/ CountRoom(b) \/ CommitBooking(b) \/ LoseBooking(b)
                         \/ BookUnasked(b) \/ CloseLoan(b) \/ ReopenLoan(b)

Spec == Init /\ [][Next]_vars
-----------------------------------------------------------------------------
(* Properties. *)

TypeOK ==
  /\ org \in [status : {"PENDING_PAYMENT", "ACTIVE", "SUSPENDED"}, plan : Plans,
              sub : Subs \cup {Nobody}, trashed : BOOLEAN]
  /\ payment \in [Payments -> [status : {"NONE", "PENDING", "CONFIRMED", "REJECTED"},
                               plan : Plans, live : BOOLEAN]]
  /\ event \in [Events -> {"NONE", "SENT", "CLAIMED", "DONE"}]
  /\ \A h \in Handlers : handler[h].event \in Events \cup {NoEvent}
  /\ \A c \in Clerks : clerk[c].at \in Payments \cup {0}
  /\ \A b \in Bookings : booking[b].pc \in {"IDLE", "ASKS", "COUNTED", "BOOKED", "CLOSED"}
  /\ best \in {Ceiling[p] : p \in Plans}

\* The claim is the event's transaction: no event stays claimed when nobody is
\* applying it, or every later delivery of it would be taken for a duplicate.
NoOrphanClaim == \A e \in Events :
  event[e] = "CLAIMED" => \E h \in Handlers : handler[h].pc = "DECIDE" /\ handler[h].event = e

\* apply: "Apply a verified event exactly once", however often Stripe delivers
\* it, at the same time or again after a transaction that came to nothing.
AppliedOnce == TypeOK /\ NoOrphanClaim /\ \A e \in Events : applied[e] <= 1

\* assertRoom: "two bookings cannot both take the last place": of the loans that
\* took their place by asking, no more run than the best plan held allowed, whatever
\* happens to the plan between, and whatever loans come to run without asking.
PlacesWithinPlan == Cardinality(Placed) <= best

\* D-167: a booking that is let in leaves no more loans running than that plan
\* allowed.
BookedWithinPlan == [][\A b \in Bookings :
  booking[b].pc = "COUNTED" /\ booking'[b].pc = "BOOKED"
    => Cardinality(Running') <= best]_vars

\* No more loans run than the best plan held allowed.
RunningWithinPlan == Cardinality(Running) <= best

\* assertActivatable: "activated only by confirming that payment ..., never by
\* Reactivate or an edit".
ActivatedByPayment == [][org.status # "ACTIVE" /\ org'.status = "ACTIVE" =>
  \E k \in Payments : payment'[k].status = "CONFIRMED"]_vars

\* request: "Two live QRs for one workspace means the operator has to guess".
OneLivePayment == Cardinality(Live) <= 1

\* A payment that was confirmed, or rejected, stays so.
DecidedOnce == [][\A k \in Payments :
  payment[k].status \in {"CONFIRMED", "REJECTED"} => payment'[k].status = payment[k].status]_vars

\* A subscription that Stripe has ended pays for no plan, in whatever order its
\* events arrived.
EndedGivesNoPlan == \A s \in Subs : event[<<"DELETED", s>>] = "DONE" => org.sub # s

\* "whose erasure is pending": it "must not be revived by a payment" (D-166).
TrashedStaysOff == org.trashed => org.status = "SUSPENDED"
=============================================================================
