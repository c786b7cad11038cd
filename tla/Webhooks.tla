------------------------------ MODULE Webhooks ------------------------------
(***************************************************************************)
(* WebhooksService: an organisation's own systems receive its events.      *)
(* Administrators register, approve and switch off endpoints.  Every API   *)
(* instance runs the tick: it fans new outbox messages out to the active   *)
(* endpoints, one delivery row each, and then sends what is due, claiming  *)
(* each delivery with a lease.  A run keeps the endpoints it listed at its *)
(* start; a decision on an endpoint resolves its name between reading and  *)
(* writing the row.  Of tenants there is one, and of the limits on batches *)
(* the fan-out's; time is as in Outbox.                                    *)
(***************************************************************************)
EXTENDS Integers, FiniteSets

CONSTANTS
  Messages,       \* outbox messages, numbered in the order they are created
  TestEvent,      \* webhook.ping, which is no outbox message
  Endpoints,
  Subscribed,     \* pairs of a message and an endpoint whose topics match
  Workers,        \* ticks and requests under way at once, on any instance
  Admins,
  Nobody,
  Lease, MaxSend, MaxAttempts, Backoff,   \* as in Outbox
  DisableAfter,   \* LENDING_WEBHOOK_DISABLE_AFTER_FAILURES
  FanOutBatch,    \* LENDING_WEBHOOK_FANOUT_BATCH_SIZE
  MaxDeaths,      \* bound: instances that die
  MaxActs         \* bound: what administrators do

VARIABLES
  endpoint,   \* WebhookEndpoint rows
  queued,     \* whether a message exists, and its webhooksQueuedAt
  delivery,   \* WebhookDelivery rows
  run,        \* what each worker is doing
  desk,       \* the endpoint whose decision an administrator has read
  always,     \* history: the endpoints that were active all the time
  deaths, acts

vars == <<endpoint, queued, delivery, run, desk, always, deaths, acts>>

Deliveries == (Messages \cup {TestEvent}) \X Endpoints

NoRow == [status |-> "NONE", attempts |-> 0, wait |-> 0]
Queued == [NoRow EXCEPT !.status = "PENDING"]

\* FANOUT: the endpoints are listed.  CREATE, MARK: messages are.  LIST: fan-out
\* is over.  CLAIM: deliveries are left.  LOAD, POST, DROP, OK, BAD: one is
\* claimed.  COUNT, COUNT_BAD, SWITCH: it is written, its endpoint not yet.
Stages == {"IDLE", "FANOUT", "CREATE", "MARK", "LIST", "CLAIM", "LOAD", "POST",
           "DROP", "OK", "BAD", "COUNT", "COUNT_BAD", "SWITCH"}
Holding == {"LOAD", "POST", "DROP", "OK", "BAD"}

NoDelivery == <<TestEvent, Nobody>>

Idle == [pc |-> "IDLE", ends |-> {}, msgs |-> {}, due |-> {}, at |-> NoDelivery,
         tries |-> 0, age |-> 0]

At(w, pc) == run[w].pc = pc
Becomes(w, r) == run' = [run EXCEPT ![w] = r]
Proceeds(w, pc) == Becomes(w, [run[w] EXCEPT !.pc = pc])

\* The run is done with the delivery it is at.
Rest(w) ==
  LET left == run[w].due \ {run[w].at}
  IN  IF left = {} THEN Idle ELSE [Idle EXCEPT !.pc = "CLAIM", !.due = left]

Active == {e \in Endpoints : endpoint[e].status = "ACTIVE"}
New == {m \in Messages : queued[m] = "NEW"}
Due(d) == delivery[d].status = "PENDING" /\ delivery[d].wait = 0

People == <<desk, acts>>
-----------------------------------------------------------------------------
(* Fan-out. *)

Publish(m) ==
  /\ queued[m] = "NONE"
  /\ \A k \in Messages : k < m => queued[k] # "NONE"
  /\ queued' = [queued EXCEPT ![m] = "NEW"]
  /\ UNCHANGED <<endpoint, delivery, run, always, deaths, People>>

ListEndpoints(w) ==
  /\ At(w, "IDLE")
  /\ Becomes(w, [Idle EXCEPT !.pc = "FANOUT", !.ends = Active])
  /\ UNCHANGED <<endpoint, queued, delivery, always, deaths, People>>

\* "Organisations without an active endpoint have nothing to send."
NothingToSend(w) ==
  /\ At(w, "FANOUT") /\ run[w].ends = {}
  /\ queued' = [m \in Messages |-> IF m \in New THEN "QUEUED" ELSE queued[m]]
  /\ Proceeds(w, "LIST")
  /\ UNCHANGED <<endpoint, delivery, always, deaths, People>>

\* Marking before the rows are created: a death between the two loses them.
ListAndMark(w) ==
  /\ At(w, "FANOUT") /\ run[w].ends # {}
  /\ LET batch == {m \in New : Cardinality({k \in New : k <= m}) <= FanOutBatch}
     IN  /\ Becomes(w, [run[w] EXCEPT !.pc = IF batch = {} THEN "LIST" ELSE "CREATE",
                                      !.msgs = batch])
         /\ queued' = [m \in Messages |-> IF m \in batch THEN "QUEUED" ELSE queued[m]]
  /\ UNCHANGED <<endpoint, delivery, always, deaths, People>>

ListMessages(w) ==
  /\ At(w, "FANOUT") /\ run[w].ends # {}
  /\ LET batch == {m \in New : Cardinality({k \in New : k <= m}) <= FanOutBatch}
     IN  Becomes(w, [run[w] EXCEPT !.pc = IF batch = {} THEN "LIST" ELSE "CREATE",
                                   !.msgs = batch])
  /\ UNCHANGED <<endpoint, queued, delivery, always, deaths, People>>

\* createMany, skipDuplicates: a row there is stays as it is.
CreateRows(w) ==
  /\ At(w, "CREATE")
  /\ delivery' = [d \in Deliveries |->
       IF /\ d \in Subscribed /\ d[1] \in run[w].msgs /\ d[2] \in run[w].ends
          /\ delivery[d].status = "NONE"
       THEN Queued ELSE delivery[d]]
  /\ Proceeds(w, "MARK")
  /\ UNCHANGED <<endpoint, queued, always, deaths, People>>

MarkQueued(w) ==
  /\ At(w, "MARK")
  /\ queued' = [m \in Messages |-> IF m \in run[w].msgs THEN "QUEUED" ELSE queued[m]]
  /\ Becomes(w, [run[w] EXCEPT !.msgs = {},
       !.pc = IF Cardinality(run[w].msgs) < FanOutBatch THEN "LIST" ELSE "FANOUT"])
  /\ UNCHANGED <<endpoint, delivery, always, deaths, People>>

-----------------------------------------------------------------------------
(* Delivery. *)

ListDue(w) ==
  /\ At(w, "LIST")
  /\ LET due == {d \in Deliveries : Due(d)}
     IN  Becomes(w, IF due = {} THEN Idle ELSE [Idle EXCEPT !.pc = "CLAIM", !.due = due])
  /\ UNCHANGED <<endpoint, queued, delivery, always, deaths, People>>

\* A claim that does not look whether somebody else has the delivery.
ClaimAnyway(w) ==
  /\ At(w, "CLAIM")
  /\ \E d \in run[w].due :
       /\ delivery' = [delivery EXCEPT ![d].wait = Lease]
       /\ Becomes(w, [run[w] EXCEPT !.pc = "LOAD", !.at = d])
  /\ UNCHANGED <<endpoint, queued, always, deaths, People>>

\* claim: another run may have it, or have answered it.
Claim(w) ==
  /\ At(w, "CLAIM")
  /\ \E d \in run[w].due :
       IF Due(d)
       THEN /\ delivery' = [delivery EXCEPT ![d].wait = Lease]
            /\ Becomes(w, [run[w] EXCEPT !.pc = "LOAD", !.at = d])
       ELSE /\ Becomes(w, IF run[w].due = {d} THEN Idle
                          ELSE [run[w] EXCEPT !.due = @ \ {d}])
            /\ UNCHANGED delivery
  /\ UNCHANGED <<endpoint, queued, always, deaths, People>>

\* deliver reads the row and its endpoint once it has the claim.
Load(w) ==
  /\ At(w, "LOAD")
  /\ LET d == run[w].at
     IN  Becomes(w, IF delivery[d].status # "PENDING" THEN Rest(w)
                    ELSE [run[w] EXCEPT !.tries = delivery[d].attempts,
                            !.pc = IF d[2] \in Active THEN "POST" ELSE "DROP"])
  /\ UNCHANGED <<endpoint, queued, delivery, always, deaths, People>>

\* "Endpoint is not active"
DropDelivery(w) ==
  /\ At(w, "DROP")
  /\ delivery' = [delivery EXCEPT ![run[w].at].status = "FAILED"]
  /\ Becomes(w, Rest(w))
  /\ UNCHANGED <<endpoint, queued, always, deaths, People>>

\* The receiver answers 2xx, or it answers otherwise, or there is no answer.
PostDelivery(w) ==
  /\ At(w, "POST")
  /\ Proceeds(w, "OK") \/ Proceeds(w, "BAD")
  /\ UNCHANGED <<endpoint, queued, delivery, always, deaths, People>>

WriteSent(w) ==
  /\ At(w, "OK")
  /\ delivery' = [delivery EXCEPT ![run[w].at].status = "SENT",
                                  ![run[w].at].attempts = run[w].tries + 1]
  /\ Proceeds(w, "COUNT")
  /\ UNCHANGED <<endpoint, queued, always, deaths, People>>

\* The row after a failed attempt, the n-th.
Failed(n) == [status   |-> IF n >= MaxAttempts THEN "FAILED" ELSE "PENDING",
              attempts |-> n,
              wait     |-> Backoff[n]]

WriteFailed(w) ==
  /\ At(w, "BAD")
  /\ delivery' = [delivery EXCEPT ![run[w].at] = Failed(run[w].tries + 1)]
  /\ Proceeds(w, "COUNT_BAD")
  /\ UNCHANGED <<endpoint, queued, always, deaths, People>>

\* consecutiveFailures is counted in the database; the run acts on the count it
\* was answered.
CountSuccess(w) ==
  /\ At(w, "COUNT")
  /\ endpoint' = [endpoint EXCEPT ![run[w].at[2]].fails = 0]
  /\ Becomes(w, Rest(w))
  /\ UNCHANGED <<queued, delivery, always, deaths, People>>

CountFailure(w) ==
  /\ At(w, "COUNT_BAD")
  /\ LET e == run[w].at[2]
         fails == endpoint[e].fails + 1
     IN  /\ endpoint' = [endpoint EXCEPT ![e].fails = IF fails > DisableAfter
                                                      THEN DisableAfter ELSE fails]
         /\ IF fails >= DisableAfter THEN Proceeds(w, "SWITCH") ELSE Becomes(w, Rest(w))
  /\ UNCHANGED <<queued, delivery, always, deaths, People>>

SwitchOff(w) ==
  /\ At(w, "SWITCH")
  /\ LET e == run[w].at[2]
     IN  /\ endpoint' = [endpoint EXCEPT ![e].status = IF @ = "ACTIVE" THEN "DISABLED" ELSE @]
         /\ always' = always \ {e}
  /\ Becomes(w, Rest(w))
  /\ UNCHANGED <<queued, delivery, deaths, People>>

\* The instance dies, or the run throws.
Die(w) ==
  /\ ~At(w, "IDLE")
  /\ deaths < MaxDeaths /\ deaths' = deaths + 1
  /\ Becomes(w, Idle)
  /\ UNCHANGED <<endpoint, queued, delivery, always, People>>

Tick ==
  /\ \A w \in Workers : run[w].pc \in Holding => run[w].age < MaxSend
  /\ delivery' = [d \in Deliveries |->
       [delivery[d] EXCEPT !.wait = IF @ > 0 THEN @ - 1 ELSE 0]]
  /\ run' = [w \in Workers |->
       IF run[w].pc \in Holding THEN [run[w] EXCEPT !.age = @ + 1] ELSE run[w]]
  /\ UNCHANGED <<endpoint, queued, always, deaths, People>>

-----------------------------------------------------------------------------
(* Administrators. *)

Acts == acts < MaxActs /\ acts' = acts + 1
OnEndpoints == UNCHANGED <<queued, delivery, run, deaths>>

Register(a, e) ==
  /\ Acts /\ endpoint[e].status = "NONE"
  /\ endpoint' = [endpoint EXCEPT ![e].status = "PENDING_APPROVAL", ![e].createdBy = a]
  /\ OnEndpoints /\ UNCHANGED <<desk, always>>

\* decide reads who registered the endpoint, and then resolves its name.
Consider(a, e) ==
  /\ Acts /\ desk[a] = Nobody
  /\ endpoint[e].status = "PENDING_APPROVAL" /\ endpoint[e].createdBy # a
  /\ desk' = [desk EXCEPT ![a] = e]
  /\ OnEndpoints /\ UNCHANGED <<endpoint, always>>

Approve(a) ==
  /\ desk[a] # Nobody /\ desk' = [desk EXCEPT ![a] = Nobody]
  /\ endpoint' = [endpoint EXCEPT ![desk[a]].status = "ACTIVE",
                    ![desk[a]].approvedBy = a, ![desk[a]].fails = 0]
  /\ OnEndpoints /\ UNCHANGED <<always, acts>>

Reject(a) ==
  /\ desk[a] # Nobody /\ desk' = [desk EXCEPT ![a] = Nobody]
  /\ endpoint' = [endpoint EXCEPT ![desk[a]].status = "DISABLED"]
  /\ always' = always \ {desk[a]}
  /\ OnEndpoints /\ UNCHANGED acts

Disable(e) ==
  /\ Acts /\ endpoint[e].status \notin {"NONE", "DISABLED"}
  /\ endpoint' = [endpoint EXCEPT ![e].status = "DISABLED"]
  /\ always' = always \ {e}
  /\ OnEndpoints /\ UNCHANGED desk

Reenable(a, e) ==
  /\ Acts /\ endpoint[e].status = "DISABLED"
  /\ endpoint' = [endpoint EXCEPT ![e].status = "PENDING_APPROVAL",
                    ![e].createdBy = a, ![e].approvedBy = Nobody]
  /\ OnEndpoints /\ UNCHANGED <<desk, always>>

\* ping: the request that queues a test event sends it.
Ping(w, e) ==
  /\ Acts /\ At(w, "IDLE") /\ e \in Active
  /\ delivery[<<TestEvent, e>>].status = "NONE"
  /\ delivery' = [delivery EXCEPT ![<<TestEvent, e>>] = Queued]
  /\ Becomes(w, [Idle EXCEPT !.pc = "CLAIM", !.due = {<<TestEvent, e>>}])
  /\ UNCHANGED <<endpoint, queued, always, deaths, desk>>

\* retry: the attempts of a failed delivery begin anew, and the request sends it.
Retry(w, d) ==
  /\ Acts /\ At(w, "IDLE") /\ delivery[d].status = "FAILED"
  /\ delivery' = [delivery EXCEPT ![d] = Queued]
  /\ Becomes(w, [Idle EXCEPT !.pc = "CLAIM", !.due = {d}])
  /\ UNCHANGED <<endpoint, queued, always, deaths, desk>>

-----------------------------------------------------------------------------
NoEndpoint == [status |-> "NONE", createdBy |-> Nobody, approvedBy |-> Nobody, fails |-> 0]

\* An endpoint that somebody registered, in whatever state it has come to.
Registered(a, b) ==
  {[status |-> "PENDING_APPROVAL", createdBy |-> a, approvedBy |-> Nobody, fails |-> 0],
   [status |-> "ACTIVE", createdBy |-> a, approvedBy |-> b, fails |-> 0],
   [status |-> "DISABLED", createdBy |-> a, approvedBy |-> b, fails |-> 0]}

Init ==
  /\ LET a == CHOOSE a \in Admins : TRUE
         b == CHOOSE b \in Admins : b # a
     IN  endpoint \in [Endpoints -> Registered(a, b) \cup {NoEndpoint}]
  /\ always = Active
  /\ queued = [m \in Messages |-> "NONE"]
  /\ delivery = [d \in Deliveries |-> NoRow]
  /\ run = [w \in Workers |-> Idle]
  /\ desk = [a \in Admins |-> Nobody]
  /\ deaths = 0 /\ acts = 0

\* The steps of a run that is alive.
Works(w) ==
  \/ ListEndpoints(w) \/ NothingToSend(w)
  \/ ListMessages(w) \/ CreateRows(w) \/ MarkQueued(w)
  \/ ListDue(w) \/ Claim(w) \/ Load(w) \/ DropDelivery(w)
  \/ PostDelivery(w) \/ WriteSent(w) \/ WriteFailed(w)
  \/ CountSuccess(w) \/ CountFailure(w) \/ SwitchOff(w)

Administers ==
  \/ \E a \in Admins : Approve(a) \/ Reject(a)
  \/ \E a \in Admins, e \in Endpoints : Register(a, e) \/ Consider(a, e) \/ Reenable(a, e)
  \/ \E e \in Endpoints : Disable(e)
  \/ \E w \in Workers, e \in Endpoints : Ping(w, e)
  \/ \E w \in Workers, d \in Deliveries : Retry(w, d)

Next ==
  \/ \E m \in Messages : Publish(m)
  \/ \E w \in Workers : Works(w) \/ Die(w)
  \/ Administers
  \/ Tick

Spec == Init /\ [][Next]_vars

\* Time passes; the tick fires every 15 seconds on every instance, and a run
\* that does not die goes on.
FairSpec == Spec /\ WF_vars(Tick) /\ \A w \in Workers : WF_vars(Works(w))
-----------------------------------------------------------------------------
(* Properties. *)

TypeOK ==
  /\ endpoint \in [Endpoints -> [status : {"NONE", "PENDING_APPROVAL", "ACTIVE", "DISABLED"},
                                 createdBy : Admins \cup {Nobody},
                                 approvedBy : Admins \cup {Nobody},
                                 fails : 0 .. DisableAfter]]
  /\ queued \in [Messages -> {"NONE", "NEW", "QUEUED"}]
  /\ delivery \in [Deliveries -> [status : {"NONE", "PENDING", "SENT", "FAILED"},
                                  attempts : 0 .. MaxAttempts, wait : Nat]]
  /\ run \in [Workers -> [pc : Stages, ends : SUBSET Endpoints, msgs : SUBSET Messages,
                          due : SUBSET Deliveries, at : Deliveries \cup {NoDelivery},
                          tries : 0 .. MaxAttempts - 1, age : 0 .. MaxSend]]
  /\ desk \in [Admins -> Endpoints \cup {Nobody}]
  /\ always \subseteq Endpoints
  /\ deaths \in 0 .. MaxDeaths /\ acts \in 0 .. MaxActs

Holds(w, d) == run[w].pc \in Holding /\ run[w].at = d

Leased == INSTANCE LeasedDelivery WITH
  Items  <- Deliveries,
  answer <- [d \in Deliveries |-> delivery[d].status],
  holder <- [d \in Deliveries |-> IF \E w \in Workers : Holds(w, d)
                                  THEN CHOOSE w \in Workers : Holds(w, d) ELSE Nobody]

\* "two instances never send the same delivery", and a delivery is answered
\* once, whoever retries, dies or switches the endpoint off meanwhile.  Holds
\* while MaxSend < Lease.
ImplementsLeased == Leased!Spec

\* fanOut: "each message is fanned out to the matching active endpoints once",
\* whichever runs do it together and wherever one dies: a message that is marked
\* has its row at every endpoint that was active all along.
ActiveEndpointsHear == \A m \in Messages, e \in always :
  queued[m] = "QUEUED" /\ <<m, e>> \in Subscribed => delivery[<<m, e>>].status # "NONE"

\* An event an endpoint was subscribed to is delivered to it or given up in the
\* end, unless the endpoint is switched off.
EventsArrive == \A x \in Subscribed :
  queued[x[1]] = "NEW" ~>
    x[2] \notin always \/ delivery[x].status \in {"SENT", "FAILED"}

\* "One administrator registers an endpoint; another activates it."
SecondAdministrator == \A e \in Active : endpoint[e].createdBy # endpoint[e].approvedBy

\* disable: an endpoint that was switched off stays off until it is approved
\* again.
StaysOff == [][\A e \in Endpoints :
  endpoint[e].status = "DISABLED" => endpoint'[e].status # "ACTIVE"]_vars

\* "An endpoint that keeps failing is switched off": and no other is.
OnlyFailingAreSwitchedOff == [][\A w \in Workers, e \in Endpoints :
  SwitchOff(w) /\ endpoint[e].status # endpoint'[e].status
    => endpoint[e].fails >= DisableAfter]_vars
=============================================================================
