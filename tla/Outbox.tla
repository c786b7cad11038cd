------------------------------- MODULE Outbox -------------------------------
(***************************************************************************)
(* Delivery of the transactional outbox (deliverOutbox).  Every API        *)
(* instance starts a run each minute, whether or not its last one is over. *)
(* A run lists the oldest messages that are due, and takes them one by     *)
(* one: it claims the message by moving its due time past a lease, sends   *)
(* it, and writes how that went.  What a run read of a message is as old   *)
(* as its list.                                                            *)
(*                                                                         *)
(* Time passes in ticks; `wait` is how many of them a message has to wait. *)
(* A send and the write after it take at most MaxSend of them, unless the  *)
(* instance dies: whether the lease outlasts that is for the constants.    *)
(***************************************************************************)
EXTENDS Integers, FiniteSetsExt

CONSTANTS
  Messages,     \* numbered in the order they are created
  Workers,      \* runs that may be under way at once, on any instance
  Nobody,
  Lease,        \* LENDING_DELIVERY_LEASE_SECONDS
  MaxSend,      \* the longest an instance takes from claim to answer
  MaxAttempts,  \* LENDING_OUTBOX_MAX_ATTEMPTS
  BatchSize,    \* LENDING_OUTBOX_BATCH_SIZE
  Backoff,      \* the wait after a number of attempts
  MaxDeaths     \* bound: instances that die

VARIABLES
  message,   \* OutboxMessage rows
  run,       \* what each run is doing
  received,  \* history: the messages the receiver has seen
  refused,   \* history: failures written, up to MaxAttempts
  deaths

vars == <<message, run, received, refused, deaths>>

ASSUME OutboxAssumption ==
  /\ Messages \subseteq Nat
  /\ Nobody \notin Workers
  /\ Lease \in Nat \ {0} /\ MaxSend \in Nat
  /\ MaxAttempts \in Nat \ {0} /\ BatchSize \in Nat \ {0}
  /\ Backoff \in [1 .. MaxAttempts -> Nat]
  /\ MaxDeaths \in Nat

Statuses == {"NONE", "PENDING", "SENT", "FAILED"}

\* CLAIM: messages are left.  SEND: one is claimed.  DONE, ERROR: it was sent,
\* or an error was caught, and that is to be written.
Stages == {"IDLE", "CLAIM", "SEND", "DONE", "ERROR"}
Holding == {"SEND", "DONE", "ERROR"}

\* left: messages of the list not dealt with; seen: their attempts when listed;
\* age: ticks since the claim.
Idle == [pc |-> "IDLE", left |-> {}, seen |-> [m \in Messages |-> 0], age |-> 0]

At(w, pc) == run[w].pc = pc
Becomes(w, r) == run' = [run EXCEPT ![w] = r]

\* The message a run is at: lists are in order of creation.
Current(w) == Min(run[w].left)

Due(m) == message[m].status = "PENDING" /\ message[m].wait = 0

\* The run goes on with the messages after m.
After(w, m) ==
  IF run[w].left = {m} THEN Idle
  ELSE [run[w] EXCEPT !.pc = "CLAIM", !.left = @ \ {m}, !.age = 0]

-----------------------------------------------------------------------------
(* The business transaction writes the message. *)
Publish(m) ==
  /\ message[m].status = "NONE"
  /\ \A k \in Messages : k < m => message[k].status # "NONE"
  /\ message' = [message EXCEPT ![m].status = "PENDING"]
  /\ UNCHANGED <<run, received, refused, deaths>>

\* findMany: the oldest due messages, with the attempts they had.
Fetch(w) ==
  /\ At(w, "IDLE")
  /\ LET batch == {m \in Messages :
                     Due(m) /\ Cardinality({k \in Messages : Due(k) /\ k <= m}) <= BatchSize}
     IN  /\ batch # {}
         /\ Becomes(w, [pc |-> "CLAIM", left |-> batch, age |-> 0,
                        seen |-> [m \in Messages |->
                                    IF m \in batch THEN message[m].attempts ELSE 0]])
  /\ UNCHANGED <<message, received, refused, deaths>>

ClaimableLater(m) == message[m].status = "PENDING"
Claimable(m) == Due(m)

\* A claim that is a status of its own, which nobody takes back from the dead.
ClaimAsSending(w) ==
  /\ At(w, "CLAIM") /\ Claimable(Current(w))
  /\ message' = [message EXCEPT ![Current(w)].status = "SENDING"]
  /\ Becomes(w, [run[w] EXCEPT !.pc = "SEND", !.age = 0])
  /\ UNCHANGED <<received, refused, deaths>>

\* updateMany ... availableAt: now + lease, where it is pending and due.
Claim(w) ==
  /\ At(w, "CLAIM") /\ Claimable(Current(w))
  /\ message' = [message EXCEPT ![Current(w)].wait = Lease]
  /\ Becomes(w, [run[w] EXCEPT !.pc = "SEND", !.age = 0])
  /\ UNCHANGED <<received, refused, deaths>>

\* Another run has it, or has answered it.
Skip(w) ==
  /\ At(w, "CLAIM") /\ ~Claimable(Current(w))
  /\ Becomes(w, After(w, Current(w)))
  /\ UNCHANGED <<message, received, refused, deaths>>

SendSucceeds(w) ==
  /\ At(w, "SEND")
  /\ received' = received \cup {Current(w)}
  /\ Becomes(w, [run[w] EXCEPT !.pc = "DONE"])
  /\ UNCHANGED <<message, refused, deaths>>

\* The adapter throws: the message may have come through all the same.
SendFails(w) ==
  /\ At(w, "SEND")
  /\ \/ UNCHANGED received
     \/ received' = received \cup {Current(w)}
  /\ Becomes(w, [run[w] EXCEPT !.pc = "ERROR"])
  /\ UNCHANGED <<message, refused, deaths>>

WriteSent(w) ==
  /\ At(w, "DONE")
  /\ message' = [message EXCEPT ![Current(w)].status = "SENT",
                                ![Current(w)].attempts = @ + 1]
  /\ Becomes(w, After(w, Current(w)))
  /\ UNCHANGED <<received, refused, deaths>>

\* The update throws inside the try block: the catch writes a failure instead.
WriteSentFails(w) ==
  /\ At(w, "DONE")
  /\ deaths < MaxDeaths /\ deaths' = deaths + 1
  /\ Becomes(w, [run[w] EXCEPT !.pc = "ERROR"])
  /\ UNCHANGED <<message, received, refused>>

\* The row once a failure is written: attempts counted from those listed.
GivenUpEarly(n) == n + 1 >= MaxAttempts
GivenUp(n) == n >= MaxAttempts

WriteFailure(w) ==
  /\ At(w, "ERROR")
  /\ LET m == Current(w)
         attempts == run[w].seen[m] + 1
     IN  /\ message' = [message EXCEPT ![m] =
              [status   |-> IF GivenUp(attempts) THEN "FAILED" ELSE "PENDING",
               attempts |-> attempts,
               wait     |-> Backoff[attempts]]]
         /\ refused' = [refused EXCEPT ![m] = IF @ < MaxAttempts THEN @ + 1 ELSE @]
         /\ Becomes(w, After(w, m))
  /\ UNCHANGED <<received, deaths>>

\* The instance dies, or the error handler throws and the run ends.
Die(w) ==
  /\ ~At(w, "IDLE")
  /\ deaths < MaxDeaths /\ deaths' = deaths + 1
  /\ Becomes(w, Idle)
  /\ UNCHANGED <<message, received, refused>>

Tick ==
  /\ \A w \in Workers : run[w].pc \in Holding => run[w].age < MaxSend
  /\ message' = [m \in Messages |->
       [message[m] EXCEPT !.wait = IF @ > 0 THEN @ - 1 ELSE 0]]
  /\ run' = [w \in Workers |->
       IF run[w].pc \in Holding THEN [run[w] EXCEPT !.age = @ + 1] ELSE run[w]]
  /\ UNCHANGED <<received, refused, deaths>>

Init ==
  /\ message = [m \in Messages |-> [status |-> "NONE", attempts |-> 0, wait |-> 0]]
  /\ run = [w \in Workers |-> Idle]
  /\ received = {}
  /\ refused = [m \in Messages |-> 0]
  /\ deaths = 0

\* The steps of a run that is alive.
Works(w) ==
  \/ Fetch(w) \/ Claim(w) \/ Skip(w)
  \/ SendSucceeds(w) \/ SendFails(w)
  \/ WriteSent(w) \/ WriteFailure(w)

Next ==
  \/ \E m \in Messages : Publish(m)
  \/ \E w \in Workers : Works(w) \/ WriteSentFails(w) \/ Die(w)
  \/ Tick

Spec == Init /\ [][Next]_vars

\* Time passes, each instance starts its run every minute, and one that is
\* alive goes on.
FairSpec == Spec /\ WF_vars(Tick) /\ \A w \in Workers : WF_vars(Works(w))
-----------------------------------------------------------------------------
(* Properties. *)

TypeOK ==
  /\ message \in [Messages -> [status : Statuses, attempts : 0 .. MaxAttempts, wait : Nat]]
  /\ run \in [Workers -> [pc : Stages, left : SUBSET Messages,
                          seen : [Messages -> 0 .. MaxAttempts - 1], age : 0 .. MaxSend]]
  /\ received \subseteq Messages
  /\ refused \in [Messages -> 0 .. MaxAttempts]
  /\ deaths \in 0 .. MaxDeaths

Holds(w, m) == run[w].pc \in Holding /\ Current(w) = m

Holder(m) == IF \E w \in Workers : Holds(w, m)
             THEN CHOOSE w \in Workers : Holds(w, m) ELSE Nobody

Leased == INSTANCE LeasedDelivery WITH
  Items  <- Messages,
  answer <- [m \in Messages |-> message[m].status],
  holder <- [m \in Messages |-> Holder(m)]

\* What keeps two instances from sending one message.
LeaseOutlastsSend == MaxSend < Lease

\* deliverOutbox: "no two instances send the same message", and one that was
\* sent is never pending again.  Holds where LeaseOutlastsSend.
ImplementsLeased == Leased!Spec

\* However stale the attempts a run read, however often messages were claimed
\* again and instances died, none is given up before MaxAttempts failures.
GivenUpAfterTries == \A m \in Messages :
  message[m].status = "FAILED" => refused[m] = MaxAttempts

\* A message marked as sent has come through: it is sent at least once.
SentIsReceived == \A m \in Messages : message[m].status = "SENT" => m \in received

\* What the row of a message says is true.
AnswersAreTrue == TypeOK /\ GivenUpAfterTries /\ SentIsReceived

\* A message written with its business change is sent or given up in the end,
\* also where runs that list it together write over each other's count.
Answered == \A m \in Messages :
  message[m].status = "PENDING" ~> message[m].status \in {"SENT", "FAILED"}

\* attempts: the failures of a message are counted.
FailuresAreCounted == \A m \in Messages :
  message[m].status = "PENDING" => message[m].attempts = refused[m]
=============================================================================
