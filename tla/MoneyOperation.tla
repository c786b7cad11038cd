--------------------------- MODULE MoneyOperation ---------------------------
(***************************************************************************)
(* ServicingService.money: a request with an idempotency key is looked up, *)
(* and executed in one database transaction that ends with the insertion   *)
(* of its financial event.  The unique index on (tenant, key) makes a      *)
(* second insertion of a key wait for the first, and fail if that commits. *)
(* The transaction locks the loan's row first, so calls about one loan     *)
(* take turns; calls about two loans interleave.  Clients send a request   *)
(* again when they have no answer; a server may die at any point.          *)
(***************************************************************************)
EXTENDS Integers

CONSTANTS
  Keys, Calls, Requests, None,   \* as in AtMostOnce
  OwedAtFirst                    \* what each loan owes at first

VARIABLES
  events,   \* committed events: the request recorded under each key
  owed,     \* committed balances
  call      \* each call: where it stands, what it carries, what it was told

vars == <<events, owed, call>>

Loans == {r.loan : r \in Requests}

ASSUME MoneyAssumption ==
  /\ None \notin Requests /\ None \notin Keys
  /\ \A r \in Requests : r.amount \in Nat \ {0}
  /\ OwedAtFirst \in [Loans -> Nat]

\* LOOKUP: before the transaction.  BEGIN: waiting for the row.  HANDLER: row
\* locked, event not inserted.  INSERTED: event inserted, not committed.
\* WINNER: rolled back, looking for the event that holds the key.
Steps == {"IDLE", "LOOKUP", "BEGIN", "HANDLER", "INSERTED", "WINNER", "ANSWERED"}
Answers == {"PENDING", "EXECUTED", "CONFLICT", "FAILED"}

LocksNothing(c, l) == FALSE

\* A call's transaction holds the row of loan l.
Locks(c, l) == /\ call[c].pc \in {"HANDLER", "INSERTED"}
               /\ call[c].req.loan = l

At(c, pc) == call[c].pc = pc
GoTo(c, pc) == call' = [call EXCEPT ![c].pc = pc]
Answer(c, a) == call' = [call EXCEPT ![c].pc = "ANSWERED", ![c].answer = a]

\* A client sends a request, for the first time or again.
Send(c, k, r) ==
  /\ At(c, "IDLE")
  /\ call' = [call EXCEPT ![c].pc = "LOOKUP", ![c].key = k, ![c].req = r]
  /\ UNCHANGED <<events, owed>>

ReplayAny(c) == Answer(c, "EXECUTED")

\* What a found event means to the call: the hash covers the whole request.
Replay(c) == Answer(c, IF events[call[c].key] = call[c].req
                       THEN "EXECUTED" ELSE "CONFLICT")

Lookup(c) ==
  /\ At(c, "LOOKUP")
  /\ IF events[call[c].key] = None THEN GoTo(c, "BEGIN") ELSE Replay(c)
  /\ UNCHANGED <<events, owed>>

\* loadLoanState: SELECT ... FOR UPDATE.
Lock(c) ==
  /\ At(c, "BEGIN")
  /\ \A d \in Calls : ~Locks(d, call[c].req.loan)
  /\ GoTo(c, "HANDLER")
  /\ UNCHANGED <<events, owed>>

\* The handler refuses what the loan does not owe.
Refuse(c) ==
  /\ At(c, "HANDLER")
  /\ call[c].req.amount > owed[call[c].req.loan]
  /\ Answer(c, "FAILED")
  /\ UNCHANGED <<events, owed>>

WaitsForEver(c) == \E d \in Calls \ {c} :
  call[d].pc \in {"INSERTED", "ANSWERED"} /\ call[d].key = call[c].key

\* recordEvent: the unique index makes the insertion wait while another
\* transaction holds the key, and fail once that one has committed.
Waits(c) == \E d \in Calls : At(d, "INSERTED") /\ call[d].key = call[c].key

Insert(c) ==
  /\ At(c, "HANDLER")
  /\ call[c].req.amount <= owed[call[c].req.loan]
  /\ ~Waits(c)
  /\ GoTo(c, IF events[call[c].key] = None THEN "INSERTED" ELSE "WINNER")
  /\ UNCHANGED <<events, owed>>

\* The transaction commits; the answer may be lost on its way.
Commit(c) ==
  /\ At(c, "INSERTED")
  /\ LET r == call[c].req
     IN  /\ events' = [events EXCEPT ![call[c].key] = r]
         /\ owed' = [owed EXCEPT ![r.loan] = @ - r.amount]
  /\ \E a \in {"EXECUTED", "FAILED"} : Answer(c, a)

Winner(c) ==
  /\ At(c, "WINNER")
  /\ Replay(c)
  /\ UNCHANGED <<events, owed>>

\* The server dies, or the transaction times out: it is rolled back.
Die(c) ==
  /\ ~At(c, "IDLE") /\ ~At(c, "ANSWERED")
  /\ Answer(c, "FAILED")
  /\ UNCHANGED <<events, owed>>

Init ==
  /\ events = [k \in Keys |-> None]
  /\ owed = OwedAtFirst
  /\ call = [c \in Calls |-> [pc |-> "IDLE", key |-> None, req |-> None,
                              answer |-> "PENDING"]]

Work(c) == Lookup(c) \/ Lock(c) \/ Refuse(c) \/ Insert(c) \/ Commit(c) \/ Winner(c)

Next == \E c \in Calls :
  \/ \E k \in Keys, r \in Requests : Send(c, k, r)
  \/ Work(c)
  \/ Die(c)

Spec == Init /\ [][Next]_vars

\* A live server carries every call it took to its answer.
FairSpec == Spec /\ \A c \in Calls : WF_vars(Work(c))
-----------------------------------------------------------------------------
(* Properties. *)

\* Every event is a request, no loan owes less than nothing, and every call
\* stands at a step of money.
TypeOK ==
  /\ events \in [Keys -> Requests \cup {None}]
  /\ owed \in [Loans -> Nat]
  /\ call \in [Calls -> [pc : Steps, key : Keys \cup {None},
                         req : Requests \cup {None}, answer : Answers]]

\* AtMostOnce with the committed events as what was executed.
Promise == INSTANCE AtMostOnce
  WITH executed <- events,
       asked    <- [c \in Calls |-> [key |-> call[c].key, req |-> call[c].req]],
       answer   <- [c \in Calls |-> call[c].answer]

\* money: however calls interleave, are repeated or die, they look like calls
\* of a service that executes the request of a key once.
ImplementsAtMostOnce == Promise!Spec

\* What a transaction checked before it inserted its event still holds when it
\* commits: its key is free, and the loan owes what it pays.
CheckedStillHolds == \A c \in Calls :
  At(c, "INSERTED") => /\ events[call[c].key] = None
                       /\ call[c].req.amount <= owed[call[c].req.loan]

\* Every call is answered: no call waits for ever for a row or for a key.
CallsAreAnswered == \A c \in Calls : At(c, "LOOKUP") ~> At(c, "ANSWERED")

\* money: "an existing event with this key is returned if the payload matches".
\* A call that finds its request already executed is never told it failed.
RepeatIsReplayed ==
  [][\A c \in Calls :
       At(c, "HANDLER") /\ At(c, "ANSWERED")' /\ events[call[c].key] = call[c].req
         => call'[c].answer = "EXECUTED"]_vars
=============================================================================
