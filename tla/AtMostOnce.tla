----------------------------- MODULE AtMostOnce -----------------------------
(***************************************************************************)
(* What ServicingService.money promises of requests that carry an          *)
(* idempotency key: a key stands for one request for ever, that request is *)
(* executed at most once, and no caller is told otherwise.                 *)
(***************************************************************************)
EXTENDS Integers

CONSTANTS
  Keys, Calls,
  Requests,   \* each takes an amount off what a loan owes
  None,
  OwedAtFirst \* what each loan owes at first

VARIABLES
  executed,   \* the request each key stands for, once executed
  owed,       \* what each loan owes
  asked,      \* the key and the request each call carries
  answer      \* what each call was told

vars == <<executed, owed, asked, answer>>

Loans == {r.loan : r \in Requests}

Ask(c, k, r) ==
  /\ asked[c] = [key |-> None, req |-> None]
  /\ asked' = [asked EXCEPT ![c] = [key |-> k, req |-> r]]
  /\ UNCHANGED <<executed, owed, answer>>

\* EXECUTED: this key's request is on the books.  CONFLICT: the key is another
\* request's.  FAILED: nothing is said of the books.
Tell(c, a) ==
  /\ answer[c] = "PENDING"
  /\ answer' = [answer EXCEPT ![c] = a]

\* A call that executes its request is told so, unless the answer is lost.
Execute(c) ==
  LET k == asked[c].key
      r == asked[c].req
  IN  /\ r \in Requests
      /\ executed[k] = None
      /\ r.amount <= owed[r.loan]
      /\ executed' = [executed EXCEPT ![k] = r]
      /\ owed' = [owed EXCEPT ![r.loan] = @ - r.amount]
      /\ \E a \in {"EXECUTED", "FAILED"} : Tell(c, a)
      /\ UNCHANGED asked

Inform(c) ==
  LET k == asked[c].key
      r == asked[c].req
  IN  /\ r \in Requests
      /\ \/ executed[k] = r /\ Tell(c, "EXECUTED")
         \/ executed[k] \notin {None, r} /\ Tell(c, "CONFLICT")
         \/ Tell(c, "FAILED")
      /\ UNCHANGED <<executed, owed, asked>>

Init ==
  /\ executed = [k \in Keys |-> None]
  /\ owed = OwedAtFirst
  /\ asked = [c \in Calls |-> [key |-> None, req |-> None]]
  /\ answer = [c \in Calls |-> "PENDING"]

Next == \E c \in Calls :
  \/ \E k \in Keys, r \in Requests : Ask(c, k, r)
  \/ Execute(c)
  \/ Inform(c)

Spec == Init /\ [][Next]_vars
=============================================================================
