--------------------------- MODULE LeasedDelivery ---------------------------
(***************************************************************************)
(* What claiming with a lease promises of work that several API instances  *)
(* share (D-072): an item is in one pair of hands at a time, and it is     *)
(* answered once.  An instance that dies lets go of what it holds, and     *)
(* somebody takes the item again: it is tried at least once, not exactly.  *)
(***************************************************************************)
CONSTANTS Items, Workers, Nobody   \* Nobody \notin Workers

VARIABLES
  answer,   \* "NONE" while the item does not exist, then "PENDING" to the end
  holder    \* the run that is working on the item

Answers == {"SENT", "FAILED"}

Init == answer = [i \in Items |-> "NONE"] /\ holder = [i \in Items |-> Nobody]

\* Items come singly or, where one event goes to many, together.
Create(new) ==
  /\ \A i \in new : answer[i] = "NONE"
  /\ answer' = [i \in Items |-> IF i \in new THEN "PENDING" ELSE answer[i]]
  /\ UNCHANGED holder

Take(i, w) ==
  /\ answer[i] = "PENDING" /\ holder[i] = Nobody
  /\ holder' = [holder EXCEPT ![i] = w]
  /\ UNCHANGED answer

\* The try came to nothing, or its worker died.
LetGo(i) ==
  /\ holder[i] # Nobody
  /\ holder' = [holder EXCEPT ![i] = Nobody]
  /\ UNCHANGED answer

Finish(i) ==
  /\ answer[i] = "PENDING" /\ holder[i] # Nobody
  /\ \E a \in Answers : answer' = [answer EXCEPT ![i] = a]
  /\ holder' = [holder EXCEPT ![i] = Nobody]

\* Somebody asks for a failed item again.
Reopen(i) ==
  /\ answer[i] = "FAILED" /\ holder[i] = Nobody
  /\ answer' = [answer EXCEPT ![i] = "PENDING"]
  /\ UNCHANGED holder

Next ==
  \/ \E new \in SUBSET Items : Create(new)
  \/ \E i \in Items : LetGo(i) \/ Finish(i) \/ Reopen(i)
  \/ \E i \in Items, w \in Workers : Take(i, w)

Spec == Init /\ [][Next]_<<answer, holder>>
=============================================================================
