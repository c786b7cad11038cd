--------------------------- MODULE DeliveryProofs ---------------------------
(***************************************************************************)
(* For any messages, endpoints, runs and bounds: what an outbox row says   *)
(* is true, every active endpoint hears of every event, and both queues    *)
(* implement LeasedDelivery where the lease outlasts a send.  That rests   *)
(* on the lease: who works on a message has moved its due time ahead, and  *)
(* it is not due again before that run is done with it, so nobody else     *)
(* claims it or writes its row.                                            *)
(***************************************************************************)
EXTENDS MCDelivery, TLAPS, FiniteSetTheorems, WellFoundedInduction

Rows == [status : Statuses, attempts : 0 .. MaxAttempts, wait : Nat]
Runs == [pc : Stages, left : SUBSET Messages,
         seen : [Messages -> 0 .. MaxAttempts - 1], age : 0 .. MaxSend]

\* A run that is not idle has messages left.
HasWork == \A w \in Workers : ~At(w, "IDLE") => run[w].left # {}

\* A message somebody works on is pending, and due when its lease ends.
HasLease == \A w \in Workers, m \in Messages : Holds(w, m) =>
  message[m].status = "PENDING" /\ message[m].wait = Lease - run[w].age

\* Nobody else works on it.
OneHolder == \A v, w \in Workers, m \in Messages : Holds(v, m) /\ Holds(w, m) => v = w

\* Neither the row nor what a run read of it counts more failures than there were.
Counted == \A m \in Messages :
  /\ message[m].status = "NONE" => message[m].attempts = 0
  /\ message[m].status = "PENDING" =>
       message[m].attempts < MaxAttempts /\ message[m].attempts <= refused[m]
  /\ \A w \in Workers : run[w].seen[m] <= refused[m]

\* A run that is about to write that a message was sent has sent it.
Heard == \A w \in Workers : At(w, "DONE") => Current(w) \in received

IInv == /\ LeaseOutlastsSend /\ TypeOK
        /\ HasWork /\ HasLease /\ OneHolder
        /\ Counted /\ GivenUpAfterTries /\ Heard /\ SentIsReceived
-----------------------------------------------------------------------------
(* The message a run is at. *)

\* A set of numbers that is not empty has a least one: the sets of the numbers
\* below each are ordered by inclusion, which is well-founded.
LEMMA MinIsIn ==
  ASSUME NEW S \in SUBSET Nat, S # {}
  PROVE  Min(S) \in S
<1> DEFINE Below(m) == {k \in S : k < m}
           T == {Below(m) : m \in S}
<1>0. \A k \in S : k \in Nat OBVIOUS
<1>1. ASSUME NEW m \in S PROVE Below(m) \in FiniteSubsetsOf(Nat)
  <2>1. m \in Nat BY <1>0
  <2>2. Below(m) \in SUBSET Nat BY <1>0
  <2>3. \A k \in Below(m) : k <= m BY <1>0, <2>1
  <2>4. IsFiniteSet(Below(m)) BY <2>1, <2>2, <2>3, FS_BoundedSetOfNaturals
  <2> QED BY <2>2, <2>4 DEF FiniteSubsetsOf
<1>2. T \subseteq FiniteSubsetsOf(Nat) /\ T # {} BY <1>1
<1> HIDE DEF T
<1>3. PICK U \in T : \A V \in T : <<V, U>> \notin StrictSubsetOrdering(Nat)
  BY <1>2, FS_StrictSubsetOrderingWellFounded, WFMin, Zenon
<1>4. PICK m \in S : U = Below(m) BY <1>3 DEF T
<1>5. ASSUME NEW k \in S PROVE m <= k
  <2> SUFFICES ASSUME k < m PROVE FALSE BY <1>0
  <2>1. \A j \in S : j < k => j < m BY <1>0
  <2>2. Below(k) \subseteq Below(m) BY <2>1
  <2>3. k \in Below(m) /\ k \notin Below(k) BY <1>0
  <2>4. Below(k) \in T /\ Below(k) # Below(m) BY <2>3 DEF T
  <2>5. Below(k) \in SUBSET Nat /\ Below(m) \in SUBSET Nat BY <1>0
  <2> HIDE DEF Below
  <2>6. <<Below(k), Below(m)>> \in StrictSubsetOrdering(Nat)
    BY <2>2, <2>4, <2>5 DEF StrictSubsetOrdering
  <2> QED BY <1>3, <1>4, <2>4, <2>6
<1> QED BY <1>5 DEF Min

\* A run under way is at a message of its list.
LEMMA CurrentIsLeft ==
  ASSUME TypeOK, HasWork, NEW w \in Workers, ~At(w, "IDLE")
  PROVE  Current(w) \in run[w].left /\ Current(w) \in Messages
<1>1. run[w].left \in SUBSET Messages /\ run[w].left # {}
  BY DEF TypeOK, HasWork
<1>2. Min(run[w].left) \in run[w].left
  BY <1>1, MinIsIn, OutboxAssumption DEF OutboxAssumption
<1> QED BY <1>1, <1>2 DEF Current

\* Only run w moves: the others hold what they held.
LEMMA OneRunMoves ==
  ASSUME TypeOK, NEW w \in Workers, NEW r \in Runs, Becomes(w, r)
  PROVE  /\ run' \in [Workers -> Runs]
         /\ run'[w] = r
         /\ \A v \in Workers \ {w} :
              /\ run'[v] = run[v]
              /\ Current(v)' = Current(v)
              /\ \A m \in Messages : Holds(v, m)' <=> Holds(v, m)
<1>1. run \in [Workers -> Runs] BY DEF TypeOK, Runs
<1>2. /\ run' \in [Workers -> Runs]
      /\ run'[w] = r
      /\ \A v \in Workers \ {w} : run'[v] = run[v]
  BY <1>1 DEF Becomes
<1>3. ASSUME NEW v \in Workers \ {w} PROVE Current(v)' = Current(v)
  BY <1>2 DEF Current
<1>4. ASSUME NEW v \in Workers \ {w}, NEW m \in Messages
      PROVE  Holds(v, m)' <=> Holds(v, m)
  BY <1>2, <1>3 DEF Holds
<1> QED BY <1>2, <1>3, <1>4

\* Going on with the messages that are left, or with nothing.
LEMMA AfterIsRun ==
  ASSUME TypeOK, NEW w \in Workers, NEW m \in run[w].left
  PROVE  /\ After(w, m) \in Runs
         /\ After(w, m).pc \in {"IDLE", "CLAIM"}
         /\ After(w, m).pc # "IDLE" => After(w, m).left # {}
         /\ \A k \in Messages : After(w, m).seen[k] \in {0, run[w].seen[k]}
<1>1. run[w] \in Runs BY DEF TypeOK, Runs
<1>2. Idle \in Runs BY OutboxAssumption DEF OutboxAssumption, Idle, Runs, Stages
<1>3. CASE run[w].left = {m} BY <1>2, <1>3 DEF After, Idle
<1>4. CASE run[w].left # {m}
  <2> DEFINE r == [run[w] EXCEPT !.pc = "CLAIM", !.left = @ \ {m}, !.age = 0]
  <2>1. After(w, m) = r BY <1>4 DEF After
  <2>2. 0 \in 0 .. MaxSend BY OutboxAssumption DEF OutboxAssumption
  <2>3. r \in Runs BY <1>1, <2>2 DEF Runs, Stages
  <2>4. r.pc = "CLAIM" /\ r.left = run[w].left \ {m} /\ r.seen = run[w].seen
    BY <1>1 DEF Runs
  <2>5. run[w].left \ {m} # {} BY <1>4
  <2> HIDE DEF r
  <2> QED BY <2>1, <2>3, <2>4, <2>5
<1> QED BY <1>3, <1>4
-----------------------------------------------------------------------------
(* The invariant. *)

\* No message exists, and nobody is at work.
LEMMA InitInvariant == LeaseOutlastsSend /\ Init => IInv
<1> SUFFICES ASSUME LeaseOutlastsSend, Init PROVE IInv OBVIOUS
<1> USE OutboxAssumption DEF OutboxAssumption, Init
<1>1. TypeOK
  <2>1. Idle \in Runs BY DEF Idle, Runs, Stages
  <2>2. 0 \in 0 .. MaxAttempts /\ 0 \in 0 .. MaxDeaths OBVIOUS
  <2> QED BY <2>1, <2>2 DEF TypeOK, Runs, Statuses
<1>2. \A w \in Workers : run[w].pc = "IDLE" /\ run[w].seen = [m \in Messages |-> 0]
  BY DEF Idle
<1>3. HasWork /\ HasLease /\ OneHolder /\ Heard
  BY <1>2 DEF HasWork, HasLease, OneHolder, Heard, Holds, Holding, At
<1>4. Counted BY <1>2 DEF Counted
<1>5. GivenUpAfterTries /\ SentIsReceived
  BY DEF GivenUpAfterTries, SentIsReceived
<1> QED BY <1>1, <1>3, <1>4, <1>5 DEF IInv

\* A run that ends up holding nothing, and writes nothing, disturbs nothing.
LEMMA QuietStep ==
  ASSUME IInv, NEW w \in Workers, NEW r \in Runs, Becomes(w, r),
         r.pc \in {"IDLE", "CLAIM"}, r.pc # "IDLE" => r.left # {},
         \A m \in Messages : r.seen[m] <= refused[m],
         UNCHANGED <<message, received, refused>>, deaths' \in 0 .. MaxDeaths
  PROVE  IInv'
<1> USE DEF IInv
<1>1. /\ run' \in [Workers -> Runs]
      /\ run'[w] = r
      /\ \A v \in Workers \ {w} :
           /\ run'[v] = run[v]
           /\ Current(v)' = Current(v)
           /\ \A m \in Messages : Holds(v, m)' <=> Holds(v, m)
  BY OneRunMoves
<1>2. TypeOK' BY <1>1 DEF TypeOK, Runs
<1>3. \A m \in Messages : ~Holds(w, m)' BY <1>1 DEF Holds, Holding
<1>4. HasWork' BY <1>1 DEF HasWork, At
<1>5. HasLease'
  <2> SUFFICES ASSUME NEW v \in Workers, NEW m \in Messages, Holds(v, m)'
               PROVE  message'[m].status = "PENDING" /\ message'[m].wait = Lease - run'[v].age
    BY DEF HasLease
  <2>1. v # w /\ Holds(v, m) /\ run'[v] = run[v] BY <1>1, <1>3
  <2> QED BY <2>1 DEF HasLease
<1>6. OneHolder' BY <1>1, <1>3 DEF OneHolder
<1>7. Counted' BY <1>1 DEF Counted
<1>8. Heard' BY <1>1 DEF Heard, At
<1>9. GivenUpAfterTries' /\ SentIsReceived' BY DEF GivenUpAfterTries, SentIsReceived
<1> QED BY <1>2, <1>4, <1>5, <1>6, <1>7, <1>8, <1>9

\* A run that goes on with the message it holds still has its lease.
LEMMA HoldingStep ==
  ASSUME IInv, NEW w \in Workers, run[w].pc \in Holding, NEW p \in Holding,
         Becomes(w, [run[w] EXCEPT !.pc = p]),
         UNCHANGED <<message, refused>>, deaths' \in 0 .. MaxDeaths,
         received' \in SUBSET Messages, received \subseteq received',
         p = "DONE" => Current(w) \in received'
  PROVE  IInv'
<1> USE DEF IInv
<1> DEFINE r == [run[w] EXCEPT !.pc = p]
<1>0. /\ r \in Runs /\ r.pc = p
      /\ r.left = run[w].left /\ r.seen = run[w].seen /\ r.age = run[w].age
  BY DEF TypeOK, Runs, Holding, Stages
<1> HIDE DEF r
<1>1. /\ run' \in [Workers -> Runs]
      /\ run'[w] = r
      /\ \A v \in Workers \ {w} :
           /\ run'[v] = run[v]
           /\ Current(v)' = Current(v)
           /\ \A m \in Messages : Holds(v, m)' <=> Holds(v, m)
  BY <1>0, OneRunMoves DEF r
<1>2. TypeOK' BY <1>1 DEF TypeOK, Runs
<1>3. Current(w)' = Current(w) BY <1>0, <1>1 DEF Current
<1>4. \A v \in Workers, m \in Messages : Holds(v, m)' <=> Holds(v, m)
  BY <1>0, <1>1, <1>3 DEF Holds
<1>5. \A v \in Workers : run'[v].age = run[v].age /\ run'[v].seen = run[v].seen
  BY <1>0, <1>1
<1>6. HasWork' BY <1>0, <1>1 DEF HasWork, At, Holding
<1>7. HasLease' BY <1>4, <1>5 DEF HasLease
<1>8. OneHolder' BY <1>4 DEF OneHolder
<1>9. Counted' BY <1>5 DEF Counted
<1>10. Heard' BY <1>0, <1>1, <1>3 DEF Heard, At
<1>11. GivenUpAfterTries' /\ SentIsReceived' BY DEF GivenUpAfterTries, SentIsReceived
<1> QED BY <1>2, <1>6, <1>7, <1>8, <1>9, <1>10, <1>11

\* A run that writes how its message fared lets go of it: nobody else holds
\* the message, so no other run's lease is written over.
LEMMA AnswerStep ==
  ASSUME IInv, NEW w \in Workers, run[w].pc \in Holding,
         NEW row \in Rows,
         message' = [message EXCEPT ![Current(w)] = row],
         Becomes(w, After(w, Current(w))),
         refused' \in [Messages -> 0 .. MaxAttempts],
         \A m \in Messages : refused[m] <= refused'[m],
         \A m \in Messages \ {Current(w)} : refused'[m] = refused[m],
         row.status # "NONE",
         row.status = "PENDING" =>
           row.attempts < MaxAttempts /\ row.attempts <= refused'[Current(w)],
         row.status = "FAILED" => refused'[Current(w)] = MaxAttempts,
         row.status = "SENT" => Current(w) \in received,
         UNCHANGED <<received, deaths>>
  PROVE  IInv'
<1> USE DEF IInv
<1> DEFINE m == Current(w)
           r == After(w, m)
<1>0. m \in Messages /\ m \in run[w].left /\ Holds(w, m)
  BY CurrentIsLeft DEF At, Holding, Holds
<1>1. /\ r \in Runs /\ r.pc \in {"IDLE", "CLAIM"}
      /\ r.pc # "IDLE" => r.left # {}
      /\ \A k \in Messages : r.seen[k] \in {0, run[w].seen[k]}
  BY <1>0, AfterIsRun
<1> HIDE DEF m, r
<1>2. /\ run' \in [Workers -> Runs]
      /\ run'[w] = r
      /\ \A v \in Workers \ {w} :
           /\ run'[v] = run[v]
           /\ Current(v)' = Current(v)
           /\ \A k \in Messages : Holds(v, k)' <=> Holds(v, k)
  BY <1>1, OneRunMoves DEF m, r
<1>3. \A k \in Messages : message'[k] = IF k = m THEN row ELSE message[k]
  BY DEF TypeOK, m
<1>4. TypeOK'
  <2>1. message' \in [Messages -> Rows] BY DEF TypeOK, Rows
  <2> QED BY <1>2, <2>1 DEF TypeOK, Runs, Rows
<1>5. \A k \in Messages : ~Holds(w, k)' BY <1>1, <1>2 DEF Holds, Holding
<1>6. \A v \in Workers \ {w}, k \in Messages : Holds(v, k) => k # m
  BY <1>0 DEF OneHolder
<1>7. HasWork' BY <1>1, <1>2 DEF HasWork, At
<1>8. HasLease'
  <2> SUFFICES ASSUME NEW v \in Workers, NEW k \in Messages, Holds(v, k)'
               PROVE  message'[k].status = "PENDING" /\ message'[k].wait = Lease - run'[v].age
    BY DEF HasLease
  <2>1. v # w /\ Holds(v, k) /\ run'[v] = run[v] BY <1>2, <1>5
  <2>2. k # m BY <1>6, <2>1
  <2> QED BY <1>3, <2>1, <2>2 DEF HasLease
<1>9. OneHolder' BY <1>2, <1>5 DEF OneHolder
<1>10. Counted'
  <2> SUFFICES ASSUME NEW k \in Messages
               PROVE  /\ message'[k].status = "NONE" => message'[k].attempts = 0
                      /\ message'[k].status = "PENDING" =>
                           message'[k].attempts < MaxAttempts /\ message'[k].attempts <= refused'[k]
                      /\ \A v \in Workers : run'[v].seen[k] <= refused'[k]
    BY DEF Counted
  <2>1. ASSUME NEW v \in Workers PROVE run'[v].seen[k] <= refused'[k]
    <3>1. run'[v].seen[k] \in {0, run[v].seen[k]} BY <1>1, <1>2
    <3>2. run[v].seen[k] <= refused[k] BY DEF Counted
    <3>3. refused[k] \in 0 .. MaxAttempts /\ refused'[k] \in 0 .. MaxAttempts
      BY DEF TypeOK
    <3>4. run[v].seen[k] \in 0 .. MaxAttempts - 1 BY DEF TypeOK
    <3>5. refused[k] <= refused'[k] OBVIOUS
    <3> QED BY <3>1, <3>2, <3>3, <3>4, <3>5
  <2>2. CASE k = m BY <1>3, <2>1, <2>2 DEF m
  <2>3. CASE k # m BY <1>3, <2>1, <2>3 DEF Counted, m
  <2> QED BY <2>2, <2>3
<1>11. Heard' BY <1>1, <1>2 DEF Heard, At
<1>12. GivenUpAfterTries' /\ SentIsReceived'
  BY <1>3 DEF GivenUpAfterTries, SentIsReceived, m
<1> QED BY <1>4, <1>7, <1>8, <1>9, <1>10, <1>11, <1>12

\* A message that is due is held by nobody: the claim takes it alone.
LEMMA ClaimInvariant ==
  ASSUME IInv, NEW w \in Workers, Claim(w)
  PROVE  IInv'
<1> USE DEF IInv
<1> DEFINE m == Current(w)
           r == [run[w] EXCEPT !.pc = "SEND", !.age = 0]
           row == [message[m] EXCEPT !.wait = Lease]
<1>0. m \in Messages BY CurrentIsLeft DEF Claim, At
<1>1. /\ r \in Runs /\ r.pc = "SEND" /\ r.age = 0
      /\ r.left = run[w].left /\ r.seen = run[w].seen
  <2>1. run[w] \in Runs BY DEF TypeOK, Runs
  <2>2. 0 \in 0 .. MaxSend BY OutboxAssumption DEF OutboxAssumption
  <2> QED BY <2>1, <2>2 DEF Runs, Stages
<1>2. /\ row \in Rows /\ row.wait = Lease
      /\ row.status = "PENDING" /\ row.attempts = message[m].attempts
      /\ message[m].status = "PENDING" /\ message[m].wait = 0
  <2>1. message[m] \in Rows BY <1>0 DEF TypeOK, Rows
  <2>2. Lease \in Nat BY OutboxAssumption DEF OutboxAssumption
  <2>3. message[m].status = "PENDING" /\ message[m].wait = 0
    BY DEF Claim, Claimable, Due
  <2> QED BY <2>1, <2>2, <2>3 DEF Rows
<1>3. \A k \in Messages : message'[k] = IF k = m THEN row ELSE message[k]
  BY DEF Claim, TypeOK
<1>4. TypeOK' /\ message' \in [Messages -> Rows]
  <2>1. message' \in [Messages -> Rows] BY <1>2 DEF TypeOK, Rows, Claim
  <2>2. run' \in [Workers -> Runs] BY <1>1, OneRunMoves DEF Claim
  <2> QED BY <2>1, <2>2 DEF TypeOK, Runs, Rows, Claim
<1> HIDE DEF r, row
<1>5. /\ run'[w] = r
      /\ \A v \in Workers \ {w} :
           /\ run'[v] = run[v]
           /\ Current(v)' = Current(v)
           /\ \A k \in Messages : Holds(v, k)' <=> Holds(v, k)
  BY <1>1, OneRunMoves DEF Claim, r
<1>6. Current(w)' = m BY <1>1, <1>5 DEF Current
<1>7. \A k \in Messages : Holds(w, k)' <=> k = m
  BY <1>1, <1>5, <1>6 DEF Holds, Holding
<1>8. \A v \in Workers : ~Holds(v, m)
  <2> SUFFICES ASSUME NEW v \in Workers, Holds(v, m) PROVE FALSE OBVIOUS
  <2>1. Lease - run[v].age = 0 BY <1>0, <1>2 DEF HasLease
  <2>2. run[v].age \in 0 .. MaxSend BY DEF TypeOK
  <2> QED BY <2>1, <2>2, OutboxAssumption DEF OutboxAssumption, LeaseOutlastsSend
<1>9. HasWork' BY <1>1, <1>5 DEF HasWork, At, Claim
<1>10. HasLease'
  <2> SUFFICES ASSUME NEW v \in Workers, NEW k \in Messages, Holds(v, k)'
               PROVE  message'[k].status = "PENDING" /\ message'[k].wait = Lease - run'[v].age
    BY DEF HasLease
  <2>1. CASE v = w
    <3>1. k = m BY <1>7, <2>1
    <3>2. message'[k].wait = Lease /\ run'[v].age = 0 BY <1>1, <1>2, <1>3, <1>5, <2>1, <3>1
    <3> QED BY <1>2, <1>3, <3>1, <3>2, OutboxAssumption DEF OutboxAssumption
  <2>2. CASE v # w
    <3>1. Holds(v, k) /\ run'[v] = run[v] BY <1>5, <2>2
    <3>2. k # m BY <1>8, <3>1
    <3> QED BY <1>3, <3>1, <3>2 DEF HasLease
  <2> QED BY <2>1, <2>2
<1>11. OneHolder' BY <1>5, <1>7, <1>8 DEF OneHolder
<1>12. Counted'
  <2>1. \A v \in Workers : run'[v].seen = run[v].seen BY <1>1, <1>5
  <2>2. refused' = refused BY DEF Claim
  <2> QED BY <1>2, <1>3, <2>1, <2>2 DEF Counted
<1>13. Heard' BY <1>1, <1>5 DEF Heard, At, Claim
<1>14. GivenUpAfterTries' /\ SentIsReceived'
  BY <1>2, <1>3 DEF GivenUpAfterTries, SentIsReceived, Claim
<1> QED BY <1>4, <1>9, <1>10, <1>11, <1>12, <1>13, <1>14

\* A new message waits for nobody.
LEMMA PublishInvariant ==
  ASSUME IInv, NEW m \in Messages, Publish(m)
  PROVE  IInv'
<1> USE DEF IInv
<1>1. \A k \in Messages :
        message'[k] = IF k = m THEN [message[m] EXCEPT !.status = "PENDING"] ELSE message[k]
  BY DEF Publish, TypeOK
<1>2. message[m] \in Rows BY DEF TypeOK, Rows
<1>3. /\ message'[m] \in Rows /\ message[m].status = "NONE"
      /\ message'[m].status = "PENDING" /\ message'[m].attempts = message[m].attempts
  BY <1>1, <1>2 DEF Publish, Rows, Statuses
<1>4. TypeOK'
  <2>1. message' \in [Messages -> Rows] BY <1>3 DEF Publish, TypeOK, Rows
  <2> QED BY <2>1 DEF Publish, TypeOK, Rows
<1>5. \A v \in Workers : ~Holds(v, m) BY <1>3 DEF HasLease
<1>6. UNCHANGED <<run, received, refused>> BY DEF Publish
<1>7. \A v \in Workers : Current(v)' = Current(v) BY <1>6 DEF Current
<1>8. \A v \in Workers, k \in Messages : Holds(v, k)' <=> Holds(v, k)
  BY <1>6, <1>7 DEF Holds
<1>9. HasWork' /\ OneHolder' /\ Heard'
  BY <1>6, <1>7, <1>8 DEF HasWork, OneHolder, Heard, At
<1>10. HasLease' BY <1>1, <1>5, <1>6, <1>8 DEF HasLease
<1>11. Counted'
  <2>1. refused[m] \in Nat BY OutboxAssumption DEF OutboxAssumption, TypeOK
  <2>2. message[m].attempts = 0 BY <1>3 DEF Counted
  <2>3. MaxAttempts > 0 BY OutboxAssumption DEF OutboxAssumption
  <2> QED BY <1>1, <1>3, <1>6, <2>1, <2>2, <2>3 DEF Counted
<1>12. GivenUpAfterTries' /\ SentIsReceived'
  BY <1>1, <1>3, <1>6 DEF GivenUpAfterTries, SentIsReceived
<1> QED BY <1>4, <1>9, <1>10, <1>11, <1>12

\* What runs read of a message when they list it is what its row says.
LEMMA FetchInvariant ==
  ASSUME IInv, NEW w \in Workers, Fetch(w)
  PROVE  IInv'
<1> DEFINE batch == {m \in Messages :
             Due(m) /\ Cardinality({k \in Messages : Due(k) /\ k <= m}) <= BatchSize}
           seen == [m \in Messages |-> IF m \in batch THEN message[m].attempts ELSE 0]
           r == [pc |-> "CLAIM", left |-> batch, age |-> 0, seen |-> seen]
<1>1. /\ Becomes(w, r) /\ batch # {}
      /\ UNCHANGED <<message, received, refused, deaths>>
  BY DEF Fetch
<1>2. \A m \in batch : m \in Messages /\ message[m].status = "PENDING" BY DEF Due
<1> HIDE DEF batch
<1>3. \A m \in Messages : seen[m] \in 0 .. MaxAttempts - 1 /\ seen[m] <= refused[m]
  <2> SUFFICES ASSUME NEW m \in Messages
               PROVE  seen[m] \in 0 .. MaxAttempts - 1 /\ seen[m] <= refused[m]
    OBVIOUS
  <2>1. refused[m] \in Nat /\ MaxAttempts \in Nat \ {0}
    BY OutboxAssumption DEF OutboxAssumption, IInv, TypeOK
  <2>2. message[m].attempts \in 0 .. MaxAttempts BY DEF IInv, TypeOK
  <2>3. CASE m \in batch
    BY <1>2, <2>1, <2>2, <2>3 DEF IInv, Counted
  <2>4. CASE m \notin batch BY <2>1, <2>4
  <2> QED BY <2>3, <2>4
<1>4. r \in Runs
  <2>1. seen \in [Messages -> 0 .. MaxAttempts - 1] BY <1>3
  <2>2. batch \in SUBSET Messages BY <1>2
  <2>3. 0 \in 0 .. MaxSend BY OutboxAssumption DEF OutboxAssumption
  <2> HIDE DEF seen
  <2> QED BY <2>1, <2>2, <2>3 DEF Runs, Stages
<1>5. r.pc = "CLAIM" /\ r.left = batch /\ r.seen = seen OBVIOUS
<1>6. deaths' \in 0 .. MaxDeaths BY <1>1 DEF IInv, TypeOK
<1> HIDE DEF r, seen
<1> QED BY <1>1, <1>3, <1>4, <1>5, <1>6, QuietStep

\* Another run answered or took the message: this one goes on.
LEMMA SkipInvariant ==
  ASSUME IInv, NEW w \in Workers, Skip(w)
  PROVE  IInv'
<1>1. Current(w) \in run[w].left BY CurrentIsLeft DEF IInv, Skip, At
<1>2. \A m \in Messages : run[w].seen[m] \in Nat /\ run[w].seen[m] <= refused[m]
                          /\ refused[m] \in Nat
  BY OutboxAssumption DEF OutboxAssumption, IInv, TypeOK, Counted
<1>3. \A m \in Messages : After(w, Current(w)).seen[m] <= refused[m]
  BY <1>1, <1>2, AfterIsRun DEF IInv
<1> QED BY <1>1, <1>3, AfterIsRun, QuietStep DEF Skip, IInv, TypeOK

\* A run that ends, wherever it was, leaves its message to its lease.
LEMMA DieInvariant ==
  ASSUME IInv, NEW w \in Workers, Die(w)
  PROVE  IInv'
<1>1. /\ Idle \in Runs /\ Idle.pc = "IDLE"
      /\ \A m \in Messages : Idle.seen[m] = 0
  BY OutboxAssumption DEF OutboxAssumption, Idle, Runs, Stages
<1>2. \A m \in Messages : refused[m] \in Nat
  BY OutboxAssumption DEF OutboxAssumption, IInv, TypeOK
<1>3. \A m \in Messages : Idle.seen[m] <= refused[m] BY <1>1, <1>2
<1>4. deaths' \in 0 .. MaxDeaths
  BY OutboxAssumption DEF OutboxAssumption, Die, IInv, TypeOK
<1> QED BY <1>1, <1>3, <1>4, QuietStep DEF Die

\* A send, whatever became of it, and an update that throws: the run goes on
\* with the message it holds.
LEMMA SendInvariant ==
  ASSUME IInv, NEW w \in Workers, SendSucceeds(w) \/ SendFails(w) \/ WriteSentFails(w)
  PROVE  IInv'
<1>1. Current(w) \in Messages
  BY CurrentIsLeft DEF IInv, SendSucceeds, SendFails, WriteSentFails, At
<1>2. received \in SUBSET Messages /\ deaths \in 0 .. MaxDeaths BY DEF IInv, TypeOK
<1>3. CASE SendSucceeds(w)
  BY <1>1, <1>2, <1>3, HoldingStep DEF SendSucceeds, At, Holding
<1>4. CASE SendFails(w)
  BY <1>1, <1>2, <1>4, HoldingStep DEF SendFails, At, Holding
<1>5. CASE WriteSentFails(w)
  <2>1. deaths' \in 0 .. MaxDeaths
    BY <1>2, <1>5, OutboxAssumption DEF OutboxAssumption, WriteSentFails
  <2> QED BY <1>2, <1>5, <2>1, HoldingStep DEF WriteSentFails, At, Holding
<1> QED BY <1>3, <1>4, <1>5

\* What is marked as sent was heard, by the invariant.
LEMMA WriteSentInvariant ==
  ASSUME IInv, NEW w \in Workers, WriteSent(w)
  PROVE  IInv'
<1> DEFINE m == Current(w)
           row == [message[m] EXCEPT !.status = "SENT", !.attempts = @ + 1]
<1>1. m \in Messages /\ Holds(w, m) /\ m \in received
  BY CurrentIsLeft DEF IInv, Heard, WriteSent, At, Holding, Holds
<1>2. message[m] \in Rows BY <1>1 DEF IInv, TypeOK, Rows
<1>3. message[m].attempts < MaxAttempts BY <1>1 DEF IInv, HasLease, Counted
<1>4. message[m].attempts + 1 \in 0 .. MaxAttempts
  BY <1>2, <1>3, OutboxAssumption DEF OutboxAssumption, Rows
<1>5. row \in Rows /\ row.status = "SENT" BY <1>2, <1>4 DEF Rows, Statuses
<1>6. message' = [message EXCEPT ![m] = row]
  BY <1>1 DEF WriteSent, IInv, TypeOK
<1>7. refused' = refused /\ \A k \in Messages : refused[k] \in Nat
  BY OutboxAssumption DEF OutboxAssumption, WriteSent, IInv, TypeOK
<1>8. refused' \in [Messages -> 0 .. MaxAttempts] BY <1>7 DEF IInv, TypeOK
<1>9. /\ \A k \in Messages : refused[k] <= refused'[k]
      /\ \A k \in Messages \ {m} : refused'[k] = refused[k]
  BY <1>7
<1>10. /\ run[w].pc \in Holding /\ Becomes(w, After(w, m))
       /\ UNCHANGED <<received, deaths>>
  BY DEF WriteSent, At, Holding
<1> HIDE DEF row
<1> QED BY <1>1, <1>5, <1>6, <1>8, <1>9, <1>10, AnswerStep

\* A failure counts the attempts the run has read, of which there were as many
\* failures at least.
LEMMA WriteFailureInvariant ==
  ASSUME IInv, NEW w \in Workers, WriteFailure(w)
  PROVE  IInv'
<1> DEFINE m == Current(w)
           n == run[w].seen[m] + 1
           row == [status   |-> IF GivenUp(n) THEN "FAILED" ELSE "PENDING",
                   attempts |-> n,
                   wait     |-> Backoff[n]]
<1>1. m \in Messages BY CurrentIsLeft DEF IInv, WriteFailure, At
<1>2. /\ run[w].seen[m] \in 0 .. MaxAttempts - 1 /\ run[w].seen[m] <= refused[m]
      /\ \A k \in Messages : refused[k] \in 0 .. MaxAttempts
      /\ refused \in [Messages -> 0 .. MaxAttempts]
  BY <1>1 DEF IInv, TypeOK, Counted
<1>3. n \in 1 .. MaxAttempts /\ Backoff[n] \in Nat
  BY <1>2, OutboxAssumption DEF OutboxAssumption
<1>4. row \in Rows BY <1>3 DEF Rows, Statuses
<1>5. /\ message' = [message EXCEPT ![m] = row]
      /\ refused' = [refused EXCEPT ![m] = IF @ < MaxAttempts THEN @ + 1 ELSE @]
      /\ Becomes(w, After(w, m)) /\ UNCHANGED <<received, deaths>> /\ At(w, "ERROR")
  BY DEF WriteFailure
<1>6. \A k \in Messages :
        refused'[k] = IF k = m /\ refused[k] < MaxAttempts THEN refused[k] + 1 ELSE refused[k]
  BY <1>1, <1>2, <1>5
<1>7. /\ refused' \in [Messages -> 0 .. MaxAttempts]
      /\ \A k \in Messages : refused[k] <= refused'[k]
      /\ \A k \in Messages \ {m} : refused'[k] = refused[k]
      /\ n <= refused'[m]
  <2>1. \A k \in Messages : refused'[k] \in 0 .. MaxAttempts
    BY <1>2, <1>6, OutboxAssumption DEF OutboxAssumption
  <2>2. refused' \in [Messages -> 0 .. MaxAttempts] BY <1>2, <1>5, <2>1
  <2>3. \A k \in Messages : refused[k] \in Nat
    BY OutboxAssumption DEF OutboxAssumption, IInv, TypeOK
  <2>4. \A k \in Messages : refused[k] <= refused'[k] BY <1>6, <2>3
  <2>5. \A k \in Messages \ {m} : refused'[k] = refused[k] BY <1>6
  <2>6. n <= refused'[m]
    <3>1. CASE refused[m] < MaxAttempts BY <1>1, <1>2, <1>6, <3>1
    <3>2. CASE ~(refused[m] < MaxAttempts)
      <4>1. refused'[m] = refused[m] BY <1>1, <1>6, <3>2
      <4>2. refused[m] \in 0 .. MaxAttempts BY <1>1, <1>2
      <4> QED BY <1>3, <3>2, <4>1, <4>2, OutboxAssumption DEF OutboxAssumption
    <3> QED BY <3>1, <3>2
  <2> QED BY <2>2, <2>4, <2>5, <2>6
<1>8. /\ row.status \in {"FAILED", "PENDING"} /\ row.attempts = n
      /\ row.status = "PENDING" => n < MaxAttempts
      /\ row.status = "FAILED" => n = MaxAttempts
  BY <1>3, OutboxAssumption DEF OutboxAssumption, GivenUp
<1>9. row.status = "FAILED" => refused'[m] = MaxAttempts
  <2>1. refused'[m] \in 0 .. MaxAttempts BY <1>1, <1>7
  <2>2. n <= refused'[m] BY <1>7
  <2> HIDE DEF row, n
  <2> QED BY <1>3, <1>8, <2>1, <2>2, OutboxAssumption DEF OutboxAssumption
<1> HIDE DEF row, n
<1> QED BY <1>4, <1>5, <1>7, <1>8, <1>9, AnswerStep DEF At, Holding

\* Time that passes for a lease passes for the run that holds it.
LEMMA TickInvariant == ASSUME IInv, Tick PROVE IInv'
<1> USE DEF IInv
<1>1. UNCHANGED <<received, refused, deaths>> BY DEF Tick
<1>2. \A m \in Messages :
        /\ message[m] \in Rows /\ message'[m] \in Rows
        /\ message'[m].status = message[m].status
        /\ message'[m].attempts = message[m].attempts
        /\ message'[m].wait = IF message[m].wait > 0 THEN message[m].wait - 1 ELSE 0
  <2> SUFFICES ASSUME NEW m \in Messages
               PROVE  /\ message[m] \in Rows /\ message'[m] \in Rows
                      /\ message'[m].status = message[m].status
                      /\ message'[m].attempts = message[m].attempts
                      /\ message'[m].wait = IF message[m].wait > 0 THEN message[m].wait - 1 ELSE 0
    OBVIOUS
  <2>1. message[m] \in Rows BY DEF TypeOK, Rows
  <2>2. message'[m] = [message[m] EXCEPT !.wait = IF @ > 0 THEN @ - 1 ELSE 0]
    BY DEF Tick
  <2> QED BY <2>1, <2>2 DEF Rows
<1>3. \A w \in Workers :
        /\ run'[w] \in Runs
        /\ run'[w].pc = run[w].pc /\ run'[w].left = run[w].left /\ run'[w].seen = run[w].seen
        /\ run[w].pc \in Holding => run'[w].age = run[w].age + 1 /\ run'[w].age <= MaxSend
  <2> SUFFICES ASSUME NEW w \in Workers
               PROVE  /\ run'[w] \in Runs
                      /\ run'[w].pc = run[w].pc /\ run'[w].left = run[w].left
                      /\ run'[w].seen = run[w].seen
                      /\ run[w].pc \in Holding =>
                           run'[w].age = run[w].age + 1 /\ run'[w].age <= MaxSend
    OBVIOUS
  <2>1. run[w] \in Runs BY DEF TypeOK, Runs
  <2>2. CASE run[w].pc \in Holding
    <3>1. run'[w] = [run[w] EXCEPT !.age = @ + 1] BY <2>2 DEF Tick
    <3>2. run[w].age + 1 \in 0 .. MaxSend
      BY <2>1, <2>2, OutboxAssumption DEF OutboxAssumption, Tick, Runs
    <3> QED BY <2>1, <3>1, <3>2 DEF Runs
  <2>3. CASE run[w].pc \notin Holding BY <2>1, <2>3 DEF Tick
  <2> QED BY <2>2, <2>3
<1>4. TypeOK'
  <2>1. message' \in [Messages -> Rows] BY <1>2 DEF Tick
  <2>2. run' \in [Workers -> Runs] BY <1>3 DEF Tick
  <2> QED BY <1>1, <2>1, <2>2 DEF TypeOK, Rows, Runs
<1>5. \A v \in Workers : Current(v)' = Current(v) BY <1>3 DEF Current
<1>6. \A v \in Workers, k \in Messages : Holds(v, k)' <=> Holds(v, k)
  BY <1>3, <1>5 DEF Holds
<1>7. HasWork' /\ OneHolder' /\ Heard'
  BY <1>1, <1>3, <1>5, <1>6 DEF HasWork, OneHolder, Heard, At
<1>8. HasLease'
  <2> SUFFICES ASSUME NEW v \in Workers, NEW k \in Messages, Holds(v, k)'
               PROVE  message'[k].status = "PENDING" /\ message'[k].wait = Lease - run'[v].age
    BY DEF HasLease
  <2>1. Holds(v, k) /\ run[v].pc \in Holding BY <1>6 DEF Holds
  <2>2. message[k].status = "PENDING" /\ message[k].wait = Lease - run[v].age
    BY <2>1 DEF HasLease
  <2>3. run'[v].age = run[v].age + 1 /\ run'[v].age <= MaxSend BY <1>3, <2>1
  <2>4. run[v].age \in Nat BY OutboxAssumption DEF OutboxAssumption, TypeOK
  <2>5. message[k].wait > 0
    BY <2>2, <2>3, <2>4, OutboxAssumption DEF OutboxAssumption, LeaseOutlastsSend
  <2>6. message'[k].wait = message[k].wait - 1 /\ message'[k].status = "PENDING"
    BY <1>2, <2>2, <2>5
  <2> QED BY <2>2, <2>3, <2>4, <2>6, OutboxAssumption DEF OutboxAssumption
<1>9. Counted' BY <1>1, <1>2, <1>3 DEF Counted
<1>10. GivenUpAfterTries' /\ SentIsReceived'
  BY <1>1, <1>2 DEF GivenUpAfterTries, SentIsReceived
<1> QED BY <1>4, <1>7, <1>8, <1>9, <1>10

\* Every step of every run keeps the invariant, and so does time.
LEMMA NextInvariant == IInv /\ [Next]_vars => IInv'
<1> SUFFICES ASSUME IInv, [Next]_vars PROVE IInv' OBVIOUS
<1>1. ASSUME NEW m \in Messages, Publish(m) PROVE IInv' BY <1>1, PublishInvariant
<1>2. ASSUME NEW w \in Workers, Fetch(w) PROVE IInv' BY <1>2, FetchInvariant
<1>3. ASSUME NEW w \in Workers, Claim(w) PROVE IInv' BY <1>3, ClaimInvariant
<1>4. ASSUME NEW w \in Workers, Skip(w) PROVE IInv' BY <1>4, SkipInvariant
<1>5. ASSUME NEW w \in Workers, SendSucceeds(w) \/ SendFails(w) \/ WriteSentFails(w)
      PROVE  IInv'
  BY <1>5, SendInvariant
<1>6. ASSUME NEW w \in Workers, WriteSent(w) PROVE IInv' BY <1>6, WriteSentInvariant
<1>7. ASSUME NEW w \in Workers, WriteFailure(w) PROVE IInv' BY <1>7, WriteFailureInvariant
<1>8. ASSUME NEW w \in Workers, Die(w) PROVE IInv' BY <1>8, DieInvariant
<1>9. CASE Tick BY <1>9, TickInvariant
<1>10. CASE UNCHANGED vars
  BY <1>10 DEF vars, IInv, TypeOK, HasWork, HasLease, OneHolder, Counted,
               GivenUpAfterTries, Heard, SentIsReceived, Holds, Current, At
<1> QED BY <1>1, <1>2, <1>3, <1>4, <1>5, <1>6, <1>7, <1>8, <1>9, <1>10 DEF Next, Works

\* Together: where the lease outlasts a send, the invariant always holds.
LEMMA Invariant == LeaseOutlastsSend /\ Spec => []IInv
  BY InitInvariant, NextInvariant, PTL DEF Spec

\* deliverOutbox: a row marked as sent was received, one given up has failed
\* MaxAttempts times, and the counts stay within their types.
THEOREM AnswersHold == LeaseOutlastsSend /\ Spec => []AnswersAreTrue
<1>1. IInv => AnswersAreTrue BY DEF IInv, AnswersAreTrue
<1> QED BY <1>1, Invariant, PTL
-----------------------------------------------------------------------------
(* Delivery under leases is exclusive delivery. *)

\* LeasedDelivery's view of the messages.
Answers == [m \in Messages |-> message[m].status]
Holders == [m \in Messages |-> Holder(m)]

\* Who holds a message is the one who has it, or nobody.
LEMMA HolderIs ==
  ASSUME OneHolder, NEW m \in Messages
  PROVE  /\ \A w \in Workers : Holds(w, m) => Holder(m) = w
         /\ (\A w \in Workers : ~Holds(w, m)) => Holder(m) = Nobody
         /\ Holder(m) # Nobody => \E w \in Workers : Holds(w, m)
<1>1. ASSUME NEW w \in Workers, Holds(w, m) PROVE Holder(m) = w
  <2>1. \A v \in Workers : Holds(v, m) <=> v = w BY <1>1 DEF OneHolder
  <2> QED BY <1>1, <2>1, Zenon DEF Holder
<1> QED BY <1>1 DEF Holder

\* At first no message exists and nobody holds one.
LEMMA MapsInit == Init => Leased!Init
<1> SUFFICES ASSUME Init PROVE Leased!Init OBVIOUS
<1>1. \A w \in Workers, m \in Messages : ~Holds(w, m)
  BY DEF Init, Holds, Holding, Idle
<1>2. \A m \in Messages : Holder(m) = Nobody BY <1>1 DEF Holder
<1>3. \A m \in Messages : message[m].status = "NONE" BY DEF Init
<1> QED BY <1>2, <1>3 DEF Leased!Init

\* A message that nobody takes or lets go of keeps its holder.
LEMMA SameHolder ==
  ASSUME NEW m \in Messages, \A v \in Workers : Holds(v, m)' <=> Holds(v, m)
  PROVE  Holder(m)' = Holder(m)
BY Zenon DEF Holder

\* A message that nobody holds has no holder.
LEMMA NoHolder ==
  ASSUME NEW m \in Messages, \A v \in Workers : ~Holds(v, m)'
  PROVE  Holder(m)' = Nobody
BY DEF Holder

\* A run that ends up holding nothing lets go of the message it held, if any.
LEMMA MapsLettingGo ==
  ASSUME IInv, NEW w \in Workers, NEW r \in Runs, Becomes(w, r),
         r.pc \in {"IDLE", "CLAIM"}
  PROVE  /\ run[w].pc \in Holding =>
              /\ Holders[Current(w)] # Nobody
              /\ Holders' = [Holders EXCEPT ![Current(w)] = Nobody]
         /\ run[w].pc \notin Holding => Holders' = Holders
<1>1. /\ run'[w] = r
      /\ \A v \in Workers \ {w}, m \in Messages : Holds(v, m)' <=> Holds(v, m)
  BY OneRunMoves DEF IInv
<1>2. \A m \in Messages : ~Holds(w, m)' BY <1>1 DEF Holds, Holding
<1>3. CASE run[w].pc \notin Holding
  <2>1. \A m \in Messages : ~Holds(w, m) BY <1>3 DEF Holds
  <2>2. \A v \in Workers, m \in Messages : Holds(v, m)' <=> Holds(v, m)
    BY <1>1, <1>2, <2>1
  <2>3. \A m \in Messages : Holder(m)' = Holder(m) BY <2>2, SameHolder
  <2> QED BY <1>3, <2>3 DEF Holders
<1>4. CASE run[w].pc \in Holding
  <2> DEFINE c == Current(w)
  <2>1. c \in Messages /\ Holds(w, c)
    BY <1>4, CurrentIsLeft DEF IInv, At, Holding, Holds
  <2>2. ASSUME NEW m \in Messages \ {c} PROVE Holder(m)' = Holder(m)
    <3>1. ~Holds(w, m) BY DEF Holds
    <3>2. \A v \in Workers : Holds(v, m)' <=> Holds(v, m) BY <1>1, <1>2, <3>1
    <3> QED BY <3>2, SameHolder
  <2>3. ASSUME NEW m \in Messages, m = c PROVE Holder(m)' = Nobody
    <3>1. \A v \in Workers \ {w} : ~Holds(v, m) BY <2>1, <2>3 DEF IInv, OneHolder
    <3>2. \A v \in Workers : ~Holds(v, m)' BY <1>1, <1>2, <3>1
    <3> QED BY <3>2, NoHolder
  <2>4. Holder(c) = w BY <2>1, HolderIs DEF IInv
  <2>5. Holders[c] # Nobody BY <2>1, <2>4, OutboxAssumption DEF OutboxAssumption, Holders
  <2>6. Holders' = [m \in Messages |-> Holder(m)'] BY DEF Holders
  <2>7. Holders' = [Holders EXCEPT ![c] = Nobody]
    BY <2>2, <2>3, <2>6 DEF Holders
  <2> QED BY <1>4, <2>5, <2>7
<1> QED BY <1>3, <1>4

\* A new message is created.
LEMMA MapsPublish ==
  ASSUME IInv, NEW m \in Messages, Publish(m)
  PROVE  Leased!Create({m})
<1>1. UNCHANGED run /\ \A v \in Workers : Current(v)' = Current(v)
  BY DEF Publish, Current
<1>2. \A k \in Messages : Holder(k)' = Holder(k) BY <1>1, SameHolder DEF Holds
<1>3. Holders' = Holders BY <1>2 DEF Holders
<1>4. \A k \in Messages :
        message'[k].status = IF k = m THEN "PENDING" ELSE message[k].status
  BY DEF Publish, IInv, TypeOK
<1>5. Answers' = [k \in Messages |-> IF k \in {m} THEN "PENDING" ELSE Answers[k]]
  BY <1>4 DEF Answers
<1>6. \A k \in {m} : Answers[k] = "NONE" BY DEF Answers, Publish
<1> QED BY <1>3, <1>5, <1>6 DEF Leased!Create, Answers, Holders

\* Steps that neither take a message, nor let go of it, nor answer it.
LEMMA MapsSameHolds ==
  ASSUME \A v \in Workers, m \in Messages : Holds(v, m)' <=> Holds(v, m),
         \A m \in Messages : message'[m].status = message[m].status
  PROVE  UNCHANGED <<Answers, Holders>>
<1>1. \A m \in Messages : Holder(m)' = Holder(m) BY SameHolder
<1> QED BY <1>1 DEF Answers, Holders

\* Time and sends change neither what is held nor what is answered.
LEMMA MapsQuiet ==
  ASSUME IInv,
         \/ Tick
         \/ \E w \in Workers : SendSucceeds(w) \/ SendFails(w) \/ WriteSentFails(w)
  PROVE  UNCHANGED <<Answers, Holders>>
<1>1. /\ \A m \in Messages : message'[m].status = message[m].status
      /\ \A v \in Workers :
           /\ run'[v].left = run[v].left
           /\ run'[v].pc \in Holding <=> run[v].pc \in Holding
  <2>1. CASE Tick
    <3>1. ASSUME NEW m \in Messages PROVE message'[m].status = message[m].status
      <4>1. message[m] \in Rows BY DEF IInv, TypeOK, Rows
      <4>2. message'[m] = [message[m] EXCEPT !.wait = IF @ > 0 THEN @ - 1 ELSE 0]
        BY <2>1 DEF Tick
      <4> QED BY <4>1, <4>2 DEF Rows
    <3>2. ASSUME NEW v \in Workers
          PROVE  run'[v].left = run[v].left /\ run'[v].pc = run[v].pc
      <4>1. run[v] \in Runs BY DEF IInv, TypeOK, Runs
      <4>2. run'[v] = IF run[v].pc \in Holding THEN [run[v] EXCEPT !.age = @ + 1] ELSE run[v]
        BY <2>1 DEF Tick
      <4> QED BY <4>1, <4>2 DEF Runs
    <3> QED BY <3>1, <3>2
  <2>2. CASE \E w \in Workers : SendSucceeds(w) \/ SendFails(w) \/ WriteSentFails(w)
    <3>1. PICK w \in Workers : SendSucceeds(w) \/ SendFails(w) \/ WriteSentFails(w)
      BY <2>2
    <3>2. message' = message /\ run[w].pc \in Holding
      BY <3>1 DEF SendSucceeds, SendFails, WriteSentFails, At, Holding
    <3>3. PICK p \in Holding : run' = [run EXCEPT ![w] = [run[w] EXCEPT !.pc = p]]
      BY <3>1 DEF SendSucceeds, SendFails, WriteSentFails, Becomes, Holding
    <3>4. run \in [Workers -> Runs] /\ run[w] \in Runs BY DEF IInv, TypeOK, Runs
    <3>5. run'[w].left = run[w].left /\ run'[w].pc = p BY <3>3, <3>4 DEF Runs
    <3>6. \A v \in Workers \ {w} : run'[v] = run[v] BY <3>3, <3>4
    <3> QED BY <3>2, <3>5, <3>6
  <2> QED BY <2>1, <2>2
<1>2. \A v \in Workers : Current(v)' = Current(v) BY <1>1 DEF Current
<1>3. \A v \in Workers, m \in Messages : Holds(v, m)' <=> Holds(v, m)
  BY <1>1, <1>2 DEF Holds
<1> QED BY <1>1, <1>3, MapsSameHolds

\* Listing messages and skipping one that is taken holds nothing.
LEMMA MapsList ==
  ASSUME IInv, NEW w \in Workers, Fetch(w) \/ Skip(w)
  PROVE  UNCHANGED <<Answers, Holders>>
<1>1. PICK r : Becomes(w, r) /\ r.pc \in {"IDLE", "CLAIM"} /\ r \in Runs
  <2>1. IInv' BY FetchInvariant, SkipInvariant
  <2>2. run'[w] \in Runs BY <2>1 DEF IInv, TypeOK, Runs
  <2>3. run \in [Workers -> Runs] BY DEF IInv, TypeOK, Runs
  <2>4. CASE Fetch(w)
    <3>1. PICK r : Becomes(w, r) /\ r.pc = "CLAIM" BY <2>4 DEF Fetch
    <3> QED BY <2>2, <2>3, <3>1 DEF Becomes
  <2>5. CASE Skip(w)
    <3>1. Current(w) \in run[w].left BY <2>5, CurrentIsLeft DEF IInv, Skip, At
    <3> QED BY <2>5, <3>1, AfterIsRun DEF Skip, IInv
  <2> QED BY <2>4, <2>5
<1>2. run[w].pc \notin Holding /\ message' = message
  BY DEF Fetch, Skip, At, Holding
<1>3. Holders' = Holders BY <1>1, <1>2, MapsLettingGo
<1> QED BY <1>2, <1>3 DEF Answers

\* A claim takes a message that nobody holds.
LEMMA MapsClaim ==
  ASSUME IInv, NEW w \in Workers, Claim(w)
  PROVE  Leased!Take(Current(w), w)
<1> DEFINE c == Current(w)
           r == [run[w] EXCEPT !.pc = "SEND", !.age = 0]
<1>1. c \in Messages /\ At(w, "CLAIM") BY CurrentIsLeft DEF IInv, Claim, At
<1>2. r \in Runs /\ r.pc = "SEND" /\ r.left = run[w].left
  <2>1. run[w] \in Runs BY DEF IInv, TypeOK, Runs
  <2>2. 0 \in 0 .. MaxSend BY OutboxAssumption DEF OutboxAssumption
  <2> QED BY <2>1, <2>2 DEF Runs, Stages
<1> HIDE DEF r
<1>3. /\ run'[w] = r
      /\ \A v \in Workers \ {w}, m \in Messages : Holds(v, m)' <=> Holds(v, m)
  BY <1>2, OneRunMoves DEF Claim, IInv, r
<1>4. Current(w)' = Current(w) BY <1>2, <1>3 DEF Current
<1>5. \A m \in Messages : Holds(w, m)' <=> m = c
  BY <1>2, <1>3, <1>4 DEF Holds, Holding
<1>6. \A m \in Messages : ~Holds(w, m) BY <1>1 DEF Holds, Holding, At
<1>7. message[c].status = "PENDING" /\ message[c].wait = 0
  BY DEF Claim, Claimable, Due
<1>8. \A v \in Workers : ~Holds(v, c)
  <2> SUFFICES ASSUME NEW v \in Workers, Holds(v, c) PROVE FALSE OBVIOUS
  <2>1. Lease - run[v].age = 0 BY <1>1, <1>7 DEF IInv, HasLease
  <2>2. run[v].age \in 0 .. MaxSend BY DEF IInv, TypeOK
  <2> QED BY <2>1, <2>2, OutboxAssumption DEF OutboxAssumption, IInv, LeaseOutlastsSend
<1>9. Holder(c) = Nobody BY <1>1, <1>8, HolderIs DEF IInv
<1>10. ASSUME NEW m \in Messages \ {c} PROVE Holder(m)' = Holder(m)
  <2>1. \A v \in Workers : Holds(v, m)' <=> Holds(v, m) BY <1>3, <1>5, <1>6
  <2> QED BY <2>1, SameHolder
<1>11. ASSUME NEW m \in Messages, m = c PROVE Holder(m)' = w
  <2>1. IInv' BY ClaimInvariant
  <2>2. OneHolder' BY <2>1 DEF IInv
  <2>3. \A v \in Workers : Holds(v, m)' <=> v = w BY <1>3, <1>5, <1>8, <1>11
  <2> QED BY <2>3, Zenon DEF Holder
<1>12. Holders' = [m \in Messages |-> Holder(m)'] BY DEF Holders
<1>13. Holders' = [Holders EXCEPT ![c] = w] BY <1>10, <1>11, <1>12 DEF Holders
<1>14. \A m \in Messages : message'[m].status = message[m].status
  BY <1>1, <1>7 DEF Claim, IInv, TypeOK
<1>15. Answers' = Answers BY <1>14 DEF Answers
<1>16. Answers[c] = "PENDING" /\ Holders[c] = Nobody
  BY <1>1, <1>7, <1>9 DEF Answers, Holders
<1> QED BY <1>13, <1>15, <1>16 DEF Leased!Take, Answers, Holders

\* Writing how a message fared finishes it, or lets it go to be tried again.
LEMMA MapsAnswer ==
  ASSUME IInv, NEW w \in Workers, WriteSent(w) \/ WriteFailure(w)
  PROVE  Leased!Next
<1> DEFINE c == Current(w)
<1>1. run[w].pc \in Holding /\ Becomes(w, After(w, c))
  BY DEF WriteSent, WriteFailure, At, Holding
<1>2. c \in Messages /\ c \in run[w].left /\ Holds(w, c)
  BY <1>1, CurrentIsLeft DEF IInv, At, Holding, Holds
<1>3. Holders[c] # Nobody /\ Holders' = [Holders EXCEPT ![c] = Nobody]
  BY <1>1, <1>2, AfterIsRun, MapsLettingGo DEF IInv
<1>4. message[c].status = "PENDING" BY <1>2 DEF IInv, HasLease
<1>5. PICK a \in {"SENT", "FAILED", "PENDING"} :
        \A m \in Messages : message'[m].status = IF m = c THEN a ELSE message[m].status
  <2>1. CASE WriteSent(w) BY <2>1 DEF WriteSent, IInv, TypeOK
  <2>2. CASE WriteFailure(w)
    <3> DEFINE n == run[w].seen[c] + 1
               row == [status   |-> IF GivenUp(n) THEN "FAILED" ELSE "PENDING",
                       attempts |-> n,
                       wait     |-> Backoff[n]]
    <3>1. message' = [message EXCEPT ![c] = row] BY <2>2 DEF WriteFailure
    <3>2. row.status \in {"FAILED", "PENDING"} OBVIOUS
    <3> HIDE DEF row
    <3>3. \A m \in Messages :
            message'[m].status = IF m = c THEN row.status ELSE message[m].status
      BY <3>1 DEF IInv, TypeOK
    <3> QED BY <3>2, <3>3
  <2> QED BY <2>1, <2>2
<1>6. Answers' = [Answers EXCEPT ![c] = a] /\ Answers[c] = "PENDING"
  BY <1>2, <1>4, <1>5 DEF Answers
<1>7. PICK m \in Messages : m = c BY <1>2
<1>8. CASE a = "PENDING"
  <2>1. Answers' = Answers BY <1>4, <1>5, <1>8 DEF Answers
  <2>2. Leased!LetGo(m) BY <1>3, <1>7, <2>1 DEF Leased!LetGo, Answers, Holders
  <2> QED BY <2>2 DEF Leased!Next
<1>9. CASE a # "PENDING"
  <2>1. a \in Leased!Answers BY <1>5, <1>9 DEF Leased!Answers
  <2>2. Leased!Finish(m)
    BY <1>3, <1>6, <1>7, <2>1 DEF Leased!Finish, Answers, Holders
  <2> QED BY <2>2 DEF Leased!Next
<1> QED BY <1>8, <1>9

\* A run that ends lets go of the message it held, if it held one.
LEMMA MapsDie ==
  ASSUME IInv, NEW w \in Workers, Die(w)
  PROVE  Leased!LetGo(Current(w)) \/ UNCHANGED <<Answers, Holders>>
<1>1. Idle \in Runs /\ Idle.pc = "IDLE" /\ Becomes(w, Idle) /\ message' = message
  BY OutboxAssumption DEF OutboxAssumption, Idle, Runs, Stages, Die
<1>2. Answers' = Answers BY <1>1 DEF Answers
<1>3. CASE run[w].pc \in Holding
  <2>1. Holders[Current(w)] # Nobody /\ Holders' = [Holders EXCEPT ![Current(w)] = Nobody]
    BY <1>1, <1>3, MapsLettingGo
  <2> QED BY <1>2, <2>1 DEF Leased!LetGo, Answers, Holders
<1>4. CASE run[w].pc \notin Holding
  <2>1. Holders' = Holders BY <1>1, <1>4, MapsLettingGo
  <2> QED BY <1>2, <2>1
<1> QED BY <1>3, <1>4

\* Each step is a step of exclusive delivery or leaves its view alone.
LEMMA MapsNext == IInv /\ [Next]_vars => [Leased!Next]_<<Answers, Holders>>
<1> SUFFICES ASSUME IInv, [Next]_vars PROVE [Leased!Next]_<<Answers, Holders>>
  OBVIOUS
<1>1. ASSUME NEW m \in Messages, Publish(m) PROVE Leased!Next
  <2>1. {m} \in SUBSET Messages OBVIOUS
  <2> QED BY <1>1, <2>1, MapsPublish DEF Leased!Next
<1>2. ASSUME NEW w \in Workers, Fetch(w) \/ Skip(w) PROVE UNCHANGED <<Answers, Holders>>
  BY <1>2, MapsList
<1>3. ASSUME NEW w \in Workers, Claim(w) PROVE Leased!Next
  <2>1. Current(w) \in Messages BY <1>3, CurrentIsLeft DEF IInv, Claim, At
  <2> QED BY <1>3, <2>1, MapsClaim DEF Leased!Next
<1>4. ASSUME NEW w \in Workers, SendSucceeds(w) \/ SendFails(w) \/ WriteSentFails(w)
      PROVE  UNCHANGED <<Answers, Holders>>
  BY <1>4, MapsQuiet
<1>5. ASSUME NEW w \in Workers, WriteSent(w) \/ WriteFailure(w) PROVE Leased!Next
  BY <1>5, MapsAnswer
<1>6. ASSUME NEW w \in Workers, Die(w)
      PROVE  Leased!Next \/ UNCHANGED <<Answers, Holders>>
  <2>1. Current(w) \in Messages BY <1>6, CurrentIsLeft DEF IInv, Die
  <2> QED BY <1>6, <2>1, MapsDie DEF Leased!Next
<1>7. CASE Tick BY <1>7, MapsQuiet
<1>8. CASE UNCHANGED vars
  <2>1. \A v \in Workers : Current(v)' = Current(v) BY <1>8 DEF vars, Current
  <2>2. \A v \in Workers, m \in Messages : Holds(v, m)' <=> Holds(v, m)
    BY <1>8, <2>1 DEF vars, Holds
  <2>3. \A m \in Messages : message'[m].status = message[m].status BY <1>8 DEF vars
  <2> QED BY <2>2, <2>3, MapsSameHolds
<1> QED BY <1>1, <1>2, <1>3, <1>4, <1>5, <1>6, <1>7, <1>8 DEF Next, Works

\* deliverOutbox: "no two instances send the same message": where the lease
\* outlasts a send, delivery implements LeasedDelivery.
THEOREM Implements == LeaseOutlastsSend /\ Spec => ImplementsLeased
  BY Invariant, MapsInit, MapsNext, PTL
  DEF Spec, ImplementsLeased, Leased!Spec, Answers, Holders
-----------------------------------------------------------------------------
(* Webhooks: active endpoints hear, whatever the lease. *)

HookRows == [status : {"NONE", "PENDING", "SENT", "FAILED"},
             attempts : 0 .. HookAttempts, wait : Nat]
EndpointRows == [status : {"NONE", "PENDING_APPROVAL", "ACTIVE", "DISABLED"},
                 createdBy : Admins \cup {Nobody}, approvedBy : Admins \cup {Nobody},
                 fails : 0 .. DisableAfter]
HookRuns == [pc : Hooks!Stages, ends : SUBSET Endpoints, msgs : SUBSET HookMessages,
             due : SUBSET Hooks!Deliveries, at : Hooks!Deliveries \cup {Hooks!NoDelivery},
             tries : 0 .. HookAttempts - 1, age : 0 .. MaxSend]

HookAnswers == Hooks!Holding \cup {"COUNT", "COUNT_BAD", "SWITCH"}

\* A run that has taken a delivery has one.  One that fans out knows every endpoint
\* that has been active all along, and marks only what those have a row of.
Fits(r) ==
  /\ r.pc \in HookAnswers => r.at \in Hooks!Deliveries
  /\ r.pc = "CLAIM" => r.age = 0
  /\ r.pc \in {"FANOUT", "CREATE", "MARK"} => always \subseteq r.ends
  /\ r.pc = "MARK" => \A m \in r.msgs, e \in always :
       <<m, e>> \in Subscribed => delivery[<<m, e>>].status # "NONE"

\* A run that holds what it held, or as little: nothing.
Keeps(w, r) ==
  \/ r.pc \notin Hooks!Holding /\ hookRun[w].pc \notin Hooks!Holding
  \/ /\ r.pc \in Hooks!Holding /\ hookRun[w].pc \in Hooks!Holding
     /\ r.at = hookRun[w].at /\ r.age = hookRun[w].age

RunsFit == \A w \in Workers : Fits(hookRun[w])

\* A delivery that is pending may fail once more.
MayFail == \A d \in Hooks!Deliveries :
  delivery[d].status = "PENDING" => delivery[d].attempts < HookAttempts

HookInv == /\ Hooks!TypeOK /\ RunsFit /\ MayFail
           /\ always \subseteq Hooks!Active
           /\ Hooks!ActiveEndpointsHear

\* What steps leave in order, each of the rows it writes.
DeliveriesKept ==
  /\ delivery' \in [Hooks!Deliveries -> HookRows] /\ MayFail'
  /\ \A d \in Hooks!Deliveries :
       delivery[d].status # "NONE" => delivery'[d].status # "NONE"
EndpointsKept ==
  /\ endpoint' \in [Endpoints -> EndpointRows]
  /\ always' \subseteq always /\ always' \subseteq Hooks!Active'
DeskKept == /\ desk' \in [Admins -> Endpoints \cup {Nobody}]
            /\ hookDeaths' \in 0 .. MaxDeaths /\ acts' \in 0 .. MaxActs
QueuedKept == /\ queued' \in [HookMessages -> {"NONE", "NEW", "QUEUED"}]
              /\ \A m \in HookMessages : queued'[m] = "QUEUED" => queued[m] = "QUEUED"

\* What the type invariant says of each variable.
LEMMA HookTypes ==
  ASSUME Hooks!TypeOK
  PROVE  /\ delivery \in [Hooks!Deliveries -> HookRows]
         /\ endpoint \in [Endpoints -> EndpointRows]
         /\ hookRun \in [Workers -> HookRuns]
         /\ queued \in [HookMessages -> {"NONE", "NEW", "QUEUED"}]
         /\ desk \in [Admins -> Endpoints \cup {Nobody}]
         /\ always \subseteq Endpoints
         /\ hookDeaths \in 0 .. MaxDeaths /\ acts \in 0 .. MaxActs
BY DEF Hooks!TypeOK, HookRows, EndpointRows, HookRuns

\* What a step does not touch it keeps.
LEMMA HookFrame ==
  ASSUME HookInv
  PROVE  /\ UNCHANGED delivery => DeliveriesKept
         /\ UNCHANGED <<endpoint, always>> => EndpointsKept
         /\ UNCHANGED <<desk, hookDeaths, acts>> => DeskKept
         /\ UNCHANGED queued => QueuedKept
<1>1. UNCHANGED delivery => DeliveriesKept
  BY HookTypes DEF HookInv, DeliveriesKept, MayFail
<1>2. UNCHANGED <<endpoint, always>> => EndpointsKept
  BY HookTypes DEF HookInv, EndpointsKept, Hooks!Active
<1>3. UNCHANGED <<desk, hookDeaths, acts>> => DeskKept
  BY HookTypes DEF HookInv, DeskKept
<1>4. UNCHANGED queued => QueuedKept BY HookTypes DEF HookInv, QueuedKept
<1> QED BY <1>1, <1>2, <1>3, <1>4

\* One run moves, or none does.
LEMMA HookRunMoves ==
  ASSUME Hooks!TypeOK, NEW w \in Workers, NEW r \in HookRuns, Hooks!Becomes(w, r)
  PROVE  /\ hookRun' \in [Workers -> HookRuns] /\ hookRun'[w] = r
         /\ \A v \in Workers \ {w} : hookRun'[v] = hookRun[v]
BY HookTypes DEF Hooks!Becomes

\* A row is there for every event that counts as queued.
LEMMA StillHeard ==
  ASSUME HookInv, DeliveriesKept, EndpointsKept, QueuedKept
  PROVE  Hooks!ActiveEndpointsHear'
<1> SUFFICES ASSUME NEW m \in HookMessages, NEW e \in always',
                    queued'[m] = "QUEUED" /\ <<m, e>> \in Subscribed
             PROVE  delivery'[<<m, e>>].status # "NONE"
  BY DEF Hooks!ActiveEndpointsHear
<1>1. queued[m] = "QUEUED" /\ e \in always BY DEF QueuedKept, EndpointsKept
<1>2. delivery[<<m, e>>].status # "NONE" BY <1>1 DEF HookInv, Hooks!ActiveEndpointsHear
<1>3. e \in Endpoints BY <1>1, HookTypes DEF HookInv
<1>4. <<m, e>> \in Hooks!Deliveries BY <1>3 DEF Hooks!Deliveries
<1> QED BY <1>2, <1>4 DEF DeliveriesKept

\* What fits a run goes on fitting it while rows stay and endpoints only drop out.
LEMMA StillFits ==
  ASSUME HookInv, DeliveriesKept, EndpointsKept, NEW r \in HookRuns, Fits(r)
  PROVE  Fits(r)'
<1>1. always' \subseteq always /\ always \subseteq Endpoints
  BY HookTypes DEF EndpointsKept, HookInv
<1>2. ASSUME NEW m \in r.msgs, NEW e \in always',
             r.pc = "MARK", <<m, e>> \in Subscribed
      PROVE  delivery'[<<m, e>>].status # "NONE"
  <2>1. m \in HookMessages /\ e \in Endpoints /\ e \in always BY <1>1, <1>2 DEF HookRuns
  <2>2. <<m, e>> \in Hooks!Deliveries BY <2>1 DEF Hooks!Deliveries
  <2>3. delivery[<<m, e>>].status # "NONE" BY <1>2, <2>1 DEF Fits
  <2> QED BY <2>2, <2>3 DEF DeliveriesKept
<1> QED BY <1>1, <1>2 DEF Fits

\* A step that keeps the rows, and leaves each run alone or fit, keeps it all.
LEMMA HookStep ==
  ASSUME HookInv, DeliveriesKept, EndpointsKept, DeskKept,
         queued' \in [HookMessages -> {"NONE", "NEW", "QUEUED"}],
         Hooks!ActiveEndpointsHear',
         hookRun' \in [Workers -> HookRuns],
         \A v \in Workers : hookRun'[v] = hookRun[v] \/ Fits(hookRun[v])'
  PROVE  HookInv'
<1>1. Hooks!TypeOK'
  <2>1. always' \subseteq Endpoints BY HookTypes DEF EndpointsKept, HookInv
  <2> QED BY <2>1
      DEF Hooks!TypeOK, DeliveriesKept, EndpointsKept, DeskKept, HookRows, EndpointRows, HookRuns
<1>2. RunsFit'
  <2> SUFFICES ASSUME NEW v \in Workers PROVE Fits(hookRun[v])' BY DEF RunsFit
  <2>1. CASE hookRun'[v] = hookRun[v]
    <3>1. PICK r \in HookRuns : r = hookRun[v] BY HookTypes DEF HookInv
    <3>2. Fits(r) BY <3>1 DEF HookInv, RunsFit
    <3>3. Fits(r)' BY <3>2, StillFits
    <3>4. hookRun'[v] = r BY <2>1, <3>1
    <3> QED BY <3>3, <3>4 DEF Fits
  <2> QED BY <2>1
<1> QED BY <1>1, <1>2 DEF HookInv, DeliveriesKept, EndpointsKept

\* The same, of a step of one run.
LEMMA HookRunStep ==
  ASSUME HookInv, DeliveriesKept, EndpointsKept, DeskKept,
         queued' \in [HookMessages -> {"NONE", "NEW", "QUEUED"}],
         Hooks!ActiveEndpointsHear',
         NEW w \in Workers, NEW r \in HookRuns, Hooks!Becomes(w, r), Fits(r)'
  PROVE  HookInv'
<1>1. /\ hookRun' \in [Workers -> HookRuns] /\ hookRun'[w] = r
      /\ \A v \in Workers \ {w} : hookRun'[v] = hookRun[v]
  BY HookRunMoves DEF HookInv
<1>2. Fits(hookRun[w])' BY <1>1 DEF Fits
<1> QED BY <1>1, <1>2, HookStep

\* A run that does nothing.
LEMMA IdleFits ==
  /\ Hooks!Idle \in HookRuns /\ Hooks!Idle.pc = "IDLE"
  /\ Fits(Hooks!Idle) /\ Fits(Hooks!Idle)'
<1>1. Hooks!Idle \in HookRuns /\ Hooks!Idle.pc = "IDLE"
  <2>1. 0 \in 0 .. MaxSend /\ 0 \in 0 .. HookAttempts - 1
    BY OutboxAssumption, HooksAssumption DEF OutboxAssumption, HooksAssumption
  <2> QED BY <2>1 DEF Hooks!Idle, HookRuns, Hooks!Stages
<1> QED BY <1>1 DEF Fits, HookAnswers, Hooks!Holding

\* A run with deliveries to claim.
LEMMA ClaimingFits ==
  ASSUME NEW due \in SUBSET Hooks!Deliveries,
         NEW r, r = [Hooks!Idle EXCEPT !.pc = "CLAIM", !.due = due]
  PROVE  r \in HookRuns /\ r.pc = "CLAIM" /\ Fits(r)
<1>1. r \in HookRuns /\ r.pc = "CLAIM" /\ r.age = 0
  BY IdleFits DEF HookRuns, Hooks!Stages, Hooks!Idle
<1> QED BY <1>1 DEF Fits, HookAnswers, Hooks!Holding

\* What a run goes on with once it is done with a delivery.
LEMMA RestFits ==
  ASSUME Hooks!TypeOK, NEW w \in Workers
  PROVE  \E r \in HookRuns : r = Hooks!Rest(w) /\ r.pc \in {"IDLE", "CLAIM"} /\ Fits(r)
<1>1. PICK due \in SUBSET Hooks!Deliveries : due = hookRun[w].due \ {hookRun[w].at}
  BY HookTypes DEF HookRuns
<1>2. Hooks!Rest(w) = IF due = {} THEN Hooks!Idle
                      ELSE [Hooks!Idle EXCEPT !.pc = "CLAIM", !.due = due]
  BY <1>1 DEF Hooks!Rest
<1>3. CASE due = {} BY <1>2, <1>3, IdleFits
<1>4. CASE due # {}
  <2>1. PICK r : r = [Hooks!Idle EXCEPT !.pc = "CLAIM", !.due = due] OBVIOUS
  <2> QED BY <1>2, <1>4, <2>1, ClaimingFits
<1> QED BY <1>3, <1>4

\* What a run that does not fan out fits asks nothing of the rows.
LEMMA FitsAnyRows ==
  ASSUME NEW r \in HookRuns, Fits(r), r.pc \notin {"FANOUT", "CREATE", "MARK"}
  PROVE  Fits(r)'
BY DEF Fits

\* No event counts as queued, and what was active was so all the time.
LEMMA HooksInit == Hooks!Init => HookInv
<1> SUFFICES ASSUME Hooks!Init PROVE HookInv OBVIOUS
<1> USE OutboxAssumption, HooksAssumption DEF OutboxAssumption, HooksAssumption
<1>1. endpoint \in [Endpoints -> EndpointRows]
  <2> DEFINE a == CHOOSE x \in Admins : TRUE
             b == CHOOSE x \in Admins : x # a
  <2>1. a \in Admins OBVIOUS
  <2>2. b \in Admins BY <2>1
  <2>3. 0 \in 0 .. DisableAfter OBVIOUS
  <2>4. endpoint \in [Endpoints -> Hooks!Registered(a, b) \cup {Hooks!NoEndpoint}]
    BY DEF Hooks!Init
  <2> HIDE DEF a, b
  <2>5. Hooks!Registered(a, b) \cup {Hooks!NoEndpoint} \subseteq EndpointRows
    BY <2>1, <2>2, <2>3 DEF Hooks!Registered, Hooks!NoEndpoint, EndpointRows
  <2> QED BY <2>4, <2>5
<1>2. \A d \in Hooks!Deliveries : delivery[d] = Hooks!NoRow BY DEF Hooks!Init
<1>3. Hooks!NoRow \in HookRows /\ Hooks!NoRow.status = "NONE" BY DEF Hooks!NoRow, HookRows
<1>4. hookRun \in [Workers -> HookRuns] /\ RunsFit
  BY IdleFits DEF Hooks!Init, RunsFit
<1>5. always \subseteq Hooks!Active /\ Hooks!Active \subseteq Endpoints
  BY DEF Hooks!Init, Hooks!Active
<1>6. Hooks!TypeOK
  <2>1. delivery \in [Hooks!Deliveries -> HookRows] BY <1>3 DEF Hooks!Init
  <2>2. 0 \in 0 .. MaxDeaths /\ 0 \in 0 .. MaxActs OBVIOUS
  <2> QED BY <1>1, <1>4, <1>5, <2>1, <2>2
      DEF Hooks!Init, Hooks!TypeOK, HookRows, EndpointRows, HookRuns
<1>7. MayFail BY <1>2, <1>3 DEF MayFail
<1>8. Hooks!ActiveEndpointsHear BY DEF Hooks!Init, Hooks!ActiveEndpointsHear
<1> QED BY <1>4, <1>5, <1>6, <1>7, <1>8 DEF HookInv

\* A step of one run that touches neither rows nor events.
LEMMA HookQuietStep ==
  ASSUME HookInv, NEW w \in Workers, NEW r \in HookRuns, Hooks!Becomes(w, r), Fits(r)',
         UNCHANGED <<endpoint, queued, delivery, always, desk>>,
         hookDeaths' \in 0 .. MaxDeaths, acts' \in 0 .. MaxActs
  PROVE  HookInv'
<1>1. DeliveriesKept /\ EndpointsKept /\ QueuedKept BY HookFrame
<1>2. DeskKept BY HookTypes DEF DeskKept, HookInv
<1>3. Hooks!ActiveEndpointsHear' BY <1>1, StillHeard
<1> QED BY <1>1, <1>2, <1>3, HookRunStep DEF QueuedKept

\* Endpoints, events and deliveries are listed as they are now.
LEMMA ListingKeeps ==
  ASSUME HookInv, NEW w \in Workers,
         Hooks!ListEndpoints(w) \/ Hooks!ListMessages(w) \/ Hooks!ListDue(w)
  PROVE  HookInv' /\ \E r \in HookRuns : Hooks!Becomes(w, r) /\ Keeps(w, r)
<1>1. /\ UNCHANGED <<endpoint, queued, delivery, always, desk>>
      /\ hookDeaths' \in 0 .. MaxDeaths /\ acts' \in 0 .. MaxActs
  BY HookTypes DEF HookInv, Hooks!ListEndpoints, Hooks!ListMessages, Hooks!ListDue, Hooks!People
<1>2. hookRun[w] \in HookRuns BY HookTypes DEF HookInv
<1>3. PICK r \in HookRuns : Hooks!Becomes(w, r) /\ Fits(r)' /\ r.pc \notin Hooks!Holding
  <2>1. CASE Hooks!ListEndpoints(w)
    <3>1. PICK ends \in SUBSET Endpoints : ends = Hooks!Active BY DEF Hooks!Active
    <3>2. PICK r : r = [Hooks!Idle EXCEPT !.pc = "FANOUT", !.ends = ends] OBVIOUS
    <3>3. r \in HookRuns /\ r.pc = "FANOUT" /\ r.ends = ends
      BY <3>2, IdleFits DEF HookRuns, Hooks!Stages
    <3>4. always' \subseteq ends BY <1>1, <3>1 DEF HookInv
    <3>5. Fits(r)' BY <3>3, <3>4 DEF Fits, HookAnswers, Hooks!Holding
    <3> QED BY <2>1, <3>1, <3>2, <3>3, <3>5 DEF Hooks!ListEndpoints, Hooks!Holding
  <2>2. CASE Hooks!ListMessages(w)
    <3>1. PICK batch \in SUBSET HookMessages, p \in {"LIST", "CREATE"} :
            Hooks!Becomes(w, [hookRun[w] EXCEPT !.pc = p, !.msgs = batch])
      <4> DEFINE new == {m \in Hooks!New :
                           Hooks!Cardinality({k \in Hooks!New : k <= m}) <= FanOutBatch}
                 q == IF new = {} THEN "LIST" ELSE "CREATE"
      <4>1. Hooks!Becomes(w, [hookRun[w] EXCEPT !.pc = q, !.msgs = new])
        BY <2>2 DEF Hooks!ListMessages
      <4>2. new \in SUBSET HookMessages BY DEF Hooks!New
      <4>3. q \in {"LIST", "CREATE"} OBVIOUS
      <4> HIDE DEF new, q
      <4> QED BY <4>1, <4>2, <4>3, Zenon
    <3>0. PICK r : r = [hookRun[w] EXCEPT !.pc = p, !.msgs = batch] OBVIOUS
    <3>2. /\ r \in HookRuns /\ r.pc \in {"LIST", "CREATE"}
          /\ r.ends = hookRun[w].ends
      BY <1>2, <3>0, <3>1 DEF HookRuns, Hooks!Stages
    <3>3. always \subseteq hookRun[w].ends
      BY <2>2 DEF HookInv, RunsFit, Fits, Hooks!ListMessages, Hooks!At
    <3>4. Fits(r)' BY <1>1, <3>2, <3>3 DEF Fits, HookAnswers, Hooks!Holding
    <3> QED BY <3>0, <3>1, <3>2, <3>4 DEF Hooks!Holding
  <2>3. CASE Hooks!ListDue(w)
    <3>1. PICK due \in SUBSET Hooks!Deliveries :
            Hooks!Becomes(w, IF due = {} THEN Hooks!Idle
                             ELSE [Hooks!Idle EXCEPT !.pc = "CLAIM", !.due = due])
      <4> DEFINE all == {d \in Hooks!Deliveries : Hooks!Due(d)}
      <4>1. all \in SUBSET Hooks!Deliveries OBVIOUS
      <4>2. Hooks!Becomes(w, IF all = {} THEN Hooks!Idle
                             ELSE [Hooks!Idle EXCEPT !.pc = "CLAIM", !.due = all])
        BY <2>3 DEF Hooks!ListDue
      <4> HIDE DEF all
      <4> QED BY <4>1, <4>2, Zenon
    <3>3. CASE due = {} BY <3>1, <3>3, IdleFits DEF Hooks!Holding
    <3>4. CASE due # {}
      <4>0. due \in SUBSET Hooks!Deliveries BY <3>1
      <4>1. PICK r : r = [Hooks!Idle EXCEPT !.pc = "CLAIM", !.due = due] OBVIOUS
      <4>2. r \in HookRuns /\ r.pc = "CLAIM" /\ Fits(r) BY <4>0, <4>1, ClaimingFits, Zenon
      <4>3. Fits(r)' BY <4>2, FitsAnyRows
      <4> QED BY <3>1, <3>4, <4>1, <4>2, <4>3 DEF Hooks!Holding
    <3> QED BY <3>3, <3>4
  <2> QED BY <2>1, <2>2, <2>3
<1>4. hookRun[w].pc \notin Hooks!Holding
  BY DEF Hooks!ListEndpoints, Hooks!ListMessages, Hooks!ListDue, Hooks!At, Hooks!Holding
<1> QED BY <1>1, <1>3, <1>4, HookQuietStep DEF Keeps

\* No endpoint was active all along, where none is active.
LEMMA NothingToSendKeeps ==
  ASSUME HookInv, NEW w \in Workers, Hooks!NothingToSend(w)
  PROVE  HookInv' /\ \E r \in HookRuns : Hooks!Becomes(w, r) /\ Keeps(w, r)
<1>1. /\ UNCHANGED <<endpoint, delivery, always, desk, hookDeaths, acts>>
      /\ queued' = [m \in HookMessages |-> IF m \in Hooks!New THEN "QUEUED" ELSE queued[m]]
      /\ hookRun[w].pc = "FANOUT" /\ hookRun[w].ends = {}
      /\ Hooks!Becomes(w, [hookRun[w] EXCEPT !.pc = "LIST"])
  BY DEF Hooks!NothingToSend, Hooks!People, Hooks!At, Hooks!Proceeds
<1>2. always = {} BY <1>1 DEF HookInv, RunsFit, Fits
<1>3. Hooks!ActiveEndpointsHear' BY <1>1, <1>2 DEF Hooks!ActiveEndpointsHear
<1>4. queued' \in [HookMessages -> {"NONE", "NEW", "QUEUED"}] BY <1>1, HookTypes DEF HookInv
<1>5. PICK r : r = [hookRun[w] EXCEPT !.pc = "LIST"] OBVIOUS
<1>6. r \in HookRuns /\ r.pc = "LIST" BY <1>5, HookTypes DEF HookInv, HookRuns, Hooks!Stages
<1>7. Fits(r)' BY <1>6 DEF Fits, HookAnswers, Hooks!Holding
<1>8. Keeps(w, r) BY <1>1, <1>6 DEF Keeps, Hooks!Holding
<1> QED BY <1>1, <1>3, <1>4, <1>5, <1>6, <1>7, <1>8, HookFrame, HookRunStep

\* Rows are created at every endpoint that was listed, so at those active all along.
LEMMA CreateRowsKeeps ==
  ASSUME HookInv, NEW w \in Workers, Hooks!CreateRows(w)
  PROVE  HookInv' /\ \E r \in HookRuns : Hooks!Becomes(w, r) /\ Keeps(w, r)
<1>1. /\ UNCHANGED <<endpoint, queued, always, desk, hookDeaths, acts>>
      /\ hookRun[w].pc = "CREATE"
      /\ Hooks!Becomes(w, [hookRun[w] EXCEPT !.pc = "MARK"])
      /\ delivery' = [d \in Hooks!Deliveries |->
           IF /\ d \in Subscribed /\ d[1] \in hookRun[w].msgs /\ d[2] \in hookRun[w].ends
              /\ delivery[d].status = "NONE"
           THEN Hooks!Queued ELSE delivery[d]]
  BY DEF Hooks!CreateRows, Hooks!People, Hooks!At, Hooks!Proceeds
<1>2. /\ Hooks!Queued \in HookRows /\ Hooks!Queued.status = "PENDING"
      /\ Hooks!Queued.attempts < HookAttempts
  BY HooksAssumption DEF HooksAssumption, Hooks!Queued, Hooks!NoRow, HookRows
<1>3. DeliveriesKept
  BY <1>1, <1>2, HookTypes DEF DeliveriesKept, HookInv, MayFail
<1>4. EndpointsKept /\ DeskKept /\ QueuedKept BY <1>1, HookFrame
<1>5. PICK r : r = [hookRun[w] EXCEPT !.pc = "MARK"] OBVIOUS
<1>6. /\ r \in HookRuns /\ r.pc = "MARK"
      /\ r.msgs = hookRun[w].msgs /\ r.ends = hookRun[w].ends
  BY <1>5, HookTypes DEF HookInv, HookRuns, Hooks!Stages
<1>7. always \subseteq r.ends BY <1>1, <1>6 DEF HookInv, RunsFit, Fits
<1>8. ASSUME NEW m \in r.msgs, NEW e \in always, <<m, e>> \in Subscribed
      PROVE  delivery'[<<m, e>>].status # "NONE"
  <2>1. m \in HookMessages /\ e \in Endpoints BY <1>6, HookTypes DEF HookInv, HookRuns
  <2>2. <<m, e>> \in Hooks!Deliveries BY <2>1 DEF Hooks!Deliveries
  <2> QED BY <1>1, <1>2, <1>6, <1>7, <1>8, <2>2
<1>9. Fits(r)' BY <1>1, <1>6, <1>7, <1>8 DEF Fits, HookAnswers, Hooks!Holding
<1>10. Hooks!ActiveEndpointsHear' BY <1>3, <1>4, StillHeard
<1>11. Keeps(w, r) BY <1>1, <1>6 DEF Keeps, Hooks!Holding
<1> QED BY <1>1, <1>3, <1>4, <1>5, <1>6, <1>9, <1>10, <1>11, HookRunStep DEF QueuedKept

\* What a run marks has its rows.
LEMMA MarkKeeps ==
  ASSUME HookInv, NEW w \in Workers, Hooks!MarkQueued(w)
  PROVE  HookInv' /\ \E r \in HookRuns : Hooks!Becomes(w, r) /\ Keeps(w, r)
<1>1. /\ UNCHANGED <<endpoint, delivery, always, desk, hookDeaths, acts>>
      /\ hookRun[w].pc = "MARK"
      /\ queued' = [m \in HookMessages |-> IF m \in hookRun[w].msgs THEN "QUEUED" ELSE queued[m]]
  BY DEF Hooks!MarkQueued, Hooks!People, Hooks!At
<1>2. PICK p \in {"LIST", "FANOUT"} :
        Hooks!Becomes(w, [hookRun[w] EXCEPT !.msgs = {}, !.pc = p])
  BY DEF Hooks!MarkQueued
<1>3. PICK r : r = [hookRun[w] EXCEPT !.msgs = {}, !.pc = p] OBVIOUS
<1>4. r \in HookRuns /\ r.pc = p /\ r.ends = hookRun[w].ends
  BY <1>3, HookTypes DEF HookInv, HookRuns, Hooks!Stages
<1>5. always \subseteq hookRun[w].ends BY <1>1 DEF HookInv, RunsFit, Fits
<1>6. Fits(r)' BY <1>1, <1>4, <1>5 DEF Fits, HookAnswers, Hooks!Holding
<1>7. Hooks!ActiveEndpointsHear'
  <2> SUFFICES ASSUME NEW m \in HookMessages, NEW e \in always,
                      queued'[m] = "QUEUED" /\ <<m, e>> \in Subscribed
               PROVE  delivery[<<m, e>>].status # "NONE"
    BY <1>1 DEF Hooks!ActiveEndpointsHear
  <2>1. CASE m \in hookRun[w].msgs BY <1>1, <2>1 DEF HookInv, RunsFit, Fits
  <2>2. CASE m \notin hookRun[w].msgs
    BY <1>1, <2>2 DEF HookInv, Hooks!ActiveEndpointsHear
  <2> QED BY <2>1, <2>2
<1>8. queued' \in [HookMessages -> {"NONE", "NEW", "QUEUED"}] BY <1>1, HookTypes DEF HookInv
<1>9. Keeps(w, r) BY <1>1, <1>4 DEF Keeps, Hooks!Holding
<1> QED BY <1>1, <1>2, <1>3, <1>4, <1>6, <1>7, <1>8, <1>9, HookFrame, HookRunStep

\* A step that begins, or goes on, with deliveries and writes none.
LEMMA WorkingKeeps ==
  ASSUME HookInv, NEW w \in Workers,
         Hooks!Claim(w) \/ Hooks!Load(w) \/ Hooks!PostDelivery(w) \/ Hooks!Die(w)
  PROVE  \E r \in HookRuns : Hooks!Becomes(w, r) /\ Fits(r)
            /\ r.pc \notin {"FANOUT", "CREATE", "MARK"}
<1>1. hookRun[w] \in HookRuns /\ Fits(hookRun[w]) BY HookTypes DEF HookInv, RunsFit
<1>2. CASE Hooks!Claim(w)
  <2>0. hookRun[w].pc = "CLAIM" BY <1>2, Zenon DEF Hooks!Claim, Hooks!At
  <2>1. hookRun[w].pc = "CLAIM" /\ hookRun[w].age = 0 BY <1>1, <2>0 DEF Fits
  <2>2. PICK d \in hookRun[w].due :
          \/ Hooks!Becomes(w, [hookRun[w] EXCEPT !.pc = "LOAD", !.at = d])
          \/ Hooks!Becomes(w, Hooks!Idle)
          \/ Hooks!Becomes(w, [hookRun[w] EXCEPT !.due = @ \ {d}])
    BY <1>2, Zenon DEF Hooks!Claim
  <2>3. d \in Hooks!Deliveries BY <1>1, <2>2 DEF HookRuns
  <2>4. CASE Hooks!Becomes(w, [hookRun[w] EXCEPT !.pc = "LOAD", !.at = d])
    <3>1. PICK r : r = [hookRun[w] EXCEPT !.pc = "LOAD", !.at = d] OBVIOUS
    <3>2. r \in HookRuns /\ r.pc = "LOAD" /\ r.at = d
      BY <1>1, <2>3, <3>1 DEF HookRuns, Hooks!Stages
    <3>3. Fits(r) BY <2>3, <3>2 DEF Fits
    <3> QED BY <2>4, <3>1, <3>2, <3>3
  <2>5. CASE Hooks!Becomes(w, Hooks!Idle) BY <2>5, IdleFits
  <2>6. CASE Hooks!Becomes(w, [hookRun[w] EXCEPT !.due = @ \ {d}])
    <3>1. PICK r : r = [hookRun[w] EXCEPT !.due = @ \ {d}] OBVIOUS
    <3>2. r \in HookRuns /\ r.pc = "CLAIM" /\ r.age = 0
      BY <1>1, <2>1, <3>1 DEF HookRuns
    <3>3. Fits(r) BY <3>2 DEF Fits, HookAnswers, Hooks!Holding
    <3> QED BY <2>6, <3>1, <3>2, <3>3
  <2> QED BY <2>2, <2>4, <2>5, <2>6
<1>3. CASE Hooks!Load(w)
  <2> DEFINE d == hookRun[w].at
  <2>1. hookRun[w].pc = "LOAD" /\ d \in Hooks!Deliveries
    BY <1>1, <1>3 DEF Hooks!Load, Hooks!At, Fits, HookAnswers, Hooks!Holding
  <2>2. CASE delivery[d].status # "PENDING"
    BY <1>3, <2>2, RestFits DEF Hooks!Load, HookInv
  <2>3. CASE delivery[d].status = "PENDING"
    <3>1. PICK p \in {"POST", "DROP"} :
            Hooks!Becomes(w, [hookRun[w] EXCEPT !.tries = delivery[d].attempts, !.pc = p])
      <4> DEFINE q == IF d[2] \in Hooks!Active THEN "POST" ELSE "DROP"
      <4>1. Hooks!Becomes(w, [hookRun[w] EXCEPT !.tries = delivery[d].attempts, !.pc = q])
        BY <1>3, <2>3 DEF Hooks!Load
      <4>2. q \in {"POST", "DROP"} OBVIOUS
      <4> HIDE DEF q
      <4> QED BY <4>1, <4>2, Zenon
    <3>2. delivery[d].attempts \in 0 .. HookAttempts - 1
      <4>1. delivery[d].attempts < HookAttempts BY <2>1, <2>3 DEF HookInv, MayFail
      <4>2. delivery[d].attempts \in 0 .. HookAttempts
        BY <2>1, HookTypes DEF HookInv, HookRows
      <4> QED BY <4>1, <4>2, HooksAssumption DEF HooksAssumption
    <3>3. PICK r : r = [hookRun[w] EXCEPT !.tries = delivery[d].attempts, !.pc = p] OBVIOUS
    <3>4. r \in HookRuns /\ r.pc = p /\ r.at = d
      BY <1>1, <3>2, <3>3 DEF HookRuns, Hooks!Stages
    <3>5. Fits(r) BY <2>1, <3>4 DEF Fits
    <3> QED BY <3>1, <3>3, <3>4, <3>5
  <2> QED BY <2>2, <2>3
<1>4. CASE Hooks!PostDelivery(w)
  <2>1. hookRun[w].at \in Hooks!Deliveries
    BY <1>1, <1>4 DEF Hooks!PostDelivery, Hooks!At, Fits, HookAnswers, Hooks!Holding
  <2>2. PICK p \in {"OK", "BAD"} : Hooks!Becomes(w, [hookRun[w] EXCEPT !.pc = p])
    BY <1>4 DEF Hooks!PostDelivery, Hooks!Proceeds
  <2>3. PICK r : r = [hookRun[w] EXCEPT !.pc = p] OBVIOUS
  <2>4. r \in HookRuns /\ r.pc = p /\ r.at = hookRun[w].at
    BY <1>1, <2>3 DEF HookRuns, Hooks!Stages
  <2>5. Fits(r) BY <2>1, <2>4 DEF Fits
  <2> QED BY <2>2, <2>3, <2>4, <2>5
<1>5. CASE Hooks!Die(w) BY <1>5, IdleFits DEF Hooks!Die
<1> QED BY <1>2, <1>3, <1>4, <1>5

\* A claim moves the due time of a row, and nothing else of it.
LEMMA ClaimMoves ==
  ASSUME HookInv, NEW w \in Workers, Hooks!Claim(w)
  PROVE  DeliveriesKept
<1>1. CASE UNCHANGED delivery BY <1>1, HookFrame
<1>2. CASE delivery' # delivery
  <2>1. PICK d \in hookRun[w].due : delivery' = [delivery EXCEPT ![d].wait = Lease]
    BY <1>2 DEF Hooks!Claim
  <2>2. Lease \in Nat BY OutboxAssumption DEF OutboxAssumption
  <2>3. delivery \in [Hooks!Deliveries -> HookRows] BY HookTypes DEF HookInv
  <2>4. \A x \in Hooks!Deliveries : delivery'[x] \in HookRows
          /\ delivery'[x].status = delivery[x].status
          /\ delivery'[x].attempts = delivery[x].attempts
    BY <2>1, <2>2, <2>3 DEF HookRows
  <2>5. delivery' \in [Hooks!Deliveries -> HookRows] BY <2>1, <2>3, <2>4
  <2> QED BY <2>4, <2>5 DEF DeliveriesKept, HookInv, MayFail
<1> QED BY <1>1, <1>2

\* Claiming, reading, posting and dying write no more of a row than when it is due.
LEMMA DeliveringKeeps ==
  ASSUME HookInv, NEW w \in Workers,
         Hooks!Claim(w) \/ Hooks!Load(w) \/ Hooks!PostDelivery(w) \/ Hooks!Die(w)
  PROVE  HookInv'
<1>1. PICK r \in HookRuns : Hooks!Becomes(w, r) /\ Fits(r)
                            /\ r.pc \notin {"FANOUT", "CREATE", "MARK"}
  BY WorkingKeeps
<1>2. Fits(r)' BY <1>1, FitsAnyRows
<1>0. Hooks!Claim(w) => UNCHANGED <<endpoint, queued, always, desk, acts, hookDeaths>>
  BY Zenon DEF Hooks!Claim, Hooks!People
<1>3. UNCHANGED <<endpoint, queued, always, desk, acts>>
  BY <1>0 DEF Hooks!Load, Hooks!PostDelivery, Hooks!Die, Hooks!People
<1>4. hookDeaths' \in 0 .. MaxDeaths
  <2>1. hookDeaths \in 0 .. MaxDeaths BY HookTypes DEF HookInv
  <2> QED BY <1>0, <2>1, OutboxAssumption
      DEF OutboxAssumption, Hooks!Load, Hooks!PostDelivery, Hooks!Die
<1>5. DeskKept BY <1>3, <1>4, HookTypes DEF DeskKept, HookInv
<1>6. DeliveriesKept
  <2>1. CASE Hooks!Claim(w) BY <2>1, ClaimMoves
  <2>2. CASE UNCHANGED delivery BY <2>2, HookFrame
  <2> QED BY <2>1, <2>2 DEF Hooks!Load, Hooks!PostDelivery, Hooks!Die
<1>7. EndpointsKept /\ QueuedKept BY <1>3, HookFrame
<1>8. Hooks!ActiveEndpointsHear' BY <1>6, <1>7, StillHeard
<1> QED BY <1>1, <1>2, <1>5, <1>6, <1>7, <1>8, HookRunStep DEF QueuedKept

\* An answer is written to the row of the delivery the run is at.
LEMMA AnswerWrites ==
  ASSUME HookInv, NEW w \in Workers,
         Hooks!DropDelivery(w) \/ Hooks!WriteSent(w) \/ Hooks!WriteFailed(w)
  PROVE  /\ DeliveriesKept
         /\ \E row \in HookRows : /\ delivery' = [delivery EXCEPT ![hookRun[w].at] = row]
                                  /\ row.status \in {"SENT", "FAILED", "PENDING"}
         /\ hookRun[w].at \in Hooks!Deliveries /\ hookRun[w].pc \in Hooks!Holding
         /\ \E r \in HookRuns : Hooks!Becomes(w, r) /\ Fits(r)
              /\ r.pc \in {"IDLE", "CLAIM", "COUNT", "COUNT_BAD"}
<1> DEFINE d == hookRun[w].at
<1>1. hookRun[w] \in HookRuns /\ delivery \in [Hooks!Deliveries -> HookRows]
  BY HookTypes DEF HookInv
<1>2. d \in Hooks!Deliveries /\ hookRun[w].pc \in Hooks!Holding
  BY DEF HookInv, RunsFit, Fits, HookAnswers, Hooks!Holding, Hooks!At,
         Hooks!DropDelivery, Hooks!WriteSent, Hooks!WriteFailed
<1>3. hookRun[w].tries + 1 \in 1 .. HookAttempts
  BY <1>1, HooksAssumption DEF HooksAssumption, HookRuns
<1>4. PICK row \in HookRows : /\ delivery' = [delivery EXCEPT ![d] = row]
                              /\ row.status \in {"SENT", "FAILED", "PENDING"}
                              /\ row.status = "PENDING" => row.attempts < HookAttempts
  <2>1. CASE Hooks!DropDelivery(w)
    <3>1. PICK row : row = [delivery[d] EXCEPT !.status = "FAILED"] OBVIOUS
    <3>2. row \in HookRows /\ row.status = "FAILED" BY <1>1, <1>2, <3>1 DEF HookRows
    <3> QED BY <2>1, <3>1, <3>2 DEF Hooks!DropDelivery
  <2>2. CASE Hooks!WriteSent(w)
    <3>1. PICK old \in HookRows, n \in 1 .. HookAttempts :
            old = delivery[d] /\ n = hookRun[w].tries + 1
      BY <1>1, <1>2, <1>3
    <3>2. PICK row : row = [old EXCEPT !.status = "SENT", !.attempts = n] OBVIOUS
    <3>3. row \in HookRows /\ row.status = "SENT"
      <4>1. n \in 0 .. HookAttempts BY HooksAssumption DEF HooksAssumption
      <4> QED BY <3>2, <4>1 DEF HookRows
    <3>4. delivery' = [delivery EXCEPT ![d] = row]
      BY <1>1, <1>2, <2>2, <3>1, <3>2 DEF Hooks!WriteSent
    <3> QED BY <3>3, <3>4
  <2>3. CASE Hooks!WriteFailed(w)
    <3>1. PICK n \in 1 .. HookAttempts : n = hookRun[w].tries + 1 BY <1>3
    <3>2. PICK row : row = Hooks!Failed(n) OBVIOUS
    <3>3. /\ row \in HookRows /\ row.status \in {"FAILED", "PENDING"} /\ row.attempts = n
          /\ row.status = "PENDING" => n < HookAttempts
      BY <3>2, HooksAssumption DEF HooksAssumption, Hooks!Failed, HookRows
    <3>4. delivery' = [delivery EXCEPT ![d] = row]
      BY <2>3, <3>1, <3>2 DEF Hooks!WriteFailed
    <3> QED BY <3>3, <3>4
  <2> QED BY <2>1, <2>2, <2>3
<1>5. DeliveriesKept BY <1>1, <1>4 DEF DeliveriesKept, HookInv, MayFail
<1>6. PICK r \in HookRuns : Hooks!Becomes(w, r) /\ Fits(r)
              /\ r.pc \in {"IDLE", "CLAIM", "COUNT", "COUNT_BAD"}
  <2>1. CASE Hooks!DropDelivery(w) BY <2>1, RestFits DEF Hooks!DropDelivery, HookInv
  <2>2. CASE Hooks!WriteSent(w) \/ Hooks!WriteFailed(w)
    <3>1. PICK p \in {"COUNT", "COUNT_BAD"} : Hooks!Becomes(w, [hookRun[w] EXCEPT !.pc = p])
      BY <2>2 DEF Hooks!WriteSent, Hooks!WriteFailed, Hooks!Proceeds
    <3>2. PICK r : r = [hookRun[w] EXCEPT !.pc = p] OBVIOUS
    <3>3. r \in HookRuns /\ r.pc = p /\ r.at = d BY <1>1, <3>2 DEF HookRuns, Hooks!Stages
    <3>4. Fits(r) BY <1>2, <3>3 DEF Fits
    <3> QED BY <3>1, <3>2, <3>3, <3>4
  <2> QED BY <2>1, <2>2
<1> QED BY <1>2, <1>4, <1>5, <1>6

\* A row that is answered is still there.
LEMMA AnsweringKeeps ==
  ASSUME HookInv, NEW w \in Workers,
         Hooks!DropDelivery(w) \/ Hooks!WriteSent(w) \/ Hooks!WriteFailed(w)
  PROVE  HookInv'
<1>1. DeliveriesKept BY AnswerWrites
<1>2. PICK r \in HookRuns : Hooks!Becomes(w, r) /\ Fits(r)
              /\ r.pc \in {"IDLE", "CLAIM", "COUNT", "COUNT_BAD"}
  BY AnswerWrites
<1>3. Fits(r)' BY <1>2, FitsAnyRows
<1>4. UNCHANGED <<endpoint, queued, always, desk, hookDeaths, acts>>
  BY DEF Hooks!DropDelivery, Hooks!WriteSent, Hooks!WriteFailed, Hooks!People
<1>5. EndpointsKept /\ DeskKept /\ QueuedKept BY <1>4, HookFrame
<1>6. Hooks!ActiveEndpointsHear' BY <1>1, <1>5, StillHeard
<1> QED BY <1>1, <1>2, <1>3, <1>5, <1>6, HookRunStep DEF QueuedKept

\* Only what is switched off is no longer active.
LEMMA OneEndpoint ==
  ASSUME HookInv, NEW e \in Endpoints, NEW row \in EndpointRows,
         endpoint' = [endpoint EXCEPT ![e] = row],
         \/ always' = always \ {e}
         \/ always' = always /\ (endpoint[e].status = "ACTIVE" => row.status = "ACTIVE")
  PROVE  EndpointsKept
BY HookTypes DEF EndpointsKept, HookInv, Hooks!Active

\* Counting touches no status; switching off takes an endpoint from those that were
\* active all along.
LEMMA CountingKeeps ==
  ASSUME HookInv, NEW w \in Workers,
         Hooks!CountSuccess(w) \/ Hooks!CountFailure(w) \/ Hooks!SwitchOff(w)
  PROVE  /\ HookInv' /\ UNCHANGED delivery
         /\ hookRun[w].pc \notin Hooks!Holding
         /\ \E r \in HookRuns : Hooks!Becomes(w, r) /\ r.pc \notin Hooks!Holding
<1> DEFINE e == hookRun[w].at[2]
<1>1. hookRun[w] \in HookRuns /\ endpoint \in [Endpoints -> EndpointRows]
  BY HookTypes DEF HookInv
<1>2. /\ hookRun[w].pc \in {"COUNT", "COUNT_BAD", "SWITCH"}
      /\ UNCHANGED <<queued, delivery, desk, hookDeaths, acts>>
  BY DEF Hooks!CountSuccess, Hooks!CountFailure, Hooks!SwitchOff, Hooks!At, Hooks!People
<1>3. hookRun[w].at \in Hooks!Deliveries
  BY <1>2 DEF HookInv, RunsFit, Fits, HookAnswers
<1>4. e \in Endpoints BY <1>3 DEF Hooks!Deliveries
<1> HIDE DEF e
<1>5. PICK old \in EndpointRows : old = endpoint[e] BY <1>1, <1>4
<1>6. EndpointsKept
  <2>1. CASE Hooks!CountSuccess(w)
    <3>1. PICK row : row = [old EXCEPT !.fails = 0] OBVIOUS
    <3>2. row \in EndpointRows /\ row.status = old.status
      BY <3>1, HooksAssumption DEF HooksAssumption, EndpointRows
    <3>3. endpoint' = [endpoint EXCEPT ![e] = row] /\ always' = always
      BY <1>5, <2>1, <3>1 DEF Hooks!CountSuccess, e
    <3> QED BY <1>4, <1>5, <3>2, <3>3, OneEndpoint
  <2>2. CASE Hooks!CountFailure(w)
    <3>1. PICK n \in 0 .. DisableAfter :
            n = IF endpoint[e].fails + 1 > DisableAfter THEN DisableAfter ELSE endpoint[e].fails + 1
      BY <1>5, HooksAssumption DEF HooksAssumption, EndpointRows
    <3>2. PICK row : row = [old EXCEPT !.fails = n] OBVIOUS
    <3>3. row \in EndpointRows /\ row.status = old.status BY <3>2 DEF EndpointRows
    <3>4. endpoint' = [endpoint EXCEPT ![e] = row] /\ always' = always
      BY <1>5, <2>2, <3>1, <3>2 DEF Hooks!CountFailure, e
    <3> QED BY <1>4, <1>5, <3>3, <3>4, OneEndpoint
  <2>3. CASE Hooks!SwitchOff(w)
    <3>1. PICK s \in {"NONE", "PENDING_APPROVAL", "ACTIVE", "DISABLED"} :
            s = IF old.status = "ACTIVE" THEN "DISABLED" ELSE old.status
      BY DEF EndpointRows
    <3>2. PICK row : row = [old EXCEPT !.status = s] OBVIOUS
    <3>3. row \in EndpointRows BY <3>2 DEF EndpointRows
    <3>4. endpoint' = [endpoint EXCEPT ![e] = row] /\ always' = always \ {e}
      BY <1>5, <2>3, <3>1, <3>2 DEF Hooks!SwitchOff, e
    <3> QED BY <1>4, <3>3, <3>4, OneEndpoint
  <2> QED BY <2>1, <2>2, <2>3
<1>7. DeliveriesKept /\ DeskKept /\ QueuedKept BY <1>2, HookFrame
<1>8. PICK r \in HookRuns : Hooks!Becomes(w, r) /\ Fits(r) /\ r.pc \in {"IDLE", "CLAIM", "SWITCH"}
  <2>1. CASE Hooks!Becomes(w, Hooks!Rest(w)) BY <2>1, RestFits DEF HookInv
  <2>2. CASE Hooks!Proceeds(w, "SWITCH")
    <3>1. PICK r : r = [hookRun[w] EXCEPT !.pc = "SWITCH"] OBVIOUS
    <3>2. r \in HookRuns /\ r.pc = "SWITCH" /\ r.at = hookRun[w].at
      BY <1>1, <3>1 DEF HookRuns, Hooks!Stages
    <3>3. Fits(r) BY <1>3, <3>2 DEF Fits
    <3> QED BY <2>2, <3>1, <3>2, <3>3 DEF Hooks!Proceeds
  <2> QED BY <2>1, <2>2 DEF Hooks!CountSuccess, Hooks!CountFailure, Hooks!SwitchOff
<1>9. Fits(r)' BY <1>8, FitsAnyRows
<1>10. Hooks!ActiveEndpointsHear' BY <1>6, <1>7, StillHeard
<1>11. HookInv' BY <1>6, <1>7, <1>8, <1>9, <1>10, HookRunStep DEF QueuedKept
<1> QED BY <1>2, <1>8, <1>11 DEF Hooks!Holding

\* What administrators do to endpoints leaves those active that were so all along.
LEMMA AdministersKeeps ==
  ASSUME HookInv, NEW a \in Admins, NEW e \in Endpoints,
         \/ Hooks!Approve(a) \/ Hooks!Reject(a) \/ Hooks!Register(a, e)
         \/ Hooks!Consider(a, e) \/ Hooks!Reenable(a, e) \/ Hooks!Disable(e)
  PROVE  HookInv' /\ UNCHANGED <<delivery, hookRun>>
<1>1. /\ UNCHANGED <<queued, delivery, hookRun, hookDeaths>>
      /\ acts' = acts \/ (acts < MaxActs /\ acts' = acts + 1)
  BY DEF Hooks!Approve, Hooks!Reject, Hooks!Register, Hooks!Consider, Hooks!Reenable,
         Hooks!Disable, Hooks!OnEndpoints, Hooks!Acts
<1>2. /\ endpoint \in [Endpoints -> EndpointRows] /\ always \subseteq Endpoints
      /\ desk \in [Admins -> Endpoints \cup {Nobody}]
      /\ acts' \in 0 .. MaxActs /\ hookDeaths' \in 0 .. MaxDeaths
  BY <1>1, HookTypes, HooksAssumption DEF HooksAssumption, HookInv
<1>3. DeskKept
  <2>1. desk' \in [Admins -> Endpoints \cup {Nobody}]
    BY <1>2 DEF Hooks!Approve, Hooks!Reject, Hooks!Register, Hooks!Consider, Hooks!Reenable,
                Hooks!Disable
  <2> QED BY <1>2, <2>1 DEF DeskKept
<1>4. EndpointsKept
  <2>1. CASE Hooks!Consider(a, e) BY <2>1, HookFrame DEF Hooks!Consider
  <2>2. CASE Hooks!Approve(a) \/ Hooks!Reject(a)
    <3>1. PICK x \in Endpoints, old \in EndpointRows : x = desk[a] /\ old = endpoint[x]
      BY <1>2, <2>2 DEF Hooks!Approve, Hooks!Reject
    <3>2. CASE Hooks!Approve(a)
      <4>1. PICK row : row = [old EXCEPT !.status = "ACTIVE", !.approvedBy = a, !.fails = 0]
        OBVIOUS
      <4>2. row \in EndpointRows /\ row.status = "ACTIVE"
        <5>1. 0 \in 0 .. DisableAfter BY HooksAssumption DEF HooksAssumption
        <5> QED BY <4>1, <5>1 DEF EndpointRows
      <4>3. endpoint' = [endpoint EXCEPT ![x] = row] /\ always' = always
        BY <1>2, <3>1, <3>2, <4>1 DEF Hooks!Approve
      <4> QED BY <4>2, <4>3, OneEndpoint
    <3>3. CASE Hooks!Reject(a)
      <4>1. PICK row : row = [old EXCEPT !.status = "DISABLED"] OBVIOUS
      <4>2. row \in EndpointRows BY <4>1 DEF EndpointRows
      <4>3. endpoint' = [endpoint EXCEPT ![x] = row] /\ always' = always \ {x}
        BY <1>2, <3>1, <3>3, <4>1 DEF Hooks!Reject
      <4> QED BY <4>2, <4>3, OneEndpoint
    <3> QED BY <2>2, <3>2, <3>3
  <2>3. CASE Hooks!Register(a, e) \/ Hooks!Reenable(a, e) \/ Hooks!Disable(e)
    <3>1. PICK old \in EndpointRows : old = endpoint[e] BY <1>2
    <3>2. CASE Hooks!Register(a, e)
      <4>1. PICK row : row = [old EXCEPT !.status = "PENDING_APPROVAL", !.createdBy = a] OBVIOUS
      <4>2. row \in EndpointRows BY <4>1 DEF EndpointRows
      <4>3. /\ endpoint' = [endpoint EXCEPT ![e] = row] /\ always' = always
            /\ endpoint[e].status # "ACTIVE"
        BY <1>2, <3>1, <3>2, <4>1 DEF Hooks!Register
      <4> QED BY <4>2, <4>3, OneEndpoint
    <3>3. CASE Hooks!Reenable(a, e)
      <4>1. PICK row : row = [old EXCEPT !.status = "PENDING_APPROVAL",
                                         !.createdBy = a, !.approvedBy = Nobody]
        OBVIOUS
      <4>2. row \in EndpointRows BY <4>1 DEF EndpointRows
      <4>3. /\ endpoint' = [endpoint EXCEPT ![e] = row] /\ always' = always
            /\ endpoint[e].status # "ACTIVE"
        BY <1>2, <3>1, <3>3, <4>1 DEF Hooks!Reenable
      <4> QED BY <4>2, <4>3, OneEndpoint
    <3>4. CASE Hooks!Disable(e)
      <4>1. PICK row : row = [old EXCEPT !.status = "DISABLED"] OBVIOUS
      <4>2. row \in EndpointRows BY <4>1 DEF EndpointRows
      <4>3. endpoint' = [endpoint EXCEPT ![e] = row] /\ always' = always \ {e}
        BY <1>2, <3>1, <3>4, <4>1 DEF Hooks!Disable
      <4> QED BY <4>2, <4>3, OneEndpoint
    <3> QED BY <2>3, <3>2, <3>3, <3>4
  <2> QED BY <2>1, <2>2, <2>3
<1>5. DeliveriesKept /\ QueuedKept BY <1>1, HookFrame
<1>6. Hooks!ActiveEndpointsHear' BY <1>4, <1>5, StillHeard
<1>7. hookRun' \in [Workers -> HookRuns] BY <1>1, HookTypes DEF HookInv
<1> QED BY <1>1, <1>3, <1>4, <1>5, <1>6, <1>7, HookStep DEF QueuedKept

\* A test event, or a delivery that failed: a request queues it and works on it.
LEMMA RequestKeeps ==
  ASSUME HookInv, NEW w \in Workers, NEW d \in Hooks!Deliveries,
         \/ Hooks!Retry(w, d)
         \/ \E e \in Endpoints : d = <<TestEvent, e>> /\ Hooks!Ping(w, e)
  PROVE  /\ HookInv'
         /\ delivery' = [delivery EXCEPT ![d] = Hooks!Queued]
         /\ delivery[d].status \in {"NONE", "FAILED"} /\ hookRun[w].pc = "IDLE"
         /\ \E r \in HookRuns : Hooks!Becomes(w, r) /\ r.pc = "CLAIM"
<1>1. /\ UNCHANGED <<endpoint, queued, always, hookDeaths, desk>>
      /\ acts < MaxActs /\ acts' = acts + 1 /\ hookRun[w].pc = "IDLE"
      /\ delivery' = [delivery EXCEPT ![d] = Hooks!Queued]
      /\ delivery[d].status \in {"NONE", "FAILED"}
      /\ Hooks!Becomes(w, [Hooks!Idle EXCEPT !.pc = "CLAIM", !.due = {d}])
  <2>1. CASE Hooks!Retry(w, d) BY <2>1 DEF Hooks!Retry, Hooks!Acts, Hooks!At
  <2>2. CASE \E e \in Endpoints : d = <<TestEvent, e>> /\ Hooks!Ping(w, e)
    <3>1. PICK e \in Endpoints : d = <<TestEvent, e>> /\ Hooks!Ping(w, e) BY <2>2
    <3> QED BY <3>1, Zenon DEF Hooks!Ping, Hooks!Acts, Hooks!At
  <2> QED BY <2>1, <2>2
<1>2. DeskKept
  <2>1. acts' \in 0 .. MaxActs BY <1>1, HookTypes, HooksAssumption DEF HooksAssumption, HookInv
  <2> QED BY <1>1, <2>1, HookTypes DEF DeskKept, HookInv
<1>3. /\ Hooks!Queued \in HookRows /\ Hooks!Queued.status = "PENDING"
      /\ Hooks!Queued.attempts < HookAttempts
  BY HooksAssumption DEF HooksAssumption, Hooks!Queued, Hooks!NoRow, HookRows
<1>4. DeliveriesKept BY <1>1, <1>3, HookTypes DEF DeliveriesKept, HookInv, MayFail
<1>5. EndpointsKept /\ QueuedKept BY <1>1, HookFrame
<1>6. Hooks!ActiveEndpointsHear' BY <1>4, <1>5, StillHeard
<1>7. PICK r : r = [Hooks!Idle EXCEPT !.pc = "CLAIM", !.due = {d}] OBVIOUS
<1>8. r \in HookRuns /\ r.pc = "CLAIM" /\ Fits(r)
  <2>1. {d} \in SUBSET Hooks!Deliveries OBVIOUS
  <2> QED BY <1>7, <2>1, ClaimingFits, Zenon
<1>9. Fits(r)' BY <1>8, FitsAnyRows
<1>10. Hooks!Becomes(w, r) BY <1>1, <1>7
<1>11. HookInv' BY <1>2, <1>4, <1>5, <1>6, <1>8, <1>9, <1>10, HookRunStep DEF QueuedKept
<1> QED BY <1>1, <1>8, <1>10, <1>11

\* A new event is not queued yet; time changes no status.
LEMMA PublishingKeeps ==
  ASSUME HookInv, NEW m \in HookMessages, Hooks!Publish(m)
  PROVE  HookInv' /\ UNCHANGED <<delivery, hookRun>>
<1>1. /\ UNCHANGED <<endpoint, delivery, hookRun, always, desk, hookDeaths, acts>>
      /\ queued' = [queued EXCEPT ![m] = "NEW"]
  BY DEF Hooks!Publish, Hooks!People
<1>2. QueuedKept BY <1>1, HookTypes DEF QueuedKept, HookInv
<1>3. DeliveriesKept /\ EndpointsKept /\ DeskKept BY <1>1, HookFrame
<1>4. Hooks!ActiveEndpointsHear' BY <1>2, <1>3, StillHeard
<1>5. hookRun' \in [Workers -> HookRuns] BY <1>1, HookTypes DEF HookInv
<1> QED BY <1>1, <1>2, <1>3, <1>4, <1>5, HookStep DEF QueuedKept

\* A tick shortens waits and ages the runs that hold a delivery.
LEMMA HooksTickMoves ==
  ASSUME HookInv, Hooks!Tick
  PROVE  /\ \A d \in Hooks!Deliveries :
              /\ delivery[d] \in HookRows /\ delivery'[d] \in HookRows
              /\ delivery'[d].status = delivery[d].status
              /\ delivery'[d].attempts = delivery[d].attempts
              /\ delivery'[d].wait = IF delivery[d].wait > 0 THEN delivery[d].wait - 1 ELSE 0
         /\ \A w \in Workers :
              /\ hookRun[w] \in HookRuns /\ hookRun'[w] \in HookRuns
              /\ hookRun'[w].pc = hookRun[w].pc /\ hookRun'[w].at = hookRun[w].at
              /\ hookRun'[w].ends = hookRun[w].ends /\ hookRun'[w].msgs = hookRun[w].msgs
              /\ hookRun[w].pc \in Hooks!Holding =>
                   hookRun'[w].age = hookRun[w].age + 1 /\ hookRun'[w].age <= MaxSend
              /\ hookRun[w].pc \notin Hooks!Holding => hookRun'[w].age = hookRun[w].age
<1>1. ASSUME NEW d \in Hooks!Deliveries
      PROVE  /\ delivery[d] \in HookRows /\ delivery'[d] \in HookRows
             /\ delivery'[d].status = delivery[d].status
             /\ delivery'[d].attempts = delivery[d].attempts
             /\ delivery'[d].wait = IF delivery[d].wait > 0 THEN delivery[d].wait - 1 ELSE 0
  <2>1. delivery[d] \in HookRows BY HookTypes DEF HookInv
  <2>2. delivery'[d] = [delivery[d] EXCEPT !.wait = IF @ > 0 THEN @ - 1 ELSE 0]
    BY DEF Hooks!Tick
  <2> QED BY <2>1, <2>2 DEF HookRows
<1>2. ASSUME NEW w \in Workers
      PROVE  /\ hookRun[w] \in HookRuns /\ hookRun'[w] \in HookRuns
             /\ hookRun'[w].pc = hookRun[w].pc /\ hookRun'[w].at = hookRun[w].at
             /\ hookRun'[w].ends = hookRun[w].ends /\ hookRun'[w].msgs = hookRun[w].msgs
             /\ hookRun[w].pc \in Hooks!Holding =>
                  hookRun'[w].age = hookRun[w].age + 1 /\ hookRun'[w].age <= MaxSend
             /\ hookRun[w].pc \notin Hooks!Holding => hookRun'[w].age = hookRun[w].age
  <2>1. hookRun[w] \in HookRuns BY HookTypes DEF HookInv
  <2>2. CASE hookRun[w].pc \in Hooks!Holding
    <3>1. hookRun'[w] = [hookRun[w] EXCEPT !.age = @ + 1] BY <2>2 DEF Hooks!Tick
    <3>2. hookRun[w].age + 1 \in 0 .. MaxSend
      BY <2>1, <2>2, OutboxAssumption DEF OutboxAssumption, Hooks!Tick, HookRuns
    <3> QED BY <2>1, <2>2, <3>1, <3>2 DEF HookRuns
  <2>3. CASE hookRun[w].pc \notin Hooks!Holding BY <2>1, <2>3 DEF Hooks!Tick
  <2> QED BY <2>2, <2>3
<1> QED BY <1>1, <1>2

\* Time changes no status and lists nothing.
LEMMA HooksTickKeeps == ASSUME HookInv, Hooks!Tick PROVE HookInv'
<1>1. UNCHANGED <<endpoint, queued, always, desk, hookDeaths, acts>>
  BY DEF Hooks!Tick, Hooks!People
<1>2. EndpointsKept /\ DeskKept /\ QueuedKept BY <1>1, HookFrame
<1>3. DeliveriesKept
  <2>1. delivery' \in [Hooks!Deliveries -> HookRows] BY HooksTickMoves DEF Hooks!Tick
  <2> QED BY <2>1, HooksTickMoves DEF DeliveriesKept, HookInv, MayFail
<1>4. Hooks!ActiveEndpointsHear' BY <1>2, <1>3, StillHeard
<1>5. hookRun' \in [Workers -> HookRuns] BY HooksTickMoves DEF Hooks!Tick
<1>6. ASSUME NEW v \in Workers PROVE Fits(hookRun[v])'
  <2>1. PICK r \in HookRuns : r = hookRun[v] BY HooksTickMoves
  <2>2. Fits(r) BY <2>1 DEF HookInv, RunsFit
  <2>3. Fits(r)' BY <1>2, <1>3, <2>2, StillFits
  <2>4. /\ hookRun'[v].pc = r.pc /\ hookRun'[v].at = r.at
        /\ hookRun'[v].ends = r.ends /\ hookRun'[v].msgs = r.msgs
        /\ r.pc = "CLAIM" => hookRun'[v].age = r.age
    BY <2>1, HooksTickMoves DEF Hooks!Holding
  <2> QED BY <2>3, <2>4 DEF Fits
<1> QED BY <1>2, <1>3, <1>4, <1>5, <1>6, HookStep DEF QueuedKept

\* Every step of every run, and of every administrator, keeps the invariant.
LEMMA HooksNext == HookInv /\ [Hooks!Next]_hookVars => HookInv'
<1> SUFFICES ASSUME HookInv, [Hooks!Next]_hookVars PROVE HookInv' OBVIOUS
<1>1. ASSUME NEW m \in HookMessages, Hooks!Publish(m) PROVE HookInv' BY <1>1, PublishingKeeps
<1>2. ASSUME NEW w \in Workers, Hooks!Works(w) \/ Hooks!Die(w) PROVE HookInv'
  <2>1. CASE Hooks!ListEndpoints(w) \/ Hooks!ListMessages(w) \/ Hooks!ListDue(w)
    BY <2>1, ListingKeeps
  <2>2. CASE Hooks!NothingToSend(w) BY <2>2, NothingToSendKeeps
  <2>3. CASE Hooks!CreateRows(w) BY <2>3, CreateRowsKeeps
  <2>4. CASE Hooks!MarkQueued(w) BY <2>4, MarkKeeps
  <2>5. CASE Hooks!Claim(w) \/ Hooks!Load(w) \/ Hooks!PostDelivery(w) \/ Hooks!Die(w)
    BY <2>5, DeliveringKeeps
  <2>6. CASE Hooks!DropDelivery(w) \/ Hooks!WriteSent(w) \/ Hooks!WriteFailed(w)
    BY <2>6, AnsweringKeeps
  <2>7. CASE Hooks!CountSuccess(w) \/ Hooks!CountFailure(w) \/ Hooks!SwitchOff(w)
    BY <2>7, CountingKeeps
  <2> QED BY <1>2, <2>1, <2>2, <2>3, <2>4, <2>5, <2>6, <2>7 DEF Hooks!Works
<1>3. ASSUME NEW a \in Admins, NEW e \in Endpoints,
             \/ Hooks!Register(a, e) \/ Hooks!Consider(a, e) \/ Hooks!Reenable(a, e)
      PROVE  HookInv'
  BY <1>3, AdministersKeeps
<1>4. ASSUME NEW a \in Admins, Hooks!Approve(a) \/ Hooks!Reject(a) PROVE HookInv'
  <2>1. PICK e \in Endpoints : e = desk[a]
    BY <1>4, HookTypes DEF HookInv, Hooks!Approve, Hooks!Reject
  <2> QED BY <1>4, AdministersKeeps
<1>5. ASSUME NEW e \in Endpoints, Hooks!Disable(e) PROVE HookInv'
  <2>1. PICK a \in Admins : TRUE BY HooksAssumption DEF HooksAssumption
  <2> QED BY <1>5, AdministersKeeps
<1>6. ASSUME NEW w \in Workers, NEW e \in Endpoints, Hooks!Ping(w, e) PROVE HookInv'
  <2>1. PICK d \in Hooks!Deliveries : d = <<TestEvent, e>> BY DEF Hooks!Deliveries
  <2> QED BY <1>6, <2>1, RequestKeeps
<1>7. ASSUME NEW w \in Workers, NEW d \in Hooks!Deliveries, Hooks!Retry(w, d) PROVE HookInv'
  BY <1>7, RequestKeeps
<1>8. CASE Hooks!Tick BY <1>8, HooksTickKeeps
<1>9. CASE UNCHANGED hookVars
  <2>1. UNCHANGED <<endpoint, queued, delivery, hookRun, desk, always, hookDeaths, acts>>
    BY <1>9 DEF hookVars
  <2>2. DeliveriesKept /\ EndpointsKept /\ DeskKept /\ QueuedKept BY <2>1, HookFrame
  <2>3. Hooks!ActiveEndpointsHear' BY <2>2, StillHeard
  <2>4. hookRun' \in [Workers -> HookRuns] BY <2>1, HookTypes DEF HookInv
  <2> QED BY <2>1, <2>2, <2>3, <2>4, HookStep DEF QueuedKept
<1> QED BY <1>1, <1>2, <1>3, <1>4, <1>5, <1>6, <1>7, <1>8, <1>9
    DEF Hooks!Next, Hooks!Administers

\* The invariant holds of the composed run: the steps of the outbox leave webhooks alone.
LEMMA HooksInvariant == MCSpec => []HookInv
<1>1. MCInit => HookInv BY HooksInit DEF MCInit
<1>2. HookInv /\ [MCNext]_allVars => HookInv'
  <2> SUFFICES ASSUME HookInv, [MCNext]_allVars PROVE HookInv' OBVIOUS
  <2>1. [Hooks!Next]_hookVars BY DEF MCNext, InOutbox, InHooks, allVars
  <2> QED BY <2>1, HooksNext
<1> QED BY <1>1, <1>2, PTL DEF MCSpec

\* fanOut: "each message is fanned out to the matching active endpoints once", for any
\* endpoints, events, runs that fan out together and deaths, and whatever the lease: an
\* event that counts as queued has its row at every subscribed endpoint that was active
\* all along.
THEOREM EndpointsHear == MCSpec => []ActiveEndpointsHear
<1>1. HookInv => ActiveEndpointsHear BY DEF HookInv, ActiveEndpointsHear
<1> QED BY <1>1, HooksInvariant, PTL
-----------------------------------------------------------------------------
(* Webhooks: delivery under leases is exclusive delivery. *)

\* A delivery somebody works on is pending, and due when its lease ends.
HookLease == \A w \in Workers, d \in Hooks!Deliveries : Hooks!Holds(w, d) =>
  delivery[d].status = "PENDING" /\ delivery[d].wait = Lease - hookRun[w].age

\* Nobody else works on it.
HookHolder == \A v, w \in Workers, d \in Hooks!Deliveries :
  Hooks!Holds(v, d) /\ Hooks!Holds(w, d) => v = w

LeaseInv == LeaseOutlastsSend /\ HookInv /\ HookLease /\ HookHolder

\* LeasedDelivery's view of the deliveries.
HookHolderOf(d) == IF \E w \in Workers : Hooks!Holds(w, d)
                   THEN CHOOSE w \in Workers : Hooks!Holds(w, d) ELSE Nobody
HookStatus == [d \in Hooks!Deliveries |-> delivery[d].status]
HookHolders == [d \in Hooks!Deliveries |-> HookHolderOf(d)]

\* Who holds a delivery is the one who has it, or nobody.
LEMMA HookHolderIs ==
  ASSUME HookHolder, NEW d \in Hooks!Deliveries
  PROVE  /\ \A w \in Workers : Hooks!Holds(w, d) => HookHolderOf(d) = w
         /\ (\A w \in Workers : ~Hooks!Holds(w, d)) => HookHolderOf(d) = Nobody
<1>1. ASSUME NEW w \in Workers, Hooks!Holds(w, d) PROVE HookHolderOf(d) = w
  <2>1. \A v \in Workers : Hooks!Holds(v, d) <=> v = w BY <1>1 DEF HookHolder
  <2> QED BY <1>1, <2>1, Zenon DEF HookHolderOf
<1> QED BY <1>1 DEF HookHolderOf

\* A step that changes who holds a delivery changes its holder, and no other step does.
LEMMA HookSameHolder ==
  ASSUME NEW d \in Hooks!Deliveries,
         \A v \in Workers : Hooks!Holds(v, d)' <=> Hooks!Holds(v, d)
  PROVE  HookHolderOf(d)' = HookHolderOf(d)
BY Zenon DEF HookHolderOf

\* A delivery that nobody holds has no holder.
LEMMA HookNoHolder ==
  ASSUME NEW d \in Hooks!Deliveries, \A v \in Workers : ~Hooks!Holds(v, d)'
  PROVE  HookHolderOf(d)' = Nobody
BY DEF HookHolderOf

\* Nobody holds a delivery that is not pending, or is due.
LEMMA HeldIsPending ==
  ASSUME LeaseInv, NEW d \in Hooks!Deliveries,
         delivery[d].status # "PENDING" \/ delivery[d].wait = 0
  PROVE  /\ \A w \in Workers : ~Hooks!Holds(w, d)
         /\ HookHolderOf(d) = Nobody /\ HookHolders[d] = Nobody
<1>1. ASSUME NEW w \in Workers, Hooks!Holds(w, d) PROVE FALSE
  <2>1. delivery[d].wait = Lease - hookRun[w].age /\ delivery[d].status = "PENDING"
    BY <1>1 DEF LeaseInv, HookLease
  <2>2. hookRun[w].age \in 0 .. MaxSend BY HookTypes DEF LeaseInv, HookInv, HookRuns
  <2> QED BY <2>1, <2>2, OutboxAssumption DEF OutboxAssumption, LeaseInv, LeaseOutlastsSend
<1> QED BY <1>1 DEF HookHolderOf, HookHolders

\* Steps in which nobody takes a delivery or lets go of one, and no row of one that is
\* held is written.
HoldsSame == \A v \in Workers, d \in Hooks!Deliveries :
  /\ Hooks!Holds(v, d)' <=> Hooks!Holds(v, d)
  /\ Hooks!Holds(v, d) => /\ hookRun'[v].age = hookRun[v].age
                          /\ delivery'[d].status = delivery[d].status
                          /\ delivery'[d].wait = delivery[d].wait

\* Such a step disturbs no lease.
LEMMA SameKeepsLease ==
  ASSUME LeaseInv, HookInv', HoldsSame
  PROVE  LeaseInv' /\ HookHolders' = HookHolders
<1>1. HookLease' BY DEF HoldsSame, LeaseInv, HookLease
<1>2. HookHolder' BY DEF HoldsSame, LeaseInv, HookHolder
<1>3. \A d \in Hooks!Deliveries : HookHolderOf(d)' = HookHolderOf(d)
  BY HookSameHolder DEF HoldsSame
<1> QED BY <1>1, <1>2, <1>3 DEF LeaseInv, LeaseOutlastsSend, HookHolders

\* One run moves, holding as much as before, and rows stay but for some nobody holds.
LEMMA RunHoldsSame ==
  ASSUME LeaseInv, NEW w \in Workers, NEW r \in HookRuns, Hooks!Becomes(w, r),
         \/ r.pc \notin Hooks!Holding /\ hookRun[w].pc \notin Hooks!Holding
         \/ /\ r.pc \in Hooks!Holding /\ hookRun[w].pc \in Hooks!Holding
            /\ r.at = hookRun[w].at /\ r.age = hookRun[w].age,
         \A d \in Hooks!Deliveries :
           delivery'[d] = delivery[d] \/ delivery[d].status # "PENDING"
  PROVE  HoldsSame
<1>1. /\ hookRun'[w] = r /\ \A v \in Workers \ {w} : hookRun'[v] = hookRun[v]
  BY HookRunMoves DEF LeaseInv, HookInv
<1>2. ASSUME NEW v \in Workers, NEW d \in Hooks!Deliveries
      PROVE  /\ Hooks!Holds(v, d)' <=> Hooks!Holds(v, d)
             /\ Hooks!Holds(v, d) => hookRun'[v].age = hookRun[v].age
  BY <1>1 DEF Hooks!Holds
<1>3. ASSUME NEW v \in Workers, NEW d \in Hooks!Deliveries, Hooks!Holds(v, d)
      PROVE  delivery'[d] = delivery[d]
  BY <1>3, HeldIsPending
<1> QED BY <1>2, <1>3 DEF HoldsSame

\* A run that lets go of what it holds, writing nothing but that row.
LEMMA RunLetsGo ==
  ASSUME LeaseInv, HookInv', NEW w \in Workers, NEW r \in HookRuns, Hooks!Becomes(w, r),
         r.pc \notin Hooks!Holding, hookRun[w].pc \in Hooks!Holding,
         \A d \in Hooks!Deliveries \ {hookRun[w].at} : delivery'[d] = delivery[d]
  PROVE  /\ LeaseInv'
         /\ hookRun[w].at \in Hooks!Deliveries
         /\ delivery[hookRun[w].at].status = "PENDING"
         /\ HookHolders[hookRun[w].at] # Nobody
         /\ HookHolders' = [HookHolders EXCEPT ![hookRun[w].at] = Nobody]
<1> DEFINE c == hookRun[w].at
<1>1. /\ hookRun'[w] = r /\ \A v \in Workers \ {w} : hookRun'[v] = hookRun[v]
  BY HookRunMoves DEF LeaseInv, HookInv
<1>2. c \in Hooks!Deliveries /\ Hooks!Holds(w, c)
  BY DEF LeaseInv, HookInv, RunsFit, Fits, HookAnswers, Hooks!Holds
<1>3. \A v \in Workers \ {w} : ~Hooks!Holds(v, c) BY <1>2 DEF LeaseInv, HookHolder
<1>4. \A d \in Hooks!Deliveries : ~Hooks!Holds(w, d)' BY <1>1 DEF Hooks!Holds
<1>5. \A v \in Workers \ {w}, d \in Hooks!Deliveries : Hooks!Holds(v, d)' <=> Hooks!Holds(v, d)
  BY <1>1 DEF Hooks!Holds
<1>6. \A d \in Hooks!Deliveries : Hooks!Holds(w, d) => d = c BY DEF Hooks!Holds
<1> HIDE DEF c
<1>7. HookLease'
  <2> SUFFICES ASSUME NEW v \in Workers, NEW d \in Hooks!Deliveries, Hooks!Holds(v, d)'
               PROVE  delivery'[d].status = "PENDING" /\ delivery'[d].wait = Lease - hookRun'[v].age
    BY DEF HookLease
  <2>1. v # w /\ Hooks!Holds(v, d) /\ hookRun'[v] = hookRun[v] BY <1>1, <1>4, <1>5
  <2>2. d # c BY <1>3, <2>1
  <2>3. delivery'[d] = delivery[d] BY <2>2 DEF c
  <2> QED BY <2>1, <2>3 DEF LeaseInv, HookLease
<1>8. HookHolder' BY <1>4, <1>5 DEF LeaseInv, HookHolder
<1>9. ASSUME NEW d \in Hooks!Deliveries \ {c} PROVE HookHolderOf(d)' = HookHolderOf(d)
  <2>1. \A v \in Workers : Hooks!Holds(v, d)' <=> Hooks!Holds(v, d) BY <1>4, <1>5, <1>6
  <2> QED BY <2>1, HookSameHolder
<1>10. ASSUME NEW d \in Hooks!Deliveries, d = c PROVE HookHolderOf(d)' = Nobody
  <2>1. \A v \in Workers : ~Hooks!Holds(v, d)' BY <1>3, <1>4, <1>5, <1>10
  <2> QED BY <2>1, HookNoHolder
<1>11. HookHolders' = [d \in Hooks!Deliveries |-> HookHolderOf(d)'] BY DEF HookHolders
<1>12. HookHolders' = [HookHolders EXCEPT ![c] = Nobody]
  BY <1>9, <1>10, <1>11 DEF HookHolders
<1>13. HookHolderOf(c) = w BY <1>2, HookHolderIs DEF LeaseInv
<1>14. HookHolders[c] # Nobody
  BY <1>2, <1>13, OutboxAssumption DEF OutboxAssumption, HookHolders
<1>15. delivery[c].status = "PENDING" BY <1>2 DEF LeaseInv, HookLease
<1> QED BY <1>2, <1>7, <1>8, <1>12, <1>14, <1>15 DEF LeaseInv, LeaseOutlastsSend, c

\* What a step of webhooks is to LeasedDelivery.
HookMaps == Hooks!Leased!Next \/ UNCHANGED <<HookStatus, HookHolders>>

\* A step that changes no status changes nothing of the answers.
LEMMA SameStatus ==
  ASSUME \A d \in Hooks!Deliveries : delivery'[d].status = delivery[d].status
  PROVE  HookStatus' = HookStatus
BY DEF HookStatus

\* A run that reads, once it has the claim, and one that has its answer.
LEMMA LoadKeeps ==
  ASSUME LeaseInv, NEW w \in Workers, Hooks!Load(w) \/ Hooks!PostDelivery(w)
  PROVE  \E r \in HookRuns : Hooks!Becomes(w, r) /\ Keeps(w, r)
<1>1. hookRun[w] \in HookRuns /\ Fits(hookRun[w]) /\ hookRun[w].pc \in Hooks!Holding
  BY HookTypes
  DEF LeaseInv, HookInv, RunsFit, Hooks!Load, Hooks!PostDelivery, Hooks!At, Hooks!Holding
<1>2. hookRun[w].at \in Hooks!Deliveries /\ Hooks!Holds(w, hookRun[w].at)
  BY <1>1 DEF Fits, HookAnswers, Hooks!Holds
<1>3. delivery[hookRun[w].at].status = "PENDING" BY <1>2 DEF LeaseInv, HookLease
<1>4. \E p \in {"POST", "DROP", "OK", "BAD"} :
        \E n : Hooks!Becomes(w, [hookRun[w] EXCEPT !.tries = n, !.pc = p])
  <2>1. CASE Hooks!Load(w)
    <3> DEFINE q == IF hookRun[w].at[2] \in Hooks!Active THEN "POST" ELSE "DROP"
               k == delivery[hookRun[w].at].attempts
    <3>1. Hooks!Becomes(w, [hookRun[w] EXCEPT !.tries = k, !.pc = q])
      BY <1>3, <2>1 DEF Hooks!Load
    <3>2. q \in {"POST", "DROP", "OK", "BAD"} OBVIOUS
    <3> HIDE DEF q, k
    <3> QED BY <3>1, <3>2, Zenon
  <2>2. CASE Hooks!PostDelivery(w)
    <3>1. PICK q \in {"OK", "BAD"} : Hooks!Becomes(w, [hookRun[w] EXCEPT !.pc = q])
      BY <2>2 DEF Hooks!PostDelivery, Hooks!Proceeds
    <3>2. [hookRun[w] EXCEPT !.pc = q] = [hookRun[w] EXCEPT !.tries = hookRun[w].tries, !.pc = q]
      BY <1>1 DEF HookRuns
    <3>3. Hooks!Becomes(w, [hookRun[w] EXCEPT !.tries = hookRun[w].tries, !.pc = q])
      BY <3>1, <3>2
    <3> QED BY <3>3, Zenon
  <2> QED BY <2>1, <2>2, Zenon
<1> PICK p \in {"POST", "DROP", "OK", "BAD"} :
      \E n : Hooks!Becomes(w, [hookRun[w] EXCEPT !.tries = n, !.pc = p])
  BY <1>4, Zenon
<1> PICK n : Hooks!Becomes(w, [hookRun[w] EXCEPT !.tries = n, !.pc = p]) BY Zenon
<1>5. PICK r : r = [hookRun[w] EXCEPT !.tries = n, !.pc = p] OBVIOUS
<1>6. r.pc = p /\ r.at = hookRun[w].at /\ r.age = hookRun[w].age
  BY <1>1, <1>5 DEF HookRuns
<1>7. PICK x \in HookRuns : Hooks!Becomes(w, x) BY WorkingKeeps DEF LeaseInv
<1>8. x = r BY <1>1, <1>5, <1>7, HookTypes DEF Hooks!Becomes, LeaseInv, HookInv
<1> QED BY <1>1, <1>6, <1>7, <1>8 DEF Keeps, Hooks!Holding

\* Steps of a run that write no row, and neither take nor let go.
LEMMA MapsHookWork ==
  ASSUME LeaseInv, HookInv', NEW w \in Workers,
         \/ Hooks!ListEndpoints(w) \/ Hooks!ListMessages(w) \/ Hooks!ListDue(w)
         \/ Hooks!NothingToSend(w) \/ Hooks!MarkQueued(w)
         \/ Hooks!Load(w) \/ Hooks!PostDelivery(w)
         \/ Hooks!CountSuccess(w) \/ Hooks!CountFailure(w) \/ Hooks!SwitchOff(w)
  PROVE  LeaseInv' /\ HookMaps
<1>1. UNCHANGED delivery
  BY DEF Hooks!ListEndpoints, Hooks!ListMessages, Hooks!ListDue, Hooks!NothingToSend,
         Hooks!MarkQueued, Hooks!Load, Hooks!PostDelivery, Hooks!CountSuccess,
         Hooks!CountFailure, Hooks!SwitchOff
<1>2. PICK r \in HookRuns : Hooks!Becomes(w, r) /\ Keeps(w, r)
  <2>1. CASE Hooks!ListEndpoints(w) \/ Hooks!ListMessages(w) \/ Hooks!ListDue(w)
    BY <2>1, ListingKeeps DEF LeaseInv
  <2>2. CASE Hooks!NothingToSend(w) \/ Hooks!MarkQueued(w)
    BY <2>2, NothingToSendKeeps, MarkKeeps DEF LeaseInv
  <2>3. CASE Hooks!Load(w) \/ Hooks!PostDelivery(w) BY <2>3, LoadKeeps
  <2>4. CASE Hooks!CountSuccess(w) \/ Hooks!CountFailure(w) \/ Hooks!SwitchOff(w)
    BY <2>4, CountingKeeps DEF LeaseInv, Keeps
  <2> QED BY <2>1, <2>2, <2>3, <2>4
<1>4. HoldsSame BY <1>1, <1>2, RunHoldsSame DEF Keeps
<1>5. LeaseInv' /\ HookHolders' = HookHolders BY <1>4, SameKeepsLease
<1> QED BY <1>1, <1>5, SameStatus DEF HookMaps

\* Rows come into being, one or many at a time, and nobody holds them yet.
LEMMA MapsNewRows ==
  ASSUME LeaseInv, HookInv', NEW w \in Workers, NEW r \in HookRuns, Hooks!Becomes(w, r),
         r.pc \notin Hooks!Holding, hookRun[w].pc \notin Hooks!Holding,
         NEW new \in SUBSET Hooks!Deliveries, \A d \in new : delivery[d].status = "NONE",
         delivery' = [d \in Hooks!Deliveries |-> IF d \in new THEN Hooks!Queued ELSE delivery[d]]
  PROVE  LeaseInv' /\ HookMaps
<1>1. \A d \in Hooks!Deliveries : delivery'[d] = delivery[d] \/ delivery[d].status # "PENDING"
  OBVIOUS
<1>2. HoldsSame BY <1>1, RunHoldsSame
<1>3. LeaseInv' /\ HookHolders' = HookHolders BY <1>2, SameKeepsLease
<1>4. HookStatus' = [d \in Hooks!Deliveries |-> IF d \in new THEN "PENDING" ELSE HookStatus[d]]
  BY DEF HookStatus, Hooks!Queued, Hooks!NoRow
<1>5. \A d \in new : HookStatus[d] = "NONE" BY DEF HookStatus
<1>6. Hooks!Leased!Create(new)
  BY <1>3, <1>4, <1>5 DEF Hooks!Leased!Create, HookStatus, HookHolders, HookHolderOf
<1> QED BY <1>3, <1>6 DEF HookMaps, Hooks!Leased!Next

\* Fan-out creates all the rows of its events in one step.
LEMMA MapsCreateRows ==
  ASSUME LeaseInv, HookInv', NEW w \in Workers, Hooks!CreateRows(w)
  PROVE  LeaseInv' /\ HookMaps
<1>1. PICK r \in HookRuns : Hooks!Becomes(w, r) /\ Keeps(w, r)
  BY CreateRowsKeeps DEF LeaseInv
<1>2. hookRun[w].pc \notin Hooks!Holding BY DEF Hooks!CreateRows, Hooks!At, Hooks!Holding
<1>3. r.pc \notin Hooks!Holding BY <1>1, <1>2 DEF Keeps
<1>4. PICK new \in SUBSET Hooks!Deliveries :
        /\ \A d \in new : delivery[d].status = "NONE"
        /\ delivery' = [d \in Hooks!Deliveries |-> IF d \in new THEN Hooks!Queued ELSE delivery[d]]
  <2> DEFINE rows == {d \in Hooks!Deliveries :
               /\ d \in Subscribed /\ d[1] \in hookRun[w].msgs /\ d[2] \in hookRun[w].ends
               /\ delivery[d].status = "NONE"}
  <2>1. delivery' = [d \in Hooks!Deliveries |-> IF d \in rows THEN Hooks!Queued ELSE delivery[d]]
    BY DEF Hooks!CreateRows
  <2>2. rows \in SUBSET Hooks!Deliveries /\ \A d \in rows : delivery[d].status = "NONE"
    OBVIOUS
  <2> HIDE DEF rows
  <2> QED BY <2>1, <2>2, Zenon
<1> QED BY <1>1, <1>2, <1>3, <1>4, MapsNewRows

\* A test event creates its row; a retry takes a delivery up again that was given up.
LEMMA MapsRequest ==
  ASSUME LeaseInv, HookInv', NEW w \in Workers, NEW d \in Hooks!Deliveries,
         \/ Hooks!Retry(w, d)
         \/ \E e \in Endpoints : d = <<TestEvent, e>> /\ Hooks!Ping(w, e)
  PROVE  LeaseInv' /\ HookMaps
<1>1. /\ delivery' = [delivery EXCEPT ![d] = Hooks!Queued]
      /\ delivery[d].status \in {"NONE", "FAILED"} /\ hookRun[w].pc = "IDLE"
  BY RequestKeeps DEF LeaseInv
<1>2. PICK r \in HookRuns : Hooks!Becomes(w, r) /\ r.pc = "CLAIM"
  BY RequestKeeps DEF LeaseInv
<1>3. delivery \in [Hooks!Deliveries -> HookRows] BY HookTypes DEF LeaseInv, HookInv
<1>4. CASE delivery[d].status = "NONE"
  <2>1. delivery' = [x \in Hooks!Deliveries |-> IF x \in {d} THEN Hooks!Queued ELSE delivery[x]]
    BY <1>1, <1>3
  <2>2. {d} \in SUBSET Hooks!Deliveries /\ \A x \in {d} : delivery[x].status = "NONE"
    BY <1>4
  <2> QED BY <1>1, <1>2, <2>1, <2>2, MapsNewRows DEF Hooks!Holding
<1>5. CASE delivery[d].status = "FAILED"
  <2>1. \A x \in Hooks!Deliveries : delivery'[x] = delivery[x] \/ delivery[x].status # "PENDING"
    BY <1>1, <1>3, <1>5
  <2>2. HoldsSame BY <1>1, <1>2, <2>1, RunHoldsSame DEF Hooks!Holding
  <2>3. LeaseInv' /\ HookHolders' = HookHolders BY <2>2, SameKeepsLease
  <2>4. HookHolders[d] = Nobody BY <1>5, HeldIsPending
  <2>5. HookStatus' = [HookStatus EXCEPT ![d] = "PENDING"] /\ HookStatus[d] = "FAILED"
    BY <1>1, <1>3, <1>5 DEF HookStatus, Hooks!Queued, Hooks!NoRow
  <2>6. Hooks!Leased!Reopen(d)
    BY <2>3, <2>4, <2>5 DEF Hooks!Leased!Reopen, HookStatus, HookHolders, HookHolderOf
  <2> QED BY <2>3, <2>6 DEF HookMaps, Hooks!Leased!Next
<1> QED BY <1>1, <1>4, <1>5

\* An answer finishes the delivery, or lets it go to be tried again.
LEMMA MapsAnswering ==
  ASSUME LeaseInv, HookInv', NEW w \in Workers,
         Hooks!DropDelivery(w) \/ Hooks!WriteSent(w) \/ Hooks!WriteFailed(w)
  PROVE  LeaseInv' /\ HookMaps
<1> DEFINE c == hookRun[w].at
<1>1. PICK r \in HookRuns : Hooks!Becomes(w, r) /\ r.pc \notin Hooks!Holding
  BY AnswerWrites DEF LeaseInv, Hooks!Holding
<1>2. PICK row \in HookRows : /\ delivery' = [delivery EXCEPT ![c] = row]
                              /\ row.status \in {"SENT", "FAILED", "PENDING"}
  BY AnswerWrites DEF LeaseInv
<1>3. hookRun[w].pc \in Hooks!Holding BY AnswerWrites DEF LeaseInv
<1>4. delivery \in [Hooks!Deliveries -> HookRows] BY HookTypes DEF LeaseInv, HookInv
<1>5. \A d \in Hooks!Deliveries \ {c} : delivery'[d] = delivery[d] BY <1>2, <1>4
<1>6. /\ LeaseInv' /\ c \in Hooks!Deliveries /\ delivery[c].status = "PENDING"
      /\ HookHolders[c] # Nobody /\ HookHolders' = [HookHolders EXCEPT ![c] = Nobody]
  BY <1>1, <1>3, <1>5, RunLetsGo
<1>7. HookStatus' = [HookStatus EXCEPT ![c] = row.status] /\ HookStatus[c] = "PENDING"
  BY <1>2, <1>4, <1>6 DEF HookStatus
<1>8. PICK d \in Hooks!Deliveries : d = c BY <1>6
<1>9. CASE row.status = "PENDING"
  <2>1. HookStatus' = HookStatus BY <1>7, <1>9 DEF HookStatus
  <2>2. Hooks!Leased!LetGo(d)
    BY <1>6, <1>8, <2>1 DEF Hooks!Leased!LetGo, HookStatus, HookHolders, HookHolderOf
  <2> QED BY <1>6, <2>2 DEF HookMaps, Hooks!Leased!Next
<1>10. CASE row.status # "PENDING"
  <2>1. row.status \in Hooks!Leased!Answers BY <1>2, <1>10 DEF Hooks!Leased!Answers
  <2>2. Hooks!Leased!Finish(d)
    BY <1>6, <1>7, <1>8, <2>1
    DEF Hooks!Leased!Finish, HookStatus, HookHolders, HookHolderOf
  <2> QED BY <1>6, <2>2 DEF HookMaps, Hooks!Leased!Next
<1> QED BY <1>9, <1>10

\* A run that ends lets go of what it holds.
LEMMA MapsDying ==
  ASSUME LeaseInv, HookInv', NEW w \in Workers, Hooks!Die(w)
  PROVE  LeaseInv' /\ HookMaps
<1>1. UNCHANGED delivery BY DEF Hooks!Die
<1>2. PICK r \in HookRuns : Hooks!Becomes(w, r) /\ r.pc = "IDLE" BY IdleFits DEF Hooks!Die
<1>3. HookStatus' = HookStatus BY <1>1, SameStatus
<1>4. CASE hookRun[w].pc \in Hooks!Holding
  <2>1. /\ LeaseInv' /\ hookRun[w].at \in Hooks!Deliveries
        /\ HookHolders[hookRun[w].at] # Nobody
        /\ HookHolders' = [HookHolders EXCEPT ![hookRun[w].at] = Nobody]
    BY <1>1, <1>2, <1>4, RunLetsGo DEF Hooks!Holding
  <2>2. PICK d \in Hooks!Deliveries : d = hookRun[w].at BY <2>1
  <2>3. Hooks!Leased!LetGo(d)
    BY <1>3, <2>1, <2>2 DEF Hooks!Leased!LetGo, HookStatus, HookHolders, HookHolderOf
  <2> QED BY <2>1, <2>3 DEF HookMaps, Hooks!Leased!Next
<1>5. CASE hookRun[w].pc \notin Hooks!Holding
  <2>1. HoldsSame BY <1>1, <1>2, <1>5, RunHoldsSame DEF Hooks!Holding
  <2> QED BY <1>3, <2>1, SameKeepsLease DEF HookMaps
<1> QED BY <1>4, <1>5

\* A claim takes a delivery that is due, which nobody holds.
LEMMA MapsClaiming ==
  ASSUME LeaseInv, HookInv', NEW w \in Workers, Hooks!Claim(w)
  PROVE  LeaseInv' /\ HookMaps
<1>1. PICK c \in hookRun[w].due :
        \/ /\ Hooks!Due(c) /\ delivery' = [delivery EXCEPT ![c].wait = Lease]
           /\ Hooks!Becomes(w, [hookRun[w] EXCEPT !.pc = "LOAD", !.at = c])
        \/ UNCHANGED delivery /\ Hooks!Becomes(w, Hooks!Idle)
        \/ UNCHANGED delivery /\ Hooks!Becomes(w, [hookRun[w] EXCEPT !.due = @ \ {c}])
  BY Zenon DEF Hooks!Claim
<1>2. hookRun[w].pc = "CLAIM" BY Zenon DEF Hooks!Claim, Hooks!At
<1>3. hookRun[w] \in HookRuns /\ hookRun[w].age = 0
  BY <1>2, HookTypes DEF LeaseInv, HookInv, RunsFit, Fits
<1>4. hookRun[w].pc \notin Hooks!Holding BY <1>2 DEF Hooks!Holding
<1>5. CASE UNCHANGED delivery
           /\ (Hooks!Becomes(w, Hooks!Idle) \/ Hooks!Becomes(w, [hookRun[w] EXCEPT !.due = @ \ {c}]))
  <2>1. PICK r : /\ Hooks!Becomes(w, r) /\ r.pc \in {"IDLE", "CLAIM"} /\ r \in HookRuns
    <3>1. CASE Hooks!Becomes(w, Hooks!Idle) BY <3>1, IdleFits
    <3>2. CASE Hooks!Becomes(w, [hookRun[w] EXCEPT !.due = @ \ {c}])
      <4>1. PICK r : r = [hookRun[w] EXCEPT !.due = @ \ {c}] OBVIOUS
      <4>2. r \in HookRuns /\ r.pc = "CLAIM" BY <1>2, <1>3, <4>1 DEF HookRuns
      <4> QED BY <3>2, <4>1, <4>2
    <3> QED BY <1>5, <3>1, <3>2
  <2>2. r.pc \notin Hooks!Holding BY <2>1 DEF Hooks!Holding
  <2>3. HoldsSame BY <1>4, <1>5, <2>1, <2>2, RunHoldsSame
  <2>4. HookStatus' = HookStatus BY <1>5, SameStatus
  <2> QED BY <2>3, <2>4, SameKeepsLease DEF HookMaps
<1>6. CASE /\ Hooks!Due(c) /\ delivery' = [delivery EXCEPT ![c].wait = Lease]
           /\ Hooks!Becomes(w, [hookRun[w] EXCEPT !.pc = "LOAD", !.at = c])
  <2>1. c \in Hooks!Deliveries BY <1>1, <1>3 DEF HookRuns
  <2>2. PICK r : r = [hookRun[w] EXCEPT !.pc = "LOAD", !.at = c] OBVIOUS
  <2>3. r \in HookRuns /\ r.pc = "LOAD" /\ r.at = c /\ r.age = 0
    BY <1>3, <2>1, <2>2 DEF HookRuns, Hooks!Stages
  <2>4. /\ hookRun'[w] = r /\ \A v \in Workers \ {w} : hookRun'[v] = hookRun[v]
    BY <1>6, <2>2, <2>3, HookRunMoves DEF LeaseInv, HookInv
  <2>5. \A d \in Hooks!Deliveries : Hooks!Holds(w, d)' <=> d = c
    BY <2>3, <2>4 DEF Hooks!Holds, Hooks!Holding
  <2>6. \A d \in Hooks!Deliveries : ~Hooks!Holds(w, d) BY <1>4 DEF Hooks!Holds
  <2>7. \A v \in Workers \ {w}, d \in Hooks!Deliveries : Hooks!Holds(v, d)' <=> Hooks!Holds(v, d)
    BY <2>4 DEF Hooks!Holds
  <2>8. /\ \A v \in Workers : ~Hooks!Holds(v, c)
        /\ HookHolders[c] = Nobody /\ delivery[c].status = "PENDING"
    BY <1>6, <2>1, HeldIsPending DEF Hooks!Due
  <2>9. delivery \in [Hooks!Deliveries -> HookRows] BY HookTypes DEF LeaseInv, HookInv
  <2>10. /\ \A d \in Hooks!Deliveries : delivery'[d].status = delivery[d].status
         /\ \A d \in Hooks!Deliveries \ {c} : delivery'[d] = delivery[d]
         /\ delivery'[c].wait = Lease
    <3>1. delivery[c] \in HookRows BY <2>1, <2>9
    <3>2. \A d \in Hooks!Deliveries :
            delivery'[d] = IF d = c THEN [delivery[c] EXCEPT !.wait = Lease] ELSE delivery[d]
      BY <1>6, <2>1, <2>9
    <3>3. /\ [delivery[c] EXCEPT !.wait = Lease].status = delivery[c].status
          /\ [delivery[c] EXCEPT !.wait = Lease].wait = Lease
      BY <3>1 DEF HookRows
    <3> QED BY <2>1, <3>2, <3>3
  <2>11. HookLease'
    <3> SUFFICES ASSUME NEW v \in Workers, NEW d \in Hooks!Deliveries, Hooks!Holds(v, d)'
                 PROVE  delivery'[d].status = "PENDING" /\ delivery'[d].wait = Lease - hookRun'[v].age
      BY DEF HookLease
    <3>1. CASE v = w
      <4>1. d = c /\ hookRun'[v].age = 0 BY <2>3, <2>4, <2>5, <3>1
      <4> QED BY <2>8, <2>10, <4>1, OutboxAssumption DEF OutboxAssumption
    <3>2. CASE v # w
      <4>1. Hooks!Holds(v, d) /\ hookRun'[v] = hookRun[v] BY <2>4, <2>7, <3>2
      <4>2. d # c BY <2>8, <4>1
      <4> QED BY <2>10, <4>1, <4>2 DEF LeaseInv, HookLease
    <3> QED BY <3>1, <3>2
  <2>12. HookHolder' BY <2>5, <2>7, <2>8 DEF LeaseInv, HookHolder
  <2>13. LeaseInv' BY <2>11, <2>12 DEF LeaseInv, LeaseOutlastsSend
  <2>14. ASSUME NEW d \in Hooks!Deliveries \ {c} PROVE HookHolderOf(d)' = HookHolderOf(d)
    <3>1. \A v \in Workers : Hooks!Holds(v, d)' <=> Hooks!Holds(v, d) BY <2>5, <2>6, <2>7
    <3> QED BY <3>1, HookSameHolder
  <2>15. ASSUME NEW d \in Hooks!Deliveries, d = c PROVE HookHolderOf(d)' = w
    <3>1. \A v \in Workers : Hooks!Holds(v, d)' <=> v = w BY <2>5, <2>7, <2>8, <2>15
    <3> QED BY <3>1, Zenon DEF HookHolderOf
  <2>16. HookHolders' = [d \in Hooks!Deliveries |-> HookHolderOf(d)'] BY DEF HookHolders
  <2>17. HookHolders' = [HookHolders EXCEPT ![c] = w] BY <2>14, <2>15, <2>16 DEF HookHolders
  <2>18. HookStatus' = HookStatus BY <2>10, SameStatus
  <2>19. HookStatus[c] = "PENDING" BY <2>1, <2>8 DEF HookStatus
  <2>20. Hooks!Leased!Take(c, w)
    BY <2>8, <2>17, <2>18, <2>19 DEF Hooks!Leased!Take, HookStatus, HookHolders, HookHolderOf
  <2> QED BY <2>1, <2>13, <2>20 DEF HookMaps, Hooks!Leased!Next
<1> QED BY <1>1, <1>5, <1>6

\* Time that passes for a lease passes for the run that holds it.
LEMMA MapsTicking ==
  ASSUME LeaseInv, HookInv', Hooks!Tick
  PROVE  LeaseInv' /\ HookMaps
<1>1. \A v \in Workers, d \in Hooks!Deliveries : Hooks!Holds(v, d)' <=> Hooks!Holds(v, d)
  BY HooksTickMoves DEF LeaseInv, Hooks!Holds
<1>2. HookLease'
  <2> SUFFICES ASSUME NEW v \in Workers, NEW d \in Hooks!Deliveries, Hooks!Holds(v, d)'
               PROVE  delivery'[d].status = "PENDING" /\ delivery'[d].wait = Lease - hookRun'[v].age
    BY DEF HookLease
  <2>1. Hooks!Holds(v, d) /\ hookRun[v].pc \in Hooks!Holding BY <1>1 DEF Hooks!Holds
  <2>2. delivery[d].status = "PENDING" /\ delivery[d].wait = Lease - hookRun[v].age
    BY <2>1 DEF LeaseInv, HookLease
  <2>3. hookRun'[v].age = hookRun[v].age + 1 /\ hookRun'[v].age <= MaxSend
    BY <2>1, HooksTickMoves DEF LeaseInv
  <2>4. hookRun[v].age \in Nat
    BY HookTypes, OutboxAssumption DEF OutboxAssumption, LeaseInv, HookInv, HookRuns
  <2>5. delivery[d].wait > 0
    BY <2>2, <2>3, <2>4, OutboxAssumption DEF OutboxAssumption, LeaseInv, LeaseOutlastsSend
  <2>6. delivery'[d].wait = delivery[d].wait - 1 /\ delivery'[d].status = "PENDING"
    BY <2>2, <2>5, HooksTickMoves DEF LeaseInv
  <2> QED BY <2>2, <2>3, <2>4, <2>6, OutboxAssumption DEF OutboxAssumption
<1>3. HookHolder' BY <1>1 DEF LeaseInv, HookHolder
<1>4. \A d \in Hooks!Deliveries : HookHolderOf(d)' = HookHolderOf(d) BY <1>1, HookSameHolder
<1>5. HookStatus' = HookStatus BY HooksTickMoves, SameStatus DEF LeaseInv
<1> QED BY <1>2, <1>3, <1>4, <1>5 DEF LeaseInv, LeaseOutlastsSend, HookMaps, HookHolders

\* What touches neither runs nor deliveries.
LEMMA MapsElsewhere ==
  ASSUME LeaseInv, HookInv', UNCHANGED <<delivery, hookRun>>
  PROVE  LeaseInv' /\ HookMaps
<1>1. HoldsSame BY DEF HoldsSame, Hooks!Holds
<1>2. HookStatus' = HookStatus BY DEF HookStatus
<1> QED BY <1>1, <1>2, SameKeepsLease DEF HookMaps

\* Every step keeps the leases, and is a step of exclusive delivery or leaves its view alone.
LEMMA LeaseNext == LeaseInv /\ [Hooks!Next]_hookVars => LeaseInv' /\ HookMaps
<1> SUFFICES ASSUME LeaseInv, [Hooks!Next]_hookVars PROVE LeaseInv' /\ HookMaps OBVIOUS
<1>0. HookInv /\ HookInv' BY HooksNext DEF LeaseInv
<1>1. ASSUME NEW m \in HookMessages, Hooks!Publish(m) PROVE LeaseInv' /\ HookMaps
  BY <1>0, <1>1, PublishingKeeps, MapsElsewhere
<1>2. ASSUME NEW w \in Workers, Hooks!Works(w) \/ Hooks!Die(w) PROVE LeaseInv' /\ HookMaps
  <2>1. CASE \/ Hooks!ListEndpoints(w) \/ Hooks!ListMessages(w) \/ Hooks!ListDue(w)
             \/ Hooks!NothingToSend(w) \/ Hooks!MarkQueued(w)
             \/ Hooks!Load(w) \/ Hooks!PostDelivery(w)
             \/ Hooks!CountSuccess(w) \/ Hooks!CountFailure(w) \/ Hooks!SwitchOff(w)
    BY <1>0, <2>1, MapsHookWork
  <2>2. CASE Hooks!CreateRows(w) BY <1>0, <2>2, MapsCreateRows
  <2>3. CASE Hooks!Claim(w) BY <1>0, <2>3, MapsClaiming
  <2>4. CASE Hooks!DropDelivery(w) \/ Hooks!WriteSent(w) \/ Hooks!WriteFailed(w)
    BY <1>0, <2>4, MapsAnswering
  <2>5. CASE Hooks!Die(w) BY <1>0, <2>5, MapsDying
  <2> QED BY <1>2, <2>1, <2>2, <2>3, <2>4, <2>5 DEF Hooks!Works
<1>3. ASSUME NEW a \in Admins, NEW e \in Endpoints,
             \/ Hooks!Register(a, e) \/ Hooks!Consider(a, e) \/ Hooks!Reenable(a, e)
      PROVE  LeaseInv' /\ HookMaps
  BY <1>0, <1>3, AdministersKeeps, MapsElsewhere
<1>4. ASSUME NEW a \in Admins, Hooks!Approve(a) \/ Hooks!Reject(a) PROVE LeaseInv' /\ HookMaps
  <2>1. UNCHANGED <<delivery, hookRun>> BY <1>4 DEF Hooks!Approve, Hooks!Reject, Hooks!OnEndpoints
  <2> QED BY <1>0, <2>1, MapsElsewhere
<1>5. ASSUME NEW e \in Endpoints, Hooks!Disable(e) PROVE LeaseInv' /\ HookMaps
  <2>1. UNCHANGED <<delivery, hookRun>> BY <1>5 DEF Hooks!Disable, Hooks!OnEndpoints
  <2> QED BY <1>0, <2>1, MapsElsewhere
<1>6. ASSUME NEW w \in Workers, NEW e \in Endpoints, Hooks!Ping(w, e)
      PROVE  LeaseInv' /\ HookMaps
  <2>1. PICK d \in Hooks!Deliveries : d = <<TestEvent, e>> BY DEF Hooks!Deliveries
  <2> QED BY <1>0, <1>6, <2>1, MapsRequest
<1>7. ASSUME NEW w \in Workers, NEW d \in Hooks!Deliveries, Hooks!Retry(w, d)
      PROVE  LeaseInv' /\ HookMaps
  BY <1>0, <1>7, MapsRequest
<1>8. CASE Hooks!Tick BY <1>0, <1>8, MapsTicking
<1>9. CASE UNCHANGED hookVars
  <2>1. UNCHANGED <<delivery, hookRun>> BY <1>9 DEF hookVars
  <2> QED BY <1>0, <2>1, MapsElsewhere
<1> QED BY <1>1, <1>2, <1>3, <1>4, <1>5, <1>6, <1>7, <1>8, <1>9
    DEF Hooks!Next, Hooks!Administers

\* At first nobody holds anything, and no row is there.
LEMMA LeaseInit ==
  LeaseOutlastsSend /\ Hooks!Init => LeaseInv /\ Hooks!Leased!Init
<1> SUFFICES ASSUME LeaseOutlastsSend, Hooks!Init PROVE LeaseInv /\ Hooks!Leased!Init OBVIOUS
<1>1. HookInv BY HooksInit
<1>2. \A w \in Workers, d \in Hooks!Deliveries : ~Hooks!Holds(w, d)
  BY IdleFits DEF Hooks!Init, Hooks!Holds, Hooks!Holding
<1>3. HookLease /\ HookHolder BY <1>2 DEF HookLease, HookHolder
<1>4. \A d \in Hooks!Deliveries : delivery[d].status = "NONE" BY DEF Hooks!Init, Hooks!NoRow
<1>5. Hooks!Leased!Init BY <1>2, <1>4 DEF Hooks!Leased!Init
<1> QED BY <1>1, <1>3, <1>5 DEF LeaseInv

\* deliver: "two instances never send the same delivery", for any endpoints, events,
\* workers and attempts, where the lease outlasts a send.
THEOREM HooksImplement == LeaseOutlastsSend /\ MCSpec => HooksImplementLeased
<1>1. LeaseOutlastsSend /\ MCInit => LeaseInv /\ Hooks!Leased!Init BY LeaseInit DEF MCInit
<1>2. LeaseInv /\ [MCNext]_allVars
        => LeaseInv' /\ [Hooks!Leased!Next]_<<HookStatus, HookHolders>>
  <2> SUFFICES ASSUME LeaseInv, [MCNext]_allVars
               PROVE  LeaseInv' /\ [Hooks!Leased!Next]_<<HookStatus, HookHolders>>
    OBVIOUS
  <2>1. [Hooks!Next]_hookVars BY DEF MCNext, InOutbox, InHooks, allVars
  <2> QED BY <2>1, LeaseNext DEF HookMaps
<1> QED BY <1>1, <1>2, PTL
    DEF MCSpec, HooksImplementLeased, Hooks!ImplementsLeased, Hooks!Leased!Spec,
        HookStatus, HookHolders, HookHolderOf
=============================================================================
