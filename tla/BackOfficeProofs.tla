---------------------------- MODULE BackOfficeProofs ----------------------------
(***************************************************************************)
(* For any administrators, calls, days and faults: a purge works on an     *)
(* approval that had not lapsed when the grace of its erasure was over, so *)
(* that no reactivation carries one over to the next erasure where it      *)
(* lives no longer than the grace, and two administrators decided on it.   *)
(* It rests on time: whoever purges has found the grace period over, and a *)
(* request that lapsed is not found.  For any deliveries, requests,        *)
(* bookings and tiers: an event of Stripe's has its effect once, because   *)
(* whoever decides holds the claim; and the loans that asked for their     *)
(* place stay within the best tier held, because at most one booking has   *)
(* been counted and not yet taken its place.                               *)
(***************************************************************************)
EXTENDS MCBackOffice, TLAPS, FiniteSetTheorems
-----------------------------------------------------------------------------
(* The erasure. *)

Rows == [status : Statuses, maker : Admins \cup {Nobody},
         checker : Admins \cup {Nobody}, at : Nat]
CallType == [pc : Steps, by : Admins \cup {Nobody}, erasedAt : Nat,
             request : Requests \cup {0}, day : Nat]

\* A request that was made has a maker, and another administrator as its
\* checker once it is approved.
RequestsOK == \A k \in Requests :
  /\ request[k].status = "NONE" <=> request[k] = NoRequest
  /\ request[k].status \in {"APPROVED", "EXECUTED"} =>
       request[k].checker \notin {Nobody, request[k].maker}

\* What a call has read of a request that it works on, and of the calendar.
CallsOK == \A c \in Calls :
  /\ Does(c, "DECIDE") => /\ call[c].by \in Admins /\ call[c].request \in Requests
                          /\ request[call[c].request].status # "NONE"
                          /\ call[c].by # request[call[c].request].maker
  /\ Does(c, "CANCEL") => /\ call[c].request \in Requests
                          /\ request[call[c].request].status # "NONE"
  /\ Purging(c) \/ Does(c, "FIND") => call[c].erasedAt + Grace <= today
  /\ Purging(c) => /\ call[c].request \in Requests
                   /\ request[call[c].request].status # "NONE"

\* The organisation is there until it is purged, on a request that was made.
PurgedOnce ==
  /\ org.exists <=> purgedOn = 0
  /\ purgedOn # 0 => request[purgedOn].status # "NONE"

IInv == /\ ErasureConstants /\ TypeOK /\ RequestsOK /\ CallsOK /\ PurgedOnce
        /\ ApprovalIsFresh /\ PurgedByTwo

\* At first nothing was asked.
LEMMA InitInvariant == ErasureConstants /\ Init => IInv
<1> SUFFICES ASSUME ErasureConstants, Init PROVE IInv OBVIOUS
<1> USE DEF ErasureConstants, Init, NoRequest, Idle
<1>1. TypeOK BY DEF TypeOK, Statuses, Steps
<1>2. RequestsOK BY DEF RequestsOK
<1>3. CallsOK /\ ApprovalIsFresh
  BY DEF CallsOK, ApprovalIsFresh, Does, Purging
<1>4. PurgedOnce /\ PurgedByTwo BY DEF PurgedOnce, PurgedByTwo
<1> QED BY <1>1, <1>2, <1>3, <1>4 DEF IInv

\* A step of one call that leaves the requests, the organisation's being there
\* and the purge alone.
LEMMA CallStep ==
  ASSUME IInv, NEW c \in Calls, NEW r \in CallType, call' = [call EXCEPT ![c] = r],
         UNCHANGED <<today, held, request, purgedOn, erasures>>,
         org' \in [exists : {org.exists}, erasedAt : Nat, files : {"ALL", "SOME", "NONE"}],
         archive' \in [at : Nat, read : Nat], faults' \in Nat,
         r.pc = "DECIDE" => /\ r.by \in Admins /\ r.request \in Requests
                            /\ request[r.request].status # "NONE"
                            /\ r.by # request[r.request].maker,
         r.pc = "CANCEL" => r.request \in Requests /\ request[r.request].status # "NONE",
         r.pc \in {"FIND", "CHECK", "FILES", "ROWS"} => r.erasedAt + Grace <= today,
         r.pc \in {"CHECK", "FILES", "ROWS"} =>
           /\ r.request \in Requests /\ request[r.request].status # "NONE"
           /\ request[r.request].at + Ttl > r.erasedAt + Grace
  PROVE  IInv'
<1> USE DEF IInv
<1>1. \A d \in Calls : call'[d] = IF d = c THEN r ELSE call[d]
  BY DEF TypeOK
<1>2. TypeOK'
  <2>1. call' \in [Calls -> CallType] BY DEF TypeOK, CallType
  <2>2. org' \in [exists : BOOLEAN, erasedAt : Nat, files : {"ALL", "SOME", "NONE"}]
    BY DEF TypeOK
  <2> QED BY <2>1, <2>2 DEF TypeOK, CallType
<1>3. org'.exists = org.exists OBVIOUS
<1>4. RequestsOK' BY DEF RequestsOK
<1>5. CallsOK' BY <1>1 DEF CallsOK, Does, Purging
<1>6. ApprovalIsFresh' BY <1>1 DEF ApprovalIsFresh, Purging
<1>7. PurgedOnce' /\ PurgedByTwo' BY <1>3 DEF PurgedOnce, PurgedByTwo
<1> QED BY <1>2, <1>4, <1>5, <1>6, <1>7 DEF ErasureConstants

\* A call that ends has nothing to keep.
LEMMA LeavesStep ==
  ASSUME IInv, NEW c \in Calls, Leaves(c),
         UNCHANGED <<today, held, request, purgedOn, erasures>>,
         org' \in [exists : {org.exists}, erasedAt : Nat, files : {"ALL", "SOME", "NONE"}],
         archive' \in [at : Nat, read : Nat], faults' \in Nat
  PROVE  IInv'
<1>1. Idle \in CallType /\ Idle.pc = "IDLE" BY DEF Idle, CallType, Steps
<1> QED BY <1>1, CallStep DEF Leaves

\* A request that was made keeps its maker and its day, and gets no other
\* checker than one who may be it.
RequestsStand == \A k \in Requests : request[k].status # "NONE" =>
  /\ request'[k].status # "NONE"
  /\ request'[k].maker = request[k].maker /\ request'[k].at = request[k].at
  /\ request'[k].checker = request[k].checker
       \/ request'[k].checker \notin {Nobody, request[k].maker}

\* A call writes requests and ends.
LEMMA RequestStep ==
  ASSUME IInv, NEW c \in Calls, Leaves(c),
         UNCHANGED <<today, held, archive, erasures>>, faults' \in Nat,
         request' \in [Requests -> Rows], RequestsStand, RequestsOK',
         purgedOn' \in Requests \cup {0},
         org' \in [exists : BOOLEAN, erasedAt : Nat, files : {"ALL", "SOME", "NONE"}],
         \/ org'.exists = org.exists /\ purgedOn' = purgedOn
         \/ /\ ~org'.exists /\ purgedOn' # 0 /\ request'[purgedOn'].status # "NONE"
            /\ request'[purgedOn'].checker \notin {Nobody, request'[purgedOn'].maker}
  PROVE  IInv'
<1> USE DEF IInv
<1>1. Idle \in CallType /\ Idle.pc = "IDLE" BY DEF Idle, CallType, Steps
<1>2. \A d \in Calls : call'[d] = IF d = c THEN Idle ELSE call[d]
  BY DEF TypeOK, Leaves
<1>3. TypeOK'
  <2>1. call' \in [Calls -> CallType] BY <1>1 DEF TypeOK, CallType, Leaves
  <2> QED BY <2>1 DEF TypeOK, CallType, Rows
<1>4. CallsOK' BY <1>1, <1>2 DEF CallsOK, RequestsStand, Does, Purging
<1>5. ApprovalIsFresh'
  BY <1>1, <1>2 DEF CallsOK, ApprovalIsFresh, RequestsStand, Does, Purging
<1>6. PurgedOnce' /\ PurgedByTwo'
  <2>1. CASE org'.exists = org.exists /\ purgedOn' = purgedOn
    <3>1. CASE purgedOn = 0 BY <2>1, <3>1 DEF PurgedOnce, PurgedByTwo
    <3>2. CASE purgedOn # 0
      <4>1. purgedOn \in Requests BY <3>2 DEF TypeOK
      <4> QED BY <2>1, <3>2, <4>1 DEF PurgedOnce, PurgedByTwo, RequestsStand
    <3> QED BY <3>1, <3>2
  <2>2. CASE /\ ~org'.exists /\ purgedOn' # 0 /\ request'[purgedOn'].status # "NONE"
             /\ request'[purgedOn'].checker \notin {Nobody, request'[purgedOn'].maker}
    BY <2>2 DEF PurgedOnce, PurgedByTwo
  <2> QED BY <2>1, <2>2
<1> QED BY <1>3, <1>4, <1>5, <1>6 DEF ErasureConstants

\* The calendar, the organisation and what blocks it.
LEMMA EnvironmentStep ==
  ASSUME IInv, NextDay \/ Erase \/ Reactivate \/ BlockersChange
  PROVE  IInv'
<1> USE DEF IInv
<1>1. UNCHANGED <<archive, request, call, purgedOn>>
  BY DEF NextDay, Erase, Reactivate, BlockersChange
<1>2. today \in Nat /\ today' \in Nat /\ today <= today'
  BY DEF TypeOK, NextDay, Erase, Reactivate, BlockersChange
<1>3. org' \in [exists : {org.exists}, erasedAt : Nat, files : {"ALL", "SOME", "NONE"}]
  BY DEF TypeOK, NextDay, Erase, Reactivate, BlockersChange
<1>4. TypeOK'
  <2>1. org' \in [exists : BOOLEAN, erasedAt : Nat, files : {"ALL", "SOME", "NONE"}]
    BY <1>3 DEF TypeOK
  <2>2. held' = held \/ held' = ~held
    BY DEF NextDay, Erase, Reactivate, BlockersChange
  <2>3. held' \in BOOLEAN BY <2>2 DEF TypeOK
  <2>4. erasures' \in Nat /\ faults' \in Nat
    BY DEF TypeOK, NextDay, Erase, Reactivate, BlockersChange
  <2> QED BY <1>1, <1>2, <2>1, <2>3, <2>4 DEF TypeOK
<1>5. RequestsOK' BY <1>1 DEF RequestsOK
<1>6. CallsOK'
  <2> SUFFICES ASSUME NEW c \in Calls, Purging(c) \/ Does(c, "FIND")
               PROVE  call[c].erasedAt + Grace <= today'
    BY <1>1 DEF CallsOK, Does, Purging
  <2>1. call[c].erasedAt + Grace <= today BY DEF CallsOK
  <2>2. call[c].erasedAt \in Nat BY DEF TypeOK
  <2> QED BY <1>2, <2>1, <2>2 DEF ErasureConstants
<1>7. ApprovalIsFresh' BY <1>1 DEF ApprovalIsFresh, Purging
<1>8. PurgedOnce' /\ PurgedByTwo' BY <1>1, <1>3 DEF PurgedOnce, PurgedByTwo
<1> QED BY <1>4, <1>5, <1>6, <1>7, <1>8 DEF ErasureConstants

\* Reads of the archive and for a request.
LEMMA PreparationStep ==
  ASSUME IInv, NEW c \in Calls,
         \/ ReadTables(c) \/ WriteArchive(c)
         \/ \E a \in Admins : AskForPurge(c, a)
  PROVE  IInv'
<1>1. /\ org \in [exists : {org.exists}, erasedAt : Nat, files : {"ALL", "SOME", "NONE"}]
      /\ archive \in [at : Nat, read : Nat] /\ faults \in Nat /\ today \in Nat
      /\ call[c] \in CallType
  BY DEF IInv, TypeOK, CallType
<1>2. CASE ReadTables(c)
  <2> DEFINE r == [Idle EXCEPT !.pc = "ARCHIVE", !.day = today]
  <2>1. r \in CallType /\ r.pc = "ARCHIVE" BY <1>1 DEF Idle, CallType, Steps
  <2> QED BY <1>1, <1>2, <2>1, CallStep DEF ReadTables, Reads
<1>3. CASE WriteArchive(c)
  <2>1. archive' \in [at : Nat, read : Nat] BY <1>1, <1>3 DEF WriteArchive, CallType
  <2> QED BY <1>1, <1>3, <2>1, LeavesStep DEF WriteArchive
<1>4. ASSUME NEW a \in Admins, AskForPurge(c, a) PROVE IInv'
  <2> DEFINE r == [Idle EXCEPT !.pc = "OPEN", !.by = a]
  <2>1. r \in CallType /\ r.pc = "OPEN" BY <1>1 DEF Idle, CallType, Steps
  <2> QED BY <1>1, <1>4, <2>1, CallStep DEF AskForPurge, Reads
<1> QED BY <1>2, <1>3, <1>4

\* Reads of a request: the administrator who is to decide did not ask for it.
LEMMA ReadRequestStep ==
  ASSUME IInv, NEW c \in Calls, NEW k \in Requests,
         ReadOwn(c, k) \/ \E a \in Admins : ReadRequest(c, a, k)
  PROVE  IInv'
<1>1. /\ org \in [exists : {org.exists}, erasedAt : Nat, files : {"ALL", "SOME", "NONE"}]
      /\ archive \in [at : Nat, read : Nat] /\ faults \in Nat /\ today \in Nat
      /\ Idle \in CallType
  BY DEF IInv, TypeOK, CallType, Idle, Steps
<1>2. CASE ReadOwn(c, k)
  <2> DEFINE r == [Idle EXCEPT !.pc = "CANCEL", !.request = k]
  <2>1. r \in CallType /\ r.pc = "CANCEL" /\ r.request = k
    BY <1>1 DEF CallType, Steps
  <2>2. request[k].status # "NONE" BY <1>2 DEF ReadOwn, IsOpen
  <2>3. call' = [call EXCEPT ![c] = r] /\ Reads BY <1>2 DEF ReadOwn
  <2> HIDE DEF r
  <2> QED BY <1>1, <2>1, <2>2, <2>3, CallStep DEF Reads
<1>3. ASSUME NEW a \in Admins, ReadRequest(c, a, k) PROVE IInv'
  <2> DEFINE r == [Idle EXCEPT !.pc = "DECIDE", !.by = a, !.request = k]
  <2>1. r \in CallType /\ r.pc = "DECIDE" /\ r.request = k /\ r.by = a
    BY <1>1 DEF CallType, Steps
  <2>2. request[k].status # "NONE" /\ request[k].maker # a
    BY <1>3 DEF ReadRequest, MayDecide
  <2>3. call' = [call EXCEPT ![c] = r] /\ Reads BY <1>3 DEF ReadRequest
  <2> HIDE DEF r
  <2> QED BY <1>1, <2>1, <2>2, <2>3, CallStep DEF Reads
<1> QED BY <1>2, <1>3

\* A new request takes a number nothing refers to; what lapsed is cancelled.
LEMMA OpenRequestStep ==
  ASSUME IInv, NEW c \in Calls, OpenRequest(c)
  PROVE  IInv'
<1> DEFINE kept == [k \in Requests |-> Expired(request[k])]
<1>1. /\ org \in [exists : BOOLEAN, erasedAt : Nat, files : {"ALL", "SOME", "NONE"}]
      /\ purgedOn \in Requests \cup {0} /\ faults \in Nat /\ today \in Nat
      /\ \A k \in Requests : request[k] \in Rows
  BY DEF IInv, TypeOK, Rows
<1>2. ASSUME NEW k \in Requests
      PROVE  /\ kept[k] \in Rows
             /\ request[k].status # "NONE" =>
                  kept[k].status # "NONE" /\ kept[k].status \in {request[k].status, "CANCELLED"}
             /\ kept[k].maker = request[k].maker /\ kept[k].at = request[k].at
             /\ kept[k].checker = request[k].checker
             /\ request[k].status = "NONE" => kept[k] = request[k]
  BY <1>1 DEF Expired, IsOpen, Rows, Statuses
<1> HIDE DEF kept
<1>3. /\ Leaves(c) /\ UNCHANGED <<today, org, held, archive, purgedOn, erasures, faults>>
      /\ call[c].by \in Admins \cup {Nobody}
  BY DEF OpenRequest, IInv, TypeOK
<1>4. CASE request' = kept
  <2>1. request' \in [Requests -> Rows] BY <1>2, <1>4 DEF kept
  <2>2. RequestsStand BY <1>2, <1>4 DEF RequestsStand
  <2>3. RequestsOK'
    <3> SUFFICES ASSUME NEW k \in Requests
                 PROVE  /\ kept[k].status = "NONE" <=> kept[k] = NoRequest
                        /\ kept[k].status \in {"APPROVED", "EXECUTED"} =>
                             kept[k].checker \notin {Nobody, kept[k].maker}
      BY <1>4 DEF RequestsOK
    <3>1. CASE request[k].status = "NONE" BY <1>2, <3>1 DEF IInv, RequestsOK
    <3>2. CASE request[k].status # "NONE"
      BY <1>2, <3>2 DEF IInv, RequestsOK, NoRequest
    <3> QED BY <3>1, <3>2
  <2> QED BY <1>1, <1>3, <2>1, <2>2, <2>3, RequestStep
<1>5. ASSUME NEW n \in Requests,
             {j \in Requests : request[j] # NoRequest} = 1 .. n - 1,
             request' = [kept EXCEPT ![n] = [status |-> "PENDING", maker |-> call[c].by,
                                             checker |-> Nobody, at |-> today]]
      PROVE  IInv'
  <2> DEFINE row == [status |-> "PENDING", maker |-> call[c].by,
                     checker |-> Nobody, at |-> today]
  <2>1. n \notin 1 .. n - 1 BY DEF IInv, ErasureConstants
  <2>2. request[n] = NoRequest /\ request[n].status = "NONE"
    BY <1>5, <2>1 DEF NoRequest
  <2>3. row \in Rows /\ row.status = "PENDING" BY <1>1, <1>3 DEF Rows, Statuses
  <2>4. row # NoRequest BY DEF NoRequest
  <2> HIDE DEF row
  <2>5. request' \in [Requests -> Rows]
    <3>1. kept \in [Requests -> Rows] BY <1>2 DEF kept
    <3> QED BY <1>5, <2>3, <3>1 DEF row
  <2>6. \A k \in Requests : request'[k] = IF k = n THEN row ELSE kept[k]
    BY <1>5 DEF row, kept
  <2>7. RequestsStand BY <1>2, <2>2, <2>6 DEF RequestsStand
  <2>8. RequestsOK'
    <3> SUFFICES ASSUME NEW k \in Requests
                 PROVE  /\ request'[k].status = "NONE" <=> request'[k] = NoRequest
                        /\ request'[k].status \in {"APPROVED", "EXECUTED"} =>
                             request'[k].checker \notin {Nobody, request'[k].maker}
      BY DEF RequestsOK
    <3>1. CASE k = n BY <2>3, <2>4, <2>6, <3>1
    <3>2. CASE k # n /\ request[k].status = "NONE"
      BY <1>2, <2>6, <3>2 DEF IInv, RequestsOK
    <3>3. CASE k # n /\ request[k].status # "NONE"
      BY <1>2, <2>6, <3>3 DEF IInv, RequestsOK, NoRequest
    <3> QED BY <3>1, <3>2, <3>3
  <2> QED BY <1>1, <1>3, <2>5, <2>7, <2>8, RequestStep
<1> QED BY <1>4, <1>5 DEF OpenRequest, kept

\* A decision is written where the request is pending, by another than its
\* maker; a cancellation is written whatever it finds.
LEMMA DecideStep ==
  ASSUME IInv, NEW c \in Calls, WriteDecision(c) \/ WriteCancelled(c)
  PROVE  IInv'
<1> DEFINE n == call[c].request
<1>1. /\ Leaves(c) /\ UNCHANGED <<today, org, held, archive, purgedOn, erasures, faults>>
      /\ org \in [exists : BOOLEAN, erasedAt : Nat, files : {"ALL", "SOME", "NONE"}]
      /\ purgedOn \in Requests \cup {0} /\ faults \in Nat
      /\ request \in [Requests -> Rows]
  BY DEF WriteDecision, WriteCancelled, IInv, TypeOK, Rows
<1>2. n \in Requests /\ request[n].status # "NONE"
  BY DEF WriteDecision, WriteCancelled, IInv, CallsOK
<1> HIDE DEF n
<1>3. CASE UNCHANGED request
  BY <1>1, <1>3, RequestStep DEF RequestsStand, IInv, RequestsOK
<1>4. ASSUME NEW row \in Rows, request' = [request EXCEPT ![n] = row],
             row.status # "NONE", row.maker = request[n].maker, row.at = request[n].at,
             row.checker = request[n].checker \/ row.checker \notin {Nobody, row.maker},
             row.status = "APPROVED" => row.checker \notin {Nobody, row.maker},
             row.status # "EXECUTED"
      PROVE  IInv'
  <2>1. \A k \in Requests : request'[k] = IF k = n THEN row ELSE request[k]
    BY <1>1, <1>4
  <2>2. request' \in [Requests -> Rows] BY <1>1, <1>4
  <2>3. RequestsStand BY <1>4, <2>1 DEF RequestsStand
  <2>4. row # NoRequest BY <1>4 DEF NoRequest
  <2>5. RequestsOK' BY <1>4, <2>1, <2>4 DEF IInv, RequestsOK
  <2> QED BY <1>1, <2>2, <2>3, <2>5, RequestStep
<1>5. ASSUME WriteDecision(c), NEW s \in {"APPROVED", "REJECTED"},
             request' = [request EXCEPT ![n].status = s, ![n].checker = call[c].by]
      PROVE  IInv'
  <2> DEFINE row == [request[n] EXCEPT !.status = s, !.checker = call[c].by]
  <2>1. call[c].by \in Admins /\ call[c].by # request[n].maker
    BY <1>5 DEF WriteDecision, IInv, CallsOK, n
  <2>2. call[c].by # Nobody BY <2>1 DEF IInv, ErasureConstants
  <2>3. request[n] \in Rows BY <1>1, <1>2
  <2>4. /\ row \in Rows /\ row.status = s /\ row.checker = call[c].by
        /\ row.maker = request[n].maker /\ row.at = request[n].at
    BY <2>1, <2>3 DEF Rows, Statuses
  <2>5. request' = [request EXCEPT ![n] = row] BY <1>5
  <2> HIDE DEF row
  <2> QED BY <1>4, <2>1, <2>2, <2>4, <2>5
<1>6. ASSUME request' = [request EXCEPT ![n].status = "CANCELLED"] PROVE IInv'
  <2> DEFINE row == [request[n] EXCEPT !.status = "CANCELLED"]
  <2>1. request[n] \in Rows BY <1>1, <1>2
  <2>2. /\ row \in Rows /\ row.status = "CANCELLED" /\ row.checker = request[n].checker
        /\ row.maker = request[n].maker /\ row.at = request[n].at
    BY <2>1 DEF Rows, Statuses
  <2>3. request' = [request EXCEPT ![n] = row] BY <1>6
  <2> HIDE DEF row
  <2> QED BY <1>4, <2>2, <2>3
<1> QED BY <1>3, <1>5, <1>6 DEF WriteDecision, WriteCancelled, n

\* The purge starts once the grace period is over, and goes on with a request
\* that has not lapsed: it was to lapse after that grace was over.
LEMMA FindStep ==
  ASSUME IInv, NEW c \in Calls, ReadTenant(c) \/ FindRequest(c)
  PROVE  IInv'
<1>1. /\ org \in [exists : {org.exists}, erasedAt : Nat, files : {"ALL", "SOME", "NONE"}]
      /\ archive \in [at : Nat, read : Nat] /\ faults \in Nat /\ today \in Nat
      /\ Idle \in CallType /\ call[c] \in CallType /\ org.erasedAt \in Nat
  BY DEF IInv, TypeOK, CallType, Idle, Steps
<1>2. CASE ReadTenant(c)
  <2> DEFINE r == [Idle EXCEPT !.pc = "FIND", !.erasedAt = org.erasedAt]
  <2>1. r \in CallType /\ r.pc = "FIND" /\ r.erasedAt = org.erasedAt
    BY <1>1 DEF CallType, Steps
  <2>2. org.erasedAt + Grace <= today BY <1>2 DEF ReadTenant, GraceOver
  <2>3. call' = [call EXCEPT ![c] = r] /\ Reads BY <1>2 DEF ReadTenant
  <2> HIDE DEF r
  <2> QED BY <1>1, <2>1, <2>2, <2>3, CallStep DEF Reads
<1>3. ASSUME FindRequest(c), NEW k \in Requests, Open(k),
             call' = [call EXCEPT ![c].pc = "CHECK", ![c].request = k]
      PROVE  IInv'
  <2> DEFINE r == [call[c] EXCEPT !.pc = "CHECK", !.request = k]
  <2>1. r \in CallType /\ r.pc = "CHECK" /\ r.request = k /\ r.erasedAt = call[c].erasedAt
    BY <1>1 DEF CallType, Steps
  <2>2. call[c].erasedAt + Grace <= today
    BY <1>3 DEF FindRequest, IInv, CallsOK
  <2>3. request[k].status # "NONE" /\ ~(request[k].at + Ttl <= today)
    BY <1>3 DEF Open, IsOpen, Lapsed
  <2>4. request[k].at \in Nat /\ call[c].erasedAt \in Nat
    BY <1>1 DEF IInv, TypeOK, CallType
  <2>5. request[k].at + Ttl > call[c].erasedAt + Grace
    BY <1>1, <2>2, <2>3, <2>4 DEF IInv, ErasureConstants
  <2>6. call' = [call EXCEPT ![c] = r] /\ Reads BY <1>3 DEF FindRequest
  <2> HIDE DEF r
  <2> QED BY <1>1, <2>1, <2>2, <2>3, <2>5, <2>6, CallStep DEF Reads
<1>4. CASE FindRequest(c) /\ Leaves(c)
  BY <1>1, <1>4, LeavesStep DEF FindRequest, Reads
<1> QED BY <1>2, <1>3, <1>4 DEF FindRequest

\* The purge keeps what it found while it checks and deletes files.
LEMMA DeleteFilesStep ==
  ASSUME IInv, NEW c \in Calls, CheckArchiveAndBlockers(c) \/ DeleteFiles(c)
  PROVE  IInv'
<1>1. /\ archive \in [at : Nat, read : Nat] /\ faults \in Nat
      /\ org \in [exists : {org.exists}, erasedAt : Nat, files : {"ALL", "SOME", "NONE"}]
      /\ call[c] \in CallType
  BY DEF IInv, TypeOK, CallType
<1>2. /\ org' \in [exists : {org.exists}, erasedAt : Nat, files : {"ALL", "SOME", "NONE"}]
      /\ faults' \in Nat
      /\ UNCHANGED <<today, held, archive, request, purgedOn, erasures>>
  BY <1>1 DEF CheckArchiveAndBlockers, DeleteFiles, Reads
<1>3. CASE Leaves(c) BY <1>1, <1>2, <1>3, LeavesStep
<1>4. ASSUME NEW p \in {"FILES", "ROWS"}, call' = [call EXCEPT ![c].pc = p] PROVE IInv'
  <2> DEFINE r == [call[c] EXCEPT !.pc = p]
  <2>1. /\ r \in CallType /\ r.pc = p
        /\ r.request = call[c].request /\ r.erasedAt = call[c].erasedAt
    BY <1>1 DEF CallType, Steps
  <2>2. Purging(c) BY DEF CheckArchiveAndBlockers, DeleteFiles, Does, Purging
  <2>3. /\ call[c].erasedAt + Grace <= today /\ call[c].request \in Requests
        /\ request[call[c].request].status # "NONE"
        /\ request[call[c].request].at + Ttl > call[c].erasedAt + Grace
    BY <2>2 DEF IInv, CallsOK, ApprovalIsFresh
  <2>4. call' = [call EXCEPT ![c] = r] BY <1>4
  <2> HIDE DEF r
  <2> QED BY <1>1, <1>2, <2>1, <2>3, <2>4, CallStep
<1> QED BY <1>3, <1>4 DEF CheckArchiveAndBlockers, DeleteFiles

\* The rows go in one transaction with the request, which is approved still.
LEMMA DeleteRowsStep ==
  ASSUME IInv, NEW c \in Calls, DeleteRows(c)
  PROVE  IInv'
<1> DEFINE n == call[c].request
<1>1. /\ org \in [exists : BOOLEAN, erasedAt : Nat, files : {"ALL", "SOME", "NONE"}]
      /\ purgedOn \in Requests \cup {0} /\ faults \in Nat
      /\ request \in [Requests -> Rows]
      /\ Leaves(c) /\ UNCHANGED <<today, held, archive, erasures>> /\ faults' \in Nat
  BY DEF DeleteRows, IInv, TypeOK, Rows
<1>2. n \in Requests BY DEF DeleteRows, IInv, CallsOK, Purging, Does
<1> HIDE DEF n
<1>3. CASE UNCHANGED <<org, request, purgedOn>>
  BY <1>1, <1>3, RequestStep DEF RequestsStand, IInv, RequestsOK
<1>4. CASE /\ StillApproved(n) /\ org' = [org EXCEPT !.exists = FALSE]
           /\ request' = [request EXCEPT ![n].status = "EXECUTED"] /\ purgedOn' = n
  <2> DEFINE row == [request[n] EXCEPT !.status = "EXECUTED"]
  <2>1. request[n] \in Rows /\ request[n].status = "APPROVED"
    BY <1>1, <1>2, <1>4 DEF StillApproved
  <2>2. /\ row \in Rows /\ row.status = "EXECUTED" /\ row.checker = request[n].checker
        /\ row.maker = request[n].maker /\ row.at = request[n].at
    BY <2>1 DEF Rows, Statuses
  <2>3. request' = [request EXCEPT ![n] = row] BY <1>4
  <2> HIDE DEF row
  <2>4. \A k \in Requests : request'[k] = IF k = n THEN row ELSE request[k]
    BY <1>1, <2>3
  <2>5. request[n].checker \notin {Nobody, request[n].maker}
    BY <1>2, <2>1 DEF IInv, RequestsOK
  <2>6. row # NoRequest BY <2>2 DEF NoRequest
  <2>7. request' \in [Requests -> Rows] BY <1>1, <2>2, <2>3
  <2>8. RequestsStand BY <2>2, <2>4 DEF RequestsStand
  <2>9. RequestsOK' BY <2>2, <2>4, <2>5, <2>6 DEF IInv, RequestsOK
  <2>10. /\ ~org'.exists /\ n # 0
         /\ org' \in [exists : BOOLEAN, erasedAt : Nat, files : {"ALL", "SOME", "NONE"}]
    BY <1>1, <1>2, <1>4 DEF IInv, ErasureConstants
  <2>11. /\ request'[purgedOn'].status # "NONE"
         /\ request'[purgedOn'].checker \notin {Nobody, request'[purgedOn'].maker}
    BY <1>2, <1>4, <2>2, <2>4, <2>5
  <2> QED BY <1>1, <1>2, <1>4, <2>7, <2>8, <2>9, <2>10, <2>11, RequestStep
<1> QED BY <1>3, <1>4 DEF DeleteRows, n

\* Every step keeps the invariant.
LEMMA NextInvariant == IInv /\ [Next]_vars => IInv'
<1> SUFFICES ASSUME IInv, [Next]_vars PROVE IInv' OBVIOUS
<1>1. CASE NextDay \/ Erase \/ Reactivate \/ BlockersChange BY <1>1, EnvironmentStep
<1>2. ASSUME NEW c \in Calls,
             \/ ReadTables(c) \/ WriteArchive(c)
             \/ \E a \in Admins : AskForPurge(c, a)
      PROVE  IInv'
  BY <1>2, PreparationStep
<1>3. ASSUME NEW c \in Calls, NEW k \in Requests,
             ReadOwn(c, k) \/ \E a \in Admins : ReadRequest(c, a, k)
      PROVE  IInv'
  BY <1>3, ReadRequestStep
<1>4. ASSUME NEW c \in Calls, OpenRequest(c) PROVE IInv' BY <1>4, OpenRequestStep
<1>5. ASSUME NEW c \in Calls, WriteDecision(c) \/ WriteCancelled(c) PROVE IInv'
  BY <1>5, DecideStep
<1>6. ASSUME NEW c \in Calls, ReadTenant(c) \/ FindRequest(c) PROVE IInv'
  BY <1>6, FindStep
<1>7. ASSUME NEW c \in Calls, CheckArchiveAndBlockers(c) \/ DeleteFiles(c) PROVE IInv'
  BY <1>7, DeleteFilesStep
<1>8. ASSUME NEW c \in Calls, DeleteRows(c) PROVE IInv' BY <1>8, DeleteRowsStep
<1>9. CASE UNCHANGED vars
  BY <1>9 DEF vars, IInv, ErasureConstants, TypeOK, RequestsOK, CallsOK, PurgedOnce,
              ApprovalIsFresh, PurgedByTwo, Does, Purging
<1> QED BY <1>1, <1>2, <1>3, <1>4, <1>5, <1>6, <1>7, <1>8, <1>9 DEF Next

\* Together: the invariant holds of every execution.
LEMMA Invariant == ErasureConstants /\ Spec => []IInv
  BY InitInvariant, NextInvariant, PTL DEF Spec

\* purge: it works on an approval that had not lapsed when the grace of its erasure
\* was over, so on one asked for after that erasure where an approval lives no
\* longer than the grace; and rows are gone only where two administrators decided.
THEOREM PurgesAreApproved == ErasureConstants /\ Spec => []PurgeIsApproved
<1>1. IInv => PurgeIsApproved
  <2> SUFFICES ASSUME IInv, Ttl <= Grace PROVE ApprovedForThisErasure
    BY DEF IInv, PurgeIsApproved
  <2> SUFFICES ASSUME NEW c \in Calls, Purging(c)
               PROVE  request[call[c].request].at > call[c].erasedAt
    BY DEF ApprovedForThisErasure
  <2>1. request[call[c].request].at + Ttl > call[c].erasedAt + Grace
    BY DEF IInv, ApprovalIsFresh
  <2>2. call[c].request \in Requests BY DEF IInv, CallsOK
  <2>3. /\ request[call[c].request].at \in Nat /\ call[c].erasedAt \in Nat
        /\ Ttl \in Nat /\ Grace \in Nat
    BY <2>2 DEF IInv, TypeOK, ErasureConstants
  <2> QED BY <2>1, <2>3
<1> QED BY <1>1, Invariant, PTL
-----------------------------------------------------------------------------
(* The subscription: its tier, its payments and Stripe's events. *)

OrgType == [status : {"PENDING_PAYMENT", "ACTIVE", "SUSPENDED"}, plan : Plan!Plans,
            sub : Plan!Subs \cup {Nobody}, trashed : BOOLEAN]

\* The tier is one there is, and the best one held allowed no less.
TierOK == /\ account \in OrgType
          /\ best \in {Ceiling[p] : p \in Plan!Plans}
          /\ Ceiling[account.plan] <= best

PaymentType == [status : {"NONE", "PENDING", "CONFIRMED", "REJECTED"},
                plan : Plan!Plans, live : BOOLEAN]
ClerkType == [doing : {"NOTHING", "REQUEST", "CONFIRM", "REJECT"}, at : Payments \cup {0}]

\* Whoever decides on a payment has read one.
PaymentsOK == /\ payment \in [Payments -> PaymentType]
              /\ clerk \in [Clerks -> ClerkType]
              /\ \A c \in Clerks :
                   clerk[c].doing \in {"CONFIRM", "REJECT"} => clerk[c].at \in Payments

HandlerType == [pc : {"IDLE", "DECIDE"}, event : Plan!Events \cup {Plan!NoEvent},
                matches : BOOLEAN]

Handles(h, e) == handler[h].pc = "DECIDE" /\ handler[h].event = e

\* An event is claimed by the one delivery that applies it, and has no effect
\* before it is done.
EventsOK ==
  /\ event \in [Plan!Events -> {"NONE", "SENT", "CLAIMED", "DONE"}]
  /\ handler \in [Handlers -> HandlerType]
  /\ applied \in [Plan!Events -> Nat]
  /\ \A h \in Handlers : handler[h].pc = "DECIDE" => /\ handler[h].event \in Plan!Events
                                                     /\ event[handler[h].event] = "CLAIMED"
  /\ \A g, h \in Handlers : \A e \in Plan!Events : Handles(g, e) /\ Handles(h, e) => g = h
  /\ \A e \in Plan!Events : event[e] = "CLAIMED" => \E h \in Handlers : Handles(h, e)
  /\ \A e \in Plan!Events : /\ applied[e] <= 1
                            /\ event[e] # "DONE" => applied[e] = 0

\* The instance counts as the library does.
LEMMA SameCount == \A S : Plan!Cardinality(S) = Cardinality(S)
  BY DEF Plan!Cardinality, Cardinality

\* Ceilings are numbers.
LEMMA CeilingsAreNumbers == /\ \A p \in Plan!Plans : Ceiling[p] \in Nat
                            /\ FreePlan \in Plan!Plans
                            /\ \A s \in Plan!Subs : Subscribed[s] \in Plan!Plans
  BY PlanAssumption DEF PlanAssumption, Plan!Plans, Plan!Subs

\* The best ceiling grows with the tier.
LEMMA TierChanges ==
  ASSUME TierOK, account' \in OrgType, Plan!Raised(account'.plan)
  PROVE  TierOK' /\ best <= best'
<1>1. account'.plan \in Plan!Plans BY DEF OrgType
<1>2. Ceiling[account'.plan] \in Nat /\ best \in Nat
  BY <1>1, CeilingsAreNumbers DEF TierOK
<1>3. best' = IF Ceiling[account'.plan] > best THEN Ceiling[account'.plan] ELSE best
  BY DEF Plan!Raised
<1>4. best' \in {Ceiling[p] : p \in Plan!Plans} BY <1>1, <1>3 DEF TierOK
<1>5. Ceiling[account'.plan] <= best' /\ best <= best' BY <1>2, <1>3
<1> QED BY <1>4, <1>5 DEF TierOK

\* What does not touch the tier leaves its ceiling.
LEMMA TierStays ==
  ASSUME TierOK, account' \in OrgType, account'.plan = account.plan, best' = best
  PROVE  TierOK' /\ best <= best'
<1>1. best \in Nat BY CeilingsAreNumbers DEF TierOK
<1> QED BY <1>1 DEF TierOK

\* What a delivery of Stripe's goes on with, and nobody else.
Turns(h, r) == handler' = [handler EXCEPT ![h] = r]

\* Taking an event up: nobody else has claimed it.
LEMMA ClaimKeeps ==
  ASSUME EventsOK, NEW h \in Handlers, NEW e \in Plan!Events, Plan!ClaimEvent(h, e)
  PROVE  EventsOK'
<1> USE DEF EventsOK
<1>1. PICK r \in HandlerType : Turns(h, r) /\ r.pc = "DECIDE" /\ r.event = e
  <2>1. e[1] \in {"CHECKOUT", "DELETED", "UNPAID"} BY DEF Plan!Events
  <2>2. PICK m \in BOOLEAN : handler' = [handler EXCEPT ![h] =
                                [pc |-> "DECIDE", event |-> e, matches |-> m]]
    <3>1. CASE e[1] = "CHECKOUT" BY <3>1 DEF Plan!ClaimEvent
    <3>2. CASE e[1] = "DELETED" BY <3>2 DEF Plan!ClaimEvent
    <3>3. CASE e[1] = "UNPAID" BY <3>3 DEF Plan!ClaimEvent
    <3> QED BY <2>1, <3>1, <3>2, <3>3
  <2>3. [pc |-> "DECIDE", event |-> e, matches |-> m] \in HandlerType BY DEF HandlerType
  <2> QED BY <2>2, <2>3 DEF Turns
<1>2. /\ event' = [event EXCEPT ![e] = "CLAIMED"] /\ applied' = applied
      /\ event[e] = "SENT" /\ handler[h].pc = "IDLE"
  BY DEF Plan!ClaimEvent, Plan!Claimable
<1>3. \A g \in Handlers : handler'[g] = IF g = h THEN r ELSE handler[g]
  BY <1>1 DEF Turns
<1>4. handler' \in [Handlers -> HandlerType] BY <1>1 DEF Turns
<1>5. \A d \in Plan!Events : event'[d] = IF d = e THEN "CLAIMED" ELSE event[d] BY <1>2
<1>6. \A g \in Handlers : handler[g].pc = "DECIDE" => handler[g].event # e BY <1>2
<1>7. \A g \in Handlers : handler'[g].pc = "DECIDE" =>
        handler'[g].event \in Plan!Events /\ event'[handler'[g].event] = "CLAIMED"
  BY <1>1, <1>3, <1>5, <1>6
<1>8. \A f, g \in Handlers : \A d \in Plan!Events : Handles(f, d)' /\ Handles(g, d)' => f = g
  BY <1>1, <1>3, <1>6 DEF Handles
<1>9. \A d \in Plan!Events : event'[d] = "CLAIMED" => \E g \in Handlers : Handles(g, d)'
  BY <1>1, <1>2, <1>3, <1>5 DEF Handles
<1> QED BY <1>2, <1>4, <1>5, <1>7, <1>8, <1>9

\* Leaving an event, done or not: its handler is the one that had claimed it.
LEMMA LeavingKeeps ==
  ASSUME EventsOK, NEW h \in Handlers, handler[h].pc = "DECIDE", Turns(h, Plan!Idle),
         NEW s \in {"SENT", "DONE"}, event' = [event EXCEPT ![handler[h].event] = s],
         \/ s = "SENT" /\ applied' = applied
         \/ /\ s = "DONE"
            /\ applied' = [applied EXCEPT ![handler[h].event] = IF @ < 2 THEN @ + 1 ELSE @]
  PROVE  EventsOK'
<1> USE DEF EventsOK
<1>1. PICK e \in Plan!Events : handler[h].event = e /\ event[e] = "CLAIMED" /\ applied[e] = 0
  OBVIOUS
<1>2. \A g \in Handlers : handler'[g] = IF g = h THEN Plan!Idle ELSE handler[g] BY DEF Turns
<1>3. handler' \in [Handlers -> HandlerType] BY DEF Turns, Plan!Idle, HandlerType
<1>4. \A d \in Plan!Events : event'[d] = IF d = e THEN s ELSE event[d] BY <1>1
<1>5. \A d \in Plan!Events : applied'[d] = IF d = e /\ s = "DONE" THEN 1 ELSE applied[d]
  BY <1>1
<1>6. applied' \in [Plan!Events -> Nat]
  <2>1. CASE s = "SENT" BY <2>1
  <2>2. CASE s = "DONE"
    <3>1. applied' = [applied EXCEPT ![e] = 1] BY <1>1, <2>2
    <3> QED BY <3>1
  <2> QED BY <2>1, <2>2
<1>7. Plan!Idle.pc # "DECIDE" BY DEF Plan!Idle
<1>8. \A g \in Handlers : handler'[g].pc = "DECIDE" =>
        /\ handler'[g].event \in Plan!Events /\ handler'[g].event # e
        /\ event'[handler'[g].event] = "CLAIMED"
  BY <1>1, <1>2, <1>4, <1>7 DEF Handles
<1>9. \A f, g \in Handlers : \A d \in Plan!Events : Handles(f, d)' /\ Handles(g, d)' => f = g
  BY <1>2, <1>7 DEF Handles
<1>10. \A d \in Plan!Events : event'[d] = "CLAIMED" => \E g \in Handlers : Handles(g, d)'
  BY <1>1, <1>2, <1>4 DEF Handles
<1>11. \A d \in Plan!Events : applied'[d] <= 1 /\ (event'[d] # "DONE" => applied'[d] = 0)
  BY <1>1, <1>4, <1>5
<1>12. event' \in [Plan!Events -> {"NONE", "SENT", "CLAIMED", "DONE"}] OBVIOUS
<1> QED BY <1>3, <1>6, <1>8, <1>9, <1>10, <1>11, <1>12

\* What Stripe has sent was not there before.
LEMMA SendingKeeps ==
  ASSUME EventsOK, NEW e \in Plan!Events, event[e] = "NONE",
         event' = [event EXCEPT ![e] = "SENT"], UNCHANGED <<handler, applied>>
  PROVE  EventsOK'
<1> USE DEF EventsOK
<1>1. \A d \in Plan!Events : event'[d] = IF d = e THEN "SENT" ELSE event[d] OBVIOUS
<1>2. \A h \in Handlers : \A d : Handles(h, d)' <=> Handles(h, d) BY DEF Handles
<1> QED BY <1>1, <1>2

\* Events that nothing happens to.
LEMMA EventsStand == ASSUME EventsOK, UNCHANGED <<event, handler, applied>> PROVE EventsOK'
  BY DEF EventsOK, Handles
-----------------------------------------------------------------------------
(* Payments by QR code. *)

\* Payments that nothing happens to.
LEMMA PaymentsStand == ASSUME PaymentsOK, UNCHANGED <<payment, clerk>> PROVE PaymentsOK'
  BY DEF PaymentsOK

\* A request goes on with a payment it has read, or without one.
LEMMA ClerkTurns ==
  ASSUME PaymentsOK, NEW c \in Clerks, NEW r \in ClerkType, clerk' = [clerk EXCEPT ![c] = r],
         r.doing \in {"CONFIRM", "REJECT"} => r.at \in Payments,
         payment' \in [Payments -> PaymentType]
  PROVE  PaymentsOK'
<1> USE DEF PaymentsOK
<1>1. \A d \in Clerks : clerk'[d] = IF d = c THEN r ELSE clerk[d] OBVIOUS
<1>2. clerk' \in [Clerks -> ClerkType] OBVIOUS
<1> QED BY <1>1, <1>2

\* A payment that changes is still one.
LEMMA PaymentChanges ==
  ASSUME PaymentsOK, NEW k \in Payments, NEW s \in {"NONE", "PENDING", "CONFIRMED", "REJECTED"}
  PROVE  /\ [payment EXCEPT ![k].status = s] \in [Payments -> PaymentType]
         /\ [payment EXCEPT ![k].live = FALSE] \in [Payments -> PaymentType]
  BY DEF PaymentsOK, PaymentType

\* Every request about a payment, and every code that expires.
ClerkStep ==
  \/ \E k \in Payments : Plan!Lapse(k)
  \/ \E c \in Clerks : \/ Plan!LookForPending(c) \/ Plan!ConfirmPayment(c)
                       \/ Plan!RejectOrCancel(c)
                       \/ \E plan \in Paid : Plan!MintPayment(c, plan)
                       \/ \E k \in Payments, what \in {"CONFIRM", "REJECT"} :
                            Plan!ReadPayment(c, k, what)

\* It keeps the payments.
LEMMA ClerkKeeps == ASSUME PaymentsOK, ClerkStep PROVE PaymentsOK'
<1>0. /\ Plan!Away \in ClerkType /\ Plan!Away.doing = "NOTHING"
      /\ \A k \in Payments, what \in {"CONFIRM", "REJECT"} :
           [doing |-> what, at |-> k] \in ClerkType
      /\ [doing |-> "REQUEST", at |-> 0] \in ClerkType
      /\ payment \in [Payments -> PaymentType]
  BY DEF Plan!Away, ClerkType, PaymentsOK
<1>1. ASSUME NEW k \in Payments, Plan!Lapse(k) PROVE PaymentsOK'
  <2>1. payment' = [payment EXCEPT ![k].live = FALSE] /\ clerk' = clerk
    BY <1>1 DEF Plan!Lapse
  <2>2. payment' \in [Payments -> PaymentType] BY <2>1, PaymentChanges
  <2> QED BY <2>1, <2>2 DEF PaymentsOK
<1>2. ASSUME NEW c \in Clerks, Plan!LookForPending(c) PROVE PaymentsOK'
  <2>1. clerk' = [clerk EXCEPT ![c] = [doing |-> "REQUEST", at |-> 0]] /\ payment' = payment
    BY <1>2 DEF Plan!LookForPending, Plan!Reads
  <2> QED BY <1>0, <2>1, ClerkTurns
<1>3. ASSUME NEW c \in Clerks, Plan!ConfirmPayment(c) PROVE PaymentsOK'
  <2>1. clerk' = [clerk EXCEPT ![c] = Plan!Away] /\ clerk[c].doing = "CONFIRM"
        /\ payment' = [payment EXCEPT ![clerk[c].at].status = "CONFIRMED"]
    BY <1>3 DEF Plan!ConfirmPayment, Plan!Leaves, Plan!Does
  <2>2. clerk[c].at \in Payments BY <2>1 DEF PaymentsOK
  <2>3. payment' \in [Payments -> PaymentType] BY <2>1, <2>2, PaymentChanges
  <2> QED BY <1>0, <2>1, <2>3, ClerkTurns
<1>4. ASSUME NEW c \in Clerks, Plan!RejectOrCancel(c) PROVE PaymentsOK'
  <2>1. clerk' = [clerk EXCEPT ![c] = Plan!Away] /\ clerk[c].doing = "REJECT"
        /\ payment' = [payment EXCEPT ![clerk[c].at].status = "REJECTED"]
    BY <1>4 DEF Plan!RejectOrCancel, Plan!Leaves, Plan!Does, Plan!Dropped
  <2>2. clerk[c].at \in Payments BY <2>1 DEF PaymentsOK
  <2>3. payment' \in [Payments -> PaymentType] BY <2>1, <2>2, PaymentChanges
  <2> QED BY <1>0, <2>1, <2>3, ClerkTurns
<1>5. ASSUME NEW c \in Clerks, NEW plan \in Paid, Plan!MintPayment(c, plan) PROVE PaymentsOK'
  <2>1. PICK k \in Payments : payment' = [payment EXCEPT ![k] =
                                [status |-> "PENDING", plan |-> plan, live |-> TRUE]]
    BY <1>5 DEF Plan!MintPayment
  <2>2. clerk' = [clerk EXCEPT ![c] = Plan!Away]
    BY <1>5 DEF Plan!MintPayment, Plan!Leaves
  <2>3. [status |-> "PENDING", plan |-> plan, live |-> TRUE] \in PaymentType
    BY DEF PaymentType, Plan!Plans
  <2>4. payment' \in [Payments -> PaymentType] BY <1>0, <2>1, <2>3
  <2> QED BY <1>0, <2>2, <2>4, ClerkTurns
<1>6. ASSUME NEW c \in Clerks, NEW k \in Payments, NEW what \in {"CONFIRM", "REJECT"},
             Plan!ReadPayment(c, k, what)
      PROVE  PaymentsOK'
  <2>1. clerk' = [clerk EXCEPT ![c] = [doing |-> what, at |-> k]] /\ payment' = payment
    BY <1>6 DEF Plan!ReadPayment, Plan!Reads
  <2> QED BY <1>0, <2>1, ClerkTurns
<1> QED BY <1>1, <1>2, <1>3, <1>4, <1>5, <1>6 DEF ClerkStep

\* The tier beside it: a payment that is confirmed sets the one it was for.
LEMMA ClerkKeepsTier ==
  ASSUME PaymentsOK, TierOK, ClerkStep
  PROVE  TierOK' /\ best <= best'
<1>1. ASSUME NEW c \in Clerks, Plan!ConfirmPayment(c) PROVE TierOK' /\ best <= best'
  <2>1. clerk[c].at \in Payments BY <1>1 DEF Plan!ConfirmPayment, Plan!Does, PaymentsOK
  <2>2. payment[clerk[c].at].plan \in Plan!Plans BY <2>1 DEF PaymentsOK, PaymentType
  <2>3. account' = [account EXCEPT !.status = "ACTIVE", !.plan = payment[clerk[c].at].plan]
        /\ Plan!Raised(account'.plan)
    BY <1>1 DEF Plan!ConfirmPayment
  <2>4. account' \in OrgType BY <2>2, <2>3 DEF TierOK, OrgType
  <2> QED BY <2>3, <2>4, TierChanges
<1>2. CASE ~\E c \in Clerks : Plan!ConfirmPayment(c)
  <2>1. UNCHANGED <<account, best>>
    BY <1>2 DEF ClerkStep, Plan!Lapse, Plan!LookForPending, Plan!RejectOrCancel,
       Plan!MintPayment, Plan!ReadPayment
  <2>2. account' \in OrgType BY <2>1 DEF TierOK
  <2> QED BY <2>1, <2>2, TierStays
<1> QED BY <1>1, <1>2
-----------------------------------------------------------------------------
(* The quota. *)

BookingType == [pc : {"IDLE", "ASKS", "COUNTED", "BOOKED", "CLOSED"}, limit : Nat,
                asked : BOOLEAN]

\* One booking at a time has been counted, and there is room for it.
QuotaOK ==
  /\ booking \in [Bookings -> BookingType]
  /\ \A b \in Bookings : booking[b].pc \in {"ASKS", "COUNTED"} => booking[b].limit <= best
  /\ \A b \in Bookings : booking[b].pc = "COUNTED" =>
       Cardinality(Plan!Placed) + 1 <= booking[b].limit
  /\ \A b, c \in Bookings : booking[b].pc = "COUNTED" /\ booking[c].pc = "COUNTED" => b = c
  /\ Cardinality(Plan!Placed) <= best

\* A set that gains a member has at most one more, and its parts have no more.
LEMMA Counting ==
  ASSUME NEW R, IsFiniteSet(R)
  PROVE  /\ Cardinality(R) \in Nat
         /\ \A S \in SUBSET R : Cardinality(S) \in Nat /\ Cardinality(S) <= Cardinality(R)
         /\ \A b : Cardinality(R \cup {b}) <= Cardinality(R) + 1
<1>1. Cardinality(R) \in Nat BY FS_CardinalityType
<1>2. ASSUME NEW b PROVE Cardinality(R \cup {b}) <= Cardinality(R) + 1
  <2> DEFINE more == Cardinality(R \cup {b})
  <2>1. more = Cardinality(R) \/ more = Cardinality(R) + 1 BY FS_AddElement, Zenon
  <2> HIDE DEF more
  <2>2. more <= Cardinality(R) + 1 BY <1>1, <2>1
  <2> QED BY <2>2, Zenon DEF more
<1>3. ASSUME NEW S \in SUBSET R PROVE Cardinality(S) \in Nat /\ Cardinality(S) <= Cardinality(R)
  <2>1. IsFiniteSet(S) /\ Cardinality(S) <= Cardinality(R) BY FS_Subset
  <2> QED BY <2>1, FS_CardinalityType
<1> QED BY <1>1, <1>2, <1>3

\* Places can be counted.
LEMMA PlacesAreCounted ==
  /\ Cardinality(Plan!Placed) \in Nat
  /\ \A S \in SUBSET Plan!Placed : /\ Cardinality(S) \in Nat
                                     /\ Cardinality(S) <= Cardinality(Plan!Placed)
  /\ \A b : Cardinality(Plan!Placed \cup {b}) <= Cardinality(Plan!Placed) + 1
<1>1. IsFiniteSet(Plan!Placed)
  <2>1. Plan!Placed \subseteq Bookings BY DEF Plan!Placed, Plan!Running
  <2> QED BY <2>1, PlanAssumption, FS_Subset DEF PlanAssumption
<1> QED BY <1>1, Counting, Zenon

\* A better tier leaves room where there was room.
LEMMA QuotaStands ==
  ASSUME QuotaOK, booking' = booking, best \in Nat, best' \in Nat, best <= best'
  PROVE  QuotaOK'
<1>1. Plan!Placed' = Plan!Placed BY DEF Plan!Placed, Plan!Running
<1>2. \A b \in Bookings : booking[b].limit \in Nat BY DEF QuotaOK, BookingType
<1>3. Cardinality(Plan!Placed') <= best' BY <1>1, PlacesAreCounted DEF QuotaOK
<1>4. \A b \in Bookings : booking[b].pc \in {"ASKS", "COUNTED"} => booking[b].limit <= best'
  BY <1>2 DEF QuotaOK
<1> QED BY <1>1, <1>3, <1>4 DEF QuotaOK

\* A booking that asks, is counted or is lost, and a loan that comes to run without
\* asking, or no longer runs.
LEMMA BookingTurns ==
  ASSUME QuotaOK, best \in Nat, best' = best, NEW b \in Bookings, NEW r \in BookingType,
         booking' = [booking EXCEPT ![b] = r], r.pc = "BOOKED" => ~r.asked,
         r.pc \in {"ASKS", "COUNTED"} => r.limit <= best,
         r.pc = "COUNTED" => /\ Cardinality(Plan!Placed) + 1 <= r.limit
                             /\ \A c \in Bookings : booking[c].pc # "COUNTED"
  PROVE  QuotaOK'
<1>1. booking \in [Bookings -> BookingType] BY DEF QuotaOK
<1>2. \A c \in Bookings : booking'[c] = IF c = b THEN r ELSE booking[c] BY <1>1
<1>3. booking' \in [Bookings -> BookingType] BY <1>1
<1>4. Plan!Placed' \in SUBSET Plan!Placed BY <1>2 DEF Plan!Placed, Plan!Running
<1>5. /\ Cardinality(Plan!Placed') \in Nat /\ Cardinality(Plan!Placed) \in Nat
      /\ Cardinality(Plan!Placed') <= Cardinality(Plan!Placed)
  BY <1>4, PlacesAreCounted
<1>6. Cardinality(Plan!Placed') <= best' BY <1>5 DEF QuotaOK
<1>7. \A c \in Bookings : booking'[c].pc \in {"ASKS", "COUNTED"} => booking'[c].limit <= best'
  BY <1>2 DEF QuotaOK
<1>8. \A c \in Bookings : booking'[c].pc = "COUNTED" =>
        Cardinality(Plan!Placed') + 1 <= booking'[c].limit
  <2> SUFFICES ASSUME NEW c \in Bookings, booking'[c].pc = "COUNTED"
               PROVE  Cardinality(Plan!Placed') + 1 <= booking'[c].limit
    OBVIOUS
  <2>1. booking'[c].limit \in Nat BY <1>3 DEF BookingType
  <2>2. Cardinality(Plan!Placed) + 1 <= booking'[c].limit BY <1>2 DEF QuotaOK
  <2> QED BY <1>5, <2>1, <2>2
<1>9. \A c, d \in Bookings : booking'[c].pc = "COUNTED" /\ booking'[d].pc = "COUNTED" => c = d
  BY <1>2 DEF QuotaOK
<1> QED BY <1>3, <1>6, <1>7, <1>8, <1>9 DEF QuotaOK

\* A booking that was counted takes its place; nobody else was counted.
LEMMA CommitKeeps ==
  ASSUME QuotaOK, best \in Nat, best' = best, NEW b \in Bookings, Plan!CommitBooking(b)
  PROVE  QuotaOK'
<1> DEFINE r == [Plan!Unasked EXCEPT !.asked = TRUE]
<1>0. r \in BookingType /\ r.pc = "BOOKED" /\ r.asked
  BY DEF Plan!Unasked, Plan!Unbooked, BookingType
<1>1. booking \in [Bookings -> BookingType] BY DEF QuotaOK
<1>2. booking' = [booking EXCEPT ![b] = r] /\ booking[b].pc = "COUNTED"
  BY DEF Plan!CommitBooking, Plan!Turns
<1> HIDE DEF r
<1>3. \A c \in Bookings : booking'[c] = IF c = b THEN r ELSE booking[c] BY <1>1, <1>2
<1>4. booking' \in [Bookings -> BookingType] BY <1>0, <1>1, <1>2
<1>5. \A c \in Bookings : booking'[c].pc # "COUNTED" BY <1>0, <1>2, <1>3 DEF QuotaOK
<1>6. Plan!Placed' = Plan!Placed \cup {b} BY <1>0, <1>3 DEF Plan!Placed, Plan!Running
<1>7. Cardinality(Plan!Placed') <= best'
  <2>1. /\ Cardinality(Plan!Placed \cup {b}) <= Cardinality(Plan!Placed) + 1
        /\ Cardinality(Plan!Placed) \in Nat
    BY PlacesAreCounted
  <2>2. Cardinality(Plan!Placed) + 1 <= booking[b].limit /\ booking[b].limit <= best
    BY <1>2 DEF QuotaOK
  <2>3. booking[b].limit \in Nat BY <1>1 DEF BookingType
  <2>4. IsFiniteSet(Plan!Placed \cup {b})
    <3>1. Plan!Placed \cup {b} \subseteq Bookings BY DEF Plan!Placed, Plan!Running
    <3> QED BY <3>1, PlanAssumption, FS_Subset DEF PlanAssumption
  <2>5. Cardinality(Plan!Placed \cup {b}) \in Nat BY <2>4, FS_CardinalityType
  <2> QED BY <1>6, <2>1, <2>2, <2>3, <2>5
<1>8. \A c \in Bookings : booking'[c].pc \in {"ASKS", "COUNTED"} => booking'[c].limit <= best'
  BY <1>0, <1>3 DEF QuotaOK
<1> QED BY <1>4, <1>5, <1>7, <1>8 DEF QuotaOK

\* The count of all that runs is no less than that of the places.
LEMMA PlacesAreFewer ==
  /\ Cardinality(Plan!Running) \in Nat /\ Cardinality(Plan!Placed) \in Nat
  /\ Cardinality(Plan!Placed) <= Cardinality(Plan!Running)
<1>1. IsFiniteSet(Plan!Running)
  <2>1. Plan!Running \subseteq Bookings BY DEF Plan!Running
  <2> QED BY <2>1, PlanAssumption, FS_Subset DEF PlanAssumption
<1>2. Plan!Placed \in SUBSET Plan!Running BY DEF Plan!Placed
<1> QED BY <1>1, <1>2, Counting

\* What bookings do.
BookingStep(b) == \/ Plan!AskForRoom(b) \/ Plan!CountRoom(b) \/ Plan!CommitBooking(b)
                  \/ Plan!LoseBooking(b) \/ Plan!BookUnasked(b)
                  \/ Plan!CloseLoan(b) \/ Plan!ReopenLoan(b)

\* They stay within the quota.
LEMMA BookingKeeps ==
  ASSUME QuotaOK, TierOK, NEW b \in Bookings, BookingStep(b)
  PROVE  QuotaOK' /\ UNCHANGED <<account, payment, event, handler, clerk, best, applied>>
<1>0. /\ best \in Nat /\ Ceiling[account.plan] \in Nat /\ Ceiling[account.plan] <= best
      /\ UNCHANGED <<account, payment, event, handler, clerk, best, applied>>
  BY CeilingsAreNumbers DEF TierOK, OrgType, BookingStep, Plan!AskForRoom, Plan!CountRoom,
     Plan!CommitBooking, Plan!LoseBooking, Plan!BookUnasked, Plan!CloseLoan, Plan!ReopenLoan,
     Plan!Turns, Plan!Books
<1>1. Plan!Unbooked \in BookingType /\ Plan!Unbooked.pc = "IDLE" BY DEF Plan!Unbooked, BookingType
<1>2. CASE Plan!AskForRoom(b)
  <2> DEFINE r == [pc |-> "ASKS", limit |-> Ceiling[account.plan], asked |-> TRUE]
  <2>1. booking' = [booking EXCEPT ![b] = r] BY <1>2 DEF Plan!AskForRoom, Plan!Turns
  <2>2. r \in BookingType /\ r.pc = "ASKS" /\ r.limit <= best BY <1>0 DEF BookingType
  <2> HIDE DEF r
  <2> QED BY <1>0, <2>1, <2>2, BookingTurns
<1>3. CASE Plan!CountRoom(b)
  <2>1. booking[b] \in BookingType /\ booking[b].pc = "ASKS" /\ booking[b].limit <= best
    BY <1>3 DEF Plan!CountRoom, QuotaOK
  <2>2. \A c \in Bookings : booking[c].pc # "COUNTED" BY <1>3 DEF Plan!CountRoom, Plan!QuotaFree
  <2>3. CASE Cardinality(Plan!Running) + 1 > booking[b].limit
    <3>1. booking' = [booking EXCEPT ![b] = Plan!Unbooked]
      BY <1>3, <2>3, SameCount DEF Plan!CountRoom, Plan!Turns
    <3> QED BY <1>0, <1>1, <3>1, BookingTurns
  <2>4. CASE ~(Cardinality(Plan!Running) + 1 > booking[b].limit)
    <3> DEFINE r == [booking[b] EXCEPT !.pc = "COUNTED"]
    <3>1. booking' = [booking EXCEPT ![b] = r]
      BY <1>3, <2>4, SameCount DEF Plan!CountRoom, Plan!Turns
    <3>2. r \in BookingType /\ r.pc = "COUNTED" /\ r.limit = booking[b].limit
      BY <2>1 DEF BookingType
    <3>3. booking[b].limit \in Nat BY <2>1 DEF BookingType
    <3> HIDE DEF r
    <3>4. Cardinality(Plan!Placed) + 1 <= r.limit BY <2>4, <3>2, <3>3, PlacesAreFewer
    <3> QED BY <1>0, <2>1, <2>2, <3>1, <3>2, <3>4, BookingTurns
  <2> QED BY <2>3, <2>4
<1>4. CASE Plan!CommitBooking(b) BY <1>0, <1>4, CommitKeeps
<1>5. CASE Plan!LoseBooking(b)
  <2>1. booking' = [booking EXCEPT ![b] = Plan!Unbooked]
    BY <1>5 DEF Plan!LoseBooking, Plan!Turns
  <2> QED BY <1>0, <1>1, <2>1, BookingTurns
<1>6. CASE Plan!BookUnasked(b) \/ Plan!ReopenLoan(b)
  <2>1. booking' = [booking EXCEPT ![b] = Plan!Unasked]
    BY <1>6 DEF Plan!BookUnasked, Plan!ReopenLoan, Plan!Turns
  <2>2. Plan!Unasked \in BookingType /\ Plan!Unasked.pc = "BOOKED" /\ ~Plan!Unasked.asked
    BY DEF Plan!Unasked, Plan!Unbooked, BookingType
  <2> QED BY <1>0, <2>1, <2>2, BookingTurns
<1>7. CASE Plan!CloseLoan(b)
  <2> DEFINE r == [Plan!Unbooked EXCEPT !.pc = "CLOSED"]
  <2>1. booking' = [booking EXCEPT ![b] = r] BY <1>7 DEF Plan!CloseLoan, Plan!Turns
  <2>2. r \in BookingType /\ r.pc = "CLOSED" BY DEF Plan!Unbooked, BookingType
  <2> HIDE DEF r
  <2> QED BY <1>0, <2>1, <2>2, BookingTurns
<1> QED BY <1>0, <1>2, <1>3, <1>4, <1>5, <1>6, <1>7 DEF BookingStep
-----------------------------------------------------------------------------
(* The subscription as a whole. *)

PlanOK == TierOK /\ PaymentsOK /\ EventsOK /\ QuotaOK

\* Payments, events and bookings that only the tier changes beside.
LEMMA TierAlone ==
  ASSUME PlanOK, TierOK', best <= best', booking' = booking
  PROVE  QuotaOK'
<1>1. best \in Nat /\ best' \in Nat BY CeilingsAreNumbers DEF PlanOK, TierOK
<1> QED BY <1>1, QuotaStands DEF PlanOK

\* Stripe's events as they happen, arrive and come to nothing.
StripeStep ==
  \/ \E s \in Plan!Subs : \/ Plan!PayCheckout(s)
                          \/ \E what \in {"DELETED", "UNPAID"} : Plan!EndSubscription(s, what)
  \/ \E h \in Handlers : \/ Plan!CommitEvent(h) \/ Plan!LoseEvent(h)
                         \/ \E e \in Plan!Events : Plan!ClaimEvent(h, e)

\* They are applied by whoever claimed them.
LEMMA StripeKeepsEvents == ASSUME EventsOK, StripeStep PROVE EventsOK'
<1>1. ASSUME NEW s \in Plan!Subs, Plan!PayCheckout(s) PROVE EventsOK'
  <2>1. <<"CHECKOUT", s>> \in Plan!Events BY DEF Plan!Events
  <2> QED BY <1>1, <2>1, SendingKeeps DEF Plan!PayCheckout
<1>2. ASSUME NEW s \in Plan!Subs, NEW what \in {"DELETED", "UNPAID"}, Plan!EndSubscription(s, what)
      PROVE  EventsOK'
  <2>1. <<what, s>> \in Plan!Events BY DEF Plan!Events
  <2> QED BY <1>2, <2>1, SendingKeeps DEF Plan!EndSubscription
<1>3. ASSUME NEW h \in Handlers, Plan!CommitEvent(h) PROVE EventsOK'
  <2>1. /\ handler[h].pc = "DECIDE" /\ Turns(h, Plan!Idle)
        /\ event' = [event EXCEPT ![handler[h].event] = "DONE"]
        /\ applied' = [applied EXCEPT ![handler[h].event] = IF @ < 2 THEN @ + 1 ELSE @]
    BY <1>3 DEF Plan!CommitEvent, Turns
  <2> QED BY <2>1, LeavingKeeps
<1>4. ASSUME NEW h \in Handlers, Plan!LoseEvent(h) PROVE EventsOK'
  <2>1. /\ handler[h].pc = "DECIDE" /\ Turns(h, Plan!Idle) /\ applied' = applied
        /\ event' = [event EXCEPT ![handler[h].event] = "SENT"]
    BY <1>4 DEF Plan!LoseEvent, Plan!Unclaimed, Turns
  <2> QED BY <2>1, LeavingKeeps
<1>5. ASSUME NEW h \in Handlers, NEW e \in Plan!Events, Plan!ClaimEvent(h, e) PROVE EventsOK'
  BY <1>5, ClaimKeeps
<1> QED BY <1>1, <1>2, <1>3, <1>4, <1>5 DEF StripeStep

\* What an event does to the organisation.
LEMMA StripeKeepsTier ==
  ASSUME EventsOK, TierOK, StripeStep
  PROVE  TierOK' /\ best <= best'
<1>1. ASSUME NEW h \in Handlers, Plan!CommitEvent(h) PROVE TierOK' /\ best <= best'
  <2> DEFINE e == handler[h].event
  <2>1. e \in Plan!Events /\ handler[h].matches \in BOOLEAN /\ account \in OrgType
    BY <1>1 DEF Plan!CommitEvent, EventsOK, HandlerType, TierOK
  <2>2. /\ e[1] \in {"CHECKOUT", "DELETED", "UNPAID"} /\ e[2] \in Plan!Subs
        /\ Subscribed[e[2]] \in Plan!Plans /\ FreePlan \in Plan!Plans
    BY <2>1, CeilingsAreNumbers DEF Plan!Events
  <2>3. Plan!Raised(account'.plan) BY <1>1 DEF Plan!CommitEvent
  <2>4. account' \in OrgType
    <3>1. CASE ~handler[h].matches
      <4>1. account' = account BY <1>1, <2>2, <3>1 DEF Plan!CommitEvent
      <4> QED BY <2>1, <4>1
    <3>2. CASE handler[h].matches /\ e[1] = "CHECKOUT"
      <4>1. account' = [account EXCEPT !.plan = Subscribed[e[2]], !.sub = e[2]]
        BY <1>1, <3>2 DEF Plan!CommitEvent
      <4> QED BY <2>1, <2>2, <4>1 DEF OrgType
    <3>3. CASE handler[h].matches /\ e[1] = "DELETED"
      <4>1. account' = [account EXCEPT !.plan = FreePlan, !.sub = Nobody]
        BY <1>1, <3>3 DEF Plan!CommitEvent
      <4> QED BY <2>1, <2>2, <4>1 DEF OrgType
    <3>4. CASE handler[h].matches /\ e[1] = "UNPAID"
      <4>1. account' = [account EXCEPT !.status = IF @ = "ACTIVE" THEN "SUSPENDED" ELSE @]
        BY <1>1, <3>4 DEF Plan!CommitEvent
      <4> QED BY <2>1, <4>1 DEF OrgType
    <3> QED BY <2>1, <2>2, <3>1, <3>2, <3>3, <3>4
  <2> QED BY <2>3, <2>4, TierChanges
<1>2. CASE ~\E h \in Handlers : Plan!CommitEvent(h)
  <2>1. UNCHANGED <<account, best>>
    BY <1>2 DEF StripeStep, Plan!PayCheckout, Plan!EndSubscription, Plan!LoseEvent, Plan!ClaimEvent
  <2>2. account' \in OrgType BY <2>1 DEF TierOK
  <2> QED BY <2>1, <2>2, TierStays
<1> QED BY <1>1, <1>2

\* What the operator of the platform does.
OperatorStep == \/ \E plan \in Plan!Plans : Plan!SetPlan(plan)
                \/ Plan!Suspend \/ Plan!Reactivate \/ Plan!Trash

\* It leaves the organisation one.
LEMMA OperatorKeepsTier == ASSUME TierOK, OperatorStep PROVE TierOK' /\ best <= best'
<1>0. account \in OrgType BY DEF TierOK
<1>1. ASSUME NEW plan \in Plan!Plans, Plan!SetPlan(plan) PROVE TierOK' /\ best <= best'
  <2>1. account' = [account EXCEPT !.plan = plan] /\ Plan!Raised(plan) BY <1>1 DEF Plan!SetPlan
  <2>2. account' \in OrgType /\ account'.plan = plan BY <1>0, <2>1 DEF OrgType
  <2> QED BY <2>1, <2>2, TierChanges
<1>2. CASE Plan!Suspend \/ Plan!Reactivate \/ Plan!Trash
  <2>1. best' = best BY <1>2 DEF Plan!Suspend, Plan!Reactivate, Plan!Trash
  <2>2. account' \in OrgType /\ account'.plan = account.plan
    BY <1>0, <1>2 DEF Plan!Suspend, Plan!Reactivate, Plan!Trash, OrgType
  <2> QED BY <2>1, <2>2, TierStays
<1> QED BY <1>1, <1>2 DEF OperatorStep

\* Every step keeps all of it.
LEMMA PlanStep == ASSUME PlanOK, [Plan!Next]_planVars PROVE PlanOK'
<1> USE DEF PlanOK
<1>1. CASE StripeStep
  <2>1. UNCHANGED <<payment, clerk, booking>>
    BY <1>1, Zenon DEF StripeStep, Plan!PayCheckout, Plan!EndSubscription, Plan!CommitEvent,
       Plan!LoseEvent, Plan!ClaimEvent
  <2> QED BY <1>1, <2>1, StripeKeepsEvents, StripeKeepsTier, PaymentsStand, TierAlone
<1>2. CASE ClerkStep
  <2>1. UNCHANGED <<event, handler, applied, booking>>
    BY <1>2, Zenon DEF ClerkStep, Plan!Lapse, Plan!LookForPending, Plan!ConfirmPayment,
       Plan!RejectOrCancel, Plan!MintPayment, Plan!ReadPayment, Plan!Stripe
  <2> QED BY <1>2, <2>1, ClerkKeeps, ClerkKeepsTier, EventsStand, TierAlone
<1>3. CASE OperatorStep
  <2>1. UNCHANGED <<payment, clerk, event, handler, applied, booking>>
    BY <1>3 DEF OperatorStep, Plan!SetPlan, Plan!Suspend, Plan!Reactivate, Plan!Trash,
       Plan!Operates, Plan!Stripe
  <2> QED BY <1>3, <2>1, OperatorKeepsTier, PaymentsStand, EventsStand, TierAlone
<1>4. ASSUME NEW b \in Bookings, BookingStep(b) PROVE PlanOK'
  <2>1. QuotaOK' /\ UNCHANGED <<account, payment, event, handler, clerk, best, applied>>
    BY <1>4, BookingKeeps
  <2>2. TierOK' BY <2>1 DEF TierOK
  <2> QED BY <2>1, <2>2, PaymentsStand, EventsStand
<1>5. CASE UNCHANGED planVars
  <2>1. UNCHANGED <<account, payment, event, handler, clerk, booking, best, applied>>
    BY <1>5 DEF planVars
  <2>2. TierOK' BY <2>1 DEF TierOK
  <2>3. best <= best' BY <2>1, CeilingsAreNumbers DEF TierOK
  <2> QED BY <2>1, <2>2, <2>3, PaymentsStand, EventsStand, TierAlone
<1> QED BY <1>1, <1>2, <1>3, <1>4, <1>5
        DEF Plan!Next, StripeStep, ClerkStep, OperatorStep, BookingStep

\* An organisation that has just signed up.
LEMMA PlanInit == ASSUME Plan!Init PROVE PlanOK
<1>1. TierOK
  <2>1. FreePlan \in Plan!Plans /\ Ceiling[FreePlan] \in Nat BY CeilingsAreNumbers
  <2> QED BY <2>1 DEF Plan!Init, TierOK, OrgType
<1>2. PaymentsOK
  <2>1. Plan!NoPayment \in PaymentType BY DEF Plan!NoPayment, PaymentType, Plan!Plans
  <2>2. [status : {"PENDING"}, plan : Paid, live : {TRUE}] \subseteq PaymentType
    BY DEF PaymentType, Plan!Plans
  <2>3. payment \in [Payments -> PaymentType] BY <2>1, <2>2 DEF Plan!Init
  <2>4. Plan!Away \in ClerkType /\ Plan!Away.doing = "NOTHING" BY DEF Plan!Away, ClerkType
  <2> QED BY <2>3, <2>4 DEF Plan!Init, PaymentsOK
<1>3. EventsOK
  <2>1. Plan!Idle \in HandlerType /\ Plan!Idle.pc = "IDLE" BY DEF Plan!Idle, HandlerType
  <2> QED BY <2>1 DEF Plan!Init, EventsOK, Handles
<1>4. QuotaOK
  <2>1. Plan!Unbooked \in BookingType /\ Plan!Unbooked.pc = "IDLE"
    BY DEF Plan!Unbooked, BookingType
  <2>2. Plan!Placed = {} BY <2>1 DEF Plan!Init, Plan!Placed, Plan!Running
  <2>3. Cardinality(Plan!Placed) <= best
    BY <2>2, FS_EmptySet, CeilingsAreNumbers DEF Plan!Init
  <2> QED BY <2>1, <2>3 DEF Plan!Init, QuotaOK
<1> QED BY <1>1, <1>2, <1>3, <1>4 DEF PlanOK

\* In every scene.
LEMMA PlanInvariant == MCSpec => []PlanOK
<1>1. MCInit => PlanOK BY PlanInit DEF MCInit
<1>2. PlanOK /\ [MCNext]_allVars => PlanOK'
  <2>1. [MCNext]_allVars => [Plan!Next]_planVars BY DEF MCNext, allVars
  <2> QED BY <2>1, PlanStep
<1> QED BY <1>1, <1>2, PTL DEF MCSpec

\* apply: however often Stripe delivers an event, at once or again after a
\* transaction that came to nothing, its effect is committed at most once; and
\* no event stays claimed with nobody to apply it.
THEOREM EventsAreAppliedOnce == MCSpec => []AppliedOnce
<1>1. PlanOK => AppliedOnce
  <2> SUFFICES ASSUME PlanOK PROVE AppliedOnce OBVIOUS
  <2>1. Plan!TypeOK
    BY DEF PlanOK, Plan!TypeOK, TierOK, OrgType, PaymentsOK, PaymentType, ClerkType,
       EventsOK, HandlerType, QuotaOK, BookingType
  <2>2. Plan!NoOrphanClaim BY DEF PlanOK, EventsOK, Plan!NoOrphanClaim, Handles
  <2> QED BY <2>1, <2>2 DEF AppliedOnce, Plan!AppliedOnce, PlanOK, EventsOK
<1> QED BY <1>1, PlanInvariant, PTL

\* assertRoom: whatever bookings ask for room at once, however the tier changes
\* while they wait, and whatever loans come to run without asking, no more of the
\* loans that asked run than the best tier held allowed.
THEOREM PlacesStayWithinPlan == MCSpec => []PlacesWithinPlan
<1>1. PlanOK => PlacesWithinPlan
  BY SameCount DEF PlanOK, QuotaOK, PlacesWithinPlan, Plan!PlacesWithinPlan
<1> QED BY <1>1, PlanInvariant, PTL
=============================================================================
