------------------------------ MODULE Erasure ------------------------------
(***************************************************************************)
(* The erasure of one organisation: the request that puts it in the trash  *)
(* (TenantsService.remove), the archive, the purge request a second        *)
(* super-administrator decides on (PlatformApprovalService), and the purge *)
(* (TenantPurgeService).  Every one of them reads in statements of its own *)
(* and writes later; only the decision, the execution of a request and the *)
(* one-open-request index are conditional writes.  Time is in days.        *)
(***************************************************************************)
EXTENDS Integers, FiniteSets

CONSTANTS
  Admins,       \* super-administrators
  Calls,        \* requests to the platform under way at once
  Nobody,
  Grace,        \* TENANT_ERASURE_GRACE_DAYS
  Ttl,          \* PLATFORM_APPROVAL_TTL_DAYS
  Requests,     \* numbers of purge requests, 1 .. n
  MaxDay,       \* bound: days that pass
  MaxErasures,  \* bound: requests for erasure
  MaxFaults     \* bound: purges that fail half way

\* What the constants have to be.
ErasureConstants ==
  /\ Nobody \notin Admins
  /\ Grace \in Nat /\ Ttl \in Nat
  /\ Requests \subseteq Nat \ {0}

VARIABLES
  today,
  org,       \* Tenant: exists, erasedAt (0: not in the trash); and its files
  held,      \* whether legal hold, an open relationship or retention blocks
  archive,   \* the latest TenantArchive: its day, and the day it was read
  request,   \* PlatformApproval rows of action TENANT_PURGE
  call,      \* what each call has read
  purgedOn,  \* history: the request the rows were deleted on, 0: none
  erasures, faults

vars == <<today, org, held, archive, request, call, purgedOn, erasures, faults>>

NoRequest == [status |-> "NONE", maker |-> Nobody, checker |-> Nobody, at |-> 0]
Idle == [pc |-> "IDLE", by |-> Nobody, erasedAt |-> 0, request |-> 0, day |-> 0]

IsOpen(r) == r.status \in {"PENDING", "APPROVED"}
Lapsed(r) == r.at + Ttl <= today

Does(c, pc) == call[c].pc = pc
Leaves(c) == call' = [call EXCEPT ![c] = Idle]
Reads == UNCHANGED <<today, org, held, archive, request, purgedOn, erasures, faults>>

\* assertErasureAndGrace
GraceOver == org.exists /\ org.erasedAt # 0 /\ org.erasedAt + Grace <= today

-----------------------------------------------------------------------------
(* The organisation and the calendar. *)

NextDay ==
  /\ today < MaxDay /\ today' = today + 1
  /\ UNCHANGED <<org, held, archive, request, call, purgedOn, erasures, faults>>

\* remove, whatever the organisation's status is.
Erase ==
  /\ org.exists /\ erasures < MaxErasures /\ erasures' = erasures + 1
  /\ org' = [org EXCEPT !.erasedAt = today]
  /\ UNCHANGED <<today, held, archive, request, call, purgedOn, faults>>

\* setStatus to ACTIVE
Reactivate ==
  /\ org.exists /\ org' = [org EXCEPT !.erasedAt = 0]
  /\ UNCHANGED <<today, held, archive, request, call, purgedOn, erasures, faults>>

\* An organisation in use takes customers on; retention ends with time.
BlockersChange ==
  /\ held \/ org.erasedAt = 0
  /\ held' = ~held
  /\ UNCHANGED <<today, org, archive, request, call, purgedOn, erasures, faults>>

-----------------------------------------------------------------------------
(* The archive. *)

ReadTables(c) ==
  /\ Does(c, "IDLE") /\ org.exists /\ org.erasedAt # 0
  /\ call' = [call EXCEPT ![c] = [Idle EXCEPT !.pc = "ARCHIVE", !.day = today]]
  /\ Reads

WriteArchive(c) ==
  /\ Does(c, "ARCHIVE")
  /\ archive' = [at |-> today, read |-> call[c].day]
  /\ Leaves(c)
  /\ UNCHANGED <<today, org, held, request, purgedOn, erasures, faults>>

-----------------------------------------------------------------------------
(* Requests: PlatformApprovalService. *)

\* requestPurge: the four conditions.
AskForPurge(c, a) ==
  /\ Does(c, "IDLE")
  /\ GraceOver /\ archive.at >= org.erasedAt /\ ~held
  /\ \E b \in Admins : b # a              \* secondApproverAvailable
  /\ call' = [call EXCEPT ![c] = [Idle EXCEPT !.pc = "OPEN", !.by = a]]
  /\ Reads

\* open: what lapsed is cancelled; the index allows one open request.
Expired(r) == IF IsOpen(r) /\ Lapsed(r) THEN [r EXCEPT !.status = "CANCELLED"] ELSE r

OpenRequest(c) ==
  LET kept == [k \in Requests |-> Expired(request[k])]
  IN  /\ Does(c, "OPEN")
      /\ \/ /\ \E k \in Requests : IsOpen(kept[k])
            /\ request' = kept
         \/ /\ ~\E k \in Requests : IsOpen(kept[k])
            /\ \E k \in Requests :
                 /\ {j \in Requests : request[j] # NoRequest} = 1 .. k - 1
                 /\ request' = [kept EXCEPT ![k] = [status |-> "PENDING", maker |-> call[c].by,
                                                    checker |-> Nobody, at |-> today]]
      /\ Leaves(c)
      /\ UNCHANGED <<today, org, held, archive, purgedOn, erasures, faults>>

\* decide: what it asks of the request it has read ...
MayDecide(r, a) == r.status = "PENDING" /\ ~Lapsed(r) /\ r.maker # a

ReadRequest(c, a, k) ==
  /\ Does(c, "IDLE") /\ MayDecide(request[k], a)
  /\ call' = [call EXCEPT ![c] = [Idle EXCEPT !.pc = "DECIDE", !.by = a, !.request = k]]
  /\ Reads

\* ... and the update, where the status is PENDING still.
WriteDecision(c) ==
  LET k == call[c].request
  IN  /\ Does(c, "DECIDE")
      /\ \/ request[k].status # "PENDING" /\ UNCHANGED request
         \/ /\ request[k].status = "PENDING"
            /\ \E s \in {"APPROVED", "REJECTED"} :
                 request' = [request EXCEPT ![k].status = s, ![k].checker = call[c].by]
      /\ Leaves(c)
      /\ UNCHANGED <<today, org, held, archive, purgedOn, erasures, faults>>

\* cancel: by its maker; it is written by its id.
ReadOwn(c, k) ==
  /\ Does(c, "IDLE") /\ IsOpen(request[k])
  /\ call' = [call EXCEPT ![c] = [Idle EXCEPT !.pc = "CANCEL", !.request = k]]
  /\ Reads

WriteCancelled(c) ==
  /\ Does(c, "CANCEL")
  /\ request' = [request EXCEPT ![call[c].request].status = "CANCELLED"]
  /\ Leaves(c)
  /\ UNCHANGED <<today, org, held, archive, purgedOn, erasures, faults>>

-----------------------------------------------------------------------------
(* The purge. *)

ReadTenant(c) ==
  /\ Does(c, "IDLE") /\ GraceOver
  /\ call' = [call EXCEPT ![c] = [Idle EXCEPT !.pc = "FIND", !.erasedAt = org.erasedAt]]
  /\ Reads

\* findOpen, were it to forget that a request lapses.
OpenEver(k) == IsOpen(request[k])

Open(k) == IsOpen(request[k]) /\ ~Lapsed(request[k])

FindRequest(c) ==
  /\ Does(c, "FIND")
  /\ \/ \E k \in Requests : /\ Open(k) /\ request[k].status = "APPROVED"
                            /\ call' = [call EXCEPT ![c].pc = "CHECK", ![c].request = k]
     \/ /\ ~\E k \in Requests : Open(k) /\ request[k].status = "APPROVED"
        /\ Leaves(c)
  /\ Reads

CheckArchiveAndBlockers(c) ==
  /\ Does(c, "CHECK")
  /\ \/ archive.at >= call[c].erasedAt /\ ~held /\ call' = [call EXCEPT ![c].pc = "FILES"]
     \/ (archive.at < call[c].erasedAt \/ held) /\ Leaves(c)
  /\ Reads

\* deleteTenantFiles, folder by folder: it may stop half way.
DeleteFiles(c) ==
  /\ Does(c, "FILES")
  /\ \/ org' = [org EXCEPT !.files = "NONE"] /\ call' = [call EXCEPT ![c].pc = "ROWS"]
        /\ UNCHANGED faults
     \/ /\ faults < MaxFaults /\ faults' = faults + 1
        /\ org' = [org EXCEPT !.files = IF @ = "ALL" THEN "SOME" ELSE @] /\ Leaves(c)
  /\ UNCHANGED <<today, held, archive, request, purgedOn, erasures>>

\* markExecuted
StillApproved(k) == request[k].status = "APPROVED"

\* The transaction: the row of the organisation must be there, and the request
\* approved still.
DeleteRows(c) ==
  LET k == call[c].request
  IN  /\ Does(c, "ROWS")
      /\ \/ /\ org.exists /\ StillApproved(k)
            /\ org' = [org EXCEPT !.exists = FALSE]
            /\ request' = [request EXCEPT ![k].status = "EXECUTED"]
            /\ purgedOn' = k
            /\ UNCHANGED faults
         \/ /\ ~org.exists \/ ~StillApproved(k)
            /\ UNCHANGED <<org, request, purgedOn, faults>>
         \/ /\ faults < MaxFaults /\ faults' = faults + 1    \* it takes too long
            /\ UNCHANGED <<org, request, purgedOn>>
      /\ Leaves(c)
      /\ UNCHANGED <<today, held, archive, erasures>>

-----------------------------------------------------------------------------
Init ==
  /\ today = 1
  /\ org = [exists |-> TRUE, erasedAt |-> 0, files |-> "ALL"]
  /\ held = FALSE
  /\ archive = [at |-> 0, read |-> 0]
  /\ request = [k \in Requests |-> NoRequest]
  /\ call = [c \in Calls |-> Idle]
  /\ purgedOn = 0 /\ erasures = 0 /\ faults = 0

Next ==
  \/ NextDay \/ Erase \/ Reactivate \/ BlockersChange
  \/ \E c \in Calls :
       \/ ReadTables(c) \/ WriteArchive(c)
       \/ OpenRequest(c) \/ WriteDecision(c) \/ WriteCancelled(c)
       \/ ReadTenant(c) \/ FindRequest(c) \/ CheckArchiveAndBlockers(c)
       \/ DeleteFiles(c) \/ DeleteRows(c)
       \/ \E a \in Admins : AskForPurge(c, a)
       \/ \E a \in Admins, k \in Requests : ReadRequest(c, a, k)
       \/ \E k \in Requests : ReadOwn(c, k)

Spec == Init /\ [][Next]_vars
-----------------------------------------------------------------------------
(* Properties. *)

Statuses == {"NONE", "PENDING", "APPROVED", "REJECTED", "CANCELLED", "EXECUTED"}
Steps == {"IDLE", "ARCHIVE", "OPEN", "DECIDE", "CANCEL", "FIND", "CHECK", "FILES", "ROWS"}

TypeOK ==
  /\ today \in Nat /\ held \in BOOLEAN
  /\ org \in [exists : BOOLEAN, erasedAt : Nat, files : {"ALL", "SOME", "NONE"}]
  /\ archive \in [at : Nat, read : Nat]
  /\ request \in [Requests -> [status : Statuses, maker : Admins \cup {Nobody},
                               checker : Admins \cup {Nobody}, at : Nat]]
  /\ call \in [Calls -> [pc : Steps, by : Admins \cup {Nobody}, erasedAt : Nat,
                         request : Requests \cup {0}, day : Nat]]
  /\ purgedOn \in Requests \cup {0} /\ erasures \in Nat /\ faults \in Nat

\* The approval a purge works on had not lapsed when the grace of the erasure it
\* works on was over.  So, where an approval does not live longer than the grace,
\* it was asked for after that erasure: no approval outlives a reactivation and
\* serves the next erasure.
Purging(c) == call[c].pc \in {"CHECK", "FILES", "ROWS"}
ApprovalIsFresh == \A c \in Calls : Purging(c) =>
  request[call[c].request].at + Ttl > call[c].erasedAt + Grace
ApprovedForThisErasure == \A c \in Calls : Purging(c) =>
  request[call[c].request].at > call[c].erasedAt

\* "an action a single super-administrator must not take alone": whatever became
\* of its request since, the purge had a maker and a checker who differ.
PurgedByTwo ==
  ~org.exists => /\ purgedOn # 0
                 /\ request[purgedOn].checker \notin {Nobody, request[purgedOn].maker}

\* A purge has an approval of its own, from the check of it to the end.
PurgeIsApproved ==
  /\ TypeOK
  /\ ApprovalIsFresh /\ (Ttl <= Grace => ApprovedForThisErasure)
  /\ PurgedByTwo

\* purge: "Every condition is checked again": what is deleted is in the trash.
OnlyErasedArePurged == [][org.exists /\ ~org'.exists => org.erasedAt # 0]_vars

\* "Nothing was purged; try again": an organisation taken out of the trash has
\* its files.
ReactivatedHasItsFiles == org.exists /\ org.erasedAt = 0 => org.files = "ALL"

\* "the approval record remain[s]": a request carried out stays EXECUTED.
ExecutedStays == [][\A k \in Requests :
  request[k].status = "EXECUTED" => request'[k].status = "EXECUTED"]_vars

\* "an archive ... written after the request": it was read after it, too.
ArchiveIsOfThisErasure == [][org.exists /\ ~org'.exists => archive.read >= org.erasedAt]_vars
=============================================================================
