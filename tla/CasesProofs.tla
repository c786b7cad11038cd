------------------------------ MODULE CasesProofs ------------------------------
(***************************************************************************)
(* For any people, calls, proposals and payments: a restructuring case     *)
(* amends its loan in order.  A case's version orders whoever writes it    *)
(* under a condition; execution writes without one, and is in order        *)
(* because the loan is locked and because no step of a case takes a        *)
(* proposal back that was accepted.  And for any people, calls, offers and *)
(* statements: an application is decided and contracted in order.  Its     *)
(* version orders whoever writes it, so what they have read of it is so;   *)
(* the number a statement takes when it is prepared is free only while no  *)
(* other has been written, so its request has seen what is in force.       *)
(* And of any loan in arrears: its promises are followed up, and demands   *)
(* and set-offs are posted as they were made and decided.                  *)
(***************************************************************************)
EXTENDS MCCases, Sequences, SumProofs, FiniteSetTheorems, TLAPS
-----------------------------------------------------------------------------
(* The case. *)

Cases == Open \cup {"MONITORING", "COMPLETED", "REVERSED", "WITHDRAWN", "REJECTED"}
Conditions == {"NONE", "OUTSTANDING", "SATISFIED"}
ProposalStatuses ==
  {"NONE", "PROPOSED", "APPROVED", "ACCEPTED", "EXECUTED", "SUPERSEDED", "REJECTED"}
ProposalRows == [status : ProposalStatuses, by : Staff \cup {Nobody}, required : Nat,
                 approvals : SUBSET Staff, accepted : BOOLEAN, owed : Int]
AmendmentRows == [status : {"NONE", "EXECUTED", "REVERSED"}, terms : Proposals \cup {0},
                  owed : Int, by : Staff \cup {Nobody}]
LoanType == [terms : Proposals \cup {0}, owed : Int, paid : 0 .. MaxPaid, quiet : BOOLEAN]
CallType == [doing : {"NOTHING", "ASSESS", "WITHDRAW", "PROPOSE", "APPROVE", "REJECT", "ACCEPT",
                      "MARK", "SATISFY", "EXECUTE", "RETURN"},
             by : Staff \cup {Nobody}, at : Proposals \cup {0}, seen : SUBSET Staff]

Typed ==
  /\ case \in Cases /\ condition \in Conditions
  /\ proposal \in [Proposals -> ProposalRows]
  /\ amendment \in [Proposals -> AmendmentRows]
  /\ loan \in LoanType
  /\ call \in [Calls -> CallType]

\* A case that waits for nothing has no condition outstanding.
NothingOutstanding == case = "CONDITIONS_SATISFIED" => condition # "OUTSTANDING"

\* Proposals are approved by others than those who want them; an approved
\* proposal by enough, and one is accepted only then.
ApprovedByEnough == \A k \in Proposals :
  LET p == proposal[k]
  IN  /\ IsFiniteSet(p.approvals) /\ p.approvals \cap {p.by, initiator} = {}
      /\ p.status \in {"APPROVED", "ACCEPTED"} \/ p.accepted
           => Cardinality(p.approvals) >= p.required
      /\ p.status = "ACCEPTED" => p.accepted

OneAlive == \A j, k \in Proposals : Alive(proposal[j]) /\ Alive(proposal[k]) => j = k

\* An amendment is of a proposal that was accepted, and that nobody may accept or
\* execute again.
AmendedOnce == \A k \in Proposals : amendment[k].status # "NONE" =>
  proposal[k].accepted /\ proposal[k].status \in {"EXECUTED", "SUPERSEDED"}

\* What a call may still rely on of what it has read: an approval on the case, and
\* an execution on the loan's lock.
Relies(c) ==
  LET r == call[c]
      p == proposal[r.at]
  IN  /\ Does(c, "APPROVE") =>
           /\ r.at \in Proposals /\ r.by \in Staff
           /\ p.status = "PROPOSED" /\ r.seen = p.approvals
           /\ r.by \notin {p.by, initiator} \cup p.approvals
      /\ Does(c, "ACCEPT") \/ Does(c, "RETURN") => r.at \in Proposals
      /\ Does(c, "EXECUTE") =>
           /\ r.at \in Proposals
           /\ p.accepted /\ p.status \in {"ACCEPTED", "SUPERSEDED"}
           /\ amendment[r.at].status = "NONE"

CallsRely == \A c \in Calls : Relies(c)

OneExecutes == \A c, d \in Calls : Does(c, "EXECUTE") /\ Does(d, "EXECUTE") => c = d

\* The terms in force are the contract's or an amendment's.
TermsInForce == loan.terms # 0 => amendment[loan.terms].status = "EXECUTED"

\* As long as nothing was posted since, an amendment has what was before it.
BeforeIsKept == loan.quiet =>
  LET a == amendment[loan.terms]
  IN  /\ loan.terms # 0
      /\ a.owed = loan.owed + 1
      /\ a.terms # 0 => a.terms # loan.terms /\ amendment[a.terms].status = "EXECUTED"

Executed == {k \in Proposals : amendment[k].status = "EXECUTED"}

\* Proposals are numbered from 1.
LEMMA Numbered == \A k \in Proposals : k \in Nat \ {0}
<1>1. Cardinality(Proposals) \in Nat
  BY RestructuringAssumption, FS_CardinalityType DEF RestructuringAssumption
<1>2. Proposals = 1 .. Cardinality(Proposals)
  BY RestructuringAssumption DEF RestructuringAssumption
<1> QED BY <1>1, <1>2

IInv == /\ Typed /\ NothingOutstanding /\ ApprovedByEnough /\ OneAlive /\ AmendedOnce
        /\ CallsRely /\ OneExecutes /\ TermsInForce /\ BeforeIsKept /\ NothingIsLost
-----------------------------------------------------------------------------
\* At first there is nothing to approve.
LEMMA InitInvariant == Init => IInv
<1> SUFFICES ASSUME Init PROVE IInv OBVIOUS
<1> USE RestructuringAssumption DEF RestructuringAssumption, Init
<1>1. Typed
  <2>1. NoProposal \in ProposalRows BY DEF NoProposal, ProposalRows, ProposalStatuses
  <2>2. NoAmendment \in AmendmentRows BY DEF NoAmendment, AmendmentRows
  <2>3. Idle \in CallType BY DEF Idle, CallType
  <2> QED BY <2>1, <2>2, <2>3 DEF Typed, Cases, Open, Conditions, LoanType
<1>2. ApprovedByEnough BY FS_EmptySet DEF ApprovedByEnough, NoProposal
<1>3. OneAlive /\ AmendedOnce BY DEF OneAlive, Alive, AmendedOnce, NoProposal, NoAmendment
<1>4. CallsRely /\ OneExecutes BY DEF CallsRely, Relies, OneExecutes, Does, Idle
<1>5. NothingIsLost
  <2>1. Executed = {} BY DEF Executed, NoAmendment
  <2>2. Cardinality(Executed) = 0 BY <2>1, FS_EmptySet
  <2>3. loan.owed = Lent - loan.paid - 0 OBVIOUS
  <2> QED BY ONLY <2>2, <2>3 DEF NothingIsLost, Executed
<1> QED BY <1>1, <1>2, <1>3, <1>4, <1>5
        DEF IInv, NothingOutstanding, TermsInForce, BeforeIsKept

\* A step that writes nothing but its own call.
LEMMA CallStep ==
  ASSUME IInv, NEW c \in Calls, NEW r \in CallType, call' = [call EXCEPT ![c] = r],
         UNCHANGED <<initiator, case, condition, proposal, amendment, loan>>,
         r.doing = "APPROVE" =>
           /\ r.at \in Proposals /\ r.by \in Staff
           /\ proposal[r.at].status = "PROPOSED" /\ r.seen = proposal[r.at].approvals
           /\ MayApprove(r.by, r.at),
         r.doing \in {"ACCEPT", "RETURN"} => r.at \in Proposals,
         r.doing = "EXECUTE" => /\ LoanIsFree /\ r.at \in Proposals
                                /\ proposal[r.at].status = "ACCEPTED"
  PROVE  IInv'
<1> USE DEF IInv
<1>1. \A d \in Calls : call'[d] = IF d = c THEN r ELSE call[d] BY DEF Typed
<1>2. Typed' BY DEF Typed
<1>3. NothingOutstanding' /\ ApprovedByEnough' /\ OneAlive' /\ AmendedOnce'
  BY DEF NothingOutstanding, ApprovedByEnough, OneAlive, Alive, AmendedOnce
<1>4. CallsRely'
  <2>1. ASSUME NEW k \in Proposals, proposal[k].status = "ACCEPTED"
        PROVE  proposal[k].accepted /\ amendment[k].status = "NONE"
    BY <2>1 DEF ApprovedByEnough, AmendedOnce, Typed
  <2> QED BY <1>1, <2>1 DEF CallsRely, Relies, Does, MayApprove
<1>5. OneExecutes' BY <1>1 DEF OneExecutes, LoanIsFree, Does
<1>6. TermsInForce' /\ BeforeIsKept' /\ NothingIsLost'
  BY DEF TermsInForce, BeforeIsKept, NothingIsLost
<1> QED BY <1>2, <1>3, <1>4, <1>5, <1>6

\* A call that is over, or rolled back.
LEMMA IdleStep ==
  ASSUME IInv, NEW c \in Calls, CaseLeft(c),
         UNCHANGED <<initiator, case, condition, proposal, amendment, loan>>
  PROVE  IInv'
<1>1. Idle \in CallType /\ Idle.doing = "NOTHING" BY DEF Idle, CallType
<1> QED BY <1>1, CallStep DEF CaseLeft

\* Once the case is written, only calls go on that write it without a condition.
LEMMA OthersGoOn ==
  ASSUME Typed, NEW C \in SUBSET Calls,
         call' = [d \in Calls |->
           IF d \notin C /\ call[d].doing \in Unconditional THEN call[d] ELSE Idle]
  PROVE  /\ call' \in [Calls -> CallType]
         /\ \A d \in Calls :
              \/ call'[d] = call[d] /\ call[d].doing \in Unconditional /\ d \notin C
              \/ call'[d].doing = "NOTHING"
<1>1. Idle \in CallType /\ Idle.doing = "NOTHING" BY DEF Idle, CallType
<1> QED BY <1>1 DEF Typed

\* So when one call writes the case.
LEMMA OneWrites ==
  ASSUME Typed, NEW c \in Calls, CaseWritten(c)
  PROVE  /\ call' \in [Calls -> CallType]
         /\ \A d \in Calls :
              \/ call'[d] = call[d] /\ call[d].doing \in Unconditional /\ d # c
              \/ call'[d].doing = "NOTHING"
<1>1. Idle \in CallType /\ Idle.doing = "NOTHING" BY DEF Idle, CallType
<1>2. call' = [d \in Calls |->
        IF d # c /\ call[d].doing \in Unconditional THEN call[d] ELSE Idle]
  BY DEF CaseWritten
<1>3. call \in [Calls -> CallType] BY DEF Typed
<1> HIDE DEF Idle, CallType, Unconditional
<1> QED BY <1>1, <1>2, <1>3

\* Nothing takes a proposal back that was accepted, but a change of it.
AcceptedStand == \A k \in Proposals : proposal[k].accepted =>
  /\ proposal'[k].accepted
  /\ proposal[k].status \in {"EXECUTED", "SUPERSEDED"} => proposal'[k].status = proposal[k].status
  /\ proposal[k].status = "ACCEPTED" => proposal'[k].status \in {"ACCEPTED", "SUPERSEDED"}

\* A step of the review: the case is written, and perhaps its proposals.
LEMMA ReviewStep ==
  ASSUME IInv, NEW c \in Calls, CaseWritten(c), UNCHANGED <<initiator, amendment, loan>>,
         case' \in Cases, condition' \in Conditions, NothingOutstanding',
         proposal' \in [Proposals -> ProposalRows],
         ApprovedByEnough', OneAlive', AcceptedStand
  PROVE  IInv'
<1> USE DEF IInv
<1>1. /\ call' \in [Calls -> CallType]
      /\ \A d \in Calls :
           \/ call'[d] = call[d] /\ call[d].doing \in Unconditional /\ d # c
           \/ call'[d].doing = "NOTHING"
  BY OneWrites
<1>2. Typed' BY <1>1 DEF Typed
<1>3. AmendedOnce' BY DEF AmendedOnce, AcceptedStand
<1>4. CallsRely'
  <2>1. SUFFICES ASSUME NEW d \in Calls PROVE Relies(d)' BY DEF CallsRely
  <2>2. CASE call'[d].doing = "NOTHING" BY <2>2 DEF Relies, Does
  <2>3. CASE call'[d] = call[d] /\ call[d].doing \in Unconditional
    BY <2>3 DEF CallsRely, Relies, Does, Unconditional, AcceptedStand
  <2> QED BY <1>1, <2>2, <2>3
<1>5. OneExecutes' BY <1>1 DEF OneExecutes, Does
<1>6. TermsInForce' /\ BeforeIsKept' /\ NothingIsLost'
  BY DEF TermsInForce, BeforeIsKept, NothingIsLost
<1> QED BY <1>2, <1>3, <1>4, <1>5, <1>6

\* The same, where the proposals keep who made and approved them, and do not come
\* alive again.
LEMMA StatusStep ==
  ASSUME IInv, NEW c \in Calls, CaseWritten(c), UNCHANGED <<initiator, amendment, loan>>,
         case' \in Cases, condition' = condition, NothingOutstanding',
         NEW Changed \in SUBSET Proposals, NEW s \in {"SUPERSEDED", "REJECTED"},
         \A k \in Changed : Alive(proposal[k]),
         s = "REJECTED" => \A k \in Changed : proposal[k].status = "PROPOSED",
         proposal' = [k \in Proposals |->
           IF k \in Changed THEN [proposal[k] EXCEPT !.status = s] ELSE proposal[k]]
  PROVE  IInv'
<1> USE DEF IInv
<1>1. proposal' \in [Proposals -> ProposalRows] BY DEF Typed, ProposalRows, ProposalStatuses
<1>2. \A k \in Proposals :
        /\ proposal'[k].by = proposal[k].by /\ proposal'[k].required = proposal[k].required
        /\ proposal'[k].approvals = proposal[k].approvals
        /\ proposal'[k].accepted = proposal[k].accepted
        /\ proposal'[k].status = IF k \in Changed THEN s ELSE proposal[k].status
  BY DEF Typed, ProposalRows
<1>3. ApprovedByEnough' BY <1>2 DEF ApprovedByEnough
<1>4. OneAlive' BY <1>2 DEF OneAlive, Alive
<1>5. AcceptedStand BY <1>2, s \in {"SUPERSEDED", "REJECTED"} DEF AcceptedStand, Alive
<1>6. condition' \in Conditions BY DEF Typed
<1> QED BY <1>1, <1>3, <1>4, <1>5, <1>6, ReviewStep
-----------------------------------------------------------------------------
(* The invariant, action by action. *)

\* Only what waits for approval or for its customer is superseded.
LEMMA WithdrawnStep == ASSUME IInv, NEW c \in Calls, WriteWithdrawn(c) PROVE IInv'
<1> DEFINE W == {k \in Proposals : proposal[k].status \in {"PROPOSED", "APPROVED"}}
<1>1. /\ case' = "WITHDRAWN" /\ CaseWritten(c) /\ condition' = condition
      /\ UNCHANGED <<initiator, amendment, loan>>
  BY DEF WriteWithdrawn, Cas
<1>2. proposal' = [k \in Proposals |->
        IF k \in W THEN [proposal[k] EXCEPT !.status = "SUPERSEDED"] ELSE proposal[k]]
  BY DEF WriteWithdrawn
<1>3. W \in SUBSET Proposals /\ \A k \in W : Alive(proposal[k]) BY DEF Alive
<1> HIDE DEF W
<1>4. case' \in Cases /\ NothingOutstanding' BY <1>1 DEF Cases, NothingOutstanding
<1> QED BY <1>1, <1>2, <1>3, <1>4, StatusStep

\* Only what waits for approval is rejected with the case.
LEMMA RejectedStep == ASSUME IInv, NEW c \in Calls, WriteRejected(c) PROVE IInv'
<1> DEFINE W == {k \in Proposals : proposal[k].status = "PROPOSED"}
<1>1. /\ case' = "REJECTED" /\ CaseWritten(c) /\ condition' = condition
      /\ UNCHANGED <<initiator, amendment, loan>>
  BY DEF WriteRejected, Cas
<1>2. proposal' = [k \in Proposals |->
        IF k \in W THEN [proposal[k] EXCEPT !.status = "REJECTED"] ELSE proposal[k]]
  BY DEF WriteRejected
<1>3. /\ W \in SUBSET Proposals /\ \A k \in W : Alive(proposal[k])
      /\ \A k \in W : proposal[k].status = "PROPOSED"
  BY DEF Alive
<1> HIDE DEF W
<1>4. case' \in Cases /\ NothingOutstanding' BY <1>1 DEF Cases, NothingOutstanding
<1> QED BY <1>1, <1>2, <1>3, <1>4, StatusStep

\* A stale proposal is superseded, whatever has become of its case.
LEMMA StaleStep == ASSUME IInv, NEW c \in Calls, WriteStale(c) PROVE IInv'
<1> DEFINE W == {k \in Proposals : k = call[c].at /\ proposal[k].status = "ACCEPTED"}
<1>1. proposal \in [Proposals -> ProposalRows] /\ call[c].at \in Proposals
  BY DEF IInv, Typed, CallsRely, Relies, WriteStale
<1>2. proposal' = [k \in Proposals |->
        IF k \in W THEN [proposal[k] EXCEPT !.status = "SUPERSEDED"] ELSE proposal[k]]
  BY <1>1 DEF WriteStale, ProposalRows
<1>3. W \in SUBSET Proposals /\ \A k \in W : Alive(proposal[k]) BY DEF Alive
<1> HIDE DEF W
<1>4. case' \in Cases /\ NothingOutstanding'
  BY DEF WriteStale, Cases, Open, NothingOutstanding
<1> QED BY <1>2, <1>3, <1>4, StatusStep DEF WriteStale

\* A new proposal supersedes those that are alive; those made before keep what
\* they have.
LEMMA ProposalStep == ASSUME IInv, NEW c \in Calls, WriteProposal(c) PROVE IInv'
<1> USE DEF IInv
<1>1. PICK k \in Proposals, n \in Required, with \in {"NONE", "OUTSTANDING"} :
        /\ Made = 1 .. k - 1
        /\ proposal' = [j \in Proposals |->
             IF j = k THEN [NoProposal EXCEPT !.status = "PROPOSED", !.by = call[c].by,
                                              !.required = n, !.owed = loan.owed]
             ELSE IF Superseded(proposal[j]) THEN [proposal[j] EXCEPT !.status = "SUPERSEDED"]
             ELSE proposal[j]]
        /\ condition' = IF with = "NONE" /\ condition = "SATISFIED" THEN condition ELSE with
  BY DEF WriteProposal
<1>2. proposal[k] = NoProposal /\ n \in Nat
  <2>1. k \in Nat BY Numbered
  <2>2. k \notin Made BY <1>1, <2>1
  <2> QED BY <2>2, RestructuringAssumption DEF RestructuringAssumption, Made
<1>3. /\ proposal'[k].status = "PROPOSED" /\ proposal'[k].approvals = {}
      /\ ~proposal'[k].accepted /\ proposal'[k] \in ProposalRows
  BY <1>1, <1>2 DEF NoProposal, Typed, CallType, LoanType, ProposalRows, ProposalStatuses
<1>4. \A j \in Proposals \ {k} :
        /\ proposal'[j].by = proposal[j].by /\ proposal'[j].required = proposal[j].required
        /\ proposal'[j].approvals = proposal[j].approvals
        /\ proposal'[j].accepted = proposal[j].accepted
        /\ proposal'[j].status = IF Alive(proposal[j]) THEN "SUPERSEDED" ELSE proposal[j].status
        /\ proposal'[j] \in ProposalRows
  BY <1>1 DEF Typed, ProposalRows, ProposalStatuses, Superseded, Alive
<1>5. proposal' \in [Proposals -> ProposalRows] BY <1>1, <1>3, <1>4
<1>6. ApprovedByEnough'
  <2>1. initiator' = initiator BY DEF WriteProposal
  <2>2. IsFiniteSet(proposal'[k].approvals) BY <1>3, FS_EmptySet
  <2> QED BY <1>3, <1>4, <2>1, <2>2 DEF ApprovedByEnough, Alive
<1>7. OneAlive' BY <1>3, <1>4 DEF OneAlive, Alive
<1>8. AcceptedStand BY <1>2, <1>3, <1>4 DEF AcceptedStand, NoProposal, Alive
<1>9. /\ case' = "OPTIONS_PROPOSED" /\ CaseWritten(c)
      /\ UNCHANGED <<initiator, amendment, loan>>
  BY DEF WriteProposal, Cas
<1>10. case' \in Cases /\ NothingOutstanding' BY <1>9 DEF Cases, Open, NothingOutstanding
<1>11. condition' \in Conditions BY <1>1 DEF Typed, Conditions
<1> QED BY <1>5, <1>6, <1>7, <1>8, <1>9, <1>10, <1>11, ReviewStep

\* The approvals that were read are still those there are, and the approver is not
\* one of them.
LEMMA ApprovalStep == ASSUME IInv, NEW c \in Calls, WriteApproval(c) PROVE IInv'
<1> USE DEF IInv
<1> DEFINE k == call[c].at
           u == call[c].by
           enough == Cardinality(call[c].seen) + 1 >= proposal[k].required
<1>1. /\ k \in Proposals /\ u \in Staff /\ proposal[k].status = "PROPOSED"
      /\ call[c].seen = proposal[k].approvals
      /\ u \notin {proposal[k].by, initiator} \cup proposal[k].approvals
  BY DEF WriteApproval, CallsRely, Relies
<1>2. proposal' = [proposal EXCEPT ![k].approvals = @ \cup {u},
                                   ![k].status = IF enough THEN "APPROVED" ELSE @]
  BY DEF WriteApproval
<1>3. /\ case' \in {"APPROVED", "OPTIONS_PROPOSED"} /\ CaseWritten(c)
      /\ UNCHANGED <<initiator, amendment, loan>>
      /\ condition' = condition
  BY DEF WriteApproval, Cas
<1>4. Cardinality(call[c].seen) = Cardinality(proposal[k].approvals) BY <1>1
<1> HIDE DEF k, u, enough
<1>5. /\ proposal'[k].by = proposal[k].by /\ proposal'[k].required = proposal[k].required
      /\ proposal'[k].approvals = proposal[k].approvals \cup {u}
      /\ proposal'[k].accepted = proposal[k].accepted
      /\ proposal'[k].status = IF enough THEN "APPROVED" ELSE "PROPOSED"
      /\ proposal'[k] \in ProposalRows
  BY <1>1, <1>2 DEF Typed, ProposalRows, ProposalStatuses
<1>6. \A j \in Proposals \ {k} : proposal'[j] = proposal[j] BY <1>1, <1>2 DEF Typed
<1>7. proposal' \in [Proposals -> ProposalRows] BY <1>1, <1>2, <1>5 DEF Typed
<1>8. ApprovedByEnough'
  <2>1. /\ IsFiniteSet(proposal'[k].approvals)
        /\ Cardinality(proposal'[k].approvals) = Cardinality(proposal[k].approvals) + 1
    <3>1. IsFiniteSet(proposal[k].approvals) /\ u \notin proposal[k].approvals
      BY <1>1 DEF ApprovedByEnough
    <3> QED BY <1>5, <3>1, FS_AddElement
  <2>2. /\ proposal[k].required \in Nat /\ Cardinality(proposal[k].approvals) \in Nat
    BY <1>1, FS_CardinalityType DEF ApprovedByEnough, Typed, ProposalRows
  <2>3. enough => Cardinality(proposal'[k].approvals) >= proposal'[k].required
    BY <1>4, <1>5, <2>1 DEF enough, k
  <2>4. proposal[k].accepted => Cardinality(proposal[k].approvals) >= proposal[k].required
    BY <1>1 DEF ApprovedByEnough
  <2>5. proposal'[k].accepted => Cardinality(proposal'[k].approvals) >= proposal'[k].required
    BY <1>5, <2>1, <2>2, <2>4
  <2>6. proposal'[k].approvals \cap {proposal'[k].by, initiator} = {}
    BY <1>1, <1>5 DEF ApprovedByEnough
  <2> QED BY <1>3, <1>5, <1>6, <2>1, <2>3, <2>5, <2>6 DEF ApprovedByEnough
<1>9. OneAlive' BY <1>1, <1>5, <1>6 DEF OneAlive, Alive
<1>10. AcceptedStand BY <1>1, <1>5, <1>6 DEF AcceptedStand
<1>11. case' \in Cases /\ NothingOutstanding' BY <1>3 DEF Cases, Open, NothingOutstanding
<1>12. condition' \in Conditions BY <1>3 DEF Typed
<1> QED BY <1>3, <1>7, <1>8, <1>9, <1>10, <1>11, <1>12, ReviewStep

\* Enough people approved it, so it may be accepted.
LEMMA AcceptanceStep == ASSUME IInv, NEW c \in Calls, WriteAccepted(c) PROVE IInv'
<1> USE DEF IInv
<1> DEFINE k == call[c].at
<1>1. k \in Proposals /\ proposal[k].status = "APPROVED"
  BY DEF WriteAccepted, CallsRely, Relies
<1>2. proposal' = [proposal EXCEPT ![k].status = "ACCEPTED", ![k].accepted = TRUE]
  BY DEF WriteAccepted
<1>3. /\ case' = AfterAcceptance /\ CaseWritten(c) /\ condition' = condition
      /\ UNCHANGED <<initiator, amendment, loan>>
  BY DEF WriteAccepted, Cas
<1> HIDE DEF k
<1>4. /\ proposal'[k].by = proposal[k].by /\ proposal'[k].required = proposal[k].required
      /\ proposal'[k].approvals = proposal[k].approvals
      /\ proposal'[k].accepted /\ proposal'[k].status = "ACCEPTED"
      /\ proposal'[k] \in ProposalRows
      /\ \A j \in Proposals \ {k} : proposal'[j] = proposal[j]
      /\ proposal' \in [Proposals -> ProposalRows]
  <2> DEFINE row == [proposal[k] EXCEPT !.status = "ACCEPTED", !.accepted = TRUE]
  <2>1. proposal[k] \in ProposalRows /\ proposal \in [Proposals -> ProposalRows]
    BY <1>1 DEF Typed
  <2>2. /\ row \in ProposalRows /\ row.accepted /\ row.status = "ACCEPTED"
        /\ row.by = proposal[k].by /\ row.required = proposal[k].required
        /\ row.approvals = proposal[k].approvals
    BY <2>1 DEF ProposalRows, ProposalStatuses
  <2>3. proposal' = [proposal EXCEPT ![k] = row] BY <1>2
  <2> HIDE DEF row
  <2>4. proposal'[k] = row /\ \A j \in Proposals \ {k} : proposal'[j] = proposal[j]
    BY <1>1, <2>1, <2>3
  <2>5. proposal' \in [Proposals -> ProposalRows] BY <2>1, <2>2, <2>3
  <2> QED BY <2>2, <2>4, <2>5
<1>5. ApprovedByEnough' BY <1>1, <1>3, <1>4 DEF ApprovedByEnough
<1>6. OneAlive' BY <1>1, <1>4 DEF OneAlive, Alive
<1>7. AcceptedStand BY <1>1, <1>4 DEF AcceptedStand
<1>8. case' \in Cases /\ NothingOutstanding' /\ condition' \in Conditions
  BY <1>3 DEF AfterAcceptance, Cases, Open, NothingOutstanding, Typed
<1> QED BY <1>3, <1>4, <1>5, <1>6, <1>7, <1>8, ReviewStep

\* Steps of the review that leave the proposals alone.
LEMMA PlainStep ==
  ASSUME IInv, NEW c \in Calls, CaseWritten(c),
         UNCHANGED <<initiator, proposal, amendment, loan>>,
         case' \in Cases, condition' \in Conditions, NothingOutstanding'
  PROVE  IInv'
<1> USE DEF IInv
<1>1. proposal' \in [Proposals -> ProposalRows] BY DEF Typed
<1>2. ApprovedByEnough' /\ OneAlive' BY DEF ApprovedByEnough, OneAlive, Alive
<1>3. AcceptedStand BY DEF AcceptedStand
<1> QED BY <1>1, <1>2, <1>3, ReviewStep

\* An assessment writes the case alone.
LEMMA AssessedStep == ASSUME IInv, NEW c \in Calls, WriteAssessed(c) PROVE IInv'
<1>1. /\ case' \in {"AFFORDABILITY_ASSESSED", "SPECIALIST_REVIEW", "MORE_INFO_REQUIRED"}
      /\ CaseWritten(c) /\ UNCHANGED <<initiator, condition, proposal, amendment, loan>>
  BY DEF WriteAssessed, Cas
<1>2. case' \in Cases /\ NothingOutstanding' BY <1>1 DEF Cases, Open, NothingOutstanding
<1>3. condition' \in Conditions BY <1>1 DEF IInv, Typed
<1> QED BY <1>1, <1>2, <1>3, PlainStep

\* A condition is satisfied, and moves the case on where it was read to wait for it.
LEMMA SatisfiedStep == ASSUME IInv, NEW c \in Calls, WriteSatisfied(c) PROVE IInv'
<1>1. condition' = "SATISFIED" /\ UNCHANGED <<initiator, proposal, amendment, loan>>
  BY DEF WriteSatisfied
<1>2. condition' \in Conditions /\ NothingOutstanding'
  BY <1>1 DEF Conditions, NothingOutstanding
<1>3. CASE Cas(c, "CONDITIONS_SATISFIED")
  <2>1. case' \in Cases BY <1>3 DEF Cas, Cases, Open
  <2> QED BY <1>1, <1>2, <1>3, <2>1, PlainStep DEF Cas
<1>4. CASE CaseLeft(c) /\ UNCHANGED case
  <2> USE DEF IInv
  <2>1. Idle \in CallType /\ Idle.doing = "NOTHING" BY DEF Idle, CallType
  <2>2. \A d \in Calls : call'[d] = IF d = c THEN Idle ELSE call[d]
    BY <1>4 DEF Typed, CaseLeft
  <2>3. Typed' BY <1>1, <1>2, <1>4, <2>1 DEF Typed, CaseLeft
  <2>4. CallsRely'
    <3>1. SUFFICES ASSUME NEW d \in Calls PROVE Relies(d)' BY DEF CallsRely
    <3> QED BY <1>1, <2>1, <2>2 DEF CallsRely, Relies, Does
  <2>5. OneExecutes' BY <2>1, <2>2 DEF OneExecutes, Does
  <2>6. ApprovedByEnough' /\ OneAlive' /\ AmendedOnce'
    BY <1>1 DEF ApprovedByEnough, OneAlive, Alive, AmendedOnce
  <2>7. TermsInForce' /\ BeforeIsKept' /\ NothingIsLost'
    BY <1>1 DEF TermsInForce, BeforeIsKept, NothingIsLost
  <2> QED BY <1>2, <2>3, <2>4, <2>5, <2>6, <2>7
<1> QED BY <1>3, <1>4 DEF WriteSatisfied

\* So does the end of probation.
LEMMA CompleteStep == ASSUME IInv, Complete PROVE IInv'
<1> USE DEF IInv, Complete
<1>1. Typed' BY DEF Typed, Cases
<1>2. NothingOutstanding' /\ ApprovedByEnough' /\ OneAlive' /\ AmendedOnce'
  BY DEF NothingOutstanding, ApprovedByEnough, OneAlive, Alive, AmendedOnce
<1>3. CallsRely' /\ OneExecutes' BY DEF CallsRely, Relies, OneExecutes, Does
<1>4. TermsInForce' /\ BeforeIsKept' /\ NothingIsLost'
  BY DEF TermsInForce, BeforeIsKept, NothingIsLost
<1> QED BY <1>1, <1>2, <1>3, <1>4
-----------------------------------------------------------------------------
(* Execution, reversal, and the loan's money. *)

\* The amendments in force are finitely many.
LEMMA ExecutedFinite == IsFiniteSet(Executed) /\ Cardinality(Executed) <= Cardinality(Proposals)
                        /\ Cardinality(Executed) \in Nat
<1>1. IsFiniteSet(Proposals)
  BY RestructuringAssumption, FS_Interval DEF RestructuringAssumption
<1>2. Executed \subseteq Proposals BY DEF Executed
<1> QED BY <1>1, <1>2, FS_Subset, FS_CardinalityType

\* The one that holds the loan's lock executes a proposal that was not executed
\* before; from then on nobody accepts or executes it.
LEMMA ExecutedStep == ASSUME IInv, NEW c \in Calls, WriteExecuted(c) PROVE IInv'
<1> USE DEF IInv
<1> DEFINE k == call[c].at
           a == [status |-> "EXECUTED", terms |-> loan.terms, owed |-> loan.owed,
                 by |-> call[c].by]
<1>1. /\ k \in Proposals /\ Does(c, "EXECUTE")
      /\ proposal[k].accepted /\ proposal[k].status \in {"ACCEPTED", "SUPERSEDED"}
      /\ amendment[k].status = "NONE"
  BY DEF WriteExecuted, CallsRely, Relies
<1>2. /\ amendment' = [amendment EXCEPT ![k] = a]
      /\ loan' = [loan EXCEPT !.terms = k, !.owed = @ - 1, !.quiet = TRUE]
      /\ proposal' = [proposal EXCEPT ![k].status = IF @ = "ACCEPTED" THEN "EXECUTED" ELSE @]
      /\ case' = "MONITORING" /\ CaseWritten(c) /\ UNCHANGED <<initiator, condition>>
  BY DEF WriteExecuted
<1>3. a \in AmendmentRows /\ a.status = "EXECUTED" /\ a.terms = loan.terms /\ a.owed = loan.owed
  BY DEF Typed, AmendmentRows, CallType, LoanType
<1> HIDE DEF k, a
<1>4. /\ call' \in [Calls -> CallType]
      /\ \A d \in Calls :
           \/ call'[d] = call[d] /\ call[d].doing \in Unconditional /\ d # c
           \/ call'[d].doing = "NOTHING"
  BY <1>2, OneWrites
<1>5. /\ proposal'[k].by = proposal[k].by /\ proposal'[k].required = proposal[k].required
      /\ proposal'[k].approvals = proposal[k].approvals
      /\ proposal'[k].accepted /\ proposal'[k].status \in {"EXECUTED", "SUPERSEDED"}
      /\ \A j \in Proposals \ {k} : proposal'[j] = proposal[j]
      /\ proposal' \in [Proposals -> ProposalRows]
  BY <1>1, <1>2 DEF Typed, ProposalRows, ProposalStatuses
<1>6. /\ amendment'[k] = a /\ \A j \in Proposals \ {k} : amendment'[j] = amendment[j]
      /\ amendment' \in [Proposals -> AmendmentRows]
  BY <1>1, <1>2, <1>3 DEF Typed
<1>7. /\ loan'.terms = k /\ loan'.owed = loan.owed - 1 /\ loan'.paid = loan.paid /\ loan'.quiet
      /\ loan' \in LoanType
  <2> DEFINE x == loan.owed - 1
  <2>1. x \in Int BY DEF Typed, LoanType
  <2>2. loan' = [loan EXCEPT !.terms = k, !.owed = x, !.quiet = TRUE] BY <1>2
  <2> HIDE DEF x
  <2>3. /\ loan'.terms = k /\ loan'.owed = x /\ loan'.paid = loan.paid /\ loan'.quiet
        /\ loan' \in LoanType
    BY <1>1, <2>1, <2>2 DEF Typed, LoanType
  <2> QED BY <2>3 DEF x
<1>8. Typed' BY <1>2, <1>4, <1>5, <1>6, <1>7 DEF Typed, Cases
<1>9. NothingOutstanding' BY <1>2 DEF NothingOutstanding
<1>10. ApprovedByEnough'
  <2>1. Cardinality(proposal[k].approvals) >= proposal[k].required
    BY <1>1 DEF ApprovedByEnough
  <2> QED BY <1>1, <1>2, <1>5, <2>1 DEF ApprovedByEnough
<1>11. OneAlive' BY <1>1, <1>5 DEF OneAlive, Alive
<1>12. AmendedOnce' BY <1>1, <1>5, <1>6 DEF AmendedOnce
<1>13. CallsRely'
  <2>1. SUFFICES ASSUME NEW d \in Calls PROVE Relies(d)' BY DEF CallsRely
  <2>2. CASE call'[d].doing = "NOTHING" BY <2>2 DEF Relies, Does
  <2>3. CASE call'[d] = call[d] /\ call[d].doing \in Unconditional /\ d # c
    <3>1. call[d].doing # "EXECUTE" BY <1>1, <2>3 DEF OneExecutes, Does
    <3> QED BY <2>3, <3>1 DEF CallsRely, Relies, Does, Unconditional
  <2> QED BY <1>4, <2>2, <2>3
<1>14. OneExecutes' BY <1>4 DEF OneExecutes, Does
<1>15. TermsInForce' BY <1>1, <1>3, <1>6, <1>7 DEF TermsInForce
<1>16. BeforeIsKept'
  <2>1. loan'.terms # 0 BY <1>1, <1>7, Numbered
  <2>2. loan.terms # 0 => loan.terms # k /\ loan.terms \in Proposals
                          /\ amendment[loan.terms].status = "EXECUTED"
    BY <1>1 DEF TermsInForce, Typed, LoanType
  <2>3. loan.owed \in Int BY DEF Typed, LoanType
  <2>4. amendment'[loan'.terms] = a BY <1>6, <1>7
  <2>5. a.owed = loan'.owed + 1 BY <1>3, <1>7, <2>3
  <2>6. a.terms # 0 => a.terms # loan'.terms /\ amendment'[a.terms].status = "EXECUTED"
    BY <1>3, <1>6, <1>7, <2>2
  <2> QED BY <2>1, <2>4, <2>5, <2>6 DEF BeforeIsKept
<1>17. NothingIsLost'
  <2>1. Executed' = Executed \cup {k} /\ k \notin Executed
    BY <1>1, <1>3, <1>6 DEF Executed
  <2>2. Cardinality(Executed)' = Cardinality(Executed) + 1
    BY <2>1, ExecutedFinite, FS_AddElement
  <2>3. loan.owed = Lent - loan.paid - Cardinality(Executed)
    BY DEF NothingIsLost, Executed
  <2>4. loan.paid \in Int /\ Lent \in Int /\ Cardinality(Executed) \in Int
    BY ExecutedFinite, RestructuringAssumption DEF Typed, LoanType, RestructuringAssumption
  <2>5. loan'.owed = Lent - loan'.paid - Cardinality(Executed)'
    BY <1>7, <2>2, <2>3, <2>4
  <2> QED BY <2>5 DEF NothingIsLost, Executed
<1> QED BY <1>8, <1>9, <1>10, <1>11, <1>12, <1>13, <1>14, <1>15, <1>16, <1>17

\* What was before the amendment is written back: nothing was posted since.
LEMMA ReverseStep ==
  ASSUME IInv, NEW u \in Staff, NEW k \in Proposals, Reverse(u, k) PROVE IInv'
<1> USE DEF IInv
<1>1. /\ LoanIsFree /\ loan.quiet /\ loan.terms = k /\ amendment[k].status = "EXECUTED"
      /\ amendment' = [amendment EXCEPT ![k].status = "REVERSED"]
      /\ loan' = [loan EXCEPT !.terms = amendment[k].terms, !.owed = amendment[k].owed,
                              !.quiet = FALSE]
      /\ case' = "REVERSED" /\ UNCHANGED <<initiator, condition, proposal>>
      /\ call' = [d \in Calls |->
           IF call[d].doing \in Unconditional THEN call[d] ELSE Idle]
  BY DEF Reverse, NothingFollowed
<1>2. /\ call' \in [Calls -> CallType]
      /\ \A d \in Calls :
           \/ call'[d] = call[d] /\ call[d].doing \in Unconditional
           \/ call'[d].doing = "NOTHING"
  <2>1. call' = [d \in Calls |->
          IF d \notin {} /\ call[d].doing \in Unconditional THEN call[d] ELSE Idle]
    BY <1>1
  <2>2. {} \in SUBSET Calls /\ Typed OBVIOUS
  <2>3. \A d \in Calls :
       \/ call'[d] = call[d] /\ call[d].doing \in Unconditional /\ d \notin {}
       \/ call'[d].doing = "NOTHING"
    BY ONLY <2>1, <2>2, OthersGoOn
  <2>4. call' \in [Calls -> CallType] BY ONLY <2>1, <2>2, OthersGoOn
  <2> QED BY <2>3, <2>4
<1>3. /\ amendment'[k].status = "REVERSED"
      /\ \A j \in Proposals \ {k} : amendment'[j] = amendment[j]
      /\ amendment' \in [Proposals -> AmendmentRows]
  BY <1>1 DEF Typed, AmendmentRows
<1>4. /\ loan'.terms = amendment[k].terms /\ loan'.owed = amendment[k].owed
      /\ loan'.paid = loan.paid /\ ~loan'.quiet /\ loan' \in LoanType
  BY <1>1 DEF Typed, LoanType, AmendmentRows
<1>5. Typed' BY <1>1, <1>2, <1>3, <1>4 DEF Typed, Cases
<1>6. NothingOutstanding' /\ ApprovedByEnough' /\ OneAlive'
  BY <1>1 DEF NothingOutstanding, ApprovedByEnough, OneAlive, Alive
<1>7. AmendedOnce' BY <1>1, <1>3 DEF AmendedOnce
<1>8. CallsRely'
  <2>1. SUFFICES ASSUME NEW d \in Calls PROVE Relies(d)' BY DEF CallsRely
  <2>2. CASE call'[d].doing = "NOTHING" BY <2>2 DEF Relies, Does
  <2>3. CASE call'[d] = call[d] /\ call[d].doing \in Unconditional
    BY <1>1, <2>3 DEF CallsRely, Relies, Does, Unconditional, LoanIsFree
  <2> QED BY <1>2, <2>2, <2>3
<1>9. OneExecutes' BY <1>2 DEF OneExecutes, Does
<1>10. TermsInForce'
  <2>1. amendment[k].terms # 0 =>
          amendment[k].terms # k /\ amendment[amendment[k].terms].status = "EXECUTED"
    BY <1>1 DEF BeforeIsKept
  <2>2. amendment[k].terms \in Proposals \cup {0} BY DEF Typed, AmendmentRows
  <2> QED BY <1>3, <1>4, <2>1, <2>2 DEF TermsInForce
<1>11. BeforeIsKept' BY <1>4 DEF BeforeIsKept
<1>12. NothingIsLost'
  <2>1. Executed' = Executed \ {k} /\ k \in Executed BY <1>1, <1>3 DEF Executed
  <2>2. Cardinality(Executed)' = Cardinality(Executed) - 1
    BY <2>1, ExecutedFinite, FS_RemoveElement
  <2>3. loan.owed = Lent - loan.paid - Cardinality(Executed)
    BY DEF NothingIsLost, Executed
  <2>4. loan'.owed = loan.owed + 1 BY <1>1, <1>4 DEF BeforeIsKept
  <2>5. loan.paid \in Int /\ Lent \in Int /\ Cardinality(Executed) \in Int
    BY ExecutedFinite, RestructuringAssumption DEF Typed, LoanType, RestructuringAssumption
  <2>6. loan'.owed = Lent - loan'.paid - Cardinality(Executed)'
    BY <1>4, <2>2, <2>3, <2>4, <2>5
  <2> QED BY <2>6 DEF NothingIsLost, Executed
<1> QED BY <1>5, <1>6, <1>7, <1>8, <1>9, <1>10, <1>11, <1>12

\* A payment, or its reversal: what is owed follows it, and an amendment may not be
\* reversed any more.
LEMMA PaymentStep ==
  ASSUME IInv, NEW by \in {1, -1}, loan.paid + by \in 0 .. MaxPaid,
         loan' = [loan EXCEPT !.paid = loan.paid + by, !.owed = loan.owed - by, !.quiet = FALSE],
         UNCHANGED <<initiator, case, condition, proposal, amendment, call>>
  PROVE  IInv'
<1> USE DEF IInv
<1>1. /\ loan'.terms = loan.terms /\ loan'.owed = loan.owed - by /\ loan'.paid = loan.paid + by
      /\ ~loan'.quiet /\ loan' \in LoanType
  <2> DEFINE x == loan.owed - by
             y == loan.paid + by
  <2>1. x \in Int /\ y \in 0 .. MaxPaid BY DEF Typed, LoanType
  <2>2. loan' = [loan EXCEPT !.paid = y, !.owed = x, !.quiet = FALSE] OBVIOUS
  <2> HIDE DEF x, y
  <2>3. /\ loan'.terms = loan.terms /\ loan'.owed = x /\ loan'.paid = y
        /\ ~loan'.quiet /\ loan' \in LoanType
    BY <2>1, <2>2 DEF Typed, LoanType
  <2> QED BY <2>3 DEF x, y
<1>2. Typed' BY <1>1 DEF Typed
<1>3. NothingOutstanding' /\ ApprovedByEnough' /\ OneAlive' /\ AmendedOnce'
  BY DEF NothingOutstanding, ApprovedByEnough, OneAlive, Alive, AmendedOnce
<1>4. CallsRely' /\ OneExecutes' BY DEF CallsRely, Relies, OneExecutes, Does
<1>5. TermsInForce' /\ BeforeIsKept' BY <1>1 DEF TermsInForce, BeforeIsKept
<1>6. NothingIsLost'
  <2>1. Executed' = Executed BY DEF Executed
  <2>2. loan.owed = Lent - loan.paid - Cardinality(Executed) BY DEF NothingIsLost, Executed
  <2>3. loan.paid \in Int /\ Lent \in Int /\ Cardinality(Executed) \in Int
    BY ExecutedFinite, RestructuringAssumption DEF Typed, LoanType, RestructuringAssumption
  <2>4. loan'.owed = Lent - loan'.paid - Cardinality(Executed)' BY <1>1, <2>1, <2>2, <2>3
  <2> QED BY <2>4 DEF NothingIsLost, Executed
<1> QED BY <1>2, <1>3, <1>4, <1>5, <1>6
-----------------------------------------------------------------------------
(* The theorem. *)

\* Every step is one of these.
LEMMA NextInvariant == IInv /\ [Next]_vars => IInv'
<1> SUFFICES ASSUME IInv, [Next]_vars PROVE IInv' OBVIOUS
<1> USE DEF IInv
<1>1. ASSUME NEW c \in Calls, ReadToAssess(c) \/ ReadToWithdraw(c) \/ ReadCondition(c)
      PROVE  IInv'
  <2>1. PICK what \in {"ASSESS", "WITHDRAW", "MARK", "SATISFY"} :
          call' = [call EXCEPT ![c] = Doing(what)]
    BY <1>1 DEF ReadToAssess, ReadToWithdraw, ReadCondition, Reads
  <2>2. Doing(what) \in CallType /\ Doing(what).doing = what BY DEF Doing, Idle, CallType
  <2>3. UNCHANGED <<initiator, case, condition, proposal, amendment, loan>>
    BY <1>1 DEF ReadToAssess, ReadToWithdraw, ReadCondition, Reads
  <2> QED BY <2>1, <2>2, <2>3, CallStep
<1>2. ASSUME NEW c \in Calls, NEW k \in Made, ReadToAccept(c, k) PROVE IInv'
  <2> DEFINE r == [Doing("ACCEPT") EXCEPT !.at = k]
  <2>1. r \in CallType /\ r.doing = "ACCEPT" /\ r.at \in Proposals
    BY DEF Doing, Idle, CallType, Made
  <2>2. /\ call' = [call EXCEPT ![c] = r]
        /\ UNCHANGED <<initiator, case, condition, proposal, amendment, loan>>
    BY <1>2 DEF ReadToAccept, Reads
  <2> HIDE DEF r
  <2> QED BY <2>1, <2>2, CallStep
<1>3. ASSUME NEW c \in Calls, NEW u \in Staff, ReadToPropose(c, u) \/ ReadToReject(c, u)
      PROVE  IInv'
  <2>1. PICK r \in {[Doing("PROPOSE") EXCEPT !.by = u], Doing("REJECT")} :
          call' = [call EXCEPT ![c] = r]
    BY <1>3 DEF ReadToPropose, ReadToReject, Reads
  <2>2. r \in CallType /\ r.doing \in {"PROPOSE", "REJECT"} BY DEF Doing, Idle, CallType
  <2>3. UNCHANGED <<initiator, case, condition, proposal, amendment, loan>>
    BY <1>3 DEF ReadToPropose, ReadToReject, Reads
  <2> QED BY <2>1, <2>2, <2>3, CallStep
<1>4. ASSUME NEW c \in Calls, NEW u \in Staff, NEW k \in Made, ReadToApprove(c, u, k)
      PROVE  IInv'
  <2> DEFINE r == [Doing("APPROVE") EXCEPT !.by = u, !.at = k, !.seen = proposal[k].approvals]
  <2>1. k \in Proposals /\ proposal[k].approvals \in SUBSET Staff
    BY DEF Made, Typed, ProposalRows
  <2>2. /\ r \in CallType /\ r.doing = "APPROVE" /\ r.at = k /\ r.by = u
        /\ r.seen = proposal[k].approvals
    BY <2>1 DEF Doing, Idle, CallType
  <2>3. /\ call' = [call EXCEPT ![c] = r]
        /\ UNCHANGED <<initiator, case, condition, proposal, amendment, loan>>
        /\ proposal[k].status = "PROPOSED" /\ MayApprove(u, k)
    BY <1>4 DEF ReadToApprove, Reads
  <2> HIDE DEF r
  <2> QED BY <2>1, <2>2, <2>3, CallStep
<1>5. ASSUME NEW c \in Calls, NEW u \in Staff, NEW k \in Made, ReadToExecute(c, u, k)
      PROVE  IInv'
  <2> DEFINE r == [Doing("EXECUTE") EXCEPT !.by = u, !.at = k]
  <2>1. r \in CallType /\ r.doing = "EXECUTE" /\ r.at = k /\ k \in Proposals
    BY DEF Doing, Idle, CallType, Made
  <2>2. /\ call' = [call EXCEPT ![c] = r]
        /\ UNCHANGED <<initiator, case, condition, proposal, amendment, loan>>
        /\ proposal[k].status = "ACCEPTED" /\ LoanIsFree
    BY <1>5 DEF ReadToExecute, Reads
  <2> HIDE DEF r
  <2> QED BY <2>1, <2>2, CallStep
<1>6. ASSUME NEW c \in Calls, FindStale(c) PROVE IInv'
  <2> DEFINE r == [call[c] EXCEPT !.doing = "RETURN"]
  <2>1. call[c].at \in Proposals BY <1>6 DEF FindStale, CallsRely, Relies
  <2>2. r \in CallType /\ r.doing = "RETURN" /\ r.at = call[c].at BY DEF Typed, CallType
  <2>3. call' = [call EXCEPT ![c] = r] BY <1>6 DEF FindStale, Typed, CallType
  <2>4. UNCHANGED <<initiator, case, condition, proposal, amendment, loan>>
    BY <1>6 DEF FindStale
  <2> HIDE DEF r
  <2> QED BY <2>1, <2>2, <2>3, <2>4, CallStep
<1>7. ASSUME NEW c \in Calls, RollBack(c) PROVE IInv' BY <1>7, IdleStep DEF RollBack
<1>8. CASE Pay
  <2>1. loan.paid + 1 \in 0 .. MaxPaid
    BY <1>8, RestructuringAssumption DEF Pay, Typed, LoanType, RestructuringAssumption
  <2>2. loan' = [loan EXCEPT !.paid = loan.paid + 1, !.owed = loan.owed - 1, !.quiet = FALSE]
    BY <1>8 DEF Pay
  <2> QED BY <1>8, <2>1, <2>2, PaymentStep DEF Pay
<1>9. CASE ReversePayment
  <2>1. /\ loan.paid + (-1) \in 0 .. MaxPaid /\ loan.paid + (-1) = loan.paid - 1
        /\ loan.owed - (-1) = loan.owed + 1
    BY <1>9, RestructuringAssumption
       DEF ReversePayment, Typed, LoanType, RestructuringAssumption
  <2>2. loan' = [loan EXCEPT !.paid = loan.paid + (-1), !.owed = loan.owed - (-1),
                             !.quiet = FALSE]
    BY <1>9, <2>1 DEF ReversePayment
  <2> QED BY <1>9, <2>1, <2>2, PaymentStep DEF ReversePayment
<1>10. CASE UNCHANGED vars
  <2> USE <1>10 DEF vars
  <2>1. Typed' BY DEF Typed
  <2>2. NothingOutstanding' /\ ApprovedByEnough' /\ OneAlive' /\ AmendedOnce'
    BY DEF NothingOutstanding, ApprovedByEnough, OneAlive, Alive, AmendedOnce
  <2>3. CallsRely' /\ OneExecutes' BY DEF CallsRely, Relies, OneExecutes, Does
  <2>4. TermsInForce' /\ BeforeIsKept' /\ NothingIsLost'
    BY DEF TermsInForce, BeforeIsKept, NothingIsLost
  <2> QED BY <2>1, <2>2, <2>3, <2>4
<1>11. ASSUME NEW u \in Staff, NEW k \in Made, Reverse(u, k) PROVE IInv'
  BY <1>11, ReverseStep DEF Made
<1> QED
  BY <1>1, <1>2, <1>3, <1>4, <1>5, <1>6, <1>7, <1>8, <1>9, <1>10, <1>11,
     AssessedStep, WithdrawnStep, ProposalStep, ApprovalStep, RejectedStep, AcceptanceStep,
     SatisfiedStep, ExecutedStep, StaleStep, CompleteStep
  DEF Next

\* What the case promises follows.
LEMMA InvariantIsOrder == IInv => LoanIsAmendedInOrder
<1> SUFFICES ASSUME IInv PROVE LoanIsAmendedInOrder OBVIOUS
<1> USE DEF IInv
<1>1. TypeOK
  <2>1. loan.owed \in Nat /\ loan.paid \in Nat
    <3>1. loan.owed = Lent - loan.paid - Cardinality(Executed) BY DEF NothingIsLost, Executed
    <3>2. /\ loan.paid \in 0 .. MaxPaid /\ Lent \in Nat /\ MaxPaid \in Nat
          /\ MaxPaid + Cardinality(Proposals) <= Lent
      BY RestructuringAssumption DEF Typed, LoanType, RestructuringAssumption
    <3>3. Cardinality(Proposals) \in Nat
      BY RestructuringAssumption, FS_Interval, FS_CardinalityType DEF RestructuringAssumption
    <3> QED BY <3>1, <3>2, <3>3, ExecutedFinite
  <2> QED BY <2>1 DEF TypeOK, Typed, Cases, Conditions, NothingOutstanding, ProposalRows,
                      ProposalStatuses, AmendmentRows, LoanType
<1>2. TermsAreAgreed
  <2> SUFFICES ASSUME loan.terms # 0
               PROVE  LET k == loan.terms
                      IN  /\ amendment[k].status = "EXECUTED" /\ proposal[k].accepted
                          /\ Cardinality(proposal[k].approvals) >= proposal[k].required
                          /\ proposal[k].approvals \cap {proposal[k].by, initiator} = {}
    BY DEF TermsAreAgreed
  <2>1. loan.terms \in Proposals BY DEF Typed, LoanType
  <2>2. amendment[loan.terms].status = "EXECUTED" BY DEF TermsInForce
  <2>3. proposal[loan.terms].accepted BY <2>1, <2>2 DEF AmendedOnce
  <2> QED BY <2>1, <2>2, <2>3 DEF ApprovedByEnough
<1>3. OneLiveProposal
  <2> DEFINE L == {k \in Proposals : Alive(proposal[k])}
  <2>1. CASE L = {} BY <2>1, FS_EmptySet DEF OneLiveProposal
  <2>2. CASE L # {}
    <3>1. PICK k \in L : L = {k} BY <2>2 DEF OneAlive
    <3>2. Cardinality(L) = 1 BY <3>1, FS_Singleton
    <3> QED BY <3>2 DEF OneLiveProposal
  <2> QED BY <2>1, <2>2
<1> QED BY <1>1, <1>2, <1>3 DEF LoanIsAmendedInOrder

\* However calls race with each other and with payments: the terms of the loan in
\* force were approved by enough people, none of whom proposed or asked for them,
\* and accepted by the customer; one proposal at most is alive; and what is owed
\* is what was lent less what was paid and waived (execute, reverse, casCase).
THEOREM AmendedInOrder == Spec => []LoanIsAmendedInOrder
<1>1. Init => IInv BY InitInvariant
<1>2. IInv /\ [Next]_vars => IInv' BY NextInvariant
<1>3. IInv => LoanIsAmendedInOrder BY InvariantIsOrder
<1> QED BY <1>1, <1>2, <1>3, PTL DEF Spec
-----------------------------------------------------------------------------
(* The application. *)

\* Terms as they are hashed, and none.
Hashes == {<<>>} \cup (Offers \X Nat)

ApplicationType ==
  [status : {"DRAFT", "SUBMITTED", "RECOMMENDED", "APPROVED", "REJECTED", "BOOKED"},
   terms : Offers, createdBy : Officers, recommendedBy : Officers \cup {Nobody}]
StatementType == [status : {"NONE", "ISSUED", "ACCEPTED", "SUPERSEDED", "BOOKED"},
                  terms : Hashes]
RequestType ==
  [doing : {"NOTHING", "TERMS", "SUBMIT", "RECOMMEND", "APPROVE", "REJECT", "ISSUE", "FILE",
            "ACCEPT", "BOOK", "RESOLVE"},
   by : Officers \cup {Nobody}, to : {"NONE", "SATISFIED", "WAIVED"}, at : Nat, terms : Hashes,
   seen : SUBSET Statements, count : Nat]

\* Nobody approves twice, or what he created or recommended; before the
\* application is recommended nobody has; and enough have when it is approved.
ApprovalsOK ==
  /\ app \in ApplicationType /\ policy \in Nat
  /\ approvals \in [Officers -> {0, 1}]
  /\ \A u \in Application!Makers : u \in Officers => approvals[u] = 0
  /\ app.status \in {"DRAFT", "SUBMITTED"} => \A u \in Officers : approvals[u] = 0
  /\ app.status \in {"APPROVED", "BOOKED"} => Application!Count(approvals) >= Needed

\* What a request has read of the application is so until somebody writes it.
Current(r) ==
  /\ r.doing \in {"TERMS", "SUBMIT"} => app.status = "DRAFT"
  /\ r.doing = "RECOMMEND" => app.status = "SUBMITTED" /\ r.by \in Officers
  /\ r.doing = "APPROVE" =>
       /\ app.status = "RECOMMENDED" /\ r.by \in Officers
       /\ r.by \notin Application!Makers /\ approvals[r.by] = 0
       /\ r.count = Application!Count(approvals)
  /\ r.doing = "REJECT" => app.status \in {"SUBMITTED", "RECOMMENDED"}
  /\ r.doing = "BOOK" => app.status = "APPROVED"

RequestsCurrent == request \in [Calls -> RequestType] /\ \A c \in Calls : Current(request[c])

\* The instance counts as the library does.
LEMMA SameCount == \A S : Application!Cardinality(S) = Cardinality(S)
  BY DEF Application!Cardinality, Cardinality

\* One more approval is counted as one.
LEMMA OneMore ==
  ASSUME ApprovalsOK, NEW u \in Officers, approvals[u] = 0
  PROVE  /\ Application!Count(approvals) \in Nat
         /\ Application!Count([approvals EXCEPT ![u] = 1]) = Application!Count(approvals) + 1
<1> DEFINE Gave(f) == {v \in Officers : f[v] = 1}
           g == [approvals EXCEPT ![u] = 1]
<1>1. approvals \in [Officers -> {0, 1}] /\ g \in [Officers -> {0, 1}] BY DEF ApprovalsOK
<1>2. \A f \in [Officers -> {0, 1}] : Application!Count(f) = Cardinality(Gave(f))
  <2> SUFFICES ASSUME NEW f \in [Officers -> {0, 1}]
               PROVE  Application!Count(f) = Cardinality(Gave(f))
    OBVIOUS
  <2>1. {v \in Officers : f[v] = 2} = {} OBVIOUS
  <2>2. Cardinality(Gave(f)) \in Nat
    <3>1. Gave(f) \subseteq Officers OBVIOUS
    <3> QED BY <3>1, ApplicationAssumption, FS_Subset, FS_CardinalityType DEF ApplicationAssumption
  <2>3. Application!Count(f) = Cardinality(Gave(f)) + 2 * Cardinality({})
    BY <2>1, SameCount DEF Application!Count
  <2> HIDE DEF Gave
  <2> QED BY <2>2, <2>3, FS_EmptySet
<1>3. Gave(g) = Gave(approvals) \cup {u} /\ u \notin Gave(approvals) BY <1>1
<1>4. IsFiniteSet(Gave(approvals))
  <2>1. Gave(approvals) \subseteq Officers OBVIOUS
  <2> QED BY <2>1, ApplicationAssumption, FS_Subset DEF ApplicationAssumption
<1> HIDE DEF Gave
<1>5. Cardinality(Gave(g)) = Cardinality(Gave(approvals)) + 1 /\ Cardinality(Gave(approvals)) \in Nat
  BY <1>3, <1>4, FS_AddElement, FS_CardinalityType
<1> QED BY <1>1, <1>2, <1>5

\* A request that has read goes on, and the application stands.
LEMMA RequestGoesOn ==
  ASSUME ApprovalsOK, RequestsCurrent, UNCHANGED <<app, approvals, policy>>,
         NEW c \in Calls, NEW r \in RequestType, request' = [request EXCEPT ![c] = r], Current(r)
  PROVE  ApprovalsOK' /\ RequestsCurrent'
<1>1. ApprovalsOK' BY DEF ApprovalsOK, Application!Makers, Application!Count
<1>2. \A s : Current(s)' <=> Current(s)
  BY DEF Current, Application!Makers, Application!Count
<1>3. \A d \in Calls : request'[d] = r \/ request'[d] = request[d] OBVIOUS
<1>4. request' \in [Calls -> RequestType] BY DEF RequestsCurrent
<1> QED BY <1>1, <1>2, <1>3, <1>4 DEF RequestsCurrent

\* A request that is nothing relies on nothing.
LEMMA IdleRequest == Application!Idle \in RequestType /\ Application!Idle.doing = "NOTHING"
                     /\ Application!Idle.at = 0
  BY DEF Application!Idle, RequestType, Hashes

\* A write of the application leaves no request that relies on it.
LEMMA WriteLeaves ==
  ASSUME RequestsCurrent, NEW c \in Calls, Application!AppWritten(c)
  PROVE  /\ request' \in [Calls -> RequestType]
         /\ \A d \in Calls : \/ request'[d] = Application!Idle
                             \/ /\ request'[d] = request[d]
                                /\ request[d].doing \in Application!Unconditional
  BY IdleRequest DEF RequestsCurrent, Application!AppWritten

\* So it keeps the requests current, whatever it writes.
LEMMA WriteKeepsCurrent ==
  ASSUME RequestsCurrent, NEW c \in Calls, Application!AppWritten(c)
  PROVE  RequestsCurrent'
<1>1. request' \in [Calls -> RequestType] BY WriteLeaves
<1>2. ASSUME NEW d \in Calls PROVE Current(request[d])'
  <2>1. request'[d].doing \in Application!Unconditional
    BY WriteLeaves, IdleRequest DEF Application!Unconditional
  <2> QED BY <2>1 DEF Current, Application!Unconditional
<1> QED BY <1>1, <1>2 DEF RequestsCurrent

\* The application is written, and nobody approves.
LEMMA RowWritten ==
  ASSUME ApprovalsOK, app' \in ApplicationType, approvals' = approvals, policy' \in Nat,
         \A u \in Application!Makers' : u \in Officers => approvals[u] = 0,
         app'.status \in {"DRAFT", "SUBMITTED"} => \A u \in Officers : approvals[u] = 0,
         app'.status \in {"APPROVED", "BOOKED"} => app.status \in {"APPROVED", "BOOKED"}
  PROVE  ApprovalsOK'
<1>1. Application!Count(approvals)' = Application!Count(approvals) BY DEF Application!Count
<1> HIDE DEF Application!Makers
<1> QED BY <1>1 DEF ApprovalsOK

\* Every write of the application.
AppStep(c) ==
  \/ Application!WriteTerms(c) \/ Application!WriteSubmitted(c) \/ Application!WriteRecommended(c)
  \/ Application!WriteApproval(c) \/ Application!WriteRejected(c) \/ Application!WriteBooked(c)

\* It is in the order of the workflow.
LEMMA AppKeeps ==
  ASSUME ApprovalsOK, RequestsCurrent, NEW c \in Calls, AppStep(c)
  PROVE  ApprovalsOK' /\ RequestsCurrent'
<1>0. app \in ApplicationType /\ policy \in Nat /\ approvals \in [Officers -> {0, 1}]
  BY DEF ApprovalsOK
<1>1. Application!AppWritten(c) /\ policy' = policy
  BY DEF AppStep, Application!WriteTerms, Application!WriteSubmitted,
     Application!WriteRecommended, Application!WriteApproval, Application!WriteRejected,
     Application!WriteBooked, Application!Cas, Application!BumpVersion
<1>2. RequestsCurrent' BY <1>1, WriteKeepsCurrent
<1>3. request[c] \in RequestType /\ Current(request[c]) BY DEF RequestsCurrent
<1>4. ASSUME Application!WriteTerms(c) PROVE ApprovalsOK'
  <2>1. PICK t \in Offers : app' = [app EXCEPT !.terms = t]
    BY <1>4 DEF Application!WriteTerms, Application!Cas
  <2>2. approvals' = approvals BY <1>4 DEF Application!WriteTerms
  <2>3. app' \in ApplicationType /\ app'.status = app.status
        /\ Application!Makers' = Application!Makers
    BY <1>0, <2>1 DEF ApplicationType, Application!Makers
  <2>4. \A u \in Application!Makers : u \in Officers => approvals[u] = 0 BY DEF ApprovalsOK
  <2> QED BY <1>0, <1>1, <2>2, <2>3, <2>4, RowWritten DEF ApprovalsOK
<1>5. ASSUME NEW s \in {"SUBMITTED", "REJECTED"}, app' = [app EXCEPT !.status = s],
             approvals' = approvals, s = "SUBMITTED" => app.status = "DRAFT"
      PROVE  ApprovalsOK'
  <2>1. app' \in ApplicationType /\ app'.status = s /\ Application!Makers' = Application!Makers
    BY <1>0, <1>5 DEF ApplicationType, Application!Makers
  <2>2. /\ \A u \in Application!Makers : u \in Officers => approvals[u] = 0
        /\ s = "SUBMITTED" => \A u \in Officers : approvals[u] = 0
    BY <1>5 DEF ApprovalsOK
  <2> QED BY <1>0, <1>1, <1>5, <2>1, <2>2, RowWritten
<1>6. ASSUME Application!WriteSubmitted(c) PROVE ApprovalsOK'
  <2>1. app' = [app EXCEPT !.status = "SUBMITTED"] /\ approvals' = approvals
        /\ request[c].doing = "SUBMIT"
    BY <1>6 DEF Application!WriteSubmitted, Application!Cas, Application!Does
  <2>2. app.status = "DRAFT" BY <1>3, <2>1 DEF Current
  <2> QED BY <1>5, <2>1, <2>2
<1>7. ASSUME Application!WriteRejected(c) PROVE ApprovalsOK'
  <2>1. app' = [app EXCEPT !.status = "REJECTED"] /\ approvals' = approvals
    BY <1>7 DEF Application!WriteRejected, Application!Cas
  <2> QED BY <1>5, <2>1
<1>8. ASSUME Application!WriteRecommended(c) PROVE ApprovalsOK'
  <2>1. /\ app' = [app EXCEPT !.status = "RECOMMENDED", !.recommendedBy = request[c].by]
        /\ approvals' = approvals /\ request[c].doing = "RECOMMEND"
    BY <1>8 DEF Application!WriteRecommended, Application!Cas, Application!Does
  <2>2. app.status = "SUBMITTED" /\ request[c].by \in Officers BY <1>3, <2>1 DEF Current
  <2>3. app' \in ApplicationType /\ app'.status = "RECOMMENDED"
    BY <1>0, <2>1, <2>2 DEF ApplicationType
  <2>4. \A u \in Officers : approvals[u] = 0 BY <2>2 DEF ApprovalsOK
  <2> QED BY <1>0, <1>1, <2>1, <2>3, <2>4, RowWritten
<1>9. ASSUME Application!WriteApproval(c) PROVE ApprovalsOK'
  <2> DEFINE u == request[c].by
  <2>1. request[c].doing = "APPROVE" BY <1>9 DEF Application!WriteApproval, Application!Does
  <2>2. /\ app.status = "RECOMMENDED" /\ u \in Officers /\ u \notin Application!Makers
        /\ approvals[u] = 0 /\ request[c].count = Application!Count(approvals)
    BY <1>3, <2>1 DEF Current
  <2>3. approvals' = [approvals EXCEPT ![u] = 1] BY <1>9, <2>2 DEF Application!WriteApproval
  <2>4. /\ Application!Count(approvals) \in Nat
        /\ Application!Count(approvals') = Application!Count(approvals) + 1
    BY <2>2, <2>3, OneMore
  <2>5. \/ app' = app
        \/ app' = [app EXCEPT !.status = "APPROVED"] /\ request[c].count + 1 >= Needed
    BY <1>9 DEF Application!WriteApproval, Application!Cas, Application!BumpVersion
  <2>6. app' \in ApplicationType /\ app'.status \in {"RECOMMENDED", "APPROVED"}
        /\ Application!Makers' = Application!Makers
    BY <1>0, <2>2, <2>5 DEF ApplicationType, Application!Makers
  <2>7. Application!Count(approvals)' = Application!Count(approvals')
    BY DEF Application!Count
  <2>8. app'.status = "APPROVED" => Application!Count(approvals)' >= Needed
    BY <2>2, <2>4, <2>5, <2>7
  <2>9. \A v \in Officers : approvals'[v] = IF v = u THEN 1 ELSE approvals[v] BY <1>0, <2>3
  <2>10. approvals' \in [Officers -> {0, 1}] BY <1>0, <2>3
  <2> HIDE DEF u
  <2>11. \A v \in Application!Makers : v \in Officers => approvals'[v] = 0
    BY <2>2, <2>9 DEF ApprovalsOK
  <2> QED BY <1>0, <1>1, <2>6, <2>8, <2>10, <2>11 DEF ApprovalsOK
<1>10. ASSUME Application!WriteBooked(c) PROVE ApprovalsOK'
  <2>1. app' = [app EXCEPT !.status = "BOOKED"] /\ approvals' = approvals
    BY <1>10 DEF Application!WriteBooked, Application!Cas
  <2>2. app.status = "APPROVED"
    BY <1>3, <1>10 DEF Application!WriteBooked, Application!Does, Current
  <2>3. app' \in ApplicationType /\ app'.status = "BOOKED"
        /\ Application!Makers' = Application!Makers
    BY <1>0, <2>1 DEF ApplicationType, Application!Makers
  <2>4. \A u \in Application!Makers : u \in Officers => approvals[u] = 0 BY DEF ApprovalsOK
  <2> QED BY <1>0, <1>1, <2>1, <2>2, <2>3, <2>4, RowWritten
<1> QED BY <1>2, <1>4, <1>6, <1>7, <1>8, <1>9, <1>10 DEF AppStep

\* Until it is booked, an application was not booked.
LEMMA NotYetBooked ==
  ASSUME ApprovalsOK, RequestsCurrent, NEW c \in Calls, AppStep(c)
  PROVE  app.status # "BOOKED" /\ (app'.status = "BOOKED" => Application!WriteBooked(c))
<1>0. app \in ApplicationType BY DEF ApprovalsOK
<1>1. Current(request[c]) BY DEF RequestsCurrent
<1>2. app.status # "BOOKED"
  BY <1>1 DEF AppStep, Application!WriteTerms, Application!WriteSubmitted,
     Application!WriteRecommended, Application!WriteApproval, Application!WriteRejected,
     Application!WriteBooked, Application!Does, Current
<1>3. ASSUME ~Application!WriteBooked(c) PROVE app'.status # "BOOKED"
  <2>1. \/ \E t \in Offers : app' = [app EXCEPT !.terms = t]
        \/ \E s \in {"SUBMITTED", "REJECTED", "APPROVED"} : app' = [app EXCEPT !.status = s]
        \/ app' = [app EXCEPT !.status = "RECOMMENDED", !.recommendedBy = request[c].by]
        \/ app' = app
    BY <1>3 DEF AppStep, Application!WriteTerms, Application!WriteSubmitted,
     Application!WriteRecommended, Application!WriteApproval, Application!WriteRejected,
     Application!Cas, Application!BumpVersion
  <2> QED BY <1>0, <1>2, <2>1 DEF ApplicationType
<1> QED BY <1>2, <1>3

\* What a request relies on of the statements: their numbers, that no statement
\* was written since it saw those in force, and the terms it is to book.
Filed(r) ==
  /\ r.doing \in {"ISSUE", "FILE"} => r.at = 1 \/ r.at - 1 \in Application!Made
  /\ r.doing = "FILE" /\ r.at \notin Application!Made => Application!Live \subseteq r.seen
  /\ r.doing = "BOOK" => r.at \in Application!Made /\ statement[r.at].terms = r.terms
  /\ r.doing = "ACCEPT" => r.at \in Statements
  /\ r.doing = "RESOLVE" => r.to # "NONE"

RequestsFiled == request \in [Calls -> RequestType] /\ \A c \in Calls : Filed(request[c])

\* Statements are made in the order of their numbers, one is in force at most,
\* and the one that was booked is what the loan's contract says.
StatementsOK ==
  /\ statement \in [Statements -> StatementType]
  /\ \E n \in Nat : Application!Made = 1 .. n
  /\ \A j, k \in Application!Live : j = k
  /\ Application!BookedAsDisclosed

\* Nothing is written in a statement.
LEMMA StatementsStand ==
  ASSUME StatementsOK, RequestsFiled, statement' = statement,
         booked'.contract = booked.contract, booked'.status # "NONE" => booked.status # "NONE",
         request' \in [Calls -> RequestType],
         \A d \in Calls : request'[d] = request[d] \/ Filed(request'[d])
  PROVE  StatementsOK' /\ RequestsFiled'
<1>1. Application!Made' = Application!Made /\ Application!Live' = Application!Live
  BY DEF Application!Made, Application!Live
<1>2. \A r : Filed(r)' <=> Filed(r) BY <1>1 DEF Filed
<1>3. RequestsFiled' BY <1>2 DEF RequestsFiled
<1>4. Application!BookedAsDisclosed' BY DEF StatementsOK, Application!BookedAsDisclosed
<1> QED BY <1>1, <1>3, <1>4 DEF StatementsOK

\* Statements are numbers.
LEMMA StatementsAreNumbered ==
  /\ IsFiniteSet(Statements) /\ Cardinality(Statements) \in Nat
  /\ Statements = 1 .. Cardinality(Statements)
  /\ \A k \in Statements : k \in Nat /\ 1 <= k /\ 1 .. k \subseteq Statements
<1>1. IsFiniteSet(Statements) /\ Cardinality(Statements) \in Nat
  BY ApplicationAssumption, FS_CardinalityType DEF ApplicationAssumption
<1>2. Statements = 1 .. Cardinality(Statements)
  BY ApplicationAssumption DEF ApplicationAssumption
<1>3. \A k \in 1 .. Cardinality(Statements) : /\ k \in Nat /\ 1 <= k
                                              /\ 1 .. k \subseteq 1 .. Cardinality(Statements)
  BY <1>1
<1> QED BY <1>1, <1>2, <1>3

\* A request reads how many statements there are.
LEMMA NumberIsNext ==
  ASSUME StatementsOK
  PROVE  LET k == Application!Cardinality(Application!Made) + 1
         IN  k \in Nat /\ (k = 1 \/ k - 1 \in Application!Made)
<1>1. PICK n \in Nat : Application!Made = 1 .. n BY DEF StatementsOK
<1>2. Cardinality(1 .. n) = n
  <2>1. Cardinality(1 .. n) = IF 1 > n THEN 0 ELSE n - 1 + 1 BY FS_Interval
  <2> QED BY <2>1
<1>3. Application!Cardinality(Application!Made) = n BY <1>1, <1>2, SameCount
<1> QED BY <1>1, <1>3

\* The statement that is written has the next number, the one its request took;
\* so the request has seen whatever is in force, and supersedes it.
LEMMA StatementWritten ==
  ASSUME StatementsOK, RequestsFiled, NEW c \in Calls, Application!WriteStatement(c)
  PROVE  StatementsOK' /\ RequestsFiled'
<1> DEFINE r == request[c]
           free == CHOOSE k \in Statements :
                     k \notin Application!Made /\ 1 .. k - 1 \subseteq Application!Made
           S == [k \in Statements |->
                   IF k = free THEN [status |-> "ISSUED", terms |-> r.terms]
                   ELSE IF k \in Application!Live \cap r.seen
                        THEN [statement[k] EXCEPT !.status = "SUPERSEDED"]
                        ELSE statement[k]]
<1>1. /\ r.doing = "FILE" /\ r.at \in Statements /\ r.at \notin Application!Made
      /\ statement' = S /\ request' = [request EXCEPT ![c] = Application!Idle]
      /\ UNCHANGED booked
  <2>1. r.doing = "FILE" /\ UNCHANGED booked
    BY Zenon DEF Application!WriteStatement, Application!Does, Application!loanVars
  <2>2. r.at \in Statements \ Application!Made
    BY DEF Application!WriteStatement, Application!NumberIsFree
  <2>3. request' = [request EXCEPT ![c] = Application!Idle]
    BY DEF Application!WriteStatement, Application!Leaves
  <2>4. statement' = S BY Zenon DEF Application!WriteStatement
  <2> QED BY ONLY <2>1, <2>2, <2>3, <2>4
<1>2. r \in RequestType /\ Filed(r) BY DEF RequestsFiled
<1>3. PICK n \in Nat : Application!Made = 1 .. n BY DEF StatementsOK
<1>4. r.at = n + 1 /\ n + 1 \in Statements
  <2>1. r.at \in Nat /\ 1 <= r.at BY <1>1, StatementsAreNumbered
  <2>2. r.at = 1 \/ r.at - 1 \in 1 .. n BY <1>1, <1>2, <1>3 DEF Filed
  <2>3. r.at \notin 1 .. n BY <1>1, <1>3
  <2>4. r.at = n + 1 BY <2>1, <2>2, <2>3
  <2> QED BY <1>1, <2>4
<1>5. free = n + 1
  <2>1. n + 1 \notin 1 .. n /\ 1 .. (n + 1) - 1 \subseteq 1 .. n OBVIOUS
  <2>2. free \in Statements /\ free \notin 1 .. n /\ 1 .. free - 1 \subseteq 1 .. n
    BY <1>3, <1>4, <2>1
  <2>3. free \in Nat /\ 1 <= free BY <2>2, StatementsAreNumbered
  <2> HIDE DEF free
  <2>4. free > n BY <2>2, <2>3
  <2>5. ASSUME free > n + 1 PROVE FALSE
    <3>1. n + 1 \in 1 .. free - 1 BY <2>3, <2>5
    <3> QED BY <2>1, <2>2, <3>1
  <2> QED BY <2>3, <2>4, <2>5
<1>6. Application!Live \subseteq r.seen BY <1>1, <1>2 DEF Filed
<1>7. /\ \A k \in Statements : statement[k] \in StatementType
      /\ Application!Made \subseteq Statements /\ Application!Live \subseteq Application!Made
  BY DEF StatementsOK, Application!Made, Application!Live
<1> HIDE DEF free, r
<1>8. \A k \in Statements : statement'[k] =
        IF k = n + 1 THEN [status |-> "ISSUED", terms |-> r.terms]
        ELSE IF k \in Application!Live THEN [statement[k] EXCEPT !.status = "SUPERSEDED"]
             ELSE statement[k]
  BY <1>1, <1>5, <1>6
<1> HIDE DEF S
<1>9. statement' \in [Statements -> StatementType]
  <2>1. [status |-> "ISSUED", terms |-> r.terms] \in StatementType
    BY <1>2 DEF RequestType, StatementType
  <2>2. \A k \in Statements : [statement[k] EXCEPT !.status = "SUPERSEDED"] \in StatementType
    BY <1>7 DEF StatementType
  <2>3. statement' = [k \in Statements |-> statement'[k]] BY <1>1 DEF S
  <2>4. \A k \in Statements : statement'[k] \in StatementType BY <1>7, <1>8, <2>1, <2>2
  <2> QED BY <2>3, <2>4
<1>10. \A k \in Statements : /\ statement'[k].status # "NONE" <=>
                                  statement[k].status # "NONE" \/ k = n + 1
                             /\ statement[k].status # "NONE" =>
                                  statement'[k].terms = statement[k].terms
                             /\ statement'[k].status \in {"ISSUED", "ACCEPTED"} => k = n + 1
  <2> SUFFICES ASSUME NEW k \in Statements
               PROVE  /\ statement'[k].status # "NONE" <=>
                           statement[k].status # "NONE" \/ k = n + 1
                      /\ statement[k].status # "NONE" =>
                           statement'[k].terms = statement[k].terms
                      /\ statement'[k].status \in {"ISSUED", "ACCEPTED"} => k = n + 1
    OBVIOUS
  <2>1. statement[k] \in StatementType BY <1>7
  <2>2. CASE k = n + 1
    <3>1. k \notin Application!Made BY <1>3, <2>2
    <3>2. statement'[k] = [status |-> "ISSUED", terms |-> r.terms] BY <1>8, <2>2
    <3>3. statement[k].status = "NONE" BY <3>1 DEF Application!Made
    <3> QED BY <2>2, <3>2, <3>3
  <2>3. CASE k # n + 1 /\ k \in Application!Live
    <3>1. statement'[k] = [statement[k] EXCEPT !.status = "SUPERSEDED"] BY <1>8, <2>3
    <3>2. statement[k].status # "NONE" BY <2>3 DEF Application!Live
    <3> QED BY <2>1, <2>3, <3>1, <3>2 DEF StatementType
  <2>4. CASE k # n + 1 /\ k \notin Application!Live
    BY <1>8, <2>4 DEF Application!Live
  <2> QED BY <2>2, <2>3, <2>4
<1>11. Application!Made' = Application!Made \cup {n + 1}
  BY <1>4, <1>10 DEF Application!Made
<1>12. Application!Made' = 1 .. n + 1 BY <1>3, <1>11
<1>13. \A j, k \in Application!Live' : j = k BY <1>10 DEF Application!Live
<1>14. Application!BookedAsDisclosed'
  <2> SUFFICES ASSUME booked.status # "NONE"
               PROVE  \E k \in Statements :
                        statement'[k] = [status |-> "BOOKED", terms |-> booked.contract]
    BY <1>1 DEF Application!BookedAsDisclosed
  <2>1. PICK k \in Statements : statement[k] = [status |-> "BOOKED", terms |-> booked.contract]
    BY DEF StatementsOK, Application!BookedAsDisclosed
  <2>2. k \in Application!Made /\ k \notin Application!Live
    BY <2>1 DEF Application!Made, Application!Live
  <2>3. k # n + 1 BY <1>3, <2>2
  <2> QED BY <1>8, <2>1, <2>2, <2>3
<1>15. StatementsOK' BY <1>9, <1>12, <1>13, <1>14 DEF StatementsOK
<1>16. RequestsFiled'
  <2>0. request' \in [Calls -> RequestType] BY <1>1, IdleRequest DEF RequestsFiled
  <2> SUFFICES ASSUME NEW d \in Calls PROVE Filed(request[d])' BY <2>0 DEF RequestsFiled
  <2>1. CASE d = c
    <3>1. request'[d] = Application!Idle BY <1>1, <2>1 DEF RequestsFiled
    <3> QED BY <3>1, IdleRequest DEF Filed
  <2>2. CASE d # c
    <3> DEFINE q == request[d]
    <3>1. request'[d] = q BY <1>1, <2>2
    <3>2. q \in RequestType /\ Filed(q) BY DEF RequestsFiled
    <3> HIDE DEF q
    <3>3. q.doing \in {"ISSUE", "FILE"} => q.at = 1 \/ q.at - 1 \in Application!Made'
      BY <1>11, <3>2 DEF Filed
    <3>4. ASSUME q.doing = "FILE" PROVE q.at \in Application!Made'
      <4>1. q.at \in Nat BY <3>2 DEF RequestType
      <4>2. q.at = 1 \/ q.at - 1 \in 1 .. n BY <1>3, <3>2, <3>4 DEF Filed
      <4> QED BY <1>12, <4>1, <4>2
    <3>5. q.doing = "BOOK" => q.at \in Application!Made' /\ statement'[q.at].terms = q.terms
      <4>1. \A k \in Application!Made : statement'[k].terms = statement[k].terms
        BY <1>7, <1>10 DEF Application!Made
      <4> QED BY <1>11, <3>2, <4>1 DEF Filed
    <3> QED BY <3>1, <3>2, <3>3, <3>4, <3>5 DEF Filed
  <2> QED BY <2>1, <2>2
<1> QED BY <1>15, <1>16

BookedType == [status : {"NONE", "BOOKED", "ACTIVE"}, contract : Hashes,
               received : Nat, held : Nat, recorded : Nat]

\* A statement in force goes on, or is no longer in force; the others stand.
LEMMA StatementTurns ==
  ASSUME StatementsOK, RequestsFiled, NEW k \in Statements,
         statement[k].status \in {"ISSUED", "ACCEPTED"}, NEW s \in {"ACCEPTED", "BOOKED"},
         statement' = [statement EXCEPT ![k].status = s],
         request' \in [Calls -> RequestType],
         \A d \in Calls : request'[d] = request[d] \/ request'[d] = Application!Idle
  PROVE  /\ statement' \in [Statements -> StatementType]
         /\ \E n \in Nat : Application!Made' = 1 .. n
         /\ \A i, j \in Application!Live' : i = j
         /\ RequestsFiled'
         /\ statement'[k] = [status |-> s, terms |-> statement[k].terms]
         /\ \A j \in Statements \ {k} : statement'[j] = statement[j]
<1>1. statement \in [Statements -> StatementType] /\ statement[k] \in StatementType
  BY DEF StatementsOK
<1>2. statement'[k] = [status |-> s, terms |-> statement[k].terms] BY <1>1 DEF StatementType
<1>3. \A j \in Statements \ {k} : statement'[j] = statement[j] BY <1>1
<1>4. statement' \in [Statements -> StatementType] BY <1>1 DEF StatementType
<1>5. \A j \in Statements : /\ statement'[j].status # "NONE" <=> statement[j].status # "NONE"
                            /\ statement'[j].status \in {"ISSUED", "ACCEPTED"} =>
                                 statement[j].status \in {"ISSUED", "ACCEPTED"}
                            /\ statement'[j].terms = statement[j].terms
  BY <1>2, <1>3
<1>6. Application!Made' = Application!Made BY <1>5 DEF Application!Made
<1>7. Application!Live' \subseteq Application!Live BY <1>5 DEF Application!Live
<1>8. \A k_1 \in Application!Made : k_1 \in Statements BY DEF Application!Made
<1>9. ASSUME NEW d \in Calls PROVE Filed(request[d])'
  <2>1. CASE request'[d] = Application!Idle BY <2>1, IdleRequest DEF Filed
  <2>2. CASE request'[d] = request[d]
    <3>1. Filed(request[d]) BY DEF RequestsFiled
    <3> QED BY <1>5, <1>6, <1>7, <1>8, <2>2, <3>1 DEF Filed
  <2> QED BY <2>1, <2>2
<1> QED BY <1>2, <1>3, <1>4, <1>6, <1>7, <1>9 DEF StatementsOK, RequestsFiled

\* The customer accepts a statement that is in force.
LEMMA AcceptedKeeps ==
  ASSUME StatementsOK, RequestsFiled, NEW c \in Calls, Application!WriteAccepted(c)
  PROVE  StatementsOK' /\ RequestsFiled'
<1> DEFINE k == request[c].at
<1>1. /\ request[c].doing = "ACCEPT" /\ statement[k].status = "ISSUED"
      /\ statement' = [statement EXCEPT ![k].status = "ACCEPTED"]
      /\ request' = [request EXCEPT ![c] = Application!Idle] /\ booked' = booked
  BY DEF Application!WriteAccepted, Application!Does, Application!Leaves, Application!loanVars
<1>2. k \in Statements BY <1>1 DEF RequestsFiled, Filed
<1>3. request' \in [Calls -> RequestType] BY <1>1, IdleRequest DEF RequestsFiled
<1>4. \A d \in Calls : request'[d] = request[d] \/ request'[d] = Application!Idle
  BY <1>1 DEF RequestsFiled
<1> HIDE DEF k
<1>5. /\ statement' \in [Statements -> StatementType]
      /\ \E n \in Nat : Application!Made' = 1 .. n
      /\ \A i, j \in Application!Live' : i = j
      /\ RequestsFiled'
      /\ \A j \in Statements \ {k} : statement'[j] = statement[j]
  BY <1>1, <1>2, <1>3, <1>4, StatementTurns
<1>6. Application!BookedAsDisclosed'
  BY <1>1, <1>5 DEF StatementsOK, Application!BookedAsDisclosed
<1> QED BY <1>5, <1>6 DEF StatementsOK

\* The contract is made on the terms that were accepted.
LEMMA BookedKeeps ==
  ASSUME StatementsOK, RequestsFiled, NEW c \in Calls, Application!WriteBooked(c),
         booked \in BookedType
  PROVE  StatementsOK' /\ RequestsFiled'
<1> DEFINE k == request[c].at
<1>1. /\ request[c].doing = "BOOK" /\ statement[k].status = "ACCEPTED"
      /\ statement' = [statement EXCEPT ![k].status = "BOOKED"]
      /\ Application!AppWritten(c)
      /\ booked' = [booked EXCEPT !.status = "BOOKED", !.contract = request[c].terms]
  BY DEF Application!WriteBooked, Application!Does, Application!Cas
<1>2. k \in Statements /\ statement[k].terms = request[c].terms
  BY <1>1 DEF RequestsFiled, Filed, Application!Made
<1>3. /\ request' \in [Calls -> RequestType]
      /\ \A d \in Calls : request'[d] = request[d] \/ request'[d] = Application!Idle
  BY <1>1, IdleRequest DEF RequestsFiled, Application!AppWritten
<1> HIDE DEF k
<1>4. /\ statement' \in [Statements -> StatementType]
      /\ \E n \in Nat : Application!Made' = 1 .. n
      /\ \A i, j \in Application!Live' : i = j
      /\ RequestsFiled'
      /\ statement'[k] = [status |-> "BOOKED", terms |-> statement[k].terms]
  BY <1>1, <1>2, <1>3, StatementTurns
<1>5. Application!BookedAsDisclosed'
  <2>1. booked'.contract = request[c].terms BY <1>1 DEF BookedType
  <2> QED BY <1>2, <1>4, <2>1 DEF Application!BookedAsDisclosed
<1> QED BY <1>4, <1>5 DEF StatementsOK


TaskType == [status : {"NONE", "PENDING", "APPROVED", "REJECTED", "EXECUTED"},
             maker : Tellers \cup {Nobody}, decidedBy : Tellers \cup {Nobody}, day : Int]
RefundType == [status : {"NONE", "PENDING", "REJECTED", "EXECUTED"},
               maker : Tellers \cup {Nobody}, amount : Nat]

\* What was received is what was recorded and not paid back; and a loan is paid
\* out by a second person's word, on conditions that were met and stay so.
PaidOutOK ==
  /\ booked \in BookedType /\ booked.held <= booked.received
  /\ refunded \in Nat /\ booked.received = booked.recorded - refunded
  /\ task \in TaskType /\ refund \in RefundType
  /\ precedent.status \in {"NONE", "OUTSTANDING", "SATISFIED", "WAIVED"}
  /\ task.status \in {"APPROVED", "EXECUTED"} => task.decidedBy \notin {Nobody, task.maker}
  /\ booked.status = "ACTIVE" => /\ task.status = "EXECUTED"
                                 /\ precedent.status # "OUTSTANDING"
                                 /\ booked.received >= Agreed

\* A loan is booked when its application is.
BookedTogether == app.status # "BOOKED" => booked.status = "NONE"

\* What is done to the booked loan.
LoanStep ==
  \/ Application!NextDate
  \/ \E u \in Tellers :
       \/ Application!PrepareDisbursement(u) \/ Application!ExecuteDisbursement(u)
       \/ Application!ProposeRefund(u) \/ Application!PayRefund(u) \/ Application!RejectRefund(u)
       \/ \E to \in {"APPROVED", "REJECTED"} : Application!DecideDisbursement(u, to)
  \/ \E by \in {"LENDER", "SELLER"} : Application!RecordDownPayment(by)

\* It is in order.
LEMMA LoanKeeps ==
  ASSUME PaidOutOK, LoanStep
  PROVE  /\ PaidOutOK' /\ booked'.contract = booked.contract
         /\ booked'.status = "NONE" <=> booked.status = "NONE"
<1> USE DEF PaidOutOK
<1>0. /\ booked.received \in Nat /\ booked.held \in Nat /\ booked.recorded \in Nat
      /\ refund.amount \in Nat /\ Agreed \in Nat /\ Nobody \notin Tellers
  BY ApplicationAssumption DEF BookedType, RefundType, ApplicationAssumption
<1>1. CASE Application!NextDate
  <2>1. UNCHANGED <<booked, task, refund, refunded, precedent>>
    BY <1>1, Zenon DEF Application!NextDate, Application!OnLoan
  <2> QED BY <2>1
<1>2. ASSUME NEW u \in Tellers, Application!PrepareDisbursement(u)
      PROVE  PaidOutOK' /\ booked' = booked
  <2>1. PICK d \in 1 .. LastDay : task' = [Application!NoTask EXCEPT
                                         !.status = "PENDING", !.maker = u, !.day = d]
    BY <1>2, Zenon DEF Application!PrepareDisbursement
  <2>2. UNCHANGED <<booked, refund, refunded, precedent>> /\ booked.status = "BOOKED"
    BY <1>2 DEF Application!PrepareDisbursement, Application!OnLoan
  <2>3. task' \in TaskType /\ task'.status = "PENDING"
    <3>1. d \in Int OBVIOUS
    <3> QED BY <2>1, <3>1 DEF TaskType, Application!NoTask
  <2> QED BY <2>2, <2>3
<1>3. ASSUME NEW u \in Tellers, Application!ExecuteDisbursement(u)
      PROVE  /\ PaidOutOK' /\ booked'.contract = booked.contract
             /\ booked.status = "BOOKED" /\ booked'.status = "ACTIVE"
  <2>1. /\ task' = [task EXCEPT !.status = "EXECUTED"] /\ task.status = "APPROVED"
        /\ booked' = [booked EXCEPT !.status = "ACTIVE", !.held = 0]
        /\ booked.status = "BOOKED" /\ booked.received >= Agreed
        /\ precedent.status # "OUTSTANDING"
        /\ UNCHANGED <<refund, refunded, precedent>>
    BY <1>3 DEF Application!ExecuteDisbursement, Application!OnLoan
  <2>2. /\ task' \in TaskType /\ task'.status = "EXECUTED"
        /\ task'.decidedBy = task.decidedBy /\ task'.maker = task.maker
    BY <2>1 DEF TaskType
  <2>3. /\ booked' \in BookedType /\ booked'.status = "ACTIVE" /\ booked'.held = 0
        /\ booked'.received = booked.received /\ booked'.recorded = booked.recorded
        /\ booked'.contract = booked.contract
    BY <2>1 DEF BookedType
  <2> QED BY <1>0, <2>1, <2>2, <2>3
<1>4. ASSUME NEW u \in Tellers, Application!ProposeRefund(u)
      PROVE  PaidOutOK' /\ booked' = booked
  <2>1. PICK n \in Nat : refund' = [status |-> "PENDING", maker |-> u, amount |-> n]
    BY <1>0, <1>4 DEF Application!ProposeRefund
  <2>2. UNCHANGED <<booked, task, refunded, precedent>>
    BY <1>4 DEF Application!ProposeRefund, Application!OnLoan
  <2>3. refund' \in RefundType BY <2>1 DEF RefundType
  <2> QED BY <2>2, <2>3
<1>5. ASSUME NEW u \in Tellers, Application!PayRefund(u)
      PROVE  /\ PaidOutOK' /\ booked'.contract = booked.contract
             /\ booked.status = "BOOKED" /\ booked'.status = "BOOKED"
  <2>1. /\ booked.status = "BOOKED" /\ refund.amount <= booked.held
        /\ refund' = [refund EXCEPT !.status = "EXECUTED"]
        /\ booked' = [booked EXCEPT !.held = Application!HeldLess, !.received = Application!ReceivedLess]
        /\ refunded' = refunded + refund.amount
        /\ UNCHANGED <<task, precedent>>
    BY <1>5 DEF Application!PayRefund, Application!OnLoan
  <2>2. /\ Application!HeldLess = booked.held - refund.amount
        /\ Application!ReceivedLess = booked.received - refund.amount
    BY <1>0, <2>1 DEF Application!HeldLess, Application!ReceivedLess
  <2>3. /\ booked.held - refund.amount \in Nat /\ booked.received - refund.amount \in Nat
        /\ booked.held - refund.amount <= booked.received - refund.amount
        /\ refunded + refund.amount \in Nat
        /\ booked.received - refund.amount = booked.recorded - (refunded + refund.amount)
    BY <1>0, <2>1
  <2>4. /\ booked' \in BookedType /\ booked'.status = "BOOKED"
        /\ booked'.held = booked.held - refund.amount
        /\ booked'.received = booked.received - refund.amount
        /\ booked'.recorded = booked.recorded /\ booked'.contract = booked.contract
    BY <2>1, <2>2, <2>3 DEF BookedType
  <2>5. refund' \in RefundType BY <2>1 DEF RefundType
  <2> QED BY <2>1, <2>3, <2>4, <2>5
<1>6. ASSUME NEW u \in Tellers, Application!RejectRefund(u)
      PROVE  PaidOutOK' /\ booked' = booked
  <2>1. /\ refund' = [refund EXCEPT !.status = "REJECTED"]
        /\ UNCHANGED <<booked, task, refunded, precedent>>
    BY <1>6 DEF Application!RejectRefund, Application!OnLoan
  <2>2. refund' \in RefundType BY <2>1 DEF RefundType
  <2> QED BY <2>1, <2>2
<1>7. ASSUME NEW u \in Tellers, NEW to \in {"APPROVED", "REJECTED"},
             Application!DecideDisbursement(u, to)
      PROVE  PaidOutOK' /\ booked' = booked
  <2>1. /\ booked.status = "BOOKED" /\ task.maker # u
        /\ task' = [task EXCEPT !.status = to, !.decidedBy = u]
        /\ UNCHANGED <<booked, refund, refunded, precedent>>
    BY <1>7 DEF Application!DecideDisbursement, Application!OnLoan
  <2>2. /\ task' \in TaskType /\ task'.decidedBy = u /\ task'.maker = task.maker
    BY <2>1 DEF TaskType
  <2> QED BY <1>0, <2>1, <2>2
<1>8. ASSUME NEW by \in {"LENDER", "SELLER"}, Application!RecordDownPayment(by)
      PROVE  /\ PaidOutOK' /\ booked'.contract = booked.contract
             /\ booked.status = "BOOKED" /\ booked'.status = "BOOKED"
  <2>1. /\ booked.status = "BOOKED" /\ UNCHANGED <<task, refund, refunded, precedent>>
    BY <1>8 DEF Application!RecordDownPayment, Application!OnLoan
  <2> DEFINE held == IF by = "LENDER" THEN booked.held + 1 ELSE booked.held
  <2>3. booked' = [booked EXCEPT !.received = booked.received + 1,
                                 !.recorded = booked.recorded + 1, !.held = held]
    BY <1>8 DEF Application!RecordDownPayment
  <2>4. held \in Nat /\ held <= booked.received + 1 BY <1>0
  <2> HIDE DEF held
  <2>2. /\ booked'.received = booked.received + 1 /\ booked'.recorded = booked.recorded + 1
        /\ booked'.held = held
        /\ booked'.contract = booked.contract /\ booked'.status = "BOOKED"
        /\ booked' \in BookedType
    <3>1. booked.received + 1 \in Nat /\ booked.recorded + 1 \in Nat BY <1>0
    <3> DEFINE m == booked.received + 1
               n == booked.recorded + 1
    <3>2. booked' = [booked EXCEPT !.received = m, !.recorded = n, !.held = held] BY <2>3
    <3>3. m \in Nat /\ n \in Nat BY <3>1
    <3>4. m = booked.received + 1 /\ n = booked.recorded + 1 OBVIOUS
    <3> HIDE DEF m, n
    <3>5. /\ booked'.received = m /\ booked'.recorded = n /\ booked'.held = held
          /\ booked'.contract = booked.contract /\ booked'.status = booked.status
          /\ booked' \in BookedType
      BY <2>4, <3>2, <3>3 DEF BookedType
    <3> QED BY <2>1, <3>4, <3>5
  <2> QED BY <1>0, <2>1, <2>2, <2>4
<1> QED BY <1>1, <1>2, <1>3, <1>4, <1>5, <1>6, <1>7, <1>8 DEF LoanStep

\* A loan that nothing is done to.
LEMMA LoanStands ==
  ASSUME PaidOutOK, UNCHANGED <<booked, task, refund, refunded>>,
         \/ precedent' = precedent
         \/ precedent'.status \in {"SATISFIED", "WAIVED"}
  PROVE  PaidOutOK'
  BY DEF PaidOutOK

\* The application, its statements, its loan and who works on them.
AppOK == /\ ApprovalsOK /\ RequestsCurrent /\ StatementsOK /\ RequestsFiled
         /\ PaidOutOK /\ BookedTogether

\* A request that goes on and writes nothing.
LEMMA RequestAlone ==
  ASSUME AppOK, NEW c \in Calls, NEW r \in RequestType, request' = [request EXCEPT ![c] = r],
         Current(r), Filed(r),
         UNCHANGED <<app, approvals, policy, statement, precedent, booked, task, refund, refunded>>
  PROVE  AppOK'
<1> USE DEF AppOK
<1>1. ApprovalsOK' /\ RequestsCurrent' BY RequestGoesOn
<1>2. \A d \in Calls : request'[d] = request[d] \/ request'[d] = r BY DEF RequestsCurrent
<1>3. request' \in [Calls -> RequestType] BY DEF RequestsCurrent
<1>4. \A d \in Calls : request'[d] = request[d] \/ Filed(request'[d]) BY <1>2
<1>5. StatementsOK' /\ RequestsFiled' BY <1>3, <1>4, StatementsStand
<1>6. PaidOutOK' BY LoanStands
<1>7. BookedTogether' BY DEF BookedTogether
<1> QED BY <1>1, <1>5, <1>6, <1>7

\* A request that reads.
ReadStep(c) ==
  \/ Application!ReadDraft(c) \/ Application!ReadToSubmit(c)
  \/ Application!PrepareStatement(c) \/ Application!ReadToBook(c)
  \/ \E u \in Officers : \/ Application!ReadToRecommend(c, u) \/ Application!ReadToApprove(c, u)
                         \/ Application!ReadToReject(c, u)
                         \/ \E how \in {"SATISFIED", "WAIVED"} : Application!ReadCondition(c, u, how)
  \/ \E k \in Statements : Application!ReadStatement(c, k)

\* A request that begins.
LEMMA ReadsAlone ==
  ASSUME AppOK, NEW c \in Calls, NEW r \in RequestType, Application!Reads(c, r),
         Current(r), Filed(r)
  PROVE  AppOK'
<1>1. /\ request' = [request EXCEPT ![c] = r]
      /\ UNCHANGED <<app, approvals, policy, statement, precedent, booked, task, refund, refunded>>
  BY DEF Application!Reads, Application!loanVars
<1> QED BY <1>1, RequestAlone

\* What it has read is what there is.
LEMMA ReadKeeps == ASSUME AppOK, NEW c \in Calls, ReadStep(c) PROVE AppOK'
<1>0. /\ app \in ApplicationType /\ policy \in Nat /\ Application!TermsHash \in Hashes
      /\ {} \in SUBSET Statements /\ <<>> \in Hashes
      /\ Application!Live \in SUBSET Statements
      /\ \A k \in Application!Live : k \in Application!Made
      /\ \A k \in Statements : k \in Nat
  BY StatementsAreNumbered DEF AppOK, ApprovalsOK, ApplicationType, Application!TermsHash, Hashes,
     Application!Live, Application!Made
<1> DEFINE D(what, u) == Application!Doing(what, u)
<1>1. \A u \in Officers \cup {Nobody}, what \in {"TERMS", "SUBMIT", "RECOMMEND", "REJECT"} :
        /\ D(what, u) \in RequestType /\ D(what, u).doing = what /\ D(what, u).by = u
        /\ Filed(D(what, u))
  <2> SUFFICES ASSUME NEW u \in Officers \cup {Nobody},
                      NEW what \in {"TERMS", "SUBMIT", "RECOMMEND", "REJECT"}
               PROVE  /\ D(what, u) \in RequestType /\ D(what, u).doing = what /\ D(what, u).by = u
                      /\ Filed(D(what, u))
    OBVIOUS
  <2>1. PICK r : r = [Application!Idle EXCEPT !.doing = what, !.by = u] OBVIOUS
  <2>2. r \in RequestType /\ r.doing = what /\ r.by = u
    BY <2>1, IdleRequest DEF RequestType
  <2>3. D(what, u) = r BY <2>1 DEF Application!Doing
  <2> HIDE DEF D
  <2> QED BY <2>2, <2>3 DEF Filed
<1>2. CASE Application!ReadDraft(c)
  <2>1. Current(D("TERMS", Nobody)) BY <1>1, <1>2 DEF Current, Application!ReadDraft
  <2> QED BY <1>1, <1>2, <2>1, ReadsAlone DEF Application!ReadDraft
<1>3. CASE Application!ReadToSubmit(c)
  <2>1. Current(D("SUBMIT", Nobody)) BY <1>1, <1>3 DEF Current, Application!ReadToSubmit
  <2> QED BY <1>1, <1>3, <2>1, ReadsAlone DEF Application!ReadToSubmit
<1>4. ASSUME NEW u \in Officers, Application!ReadToRecommend(c, u) PROVE AppOK'
  <2>1. Current(D("RECOMMEND", u)) BY <1>1, <1>4 DEF Current, Application!ReadToRecommend
  <2> QED BY <1>1, <1>4, <2>1, ReadsAlone DEF Application!ReadToRecommend
<1>5. ASSUME NEW u \in Officers, Application!ReadToReject(c, u) PROVE AppOK'
  <2>1. Current(D("REJECT", u)) BY <1>1, <1>5 DEF Current, Application!ReadToReject
  <2> QED BY <1>1, <1>5, <2>1, ReadsAlone DEF Application!ReadToReject
<1>6. ASSUME NEW u \in Officers, Application!ReadToApprove(c, u) PROVE AppOK'
  <2> DEFINE r == [Application!Doing("APPROVE", u) EXCEPT !.count = Application!Count(approvals)]
  <2>1. /\ app.status = "RECOMMENDED" /\ u \notin Application!Makers /\ approvals[u] = 0
        /\ Application!Reads(c, r)
    BY <1>6 DEF Application!ReadToApprove
  <2>2. Application!Count(approvals) \in Nat BY <2>1, OneMore DEF AppOK
  <2>3. /\ r \in RequestType /\ r.doing = "APPROVE" /\ r.by = u
        /\ r.count = Application!Count(approvals)
    BY <1>0, <2>2 DEF Application!Doing, Application!Idle, RequestType
  <2> HIDE DEF r
  <2>4. Current(r) /\ Filed(r) BY <2>1, <2>3 DEF Current, Filed
  <2> QED BY <2>1, <2>3, <2>4, ReadsAlone
<1>7. ASSUME NEW u \in Officers, NEW how \in {"SATISFIED", "WAIVED"},
             Application!ReadCondition(c, u, how)
      PROVE  AppOK'
  <2> DEFINE r == [Application!Idle EXCEPT !.doing = "RESOLVE", !.to = how]
  <2>1. Application!Reads(c, r) BY <1>7 DEF Application!ReadCondition
  <2>2. r \in RequestType /\ r.doing = "RESOLVE" /\ r.to = how
    BY <1>0 DEF Application!Doing, Application!Idle, RequestType
  <2> HIDE DEF r
  <2>3. Current(r) /\ Filed(r) BY <2>2 DEF Current, Filed
  <2> QED BY <2>1, <2>2, <2>3, ReadsAlone
<1>8. CASE Application!PrepareStatement(c)
  <2> DEFINE n == Application!Cardinality(Application!Made) + 1
             r == [Application!Idle EXCEPT !.doing = "ISSUE", !.terms = Application!TermsHash, !.at = n]
  <2>1. Application!Reads(c, r) BY <1>8 DEF Application!PrepareStatement
  <2>2. n \in Nat /\ (n = 1 \/ n - 1 \in Application!Made) BY NumberIsNext DEF AppOK
  <2> HIDE DEF n
  <2>3. r \in RequestType /\ r.doing = "ISSUE" /\ r.at = n
    BY <1>0, <2>2 DEF Application!Idle, RequestType
  <2> HIDE DEF r
  <2>4. Current(r) /\ Filed(r) BY <2>2, <2>3 DEF Current, Filed
  <2> QED BY <2>1, <2>3, <2>4, ReadsAlone
<1>9. CASE Application!ReadToBook(c)
  <2>1. PICK k \in Application!Live :
          /\ Application!AcceptedAsItIs(k)
          /\ Application!Reads(c, [Application!Idle EXCEPT !.doing = "BOOK", !.at = k,
                                     !.terms = Application!TermsHash])
    BY <1>9, Zenon DEF Application!ReadToBook
  <2> DEFINE r == [Application!Idle EXCEPT !.doing = "BOOK", !.at = k,
                     !.terms = Application!TermsHash]
  <2>2. k \in Nat /\ k \in Application!Made BY <1>0, <2>1
  <2>3. r \in RequestType /\ r.doing = "BOOK" /\ r.at = k /\ r.terms = Application!TermsHash
    BY <1>0, <2>2 DEF Application!Idle, RequestType
  <2>4. Application!Reads(c, r) BY <2>1
  <2> HIDE DEF r
  <2>5. app.status = "APPROVED" BY <1>9 DEF Application!ReadToBook
  <2>6. Current(r) /\ Filed(r)
    BY <2>1, <2>2, <2>3, <2>5 DEF Current, Filed, Application!AcceptedAsItIs
  <2> QED BY <2>3, <2>4, <2>6, ReadsAlone
<1>10. ASSUME NEW k \in Statements, Application!ReadStatement(c, k) PROVE AppOK'
  <2> DEFINE r == [Application!Idle EXCEPT !.doing = "ACCEPT", !.at = k]
  <2>1. Application!Reads(c, r) BY <1>10 DEF Application!ReadStatement
  <2>2. r \in RequestType /\ r.doing = "ACCEPT" /\ r.at = k
    BY <1>0 DEF Application!Idle, RequestType
  <2> HIDE DEF r
  <2>3. Current(r) /\ Filed(r) BY <2>2 DEF Current, Filed
  <2> QED BY <2>1, <2>2, <2>3, ReadsAlone
<1> QED BY <1>2, <1>3, <1>4, <1>5, <1>6, <1>7, <1>8, <1>9, <1>10 DEF ReadStep

\* Every step of a request keeps all of it.
LEMMA RequestKeeps ==
  ASSUME AppOK, NEW c \in Calls,
         \/ AppStep(c)
         \/ Application!CheckApplication(c) \/ Application!WriteStatement(c)
         \/ Application!WriteAccepted(c) \/ Application!WriteCondition(c)
         \/ Application!RollBack(c)
  PROVE  AppOK'
<1> USE DEF AppOK
<1>0. request \in [Calls -> RequestType] BY DEF RequestsCurrent
<1>1. CASE AppStep(c)
  <2>1. ApprovalsOK' /\ RequestsCurrent' BY <1>1, AppKeeps
  <2>2. booked.status = "NONE" /\ app.status # "BOOKED" /\ booked \in BookedType
    BY <1>1, NotYetBooked DEF BookedTogether, PaidOutOK
  <2>3. CASE Application!WriteBooked(c)
    <3>1. StatementsOK' /\ RequestsFiled' BY <2>2, <2>3, BookedKeeps
    <3>2. /\ booked' = [booked EXCEPT !.status = "BOOKED", !.contract = request[c].terms]
          /\ app' = [app EXCEPT !.status = "BOOKED"]
          /\ UNCHANGED <<precedent, task, refund, refunded>>
      BY <2>3 DEF Application!WriteBooked, Application!Cas
    <3>3. request[c].terms \in Hashes BY <1>0 DEF RequestType
    <3>4. /\ booked' \in BookedType /\ booked'.status = "BOOKED"
          /\ booked'.received = booked.received /\ booked'.held = booked.held
          /\ booked'.recorded = booked.recorded
      BY <2>2, <3>2, <3>3 DEF BookedType
    <3>5. PaidOutOK' BY <3>2, <3>4 DEF PaidOutOK
    <3>6. app'.status = "BOOKED" BY <3>2 DEF ApprovalsOK, ApplicationType
    <3>7. BookedTogether' BY <3>6 DEF BookedTogether
    <3> QED BY <2>1, <3>1, <3>5, <3>7
  <2>4. CASE ~Application!WriteBooked(c)
    <3>1. UNCHANGED <<statement, precedent, booked, task, refund, refunded>> /\ Application!AppWritten(c)
      BY <1>1, <2>4, Zenon DEF AppStep, Application!WriteTerms, Application!WriteSubmitted,
         Application!WriteRecommended, Application!WriteApproval, Application!WriteRejected,
         Application!Cas, Application!BumpVersion, Application!loanVars
    <3>2. /\ request' \in [Calls -> RequestType]
          /\ \A d \in Calls : request'[d] = request[d] \/ request'[d] = Application!Idle
      BY <3>1, WriteLeaves
    <3>3. Filed(Application!Idle) BY IdleRequest DEF Filed
    <3>4. StatementsOK' /\ RequestsFiled' BY <3>1, <3>2, <3>3, StatementsStand
    <3>5. PaidOutOK' BY <3>1, LoanStands
    <3>6. BookedTogether' BY <2>2, <3>1 DEF BookedTogether
    <3> QED BY <2>1, <3>4, <3>5, <3>6
  <2> QED BY <2>3, <2>4
<1>2. CASE Application!CheckApplication(c)
  <2> DEFINE r == [request[c] EXCEPT !.doing = "FILE", !.seen = Application!Live]
  <2>1. /\ request[c].doing = "ISSUE" /\ request' = [request EXCEPT ![c] = r]
        /\ UNCHANGED <<app, approvals, policy, statement, precedent, booked, task, refund, refunded>>
    <3>1. request[c].doing = "ISSUE" BY <1>2 DEF Application!CheckApplication, Application!Does
    <3>2. request' = [request EXCEPT ![c].doing = "FILE", ![c].seen = Application!Live]
      BY <1>2 DEF Application!CheckApplication
    <3>3. UNCHANGED <<app, approvals, policy, statement, precedent, booked, task, refund, refunded>>
      BY <1>2, Zenon DEF Application!CheckApplication, Application!loanVars
    <3> QED BY <1>0, <3>1, <3>2, <3>3
  <2>2. request[c] \in RequestType /\ Filed(request[c]) /\ Application!Live \subseteq Statements
    BY <1>0 DEF RequestsFiled, Application!Live
  <2>3. /\ r \in RequestType /\ r.doing = "FILE" /\ r.at = request[c].at
        /\ r.seen = Application!Live
    BY <2>2 DEF RequestType
  <2> HIDE DEF r
  <2>4. Current(r) BY <2>3 DEF Current
  <2>5. Filed(r) BY <2>1, <2>2, <2>3 DEF Filed
  <2> QED BY <2>1, <2>3, <2>4, <2>5, RequestAlone
<1>3. ASSUME request' = [request EXCEPT ![c] = Application!Idle],
             UNCHANGED <<app, approvals, policy, booked, task, refund, refunded>>,
             \/ precedent' = precedent
             \/ precedent'.status \in {"SATISFIED", "WAIVED"}
      PROVE  ApprovalsOK' /\ RequestsCurrent' /\ PaidOutOK' /\ BookedTogether'
  <2>1. Current(Application!Idle) BY IdleRequest DEF Current
  <2>2. ApprovalsOK' /\ RequestsCurrent' BY <1>3, <2>1, IdleRequest, RequestGoesOn
  <2>3. PaidOutOK' BY <1>3, LoanStands
  <2>4. BookedTogether' BY <1>3 DEF BookedTogether
  <2> QED BY <2>2, <2>3, <2>4
<1>4. CASE Application!WriteStatement(c)
  <2>1. request' = [request EXCEPT ![c] = Application!Idle]
        /\ UNCHANGED <<app, approvals, policy, precedent, booked, task, refund, refunded>>
    BY <1>4, Zenon DEF Application!WriteStatement, Application!Leaves, Application!loanVars
  <2> QED BY <1>3, <1>4, <2>1, StatementWritten
<1>5. CASE Application!WriteAccepted(c)
  <2>1. request' = [request EXCEPT ![c] = Application!Idle]
        /\ UNCHANGED <<app, approvals, policy, precedent, booked, task, refund, refunded>>
    BY <1>5, Zenon DEF Application!WriteAccepted, Application!Leaves, Application!loanVars
  <2> QED BY <1>3, <1>5, <2>1, AcceptedKeeps
<1>6. CASE Application!WriteCondition(c) \/ Application!RollBack(c)
  <2>1. request' = [request EXCEPT ![c] = Application!Idle]
        /\ UNCHANGED <<app, approvals, policy, statement, booked, task, refund, refunded>>
    BY <1>6, Zenon DEF Application!WriteCondition, Application!RollBack, Application!Leaves,
       Application!loanVars
  <2>2. precedent' = precedent \/ precedent'.status \in {"SATISFIED", "WAIVED"}
    <3>1. CASE Application!WriteCondition(c)
      <4>1. precedent' = [status |-> request[c].to]
            /\ request[c].doing = "RESOLVE"
        BY <3>1 DEF Application!WriteCondition, Application!Does
      <4>2. request[c].to \in {"SATISFIED", "WAIVED"}
        BY <1>0, <4>1 DEF RequestsFiled, Filed, RequestType
      <4> QED BY <4>1, <4>2
    <3>2. CASE Application!RollBack(c) BY <3>2 DEF Application!RollBack
    <3> QED BY <1>6, <3>1, <3>2
  <2>3. request' \in [Calls -> RequestType] BY <1>0, <2>1, IdleRequest
  <2>4. \A d \in Calls : request'[d] = request[d] \/ Filed(request'[d])
    BY <1>0, <2>1, IdleRequest DEF Filed
  <2>5. StatementsOK' /\ RequestsFiled' BY <2>1, <2>3, <2>4, StatementsStand
  <2> QED BY <1>3, <2>1, <2>2, <2>5
<1> QED BY <1>1, <1>2, <1>4, <1>5, <1>6

\* What is done to the loan, and to the policies, leaves the requests alone.
LEMMA OthersKeep ==
  ASSUME AppOK, LoanStep \/ Application!RevisePolicy \/ UNCHANGED applicationVars
  PROVE  AppOK'
<1> USE DEF AppOK
<1>1. /\ UNCHANGED <<app, approvals, statement, request>> /\ policy' \in Nat
  <2>1. policy \in Nat BY DEF ApprovalsOK
  <2>2. CASE LoanStep
    <3>1. UNCHANGED <<app, approvals, policy, statement, request>>
      BY <2>2, Zenon DEF LoanStep, Application!NextDate, Application!PrepareDisbursement,
         Application!ExecuteDisbursement, Application!ProposeRefund, Application!PayRefund,
         Application!RejectRefund, Application!DecideDisbursement,
         Application!RecordDownPayment, Application!OnLoan
    <3> QED BY <2>1, <3>1
  <2>3. CASE Application!RevisePolicy BY <2>1, <2>3 DEF Application!RevisePolicy
  <2>4. CASE UNCHANGED applicationVars BY <2>1, <2>4 DEF applicationVars
  <2> QED BY <2>2, <2>3, <2>4
<1>2. /\ PaidOutOK' /\ booked'.contract = booked.contract
      /\ booked'.status = "NONE" <=> booked.status = "NONE"
  <2>1. CASE LoanStep BY <2>1, LoanKeeps
  <2>2. CASE Application!RevisePolicy \/ UNCHANGED applicationVars
    <3>1. UNCHANGED <<precedent, booked, task, refund, refunded>>
      BY <2>2, Zenon DEF Application!RevisePolicy, Application!loanVars, applicationVars
    <3> QED BY <3>1, LoanStands
  <2> QED BY <2>1, <2>2
<1>3. ApprovalsOK' BY <1>1 DEF ApprovalsOK, Application!Makers, Application!Count
<1>4. RequestsCurrent' BY <1>1 DEF RequestsCurrent, Current, Application!Makers, Application!Count
<1>5. request' \in [Calls -> RequestType] BY <1>1 DEF RequestsCurrent
<1>6. StatementsOK' /\ RequestsFiled' BY <1>1, <1>2, <1>5, StatementsStand
<1>7. BookedTogether' BY <1>1, <1>2 DEF BookedTogether
<1> QED BY <1>2, <1>3, <1>4, <1>6, <1>7

\* Every step keeps all of it.
LEMMA AppStepKeeps == ASSUME AppOK, [Application!Next]_applicationVars PROVE AppOK'
<1>1. ASSUME NEW c \in Calls,
             \/ AppStep(c) \/ ReadStep(c)
             \/ Application!CheckApplication(c) \/ Application!WriteStatement(c)
             \/ Application!WriteAccepted(c) \/ Application!WriteCondition(c)
             \/ Application!RollBack(c)
      PROVE  AppOK'
  BY <1>1, ReadKeeps, RequestKeeps
<1>2. CASE LoanStep \/ Application!RevisePolicy \/ UNCHANGED applicationVars BY <1>2, OthersKeep
<1> QED BY <1>1, <1>2, Zenon DEF Application!Next, AppStep, ReadStep, LoanStep

\* An application that nobody has submitted.
LEMMA AppInit == ASSUME Application!Init PROVE AppOK
<1>1. Application!Made = {} /\ Application!Live = {}
  BY DEF Application!Init, Application!Made, Application!Live, Application!NoStatement
<1>2. /\ app \in ApplicationType /\ app.status = "DRAFT" /\ policy = 1
      /\ approvals = [u \in Officers |-> 0]
  BY DEF Application!Init, ApplicationType
<1>3. ApprovalsOK BY <1>2 DEF ApprovalsOK
<1>4. request \in [Calls -> RequestType] /\ \A c \in Calls : request[c] = Application!Idle
  BY IdleRequest DEF Application!Init
<1>5. RequestsCurrent BY <1>4, IdleRequest DEF RequestsCurrent, Current
<1>6. RequestsFiled BY <1>4, IdleRequest DEF RequestsFiled, Filed
<1>7. booked.status = "NONE" BY DEF Application!Init
<1>8. StatementsOK
  <2>1. Application!NoStatement \in StatementType
    BY DEF Application!NoStatement, StatementType, Hashes
  <2>2. statement \in [Statements -> StatementType] BY <2>1 DEF Application!Init
  <2>3. Application!Made = 1 .. 0 /\ 0 \in Nat BY <1>1
  <2> QED BY <1>1, <1>7, <2>2, <2>3 DEF StatementsOK, Application!BookedAsDisclosed
<1>9. PaidOutOK
  <2>1. booked \in BookedType /\ booked.held = 0 /\ booked.received = 0 /\ booked.recorded = 0
    BY DEF Application!Init, BookedType, Hashes
  <2>2. task \in TaskType /\ task.status = "NONE"
    BY DEF Application!Init, Application!NoTask, TaskType
  <2>3. refund \in RefundType BY DEF Application!Init, Application!NoRefund, RefundType
  <2>4. precedent.status \in {"NONE", "OUTSTANDING"} /\ refunded = 0 BY DEF Application!Init
  <2> QED BY <1>7, <2>1, <2>2, <2>3, <2>4 DEF PaidOutOK
<1>10. BookedTogether BY <1>7 DEF BookedTogether
<1> QED BY <1>3, <1>5, <1>6, <1>8, <1>9, <1>10 DEF AppOK

\* In every scene.
LEMMA AppInvariant == MCSpec => []AppOK
<1>1. MCInit => AppOK BY AppInit DEF MCInit
<1>2. AppOK /\ [MCNext]_allVars => AppOK'
  <2>1. [MCNext]_allVars => [Application!Next]_applicationVars BY DEF MCNext, ArrearsNext, allVars
  <2> QED BY <2>1, AppStepKeeps
<1> QED BY <1>1, <1>2, PTL DEF MCSpec

\* bookFromApplication, issue: a contract is made on the terms the customer
\* accepted, as they were when it was booked, and one statement is in force,
\* however many requests issue, accept and book at once.
THEOREM ContractsAreDisclosed == MCSpec => []ContractedAsDisclosed
<1>1. AppOK => ContractedAsDisclosed
  <2> SUFFICES ASSUME AppOK PROVE ContractedAsDisclosed OBVIOUS
  <2>1. Application!TypeOK
    <3>1. app \in ApplicationType /\ approvals \in [Officers -> {0, 1}]
      BY DEF AppOK, ApprovalsOK
    <3>2. approvals \in [Officers -> 0 .. 2] BY <3>1
    <3>3. \A k \in Statements :
            statement[k].status \in {"NONE", "ISSUED", "ACCEPTED", "SUPERSEDED", "BOOKED"}
      BY DEF AppOK, StatementsOK, StatementType
    <3>4. booked.held \in 0 .. booked.received
      BY DEF AppOK, PaidOutOK, BookedType
    <3>5. /\ precedent.status \in {"NONE", "OUTSTANDING", "SATISFIED", "WAIVED"}
          /\ booked.status \in {"NONE", "BOOKED", "ACTIVE"}
          /\ task.status \in {"NONE", "PENDING", "APPROVED", "REJECTED", "EXECUTED"}
          /\ refund.status \in {"NONE", "PENDING", "REJECTED", "EXECUTED"}
      BY DEF AppOK, PaidOutOK, BookedType, TaskType, RefundType
    <3> QED BY <3>1, <3>2, <3>3, <3>4, <3>5 DEF Application!TypeOK, ApplicationType
  <2>2. Application!OneStatementInForce
    <3>1. Application!Live = {} \/ \E k : Application!Live = {k}
      <4>1. \A j, k \in Application!Live : j = k BY DEF AppOK, StatementsOK
      <4> QED BY <4>1
    <3>2. Cardinality({}) = 0 /\ \A k : Cardinality({k}) = 1 BY FS_EmptySet, FS_Singleton
    <3>3. Cardinality(Application!Live) \in {0, 1} BY <3>1, <3>2, Zenon
    <3>4. Cardinality(Application!Live) <= 1 BY <3>3
    <3> QED BY <3>4, SameCount DEF Application!OneStatementInForce
  <2> QED
    BY <2>1, <2>2 DEF ContractedAsDisclosed, Application!ContractedAsDisclosed, AppOK, StatementsOK
<1> QED BY <1>1, AppInvariant, PTL

\* approve, executeDisbursement: whoever reads and writes an application at once,
\* it is approved by as many people as it needs, each once and none of them its
\* maker; and a loan is paid out by a second person, its condition resolved and
\* its down payment there and not paid back.
THEOREM DecisionsAreInOrder == MCSpec => []DecidedInOrder
<1>1. AppOK => DecidedInOrder
  <2> SUFFICES ASSUME AppOK PROVE DecidedInOrder OBVIOUS
  <2>1. Application!ApprovedByEnough
    <3>1. \A u \in Officers : approvals[u] <= (IF u \in Application!Makers THEN 0 ELSE 1)
      BY DEF AppOK, ApprovalsOK
    <3> QED BY <3>1 DEF AppOK, ApprovalsOK, Application!ApprovedByEnough
  <2>2. Application!PaidOutInOrder BY DEF AppOK, PaidOutOK, Application!PaidOutInOrder
  <2> QED BY <2>1, <2>2 DEF DecidedInOrder, Application!DecidedInOrder
<1> QED BY <1>1, AppInvariant, PTL

-----------------------------------------------------------------------------
(* A loan in arrears and those who chase it, of any record m of the constants *)
(* of Collections.  A review relies on what it found of a promise: its terms, *)
(* that it was on the record, and that every promise overdue on its date is   *)
(* still before it.  No step takes these away, so a decision written under    *)
(* the one condition that the promise is still pending is on time, and a      *)
(* review that ends left none overdue.  Money is a sum over receipts, and     *)
(* over demands: each step moves one term.                                    *)

\* A loan in arrears that can be: it owes something, days and stages are numbered,
\* receipts are numbered and few, and so are demands few.
LegalLoan(m) ==
  /\ m.due \in Seq(Nat) /\ m.due # <<>> /\ m.from \in Seq(Nat)
  /\ m.grace \in Nat /\ m.ahead \in Nat /\ m.backdate \in Nat /\ m.lastDay \in Nat
  /\ m.guarantee \in Nat
  /\ m.receipts \in SUBSET Nat /\ IsFiniteSet(m.receipts)
  /\ IsFiniteSet(m.demands)

\* The loan: what was posted is no more than is owed, and all of it closes the loan.
LoanTyped(m) ==
  /\ debt \in {"ACTIVE", "CLOSED", "WRITTEN_OFF"}
  /\ receipt \in [m.receipts -> [status : {"NONE", "POSTED", "REVERSED"}, amount : Nat, on : Nat]]
  /\ \A r \in m.receipts : receipt[r].status # "NONE" => receipt[r].amount > 0

BalanceStands(m) ==
  /\ LoanTyped(m)
  /\ Arrears(m)!Outstanding \in Nat
  /\ (debt = "CLOSED") = (Arrears(m)!Outstanding = 0)

DatesStand(m) == day \in 0..m.lastDay /\ late \in 0..m.lastDay /\ claimed \in BOOLEAN

\* A sum over rows is the sum of a function.
SumOfAmounts(row, R) == MapThenSumSet(LAMBDA r : row[r].amount, R)

\* The two are the same recursion.
LEMMA SumOfRows ==
  ASSUME NEW S, NEW R \in SUBSET S, NEW row
  PROVE  SumOfAmounts(row, R) = SumOver([r \in S |-> row[r].amount], R)
<1> DEFINE f == [r \in S |-> row[r].amount]
           P(g) == g = [s \in SUBSET R |->
                          IF s = {} THEN 0 ELSE row[Pick(s)].amount + g[s \ {Pick(s)}]]
           Q(g) == g = [s \in SUBSET R |-> IF s = {} THEN 0 ELSE f[Pick(s)] + g[s \ {Pick(s)}]]
<1>1. \A g : P(g) <=> Q(g)
  <2> SUFFICES ASSUME NEW g
               PROVE  [s \in SUBSET R |->
                          IF s = {} THEN 0 ELSE row[Pick(s)].amount + g[s \ {Pick(s)}]]
                      = [s \in SUBSET R |-> IF s = {} THEN 0 ELSE f[Pick(s)] + g[s \ {Pick(s)}]]
    OBVIOUS
  <2>1. ASSUME NEW s \in SUBSET R, s # {} PROVE f[Pick(s)] = row[Pick(s)].amount
    <3>1. Pick(s) \in s BY <2>1 DEF Pick
    <3> QED BY <3>1
  <2> QED BY <2>1
<1> HIDE DEF P, Q
<1>2. (CHOOSE g : P(g)) = (CHOOSE g : Q(g)) BY <1>1, Zenon
<1>3. SumOfAmounts(row, R) = (CHOOSE g : P(g))[R]
  BY DEF SumOfAmounts, P, Pick, MapThenSumSet, MapThenFoldSet
<1>4. SumOver(f, R) = (CHOOSE g : Q(g))[R]
  BY SumIsRecursion DEF Q, SumOf, IsSum
<1> QED BY <1>2, <1>3, <1>4

\* The amounts of receipts.
Amounts(m) == [r \in m.receipts |-> receipt[r].amount]

\* What is owed is what the instalments come to less the receipts that are posted.
LEMMA AmountIsSum ==
  ASSUME NEW m, NEW R \in SUBSET m.receipts
  PROVE  /\ Arrears(m)!AmountOf(R) = SumOver(Amounts(m), R)
         /\ SumOfAmounts(receipt', R) = SumOver(Amounts(m)', R)
<1>1. Arrears(m)!AmountOf(R) = SumOfAmounts(receipt, R)
  BY DEF SumOfAmounts, Arrears!AmountOf, Arrears!MapThenSumSet, Arrears!MapThenFoldSet,
         MapThenSumSet, MapThenFoldSet
<1> QED BY <1>1, SumOfRows DEF Amounts

Paid(m) == SumOver(Amounts(m), Arrears(m)!Posted)

\* So the balance is the instalments less that sum, before a step and after it.
LEMMA OwedIsRest ==
  ASSUME NEW m
  PROVE  /\ Arrears(m)!Outstanding = Len(m.due) - Paid(m)
         /\ Arrears(m)!Outstanding' = Len(m.due) - Paid(m)'
<1>1. Arrears(m)!Posted \in SUBSET m.receipts /\ Arrears(m)!Posted' \in SUBSET m.receipts
  BY DEF Arrears!Posted
<1>2. Arrears(m)!AmountOf(Arrears(m)!Posted) = Paid(m) BY <1>1, AmountIsSum DEF Paid
<1>3. Arrears(m)!AmountOf(Arrears(m)!Posted)' = Paid(m)'
  <2>1. Arrears(m)!AmountOf(Arrears(m)!Posted)' = SumOfAmounts(receipt', Arrears(m)!Posted')
    BY DEF SumOfAmounts, Arrears!AmountOf, Arrears!MapThenSumSet, Arrears!MapThenFoldSet,
           MapThenSumSet, MapThenFoldSet
  <2> QED BY <1>1, <2>1, AmountIsSum DEF Paid
<1> QED BY <1>2, <1>3 DEF Arrears!Outstanding

\* Where two functions have the same terms, they have the same sum.
LEMMA SameTerms ==
  ASSUME NEW S, IsFiniteSet(S), NEW f, NEW h, \A x \in S : f[x] \in Int /\ h[x] = f[x]
  PROVE  SumOver(f, S) \in Int /\ SumOver(h, S) = SumOver(f, S)
<1>1. Shifts(S, f, h, 0, 0) BY DEF Shifts
<1>2. SumOver(h, S) = SumOver(f, S) + 0 /\ SumOver(f, S) \in Int BY <1>1, OneTermMoves
<1> QED BY <1>2

\* A receipt that is posted is owed no more ...
LEMMA PostingPays ==
  ASSUME NEW m, LegalLoan(m), LoanTyped(m), NEW q \in m.receipts, NEW n \in Nat, NEW on,
         receipt[q].status = "NONE",
         receipt' = [receipt EXCEPT ![q] = [status |-> "POSTED", amount |-> n, on |-> on]]
  PROVE  Paid(m) \in Int /\ Paid(m)' = Paid(m) + n
<1> DEFINE P == Arrears(m)!Posted
           f == Amounts(m)
           h == Amounts(m)'
<1>1. P \in SUBSET m.receipts /\ IsFiniteSet(P) /\ q \notin P
  BY FS_Subset DEF LegalLoan, Arrears!Posted
<1>2. Arrears(m)!Posted' = P \cup {q} BY DEF Arrears!Posted, LoanTyped
<1>3. \A x \in P : f[x] \in Int /\ h[x] = f[x] BY <1>1 DEF LoanTyped, Amounts
<1>4. h[q] = n /\ \A x \in P \cup {q} : h[x] \in Int BY <1>1, <1>3 DEF LoanTyped, Amounts
<1>5. SumOver(f, P) \in Int /\ SumOver(h, P) = SumOver(f, P) BY <1>1, <1>3, SameTerms
<1>6. IsFiniteSet(P \cup {q}) /\ (P \cup {q}) \ {q} = P BY <1>1, FS_AddElement
<1>7. SumOver(h, P \cup {q}) = h[q] + SumOver(h, P) BY <1>4, <1>6, OneTermLess
<1>8. Paid(m) = SumOver(f, P) /\ Paid(m)' = SumOver(h, P \cup {q}) BY <1>2 DEF Paid
<1> HIDE DEF P, f, h
<1> QED BY <1>4, <1>5, <1>7, <1>8

\* ... and one that is reversed is owed again.
LEMMA ReversalOwes ==
  ASSUME NEW m, LegalLoan(m), LoanTyped(m), NEW q \in m.receipts,
         receipt[q].status = "POSTED", receipt' = [receipt EXCEPT ![q].status = "REVERSED"]
  PROVE  Paid(m) \in Int /\ Paid(m)' = Paid(m) - receipt[q].amount
<1> DEFINE P == Arrears(m)!Posted
           f == Amounts(m)
<1>1. P \in SUBSET m.receipts /\ IsFiniteSet(P) /\ q \in P
  BY FS_Subset DEF LegalLoan, Arrears!Posted
<1>2. Arrears(m)!Posted' = P \ {q} BY DEF Arrears!Posted, LoanTyped
<1>3. f \in [m.receipts -> Int] /\ f[q] = receipt[q].amount BY DEF LoanTyped, Amounts
<1>4. Amounts(m)' = f BY DEF LoanTyped, Amounts
<1>5. SumOver(f, P) \in Int /\ SumOver(f, P \ {q}) \in Int
      /\ SumOver(f, P) = f[q] + SumOver(f, P \ {q})
  BY <1>1, <1>3, OneTermLess
<1>6. Paid(m) = SumOver(f, P) /\ Paid(m)' = SumOver(f, P \ {q}) BY <1>2, <1>4 DEF Paid
<1>7. f[q] \in Int BY <1>3
<1> HIDE DEF P, f
<1> QED BY <1>3, <1>5, <1>6, <1>7

\* The least of a set of numbers is one of them.
LEMMA LeastIsOne ==
  ASSUME NEW m, NEW S \in SUBSET Nat, S # {}
  PROVE  Arrears(m)!Min(S) \in S
<1>1. PICK x \in S : \A y \in S : ~(<<y, x>> \in OpToRel(<, Nat))
  BY NatLessThanWellFounded, WFMin, Zenon
<1>2. \A y \in S : ~(y < x) BY <1>1 DEF OpToRel
<1>3. \A y \in S : x <= y BY <1>2
<1> QED BY <1>3 DEF Arrears!Min

\* Posting a receipt leaves the loan in order.
LEMMA PostsKeepsLoan ==
  ASSUME NEW m, LegalLoan(m), BalanceStands(m), NEW n \in Nat \ {0}, NEW on \in Nat,
         Arrears(m)!Posts(n, on)
  PROVE  BalanceStands(m)'
<1> DEFINE S == {r \in m.receipts : receipt[r].status = "NONE"}
           q == Arrears(m)!Min(S)
<1>1. S \in SUBSET Nat /\ S # {} BY DEF Arrears!Posts, LegalLoan
<1>2. q \in S BY <1>1, LeastIsOne
<1>3. /\ receipt' = [receipt EXCEPT ![q] = [status |-> "POSTED", amount |-> n, on |-> on]]
      /\ n <= Arrears(m)!Outstanding /\ debt = "ACTIVE"
      /\ debt' = IF n = Arrears(m)!Outstanding THEN "CLOSED" ELSE debt
  BY DEF Arrears!Posts
<1> HIDE DEF q
<1>4. q \in m.receipts /\ receipt[q].status = "NONE" BY <1>2
<1>5. Paid(m) \in Int /\ Paid(m)' = Paid(m) + n BY <1>3, <1>4, PostingPays DEF BalanceStands
<1>6. LoanTyped(m)' BY <1>3, <1>4 DEF BalanceStands, LoanTyped
<1>7. Arrears(m)!Outstanding' = Arrears(m)!Outstanding - n
  BY <1>5, OwedIsRest DEF LegalLoan
<1> QED BY <1>3, <1>6, <1>7 DEF BalanceStands

\* A reversal does too: the loan owes again, and is active.
LEMMA ReversalKeepsLoan ==
  ASSUME NEW m, LegalLoan(m), BalanceStands(m), NEW q \in m.receipts,
         Arrears(m)!ReversePayment(q)
  PROVE  BalanceStands(m)'
<1>1. /\ receipt[q].status = "POSTED" /\ receipt' = [receipt EXCEPT ![q].status = "REVERSED"]
      /\ debt' = "ACTIVE"
  BY DEF Arrears!ReversePayment
<1>2. Paid(m) \in Int /\ Paid(m)' = Paid(m) - receipt[q].amount
  BY <1>1, ReversalOwes DEF BalanceStands
<1>3. LoanTyped(m)' BY <1>1 DEF BalanceStands, LoanTyped
<1>4. receipt[q].amount \in Nat \ {0} BY <1>1 DEF BalanceStands, LoanTyped
<1>5. Arrears(m)!Outstanding' = Arrears(m)!Outstanding + receipt[q].amount
  BY <1>2, <1>4, OwedIsRest DEF LegalLoan
<1> QED BY <1>1, <1>3, <1>4, <1>5 DEF BalanceStands

\* Nothing else touches it but a write-off, of a loan that owes something.
LEMMA WriteOffKeepsLoan ==
  ASSUME NEW m, BalanceStands(m), Arrears(m)!WriteOff
  PROVE  BalanceStands(m)'
<1>1. debt = "ACTIVE" /\ debt' = "WRITTEN_OFF" /\ receipt' = receipt BY DEF Arrears!WriteOff
<1>2. Paid(m)' = Paid(m) BY <1>1 DEF Paid, Amounts, Arrears!Posted
<1> QED BY <1>1, <1>2, OwedIsRest DEF BalanceStands, LoanTyped

\* Whatever leaves the loan and its receipts alone leaves them in order.
LEMMA LoanKept ==
  ASSUME NEW m, BalanceStands(m), UNCHANGED <<debt, receipt>>
  PROVE  BalanceStands(m)'
<1>1. Paid(m)' = Paid(m) BY DEF Paid, Amounts, Arrears!Posted
<1> QED BY <1>1, OwedIsRest DEF BalanceStands, LoanTyped

\* The tasks, and those that collectors have taken up.
Seats(m) == m.staff \cup {Nobody}

TasksStand(m) ==
  /\ chore \in [Arrears(m)!Tasks -> [status : {"NONE", "OPEN", "DONE", "CANCELLED"},
                                     to : Seats(m), by : Seats(m)]]
  /\ form \in [m.staff -> [stage : Nat, from : Nat, to : Seats(m), open : BOOLEAN]]
  /\ \A c \in m.staff : form[c].open =>
       <<form[c].stage, form[c].from>> \in {t \in Arrears(m)!Tasks : chore[t].status # "NONE"}

\* The promises, and what each review of them relies on: it is about to look at
\* every pending promise whose days were over, or has it in hand; and what it
\* found of that promise, whose terms stay, is so.
PromiseRows(m) ==
  [status : {"NONE", "PENDING", "KEPT", "BROKEN", "CANCELLED"}, amount : Nat, on : Nat,
   payBy : Nat, received : Int, task : 0..m.lastDay, chased : BOOLEAN]

PromisesTyped(m) ==
  /\ promise \in [m.promises -> PromiseRows(m)]
  /\ done \in Nat

Rows(m) ==
  [at : {"IDLE", "LOOP", "COUNTED", "DECIDED"}, on : 0..m.lastDay, left : SUBSET m.promises,
   p : m.promises \cup {0}, verdict : {"NONE", "KEPT", "BROKEN", "CANCELLED"}, received : Int,
   chase : BOOLEAN, found : BOOLEAN]

Passed(m, p, on) == promise[p].payBy + m.grace < on - 1

Found(m, w) ==
  /\ w.verdict # "NONE"
  /\ w.verdict = "KEPT" => w.received >= promise[w.p].amount
  /\ w.verdict = "BROKEN" => /\ w.received < promise[w.p].amount
                             /\ promise[w.p].payBy + m.grace < w.on
  /\ w.chase => w.verdict = "BROKEN"
  /\ w.found => chore[<<0, w.on>>].status # "NONE"

Trusts(m, w) ==
  w.at # "IDLE" =>
    /\ w.on <= day
    /\ \A p \in w.left : promise[p].status # "NONE"
    /\ \A p \in m.promises : promise[p].status = "PENDING" /\ Passed(m, p, w.on)
         => p \in w.left \/ (w.at # "LOOP" /\ p = w.p)
    /\ w.at # "LOOP" => w.p \in m.promises /\ promise[w.p].status # "NONE"
    /\ w.at = "DECIDED" => Found(m, w)

OnePending(m) ==
  \A p, q \in m.promises :
    promise[p].status = "PENDING" /\ promise[q].status = "PENDING" => p = q

PromisesStand(m) ==
  /\ PromisesTyped(m)
  /\ review \in [m.reviewers -> Rows(m)]
  /\ OnePending(m)
  /\ done <= day
  /\ \A p \in m.promises : promise[p].status = "PENDING" => ~Passed(m, p, done)
  /\ Arrears(m)!DecidedOnTime /\ Arrears(m)!FollowedUp
  /\ \A r \in m.reviewers : Trusts(m, review[r])

\* What no step does: take a task off the record, raise one of a broken promise
\* without the promise, change the terms of a promise, or record one overdue.
TasksStay(m) ==
  \A t \in Arrears(m)!Tasks : chore[t].status # "NONE" => chore'[t].status # "NONE"

RungsStay(m) ==
  \A d \in 0..m.lastDay : chore'[<<0, d>>].status # "NONE" => chore[<<0, d>>].status # "NONE"

TermsStay(m) ==
  \A p \in m.promises :
    /\ promise[p].status # "NONE" => /\ promise'[p].status # "NONE"
                                     /\ promise'[p].amount = promise[p].amount
                                     /\ promise'[p].payBy = promise[p].payBy
    /\ promise'[p].status = "PENDING" /\ promise[p].status # "PENDING" => promise'[p].payBy >= day - 1

\* What a review relies on survives any step that does none of these.
LEMMA TrustKept ==
  ASSUME NEW m, LegalLoan(m), DatesStand(m), day' \in Nat, day <= day', PromisesTyped(m),
         PromisesTyped(m)', TermsStay(m), TasksStay(m), NEW w \in Rows(m), Trusts(m, w)
  PROVE  Trusts(m, w)'
<1> SUFFICES ASSUME w.at # "IDLE" PROVE Trusts(m, w)' BY DEF Trusts
<1>1. w.on \in 0..m.lastDay /\ w.left \subseteq m.promises /\ w.on <= day /\ w.on \in Nat /\ day \in Nat
  BY DEF Rows, Trusts, LegalLoan, DatesStand
<1>2. <<0, w.on>> \in Arrears(m)!Tasks BY <1>1 DEF Arrears!Tasks, Arrears!Broken, Arrears!Days
<1>3. \A p \in m.promises : promise[p].payBy \in Nat /\ promise'[p].payBy \in Nat /\ m.grace \in Nat
  BY DEF PromisesTyped, PromiseRows, LegalLoan
<1>4. \A p \in w.left : promise'[p].status # "NONE" BY <1>1 DEF TermsStay, Trusts
<1>5. ASSUME NEW p \in m.promises, promise'[p].status = "PENDING", Passed(m, p, w.on)'
      PROVE  p \in w.left \/ (w.at # "LOOP" /\ p = w.p)
  <2>1. CASE promise[p].status = "PENDING"
    <3>1. promise'[p].payBy = promise[p].payBy BY <2>1 DEF TermsStay
    <3>2. Passed(m, p, w.on) BY <1>5, <3>1 DEF Passed
    <3> QED BY <2>1, <3>2 DEF Trusts
  <2>2. CASE promise[p].status # "PENDING"
    <3>1. promise'[p].payBy >= day - 1 BY <1>5, <2>2 DEF TermsStay
    <3> QED BY <1>1, <1>3, <1>5, <3>1 DEF Passed
  <2> QED BY <2>1, <2>2
<1>6. w.at # "LOOP" => w.p \in m.promises /\ promise[w.p].status # "NONE" BY DEF Trusts
<1>7. w.at # "LOOP" => w.p \in m.promises /\ promise'[w.p].status # "NONE" BY <1>6 DEF TermsStay
<1>8. w.at = "DECIDED" => Found(m, w)'
  <2> SUFFICES ASSUME w.at = "DECIDED" PROVE Found(m, w)' OBVIOUS
  <2>1. Found(m, w) /\ w.p \in m.promises /\ promise[w.p].status # "NONE" BY <1>6 DEF Trusts
  <2>2. promise'[w.p].amount = promise[w.p].amount /\ promise'[w.p].payBy = promise[w.p].payBy
    BY <2>1 DEF TermsStay
  <2>3. w.found => chore'[<<0, w.on>>].status # "NONE" BY <1>2, <2>1 DEF Found, TasksStay
  <2> QED BY <2>1, <2>2, <2>3 DEF Found
<1>9. w.on <= day' BY <1>1
<1> QED BY <1>4, <1>5, <1>7, <1>8, <1>9 DEF Trusts

\* A promise that does not become pending keeps its distance from the last review.
LEMMA DeadlinesKept ==
  ASSUME NEW m, LegalLoan(m), DatesStand(m), PromisesStand(m), PromisesTyped(m)', TermsStay(m),
         done' = done, NEW p \in m.promises, promise'[p].status = "PENDING"
  PROVE  ~Passed(m, p, done)'
<1>1. day \in Nat /\ m.grace \in Nat BY DEF DatesStand, LegalLoan
<1>2. /\ done \in Nat /\ done <= day
      /\ promise[p].payBy \in Nat /\ promise'[p].payBy \in Nat
  BY DEF PromisesStand, PromisesTyped, PromiseRows
<1>3. CASE promise[p].status = "PENDING"
  BY <1>1, <1>2, <1>3 DEF TermsStay, PromisesStand, Passed
<1>4. CASE promise[p].status # "PENDING"
  BY <1>1, <1>2, <1>4 DEF TermsStay, Passed
<1> QED BY <1>3, <1>4

\* Where promises and reviews stay, so does what is said of them, ...
LEMMA PromisesKept ==
  ASSUME NEW m, LegalLoan(m), DatesStand(m), PromisesStand(m), UNCHANGED <<promise, review, done>>,
         day' \in Nat, day <= day', TasksStay(m), RungsStay(m)
  PROVE  PromisesStand(m)'
<1>1. PromisesTyped(m)' BY DEF PromisesStand, PromisesTyped, PromiseRows
<1>2. TermsStay(m) BY DEF TermsStay
<1>3. ASSUME NEW r \in m.reviewers PROVE Trusts(m, review[r])'
  <2>1. review[r] \in Rows(m) /\ Trusts(m, review[r]) BY DEF PromisesStand
  <2>2. PromisesTyped(m) BY DEF PromisesStand
  <2>3. \A w \in Rows(m) : Trusts(m, w) => Trusts(m, w)' BY <1>1, <1>2, <2>2, TrustKept
  <2> QED BY <2>1, <2>3 DEF Trusts, Found, Passed
<1>4. Arrears(m)!DecidedOnTime'
  <2>1. Arrears(m)!DecidedOnTime BY DEF PromisesStand
  <2>2. day \in Nat /\ m.grace \in Nat BY DEF DatesStand, LegalLoan
  <2>3. \A p \in m.promises : promise[p].payBy \in Nat BY DEF PromisesStand, PromisesTyped, PromiseRows
  <2> QED BY <2>1, <2>2, <2>3 DEF Arrears!DecidedOnTime, Arrears!Deadline
<1>5. Arrears(m)!FollowedUp'
  <2>1. Arrears(m)!FollowedUp BY DEF PromisesStand
  <2>2. \A d \in 0..m.lastDay : <<0, d>> \in Arrears(m)!Tasks
    BY DEF Arrears!Tasks, Arrears!Broken, Arrears!Days
  <2>3. ASSUME NEW p \in m.promises, promise[p].chased PROVE chore'[<<0, promise[p].task>>].status # "NONE"
    <3>1. promise[p].task \in 0..m.lastDay BY DEF PromisesStand, PromisesTyped, PromiseRows
    <3>2. chore[<<0, promise[p].task>>].status # "NONE"
      BY <2>1, <2>3 DEF Arrears!FollowedUp, Arrears!Broken
    <3> QED BY <2>2, <3>1, <3>2 DEF TasksStay
  <2> QED BY <2>1, <2>3 DEF Arrears!FollowedUp, RungsStay, Arrears!Broken, Arrears!Days
<1>6. done <= day' BY DEF PromisesStand, PromisesTyped, PromiseRows, DatesStand, LegalLoan
<1> QED BY <1>1, <1>3, <1>4, <1>5, <1>6, DeadlinesKept, <1>2 DEF PromisesStand, OnePending

\* ... and where one review moves, what is said of the others.
LEMMA ReviewMoves ==
  ASSUME NEW m, PromisesStand(m), UNCHANGED <<day, promise, done, chore>>,
         NEW r \in m.reviewers, NEW w \in Rows(m), review' = [review EXCEPT ![r] = w], Trusts(m, w)
  PROVE  PromisesStand(m)'
<1>1. ASSUME NEW k \in m.reviewers PROVE Trusts(m, review[k])'
  <2>1. review'[k] = IF k = r THEN w ELSE review[k] BY DEF PromisesStand
  <2> QED BY <2>1 DEF PromisesStand, Trusts, Found, Passed
<1>2. review' \in [m.reviewers -> Rows(m)] BY DEF PromisesStand
<1>3. PromisesTyped(m)' /\ Arrears(m)!DecidedOnTime' /\ Arrears(m)!FollowedUp'
  BY DEF PromisesStand, PromisesTyped, PromiseRows, Arrears!DecidedOnTime, Arrears!FollowedUp, Arrears!Deadline
<1> QED BY <1>1, <1>2, <1>3 DEF PromisesStand, OnePending, Passed

\* Where promises move and reviews do not.
LEMMA PromisesMove ==
  ASSUME NEW m, LegalLoan(m), DatesStand(m), PromisesStand(m), UNCHANGED <<day, review, done>>,
         PromisesTyped(m)', TermsStay(m), TasksStay(m), OnePending(m)',
         Arrears(m)!DecidedOnTime', Arrears(m)!FollowedUp'
  PROVE  PromisesStand(m)'
<1>1. day' \in Nat /\ day <= day' BY DEF DatesStand, LegalLoan
<1>2. ASSUME NEW r \in m.reviewers PROVE Trusts(m, review[r])'
  <2>1. review[r] \in Rows(m) /\ Trusts(m, review[r]) BY DEF PromisesStand
  <2>2. PromisesTyped(m) BY DEF PromisesStand
  <2>3. \A w \in Rows(m) : Trusts(m, w) => Trusts(m, w)' BY <1>1, <2>2, TrustKept
  <2> QED BY <2>1, <2>3 DEF Trusts, Found, Passed
<1> QED BY <1>2, DeadlinesKept DEF PromisesStand

\* A promise is recorded for a day not yet past, over the one that is pending.
LEMMA RecordKeeps ==
  ASSUME NEW m, LegalLoan(m), DatesStand(m), PromisesStand(m), UNCHANGED <<day, review, done>>,
         TasksStay(m), RungsStay(m), Arrears(m)!RecordPromise
  PROVE  PromisesStand(m)'
<1>0. PICK n \in Arrears(m)!Sums, on \in Arrears(m)!Days : \E by \in on..(on + m.ahead), p \in m.promises :
        /\ day - 1 <= on /\ on <= day
        /\ promise[p].status = "NONE"
        /\ promise' = Arrears(m)!Recorded(p,
             [Arrears(m)!NoPromise EXCEPT !.status = "PENDING", !.amount = n, !.on = on,
                                          !.payBy = by])
  BY DEF Arrears!RecordPromise
<1>1. PICK by \in on..(on + m.ahead), p \in m.promises :
        /\ day - 1 <= on /\ on <= day
        /\ promise[p].status = "NONE"
        /\ promise' = Arrears(m)!Recorded(p,
             [Arrears(m)!NoPromise EXCEPT !.status = "PENDING", !.amount = n, !.on = on,
                                          !.payBy = by])
  BY <1>0
<1> DEFINE row == [Arrears(m)!NoPromise EXCEPT !.status = "PENDING", !.amount = n, !.on = on,
                                               !.payBy = by]
<1>3. /\ n \in Nat /\ on \in Nat /\ by \in Nat /\ on <= by /\ m.grace \in Nat /\ day \in Nat
      /\ 0 \in 0..m.lastDay
  BY DEF LegalLoan, DatesStand, Arrears!Sums, Arrears!Days
<1>2. row \in PromiseRows(m) /\ row.status = "PENDING" /\ row.payBy = by /\ row.chased = FALSE
  <2> DEFINE none == Arrears(m)!NoPromise
  <2>1. none \in PromiseRows(m) /\ none.chased = FALSE
    BY <1>3 DEF Arrears!NoPromise, PromiseRows
  <2> HIDE DEF none
  <2>2. [none EXCEPT !.status = "PENDING", !.amount = n, !.on = on, !.payBy = by] \in PromiseRows(m)
    BY <1>3, <2>1 DEF PromiseRows
  <2>3. row = [none EXCEPT !.status = "PENDING", !.amount = n, !.on = on, !.payBy = by]
    BY DEF none
  <2> QED BY <2>1, <2>2, <2>3 DEF PromiseRows
<1> HIDE DEF row
<1>4. promise' = [q \in m.promises |->
                    IF q = p THEN row
                    ELSE IF promise[q].status = "PENDING"
                         THEN [promise[q] EXCEPT !.status = "CANCELLED"] ELSE promise[q]]
  BY <1>1 DEF Arrears!Recorded, Arrears!Pending, row
<1>5. PromisesTyped(m)' BY <1>2, <1>4 DEF PromisesStand, PromisesTyped, PromiseRows
<1>6. TermsStay(m) BY <1>1, <1>2, <1>3, <1>4 DEF TermsStay, PromisesStand, PromisesTyped, PromiseRows
<1>7. OnePending(m)' BY <1>4 DEF OnePending, PromisesStand, PromisesTyped, PromiseRows
<1>8. ASSUME NEW q \in m.promises
      PROVE  /\ promise'[q].status \in {"KEPT", "BROKEN"} => promise'[q] = promise[q]
             /\ promise[q].status = "BROKEN" => promise'[q] = promise[q]
             /\ promise'[q].chased => promise[q].chased
  <2>1. CASE q = p BY <1>1, <1>2, <1>4, <2>1
  <2>2. CASE q # p /\ promise[q].status # "PENDING" BY <1>4, <2>2
  <2>3. CASE q # p /\ promise[q].status = "PENDING"
    <3>1. promise'[q] = [promise[q] EXCEPT !.status = "CANCELLED"] BY <1>4, <2>3
    <3> QED BY <2>3, <3>1 DEF PromisesStand, PromisesTyped, PromiseRows
  <2> QED BY <2>1, <2>2, <2>3
<1>9. Arrears(m)!DecidedOnTime'
  <2>1. Arrears(m)!DecidedOnTime BY DEF PromisesStand
  <2> QED BY <1>8, <2>1 DEF Arrears!DecidedOnTime, Arrears!Deadline
<1>10. Arrears(m)!FollowedUp BY DEF PromisesStand
<1>11. \A q \in m.promises : promise[q].chased => promise[q].status = "BROKEN" /\ promise'[q] = promise[q]
  BY <1>1, <1>8, <1>10 DEF Arrears!FollowedUp
<1>12. \A q \in m.promises : promise'[q].chased => promise[q].chased /\ promise'[q] = promise[q]
  BY <1>8, <1>11
<1>13. Arrears(m)!FollowedUp'
  <2>1. \A d \in 0..m.lastDay : <<0, d>> \in Arrears(m)!Tasks
    BY DEF Arrears!Tasks, Arrears!Broken, Arrears!Days
  <2>2. ASSUME NEW q \in m.promises, promise'[q].chased
        PROVE  promise'[q].status = "BROKEN" /\ chore'[<<0, promise'[q].task>>].status # "NONE"
    <3>1. promise[q].chased /\ promise'[q] = promise[q] BY <1>12, <2>2
    <3>2. promise[q].task \in 0..m.lastDay BY DEF PromisesStand, PromisesTyped, PromiseRows
    <3>3. promise[q].status = "BROKEN" /\ chore[<<0, promise[q].task>>].status # "NONE"
      BY <1>10, <3>1 DEF Arrears!FollowedUp, Arrears!Broken
    <3> QED BY <2>1, <3>1, <3>2, <3>3 DEF TasksStay
  <2>3. ASSUME NEW d \in 0..m.lastDay, chore'[<<0, d>>].status # "NONE"
        PROVE  \E q \in m.promises : promise'[q].chased /\ promise'[q].task = d
    <3>1. chore[<<0, d>>].status # "NONE" BY <2>3 DEF RungsStay
    <3>2. PICK q \in m.promises : promise[q].chased /\ promise[q].task = d
      BY <1>10, <3>1 DEF Arrears!FollowedUp, Arrears!Broken, Arrears!Days
    <3>3. promise'[q] = promise[q] BY <1>11, <3>2
    <3> QED BY <3>2, <3>3
  <2> QED BY <2>2, <2>3 DEF Arrears!FollowedUp, Arrears!Broken, Arrears!Days
<1> QED BY <1>5, <1>6, <1>7, <1>9, <1>13, PromisesMove

\* A promise that is withdrawn keeps its terms.
LEMMA WithdrawKeeps ==
  ASSUME NEW m, LegalLoan(m), DatesStand(m), PromisesStand(m), UNCHANGED <<day, review, done, chore>>,
         NEW p \in m.promises, promise[p].status = "PENDING",
         promise' = [promise EXCEPT ![p].status = "CANCELLED"]
  PROVE  PromisesStand(m)'
<1>1. \A q \in m.promises :
        promise'[q] = IF q = p THEN [promise[q] EXCEPT !.status = "CANCELLED"] ELSE promise[q]
  BY DEF PromisesStand, PromisesTyped, PromiseRows
<1>2. PromisesTyped(m)' BY DEF PromisesStand, PromisesTyped, PromiseRows
<1>3. TermsStay(m) BY <1>1 DEF TermsStay, PromisesStand, PromisesTyped, PromiseRows
<1>4. TasksStay(m) BY DEF TasksStay
<1>5. OnePending(m)' BY <1>1 DEF OnePending, PromisesStand, PromisesTyped, PromiseRows
<1>6. Arrears(m)!DecidedOnTime'
  BY <1>1 DEF PromisesStand, PromisesTyped, PromiseRows, Arrears!DecidedOnTime, Arrears!Deadline
<1>7. Arrears(m)!FollowedUp /\ ~promise[p].chased BY DEF PromisesStand, Arrears!FollowedUp
<1>8. \A q \in m.promises :
        /\ promise'[q].chased = promise[q].chased /\ promise'[q].task = promise[q].task
        /\ promise[q].chased => promise'[q].status = promise[q].status
  BY <1>1, <1>7 DEF PromisesStand, PromisesTyped, PromiseRows
<1>9. Arrears(m)!FollowedUp' BY <1>7, <1>8 DEF Arrears!FollowedUp
<1> QED BY <1>2, <1>3, <1>4, <1>5, <1>6, <1>9, PromisesMove

\* The money counted for a promise is a number.
LEMMA CountIsNumber ==
  ASSUME NEW m, LegalLoan(m), BalanceStands(m), NEW p
  PROVE  Arrears(m)!AmountOf(Arrears(m)!InWindow(p)) \in Int
<1> DEFINE W == Arrears(m)!InWindow(p)
<1>1. W \in SUBSET m.receipts /\ IsFiniteSet(W)
  BY FS_Subset DEF Arrears!InWindow, Arrears!Posted, LegalLoan
<1>2. \A x \in W : Amounts(m)[x] \in Int BY <1>1 DEF BalanceStands, LoanTyped, Amounts
<1>3. Arrears(m)!AmountOf(W) = SumOver(Amounts(m), W) BY <1>1, AmountIsSum
<1>4. SumOver(Amounts(m), W) \in Int BY <1>1, <1>2, SameTerms
<1> QED BY <1>3, <1>4

\* A review begins with every promise that is pending.
LEMMA BeginsKeeps ==
  ASSUME NEW m, LegalLoan(m), DatesStand(m), PromisesStand(m), NEW r \in m.reviewers,
         Arrears(m)!Begins(r), UNCHANGED <<day, promise, done, chore>>
  PROVE  PromisesStand(m)'
<1> DEFINE w == [Arrears(m)!Idle EXCEPT !.at = "LOOP", !.on = day, !.left = Arrears(m)!Pending]
<1>1. review' = [review EXCEPT ![r] = w] BY DEF Arrears!Begins
<1>2. Arrears(m)!Pending \in SUBSET m.promises /\ day \in 0..m.lastDay /\ day \in Nat
  BY DEF Arrears!Pending, DatesStand, LegalLoan
<1>3. w \in Rows(m) /\ w.at = "LOOP" /\ w.on = day /\ w.left = Arrears(m)!Pending
  <2> DEFINE none == Arrears(m)!Idle
  <2>1. none \in Rows(m) BY <1>2 DEF Arrears!Idle, Rows, LegalLoan
  <2> HIDE DEF none
  <2>2. [none EXCEPT !.at = "LOOP", !.on = day, !.left = Arrears(m)!Pending] \in Rows(m)
    BY <1>2, <2>1 DEF Rows
  <2>3. w = [none EXCEPT !.at = "LOOP", !.on = day, !.left = Arrears(m)!Pending] BY DEF none
  <2> QED BY <2>1, <2>2, <2>3 DEF Rows
<1> HIDE DEF w
<1>4. Trusts(m, w) BY <1>2, <1>3 DEF Trusts, Arrears!Pending
<1> QED BY <1>1, <1>3, <1>4, ReviewMoves

\* It looks at one promise after the other, ...
LEMMA CountKeeps ==
  ASSUME NEW m, LegalLoan(m), DatesStand(m), BalanceStands(m), PromisesStand(m), NEW r \in m.reviewers,
         NEW p \in m.promises, Arrears(m)!Count(r, p)
  PROVE  PromisesStand(m)'
<1> DEFINE o == review[r]
           rest == [o EXCEPT !.left = @ \ {p}]
           n == Arrears(m)!AmountOf(Arrears(m)!InWindow(p))
           full == [rest EXCEPT !.at = "COUNTED", !.p = p, !.received = n]
           w == IF promise[p].status = "PENDING" THEN full ELSE rest
<1>1. /\ o.at = "LOOP" /\ p \in o.left /\ review' = [review EXCEPT ![r] = w]
      /\ UNCHANGED <<day, promise, done, chore>>
  BY DEF Arrears!Count, Arrears!Pending, Arrears!taskVars
<1>2. n \in Int BY CountIsNumber
<1>3. o \in Rows(m) /\ Trusts(m, o) BY DEF PromisesStand
<1> HIDE DEF o, n
<1>4. rest \in Rows(m) /\ rest.at = "LOOP" /\ rest.on = o.on /\ rest.left = o.left \ {p}
  BY <1>1, <1>3 DEF Rows
<1> HIDE DEF rest
<1>5. full \in Rows(m) /\ full.at = "COUNTED" /\ full.on = o.on /\ full.left = o.left \ {p} /\ full.p = p
  BY <1>2, <1>4 DEF Rows
<1> HIDE DEF full
<1>6. w \in Rows(m) BY <1>4, <1>5
<1>7. Trusts(m, w)
  <2>1. /\ o.on <= day
        /\ \A q \in o.left : promise[q].status # "NONE"
        /\ \A q \in m.promises : promise[q].status = "PENDING" /\ Passed(m, q, o.on) => q \in o.left
    BY <1>1, <1>3 DEF Trusts
  <2>2. CASE promise[p].status = "PENDING" BY <1>1, <1>5, <2>1, <2>2 DEF Trusts
  <2>3. CASE promise[p].status # "PENDING" BY <1>1, <1>4, <2>1, <2>3 DEF Trusts
  <2> QED BY <2>2, <2>3
<1> HIDE DEF w
<1> QED BY <1>1, <1>6, <1>7, ReviewMoves

\* A review that goes on to the next promise relies on what it did.
LEMMA AgainTrusts ==
  ASSUME NEW m, LegalLoan(m), DatesStand(m), PromisesStand(m), NEW r \in m.reviewers,
         review[r].at # "IDLE"
  PROVE  /\ Arrears(m)!Again(r) \in Rows(m)
         /\ Arrears(m)!Again(r).at = "LOOP" /\ Arrears(m)!Again(r).on = review[r].on
         /\ Arrears(m)!Again(r).left = review[r].left
<1>1. review[r].on \in 0..m.lastDay /\ review[r].left \in SUBSET m.promises
  BY DEF PromisesStand, Rows
<1> DEFINE none == Arrears(m)!Idle
           w == [none EXCEPT !.at = "LOOP", !.on = review[r].on, !.left = review[r].left]
<1>2. none \in Rows(m) BY <1>1 DEF Arrears!Idle, Rows, LegalLoan
<1>3. Arrears(m)!Again(r) = w BY DEF Arrears!Again
<1> HIDE DEF none
<1>4. w \in Rows(m) /\ w.at = "LOOP" /\ w.on = review[r].on /\ w.left = review[r].left
  BY <1>1, <1>2 DEF Rows
<1> QED BY <1>3, <1>4

\* ... leaves it alone when its days are not over, ...
LEMMA JudgeKeeps ==
  ASSUME NEW m, LegalLoan(m), DatesStand(m), PromisesStand(m), NEW r \in m.reviewers,
         Arrears(m)!Judge(r)
  PROVE  PromisesStand(m)'
<1> DEFINE o == review[r]
           v == Arrears(m)!Verdict(o.p, o.received, o.on)
           chase == v = "BROKEN" /\ Arrears(m)!Dpd(o.on) > 0
           found == chore[<<0, o.on>>].status # "NONE"
           judged == [o EXCEPT !.at = "DECIDED", !.verdict = v, !.chase = chase, !.found = found]
           w == IF v = "NONE" THEN Arrears(m)!Again(r) ELSE judged
<1>1. /\ o.at = "COUNTED" /\ review' = [review EXCEPT ![r] = w]
      /\ UNCHANGED <<day, promise, done, chore>>
  BY DEF Arrears!Judge, Arrears!Broken, Arrears!taskVars, PromisesStand
<1>2. o \in Rows(m) /\ Trusts(m, o) BY DEF PromisesStand
<1>3. /\ o.p \in m.promises /\ promise[o.p].status # "NONE"
      /\ promise[o.p].payBy \in Nat /\ m.grace \in Nat /\ promise[o.p].amount \in Nat
      /\ o.on \in Nat /\ o.received \in Int
  <2>1. o.p \in m.promises /\ promise[o.p].status # "NONE" BY <1>1, <1>2 DEF Trusts
  <2>2. promise[o.p] \in PromiseRows(m) BY <2>1 DEF PromisesStand, PromisesTyped
  <2>3. m.grace \in Nat BY DEF LegalLoan
  <2>4. o.on \in Nat /\ o.received \in Int BY <1>2 DEF Rows, LegalLoan
  <2> HIDE DEF o
  <2> QED BY <2>1, <2>2, <2>3, <2>4 DEF PromiseRows
<1>4. /\ v \in {"NONE", "KEPT", "BROKEN", "CANCELLED"}
      /\ v = "KEPT" => o.received >= promise[o.p].amount
      /\ v = "BROKEN" => o.received < promise[o.p].amount /\ promise[o.p].payBy + m.grace < o.on
      /\ v = "NONE" => o.on <= promise[o.p].payBy + m.grace
  BY <1>3 DEF Arrears!Verdict, Arrears!Deadline
<1>5. chase \in BOOLEAN /\ (chase => v = "BROKEN") /\ found \in BOOLEAN OBVIOUS
<1> HIDE DEF chase, v
<1>6. CASE v = "NONE"
  <2>1. w = Arrears(m)!Again(r) BY <1>6
  <2> HIDE DEF w
  <2>2. w \in Rows(m) /\ w.at = "LOOP" /\ w.on = o.on /\ w.left = o.left
    BY <1>1, <2>1, AgainTrusts
  <2>3. ~Passed(m, o.p, o.on) BY <1>3, <1>4, <1>6 DEF Passed
  <2>4. Trusts(m, w) BY <1>1, <1>2, <2>2, <2>3 DEF Trusts
  <2> QED BY <1>1, <2>2, <2>4, ReviewMoves
<1>7. CASE v # "NONE"
  <2>1. w = judged BY <1>7
  <2> HIDE DEF o, found
  <2>2. judged \in Rows(m) BY <1>2, <1>4, <1>5 DEF Rows
  <2>3. /\ judged.at = "DECIDED" /\ judged.on = o.on /\ judged.left = o.left /\ judged.p = o.p
        /\ judged.received = o.received /\ judged.verdict = v /\ judged.chase = chase
        /\ judged.found = found
    BY <1>2 DEF Rows
  <2> HIDE DEF judged
  <2>4. Found(m, judged) BY <1>4, <1>5, <1>7, <2>3 DEF Found, found
  <2>5. Trusts(m, judged) BY <1>1, <1>2, <2>3, <2>4 DEF Trusts
  <2> QED BY <1>1, <2>1, <2>2, <2>5, ReviewMoves DEF o
<1> QED BY <1>6, <1>7

\* ... and may break off.
LEMMA FailKeeps ==
  ASSUME NEW m, LegalLoan(m), PromisesStand(m), NEW r \in m.reviewers, Arrears(m)!Fail(r)
  PROVE  PromisesStand(m)'
<1>1. review' = [review EXCEPT ![r] = Arrears(m)!Idle] /\ UNCHANGED <<day, promise, done, chore>>
  BY DEF Arrears!Fail, Arrears!taskVars
<1>2. Arrears(m)!Idle \in Rows(m) /\ Arrears(m)!Idle.at = "IDLE"
  BY DEF Arrears!Idle, Rows, LegalLoan
<1>3. Trusts(m, Arrears(m)!Idle) BY <1>2 DEF Trusts
<1> QED BY <1>1, <1>2, <1>3, ReviewMoves

\* The later of two dates is one of them, and no earlier than either.
LEMMA LaterDate ==
  ASSUME NEW m, NEW a \in Nat, NEW b \in Nat
  PROVE  Arrears(m)!Max({a, b}) = IF a <= b THEN b ELSE a
<1>1. CASE a <= b
  <2>1. b \in {a, b} /\ \A y \in {a, b} : b >= y BY <1>1
  <2> QED BY <1>1, <2>1 DEF Arrears!Max
<1>2. CASE ~(a <= b)
  <2>1. a \in {a, b} /\ \A y \in {a, b} : a >= y BY <1>2
  <2> QED BY <1>2, <2>1 DEF Arrears!Max
<1> QED BY <1>1, <1>2

\* A review that ends well has left no promise aside whose days were over.
LEMMA FinishKeeps ==
  ASSUME NEW m, LegalLoan(m), DatesStand(m), PromisesStand(m), NEW r \in m.reviewers,
         Arrears(m)!Finish(r)
  PROVE  PromisesStand(m)'
<1>1. /\ review[r].at = "LOOP" /\ review[r].left = {}
      /\ review' = [review EXCEPT ![r] = Arrears(m)!Idle]
      /\ done' = Arrears(m)!Max({done, review[r].on}) /\ UNCHANGED <<day, promise, chore>>
  BY DEF Arrears!Finish, Arrears!taskVars
<1>2. Arrears(m)!Idle \in Rows(m) /\ Arrears(m)!Idle.at = "IDLE"
  BY DEF Arrears!Idle, Rows, LegalLoan
<1>3. /\ done \in Nat /\ review[r].on \in Nat /\ review[r].on <= day /\ done <= day
  BY <1>1 DEF PromisesStand, PromisesTyped, Rows, LegalLoan, Trusts
<1>4. done' \in {done, review[r].on} /\ done' <= day BY <1>1, <1>3, LaterDate
<1>5. ASSUME NEW p \in m.promises, promise[p].status = "PENDING"
      PROVE  ~Passed(m, p, done) /\ ~Passed(m, p, review[r].on)
  BY <1>1, <1>5 DEF PromisesStand, Trusts
<1>6. \A p \in m.promises : promise'[p].status = "PENDING" => ~Passed(m, p, done)'
  BY <1>1, <1>4, <1>5 DEF Passed
<1>7. ASSUME NEW k \in m.reviewers PROVE Trusts(m, review[k])'
  <2>1. review'[k] = IF k = r THEN Arrears(m)!Idle ELSE review[k] BY <1>1 DEF PromisesStand
  <2>2. CASE k = r BY <1>2, <2>1, <2>2 DEF Trusts
  <2>3. CASE k # r
    <3>1. review'[k] = review[k] /\ Trusts(m, review[k]) BY <2>1, <2>3 DEF PromisesStand
    <3> QED BY <1>1, <3>1 DEF Trusts, Found, Passed
  <2> QED BY <2>2, <2>3
<1>8. review' \in [m.reviewers -> Rows(m)] BY <1>1, <1>2 DEF PromisesStand
<1>9. PromisesTyped(m)' BY <1>1, <1>3, <1>4 DEF PromisesStand, PromisesTyped
<1>10. Arrears(m)!DecidedOnTime' /\ Arrears(m)!FollowedUp'
  BY <1>1 DEF PromisesStand, Arrears!DecidedOnTime, Arrears!FollowedUp, Arrears!Deadline
<1>11. OnePending(m)' BY <1>1 DEF PromisesStand, OnePending
<1>12. done' <= day' BY <1>1, <1>4
<1> QED BY <1>6, <1>7, <1>8, <1>9, <1>10, <1>11, <1>12 DEF PromisesStand

\* The decision on a promise that is still pending, with the task it calls for.
LEMMA DecideKeeps ==
  ASSUME NEW m, LegalLoan(m), DatesStand(m), PromisesStand(m), TasksStand(m), NEW r \in m.reviewers,
         Arrears(m)!Decide(r)
  PROVE  PromisesStand(m)' /\ TasksStay(m) /\ \E d \in 0..m.lastDay :
           chore' = chore \/ chore' = [chore EXCEPT ![<<0, d>>].status = "OPEN"]
<1>o. PICK o : o = review[r] OBVIOUS
<1>a. PICK again : again = Arrears(m)!Again(r) OBVIOUS
<1> DEFINE p == o.p
           rung == <<0, o.on>>
           raises == o.chase /\ ~o.found
<1>1. o.at = "DECIDED" /\ review' = [review EXCEPT ![r] = again] /\ UNCHANGED <<day, done>>
  BY <1>o, <1>a DEF Arrears!Decide
<1>2. o \in Rows(m) /\ Trusts(m, o) /\ p \in m.promises /\ Found(m, o) /\ promise[p].status # "NONE"
      /\ o.on <= day
  BY <1>o, <1>1 DEF PromisesStand, Trusts
<1>3. /\ o.on \in 0..m.lastDay /\ 0 \in 0..m.lastDay /\ o.received \in Int
      /\ o.verdict \in {"KEPT", "BROKEN", "CANCELLED"} /\ o.chase \in BOOLEAN
      /\ rung \in Arrears(m)!Tasks
  BY <1>2 DEF Rows, Found, LegalLoan, Arrears!Tasks, Arrears!Broken, Arrears!Days
<1>4. again \in Rows(m) /\ again.at = "LOOP" /\ again.on = o.on /\ again.left = o.left
  BY <1>o, <1>a, <1>1, AgainTrusts
<1>5. CASE promise[p].status # "PENDING"
  <2>1. UNCHANGED <<promise, chore>> BY <1>o, <1>2, <1>5 DEF Arrears!Decide, Arrears!Pending
  <2>2. Trusts(m, again) BY <1>1, <1>2, <1>4, <1>5 DEF Trusts
  <2>3. PromisesStand(m)' BY <1>1, <1>4, <2>1, <2>2, ReviewMoves
  <2> QED BY <1>3, <2>1, <2>3 DEF TasksStay
<1>6. CASE promise[p].status = "PENDING"
  <2> DEFINE due == IF o.chase THEN o.on ELSE 0
             row == [promise[p] EXCEPT !.status = o.verdict, !.received = o.received,
                                       !.task = due, !.chased = o.chase]
  <2>1. /\ promise' = [promise EXCEPT ![p] = row]
        /\ chore' = IF raises THEN [chore EXCEPT ![rung].status = "OPEN"] ELSE chore
    BY <1>o, <1>2, <1>6
    DEF Arrears!Decide, Arrears!Pending, Arrears!Raises, Arrears!Rung, Arrears!Broken,
        PromisesStand, PromisesTyped
  <2>2. promise[p] \in PromiseRows(m) BY <1>2 DEF PromisesStand, PromisesTyped
  <2>3. due \in 0..m.lastDay BY <1>3
  <2> HIDE DEF due
  <2>4. /\ row \in PromiseRows(m) /\ row.status = o.verdict /\ row.received = o.received
        /\ row.task = due /\ row.chased = o.chase
        /\ row.amount = promise[p].amount /\ row.payBy = promise[p].payBy
    BY <1>3, <2>2, <2>3 DEF PromiseRows
  <2> HIDE DEF row
  <2>5. \A q \in m.promises : promise'[q] = IF q = p THEN row ELSE promise[q]
    BY <2>1 DEF PromisesStand, PromisesTyped
  <2>6. PromisesTyped(m)' BY <1>1, <2>1, <2>4 DEF PromisesStand, PromisesTyped
  <2>7. TermsStay(m) BY <1>2, <1>3, <1>6, <2>4, <2>5 DEF TermsStay
  <2>8. TasksStay(m)
    BY <1>3, <2>1 DEF TasksStay, TasksStand
  <2>9. day' \in Nat /\ day <= day' /\ PromisesTyped(m)
    BY <1>1 DEF DatesStand, LegalLoan, PromisesStand
  <2>10. \A w \in Rows(m) : Trusts(m, w) => Trusts(m, w)' BY <2>6, <2>7, <2>8, <2>9, TrustKept
  <2>11. Trusts(m, again)'
    <3>1. Trusts(m, o)' BY <1>2, <2>10
    <3>2. promise'[p].status # "PENDING" BY <1>2, <1>3, <2>4, <2>5
    <3> QED BY <1>1, <1>4, <3>1, <3>2 DEF Trusts
  <2>12. ASSUME NEW k \in m.reviewers PROVE Trusts(m, review[k])'
    <3>1. review'[k] = IF k = r THEN again ELSE review[k] BY <1>1 DEF PromisesStand
    <3>2. CASE k = r BY <2>11, <3>1, <3>2 DEF Trusts, Found, Passed
    <3>3. CASE k # r
      <4>1. review[k] \in Rows(m) /\ Trusts(m, review[k]) /\ review'[k] = review[k]
        BY <3>1, <3>3 DEF PromisesStand
      <4> QED BY <2>10, <4>1 DEF Trusts, Found, Passed
    <3> QED BY <3>2, <3>3
  <2>13. \A q \in m.promises : promise'[q].status = "PENDING" => q # p /\ promise'[q] = promise[q]
    BY <1>3, <2>4, <2>5
  <2>14. OnePending(m)' BY <2>13 DEF PromisesStand, OnePending
  <2>15. \A q \in m.promises : promise'[q].status = "PENDING" => ~Passed(m, q, done)'
    BY <1>1, <2>13 DEF PromisesStand, Passed
  <2>16. Arrears(m)!DecidedOnTime'
    <3>1. Arrears(m)!DecidedOnTime BY DEF PromisesStand
    <3>2. /\ row.status = "KEPT" => row.received >= row.amount
          /\ row.status = "BROKEN" => row.received < row.amount /\ row.payBy + m.grace < day
      <4>1. o.on \in Nat /\ day \in Nat /\ m.grace \in Nat /\ promise[p].payBy \in Nat
        BY <1>3, <2>2 DEF LegalLoan, DatesStand, PromiseRows
      <4> QED BY <1>2, <2>4, <4>1 DEF Found
    <3> QED BY <1>1, <2>5, <3>1, <3>2 DEF Arrears!DecidedOnTime, Arrears!Deadline
  <2>17. Arrears(m)!FollowedUp'
    <3>0. Arrears(m)!FollowedUp /\ ~promise[p].chased
      BY <1>2, <1>6 DEF PromisesStand, Arrears!FollowedUp
    <3>1. o.chase => chore'[rung].status # "NONE"
      <4>1. CASE raises BY <1>3, <2>1, <4>1 DEF TasksStand
      <4>2. CASE ~raises BY <1>2, <1>3, <2>8, <4>2 DEF Found, TasksStay
      <4> QED BY <4>1, <4>2
    <3>2. ASSUME NEW q \in m.promises, promise'[q].chased
          PROVE  promise'[q].status = "BROKEN" /\ chore'[<<0, promise'[q].task>>].status # "NONE"
      <4>1. CASE q = p BY <1>2, <2>4, <2>5, <3>1, <3>2, <4>1 DEF Found, due
      <4>2. CASE q # p
        <5>1. promise'[q] = promise[q] /\ promise[q].task \in 0..m.lastDay
          BY <2>5, <4>2 DEF PromisesStand, PromisesTyped, PromiseRows
        <5>2. promise[q].status = "BROKEN" /\ chore[<<0, promise[q].task>>].status # "NONE"
          BY <3>0, <3>2, <5>1 DEF Arrears!FollowedUp, Arrears!Broken
        <5>3. <<0, promise[q].task>> \in Arrears(m)!Tasks
          BY <5>1 DEF Arrears!Tasks, Arrears!Broken, Arrears!Days
        <5> QED BY <2>8, <5>1, <5>2, <5>3 DEF TasksStay
      <4> QED BY <4>1, <4>2
    <3>3. ASSUME NEW d \in 0..m.lastDay, chore'[<<0, d>>].status # "NONE"
          PROVE  \E q \in m.promises : promise'[q].chased /\ promise'[q].task = d
      <4>1. CASE chore[<<0, d>>].status # "NONE"
        <5>1. PICK q \in m.promises : promise[q].chased /\ promise[q].task = d
          BY <3>0, <4>1 DEF Arrears!FollowedUp, Arrears!Broken, Arrears!Days
        <5> QED BY <2>5, <3>0, <5>1
      <4>2. CASE chore[<<0, d>>].status = "NONE"
        <5>1. raises /\ <<0, d>> = rung
          BY <1>3, <2>1, <3>3, <4>2 DEF TasksStand
        <5> QED BY <1>2, <2>4, <2>5, <5>1 DEF due
      <4> QED BY <4>1, <4>2
    <3> QED BY <3>2, <3>3 DEF Arrears!FollowedUp, Arrears!Broken, Arrears!Days
  <2>18. review' \in [m.reviewers -> Rows(m)] BY <1>1, <1>4 DEF PromisesStand
  <2>19. done' <= day' BY <1>1 DEF PromisesStand
  <2>20. PromisesStand(m)'
    BY <2>6, <2>12, <2>14, <2>15, <2>16, <2>17, <2>18, <2>19 DEF PromisesStand
  <2>21. chore' = chore \/ chore' = [chore EXCEPT ![<<0, o.on>>].status = "OPEN"] BY <2>1
  <2> QED BY <1>3, <2>8, <2>20, <2>21
<1> QED BY <1>5, <1>6

\* The members of a sequence of numbers are numbers.
LEMMA NumbersInRow == ASSUME NEW s \in Seq(Nat) PROVE \A k \in 1..Len(s) : s[k] \in Nat
OBVIOUS

\* Days past due are days, and so is the first of them.
LEMMA ArrearsAreDays ==
  ASSUME NEW m, LegalLoan(m), day \in 0..m.lastDay
  PROVE  Arrears(m)!Dpd(day) \in 0..m.lastDay /\ day - Arrears(m)!Dpd(day) \in 0..m.lastDay
<1> DEFINE U == Arrears(m)!Unpaid(day)
           i == Arrears(m)!Min(U)
<1>1. U \in SUBSET (1..Len(m.due)) /\ \A k \in U : m.due[k] < day
  BY DEF Arrears!Unpaid, Arrears!Instalments, LegalLoan
<1>2. \A k \in U : m.due[k] \in Nat
  <2>1. \A k \in 1..Len(m.due) : m.due[k] \in Nat BY NumbersInRow DEF LegalLoan
  <2> HIDE DEF U
  <2> QED BY <1>1, <2>1
<1>3. Arrears(m)!Dpd(day) = IF U = {} THEN 0 ELSE day - m.due[i] BY DEF Arrears!Dpd
<1>4. U \in SUBSET Nat BY <1>1
<1> HIDE DEF U
<1>5. U # {} => i \in U BY <1>4, LeastIsOne
<1> HIDE DEF i
<1>6. U # {} => m.due[i] \in Nat /\ m.due[i] < day BY <1>1, <1>2, <1>5
<1>7. m.lastDay \in Nat BY DEF LegalLoan
<1> QED BY <1>3, <1>6, <1>7

\* The greatest of a set of numbers up to n is one of them.
LEMMA GreatestIsOne ==
  ASSUME NEW m, NEW n \in Nat, NEW S \in SUBSET (0..n), S # {}
  PROVE  Arrears(m)!Max(S) \in S
<1> DEFINE T == {k \in Nat : \E x \in S : k = n - x}
           l == Arrears(m)!Min(T)
<1>1. T \in SUBSET Nat /\ T # {}
  <2>1. PICK x \in S : TRUE OBVIOUS
  <2>2. n - x \in T BY <2>1
  <2> QED BY <2>2
<1>2. PICK k \in T : \A y \in T : ~(<<y, k>> \in OpToRel(<, Nat))
  BY <1>1, NatLessThanWellFounded, WFMin, Zenon
<1>3. PICK x \in S : k = n - x BY <1>2
<1>4. \A y \in T : ~(y < k) BY <1>1, <1>2 DEF OpToRel
<1>5. \A y \in S : n - y \in T OBVIOUS
<1>6. \A y \in S : x >= y
  <2> SUFFICES ASSUME NEW y \in S PROVE x >= y OBVIOUS
  <2>1. ~(n - y < n - x) BY <1>3, <1>4, <1>5
  <2> QED BY <2>1
<1> QED BY <1>3, <1>6 DEF Arrears!Max

\* The stage of a loan in arrears is one of the ladder, or none.
LEMMA StageIsStage ==
  ASSUME NEW m, LegalLoan(m), NEW dpd
  PROVE  Arrears(m)!Stage(dpd) \in {0} \cup DOMAIN m.from
<1> DEFINE S == {0} \cup {s \in DOMAIN m.from : m.from[s] <= dpd}
<1>1. Len(m.from) \in Nat /\ DOMAIN m.from = 1..Len(m.from) BY DEF LegalLoan
<1>2. S \in SUBSET (0..Len(m.from)) /\ S # {} BY <1>1
<1>3. Arrears(m)!Stage(dpd) = Arrears(m)!Max(S) BY DEF Arrears!Stage, Arrears!Stages, Arrears!Broken
<1> HIDE DEF S
<1>4. Arrears(m)!Max(S) \in S BY <1>1, <1>2, GreatestIsOne
<1> QED BY <1>3, <1>4 DEF S

TaskRows(m) == [status : {"NONE", "OPEN", "DONE", "CANCELLED"}, to : Seats(m), by : Seats(m)]

\* Where no task is taken off the record, those who took one up still have one.
LEMMA TasksMove ==
  ASSUME NEW m, TasksStand(m), chore' \in [Arrears(m)!Tasks -> TaskRows(m)], TasksStay(m),
         form' = form
  PROVE  TasksStand(m)'
BY DEF TasksStand, TasksStay, TaskRows

\* End of day clears the queues and raises the task of the stage.
LEMMA LadderKeeps ==
  ASSUME NEW m, LegalLoan(m), day \in 0..m.lastDay, TasksStand(m), chore' = Arrears(m)!Escalated
  PROVE  chore' \in [Arrears(m)!Tasks -> TaskRows(m)] /\ TasksStay(m) /\ RungsStay(m)
<1> DEFINE T == Arrears(m)!Tasks
           dpd == Arrears(m)!Dpd(day)
           stage == Arrears(m)!Stage(dpd)
           rung == <<stage, day - dpd>>
           C == Arrears(m)!Cleared
<1>1. dpd \in 0..m.lastDay /\ day - dpd \in 0..m.lastDay BY ArrearsAreDays
<1>2. stage \in {0} \cup DOMAIN m.from BY StageIsStage
<1>3. rung \in T
  BY <1>1, <1>2 DEF Arrears!Tasks, Arrears!Broken, Arrears!Days, Arrears!Stages
<1>4. C = [t \in T |-> IF chore[t].status = "OPEN" THEN [chore[t] EXCEPT !.status = "CANCELLED"]
                                                   ELSE chore[t]]
  BY DEF Arrears!Cleared
<1>5. \/ chore' = C \/ chore' = chore
      \/ stage # 0 /\ \E how \in {"DONE", "OPEN"} : chore' = [C EXCEPT ![rung].status = how]
  BY DEF Arrears!Escalated, Arrears!Broken
<1>6. \A d \in 0..m.lastDay : <<0, d>> \in T BY DEF Arrears!Tasks, Arrears!Broken, Arrears!Days
<1> HIDE DEF T, stage, dpd, C
<1>7. chore \in [T -> TaskRows(m)] BY DEF TasksStand, TaskRows, T
<1>8. C \in [T -> TaskRows(m)] /\ \A t \in T : C[t].status = "NONE" <=> chore[t].status = "NONE"
  BY <1>4, <1>7 DEF TaskRows
<1>9. CASE chore' = C \/ chore' = chore
  BY <1>6, <1>7, <1>8, <1>9 DEF TasksStay, RungsStay, T
<1>10. ASSUME stage # 0, NEW how \in {"DONE", "OPEN"}, chore' = [C EXCEPT ![rung].status = how]
       PROVE  chore' \in [T -> TaskRows(m)] /\ TasksStay(m) /\ RungsStay(m)
  <2>1. chore' \in [T -> TaskRows(m)] BY <1>3, <1>8, <1>10 DEF TaskRows
  <2>2. \A t \in T : chore'[t].status = IF t = rung THEN how ELSE C[t].status
    BY <1>3, <1>8, <1>10 DEF TaskRows
  <2>3. TasksStay(m) BY <1>8, <2>2 DEF TasksStay, T
  <2>4. \A d \in 0..m.lastDay : <<0, d>> # rung BY <1>10
  <2>5. RungsStay(m) BY <1>6, <1>8, <2>2, <2>4 DEF RungsStay
  <2> QED BY <2>1, <2>3, <2>5
<1> QED BY <1>5, <1>9, <1>10 DEF T

\* Collectors change tasks that are on the record.
LEMMA TaskOnRecord ==
  ASSUME NEW m, TasksStand(m), NEW t \in Arrears(m)!Tasks, chore[t].status # "NONE",
         NEW row \in TaskRows(m), row.status # "NONE", chore' = [chore EXCEPT ![t] = row]
  PROVE  chore' \in [Arrears(m)!Tasks -> TaskRows(m)] /\ TasksStay(m) /\ RungsStay(m)
<1>1. \A d \in 0..m.lastDay : <<0, d>> \in Arrears(m)!Tasks
  BY DEF Arrears!Tasks, Arrears!Broken, Arrears!Days
<1> QED BY <1>1 DEF TasksStand, TaskRows, TasksStay, RungsStay

\* A collector takes a task for himself, ...
LEMMA ClaimKeeps ==
  ASSUME NEW m, TasksStand(m), NEW c \in m.staff, NEW t \in Arrears(m)!Tasks, Arrears(m)!Claim(c, t)
  PROVE  TasksStand(m)' /\ TasksStay(m) /\ RungsStay(m)
<1> DEFINE row == [chore[t] EXCEPT !.to = c]
<1>1. chore[t].status = "OPEN" /\ chore' = [chore EXCEPT ![t] = row] /\ form' = form
  BY DEF Arrears!Claim, TasksStand
<1>2. row \in TaskRows(m) /\ row.status = "OPEN" BY <1>1 DEF TasksStand, TaskRows, Seats
<1> HIDE DEF row
<1> QED BY <1>1, <1>2, TaskOnRecord, TasksMove

\* ... reads one whose outcome he will record, ...
LEMMA TakeUpKeeps ==
  ASSUME NEW m, LegalLoan(m), TasksStand(m), NEW c \in m.staff, NEW t \in Arrears(m)!Tasks,
         Arrears(m)!TakeUp(c, t)
  PROVE  TasksStand(m)' /\ chore' = chore
<1> DEFINE row == [stage |-> t[1], from |-> t[2], to |-> chore[t].to, open |-> TRUE]
<1>1. chore[t].status = "OPEN" /\ form' = [form EXCEPT ![c] = row] /\ chore' = chore
  BY DEF Arrears!TakeUp
<1>2. t[1] \in Nat /\ t[2] \in Nat /\ t = <<t[1], t[2]>>
  BY DEF Arrears!Tasks, Arrears!Broken, Arrears!Days, Arrears!Stages, LegalLoan
<1>3. row \in [stage : Nat, from : Nat, to : Seats(m), open : BOOLEAN] BY <1>2 DEF TasksStand
<1>4. row.stage = t[1] /\ row.from = t[2] OBVIOUS
<1> HIDE DEF row
<1> QED BY <1>1, <1>2, <1>3, <1>4 DEF TasksStand

\* ... and is done with it.
LEMMA FormsMove ==
  ASSUME NEW m, TasksStand(m), NEW c \in m.staff, form' = [form EXCEPT ![c] = Arrears(m)!NoForm],
         chore' \in [Arrears(m)!Tasks -> TaskRows(m)], TasksStay(m)
  PROVE  TasksStand(m)'
<1>1. /\ Arrears(m)!NoForm \in [stage : Nat, from : Nat, to : Seats(m), open : BOOLEAN]
      /\ Arrears(m)!NoForm.open = FALSE
  BY DEF Arrears!NoForm, Arrears!Broken, Seats
<1> QED BY <1>1 DEF TasksStand, TasksStay, TaskRows

\* The outcome of a task, in the name of whom it was taken up for.
LEMMA OutcomeKeeps ==
  ASSUME NEW m, TasksStand(m), NEW c \in m.staff, form[c].open,
         form' = [form EXCEPT ![c] = Arrears(m)!NoForm],
         \/ chore' = chore
         \/ chore[Arrears(m)!Held(c)].status = "OPEN" /\ chore' = Arrears(m)!Completed(c)
  PROVE  TasksStand(m)' /\ TasksStay(m) /\ RungsStay(m)
<1> DEFINE t == Arrears(m)!Held(c)
           row == [status |-> "DONE", by |-> c, to |-> IF form[c].to = Nobody THEN c ELSE form[c].to]
<1>1. t \in Arrears(m)!Tasks /\ chore[t].status # "NONE" BY DEF TasksStand, Arrears!Held
<1>2. row \in TaskRows(m) /\ row.status = "DONE" BY DEF TasksStand, TaskRows, Seats
<1>3. CASE chore' = chore
  <2>1. chore' \in [Arrears(m)!Tasks -> TaskRows(m)] BY <1>3 DEF TasksStand, TaskRows
  <2>2. TasksStay(m) /\ RungsStay(m) BY <1>3 DEF TasksStay, RungsStay
  <2> QED BY <2>1, <2>2, FormsMove
<1>4. CASE chore' = Arrears(m)!Completed(c)
  <2>1. chore' = [chore EXCEPT ![t] = row] BY <1>4 DEF Arrears!Completed
  <2> HIDE DEF row, t
  <2>2. chore' \in [Arrears(m)!Tasks -> TaskRows(m)] /\ TasksStay(m) /\ RungsStay(m)
    BY <1>1, <1>2, <2>1, TaskOnRecord
  <2> QED BY <2>2, FormsMove
<1> QED BY <1>3, <1>4

\* The demands; and a payment under way is of a demand that stands, and for no more
\* than was demanded beyond what its maker saw paid.
DemandRows == [status : {"NONE", "OPEN", "PAID", "WITHDRAWN"}, amount : Nat, paid : Nat]
CallRows(m) == [demand : m.demands \cup {0}, seen : Nat, amount : Nat]

DemandsTyped(m) ==
  /\ demand \in [m.demands -> DemandRows]
  /\ payer \in [m.calls -> CallRows(m)]
  /\ posted \in [m.demands -> Nat]
  /\ \A d \in m.demands : demand[d].status = "NONE" => demand[d].amount = 0

Pays(m, w) ==
  w # Arrears(m)!NoCall =>
    /\ w.demand \in m.demands /\ demand[w.demand].status # "NONE"
    /\ w.amount > 0 /\ w.seen + w.amount <= demand[w.demand].amount

DemandsStand(m) ==
  /\ DemandsTyped(m)
  /\ Arrears(m)!DemandsAreCovered
  /\ \A k \in m.calls : Pays(m, payer[k])

\* The demands that count, and what they come to.
Standing(m) == {d \in m.demands : demand[d].status \notin {"NONE", "WITHDRAWN"}}
Asked(m) == SumOver([d \in m.demands |-> demand[d].amount], Standing(m))

\* What was demanded is that sum.
LEMMA DemandedIsSum ==
  ASSUME NEW m
  PROVE  Arrears(m)!Demanded = Asked(m) /\ Arrears(m)!Demanded' = Asked(m)'
<1>1. Standing(m) \in SUBSET m.demands /\ Standing(m)' \in SUBSET m.demands BY DEF Standing
<1>2. Arrears(m)!Demanded = SumOfAmounts(demand, Standing(m))
  BY DEF Standing, SumOfAmounts, Arrears!Demanded, Arrears!MapThenSumSet, Arrears!MapThenFoldSet,
         MapThenSumSet, MapThenFoldSet
<1>3. Arrears(m)!Demanded' = SumOfAmounts(demand', Standing(m)')
  BY DEF Standing, SumOfAmounts, Arrears!Demanded, Arrears!MapThenSumSet, Arrears!MapThenFoldSet,
         MapThenSumSet, MapThenFoldSet
<1> QED BY <1>1, <1>2, <1>3, SumOfRows DEF Asked

\* What is demanded is a number, and stays while the same demands stand with the
\* same amounts.
LEMMA AskedStays ==
  ASSUME NEW m, LegalLoan(m), DemandsTyped(m), Standing(m)' = Standing(m),
         \A d \in m.demands : demand'[d].amount = demand[d].amount
  PROVE  Asked(m) \in Int /\ Asked(m)' = Asked(m)
<1> DEFINE f == [d \in m.demands |-> demand[d].amount]
<1>1. Standing(m) \in SUBSET m.demands /\ IsFiniteSet(Standing(m))
  BY FS_Subset DEF LegalLoan, Standing
<1>2. \A d \in Standing(m) : f[d] \in Int BY <1>1 DEF DemandsTyped, DemandRows
<1>3. f' = f OBVIOUS
<1>4. SumOver(f, Standing(m)) \in Int BY <1>1, <1>2, SameTerms
<1>5. Asked(m) = SumOver(f, Standing(m)) /\ Asked(m)' = SumOver(f', Standing(m)') BY DEF Asked
<1> HIDE DEF f
<1> QED BY <1>3, <1>4, <1>5

\* So it does while no demand is written.
LEMMA DemandedStays ==
  ASSUME NEW m, LegalLoan(m), DemandsTyped(m), demand' = demand
  PROVE  Arrears(m)!Demanded' = Arrears(m)!Demanded
<1>1. Standing(m)' = Standing(m) BY DEF Standing
<1> QED BY <1>1, AskedStays, DemandedIsSum

\* Where demands and payments stay, so does what is said of them.
LEMMA DemandsKept ==
  ASSUME NEW m, LegalLoan(m), DemandsStand(m), UNCHANGED <<demand, payer, posted>>
  PROVE  DemandsStand(m)'
<1>1. DemandsTyped(m)' BY DEF DemandsStand, DemandsTyped
<1>2. Arrears(m)!Demanded' = Arrears(m)!Demanded BY DemandedStays DEF DemandsStand
<1>3. Arrears(m)!DemandsAreCovered' BY <1>2 DEF DemandsStand, Arrears!DemandsAreCovered
<1>4. ASSUME NEW k \in m.calls PROVE Pays(m, payer[k])'
  BY DEF DemandsStand, Pays, Arrears!NoCall
<1> QED BY <1>1, <1>3, <1>4 DEF DemandsStand

\* The least of two numbers is no more than either.
LEMMA LesserOfTwo ==
  ASSUME NEW m, NEW a \in Int, NEW b \in Int
  PROVE  Arrears(m)!Min({a, b}) \in Int /\ Arrears(m)!Min({a, b}) <= a /\ Arrears(m)!Min({a, b}) <= b
<1>1. CASE a <= b
  <2>1. a \in {a, b} /\ \A y \in {a, b} : a <= y BY <1>1
  <2> QED BY <1>1, <2>1 DEF Arrears!Min
<1>2. CASE ~(a <= b)
  <2>1. b \in {a, b} /\ \A y \in {a, b} : b <= y BY <1>2
  <2> QED BY <1>2, <2>1 DEF Arrears!Min
<1> QED BY <1>1, <1>2

\* A demand is issued within the guarantee.
LEMMA IssueKeeps ==
  ASSUME NEW m, LegalLoan(m), BalanceStands(m), DemandsStand(m), NEW d \in m.demands,
         Arrears(m)!IssueDemand(d)
  PROVE  DemandsStand(m)'
<1>1. PICK n \in 1..Arrears(m)!Cap :
        demand' = [demand EXCEPT ![d] = [status |-> "OPEN", amount |-> n, paid |-> 0]]
  BY DEF Arrears!IssueDemand
<1>2. demand[d].status = "NONE" /\ UNCHANGED <<payer, posted>> BY DEF Arrears!IssueDemand
<1> DEFINE S == Standing(m)
           f == [e \in m.demands |-> demand[e].amount]
           h == [e \in m.demands |-> demand'[e].amount]
<1>3. S \in SUBSET m.demands /\ IsFiniteSet(S) /\ d \notin S
  BY <1>2, FS_Subset DEF LegalLoan, Standing
<1>4. DemandsTyped(m) BY DEF DemandsStand
<1>5. Asked(m) \in Int
  <2>1. \A e \in S : f[e] \in Int BY <1>3, <1>4 DEF DemandsTyped, DemandRows
  <2> QED BY <1>3, <2>1, SameTerms DEF Asked
<1>6. n \in Nat /\ n > 0 /\ n <= m.guarantee - Asked(m)
  <2>1. Arrears(m)!Demanded = Asked(m) BY DemandedIsSum
  <2>2. m.guarantee - Asked(m) \in Int /\ Arrears(m)!Outstanding \in Int
    BY <1>5 DEF LegalLoan, BalanceStands
  <2>3. Arrears(m)!Cap \in Int /\ Arrears(m)!Cap <= m.guarantee - Asked(m)
    BY <2>1, <2>2, LesserOfTwo DEF Arrears!Cap
  <2> QED BY <1>5, <2>2, <2>3
<1>7. DemandsTyped(m)' BY <1>1, <1>2, <1>4, <1>6 DEF DemandsTyped, DemandRows
<1>8. \A e \in m.demands : demand'[e] = IF e = d THEN [status |-> "OPEN", amount |-> n, paid |-> 0]
                                                 ELSE demand[e]
  BY <1>1, <1>4 DEF DemandsTyped
<1>9. Asked(m)' = Asked(m) + n
  <2>1. Standing(m)' = S \cup {d} BY <1>8 DEF Standing
  <2>2. \A e \in S : f[e] \in Int /\ h[e] = f[e] BY <1>3, <1>4, <1>8 DEF DemandsTyped, DemandRows
  <2>3. h[d] = n /\ \A e \in S \cup {d} : h[e] \in Int
    <3>1. h[d] = demand'[d].amount /\ demand'[d].amount = n BY <1>8
    <3>2. n \in Int BY <1>6
    <3>3. h[d] = n BY <3>1, Zenon
    <3>4. \A e \in S : h[e] \in Int BY <2>2
    <3> HIDE DEF h, S
    <3> QED BY <3>2, <3>3, <3>4
  <2>4. SumOver(h, S) = SumOver(f, S) BY <1>3, <2>2, SameTerms
  <2>5. IsFiniteSet(S \cup {d}) /\ (S \cup {d}) \ {d} = S BY <1>3, FS_AddElement
  <2>6. SumOver(h, S \cup {d}) = h[d] + SumOver(h, S) BY <2>3, <2>5, OneTermLess
  <2>7. Asked(m) = SumOver(f, S) /\ Asked(m)' = SumOver(h, S \cup {d}) BY <2>1 DEF Asked
  <2> HIDE DEF S, f, h
  <2> QED BY <1>5, <1>6, <2>3, <2>4, <2>6, <2>7
<1>10. Arrears(m)!Demanded' <= m.guarantee
  BY <1>5, <1>6, <1>9, DemandedIsSum DEF LegalLoan
<1>11. posted[d] = 0
  BY <1>2, <1>4 DEF DemandsStand, Arrears!DemandsAreCovered, DemandsTyped, DemandRows
<1>12. Arrears(m)!DemandsAreCovered'
  BY <1>2, <1>6, <1>8, <1>10, <1>11 DEF DemandsStand, Arrears!DemandsAreCovered
<1>13. ASSUME NEW k \in m.calls PROVE Pays(m, payer[k])'
  BY <1>2, <1>8 DEF DemandsStand, Pays, Arrears!NoCall
<1> QED BY <1>7, <1>12, <1>13 DEF DemandsStand

\* A demand withdrawn frees what it asked of the guarantee.
LEMMA WithdrawDemandKeeps ==
  ASSUME NEW m, LegalLoan(m), DemandsStand(m), NEW d \in m.demands, Arrears(m)!WithdrawDemand(d)
  PROVE  DemandsStand(m)'
<1>1. /\ demand[d].status = "OPEN" /\ demand' = [demand EXCEPT ![d].status = "WITHDRAWN"]
      /\ UNCHANGED <<payer, posted>>
  BY DEF Arrears!WithdrawDemand
<1> DEFINE S == Standing(m)
           f == [e \in m.demands |-> demand[e].amount]
<1>2. S \in SUBSET m.demands /\ IsFiniteSet(S) /\ d \in S
  BY <1>1, FS_Subset DEF LegalLoan, Standing
<1>3. DemandsTyped(m) BY DEF DemandsStand
<1>4. DemandsTyped(m)' BY <1>1, <1>3 DEF DemandsTyped, DemandRows
<1>5. \A e \in m.demands : /\ demand'[e].amount = demand[e].amount /\ demand'[e].paid = demand[e].paid
                           /\ demand'[e].status = IF e = d THEN "WITHDRAWN" ELSE demand[e].status
  BY <1>1, <1>3 DEF DemandsTyped, DemandRows
<1>6. Arrears(m)!Demanded' <= m.guarantee
  <2>1. Standing(m)' = S \ {d} BY <1>5 DEF Standing
  <2>2. \A e \in S : f[e] \in Int BY <1>2, <1>3 DEF DemandsTyped, DemandRows
  <2>3. f' = f BY <1>5
  <2>4. /\ SumOver(f, S) \in Int /\ SumOver(f, S \ {d}) \in Int
        /\ SumOver(f, S) = f[d] + SumOver(f, S \ {d})
    BY <1>2, <2>2, OneTermLess
  <2>5. Asked(m) = SumOver(f, S) /\ Asked(m)' = SumOver(f', Standing(m)') BY DEF Asked
  <2>6. f[d] \in Nat BY <1>3 DEF DemandsTyped, DemandRows
  <2>7. Arrears(m)!Demanded <= m.guarantee BY DEF DemandsStand, Arrears!DemandsAreCovered
  <2> HIDE DEF S, f
  <2> QED BY <2>1, <2>3, <2>4, <2>5, <2>6, <2>7, DemandedIsSum DEF LegalLoan
<1>7. Arrears(m)!DemandsAreCovered'
  BY <1>1, <1>5, <1>6 DEF DemandsStand, Arrears!DemandsAreCovered
<1>8. ASSUME NEW k \in m.calls PROVE Pays(m, payer[k])'
  BY <1>1, <1>5 DEF DemandsStand, Pays, Arrears!NoCall
<1> QED BY <1>4, <1>7, <1>8 DEF DemandsStand

\* The guarantor's payment reads the demand, ...
LEMMA ReadDemandKeeps ==
  ASSUME NEW m, LegalLoan(m), DemandsStand(m), NEW k \in m.calls, NEW d \in m.demands,
         Arrears(m)!ReadDemand(k, d)
  PROVE  DemandsStand(m)'
<1>1. PICK n \in 1..(demand[d].amount - demand[d].paid) :
        payer' = [payer EXCEPT ![k] = [demand |-> d, seen |-> demand[d].paid, amount |-> n]]
  BY DEF Arrears!ReadDemand
<1>2. demand[d].status = "OPEN" /\ UNCHANGED <<demand, posted>> BY DEF Arrears!ReadDemand
<1>3. demand[d] \in DemandRows /\ DemandsTyped(m) BY DEF DemandsStand, DemandsTyped
<1>4. n \in Nat /\ n > 0 /\ demand[d].paid + n <= demand[d].amount BY <1>3 DEF DemandRows
<1>5. DemandsTyped(m)' BY <1>1, <1>2, <1>3, <1>4 DEF DemandsTyped, DemandRows, CallRows
<1>6. Arrears(m)!DemandsAreCovered'
  <2>1. Arrears(m)!Demanded' = Arrears(m)!Demanded BY <1>2, DemandedStays DEF DemandsStand
  <2> QED BY <1>2, <2>1 DEF DemandsStand, Arrears!DemandsAreCovered
<1>7. ASSUME NEW j \in m.calls PROVE Pays(m, payer[j])'
  <2>1. payer'[j] = IF j = k THEN [demand |-> d, seen |-> demand[d].paid, amount |-> n] ELSE payer[j]
    BY <1>1, <1>3 DEF DemandsTyped
  <2>2. CASE j = k
    <3>1. /\ payer'[j].demand = d /\ payer'[j].seen = demand[d].paid /\ payer'[j].amount = n
      BY <2>1, <2>2
    <3> QED BY <1>2, <1>4, <3>1 DEF Pays
  <2>3. CASE j # k BY <1>2, <2>1, <2>3 DEF DemandsStand, Pays, Arrears!NoCall
  <2> QED BY <2>2, <2>3
<1> QED BY <1>5, <1>6, <1>7 DEF DemandsStand

\* A payment that ends leaves the others under way.
LEMMA CallEnds ==
  ASSUME NEW m, DemandsTyped(m), NEW k \in m.calls, payer' = [payer EXCEPT ![k] = Arrears(m)!NoCall]
  PROVE  /\ payer' \in [m.calls -> CallRows(m)]
         /\ \A j \in m.calls : payer'[j] = Arrears(m)!NoCall \/ payer'[j] = payer[j]
<1>1. Arrears(m)!NoCall \in CallRows(m) BY DEF Arrears!NoCall, CallRows
<1> QED BY <1>1 DEF DemandsTyped

\* A payment given up leaves the demand as it is, ...
LEMMA GiveUpKeeps ==
  ASSUME NEW m, LegalLoan(m), DemandsStand(m), NEW k \in m.calls, Arrears(m)!GiveUp(k)
  PROVE  DemandsStand(m)'
<1>1. payer' = [payer EXCEPT ![k] = Arrears(m)!NoCall] /\ UNCHANGED <<demand, posted>>
  BY DEF Arrears!GiveUp
<1>2. DemandsTyped(m)' BY <1>1, CallEnds DEF DemandsStand, DemandsTyped
<1>3. Arrears(m)!DemandsAreCovered'
  <2>1. Arrears(m)!Demanded' = Arrears(m)!Demanded BY <1>1, DemandedStays DEF DemandsStand
  <2> QED BY <1>1, <2>1 DEF DemandsStand, Arrears!DemandsAreCovered
<1>4. ASSUME NEW j \in m.calls PROVE Pays(m, payer[j])'
  <2>1. payer'[j] = Arrears(m)!NoCall \/ payer'[j] = payer[j] BY <1>1, CallEnds DEF DemandsStand
  <2> QED BY <1>1, <2>1 DEF DemandsStand, Pays, Arrears!NoCall
<1> QED BY <1>2, <1>3, <1>4 DEF DemandsStand

\* ... and is posted on the loan and on the demand, or on neither.
LEMMA PayKeeps ==
  ASSUME NEW m, LegalLoan(m), DatesStand(m), BalanceStands(m), DemandsStand(m), NEW k \in m.calls,
         Arrears(m)!PayDemand(k)
  PROVE  BalanceStands(m)' /\ DemandsStand(m)'
<1>w. PICK w : w = payer[k] OBVIOUS
<1> DEFINE d == w.demand
           paid == w.seen + w.amount
<1>1. /\ w # Arrears(m)!NoCall
      /\ demand[d].status = "OPEN" /\ demand[d].paid = w.seen
      /\ Arrears(m)!Posts(w.amount, day)
      /\ demand' = [demand EXCEPT ![d].paid = paid,
                      ![d].status = IF paid >= demand[d].amount THEN "PAID" ELSE "OPEN"]
      /\ posted' = [posted EXCEPT ![d] = @ + w.amount]
      /\ payer' = [payer EXCEPT ![k] = Arrears(m)!NoCall]
  BY <1>w DEF Arrears!PayDemand, Arrears!Unchanged
<1>2. DemandsTyped(m) /\ Pays(m, w) /\ w \in CallRows(m) BY <1>w DEF DemandsStand, DemandsTyped
<1>3. /\ d \in m.demands /\ w.amount \in Nat /\ w.amount > 0 /\ w.seen \in Nat
      /\ w.seen + w.amount <= demand[d].amount
  BY <1>1, <1>2 DEF Pays, CallRows
<1>4. BalanceStands(m)'
  <2>1. w.amount \in Nat \ {0} /\ day \in Nat BY <1>3 DEF DatesStand, LegalLoan
  <2> QED BY <1>1, <2>1, PostsKeepsLoan
<1>5. demand[d] \in DemandRows /\ paid \in Nat BY <1>2, <1>3 DEF DemandsTyped
<1>6. \A e \in m.demands :
        /\ demand'[e].amount = demand[e].amount
        /\ e # d => demand'[e] = demand[e] /\ posted'[e] = posted[e]
        /\ e = d => /\ demand'[e].paid = paid /\ posted'[e] = posted[e] + w.amount
                    /\ demand'[e].status = IF paid >= demand[d].amount THEN "PAID" ELSE "OPEN"
  BY <1>1, <1>2, <1>3 DEF DemandsTyped, DemandRows
<1>7. DemandsTyped(m)'
  <2>1. demand' \in [m.demands -> DemandRows] BY <1>1, <1>2, <1>5 DEF DemandsTyped, DemandRows
  <2>2. posted' \in [m.demands -> Nat] BY <1>1, <1>2, <1>3 DEF DemandsTyped
  <2>3. \A e \in m.demands : demand'[e].status = "NONE" => demand'[e].amount = 0
    BY <1>2, <1>6 DEF DemandsTyped
  <2>4. payer' \in [m.calls -> CallRows(m)] BY <1>1, <1>2, CallEnds
  <2> QED BY <2>1, <2>2, <2>3, <2>4 DEF DemandsTyped
<1>8. Arrears(m)!Demanded' <= m.guarantee
  <2>1. \A e \in m.demands :
          demand'[e].status \in {"NONE", "WITHDRAWN"} <=> demand[e].status \in {"NONE", "WITHDRAWN"}
    <3> SUFFICES ASSUME NEW e \in m.demands
                 PROVE  demand'[e].status \in {"NONE", "WITHDRAWN"}
                          <=> demand[e].status \in {"NONE", "WITHDRAWN"}
      OBVIOUS
    <3>1. CASE e # d BY <1>6, <3>1
    <3>2. CASE e = d
      <4>1. demand'[e].status \in {"PAID", "OPEN"} /\ demand[e].status = "OPEN"
        BY <1>1, <1>3, <1>6, <3>2
      <4> QED BY <4>1
    <3> QED BY <3>1, <3>2
  <2>2. Standing(m)' = Standing(m) BY <2>1 DEF Standing
  <2> QED BY <1>2, <1>6, <2>2, AskedStays, DemandedIsSum DEF DemandsStand, Arrears!DemandsAreCovered
<1>9. Arrears(m)!DemandsAreCovered'
  <2>1. Arrears(m)!DemandsAreCovered BY DEF DemandsStand
  <2>2. posted[d] = w.seen /\ posted'[d] = paid
    BY <1>1, <1>3, <1>6, <2>1 DEF Arrears!DemandsAreCovered
  <2>3. demand[d].amount \in Nat BY <1>5 DEF DemandRows
  <2> HIDE DEF paid
  <2>4. \A e \in m.demands :
          /\ demand'[e].paid = posted'[e] /\ posted'[e] <= demand'[e].amount
          /\ demand'[e].status = "PAID" => posted'[e] = demand'[e].amount
          /\ demand'[e].status = "OPEN" => posted'[e] < demand'[e].amount
    <3> SUFFICES ASSUME NEW e \in m.demands
                 PROVE  /\ demand'[e].paid = posted'[e] /\ posted'[e] <= demand'[e].amount
                        /\ demand'[e].status = "PAID" => posted'[e] = demand'[e].amount
                        /\ demand'[e].status = "OPEN" => posted'[e] < demand'[e].amount
      OBVIOUS
    <3>1. CASE e = d BY <1>3, <1>5, <1>6, <2>2, <2>3, <3>1 DEF paid
    <3>2. CASE e # d BY <1>6, <2>1, <3>2 DEF Arrears!DemandsAreCovered
    <3> QED BY <3>1, <3>2
  <2> QED BY <1>8, <2>4 DEF Arrears!DemandsAreCovered
<1>10. ASSUME NEW j \in m.calls PROVE Pays(m, payer[j])'
  <2>1. payer'[j] = Arrears(m)!NoCall \/ payer'[j] = payer[j] BY <1>1, <1>2, CallEnds
  <2>2. \A e \in m.demands : demand[e].status # "NONE" => demand'[e].status # "NONE" BY <1>6
  <2> QED BY <1>6, <2>1, <2>2 DEF DemandsStand, Pays, Arrears!NoCall
<1> QED BY <1>4, <1>7, <1>9, <1>10 DEF DemandsStand

\* The set-offs: what one person proposed another decides, once.
SetOffRows(m) ==
  [status : {"NONE", "PENDING", "EXECUTED", "REJECTED"}, amount : Nat, maker : Seats(m), by : Seats(m)]

SetOffsStand(m) ==
  /\ setoff \in [m.setoffs -> SetOffRows(m)]
  /\ applied \in [m.setoffs -> Nat]
  /\ \A o \in m.setoffs : setoff[o].status # "NONE" => setoff[o].amount > 0
  /\ Arrears(m)!SetOffByTwo

\* A set-off is proposed for an amount, and not posted.
LEMMA ProposeKeeps ==
  ASSUME NEW m, SetOffsStand(m), NEW o \in m.setoffs, NEW c \in m.staff,
         Arrears(m)!ProposeSetOff(o, c)
  PROVE  SetOffsStand(m)'
<1>1. PICK n \in 1..Arrears(m)!Overdue(day) :
        setoff' = [setoff EXCEPT ![o] = [Arrears(m)!NoSetOff EXCEPT !.status = "PENDING",
                                                                    !.amount = n, !.maker = c]]
  BY DEF Arrears!ProposeSetOff
<1>2. setoff[o].status = "NONE" /\ applied' = applied BY DEF Arrears!ProposeSetOff
<1> DEFINE none == Arrears(m)!NoSetOff
           row == [none EXCEPT !.status = "PENDING", !.amount = n, !.maker = c]
<1>3. setoff' = [setoff EXCEPT ![o] = row] BY <1>1
<1>4. n \in Nat /\ n > 0 OBVIOUS
<1>5. row \in SetOffRows(m) /\ row.status = "PENDING" /\ row.amount > 0
  <2>1. none \in SetOffRows(m) BY DEF Arrears!NoSetOff, SetOffRows, Seats
  <2> HIDE DEF none
  <2> QED BY <1>4, <2>1 DEF SetOffRows, Seats
<1> HIDE DEF row
<1> QED BY <1>2, <1>3, <1>5 DEF SetOffsStand, SetOffRows, Arrears!SetOffByTwo

\* What a decision leaves: the amount, the maker, and who decided, another.
LEMMA DecisionTurns ==
  ASSUME NEW m, SetOffsStand(m), NEW o \in m.setoffs, NEW c \in m.staff,
         NEW status \in {"EXECUTED", "REJECTED"}, Arrears(m)!Decides(o, c, status)
  PROVE  /\ setoff' \in [m.setoffs -> SetOffRows(m)]
         /\ setoff[o].amount \in Nat \ {0} /\ applied[o] = 0
         /\ setoff'[o].status = status /\ setoff'[o].amount = setoff[o].amount
         /\ setoff'[o].by # setoff'[o].maker
         /\ \A q \in m.setoffs : q # o => setoff'[q] = setoff[q]
<1>1. /\ setoff[o].status = "PENDING" /\ c # setoff[o].maker
      /\ setoff' = [setoff EXCEPT ![o].status = status, ![o].by = c]
  BY DEF Arrears!Decides
<1>2. setoff[o] \in SetOffRows(m) BY DEF SetOffsStand
<1>3. applied[o] = 0 /\ setoff[o].amount \in Nat \ {0}
  BY <1>1, <1>2 DEF SetOffsStand, SetOffRows, Arrears!SetOffByTwo
<1>4. /\ setoff' \in [m.setoffs -> SetOffRows(m)]
      /\ \A q \in m.setoffs : q # o => setoff'[q] = setoff[q]
  BY <1>1 DEF SetOffsStand, SetOffRows, Seats
<1>5. /\ setoff'[o].status = status /\ setoff'[o].amount = setoff[o].amount
      /\ setoff'[o].by = c /\ setoff'[o].maker = setoff[o].maker
  BY <1>1, <1>2 DEF SetOffsStand, SetOffRows
<1> QED BY <1>1, <1>3, <1>4, <1>5

\* Approved, it is posted, the first time.
LEMMA ApproveKeeps ==
  ASSUME NEW m, LegalLoan(m), DatesStand(m), BalanceStands(m), SetOffsStand(m),
         NEW o \in m.setoffs, NEW c \in m.staff, Arrears(m)!ApproveSetOff(o, c)
  PROVE  BalanceStands(m)' /\ SetOffsStand(m)'
<1>1. /\ Arrears(m)!Decides(o, c, "EXECUTED") /\ Arrears(m)!Posts(setoff[o].amount, day)
      /\ applied' = [applied EXCEPT ![o] = @ + 1]
  BY DEF Arrears!ApproveSetOff
<1>2. /\ setoff' \in [m.setoffs -> SetOffRows(m)]
      /\ setoff[o].amount \in Nat \ {0} /\ applied[o] = 0
      /\ setoff'[o].status = "EXECUTED" /\ setoff'[o].amount = setoff[o].amount
      /\ setoff'[o].by # setoff'[o].maker
      /\ \A q \in m.setoffs : q # o => setoff'[q] = setoff[q]
  BY <1>1, DecisionTurns
<1>3. BalanceStands(m)'
  <2>1. day \in Nat BY DEF DatesStand, LegalLoan
  <2> QED BY <1>1, <1>2, <2>1, PostsKeepsLoan
<1>4. /\ applied' \in [m.setoffs -> Nat] /\ applied'[o] = 1
      /\ \A q \in m.setoffs : q # o => applied'[q] = applied[q]
  BY <1>1, <1>2 DEF SetOffsStand
<1>5. ASSUME NEW q \in m.setoffs
      PROVE  /\ setoff'[q].status # "NONE" => setoff'[q].amount > 0
             /\ applied'[q] = IF setoff'[q].status = "EXECUTED" THEN 1 ELSE 0
             /\ setoff'[q].status = "EXECUTED" => setoff'[q].by # setoff'[q].maker
  <2>1. CASE q = o BY <1>2, <1>4, <2>1
  <2>2. CASE q # o BY <1>2, <1>4, <2>2 DEF SetOffsStand, Arrears!SetOffByTwo
  <2> QED BY <2>1, <2>2
<1> QED BY <1>2, <1>3, <1>4, <1>5 DEF SetOffsStand, Arrears!SetOffByTwo

\* Rejected, it is not posted.
LEMMA RejectKeeps ==
  ASSUME NEW m, SetOffsStand(m), NEW o \in m.setoffs, NEW c \in m.staff,
         Arrears(m)!RejectSetOff(o, c)
  PROVE  SetOffsStand(m)'
<1>1. Arrears(m)!Decides(o, c, "REJECTED") /\ applied' = applied BY DEF Arrears!RejectSetOff
<1>2. /\ setoff' \in [m.setoffs -> SetOffRows(m)]
      /\ setoff[o].amount \in Nat \ {0} /\ applied[o] = 0
      /\ setoff'[o].status = "REJECTED" /\ setoff'[o].amount = setoff[o].amount
      /\ \A q \in m.setoffs : q # o => setoff'[q] = setoff[q]
  BY <1>1, DecisionTurns
<1>3. ASSUME NEW q \in m.setoffs
      PROVE  /\ setoff'[q].status # "NONE" => setoff'[q].amount > 0
             /\ applied'[q] = IF setoff'[q].status = "EXECUTED" THEN 1 ELSE 0
             /\ setoff'[q].status = "EXECUTED" => setoff'[q].by # setoff'[q].maker
  <2>1. CASE q = o BY <1>1, <1>2, <2>1
  <2>2. CASE q # o BY <1>1, <1>2, <2>2 DEF SetOffsStand, Arrears!SetOffByTwo
  <2> QED BY <2>1, <2>2
<1> QED BY <1>1, <1>2, <1>3 DEF SetOffsStand, Arrears!SetOffByTwo

\* Where set-offs stay, so does what is said of them.
LEMMA SetOffsKept ==
  ASSUME NEW m, SetOffsStand(m), UNCHANGED <<setoff, applied>>
  PROVE  SetOffsStand(m)'
BY DEF SetOffsStand, Arrears!SetOffByTwo

-----------------------------------------------------------------------------
\* All of it together.
ArrearsInv(m) ==
  DatesStand(m) /\ BalanceStands(m) /\ TasksStand(m) /\ PromisesStand(m) /\ DemandsStand(m)
  /\ SetOffsStand(m)

\* The loan begins owing its instalments, and nothing else is there.
LEMMA ArrearsInit ==
  ASSUME NEW m, LegalLoan(m), Arrears(m)!Init
  PROVE  ArrearsInv(m)
<1>1. Len(m.due) \in Nat \ {0} BY DEF LegalLoan
<1>2. BalanceStands(m)
  <2>1. LoanTyped(m) /\ debt = "ACTIVE" BY DEF Arrears!Init, LoanTyped
  <2>2. Arrears(m)!Posted = {} BY DEF Arrears!Init, Arrears!Posted
  <2>3. Paid(m) = 0 BY <2>2, NothingAddsUp, FS_EmptySet DEF Paid
  <2> QED BY <1>1, <2>1, <2>3, OwedIsRest DEF BalanceStands
<1>3. DatesStand(m)
  <2>1. day = 0 /\ late = 0 /\ claimed = FALSE BY DEF Arrears!Init
  <2>2. 0 \in 0..m.lastDay BY DEF LegalLoan
  <2> QED BY <2>1, <2>2 DEF DatesStand
<1>4. TasksStand(m)
  BY DEF Arrears!Init, Arrears!NoTask, Arrears!NoForm, Arrears!Broken, TasksStand, Seats
<1>5. PromisesStand(m)
  <2>1. /\ day = 0 /\ done = 0
        /\ promise = [p \in m.promises |-> Arrears(m)!NoPromise]
        /\ review = [r \in m.reviewers |-> Arrears(m)!Idle]
        /\ \A d \in 0..m.lastDay : chore[<<0, d>>].status = "NONE"
    BY DEF Arrears!Init, Arrears!NoTask, Arrears!Tasks, Arrears!Broken, Arrears!Days
  <2>2. 0 \in 0..m.lastDay BY DEF LegalLoan
  <2>3. /\ Arrears(m)!NoPromise \in PromiseRows(m) /\ Arrears(m)!NoPromise.status = "NONE"
        /\ Arrears(m)!NoPromise.chased = FALSE
    BY <2>2 DEF Arrears!NoPromise, PromiseRows
  <2>4. Arrears(m)!Idle \in Rows(m) /\ Arrears(m)!Idle.at = "IDLE"
    BY <2>2 DEF Arrears!Idle, Rows
  <2>5. \A p \in m.promises : promise[p].status = "NONE" /\ promise[p].chased = FALSE
    BY <2>1, <2>3
  <2>6. \A r \in m.reviewers : review[r].at = "IDLE" BY <2>1, <2>4
  <2>7. PromisesTyped(m) /\ review \in [m.reviewers -> Rows(m)] BY <2>1, <2>3, <2>4 DEF PromisesTyped
  <2>8. Arrears(m)!DecidedOnTime /\ Arrears(m)!FollowedUp
    BY <2>1, <2>5 DEF Arrears!DecidedOnTime, Arrears!FollowedUp, Arrears!Broken, Arrears!Days
  <2> QED BY <2>1, <2>5, <2>6, <2>7, <2>8 DEF PromisesStand, OnePending, Trusts
<1>6. DemandsStand(m)
  <2>1. /\ demand = [d \in m.demands |-> [status |-> "NONE", amount |-> 0, paid |-> 0]]
        /\ payer = [k \in m.calls |-> Arrears(m)!NoCall]
        /\ posted = [d \in m.demands |-> 0]
    BY DEF Arrears!Init, Arrears!NoDemand
  <2>2. DemandsTyped(m)
    <3>1. Arrears(m)!NoCall \in CallRows(m) BY DEF Arrears!NoCall, CallRows
    <3> QED BY <2>1, <3>1 DEF DemandsTyped, DemandRows
  <2>3. Standing(m) = {} BY <2>1 DEF Standing
  <2>4. Asked(m) = 0 BY <2>3, NothingAddsUp, FS_EmptySet DEF Asked
  <2>5. Arrears(m)!DemandsAreCovered
    BY <2>1, <2>4, DemandedIsSum DEF Arrears!DemandsAreCovered, LegalLoan
  <2>6. \A k \in m.calls : Pays(m, payer[k]) BY <2>1 DEF Pays
  <2> QED BY <2>2, <2>5, <2>6 DEF DemandsStand
<1>7. SetOffsStand(m)
  BY DEF Arrears!Init, Arrears!NoSetOff, SetOffsStand, SetOffRows, Seats, Arrears!SetOffByTwo
<1> QED BY <1>2, <1>3, <1>4, <1>5, <1>6, <1>7 DEF ArrearsInv

\* What a step leaves alone stays.
LEMMA PromisesRest ==
  ASSUME NEW m, LegalLoan(m), DatesStand(m), PromisesStand(m),
         UNCHANGED <<day, promise, review, done, chore>>
  PROVE  PromisesStand(m)'
<1>1. day' \in Nat /\ day <= day' BY DEF DatesStand, LegalLoan
<1>2. TasksStay(m) /\ RungsStay(m) BY DEF TasksStay, RungsStay
<1> QED BY <1>1, <1>2, PromisesKept

\* The tasks, ...
LEMMA TasksRest ==
  ASSUME NEW m, TasksStand(m), UNCHANGED <<chore, form>>
  PROVE  TasksStand(m)'
BY DEF TasksStand

\* ... and the dates.
LEMMA DatesRest ==
  ASSUME NEW m, DatesStand(m), UNCHANGED <<day, late, claimed>>
  PROVE  DatesStand(m)'
BY DEF DatesStand

\* Money on the loan, from the borrower or back to him, or a write-off.
LEMMA BalanceStep ==
  ASSUME NEW m, LegalLoan(m), ArrearsInv(m),
         \/ Arrears(m)!Repay \/ Arrears(m)!WriteOff
         \/ \E r \in m.receipts : Arrears(m)!ReversePayment(r)
  PROVE  ArrearsInv(m)'
<1>1. BalanceStands(m)'
  <2>1. CASE Arrears(m)!Repay
    <3>1. PICK n \in Arrears(m)!Sums, on \in Arrears(m)!Days : Arrears(m)!Posts(n, on)
      BY <2>1 DEF Arrears!Repay
    <3>2. n \in Nat \ {0} /\ on \in Nat BY DEF Arrears!Sums, Arrears!Days, LegalLoan
    <3> QED BY <3>1, <3>2, PostsKeepsLoan DEF ArrearsInv
  <2>2. CASE Arrears(m)!WriteOff BY <2>2, WriteOffKeepsLoan DEF ArrearsInv
  <2>3. CASE \E r \in m.receipts : Arrears(m)!ReversePayment(r)
    BY <2>3, ReversalKeepsLoan DEF ArrearsInv
  <2> QED BY <2>1, <2>2, <2>3
<1>2. UNCHANGED <<day, late, Arrears(m)!taskVars, Arrears(m)!promiseVars, Arrears(m)!demandVars,
                  Arrears(m)!setoffVars>>
  BY DEF Arrears!Repay, Arrears!WriteOff, Arrears!ReversePayment
<1>3. UNCHANGED <<day, late, chore, form, promise, review, claimed, done, demand, payer, posted,
                  setoff, applied>>
  BY <1>2 DEF Arrears!taskVars, Arrears!promiseVars, Arrears!demandVars, Arrears!setoffVars
<1> QED BY <1>1, <1>3, DatesRest, TasksRest, PromisesRest, DemandsKept, SetOffsKept DEF ArrearsInv

\* The next day, and the batch of one.
LEMMA DayStep ==
  ASSUME NEW m, LegalLoan(m), ArrearsInv(m), Arrears(m)!NextDay
  PROVE  ArrearsInv(m)'
<1>1. /\ day < m.lastDay /\ day' = day + 1 /\ claimed' = FALSE
      /\ UNCHANGED <<late, debt, receipt, chore, form, promise, review, done, demand, payer, posted,
                     setoff, applied>>
  BY DEF Arrears!NextDay, Arrears!loanVars, Arrears!taskVars, Arrears!demandVars, Arrears!setoffVars
<1>2. DatesStand(m)'
  <2>1. day' \in 0..m.lastDay /\ late' \in 0..m.lastDay BY <1>1 DEF ArrearsInv, DatesStand, LegalLoan
  <2> QED BY <1>1, <2>1 DEF DatesStand
<1>3. PromisesStand(m)'
  <2>1. day' \in Nat /\ day <= day' BY <1>1 DEF ArrearsInv, DatesStand, LegalLoan
  <2>2. TasksStay(m) /\ RungsStay(m) BY <1>1 DEF TasksStay, RungsStay
  <2> QED BY <1>1, <2>1, <2>2, PromisesKept DEF ArrearsInv
<1> QED BY <1>1, <1>2, <1>3, LoanKept, TasksRest, DemandsKept, SetOffsKept DEF ArrearsInv

\* End of day writes the arrears and the ladder.
LEMMA BatchStep ==
  ASSUME NEW m, LegalLoan(m), ArrearsInv(m), Arrears(m)!Batch
  PROVE  ArrearsInv(m)'
<1>1. /\ late' = Arrears(m)!Dpd(day) /\ chore' = Arrears(m)!Escalated
      /\ UNCHANGED <<day, debt, receipt, form, promise, review, claimed, done, demand, payer, posted,
                     setoff, applied>>
  BY DEF Arrears!Batch, Arrears!loanVars, Arrears!promiseVars, Arrears!demandVars, Arrears!setoffVars
<1>2. day \in 0..m.lastDay BY DEF ArrearsInv, DatesStand
<1>3. DatesStand(m)' BY <1>1, <1>2, ArrearsAreDays DEF ArrearsInv, DatesStand
<1>4. chore' \in [Arrears(m)!Tasks -> TaskRows(m)] /\ TasksStay(m) /\ RungsStay(m)
  BY <1>1, <1>2, LadderKeeps DEF ArrearsInv
<1>5. PromisesStand(m)'
  <2>1. day' \in Nat /\ day <= day' BY <1>1, <1>2 DEF LegalLoan
  <2> QED BY <1>1, <1>4, <2>1, PromisesKept DEF ArrearsInv
<1> QED BY <1>1, <1>3, <1>4, <1>5, LoanKept, TasksMove, DemandsKept, SetOffsKept DEF ArrearsInv

\* Promises recorded and withdrawn.
LEMMA PromiseStep ==
  ASSUME NEW m, LegalLoan(m), ArrearsInv(m),
         Arrears(m)!TakePromise \/ \E p \in m.promises : Arrears(m)!Withdraw(p)
  PROVE  ArrearsInv(m)'
<1>1. UNCHANGED <<day, late, debt, receipt, chore, form, review, claimed, done, demand, payer, posted,
                  setoff, applied>>
  BY DEF Arrears!TakePromise, Arrears!Withdraw, Arrears!loanVars, Arrears!taskVars,
         Arrears!demandVars, Arrears!setoffVars
<1>2. PromisesStand(m)'
  <2>1. CASE Arrears(m)!TakePromise
    <3>1. TasksStay(m) /\ RungsStay(m) BY <1>1 DEF TasksStay, RungsStay
    <3>2. Arrears(m)!RecordPromise BY <2>1 DEF Arrears!TakePromise
    <3> QED BY <1>1, <3>1, <3>2, RecordKeeps DEF ArrearsInv
  <2>2. CASE \E p \in m.promises : Arrears(m)!Withdraw(p)
    <3>1. PICK p \in m.promises : Arrears(m)!Withdraw(p) BY <2>2
    <3>2. promise[p].status = "PENDING" /\ promise' = [promise EXCEPT ![p].status = "CANCELLED"]
      BY <3>1 DEF Arrears!Withdraw, Arrears!Pending
    <3> QED BY <1>1, <3>2, WithdrawKeeps DEF ArrearsInv
  <2> QED BY <2>1, <2>2
<1> QED BY <1>1, <1>2, LoanKept, DatesRest, TasksRest, DemandsKept, SetOffsKept DEF ArrearsInv

\* Collectors at their tasks ...
LEMMA QueueStep ==
  ASSUME NEW m, LegalLoan(m), ArrearsInv(m), NEW c \in m.staff,
         \/ \E t \in Arrears(m)!Tasks : Arrears(m)!Claim(c, t) \/ Arrears(m)!TakeUp(c, t)
         \/ Arrears(m)!Complete(c) \/ Arrears(m)!CompleteWithPromise(c)
  PROVE  ArrearsInv(m)'
<1>1. UNCHANGED <<day, late, debt, receipt, review, claimed, done, demand, payer, posted,
                  setoff, applied>>
  BY DEF Arrears!Claim, Arrears!TakeUp, Arrears!Complete, Arrears!CompleteWithPromise,
         Arrears!loanVars, Arrears!promiseVars, Arrears!demandVars, Arrears!setoffVars
<1>2. TasksStand(m)' /\ PromisesStand(m)'
  <2>0. day' \in Nat /\ day <= day' BY <1>1 DEF ArrearsInv, DatesStand, LegalLoan
  <2>1. CASE \E t \in Arrears(m)!Tasks : Arrears(m)!Claim(c, t)
    <3>1. TasksStand(m)' /\ TasksStay(m) /\ RungsStay(m) BY <2>1, ClaimKeeps DEF ArrearsInv
    <3>2. promise' = promise BY <2>1 DEF Arrears!Claim, Arrears!promiseVars
    <3> QED BY <1>1, <2>0, <3>1, <3>2, PromisesKept DEF ArrearsInv
  <2>2. CASE \E t \in Arrears(m)!Tasks : Arrears(m)!TakeUp(c, t)
    <3>1. TasksStand(m)' /\ chore' = chore BY <2>2, TakeUpKeeps DEF ArrearsInv
    <3>2. promise' = promise BY <2>2 DEF Arrears!TakeUp, Arrears!promiseVars
    <3> QED BY <1>1, <3>1, <3>2, PromisesRest DEF ArrearsInv
  <2>3. CASE Arrears(m)!Complete(c)
    <3>1. TasksStand(m)' /\ TasksStay(m) /\ RungsStay(m)
      BY <2>3, OutcomeKeeps DEF ArrearsInv, Arrears!Complete
    <3>2. promise' = promise BY <2>3 DEF Arrears!Complete, Arrears!promiseVars
    <3> QED BY <1>1, <2>0, <3>1, <3>2, PromisesKept DEF ArrearsInv
  <2>4. CASE Arrears(m)!CompleteWithPromise(c)
    <3>1. TasksStand(m)' /\ TasksStay(m) /\ RungsStay(m)
      BY <2>4, OutcomeKeeps DEF ArrearsInv, Arrears!CompleteWithPromise
    <3>2. Arrears(m)!RecordPromise BY <2>4 DEF Arrears!CompleteWithPromise
    <3> QED BY <1>1, <3>1, <3>2, RecordKeeps DEF ArrearsInv
  <2> QED BY <2>1, <2>2, <2>3, <2>4
<1> QED BY <1>1, <1>2, LoanKept, DatesRest, DemandsKept, SetOffsKept DEF ArrearsInv

\* ... and at set-offs.
LEMMA SetOffStep ==
  ASSUME NEW m, LegalLoan(m), ArrearsInv(m), NEW c \in m.staff, NEW o \in m.setoffs,
         \/ Arrears(m)!ProposeSetOff(o, c) \/ Arrears(m)!ApproveSetOff(o, c)
         \/ Arrears(m)!RejectSetOff(o, c)
  PROVE  ArrearsInv(m)'
<1>1. UNCHANGED <<day, late, chore, form, promise, review, claimed, done, demand, payer, posted>>
  BY DEF Arrears!ProposeSetOff, Arrears!ApproveSetOff, Arrears!RejectSetOff, Arrears!taskVars,
         Arrears!promiseVars, Arrears!demandVars
<1>2. BalanceStands(m)' /\ SetOffsStand(m)'
  <2>1. CASE Arrears(m)!ProposeSetOff(o, c)
    <3>1. UNCHANGED <<debt, receipt>> BY <2>1 DEF Arrears!ProposeSetOff, Arrears!loanVars
    <3> QED BY <2>1, <3>1, ProposeKeeps, LoanKept DEF ArrearsInv
  <2>2. CASE Arrears(m)!ApproveSetOff(o, c) BY <2>2, ApproveKeeps DEF ArrearsInv
  <2>3. CASE Arrears(m)!RejectSetOff(o, c)
    <3>1. UNCHANGED <<debt, receipt>> BY <2>3 DEF Arrears!RejectSetOff, Arrears!loanVars
    <3> QED BY <2>3, <3>1, RejectKeeps, LoanKept DEF ArrearsInv
  <2> QED BY <2>1, <2>2, <2>3
<1> QED BY <1>1, <1>2, DatesRest, TasksRest, PromisesRest, DemandsKept DEF ArrearsInv

\* Reviews of promises.
LEMMA PromiseReviewStep ==
  ASSUME NEW m, LegalLoan(m), ArrearsInv(m), NEW r \in m.reviewers, Arrears(m)!Reviews(r)
  PROVE  ArrearsInv(m)'
<1>1. UNCHANGED <<day, late, debt, receipt, form, demand, payer, posted, setoff, applied>>
  BY DEF Arrears!Reviews, Arrears!Scheduled, Arrears!ReviewNow, Arrears!Judge, Arrears!Decide,
         Arrears!Finish, Arrears!Fail, Arrears!Count, Arrears!loanVars, Arrears!taskVars,
         Arrears!demandVars, Arrears!setoffVars
<1>2. DatesStand(m)'
  <2>1. claimed' = claimed \/ claimed' = TRUE
    BY DEF Arrears!Reviews, Arrears!Scheduled, Arrears!ReviewNow, Arrears!Judge, Arrears!Decide,
           Arrears!Finish, Arrears!Fail, Arrears!Count
  <2>2. claimed' \in BOOLEAN BY <2>1 DEF ArrearsInv, DatesStand
  <2> QED BY <1>1, <2>2 DEF ArrearsInv, DatesStand
<1>3. TasksStand(m)' /\ PromisesStand(m)'
  <2>1. CASE Arrears(m)!Decide(r)
    <3>1. /\ PromisesStand(m)' /\ TasksStay(m)
          /\ \E d \in 0..m.lastDay : chore' = chore \/ chore' = [chore EXCEPT ![<<0, d>>].status = "OPEN"]
      BY <2>1, DecideKeeps DEF ArrearsInv
    <3>2. chore' \in [Arrears(m)!Tasks -> TaskRows(m)] BY <3>1 DEF ArrearsInv, TasksStand, TaskRows
    <3> QED BY <1>1, <3>1, <3>2, TasksMove DEF ArrearsInv
  <2>2. CASE Arrears(m)!Scheduled(r) \/ Arrears(m)!ReviewNow(r)
    <3>1. Arrears(m)!Begins(r) /\ UNCHANGED <<day, promise, done, chore, form>>
      BY <2>2 DEF Arrears!Scheduled, Arrears!ReviewNow, Arrears!taskVars
    <3> QED BY <3>1, BeginsKeeps, TasksRest DEF ArrearsInv
  <2>3. CASE Arrears(m)!Judge(r) \/ Arrears(m)!Finish(r) \/ Arrears(m)!Fail(r)
    <3>1. UNCHANGED <<chore, form>>
      BY <2>3 DEF Arrears!Judge, Arrears!Finish, Arrears!Fail, Arrears!taskVars
    <3> QED BY <2>3, <3>1, JudgeKeeps, FinishKeeps, FailKeeps, TasksRest DEF ArrearsInv
  <2>4. CASE \E p \in m.promises : Arrears(m)!Count(r, p)
    <3>1. UNCHANGED <<chore, form>> BY <2>4 DEF Arrears!Count, Arrears!taskVars
    <3> QED BY <2>4, <3>1, CountKeeps, TasksRest DEF ArrearsInv
  <2> QED BY <2>1, <2>2, <2>3, <2>4 DEF Arrears!Reviews
<1> QED BY <1>1, <1>2, <1>3, LoanKept, DemandsKept, SetOffsKept DEF ArrearsInv

\* Demands on the guarantor.
LEMMA DemandStep ==
  ASSUME NEW m, LegalLoan(m), ArrearsInv(m),
         \/ \E d \in m.demands : \/ Arrears(m)!IssueDemand(d) \/ Arrears(m)!WithdrawDemand(d)
                                 \/ \E k \in m.calls : Arrears(m)!ReadDemand(k, d)
         \/ \E k \in m.calls : Arrears(m)!PayDemand(k) \/ Arrears(m)!GiveUp(k)
  PROVE  ArrearsInv(m)'
<1>1. UNCHANGED <<day, late, chore, form, promise, review, claimed, done, setoff, applied>>
  BY DEF Arrears!IssueDemand, Arrears!WithdrawDemand, Arrears!ReadDemand, Arrears!PayDemand,
         Arrears!GiveUp, Arrears!taskVars, Arrears!promiseVars, Arrears!setoffVars
<1>2. BalanceStands(m)' /\ DemandsStand(m)'
  <2>1. CASE \E k \in m.calls : Arrears(m)!PayDemand(k) BY <2>1, PayKeeps DEF ArrearsInv
  <2>2. CASE \/ \E d \in m.demands : \/ Arrears(m)!IssueDemand(d) \/ Arrears(m)!WithdrawDemand(d)
                                     \/ \E k \in m.calls : Arrears(m)!ReadDemand(k, d)
             \/ \E k \in m.calls : Arrears(m)!GiveUp(k)
    <3>1. UNCHANGED <<debt, receipt>>
      BY <2>2 DEF Arrears!IssueDemand, Arrears!WithdrawDemand, Arrears!ReadDemand, Arrears!GiveUp,
                  Arrears!loanVars
    <3>2. DemandsStand(m)'
      BY <2>2, IssueKeeps, WithdrawDemandKeeps, ReadDemandKeeps, GiveUpKeeps DEF ArrearsInv
    <3> QED BY <3>1, <3>2, LoanKept DEF ArrearsInv
  <2> QED BY <2>1, <2>2
<1> QED BY <1>1, <1>2, DatesRest, TasksRest, PromisesRest, SetOffsKept DEF ArrearsInv

\* Whatever is done next.
LEMMA ArrearsStep ==
  ASSUME NEW m, LegalLoan(m), ArrearsInv(m), Arrears(m)!Next
  PROVE  ArrearsInv(m)'
<1>1. CASE \/ Arrears(m)!Repay \/ Arrears(m)!WriteOff
           \/ \E r \in m.receipts : Arrears(m)!ReversePayment(r)
  BY <1>1, BalanceStep
<1>2. CASE Arrears(m)!NextDay BY <1>2, DayStep
<1>3. CASE Arrears(m)!Batch BY <1>3, BatchStep
<1>4. CASE Arrears(m)!TakePromise \/ \E p \in m.promises : Arrears(m)!Withdraw(p)
  BY <1>4, PromiseStep
<1>5. CASE \E c \in m.staff : Arrears(m)!Chases(c)
  <2>1. PICK c \in m.staff : Arrears(m)!Chases(c) BY <1>5
  <2> QED BY <2>1, QueueStep, SetOffStep DEF Arrears!Chases
<1>6. CASE \E r \in m.reviewers : Arrears(m)!Reviews(r) BY <1>6, PromiseReviewStep
<1>7. CASE \/ \E d \in m.demands : \/ Arrears(m)!IssueDemand(d) \/ Arrears(m)!WithdrawDemand(d)
                                   \/ \E k \in m.calls : Arrears(m)!ReadDemand(k, d)
           \/ \E k \in m.calls : Arrears(m)!PayDemand(k) \/ Arrears(m)!GiveUp(k)
  BY <1>7, DemandStep
<1> QED BY <1>1, <1>2, <1>3, <1>4, <1>5, <1>6, <1>7 DEF Arrears!Next

\* And where nothing is done.
LEMMA ArrearsRest ==
  ASSUME NEW m, LegalLoan(m), ArrearsInv(m), UNCHANGED arrearsVars
  PROVE  ArrearsInv(m)'
<1>1. UNCHANGED <<day, debt, late, receipt, chore, form, promise, review, claimed, done, demand, payer,
                  posted, setoff, applied>>
  BY DEF arrearsVars
<1> QED BY <1>1, DatesRest, LoanKept, TasksRest, PromisesRest, DemandsKept, SetOffsKept
        DEF ArrearsInv

\* What the invariant says of a loan.
LEMMA PromisesInOrder ==
  ASSUME NEW m, LegalLoan(m), ArrearsInv(m)
  PROVE  Arrears(m)!PromisesAreFollowed
<1>1. Arrears(m)!TypeOK
  <2>1. day \in Arrears(m)!Days /\ late \in 0..m.lastDay BY DEF ArrearsInv, DatesStand, Arrears!Days
  <2>2. /\ debt \in {"ACTIVE", "CLOSED", "WRITTEN_OFF"} /\ Arrears(m)!Outstanding >= 0
        /\ (debt = "CLOSED") = (Arrears(m)!Outstanding = 0)
    BY DEF ArrearsInv, BalanceStands, LoanTyped
  <2>3. \A t \in Arrears(m)!Tasks : chore[t].status \in {"NONE", "OPEN", "DONE", "CANCELLED"}
    BY DEF ArrearsInv, TasksStand
  <2>4. \A p \in m.promises : promise[p].status \in {"NONE", "PENDING"} \cup Arrears(m)!Decided
    BY DEF ArrearsInv, PromisesStand, PromisesTyped, PromiseRows, Arrears!Decided
  <2>5. \A d \in m.demands : demand[d].status \in {"NONE", "OPEN", "PAID", "WITHDRAWN"}
    BY DEF ArrearsInv, DemandsStand, DemandsTyped, DemandRows
  <2>6. \A o \in m.setoffs : setoff[o].status \in {"NONE", "PENDING", "EXECUTED", "REJECTED"}
    BY DEF ArrearsInv, SetOffsStand, SetOffRows
  <2> QED BY <2>1, <2>2, <2>3, <2>4, <2>5, <2>6 DEF Arrears!TypeOK
<1>2. Arrears(m)!OnePromise
  <2>1. \A S : Arrears(m)!Cardinality(S) = Cardinality(S) BY DEF Arrears!Cardinality, Cardinality
  <2>2. \A p, q \in Arrears(m)!Pending : p = q
    BY DEF ArrearsInv, PromisesStand, OnePending, Arrears!Pending
  <2>3. Arrears(m)!Pending = {} \/ \E p : Arrears(m)!Pending = {p} BY <2>2
  <2>4. Cardinality(Arrears(m)!Pending) = 0 \/ Cardinality(Arrears(m)!Pending) = 1
    <3>1. Cardinality({}) = 0 BY FS_EmptySet, Zenon
    <3>2. \A p : Cardinality({p}) = 1 BY FS_Singleton, Zenon
    <3> QED BY <2>3, <3>1, <3>2, Zenon
  <2> QED BY <2>1, <2>4 DEF Arrears!OnePromise
<1>3. Arrears(m)!ReviewsDecide
  <2>1. done \in Nat /\ m.grace \in Nat /\ \A p \in m.promises : promise[p].payBy \in Nat
    BY DEF ArrearsInv, PromisesStand, PromisesTyped, PromiseRows, LegalLoan
  <2> QED BY <2>1 DEF ArrearsInv, PromisesStand, Passed, Arrears!ReviewsDecide, Arrears!Pending,
                      Arrears!Deadline
<1>4. Arrears(m)!DecidedOnTime /\ Arrears(m)!FollowedUp BY DEF ArrearsInv, PromisesStand
<1> QED BY <1>1, <1>2, <1>3, <1>4 DEF Arrears!PromisesAreFollowed

\* What it says of demands and set-offs.
LEMMA DemandsInOrder ==
  ASSUME NEW m, LegalLoan(m), ArrearsInv(m)
  PROVE  Arrears(m)!DemandedIsPosted
<1>1. Arrears(m)!TypeOK BY PromisesInOrder DEF Arrears!PromisesAreFollowed
<1> QED BY <1>1 DEF ArrearsInv, DemandsStand, SetOffsStand, Arrears!DemandedIsPosted

\* Of any loan in arrears: whatever it owes, however long its ladder, its collectors,
\* its reviews and the guarantor's payments under way.
THEOREM ArrearsInOrder ==
  ASSUME NEW m, LegalLoan(m)
  PROVE  Arrears(m)!Spec => [](Arrears(m)!PromisesAreFollowed /\ Arrears(m)!DemandedIsPosted)
<1>1. Arrears(m)!Init => ArrearsInv(m) BY ArrearsInit
<1>2. ArrearsInv(m) /\ [Arrears(m)!Next]_(Arrears(m)!vars) => ArrearsInv(m)'
  <2>1. ASSUME ArrearsInv(m), UNCHANGED Arrears(m)!vars PROVE ArrearsInv(m)'
    <3>1. UNCHANGED arrearsVars
      BY <2>1 DEF arrearsVars, Arrears!vars, Arrears!loanVars, Arrears!taskVars,
                  Arrears!promiseVars, Arrears!demandVars, Arrears!setoffVars
    <3> QED BY <2>1, <3>1, ArrearsRest
  <2> QED BY <2>1, ArrearsStep
<1>3. ArrearsInv(m) => Arrears(m)!PromisesAreFollowed /\ Arrears(m)!DemandedIsPosted
  BY PromisesInOrder, DemandsInOrder
<1> QED BY <1>1, <1>2, <1>3, PTL DEF Arrears!Spec

\* The loans of the scenes can be.
LEMMA LoansAreLegal == \A s \in DOMAIN Loans : LegalLoan(Loans[s])
<1>1. /\ Unit.due = <<0>> /\ Unit.from = <<3>> /\ Unit.grace = 0 /\ Unit.ahead = 0
      /\ Unit.backdate = 0 /\ Unit.lastDay = 2 /\ Unit.guarantee = 2
      /\ Unit.receipts = {1} /\ Unit.demands = {}
  BY DEF Unit
<1> HIDE DEF Unit
<1>2. <<0>> \in Seq(Nat) /\ <<3>> \in Seq(Nat) /\ <<1, 2>> \in Seq(Nat) /\ <<0, 0, 0>> \in Seq(Nat)
      /\ <<0>> # <<>> /\ <<0, 0, 0>> # <<>>
  OBVIOUS
<1>3. /\ IsFiniteSet({}) /\ IsFiniteSet({1}) /\ IsFiniteSet({1, 2}) /\ IsFiniteSet({1, 2, 3})
  <2>1. IsFiniteSet({1, 2, 3})
    <3>0. 1 \in Int /\ 3 \in Int OBVIOUS
    <3>1. IsFiniteSet(1..3) BY <3>0, FS_Interval, Zenon
    <3>2. {1, 2, 3} = 1..3 OBVIOUS
    <3> QED BY <3>1, <3>2, Zenon
  <2>2. {} \subseteq {1, 2, 3} /\ {1} \subseteq {1, 2, 3} /\ {1, 2} \subseteq {1, 2, 3} OBVIOUS
  <2>3. \A S : S \subseteq {1, 2, 3} => IsFiniteSet(S) BY <2>1, FS_Subset, Zenon
  <2> QED BY <2>1, <2>2, <2>3, Zenon
<1>4. LegalLoan(Loans["promises"])
  <2> DEFINE m == Loans["promises"]
  <2>1. m = [Unit EXCEPT !.reviewers = {s4}, !.promises = {1, 2}] BY DEF Loans
  <2>2. /\ m.due = <<0>> /\ m.from = <<3>> /\ m.grace = 0 /\ m.ahead = 0
        /\ m.backdate = 0 /\ m.lastDay = 2 /\ m.guarantee = 2
        /\ m.receipts = {1} /\ m.demands = {}
    BY <1>1, <2>1
  <2> HIDE DEF m
  <2>3. LegalLoan(m) BY <1>2, <1>3, <2>2 DEF LegalLoan
  <2> QED BY <2>3 DEF m
<1>5. LegalLoan(Loans["reviews"])
  <2> DEFINE m == Loans["reviews"]
  <2>1. m = [Unit EXCEPT !.reviewers = {t1, t2}, !.promises = {1}, !.backdate = 1] BY DEF Loans
  <2>2. /\ m.due = <<0>> /\ m.from = <<3>> /\ m.grace = 0 /\ m.ahead = 0
        /\ m.backdate = 1 /\ m.lastDay = 2 /\ m.guarantee = 2
        /\ m.receipts = {1} /\ m.demands = {}
    BY <1>1, <2>1
  <2> HIDE DEF m
  <2>3. LegalLoan(m) BY <1>2, <1>3, <2>2 DEF LegalLoan
  <2> QED BY <2>3 DEF m
<1>6. LegalLoan(Loans["queue"])
  <2> DEFINE m == Loans["queue"]
  <2>1. m = [Unit EXCEPT !.staff = {t1, t2}, !.promises = {1}, !.setoffs = {1},
                         !.from = <<1, 2>>, !.automatic = {1}]
    BY DEF Loans
  <2>2. /\ m.due = <<0>> /\ m.from = <<1, 2>> /\ m.grace = 0 /\ m.ahead = 0
        /\ m.backdate = 0 /\ m.lastDay = 2 /\ m.guarantee = 2
        /\ m.receipts = {1} /\ m.demands = {}
    BY <1>1, <2>1
  <2> HIDE DEF m
  <2>3. LegalLoan(m) BY <1>2, <1>3, <2>2 DEF LegalLoan
  <2> QED BY <2>3 DEF m
<1>7. LegalLoan(Loans["claims"])
  <2> DEFINE m == Loans["claims"]
  <2>1. m = [Unit EXCEPT !.due = <<0, 0, 0>>, !.demands = {1, 2}, !.receipts = {1, 2, 3},
                         !.calls = {c1, c2}, !.lastDay = 1]
    BY DEF Loans
  <2>2. /\ m.due = <<0, 0, 0>> /\ m.from = <<3>> /\ m.grace = 0 /\ m.ahead = 0
        /\ m.backdate = 0 /\ m.lastDay = 1 /\ m.guarantee = 2
        /\ m.receipts = {1, 2, 3} /\ m.demands = {1, 2}
    BY <1>1, <2>1
  <2> HIDE DEF m
  <2>3. LegalLoan(m) BY <1>2, <1>3, <2>2 DEF LegalLoan
  <2> QED BY <2>3 DEF m
<1>8. DOMAIN Loans = {"promises", "reviews", "queue", "claims"} BY DEF Loans
<1> QED BY <1>4, <1>5, <1>6, <1>7, <1>8

-----------------------------------------------------------------------------
\* In every scene.
LoansStand == \A s \in DOMAIN Loans : s = scene => ArrearsInv(Loans[s])

\* The loan of the scene stays in order.
LEMMA LoansInvariant == MCSpec => []LoansStand
<1>1. MCInit => LoansStand BY LoansAreLegal, ArrearsInit DEF MCInit, LoansStand
<1>2. LoansStand /\ [MCNext]_allVars => LoansStand'
  <2> SUFFICES ASSUME LoansStand, [MCNext]_allVars, NEW s \in DOMAIN Loans, s = scene'
               PROVE  ArrearsInv(Loans[s])'
    BY DEF LoansStand
  <2>1. scene' = scene BY DEF MCNext, allVars
  <2>2. LegalLoan(Loans[s]) /\ ArrearsInv(Loans[s]) BY <2>1, LoansAreLegal DEF LoansStand
  <2>3. UNCHANGED arrearsVars \/ Arrears(Loans[s])!Next BY <2>1 DEF MCNext, ArrearsNext, allVars
  <2> QED BY <2>2, <2>3, ArrearsStep, ArrearsRest
<1> QED BY <1>1, <1>2, PTL DEF MCSpec

\* recordInTx, reviewOne: with several reviews of the same promises at once, and
\* collectors, payments and reversals meanwhile, one promise is pending, each is
\* decided once and on time, and one that is broken raises its task with it.
THEOREM PromisesAreKeptTrack == MCSpec => []PromisesAreFollowed
<1>1. LoansStand => PromisesAreFollowed
  BY LoansAreLegal, PromisesInOrder DEF LoansStand, PromisesAreFollowed
<1> QED BY <1>1, LoansInvariant, PTL

\* guarantorPayment, approveSetOff: demands stay within the guarantee, what a demand
\* says was paid was posted, and a set-off is posted once, by a second person.
THEOREM DemandsArePosted == MCSpec => []DemandedIsPosted
<1>1. LoansStand => DemandedIsPosted
  BY LoansAreLegal, DemandsInOrder DEF LoansStand, DemandedIsPosted
<1> QED BY <1>1, LoansInvariant, PTL
================================================================================
