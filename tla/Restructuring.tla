--------------------------- MODULE Restructuring ---------------------------
(***************************************************************************)
(* One restructuring case of one loan (RestructuringService).  A case is   *)
(* assessed, terms are proposed, approved by enough people, accepted by    *)
(* the customer, and executed: the loan is amended, and the amendment may  *)
(* be reversed.  Every step reads the case and writes it where its version *)
(* is what was read (casCase), so it fails when another was written first. *)
(* Execution locks the loan instead, and writes the case and the proposal  *)
(* without a condition; when balances moved, a second transaction sends    *)
(* the case back for new proposals.                                        *)
(***************************************************************************)
EXTENDS Integers, FiniteSets

CONSTANTS
  Staff,       \* users of the lender
  Customer,    \* who may have asked for the restructure
  Nobody,
  Calls,       \* requests under way at once
  Proposals,   \* numbers of proposals, 1 .. n
  Required,    \* approvals a proposal may need
  Lent,        \* what the loan owes at first
  MaxPaid,     \* bound: payments in force at once
  MaxStale     \* bound: executions refused as stale

VARIABLES
  initiator,   \* RestructureCase.initiatorId
  case,        \* RestructureCase.status
  condition,   \* the mandatory condition: "NONE", "OUTSTANDING" or "SATISFIED"
  proposal,    \* RestructureProposal rows, with their approvals and acceptance
  amendment,   \* LoanAmendment rows, by proposal
  loan,        \* terms in force, what is owed, payments, and whether anything
               \* was posted since the last amendment
  call,        \* what each call has read
  stale        \* history: executions refused as stale

vars == <<initiator, case, condition, proposal, amendment, loan, call, stale>>

\* The loan bears every payment and every waiver of the model.
ASSUME RestructuringAssumption ==
  /\ Nobody \notin Staff
  /\ IsFiniteSet(Proposals) /\ Proposals = 1 .. Cardinality(Proposals)
  /\ Required \subseteq Nat
  /\ MaxPaid \in Nat /\ MaxStale \in Nat
  /\ Lent \in Nat /\ MaxPaid + Cardinality(Proposals) <= Lent

NoProposal == [status |-> "NONE", by |-> Nobody, required |-> 0, approvals |-> {},
               accepted |-> FALSE, owed |-> 0]
NoAmendment == [status |-> "NONE", terms |-> 0, owed |-> 0, by |-> Nobody]
Idle == [doing |-> "NOTHING", by |-> Nobody, at |-> 0, seen |-> {}]

Made == {k \in Proposals : proposal[k] # NoProposal}
Alive(p) == p.status \in {"PROPOSED", "APPROVED", "ACCEPTED"}
Does(c, what) == call[c].doing = what

\* loadLoanState locks the loan's row until the transaction ends.
LoanIsFree == \A c \in Calls : ~Does(c, "EXECUTE")

\* A call reads the case, and does something to it later.
Reads(c, what) ==
  /\ Does(c, "NOTHING") /\ call' = [call EXCEPT ![c] = what]
  /\ UNCHANGED <<initiator, case, condition, proposal, amendment, loan, stale>>
Doing(what) == [Idle EXCEPT !.doing = what]

\* The calls that write whatever has become of the case since they read it.
Unconditional == {"NOTHING", "MARK", "EXECUTE", "RETURN"}

\* casCase: of the calls that have read the case, one writes it, and the others
\* are rolled back.
CaseWritten(c) == call' = [d \in Calls |->
  IF d # c /\ call[d].doing \in Unconditional THEN call[d] ELSE Idle]
CaseLeft(c) == call' = [call EXCEPT ![c] = Idle]
Cas(c, to) == case' = to /\ CaseWritten(c)

-----------------------------------------------------------------------------
(* The review. *)

Assessable == {"REQUESTED", "MORE_INFO_REQUIRED", "AFFORDABILITY_ASSESSED", "SPECIALIST_REVIEW",
               "OPTIONS_PROPOSED"}

\* assess; requestMoreInfo
ReadToAssess(c) == case \in Assessable /\ Reads(c, Doing("ASSESS"))

WriteAssessed(c) ==
  /\ Does(c, "ASSESS")
  /\ \E to \in {"AFFORDABILITY_ASSESSED", "SPECIALIST_REVIEW", "MORE_INFO_REQUIRED"} : Cas(c, to)
  /\ UNCHANGED <<initiator, condition, proposal, amendment, loan, stale>>

\* withdraw
ReadToWithdraw(c) == case \in Assessable \cup {"APPROVED"} /\ Reads(c, Doing("WITHDRAW"))

WriteWithdrawn(c) ==
  /\ Does(c, "WITHDRAW") /\ Cas(c, "WITHDRAWN")
  /\ proposal' = [k \in Proposals |->
       IF proposal[k].status \in {"PROPOSED", "APPROVED"}
       THEN [proposal[k] EXCEPT !.status = "SUPERSEDED"] ELSE proposal[k]]
  /\ UNCHANGED <<initiator, condition, amendment, loan, stale>>

-----------------------------------------------------------------------------
(* Proposals. *)

ReadToPropose(c, u) ==
  /\ case \in {"AFFORDABILITY_ASSESSED", "SPECIALIST_REVIEW", "OPTIONS_PROPOSED", "APPROVED",
               "CUSTOMER_ACCEPTED"}
  /\ Reads(c, [Doing("PROPOSE") EXCEPT !.by = u])

\* A proposal that supersedes only what still waits for approval.
WaitingOnly(p) == p.status = "PROPOSED"

\* What a changed proposal supersedes.
Superseded(p) == Alive(p)

WriteProposal(c) ==
  /\ Does(c, "PROPOSE") /\ Cas(c, "OPTIONS_PROPOSED")
  /\ \E k \in Proposals, n \in Required, with \in {"NONE", "OUTSTANDING"} :
       /\ Made = 1 .. k - 1
       /\ proposal' = [j \in Proposals |->
            IF j = k THEN [NoProposal EXCEPT !.status = "PROPOSED", !.by = call[c].by,
                                             !.required = n, !.owed = loan.owed]
            ELSE IF Superseded(proposal[j]) THEN [proposal[j] EXCEPT !.status = "SUPERSEDED"]
            ELSE proposal[j]]
       /\ condition' = IF with = "NONE" /\ condition = "SATISFIED" THEN condition ELSE with
  /\ UNCHANGED <<initiator, amendment, loan, stale>>

\* approve: not the proposer, the initiator, nor who approved it before.
MayApprove(u, k) == u \notin {proposal[k].by, initiator} \cup proposal[k].approvals

ReadToApprove(c, u, k) ==
  /\ case = "OPTIONS_PROPOSED" /\ proposal[k].status = "PROPOSED" /\ MayApprove(u, k)
  /\ Reads(c, [Doing("APPROVE") EXCEPT !.by = u, !.at = k, !.seen = proposal[k].approvals])

\* The number of approvals is the one that was read, and this one.
WriteApproval(c) ==
  LET k == call[c].at
      enough == Cardinality(call[c].seen) + 1 >= proposal[k].required
  IN  /\ Does(c, "APPROVE")
      /\ enough => proposal[k].status = "PROPOSED"
      /\ Cas(c, IF enough THEN "APPROVED" ELSE "OPTIONS_PROPOSED")
      /\ proposal' = [proposal EXCEPT ![k].approvals = @ \cup {call[c].by},
                                      ![k].status = IF enough THEN "APPROVED" ELSE @]
      /\ UNCHANGED <<initiator, condition, amendment, loan, stale>>

\* reject: of the case.
ReadToReject(c, u) ==
  /\ case \in Assessable
  /\ u # initiator
  /\ \A k \in Proposals : proposal[k].status = "PROPOSED" => u # proposal[k].by
  /\ Reads(c, Doing("REJECT"))

WriteRejected(c) ==
  /\ Does(c, "REJECT") /\ Cas(c, "REJECTED")
  /\ proposal' = [k \in Proposals |->
       IF proposal[k].status = "PROPOSED" THEN [proposal[k] EXCEPT !.status = "REJECTED"]
       ELSE proposal[k]]
  /\ UNCHANGED <<initiator, condition, amendment, loan, stale>>

\* accept: the hash binds the version that was shown.
ReadToAccept(c, k) ==
  /\ case = "APPROVED" /\ proposal[k].status = "APPROVED"
  /\ Reads(c, [Doing("ACCEPT") EXCEPT !.at = k])

\* It waits for its mandatory conditions.
AfterAcceptance == IF condition = "OUTSTANDING" THEN "CUSTOMER_ACCEPTED" ELSE "CONDITIONS_SATISFIED"

WriteAccepted(c) ==
  LET k == call[c].at
  IN  /\ Does(c, "ACCEPT") /\ proposal[k].status = "APPROVED"
      /\ Cas(c, AfterAcceptance)
      /\ proposal' = [proposal EXCEPT ![k].status = "ACCEPTED", ![k].accepted = TRUE]
      /\ UNCHANGED <<initiator, condition, amendment, loan, stale>>

\* satisfyCondition: it moves a case on that it has read as CUSTOMER_ACCEPTED.
ReadCondition(c) ==
  /\ case \in {"APPROVED", "CUSTOMER_ACCEPTED"} /\ condition = "OUTSTANDING"
  /\ Reads(c, Doing(IF case = "APPROVED" THEN "MARK" ELSE "SATISFY"))

WriteSatisfied(c) ==
  /\ condition = "OUTSTANDING" /\ condition' = "SATISFIED"
  /\ \/ Does(c, "SATISFY") /\ Cas(c, "CONDITIONS_SATISFIED")
     \/ Does(c, "MARK") /\ CaseLeft(c) /\ UNCHANGED case
  /\ UNCHANGED <<initiator, proposal, amendment, loan, stale>>

-----------------------------------------------------------------------------
(* Execution. *)

\* The case is read; the loan is locked; the accepted proposal and the
\* conditions are read.
ReadToExecute(c, u, k) ==
  /\ case \in {"CUSTOMER_ACCEPTED", "CONDITIONS_SATISFIED"}
  /\ LoanIsFree
  /\ proposal[k].status = "ACCEPTED" /\ proposal[k].by # u
  /\ condition # "OUTSTANDING"
  /\ Reads(c, [Doing("EXECUTE") EXCEPT !.by = u, !.at = k])

\* snapshotDrift: what is owed is what the proposal was made for.
Drifted(k) == loan.owed # proposal[k].owed

\* applyAmendment: something is waived, and the terms change.
WriteExecuted(c) ==
  LET k == call[c].at
  IN  /\ Does(c, "EXECUTE") /\ ~Drifted(k)
      /\ amendment' = [amendment EXCEPT ![k] =
           [status |-> "EXECUTED", terms |-> loan.terms, owed |-> loan.owed, by |-> call[c].by]]
      /\ loan' = [loan EXCEPT !.terms = k, !.owed = @ - 1, !.quiet = TRUE]
      /\ proposal' = [proposal EXCEPT ![k].status = IF @ = "ACCEPTED" THEN "EXECUTED" ELSE @]
      /\ case' = "MONITORING" /\ CaseWritten(c)
      /\ UNCHANGED <<initiator, condition, stale>>

\* PROPOSAL_STALE: the transaction is rolled back, ...
FindStale(c) ==
  /\ Does(c, "EXECUTE") /\ Drifted(call[c].at)
  /\ stale < MaxStale /\ stale' = stale + 1
  /\ call' = [call EXCEPT ![c].doing = "RETURN"]
  /\ UNCHANGED <<initiator, case, condition, proposal, amendment, loan>>

\* ... and another writes that new proposals are needed.
WriteStale(c) ==
  LET k == call[c].at
  IN  /\ Does(c, "RETURN")
      /\ proposal' = [proposal EXCEPT ![k].status = IF @ = "ACCEPTED" THEN "SUPERSEDED" ELSE @]
      /\ case' = "OPTIONS_PROPOSED" /\ CaseWritten(c)
      /\ UNCHANGED <<initiator, condition, amendment, loan, stale>>

\* Nothing was posted on the loan after the amendment.
NothingFollowed(k) == loan.quiet /\ loan.terms = k

\* reverse, by another than who executed: what was before is written back.
Reverse(u, k) ==
  /\ case = "MONITORING" /\ LoanIsFree
  /\ amendment[k].status = "EXECUTED" /\ amendment[k].by # u
  /\ NothingFollowed(k)
  /\ amendment' = [amendment EXCEPT ![k].status = "REVERSED"]
  /\ loan' = [loan EXCEPT !.terms = amendment[k].terms, !.owed = amendment[k].owed,
                          !.quiet = FALSE]
  /\ case' = "REVERSED"
  /\ call' = [d \in Calls |-> IF call[d].doing \in Unconditional THEN call[d] ELSE Idle]
  /\ UNCHANGED <<initiator, condition, proposal, stale>>

\* monitor: probation is passed.
Complete ==
  /\ case = "MONITORING" /\ LoanIsFree
  /\ case' = "COMPLETED"
  /\ UNCHANGED <<initiator, condition, proposal, amendment, loan, call, stale>>

-----------------------------------------------------------------------------
(* The loan's money. *)

Pay ==
  /\ LoanIsFree /\ loan.paid < MaxPaid
  /\ loan' = [loan EXCEPT !.paid = @ + 1, !.owed = @ - 1, !.quiet = FALSE]
  /\ UNCHANGED <<initiator, case, condition, proposal, amendment, call, stale>>

ReversePayment ==
  /\ LoanIsFree /\ loan.paid > 0
  /\ loan' = [loan EXCEPT !.paid = @ - 1, !.owed = @ + 1, !.quiet = FALSE]
  /\ UNCHANGED <<initiator, case, condition, proposal, amendment, call, stale>>

\* A call that is refused, loses a race or fails is rolled back.
RollBack(c) ==
  /\ ~Does(c, "NOTHING") /\ CaseLeft(c)
  /\ UNCHANGED <<initiator, case, condition, proposal, amendment, loan, stale>>

-----------------------------------------------------------------------------
Init ==
  /\ initiator \in Staff \cup {Customer}
  /\ case = "REQUESTED" /\ condition = "NONE"
  /\ proposal = [k \in Proposals |-> NoProposal]
  /\ amendment = [k \in Proposals |-> NoAmendment]
  /\ loan = [terms |-> 0, owed |-> Lent, paid |-> 0, quiet |-> FALSE]
  /\ call = [c \in Calls |-> Idle]
  /\ stale = 0

Next ==
  \/ \E c \in Calls :
       \/ WriteAssessed(c) \/ WriteWithdrawn(c) \/ WriteProposal(c) \/ WriteApproval(c)
       \/ WriteRejected(c) \/ WriteAccepted(c) \/ WriteSatisfied(c)
       \/ WriteExecuted(c) \/ FindStale(c) \/ WriteStale(c) \/ RollBack(c)
       \/ ReadToAssess(c) \/ ReadToWithdraw(c) \/ ReadCondition(c)
       \/ \E k \in Made : ReadToAccept(c, k)
       \/ \E u \in Staff :
            \/ ReadToPropose(c, u) \/ ReadToReject(c, u)
            \/ \E k \in Made : ReadToApprove(c, u, k) \/ ReadToExecute(c, u, k)
  \/ \E u \in Staff, k \in Made : Reverse(u, k)
  \/ Complete \/ Pay \/ ReversePayment

Spec == Init /\ [][Next]_vars
-----------------------------------------------------------------------------
(* Properties. *)

Open == {"REQUESTED", "MORE_INFO_REQUIRED", "AFFORDABILITY_ASSESSED", "SPECIALIST_REVIEW",
         "OPTIONS_PROPOSED", "APPROVED", "CUSTOMER_ACCEPTED", "CONDITIONS_SATISFIED"}

TypeOK ==
  /\ case \in Open \cup {"MONITORING", "COMPLETED", "REVERSED", "WITHDRAWN", "REJECTED"}
  /\ condition \in {"NONE", "OUTSTANDING", "SATISFIED"}
  /\ case = "CONDITIONS_SATISFIED" => condition # "OUTSTANDING"
  /\ \A k \in Proposals :
       /\ proposal[k].status \in {"NONE", "PROPOSED", "APPROVED", "ACCEPTED", "EXECUTED",
                                  "SUPERSEDED", "REJECTED"}
       /\ proposal[k].approvals \subseteq Staff
       /\ amendment[k].status \in {"NONE", "EXECUTED", "REVERSED"}
  /\ loan.terms \in Proposals \cup {0} /\ loan.owed \in Nat /\ loan.paid \in Nat

\* "nothing here changes contractual terms until an approved proposal that the
\* customer accepted is executed": the terms in force were approved by as many
\* people as they needed, none of whom proposed them or asked for them, and were
\* accepted.
TermsAreAgreed ==
  LET k == loan.terms
  IN  k # 0 => /\ amendment[k].status = "EXECUTED" /\ proposal[k].accepted
               /\ Cardinality(proposal[k].approvals) >= proposal[k].required
               /\ proposal[k].approvals \cap {proposal[k].by, initiator} = {}

\* Of a case one proposal at most is proposed, approved or accepted.
OneLiveProposal == Cardinality({k \in Proposals : Alive(proposal[k])}) <= 1

\* A reversal writes the balances back as they were before the amendment: no
\* payment is lost in it, and no waiver stays.
NothingIsLost ==
  loan.owed = Lent - loan.paid - Cardinality({k \in Proposals : amendment[k].status = "EXECUTED"})

\* What a case may do to its loan, however its calls race with each other and with
\* payments.
LoanIsAmendedInOrder == TypeOK /\ TermsAreAgreed /\ OneLiveProposal /\ NothingIsLost

\* "A changed proposal supersedes earlier ones, including approved or accepted
\* versions": what was superseded or withdrawn is not executed.
SupersededIsNotExecuted == [][\A k \in Proposals :
  amendment[k].status = "NONE" /\ amendment'[k].status = "EXECUTED"
    => proposal'[k].status = "EXECUTED"]_vars

\* A case whose amendment is in force is not under review.
ReviewChangesNothing == case \in Open => loan.terms = 0

\* satisfyCondition: no case waits for conditions that are all satisfied.
ConditionsAdvance == case = "CUSTOMER_ACCEPTED" => condition = "OUTSTANDING"
=============================================================================
