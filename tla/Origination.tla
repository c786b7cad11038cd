---------------------------- MODULE Origination ----------------------------
(***************************************************************************)
(* One loan application, from its draft to the money paid out              *)
(* (ApplicationsService, KeyFactsService, ServicingService).  An           *)
(* application is recommended, approved by enough people, disclosed to the *)
(* customer in a key facts statement, and booked as a loan whose           *)
(* disbursement is prepared, approved and executed.                        *)
(*                                                                         *)
(* A request about the application reads it and writes it where its        *)
(* version is what was read (cas).  A statement is issued by two           *)
(* transactions.  What is done to the booked loan locks its row.           *)
(***************************************************************************)
EXTENDS Integers, FiniteSets

CONSTANTS
  Staff,        \* who creates, recommends and decides on applications
  Tellers,      \* who prepares, approves and executes disbursements
  Nobody,
  Calls,        \* requests under way at once
  Offers,       \* terms that may be asked for
  Statements,   \* numbers of key facts statements, 1 .. n
  Required,     \* approvals the workflow asks for
  Agreed,       \* the down payment of the terms
  Backdate,     \* maxBackdateDays
  LastPolicy,   \* bound: versions of the policies a contract is composed from
  LastDay,      \* bound: business dates
  MaxReceived   \* bound: down payments recorded

VARIABLES
  app,         \* Application: status, terms, who created and recommended it
  approvals,   \* CreditDecision rows of type APPROVE, by person
  policy,      \* the version of the lending policies in force
  statement,   \* KeyFactsStatement rows: status, and the terms disclosed
  condition,   \* the ConditionPrecedent: its status
  loan,        \* LoanAccount: status, contract, down payment received and held
  task,        \* the last ApprovalTask of action DISBURSEMENT
  refund,      \* the last ApprovalTask of action DOWN_PAYMENT_REFUND
  date,        \* the business date
  call,        \* what each request has read
  refunded     \* history: down payment paid back

vars == <<app, approvals, policy, statement, condition, loan, task, refund, date, call, refunded>>
loanVars == <<loan, task, refund, date, refunded>>

NoStatement == [status |-> "NONE", terms |-> <<>>]
NoTask == [status |-> "NONE", maker |-> Nobody, decidedBy |-> Nobody, day |-> 0]
NoRefund == [status |-> "NONE", maker |-> Nobody, amount |-> 0]
Idle == [doing |-> "NOTHING", by |-> Nobody, to |-> "NONE", at |-> 0, terms |-> <<>>,
         seen |-> {}, count |-> 0]

Made == {k \in Statements : statement[k].status # "NONE"}
Live == {k \in Statements : statement[k].status \in {"ISSUED", "ACCEPTED"}}

\* keyFactsTermsHash: of the approved terms and the contract composed from them.
TermsHash == <<app.terms, policy>>

Makers == {app.createdBy, app.recommendedBy}
Count(f) == Cardinality({u \in Staff : f[u] = 1}) + 2 * Cardinality({u \in Staff : f[u] = 2})

Does(c, what) == call[c].doing = what
Leaves(c) == call' = [call EXCEPT ![c] = Idle]
Reads(c, what) ==
  /\ Does(c, "NOTHING") /\ call' = [call EXCEPT ![c] = what]
  /\ UNCHANGED <<app, approvals, policy, statement, condition, loanVars>>
Doing(what, u) == [Idle EXCEPT !.doing = what, !.by = u]

\* The requests that do not ask for the version of the application any more.
Unconditional == {"NOTHING", "FILE", "ACCEPT", "RESOLVE"}

\* cas: of the requests that have read the application, one writes it, and the
\* others are rolled back.
AppWritten(c) == call' = [d \in Calls |->
  IF d # c /\ call[d].doing \in Unconditional THEN call[d] ELSE Idle]
Cas(c, row) == app' = row /\ AppWritten(c)

-----------------------------------------------------------------------------
(* The application. *)

\* updateTerms
ReadDraft(c) == app.status = "DRAFT" /\ Reads(c, Doing("TERMS", Nobody))

WriteTerms(c) ==
  /\ Does(c, "TERMS")
  /\ \E t \in Offers : Cas(c, [app EXCEPT !.terms = t])
  /\ UNCHANGED <<approvals, policy, statement, condition, loanVars>>

\* submit, and assess
ReadToSubmit(c) == app.status = "DRAFT" /\ Reads(c, Doing("SUBMIT", Nobody))

WriteSubmitted(c) ==
  /\ Does(c, "SUBMIT") /\ Cas(c, [app EXCEPT !.status = "SUBMITTED"])
  /\ UNCHANGED <<approvals, policy, statement, condition, loanVars>>

\* recommend
ReadToRecommend(c, u) ==
  /\ app.status = "SUBMITTED" /\ u # app.createdBy
  /\ Reads(c, Doing("RECOMMEND", u))

WriteRecommended(c) ==
  /\ Does(c, "RECOMMEND")
  /\ Cas(c, [app EXCEPT !.status = "RECOMMENDED", !.recommendedBy = call[c].by])
  /\ UNCHANGED <<approvals, policy, statement, condition, loanVars>>

\* approve: everyone who created, recommended or approved is a maker.
ReadToApprove(c, u) ==
  /\ app.status = "RECOMMENDED"
  /\ u \notin Makers /\ approvals[u] = 0
  /\ Reads(c, [Doing("APPROVE", u) EXCEPT !.count = Count(approvals)])

\* "bump the version so a concurrent approval loses"
BumpVersion(c) == Cas(c, app)

WriteApproval(c) ==
  /\ Does(c, "APPROVE")
  /\ approvals' = [approvals EXCEPT ![call[c].by] = IF @ < 2 THEN @ + 1 ELSE @]
  /\ \/ call[c].count + 1 >= Required /\ Cas(c, [app EXCEPT !.status = "APPROVED"])
     \/ call[c].count + 1 < Required /\ BumpVersion(c)
  /\ UNCHANGED <<policy, statement, condition, loanVars>>

\* reject
ReadToReject(c, u) ==
  /\ app.status \in {"SUBMITTED", "RECOMMENDED"} /\ u # app.createdBy
  /\ Reads(c, Doing("REJECT", u))

WriteRejected(c) ==
  /\ Does(c, "REJECT") /\ Cas(c, [app EXCEPT !.status = "REJECTED"])
  /\ UNCHANGED <<approvals, policy, statement, condition, loanVars>>

-----------------------------------------------------------------------------
(* Key facts statements. *)

\* A new version of a policy is approved: contracts composed from now on differ.
RevisePolicy ==
  /\ policy < LastPolicy /\ policy' = policy + 1
  /\ UNCHANGED <<app, approvals, statement, condition, loanVars, call>>

\* issue, its first transaction.
PrepareStatement(c) ==
  /\ app.status = "APPROVED"
  /\ \A k \in Live : statement[k].terms # TermsHash
  /\ Reads(c, [Idle EXCEPT !.doing = "ISSUE", !.terms = TermsHash, !.at = Cardinality(Made) + 1])

\* issue, its last transaction: the application is what it was, ...
CheckApplication(c) ==
  /\ Does(c, "ISSUE")
  /\ call' = [call EXCEPT ![c].doing = "FILE", ![c].seen = Live]
  /\ UNCHANGED <<app, approvals, policy, statement, condition, loanVars>>

\* UNIQUE (tenantId, applicationId, version)
NumberIsFree(k) == k \in Statements \ Made

\* ... and another may write it before the statement is written.
WriteStatement(c) ==
  LET free == CHOOSE k \in Statements : k \notin Made /\ 1 .. k - 1 \subseteq Made
  IN  /\ Does(c, "FILE") /\ NumberIsFree(call[c].at)
      /\ statement' = [k \in Statements |->
           IF k = free THEN [status |-> "ISSUED", terms |-> call[c].terms]
           ELSE IF k \in Live \cap call[c].seen THEN [statement[k] EXCEPT !.status = "SUPERSEDED"]
           ELSE statement[k]]
      /\ Leaves(c)
      /\ UNCHANGED <<app, approvals, policy, condition, loanVars>>

\* accept: what is shown is what would be contracted.
ReadStatement(c, k) ==
  /\ app.status = "APPROVED" /\ statement[k] = [status |-> "ISSUED", terms |-> TermsHash]
  /\ Reads(c, [Idle EXCEPT !.doing = "ACCEPT", !.at = k])

WriteAccepted(c) ==
  LET k == call[c].at
  IN  /\ Does(c, "ACCEPT") /\ statement[k].status = "ISSUED"
      /\ statement' = [statement EXCEPT ![k].status = "ACCEPTED"]
      /\ Leaves(c)
      /\ UNCHANGED <<app, approvals, policy, condition, loanVars>>

-----------------------------------------------------------------------------
(* Booking. *)

\* A gate that asks for an acceptance only.
AcceptedAtAll(k) == statement[k].status = "ACCEPTED"

\* keyFactsBlocker: of the terms as they are contracted now.
AcceptedAsItIs(k) == statement[k] = [status |-> "ACCEPTED", terms |-> TermsHash]

ReadToBook(c) ==
  /\ app.status = "APPROVED"
  /\ \E k \in Live : /\ \A j \in Live : j <= k
                     /\ AcceptedAsItIs(k)
                     /\ Reads(c, [Idle EXCEPT !.doing = "BOOK", !.at = k, !.terms = TermsHash])

\* markKeyFactsBooked; bookFacility books a line in the same way.
WriteBooked(c) ==
  LET k == call[c].at
  IN  /\ Does(c, "BOOK") /\ statement[k].status = "ACCEPTED"
      /\ statement' = [statement EXCEPT ![k].status = "BOOKED"]
      /\ loan' = [loan EXCEPT !.status = "BOOKED", !.contract = call[c].terms]
      /\ Cas(c, [app EXCEPT !.status = "BOOKED"])
      /\ UNCHANGED <<approvals, policy, condition, task, refund, date, refunded>>

\* resolveCondition: read as OUTSTANDING, and written by its id.
ReadCondition(c, u, how) ==
  /\ app.status \in {"APPROVED", "BOOKED"} /\ condition.status = "OUTSTANDING"
  /\ how = "WAIVED" => u # app.createdBy
  /\ Reads(c, [Idle EXCEPT !.doing = "RESOLVE", !.to = how])

WriteCondition(c) ==
  /\ Does(c, "RESOLVE")
  /\ condition' = [status |-> call[c].to]
  /\ Leaves(c)
  /\ UNCHANGED <<app, approvals, policy, statement, loanVars>>

-----------------------------------------------------------------------------
(* The booked loan, on its locked row. *)

OnLoan == UNCHANGED <<app, approvals, policy, statement, condition, call>>

\* checkValueDate
IsAllowed(d) == d <= date /\ date <= d + Backdate

NextDate ==
  /\ date < LastDay /\ date' = date + 1
  /\ UNCHANGED <<loan, task, refund, refunded>> /\ OnLoan

PrepareDisbursement(u) ==
  /\ loan.status = "BOOKED" /\ task.status \notin {"PENDING", "APPROVED"}
  /\ \E d \in 1 .. LastDay : /\ IsAllowed(d)
                             /\ task' = [NoTask EXCEPT !.status = "PENDING", !.maker = u, !.day = d]
  /\ UNCHANGED <<loan, refund, date, refunded>> /\ OnLoan

DecideDisbursement(u, to) ==
  /\ loan.status = "BOOKED" /\ task.status = "PENDING" /\ task.maker # u
  /\ task' = [task EXCEPT !.status = to, !.decidedBy = u]
  /\ UNCHANGED <<loan, refund, date, refunded>> /\ OnLoan

ExecuteDisbursement(u) ==
  /\ loan.status = "BOOKED" /\ task.status = "APPROVED" /\ task.maker # u
  /\ condition.status # "OUTSTANDING"
  /\ loan.received >= Agreed
  /\ IsAllowed(task.day)
  /\ task' = [task EXCEPT !.status = "EXECUTED"]
  /\ loan' = [loan EXCEPT !.status = "ACTIVE", !.held = 0]
  /\ UNCHANGED <<refund, date, refunded>> /\ OnLoan

RecordDownPayment(collectedBy) ==
  /\ loan.status = "BOOKED" /\ loan.recorded < MaxReceived
  /\ loan' = [loan EXCEPT !.received = @ + 1, !.recorded = @ + 1,
                          !.held = IF collectedBy = "LENDER" THEN @ + 1 ELSE @]
  /\ UNCHANGED <<task, refund, date, refunded>> /\ OnLoan

ProposeRefund(u) ==
  /\ loan.status = "BOOKED" /\ refund.status # "PENDING"
  /\ \E n \in 1 .. loan.held :
       refund' = [status |-> "PENDING", maker |-> u, amount |-> n]
  /\ UNCHANGED <<loan, task, date, refunded>> /\ OnLoan

\* A refund that leaves what was received as it is.
ReceivedStill == loan.received

\* What is held, and what was received, is less what is paid back.
HeldLess == loan.held - refund.amount
ReceivedLess == IF loan.received > refund.amount THEN loan.received - refund.amount ELSE 0

PayRefund(u) ==
  /\ loan.status = "BOOKED" /\ refund.status = "PENDING" /\ refund.maker # u
  /\ refund.amount <= loan.held
  /\ refund' = [refund EXCEPT !.status = "EXECUTED"]
  /\ loan' = [loan EXCEPT !.held = HeldLess, !.received = ReceivedLess]
  /\ refunded' = refunded + refund.amount
  /\ UNCHANGED <<task, date>> /\ OnLoan

RejectRefund(u) ==
  /\ refund.status = "PENDING" /\ refund.maker # u
  /\ refund' = [refund EXCEPT !.status = "REJECTED"]
  /\ UNCHANGED <<loan, task, date, refunded>> /\ OnLoan

\* A request that is refused, loses a race or fails is rolled back.
RollBack(c) ==
  /\ ~Does(c, "NOTHING") /\ Leaves(c)
  /\ UNCHANGED <<app, approvals, policy, statement, condition, loanVars>>

-----------------------------------------------------------------------------
Init ==
  /\ app \in [status : {"DRAFT"}, terms : Offers, createdBy : Staff, recommendedBy : {Nobody}]
  /\ approvals = [u \in Staff |-> 0]
  /\ policy = 1
  /\ statement = [k \in Statements |-> NoStatement]
  /\ condition \in [status : {"NONE", "OUTSTANDING"}]
  /\ loan = [status |-> "NONE", contract |-> <<>>, received |-> 0, held |-> 0, recorded |-> 0]
  /\ task = NoTask /\ refund = NoRefund
  /\ date = 1
  /\ call = [c \in Calls |-> Idle]
  /\ refunded = 0

Next ==
  \/ \E c \in Calls :
       \/ ReadDraft(c) \/ WriteTerms(c) \/ ReadToSubmit(c) \/ WriteSubmitted(c)
       \/ WriteRecommended(c) \/ WriteApproval(c) \/ WriteRejected(c)
       \/ PrepareStatement(c) \/ CheckApplication(c) \/ WriteStatement(c) \/ WriteAccepted(c)
       \/ ReadToBook(c) \/ WriteBooked(c) \/ WriteCondition(c) \/ RollBack(c)
       \/ \E u \in Staff : \/ ReadToRecommend(c, u) \/ ReadToApprove(c, u) \/ ReadToReject(c, u)
                           \/ \E how \in {"SATISFIED", "WAIVED"} : ReadCondition(c, u, how)
       \/ \E k \in Statements : ReadStatement(c, k)
  \/ RevisePolicy \/ NextDate
  \/ \E u \in Tellers : \/ PrepareDisbursement(u) \/ ExecuteDisbursement(u)
                        \/ ProposeRefund(u) \/ PayRefund(u) \/ RejectRefund(u)
                        \/ \E to \in {"APPROVED", "REJECTED"} : DecideDisbursement(u, to)
  \/ \E by \in {"LENDER", "SELLER"} : RecordDownPayment(by)

Spec == Init /\ [][Next]_vars
-----------------------------------------------------------------------------
(* Properties. *)

TypeOK ==
  /\ app \in [status : {"DRAFT", "SUBMITTED", "RECOMMENDED", "APPROVED", "REJECTED", "BOOKED"},
              terms : Offers, createdBy : Staff, recommendedBy : Staff \cup {Nobody}]
  /\ approvals \in [Staff -> 0 .. 2]
  /\ \A k \in Statements :
       statement[k].status \in {"NONE", "ISSUED", "ACCEPTED", "SUPERSEDED", "BOOKED"}
  /\ condition.status \in {"NONE", "OUTSTANDING", "SATISFIED", "WAIVED"}
  /\ loan.status \in {"NONE", "BOOKED", "ACTIVE"}
  /\ loan.held \in 0 .. loan.received
  /\ task.status \in {"NONE", "PENDING", "APPROVED", "REJECTED", "EXECUTED"}
  /\ refund.status \in {"NONE", "PENDING", "REJECTED", "EXECUTED"}

\* approve: "Everyone who created, recommended or already approved is a maker":
\* what is approved was approved by as many people as it needed, each of whom
\* counts once and did nothing else for it.
ApprovedByEnough ==
  /\ \A u \in Staff : approvals[u] <= (IF u \in Makers THEN 0 ELSE 1)
  /\ app.status \in {"APPROVED", "BOOKED"} => Count(approvals) >= Required

\* D-123: "no contract without the customer's acceptance of the key facts
\* statement for exactly these terms".
BookedAsDisclosed ==
  loan.status # "NONE" =>
    \E k \in Statements : statement[k] = [status |-> "BOOKED", terms |-> loan.contract]

\* One statement is in force at most, however many are issued at once.
OneStatementInForce == Cardinality(Live) <= 1

\* A loan that is paid out was prepared by one and approved by another; its
\* condition is resolved; and the down payment agreed on was received, and not
\* paid back.
PaidOutInOrder ==
  loan.status = "ACTIVE" =>
    /\ task.status = "EXECUTED" /\ task.decidedBy \notin {Nobody, task.maker}
    /\ condition.status # "OUTSTANDING"
    /\ loan.recorded - refunded >= Agreed

\* The contract is what was disclosed, and one disclosure is in force.
ContractedAsDisclosed == TypeOK /\ BookedAsDisclosed /\ OneStatementInForce

\* Nothing is approved, and nothing paid out, on too few people's word or on
\* conditions that have changed.
DecidedInOrder == ApprovedByEnough /\ PaidOutInOrder

\* Statements: only "the statement in force can be accepted", before booking:
\* none is left for the customer to accept afterwards.
NothingToAcceptAfterBooking == app.status = "BOOKED" => Live = {}

\* resolveCondition: "This condition is already resolved."
ResolvedOnce == [][condition.status \in {"SATISFIED", "WAIVED"} => UNCHANGED condition]_vars

\* User guide, value date out of range: "Prepare again with a valid value date
\* (reject the old task first)".
StaleDisbursementCanBeRejected ==
  loan.status = "BOOKED" /\ task.status \in {"PENDING", "APPROVED"} /\ ~IsAllowed(task.day)
    => \E u \in Tellers : ENABLED DecideDisbursement(u, "REJECTED")
=============================================================================
