------------------------------ MODULE MCCases ------------------------------
(* The contract of a loan and those who work on it: the application it comes *)
(* from, a case that restructures it, and its collection - reviews of        *)
(* promises, the collectors' queue, demands on the guarantor and set-off.    *)
EXTENDS Restructuring, TLC

CONSTANTS s1, s2, s3, s4, t1, t2, c1, c2

\* Those of Origination; its staff and the approvals it requires have names of
\* their own here.
CONSTANTS
  Officers, Needed,
  Tellers, Offers, Statements, Agreed, Backdate, LastPolicy, LastDay, MaxReceived

\* Statements are numbered from 1.
ASSUME ApplicationAssumption ==
  /\ IsFiniteSet(Officers) /\ Nobody \notin Tellers
  /\ IsFiniteSet(Statements) /\ Statements = 1 .. Cardinality(Statements)
  /\ Needed \in Nat /\ Agreed \in Nat

VARIABLES
  scene,
  app, approvals, policy, statement, precedent, booked, task, refund, date, request, refunded,
  day, debt, late, receipt, chore, form, promise, review, claimed, done, demand, payer, posted,
  setoff, applied

applicationVars ==
  <<app, approvals, policy, statement, precedent, booked, task, refund, date, request, refunded>>
arrearsVars ==
  <<day, debt, late, receipt, chore, form, promise, review, claimed, done, demand, payer, posted,
    setoff, applied>>
allVars == <<vars, scene, applicationVars, arrearsVars>>

Alike == Permutations(Staff) \cup Permutations({t1, t2}) \cup Permutations(Calls)

Application == INSTANCE Origination WITH
  Staff <- Officers, Required <- Needed,
  condition <- precedent, loan <- booked, call <- request

\* A loan in arrears and those who chase it.
Arrears(m) == INSTANCE Collections WITH
  Due <- m.due, Grace <- m.grace, MaxAhead <- m.ahead, Backdate <- m.backdate, From <- m.from,
  Automatic <- m.automatic, Guarantee <- m.guarantee, Staff <- m.staff, Reviewers <- m.reviewers,
  Promises <- m.promises, Demands <- m.demands, SetOffs <- m.setoffs, Receipts <- m.receipts,
  Calls <- m.calls, LastDay <- m.lastDay,
  loan <- debt, task <- chore, call <- payer

Unit ==
  [due |-> <<0>>, grace |-> 0, ahead |-> 0, backdate |-> 0, from |-> <<3>>, automatic |-> {},
   guarantee |-> 2, staff |-> {}, reviewers |-> {}, promises |-> {}, demands |-> {},
   setoffs |-> {}, receipts |-> {1}, calls |-> {}, lastDay |-> 2]

\* Two promises under one review; two reviews of one promise, with payments entered
\* late; two collectors, a promise and a set-off; and two demands with two payments
\* of the guarantor at once.
Loans ==
  [promises |-> [Unit EXCEPT !.reviewers = {s4}, !.promises = {1, 2}],
   reviews |-> [Unit EXCEPT !.reviewers = {t1, t2}, !.promises = {1}, !.backdate = 1],
   queue |-> [Unit EXCEPT !.staff = {t1, t2}, !.promises = {1}, !.setoffs = {1},
                          !.from = <<1, 2>>, !.automatic = {1}],
   claims |-> [Unit EXCEPT !.due = <<0, 0, 0>>, !.demands = {1, 2}, !.receipts = {1, 2, 3},
                           !.calls = {c1, c2}, !.lastDay = 1]]

\* The application is s4's, whom nothing else tells from the others.  The parts a
\* scene leaves aside are in one state.
MCInit ==
  /\ scene \in {"case", "application"} \cup DOMAIN Loans
  /\ Init /\ Application!Init
  /\ app.createdBy = s4
  /\ scene # "case" => initiator = Customer
  /\ scene # "application" => app.terms = "A" /\ precedent.status = "NONE"
  /\ IF scene \in DOMAIN Loans THEN \E s \in DOMAIN Loans : s = scene /\ Arrears(Loans[s])!Init
                               ELSE Arrears(Unit)!Init

ArrearsNext == \E s \in DOMAIN Loans : s = scene /\ Arrears(Loans[s])!Next

MCNext ==
  \/ scene = "case" /\ Next /\ UNCHANGED <<scene, applicationVars, arrearsVars>>
  \/ scene = "application" /\ Application!Next /\ UNCHANGED <<scene, vars, arrearsVars>>
  \/ ArrearsNext /\ UNCHANGED <<scene, vars, applicationVars>>

MCSpec == MCInit /\ [][MCNext]_allVars

\* The properties of Origination and Collections, under names of their own.
ContractedAsDisclosed == Application!ContractedAsDisclosed
DecidedInOrder == Application!DecidedInOrder

PromisesAreFollowed ==
  \A s \in DOMAIN Loans : s = scene => Arrears(Loans[s])!PromisesAreFollowed

DemandedIsPosted == \A s \in DOMAIN Loans : s = scene => Arrears(Loans[s])!DemandedIsPosted

GuaranteeIsNotExceeded ==
  \A s \in DOMAIN Loans : s = scene => Arrears(Loans[s])!GuaranteeIsNotExceeded
=============================================================================
