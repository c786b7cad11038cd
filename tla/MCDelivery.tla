----------------------------- MODULE MCDelivery -----------------------------
(* The two queues of messages to the outside that API instances share: the   *)
(* outbox, or the webhooks of one organisation.                              *)
EXTENDS Outbox

CONSTANTS HookMessages, HookAttempts, HookBackoff, TestEvent, Endpoints, Subscribed, Admins,
          DisableAfter, FanOutBatch, MaxActs

VARIABLES scene, endpoint, queued, delivery, hookRun, desk, always, hookDeaths, acts

hookVars == <<endpoint, queued, delivery, hookRun, desk, always, hookDeaths, acts>>
allVars == <<vars, scene, hookVars>>

ASSUME HooksAssumption ==
  /\ TestEvent \notin HookMessages
  /\ Subscribed \subseteq HookMessages \X Endpoints
  /\ HookAttempts \in Nat \ {0}
  /\ HookBackoff \in [1 .. HookAttempts -> Nat]
  /\ DisableAfter \in Nat /\ MaxActs \in Nat
  /\ Admins # {} /\ \A a \in Admins : \E b \in Admins : b # a

LinearBackoff == [n \in 1 .. MaxAttempts |-> n]
HooksBackoff == [n \in 1 .. HookAttempts |-> n]
Everything == HookMessages \X Endpoints

Hooks == INSTANCE Webhooks WITH
  Messages <- HookMessages, Backoff <- HookBackoff,
  MaxAttempts <- HookAttempts, run <- hookRun, deaths <- hookDeaths

InOutbox(A) == scene = "outbox" /\ A /\ UNCHANGED <<scene, hookVars>>
InHooks(A) == scene = "webhooks" /\ A /\ UNCHANGED <<scene, vars>>

MCInit ==
  /\ scene \in {"outbox", "webhooks"} /\ Init /\ Hooks!Init
  /\ scene = "outbox" => \A e \in Endpoints : endpoint[e].status = "NONE"
MCNext == InOutbox(Next) \/ InHooks(Hooks!Next)

MCSpec ==
  /\ MCInit /\ [][MCNext]_allVars
  /\ WF_allVars(InOutbox(Tick)) /\ WF_allVars(InHooks(Hooks!Tick))
  /\ \A w \in Workers : WF_allVars(InOutbox(Works(w))) /\ WF_allVars(InHooks(Hooks!Works(w)))

\* The properties of Webhooks, under names of their own.
HooksImplementLeased == Hooks!ImplementsLeased
ActiveEndpointsHear == Hooks!TypeOK /\ Hooks!ActiveEndpointsHear

\* Of both queues: what was written with its business change is sent or given up
\* in the end, whoever dies and however runs write over each other.
EverythingIsAnswered == Answered /\ Hooks!EventsArrive
=============================================================================
