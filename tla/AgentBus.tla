------------------------------ MODULE AgentBus ------------------------------
(***************************************************************************)
(* AgentMessageBus (communication/bus.py): a bounded inbox per registered    *)
(* agent, requests matched to responses by correlation id, topics and        *)
(* broadcasts.  The bus lives on one event loop: each stretch between two     *)
(* awaits is a step.                                                         *)
(*                                                                         *)
(* A call is one use of send_request; callers choose the correlation id, and   *)
(* a retry of the same request has the id of the first attempt.  A message is  *)
(* [n, kind, corr]: n orders all sends.  An inbox is an asyncio.Queue       *)
(* object; an agent that registers again has a new one.                       *)
(***************************************************************************)
EXTENDS Naturals, Sequences, FiniteSets, SequencesExt

CONSTANTS
    BusAgents,   \* agent ids, numbers: deliveries go in their order
    Corrs,       \* correlation ids
    InboxSize,   \* queue_maxsize
    MaxSends     \* bound: messages sent in one behaviour

ASSUME BusAssumption == BusAgents \subseteq Nat /\ InboxSize \in Nat \ {0} /\ MaxSends \in Nat

VARIABLES
    inbox,       \* _queues: [on, q] for each agent
    topic,       \* _topic_subscribers of the one topic
    waiting,     \* _pending_replies: the number of the call whose future it is
    sentCount,   \* messages sent so far
    asks,        \* the calls of send_request, by number
    held,        \* requests an agent has received and not answered yet
    log          \* what each agent has received since it registered last

busVars == <<inbox, topic, waiting, sentCount, asks, held, log>>

NoInbox == [on |-> FALSE, q |-> <<>>]
Registered == {a \in BusAgents : inbox[a].on}

BusInit ==
    /\ inbox = [a \in BusAgents |-> NoInbox] /\ topic = {} /\ waiting = [c \in Corrs |-> 0]
    /\ sentCount = 0 /\ asks = <<>> /\ held = {} /\ log = [a \in BusAgents |-> <<>>]

\* register, unregister
JoinBus(a) ==
    /\ ~inbox[a].on /\ inbox' = [inbox EXCEPT ![a].on = TRUE]
    /\ log' = [log EXCEPT ![a] = <<>>]
    /\ UNCHANGED <<topic, waiting, sentCount, asks, held>>

LeaveBus(a) ==
    /\ inbox[a].on /\ inbox' = [inbox EXCEPT ![a] = NoInbox] /\ topic' = topic \ {a}
    /\ UNCHANGED <<waiting, sentCount, asks, held, log>>

\* subscribe_topic, unsubscribe_topic
Subscribe(a) ==
    /\ inbox[a].on /\ a \notin topic /\ topic' = topic \cup {a}
    /\ UNCHANGED <<inbox, waiting, sentCount, asks, held, log>>

Unsubscribe(a) ==
    /\ a \in topic /\ topic' = topic \ {a}
    /\ UNCHANGED <<inbox, waiting, sentCount, asks, held, log>>

----------------------------------------------------------------------------
Full(a) == Len(inbox[a].q) >= InboxSize
Message(kind, corr) == [n |-> sentCount + 1, kind |-> kind, corr |-> corr]

\* _deliver to each of the agents in `to`
Delivered(to, m) ==
    [a \in BusAgents |-> IF a \in to THEN [inbox[a] EXCEPT !.q = Append(@, m)] ELSE inbox[a]]

\* publish_event and broadcast deliver in the order of the ids until one inbox
\* is full; then the error leaves what was delivered where it is.
Reached(to) == {a \in to : \A b \in to : b <= a => ~Full(b)}

Spread(to, m) ==
    /\ sentCount < MaxSends /\ sentCount' = sentCount + 1
    /\ inbox' = Delivered(Reached(to), m)
    /\ UNCHANGED <<topic, waiting, asks, held, log>>

PublishEvent == Spread(topic \cap Registered, Message("event", "none"))
Broadcast(by) == Spread(Registered \ {by}, Message("broadcast", "none"))

----------------------------------------------------------------------------
(* send_request                                                             *)

\* Mutant: a correlation id may have two calls.
FreeToUse(c) == TRUE
Unused(c) == waiting[c] = 0

\* Up to the await.  An unknown recipient or a full inbox ends the call, and
\* its future is popped again.
SendRequest(to, c) ==
    LET n == Len(asks) + 1
        ok == inbox[to].on /\ ~Full(to) IN
    /\ sentCount < MaxSends /\ Unused(c) /\ sentCount' = sentCount + 1
    /\ asks' = Append(asks, [corr |-> c, state |-> IF ok THEN "waits" ELSE "failed",
                                   answer |-> 0])
    /\ waiting' = [waiting EXCEPT ![c] = IF ok THEN n ELSE 0]
    /\ inbox' = IF ok THEN Delivered({to}, Message("request", c)) ELSE inbox
    /\ UNCHANGED <<topic, held, log>>

\* wait_for gives up, or the caller is cancelled: the finally clause pops.
TimeOut(n) ==
    /\ asks[n].state = "waits" /\ asks' = [asks EXCEPT ![n].state = "timeout"]
    /\ waiting' = [waiting EXCEPT ![asks[n].corr] = 0]
    /\ UNCHANGED <<inbox, topic, sentCount, held, log>>

\* The future has its result; the caller runs again and pops it.
Answered(n) ==
    /\ asks[n].state = "set" /\ asks' = [asks EXCEPT ![n].state = "done"]
    /\ waiting' = [waiting EXCEPT ![asks[n].corr] = 0]
    /\ UNCHANGED <<inbox, topic, sentCount, held, log>>

\* receive takes the next message of the inbox.
Receive(a) ==
    /\ inbox[a].on /\ inbox[a].q # <<>>
    /\ LET m == Head(inbox[a].q) IN
       /\ inbox' = [inbox EXCEPT ![a].q = Tail(@)] /\ log' = [log EXCEPT ![a] = Append(@, m)]
       /\ held' = IF m.kind = "request" THEN held \cup {m} ELSE held
    /\ UNCHANGED <<topic, waiting, sentCount, asks>>

OpenFuture(n) == n # 0 /\ asks[n].state = "waits"

\* respond, at any time later and perhaps more than once; refused unless the
\* correlation id has a call whose future is not done.
Respond(m, again) ==
    /\ m \in held
    /\ LET n == waiting[m.corr] IN
       IF OpenFuture(n)
       THEN asks' = [asks EXCEPT ![n].state = "set", ![n].answer = m.n]
       ELSE UNCHANGED asks
    /\ held' = IF again THEN held ELSE held \ {m}
    /\ UNCHANGED <<inbox, topic, waiting, sentCount, log>>

BusNext ==
    \/ (\E a \in BusAgents : JoinBus(a) \/ LeaveBus(a) \/ Subscribe(a) \/ Unsubscribe(a)
                               \/ Broadcast(a) \/ Receive(a))
    \/ PublishEvent
    \/ (\E to \in BusAgents, c \in Corrs : SendRequest(to, c))
    \/ (\E n \in DOMAIN asks : TimeOut(n) \/ Answered(n))
    \/ (\E m \in held, again \in BOOLEAN : Respond(m, again))

BusSpec == BusInit /\ [][BusNext]_busVars

----------------------------------------------------------------------------
\* The state has the shape the code gives it.
BusTypeOK ==
    /\ \A a \in BusAgents : Len(inbox[a].q) <= InboxSize /\ inbox[a].on \in BOOLEAN
    /\ topic \subseteq Registered /\ sentCount \in 0..MaxSends
    /\ waiting \in [Corrs -> 0..Len(asks)]
    /\ \A n \in DOMAIN asks : asks[n].state \in {"waits", "set", "done", "timeout", "failed"}

\* bus.py send_request: a response reaches the call that waits for it.  The
\* table holds exactly the calls under way, each under its own correlation id,
\* after timeouts, refusals and retries with the same id.
OneCallPerCorrelation ==
    \A n \in DOMAIN asks :
        asks[n].state \in {"waits", "set"} <=> waiting[asks[n].corr] = n

\* bus.py respond: the first response a call is given is the one it returns.
FirstAnswerStands ==
    [][\A n \in DOMAIN asks : asks[n].answer # 0
           => asks'[n].answer = asks[n].answer]_busVars

\* bus.py register, _deliver and receive: as long as an agent is registered, what
\* it has received and will receive only grows at its end.  A message leaves an
\* inbox by being received, and a full inbox refuses and drops nothing.
NothingDropped ==
    [][\A a \in BusAgents : inbox[a].on /\ inbox'[a].on
           => IsPrefix(log[a] \o inbox[a].q, log'[a] \o inbox'[a].q)]_busVars

\* Calls get their own answer, once, and no message that was taken is dropped
\* (AgentMessageBus).
BusSound ==
    [](BusTypeOK /\ OneCallPerCorrelation) /\ FirstAnswerStands /\ NothingDropped
============================================================================
