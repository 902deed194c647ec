---------------------------- MODULE EventFanout ----------------------------
(***************************************************************************)
(* How a run's events reach their handlers:                                 *)
(*                                                                         *)
(*   EventBus     stores an event, then delivers it to the subscriptions    *)
(*                there are at that moment (observability/bus.py; the same   *)
(*                loop over a fixed tuple is CompositeEventPublisher)        *)
(*   EventRouter  a subscriber that runs its rules by priority (router.py)   *)
(*                                                                         *)
(* Each run publishes its events one after the other; publications of       *)
(* several runs interleave at every await, and subscriptions and rules come *)
(* and go meanwhile.  An event is [run, seq]; whether a filter or a rule    *)
(* takes it, and whether its predicate raises, is open.                     *)
(***************************************************************************)
EXTENDS Naturals, Sequences, FiniteSets, SequencesExt

CONSTANTS
    Publishers,  \* runs that publish
    Subs,        \* subscriptions; the router's own is RouterSub
    RouterSub,
    Priorities,  \* the priority of each rule of the router
    MaxEvents    \* bound: events of all runs

ASSUME FanoutAssumption ==
    /\ MaxEvents \in Nat /\ RouterSub \in Subs
    /\ \A r \in DOMAIN Priorities : Priorities[r] \in Nat

VARIABLES
    mode,        \* failure_mode of the bus and of the router: "raise" or "log"
    subs,        \* _subscriptions, in order
    ever,        \* subscriptions and rules made so far: each is made once
    rules,       \* the router's _rules, in order
    pub,         \* each run's publication under way
    asked,       \* the events EventStore was asked to keep, the failed appends too
    seen,        \* what each subscriber has handled, in order
    fired        \* the rules each run's route under way has run, in order

fanVars == <<mode, subs, ever, rules, pub, asked, seen, fired>>

Rules == DOMAIN Priorities
NoPub == [pc |-> "idle", seq |-> 0, at |-> 0, targets |-> <<>>, todo |-> <<>>, stayed |-> {}]
Event(r) == [run |-> r, seq |-> pub[r].seq]

FanInit ==
    /\ mode \in [{"bus", "router"} -> {"raise", "log"}] /\ subs = <<>> /\ ever = {} /\ rules = <<>>
    /\ pub = [r \in Publishers |-> NoPub] /\ asked = {}
    /\ seen = [s \in Subs |-> <<>>] /\ fired = [r \in Publishers |-> <<>>]

\* subscribe; add_rule
SubscribeTo(s) ==
    /\ s \notin ever /\ ever' = ever \cup {s} /\ subs' = Append(subs, s)
    /\ UNCHANGED <<mode, rules, pub, asked, seen, fired>>

AddRule(x) ==
    /\ x \notin ever /\ ever' = ever \cup {x} /\ rules' = Append(rules, x)
    /\ UNCHANGED <<mode, subs, pub, asked, seen, fired>>

\* Subscription.cancel, remove_rule: at any time, in a handler too.
CancelSub(s) ==
    /\ s \in ToSet(subs) /\ subs' = SelectSeq(subs, LAMBDA x : x # s)
    /\ pub' = [r \in Publishers |-> [pub[r] EXCEPT !.stayed = @ \ {s}]]
    /\ UNCHANGED <<mode, ever, rules, asked, seen, fired>>

RemoveRule(x) ==
    /\ x \in ToSet(rules) /\ rules' = SelectSeq(rules, LAMBDA y : y # x)
    /\ UNCHANGED <<mode, subs, ever, pub, asked, seen, fired>>

----------------------------------------------------------------------------
(* EventBus.publish                                                         *)

Raised(r) == [NoPub EXCEPT !.pc = "raised", !.seq = pub[r].seq]

\* Mutant: a failure that is only logged ends the loop.
FailsQuietly(r, next) == IF mode["bus"] = "raise" THEN Raised(r) ELSE [next EXCEPT !.pc = "done"]

\* _handle_failure: the publication ends when the mode says so.
Fails(r, next) == IF mode["bus"] = "raise" THEN Raised(r) ELSE next

\* Events published so far.
Published == {e \in Publishers \X (1..MaxEvents) : e[2] <= pub[e[1]].seq}

StartPublish(r) ==
    /\ pub[r].pc \in {"idle", "raised", "done"} /\ Cardinality(Published) < MaxEvents
    /\ pub' = [pub EXCEPT ![r] = [NoPub EXCEPT !.pc = "store", !.seq = pub[r].seq + 1]]
    /\ UNCHANGED <<mode, subs, ever, rules, asked, seen, fired>>

\* await store.append; then the tuple of the subscriptions there are.
StoreEvent(r, ok) ==
    /\ pub[r].pc = "store"
    /\ asked' = asked \cup {Event(r)}
    /\ LET next == [pub[r] EXCEPT !.pc = "deliver", !.targets = subs, !.stayed = ToSet(subs)]
       IN pub' = [pub EXCEPT ![r] = IF ok THEN next ELSE Fails(r, next)]
    /\ UNCHANGED <<mode, subs, ever, rules, seen, fired>>

\* the tuple taken before the first await
Targets(r) == pub[r].targets

\* The handler of target n has returned or raised.
Handled(r, n, ok) ==
    /\ seen' = IF ok THEN [seen EXCEPT ![Targets(r)[n]] = Append(@, Event(r))] ELSE seen
    /\ LET next == [pub[r] EXCEPT !.pc = "deliver", !.at = n, !.todo = <<>>]
       IN pub' = [pub EXCEPT ![r] = IF ok THEN next
                                    ELSE Fails(r, [next EXCEPT !.stayed = @ \ {Targets(r)[n]}])]
    /\ fired' = [fired EXCEPT ![r] = <<>>]

\* await subscription.deliver
DeliverTo(r, ok) ==
    LET n == pub[r].at + 1 IN
    /\ pub[r].pc = "deliver" /\ n <= Len(Targets(r)) /\ Targets(r)[n] # RouterSub
    /\ Handled(r, n, ok)
    /\ UNCHANGED <<mode, subs, ever, rules, asked>>

\* subscription.matches: its types and its predicate pass the event over
PassOver(r) ==
    LET n == pub[r].at + 1 IN
    /\ pub[r].pc = "deliver" /\ n <= Len(Targets(r)) /\ Targets(r)[n] # RouterSub
    /\ pub' = [pub EXCEPT ![r].at = n, ![r].stayed = @ \ {Targets(r)[n]}]
    /\ UNCHANGED <<mode, subs, ever, rules, asked, seen, fired>>

\* The predicate is asked outside the try: one that raises ends the publication
\* whatever the mode.
MatchRaises(r) ==
    LET n == pub[r].at + 1 IN
    /\ pub[r].pc = "deliver" /\ n <= Len(Targets(r)) /\ Targets(r)[n] # RouterSub
    /\ pub' = [pub EXCEPT ![r] = Raised(r)]
    /\ UNCHANGED <<mode, subs, ever, rules, asked, seen, fired>>

EndPublish(r) ==
    /\ pub[r].pc = "deliver" /\ pub[r].at >= Len(Targets(r))
    /\ pub' = [pub EXCEPT ![r] =
                 [NoPub EXCEPT !.pc = "done", !.seq = pub[r].seq, !.stayed = pub[r].stayed]]
    /\ UNCHANGED <<mode, subs, ever, rules, asked, seen, fired>>

----------------------------------------------------------------------------
(* EventRouter.route, the handler of RouterSub                              *)

\* sorted() by priority, which keeps the order of equal ones
ByPriority(list) ==
    LET before(a, b) == Priorities[a] < Priorities[b]
        insert(s, x) == SelectSeq(s, LAMBDA y : ~before(x, y)) \o <<x>>
                          \o SelectSeq(s, LAMBDA y : before(x, y))
    IN FoldLeft(insert, <<>>, list)

RouteBegin(r) ==
    LET n == pub[r].at + 1 IN
    /\ pub[r].pc = "deliver" /\ n <= Len(Targets(r)) /\ Targets(r)[n] = RouterSub
    /\ pub' = [pub EXCEPT ![r].pc = "route", ![r].todo = ByPriority(rules)]
    /\ UNCHANGED <<mode, subs, ever, rules, asked, seen, fired>>

\* The next action; one that fails is logged, or ends the route and with it
\* the delivery to the router.
RouteStep(r, ok) ==
    /\ pub[r].pc = "route" /\ pub[r].todo # <<>>
    /\ IF ok \/ mode["router"] = "log"
       THEN /\ pub' = [pub EXCEPT ![r].todo = Tail(@)] /\ UNCHANGED seen
            /\ fired' = [fired EXCEPT ![r] = Append(@, Head(pub[r].todo))]
       ELSE Handled(r, pub[r].at + 1, FALSE)
    /\ UNCHANGED <<mode, subs, ever, rules, asked>>

\* rule.matches passes the event over, or its predicate raises: that ends the
\* route whatever the router's mode, and the bus takes it for a failed handler.
RulePasses(r) ==
    /\ pub[r].pc = "route" /\ pub[r].todo # <<>>
    /\ pub' = [pub EXCEPT ![r].todo = Tail(@)]
    /\ UNCHANGED <<mode, subs, ever, rules, asked, seen, fired>>

RuleRaises(r) ==
    /\ pub[r].pc = "route" /\ pub[r].todo # <<>> /\ Handled(r, pub[r].at + 1, FALSE)
    /\ UNCHANGED <<mode, subs, ever, rules, asked>>

RouteEnd(r) ==
    /\ pub[r].pc = "route" /\ pub[r].todo = <<>> /\ Handled(r, pub[r].at + 1, TRUE)
    /\ UNCHANGED <<mode, subs, ever, rules, asked>>

FanNext ==
    \/ (\E s \in Subs : SubscribeTo(s) \/ CancelSub(s))
    \/ (\E x \in Rules : AddRule(x) \/ RemoveRule(x))
    \/ (\E r \in Publishers : StartPublish(r) \/ EndPublish(r) \/ RouteBegin(r) \/ RouteEnd(r))
    \/ (\E r \in Publishers : PassOver(r) \/ MatchRaises(r) \/ RulePasses(r) \/ RuleRaises(r))
    \/ (\E r \in Publishers, ok \in BOOLEAN :
            StoreEvent(r, ok) \/ DeliverTo(r, ok) \/ RouteStep(r, ok))

----------------------------------------------------------------------------
\* bus.py publish: when a publication has ended without raising, everybody who
\* was subscribed from the store to the end, whose filter takes the event and
\* whose handler did not fail has handled it, whoever else was cancelled or is
\* being served by another run's publication meanwhile.
EveryoneServed ==
    \A r \in Publishers : pub[r].pc = "done" =>
        \A s \in pub[r].stayed : Event(r) \in ToSet(seen[s])

\* bus.py publish: an event is handled by nobody before the store was asked, and
\* each subscriber handles a run's events in their order and once.
StoredThenSeen ==
    \A s \in Subs :
        /\ ToSet(seen[s]) \subseteq asked
        /\ \A i, j \in DOMAIN seen[s] :
              i < j /\ seen[s][i].run = seen[s][j].run => seen[s][i].seq < seen[s][j].seq

\* router.py route: actions run by priority, lowest number first, each once, also
\* when a rule is added or removed while the route waits for an action.
RulesInOrder ==
    \A r \in Publishers :
        LET line == fired[r] \o pub[r].todo IN
        \A i, j \in DOMAIN line :
            i < j => Priorities[line[i]] <= Priorities[line[j]] /\ line[i] # line[j]

\* Concurrent publications, subscriptions that come and go and rules that are
\* changed under way: everybody gets what he is owed, in order (bus.py, router.py).
FanoutSound == EveryoneServed /\ StoredThenSeen /\ RulesInOrder
============================================================================
