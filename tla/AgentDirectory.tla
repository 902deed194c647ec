--------------------------- MODULE AgentDirectory ---------------------------
(***************************************************************************)
(* AgentDirectory (collaboration/directory.py) with the LeastBusyScheduler  *)
(* (collaboration/scheduler.py): endpoints come and go while borrowers ask   *)
(* the selection policy, outside the lock, on a snapshot.                    *)
(*                                                                         *)
(* A slot is one _AgentSlot object: [object, spec, active, generation,       *)
(* registered].  An object that was popped is never used again; the next      *)
(* registration of the same id makes a new one.  A spec stands for its        *)
(* endpoint: [able, limit] says whether it has the capability the tasks need  *)
(* and its max_concurrency.                                                  *)
(***************************************************************************)
EXTENDS Naturals, FiniteSets

CONSTANTS
    AgentIds,    \* agent_ids, numbers: the policy orders them
    Borrowers,   \* calls of acquire, one task at a time
    MaxLimit,    \* bound: the largest max_concurrency
    MaxEdits     \* bound: registrations, replacements and removals

ASSUME DirectoryAssumption ==
    /\ AgentIds \subseteq Nat /\ MaxLimit \in Nat \ {0} /\ MaxEdits \in Nat
    /\ IsFiniteSet(Borrowers)

VARIABLES
    slot,        \* _slots, NoSlot where there is none
    borrower,    \* where each call of acquire is, with its snapshot and lease
    edits        \* registrations, replacements and removals so far

dirVars == <<slot, borrower, edits>>

Specs == [able : BOOLEAN, limit : 1..MaxLimit]
NoSpec == [able |-> FALSE, limit |-> 0]
NoSlot == [object |-> 0, spec |-> NoSpec, active |-> 0, generation |-> 0, registered |-> FALSE]
Gone(a) == slot[a].object = 0
Away == [pc |-> "away", view |-> <<>>, agent |-> 0, object |-> 0, spec |-> NoSpec]

DirInit ==
    /\ slot = [a \in AgentIds |-> NoSlot]
    /\ borrower = [b \in Borrowers |-> Away] /\ edits = 0

----------------------------------------------------------------------------
(* The registry                                                             *)

Edit == edits < MaxEdits /\ edits' = edits + 1 /\ UNCHANGED borrower

\* _replace_slot: the active count stays with the object.
Replaced(s, spec) == [s EXCEPT !.spec = spec, !.generation = @ + 1]

\* register; the number of the edit names a new slot object.
RegisterEndpoint(a, spec, replacing) ==
    /\ Edit /\ (Gone(a) \/ ~slot[a].registered \/ replacing)
    /\ slot' = [slot EXCEPT ![a] =
         IF Gone(a)
         THEN [object |-> edits', spec |-> spec, active |-> 0, generation |-> 0,
               registered |-> TRUE]
         ELSE [Replaced(@, spec) EXCEPT !.registered = TRUE]]

\* replace: only of an agent that is registered.
ReplaceEndpoint(a, spec) ==
    /\ Edit /\ slot[a].registered /\ slot' = [slot EXCEPT ![a] = Replaced(@, spec)]

Unregistered(s) == [s EXCEPT !.registered = FALSE, !.generation = @ + 1]

\* unregister: the slot stays until its last lease is back.
UnregisterEndpoint(a) ==
    /\ Edit /\ slot[a].registered
    /\ slot' = [slot EXCEPT ![a] = IF @.active = 0 THEN NoSlot ELSE Unregistered(@)]

----------------------------------------------------------------------------
(* acquire                                                                  *)

Goes(b, to) == borrower' = [borrower EXCEPT ![b] = to]

\* The snapshot under the lock; without a registered agent the call fails.
TakeView(b) ==
    /\ borrower[b].pc \in {"away", "again"}
    /\ LET here == {a \in AgentIds : slot[a].registered} IN
       Goes(b, IF here = {} THEN Away
               ELSE [Away EXCEPT !.pc = "select", !.view = [a \in here |-> slot[a]]])
    /\ UNCHANGED <<slot, edits>>

\* LeastBusyScheduler.select: able, not full, the least busy, the smallest id.
Busy(view, a) == view[a].active
Free(view) == {a \in DOMAIN view : view[a].spec.able /\ Busy(view, a) < view[a].spec.limit}
LeastBusy(view) ==
    CHOOSE a \in Free(view) : \A c \in Free(view) :
        Busy(view, a) < Busy(view, c) \/ (Busy(view, a) = Busy(view, c) /\ a <= c)

\* await policy.select: it raises when nobody is able or all who are, are full.
SelectAgent(b) ==
    /\ borrower[b].pc = "select"
    /\ Goes(b, IF Free(borrower[b].view) = {} THEN Away
               ELSE [borrower[b] EXCEPT !.pc = "take", !.agent = LeastBusy(borrower[b].view)])
    /\ UNCHANGED <<slot, edits>>

\* Mutant: the snapshot is trusted for the capacity.
StillValidByGeneration(s, seen) == s.object = seen.object /\ s.generation = seen.generation

\* The checks under the lock, against the snapshot the policy saw.
StillValid(s, seen) ==
    /\ s.object = seen.object /\ s.generation = seen.generation
    /\ s.active < s.spec.limit

\* The lease pins the spec and the endpoint of this moment.
TakeLease(b) ==
    LET a == borrower[b].agent IN
    /\ borrower[b].pc = "take"
    /\ IF StillValid(slot[a], borrower[b].view[a])
       THEN /\ slot' = [slot EXCEPT ![a].active = @ + 1]
            /\ Goes(b, [pc |-> "lease", view |-> <<>>, agent |-> a,
                        object |-> slot[a].object, spec |-> slot[a].spec])
       ELSE Goes(b, [Away EXCEPT !.pc = "again"]) /\ UNCHANGED slot
    /\ UNCHANGED edits

\* The finally clause, on the slot object of the lease.
DropLease(s) ==
    IF ~s.registered /\ s.active = 1 THEN NoSlot ELSE [s EXCEPT !.active = @ - 1]

ReleaseLease(b) ==
    LET a == borrower[b].agent IN
    /\ borrower[b].pc = "lease" /\ Goes(b, Away)
    /\ slot' = [slot EXCEPT ![a] = IF @.object = borrower[b].object THEN DropLease(@) ELSE @]
    /\ UNCHANGED edits

DirNext ==
    \/ (\E a \in AgentIds, spec \in Specs, replacing \in BOOLEAN :
            RegisterEndpoint(a, spec, replacing))
    \/ (\E a \in AgentIds, spec \in Specs : ReplaceEndpoint(a, spec))
    \/ (\E a \in AgentIds : UnregisterEndpoint(a))
    \/ (\E b \in Borrowers : TakeView(b) \/ SelectAgent(b) \/ TakeLease(b) \/ ReleaseLease(b))

DirSpec == DirInit /\ [][DirNext]_dirVars

----------------------------------------------------------------------------
Leases(a) == {b \in Borrowers : borrower[b].pc = "lease" /\ borrower[b].agent = a}

\* The state has the shape the code gives it, and the slot of a removed agent is
\* there for its leases only.
DirTypeOK ==
    /\ slot \in [AgentIds -> [object : 0..MaxEdits, spec : Specs \cup {NoSpec},
                              active : 0..Cardinality(Borrowers),
                              generation : 0..MaxEdits, registered : BOOLEAN]]
    /\ \A b \in Borrowers : borrower[b].pc \in {"away", "again", "select", "take", "lease"}
    /\ \A a \in AgentIds : /\ Gone(a) => slot[a] = NoSlot
                           /\ ~Gone(a) /\ ~slot[a].registered => slot[a].active > 0

\* directory.py: the active count of a slot is the number of leases out on it,
\* and a slot with a lease out is there, whatever was registered, replaced or
\* removed meanwhile.
CountedLeases ==
    \A a \in AgentIds :
        /\ slot[a].active = Cardinality(Leases(a))
        /\ \A b \in Leases(a) : borrower[b].object = slot[a].object

\* directory.py, class comment: replacing an agent cannot get around its
\* max_concurrency.  A lease is only added within the limit in force then,
\* leases on earlier endpoints of the agent included.
WithinLimit ==
    [][\A a \in AgentIds : Cardinality(Leases(a)') > Cardinality(Leases(a))
           => Cardinality(Leases(a)') <= slot'[a].spec.limit]_dirVars

\* directory.py acquire: a lease is on an endpoint that has the capability, even
\* when the agent was replaced after the policy had looked at it.
AbleLease == \A b \in Borrowers : borrower[b].pc = "lease" => borrower[b].spec.able

\* An agent that was removed is not leased any more: between its removal and its
\* next registration no borrower gets it.
RemovedNotLeased ==
    [][\A a \in AgentIds : ~slot[a].registered => Leases(a)' \subseteq Leases(a)]_dirVars

\* A lease is what it says, over registration, replacement and removal while
\* it is out: counted, within the limit, on an able endpoint that was there
\* (directory.py).
DirectorySound ==
    [](DirTypeOK /\ CountedLeases /\ AbleLease) /\ WithinLimit /\ RemovedNotLeased
============================================================================
