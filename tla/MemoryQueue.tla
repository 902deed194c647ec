---------------------------- MODULE MemoryQueue ----------------------------
(***************************************************************************)
(* InMemoryQueueBackend (matterloop_runtime/queueing.py) and the           *)
(* QueueWorkers that consume it (matterloop_runtime/worker.py).            *)
(*                                                                         *)
(* The backend works under one lock, so each of its operations is one      *)
(* step.  Time is the set of leases that have run out (lapsed) and of      *)
(* released commands whose delay is not over (delayed); the heap orders    *)
(* what is due by the moment it became due, which pending keeps.  A task   *)
(* is one QueueWorker._process, named by its lease, together with its      *)
(* renewal coroutine: lease is the snapshot in _LeaseHolder.               *)
(***************************************************************************)
EXTENDS Naturals, FiniteSets, SequencesExt

CONSTANTS
  Runs,            \* run_ids
  Workers,         \* QueueWorker objects, one per process
  MaxConcurrency,  \* of each worker
  Envs,            \* the environments to look at: sets of Happenings
  MaxEnqueues,     \* bound: commands accepted
  MaxFaults,       \* bound: aborts, failed handlers, leases lapsing under a live task
  MaxRenewals      \* bound: renewals of one lease

Happenings == {"cancel",   \* QueueBackend.cancel
               "raise",    \* a handler raises
               "abort",    \* the tasks of a worker are cancelled by its event loop
               "stall",    \* a lease runs out although its task is alive
               "stop"}     \* QueueWorker.request_stop

ASSUME QueueAssumption ==
  /\ MaxConcurrency \in Nat /\ MaxEnqueues \in Nat /\ MaxFaults \in Nat /\ MaxRenewals \in Nat
  /\ Envs \subseteq SUBSET Happenings

VARIABLES
  env,        \* what may happen, fixed: a member of Envs
  pending,    \* _pending: the due commands, in the order of the heap
  delayed,    \* _pending: the commands that are not due yet
  leased,     \* _leased: the current lease of each lease_id
  lapsed,     \* lease_ids whose expires_at has passed
  known,      \* _known_runs
  cancelled,  \* _cancelled_runs
  issued,     \* number of leases granted; a lease_id is its number
  task,       \* the _process tasks under way
  loop,       \* run_until_stopped of each worker
  stop,       \* _stop_requested of each worker
  used,       \* how much of each bound has been used up
  asked       \* history: the runs whose last command was asked to be cancelled

queue == <<pending, delayed, leased, lapsed, known, cancelled, issued>>
worker == <<task, loop, stop>>
vars == <<env, queue, worker, used, asked>>

Job == [run : Runs, attempt : Nat]
QueueLease == [run : Runs, attempt : Nat, renewed : Nat]

Init ==
  /\ env \in Envs
  /\ pending = <<>> /\ delayed = {} /\ leased = <<>> /\ lapsed = {}
  /\ known = {} /\ cancelled = {} /\ issued = 0
  /\ task = <<>>
  /\ loop = [w \in Workers |-> "idle"]
  /\ stop = [w \in Workers |-> FALSE]
  /\ used = [enqueues |-> 0, faults |-> 0]
  /\ asked = {}

Fault == used.faults < MaxFaults /\ used' = [used EXCEPT !.faults = @ + 1]

-----------------------------------------------------------------------------
(* _reclaim_expired: every operation on a lease starts with it.             *)

\* The members of a set of numbers, the smallest first.
InOrder(S) ==
  [i \in 1 .. Cardinality(S) |-> CHOOSE n \in S : Cardinality({k \in S : k <= n}) = i]

\* f with one more entry, or another value for one.
Put(f, x, v) == [k \in DOMAIN f \cup {x} |-> IF k = x THEN v ELSE f[k]]

Again(l) == [run |-> l.run, attempt |-> l.attempt + 1]

Alive == Restrict(leased, DOMAIN leased \ lapsed)

\* Runs of expired leases that were cancelled while they were held.
Dropped == {leased[l].run : l \in lapsed} \cap cancelled

\* Mutant: expired commands are forgotten.
NotReturned == <<>>

\* Mutant: a redelivery keeps the delivery count.
ReturnedUncounted ==
  LET ids == InOrder({l \in lapsed : leased[l].run \notin cancelled})
  IN [i \in DOMAIN ids |-> [run |-> leased[ids[i]].run, attempt |-> leased[ids[i]].attempt]]

\* The other expired commands go back to the queue, in the order of _leased.
Returned ==
  LET ids == InOrder({l \in lapsed : leased[l].run \notin cancelled})
  IN [i \in DOMAIN ids |-> Again(leased[ids[i]])]

-----------------------------------------------------------------------------
(* The operations of the backend                                            *)

Enqueue(r) ==
  /\ used.enqueues < MaxEnqueues
  /\ r \notin known
  /\ known' = known \cup {r}
  /\ pending' = Append(pending, [run |-> r, attempt |-> 1])
  /\ used' = [used EXCEPT !.enqueues = @ + 1]
  /\ asked' = asked \ {r}
  /\ UNCHANGED <<env, delayed, leased, lapsed, cancelled, issued, worker>>

\* The commands of other runs, in their order.
Without(s, r) ==
  LET kept == InOrder({i \in DOMAIN s : s[i].run # r})
  IN [i \in DOMAIN kept |-> s[kept[i]]]

\* Marks the run; a command that is not leased is removed at once.
Cancel(r) ==
  LET removed == \/ \E i \in DOMAIN pending : pending[i].run = r
                 \/ \E j \in delayed : j.run = r
  IN
  /\ "cancel" \in env
  /\ r \in known
  /\ pending' = Without(pending, r)
  /\ delayed' = {j \in delayed : j.run # r}
  /\ known' = IF removed THEN known \ {r} ELSE known
  /\ cancelled' = IF removed THEN cancelled \ {r} ELSE cancelled \cup {r}
  /\ asked' = asked \cup {r}
  /\ UNCHANGED <<env, leased, lapsed, issued, worker, used>>

\* lease: the first due command that is not marked is leased to w; marked ones
\* on the way are skipped, and their marks stay.
Lease(w) ==
  LET due     == pending \o Returned
      free    == {i \in DOMAIN due : due[i].run \notin cancelled \ Dropped}
      first   == IF free = {} THEN Len(due) + 1 ELSE Min(free)
      id      == issued + 1
      lease   == [run |-> due[first].run, attempt |-> due[first].attempt, renewed |-> 0]
  IN
  /\ loop[w] = "leasing"
  /\ loop' = [loop EXCEPT ![w] = "idle"]
  /\ known' = (known \ Dropped) \ {due[i].run : i \in 1 .. first - 1}
  /\ cancelled' = cancelled \ Dropped
  /\ lapsed' = {}
  /\ pending' = SubSeq(due, first + 1, Len(due))
  /\ IF free = {}
       THEN leased' = Alive /\ UNCHANGED <<issued, task>>
       ELSE /\ issued' = id
            /\ leased' = Put(Alive, id, lease)
            /\ task' = Put(task, id, [worker |-> w, pc |-> "handling",
                                      lease |-> lease, lost |-> FALSE])
  /\ UNCHANGED <<env, delayed, stop, used, asked>>

\* The lease the task holds is the current one (after _reclaim_expired).
IsCurrent(l) == l \in DOMAIN Alive /\ Alive[l] = task[l].lease

\* _process is over.
Leave(l) == task' = Restrict(task, DOMAIN task \ {l})

\* Mutant: the command is forgotten whoever acknowledges it.
AcknowledgeAnyone(l) ==
  LET r == task[l].lease.run IN
  /\ task[l].pc = "acknowledge"
  /\ Leave(l)
  /\ leased' = Restrict(Alive, DOMAIN Alive \ {l})
  /\ known' = (known \ Dropped) \ {r}
  /\ cancelled' = (cancelled \ Dropped) \ {r}
  /\ pending' = pending \o Returned
  /\ lapsed' = {}
  /\ UNCHANGED <<env, delayed, issued, loop, stop, used, asked>>

Acknowledge(l) ==
  LET mine == IF IsCurrent(l) THEN {task[l].lease.run} ELSE {} IN
  /\ task[l].pc = "acknowledge"
  /\ Leave(l)
  /\ leased' = IF IsCurrent(l) THEN Restrict(Alive, DOMAIN Alive \ {l}) ELSE Alive
  /\ known' = (known \ Dropped) \ mine
  /\ cancelled' = (cancelled \ Dropped) \ mine
  /\ pending' = pending \o Returned
  /\ lapsed' = {}
  /\ UNCHANGED <<env, delayed, issued, loop, stop, used, asked>>

\* release; delay_seconds is 0 or not.  The mark of a cancelled run stays.
Release(l, delay) ==
  LET job    == Again(task[l].lease)
      remove == IsCurrent(l) /\ job.run \in cancelled \ Dropped
      back   == IsCurrent(l) /\ ~remove
  IN
  /\ task[l].pc = "release"
  /\ Leave(l)
  /\ leased' = IF IsCurrent(l) THEN Restrict(Alive, DOMAIN Alive \ {l}) ELSE Alive
  /\ known' = (known \ Dropped) \ (IF remove THEN {job.run} ELSE {})
  /\ cancelled' = cancelled \ Dropped
  /\ pending' = pending \o Returned \o (IF back /\ ~delay THEN <<job>> ELSE <<>>)
  /\ delayed' = delayed \cup (IF back /\ delay THEN {job} ELSE {})
  /\ lapsed' = {}
  /\ UNCHANGED <<env, issued, loop, stop, used, asked>>

\* _keep_renewed and renew; a lost lease ends the renewal, not the handler.
Renew(l) ==
  LET renewed == [task[l].lease EXCEPT !.renewed = @ + 1] IN
  /\ task[l].pc = "handling" /\ ~task[l].lost
  /\ task[l].lease.renewed < MaxRenewals
  /\ IF IsCurrent(l)
       THEN /\ leased' = [Alive EXCEPT ![l] = renewed]
            /\ task' = [task EXCEPT ![l].lease = renewed]
       ELSE /\ leased' = Alive
            /\ task' = [task EXCEPT ![l].lost = TRUE]
  /\ known' = known \ Dropped
  /\ cancelled' = cancelled \ Dropped
  /\ pending' = pending \o Returned
  /\ lapsed' = {}
  /\ UNCHANGED <<env, delayed, issued, loop, stop, used, asked>>

-----------------------------------------------------------------------------
(* QueueWorker                                                              *)

TasksOf(w) == {l \in DOMAIN task : task[l].worker = w}

\* The semaphore is acquired and no stop was requested.
Poll(w) ==
  /\ loop[w] = "idle" /\ ~stop[w]
  /\ Cardinality(TasksOf(w)) < MaxConcurrency
  /\ loop' = [loop EXCEPT ![w] = "leasing"]
  /\ UNCHANGED <<env, queue, task, stop, used, asked>>

\* run_until_stopped returns when every task is done.
Stopped(w) ==
  /\ loop[w] = "idle" /\ stop[w] /\ TasksOf(w) = {}
  /\ loop' = [loop EXCEPT ![w] = "stopped"]
  /\ UNCHANGED <<env, queue, task, stop, used, asked>>

RequestStop(w) ==
  /\ "stop" \in env
  /\ ~stop[w]
  /\ stop' = [stop EXCEPT ![w] = TRUE]
  /\ UNCHANGED <<env, queue, task, loop, used, asked>>

HandlerReturns(l) ==
  /\ task[l].pc = "handling"
  /\ task' = [task EXCEPT ![l].pc = "acknowledge"]
  /\ UNCHANGED <<env, queue, loop, stop, used, asked>>

HandlerRaises(l) ==
  /\ "raise" \in env
  /\ task[l].pc = "handling"
  /\ Fault
  /\ task' = [task EXCEPT ![l].pc = "release"]
  /\ UNCHANGED <<env, queue, loop, stop, asked>>

-----------------------------------------------------------------------------
(* Time and aborts                                                          *)

\* A lease nobody renews runs out.
LapseOrphan(l) ==
  /\ l \in DOMAIN leased \ lapsed /\ l \notin DOMAIN task
  /\ lapsed' = lapsed \cup {l}
  /\ UNCHANGED <<env, pending, delayed, leased, known, cancelled, issued, worker, used, asked>>

LapseHeld(l) ==
  /\ "stall" \in env
  /\ l \in DOMAIN leased \ lapsed /\ l \in DOMAIN task
  /\ Fault
  /\ lapsed' = lapsed \cup {l}
  /\ UNCHANGED <<env, pending, delayed, leased, known, cancelled, issued, worker, asked>>

\* The delay of a released command is over.
Due(j) ==
  /\ j \in delayed
  /\ delayed' = delayed \ {j}
  /\ pending' = Append(pending, j)
  /\ UNCHANGED <<env, leased, lapsed, known, cancelled, issued, worker, used, asked>>

\* The tasks of a worker are cancelled: asyncio.CancelledError is no Exception,
\* so _process neither acknowledges nor releases.  The worker is run again.
Abort(w) ==
  /\ "abort" \in env
  /\ loop[w] # "stopped"
  /\ Fault
  /\ task' = Restrict(task, DOMAIN task \ TasksOf(w))
  /\ loop' = [loop EXCEPT ![w] = "idle"]
  /\ stop' = [stop EXCEPT ![w] = FALSE]
  /\ UNCHANGED <<env, queue, asked>>

-----------------------------------------------------------------------------

WorkerStep(w) == Poll(w) \/ Lease(w) \/ Stopped(w)

TaskStep(l) ==
  \/ HandlerReturns(l) \/ HandlerRaises(l) \/ Renew(l)
  \/ Acknowledge(l) \/ \E delay \in BOOLEAN : Release(l, delay)

Time ==
  \/ \E l \in DOMAIN leased : LapseOrphan(l) \/ LapseHeld(l)
  \/ \E j \in delayed : Due(j)

Next ==
  \/ \E r \in Runs : Enqueue(r) \/ Cancel(r)
  \/ \E w \in Workers : WorkerStep(w) \/ RequestStop(w) \/ Abort(w)
  \/ \E l \in DOMAIN task : TaskStep(l)
  \/ Time

Spec == Init /\ [][Next]_vars

\* A lease is the first of a command or follows a fault.
Leases == 1 .. MaxEnqueues + MaxConcurrency * MaxFaults

\* Workers and their tasks run, handlers come to an end and time passes.
FairSpec ==
  /\ Spec
  /\ \A w \in Workers : WF_vars(Poll(w)) /\ WF_vars(Lease(w)) /\ WF_vars(Stopped(w))
  /\ \A l \in Leases :
       /\ WF_vars(l \in DOMAIN task /\ (HandlerReturns(l) \/ Acknowledge(l)
                                          \/ \E delay \in BOOLEAN : Release(l, delay)))
       /\ WF_vars(LapseOrphan(l))
  /\ WF_vars(\E j \in delayed : Due(j))

-----------------------------------------------------------------------------
(* Properties                                                               *)

\* Every variable keeps its type; a task holds a snapshot of a lease.
TypeOK ==
  /\ pending \in Seq(Job) /\ delayed \subseteq Job
  /\ issued \in Nat
  /\ DOMAIN leased \subseteq 1 .. issued
  /\ \A l \in DOMAIN leased : leased[l] \in QueueLease
  /\ lapsed \subseteq DOMAIN leased
  /\ known \subseteq Runs /\ cancelled \subseteq Runs
  /\ DOMAIN task \subseteq 1 .. issued
  /\ \A l \in DOMAIN task :
       task[l] \in [worker : Workers, pc : {"handling", "acknowledge", "release"},
                    lease : QueueLease, lost : BOOLEAN]
  /\ loop \in [Workers -> {"idle", "leasing", "stopped"}]
  /\ stop \in [Workers -> BOOLEAN]
  /\ used \in [enqueues : Nat, faults : Nat]
  /\ asked \subseteq Runs

\* Where the command of a run is: the places enqueue must not add to.
Places(r) ==
  {<<"pending", i>> : i \in {k \in DOMAIN pending : pending[k].run = r}}
    \cup {<<"delayed", j.attempt>> : j \in {k \in delayed : k.run = r}}
    \cup {<<"leased", l>> : l \in {k \in DOMAIN leased : leased[k].run = r}}

\* A known run has exactly one command, waiting, delayed or under one lease,
\* and an unknown one has none: no race of expiry, acknowledgement, release,
\* renewal and cancellation duplicates or strands a command (_known_runs).
OneCommandPerRun ==
  \A r \in Runs : Cardinality(Places(r)) = IF r \in known THEN 1 ELSE 0

\* The command of run r, as the abstract queue sees it.
Where(r) ==
  LET held == {l \in DOMAIN leased : leased[l].run = r}
      idle == {pending[i] : i \in DOMAIN pending} \cup delayed
  IN IF held # {}
       THEN LET l == CHOOSE k \in held : TRUE IN
            [phase |-> IF r \in cancelled THEN "doomed" ELSE "held",
             lease |-> l, attempt |-> leased[l].attempt]
     ELSE IF \E j \in idle : j.run = r
       THEN LET j == CHOOSE k \in idle : k.run = r IN
            [phase |-> "waiting", lease |-> 0, attempt |-> j.attempt]
     ELSE [phase |-> "absent", lease |-> 0, attempt |-> 0]

Queue == INSTANCE LeaseQueue WITH cmd <- [r \in Runs |-> Where(r)]

\* The backend keeps the promise of a lease queue: an accepted command is
\* dropped only by an acknowledgement of its holder or a cancellation, and is
\* redelivered with its count increased (InMemoryQueueBackend).
KeepsPromise == Queue!Spec

\* Every accepted command is brought to an end, over aborted tasks, lapsed
\* leases and failing handlers, as long as a worker is running.
Delivered == \A r \in Runs : r \in known ~> (r \notin known \/ \A w \in Workers : stop[w])

\* A stop request ends run_until_stopped, or the worker is aborted first.
Drains == \A w \in Workers : stop[w] ~> (loop[w] = "stopped" \/ ~stop[w])

\* The queue's tables agree with each other in every state: one command for a
\* known run and none for another (InMemoryQueueBackend).
QueueSound == TypeOK /\ OneCommandPerRun

\* The workers serve what was accepted, and stop when they are told to
\* (QueueWorker.run_until_stopped).
Served == Delivered /\ Drains
=============================================================================
