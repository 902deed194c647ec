----------------------------- MODULE RunService -----------------------------
(***************************************************************************)
(* The queued service: QueueRuntime (matterloop_runtime/queueing.py) over  *)
(* a versioned run repository, with one of two ways to get the work done.  *)
(*   "redis"   workers pull commands from RedisQueueBackend and keep the   *)
(*             record, as _process_one_pull_job of                         *)
(*             examples/enterprise/queued_service.py does;                 *)
(*   "celery"  a broker pushes messages to the Celery tasks                *)
(*             (matterloop_integration_celery/tasks.py).                   *)
(* Every await is a point where another client or worker may move.  The    *)
(* Loop behind run and resume, and the Celery broker, are external.        *)
(***************************************************************************)
EXTENDS RedisQueue

CONSTANTS
  Backends,     \* the deployments to look at: a subset of {"redis", "celery"}
  Runs,         \* run_ids
  Clients,      \* callers of QueueRuntime
  Workers,
  MaxAttempts,  \* of _update: 16 in the code
  MaxOps,       \* bound: calls of QueueRuntime
  MaxFaults,    \* bound: failing sends, lost answers, dead or stalled workers
  MaxLeases     \* bound: leases of the Redis queue

ASSUME ServiceAssumption ==
  /\ Backends \subseteq {"redis", "celery"}
  /\ MaxAttempts \in Nat \ {0} /\ MaxOps \in Nat /\ MaxFaults \in Nat /\ MaxLeases \in Nat

VARIABLES
  backend,   \* the deployment, fixed
  record,    \* the run repository
  q,         \* the keys of the Redis queue
  broker,    \* Celery: the messages not acknowledged and not delivered
  revoked,   \* Celery: revoked task_ids
  client,
  worker,
  used,      \* how much of each bound has been used up; conflicts: how often a
             \* call or a task gave a command up
  lapsed,    \* history: claims, run and version, that were taken for expired
  asked      \* history: runs whose last command was asked to be cancelled

vars == <<backend, record, q, broker, revoked, client, worker, used, lapsed, asked>>

Terminal == {"COMPLETED", "FAILED", "CANCELLED", "TIMED_OUT"}
Settled == Terminal \cup {"PAUSED", "BLOCKED"}

\* result is the version of the claim whose execution produced it, 0 if none.
NoRecord == [status |-> "none", version |-> 0, result |-> 0]
IdleClient == [op |-> "none", pc |-> "idle", run |-> "none", seen |-> NoRecord,
               goal |-> "none", read |-> 0, tries |-> 0]
IdleWorker == [pc |-> "idle", run |-> "none", ticket |-> <<>>, read |-> NoRecord,
               outcome |-> "none"]

Init ==
  /\ backend \in Backends
  /\ record = [r \in Runs |-> NoRecord]
  /\ q = NoKeys /\ broker = {} /\ revoked = {}
  /\ client = [c \in Clients |-> IdleClient]
  /\ worker = [w \in Workers |-> IdleWorker]
  /\ used = [ops |-> 0, faults |-> 0, messages |-> 0, conflicts |-> 0]
  /\ lapsed = {} /\ asked = {}

-----------------------------------------------------------------------------
(* The run repository: create and compare_and_set                           *)

Create(r) == record' = [record EXCEPT ![r] = [NoRecord EXCEPT !.status = "QUEUED"]]

\* Mutant: the version is not compared.
CasBlind(r, version) == TRUE

Cas(r, version) == record[r].version = version

Write(r, version, status, result) ==
  record' = [record EXCEPT ![r] =
               [status |-> status, version |-> version + 1, result |-> result]]

-----------------------------------------------------------------------------
(* QueueRuntime                                                             *)

Goto(c, pc) == client' = [client EXCEPT ![c].pc = pc]
Return(c) == client' = [client EXCEPT ![c] = IdleClient]

Begin(c) ==
  /\ client[c].pc = "idle"
  /\ used.ops < MaxOps
  /\ used' = [used EXCEPT !.ops = @ + 1]

\* submit: an existing record is answered or refused without a change.
Submit(c, r) ==
  /\ Begin(c)
  /\ IF record[r] = NoRecord
       THEN /\ Create(r)
            /\ client' = [client EXCEPT ![c] = [IdleClient EXCEPT
                            !.op = "submit", !.pc = "enqueue", !.run = r, !.goal = "FAILED"]]
       ELSE UNCHANGED <<record, client>>
  /\ UNCHANGED <<backend, q, broker, revoked, worker, lapsed, asked>>

\* cancel: a paused run has no command, so only its record is changed.
Cancel(c, r) ==
  LET rec == record[r] IN
  /\ Begin(c)
  /\ IF rec = NoRecord \/ rec.status \in Terminal
       THEN UNCHANGED client
       ELSE client' = [client EXCEPT ![c] = [IdleClient EXCEPT
              !.op = "cancel", !.run = r, !.seen = rec, !.goal = "CANCELLED",
              !.pc = IF rec.status \in {"PAUSED", "BLOCKED"} THEN "read" ELSE "revoke"]]
  /\ UNCHANGED <<backend, record, q, broker, revoked, worker, lapsed, asked>>

Resume(c, r) ==
  LET rec == record[r] IN
  /\ Begin(c)
  /\ IF rec.status \in {"PAUSED", "BLOCKED"}
       THEN client' = [client EXCEPT ![c] = [IdleClient EXCEPT
              !.op = "resume", !.run = r, !.seen = rec, !.goal = "QUEUED", !.pc = "read"]]
       ELSE UNCHANGED client
  /\ UNCHANGED <<backend, record, q, broker, revoked, worker, lapsed, asked>>

\* Statuses over which the _update of a call may write.
Expected(c) ==
  CASE client[c].op = "cancel" -> {"QUEUED", "RUNNING", "PAUSED", "BLOCKED"}
    [] client[c].goal = "QUEUED" -> {"PAUSED", "BLOCKED"}
    [] OTHER -> {"QUEUED"}

\* The call after its _update: resume goes on to enqueue, the others return.
AfterUpdate(c, written) ==
  IF written /\ client[c].goal = "QUEUED" THEN Goto(c, "enqueue") ELSE Return(c)

\* _update, first half: a status that is not expected ends it.
UpdateRead(c) ==
  /\ client[c].pc = "read"
  /\ IF record[client[c].run].status \in Expected(c)
       THEN client' = [client EXCEPT ![c].pc = "write",
                                     ![c].read = record[client[c].run].version]
       ELSE AfterUpdate(c, FALSE)
  /\ UNCHANGED <<backend, record, q, broker, revoked, worker, used, lapsed, asked>>

\* _update, second half: the CAS, tried again when another write came first.
UpdateWrite(c) ==
  LET me == client[c] IN
  /\ me.pc = "write"
  /\ IF Cas(me.run, me.read)
       THEN /\ Write(me.run, me.read, me.goal,
                     IF me.goal = me.seen.status THEN me.seen.result ELSE 0)
            /\ AfterUpdate(c, TRUE)
            /\ UNCHANGED used
     ELSE IF me.tries + 1 < MaxAttempts
       THEN /\ client' = [client EXCEPT ![c].pc = "read", ![c].tries = @ + 1]
            /\ UNCHANGED <<record, used>>
     ELSE /\ used' = [used EXCEPT !.conflicts = @ + 1]
          /\ Return(c)
          /\ UNCHANGED record
  /\ UNCHANGED <<backend, q, broker, revoked, worker, lapsed, asked>>

Action(c) == IF client[c].op = "submit" THEN "START" ELSE "RESUME"

\* The command reaches the queue, or the broker as a message.
Sent(c) ==
  LET r == client[c].run IN
  IF backend = "redis"
    THEN /\ q' = EnqueueScript(q, r, Action(c))
         /\ asked' = asked \ {r}
         /\ UNCHANGED <<broker, used>>
    ELSE /\ broker' = broker \cup {[id |-> used.messages + 1, run |-> r, action |-> Action(c)]}
         /\ used' = [used EXCEPT !.messages = @ + 1]
         /\ UNCHANGED <<q, asked>>

Accepted(c) == backend = "redis" => EnqueueAccepts(q, client[c].run)

Enqueue(c) ==
  /\ client[c].pc = "enqueue" /\ Accepted(c)
  /\ Sent(c)
  /\ Return(c)
  /\ UNCHANGED <<backend, record, revoked, worker, lapsed>>

\* Mutant: a failed enqueue is not undone.
NotUndone(c) == Return(c)

\* enqueue raised: submit marks the run FAILED, resume puts back what it read.
Undo(c) ==
  client' = [client EXCEPT ![c].pc = "read", ![c].tries = 0,
                           ![c].goal = IF client[c].op = "submit" THEN "FAILED"
                                       ELSE client[c].seen.status]

\* The queue refuses a second command of the run (DuplicateRunError).
EnqueueRefused(c) ==
  /\ client[c].pc = "enqueue" /\ ~Accepted(c)
  /\ Undo(c)
  /\ UNCHANGED <<backend, record, q, broker, revoked, worker, used, lapsed, asked>>

Fault == used.faults < MaxFaults

\* The queue cannot be reached.
EnqueueFails(c) ==
  /\ client[c].pc = "enqueue" /\ Fault
  /\ used' = [used EXCEPT !.faults = @ + 1]
  /\ Undo(c)
  /\ UNCHANGED <<backend, record, q, broker, revoked, worker, lapsed, asked>>

\* The command is accepted and the answer lost.
EnqueueAnswerLost(c) ==
  LET r == client[c].run IN
  /\ client[c].pc = "enqueue" /\ Accepted(c) /\ Fault
  /\ IF backend = "redis"
       THEN /\ q' = EnqueueScript(q, r, Action(c)) /\ asked' = asked \ {r}
            /\ UNCHANGED broker
       ELSE /\ broker' = broker \cup {[id |-> used.messages + 1, run |-> r, action |-> Action(c)]}
            /\ UNCHANGED <<q, asked>>
  /\ used' = [used EXCEPT !.faults = @ + 1,
                          !.messages = IF backend = "redis" THEN @ ELSE @ + 1]
  /\ Undo(c)
  /\ UNCHANGED <<backend, record, revoked, worker, lapsed>>

\* producer.cancel: Redis may know no command, Celery always accepts.
Revoke(c) ==
  LET r == client[c].run IN
  /\ client[c].pc = "revoke"
  /\ IF backend = "celery"
       THEN /\ revoked' = revoked \cup ({"START", "RESUME"} \X {r})
            /\ Goto(c, "read")
            /\ UNCHANGED <<q, asked>>
     ELSE IF CancelAccepts(q, r)
       THEN /\ q' = CancelScript(q, r) /\ asked' = asked \cup {r}
            /\ Goto(c, "read")
            /\ UNCHANGED revoked
     ELSE Return(c) /\ UNCHANGED <<q, asked, revoked>>
  /\ UNCHANGED <<backend, record, broker, worker, used, lapsed>>

-----------------------------------------------------------------------------
(* Workers: what both kinds share                                           *)

Set(w, pc) == worker' = [worker EXCEPT ![w].pc = pc]
Leave(w) == worker' = [worker EXCEPT ![w] = IdleWorker]

Running(r) == {w \in Workers : worker[w].pc = "run" /\ worker[w].run = r}

\* The worker reads the record it is to run.
ReadRecord(w) ==
  /\ worker[w].pc = "get"
  /\ worker' = [worker EXCEPT ![w].pc = "claim", ![w].read = record[worker[w].run]]
  /\ UNCHANGED <<backend, record, q, broker, revoked, client, used, lapsed, asked>>

\* The status is set to RUNNING; a lost CAS sends the worker to "refused".
Claim(w, refused) ==
  LET me == worker[w] IN
  IF Cas(me.run, me.read.version)
    THEN /\ Write(me.run, me.read.version, "RUNNING", me.read.result)
         /\ worker' = [worker EXCEPT ![w].pc = "run", ![w].read.version = @ + 1]
    ELSE UNCHANGED record /\ Set(w, refused)

\* The Loop comes to rest.
LoopReturns(w, status) ==
  /\ worker[w].pc = "run"
  /\ worker' = [worker EXCEPT ![w].pc = "settle", ![w].outcome = status]
  /\ UNCHANGED <<backend, record, q, broker, revoked, client, used, lapsed, asked>>

\* Two workers drive one Loop: the one that loses returns an unsettled status,
\* which _run_status refuses.  The record stays RUNNING.
LoopReturnsUnsettled(w) ==
  /\ worker[w].pc = "run"
  /\ Cardinality(Running(worker[w].run)) > 1
  /\ IF backend = "redis" THEN Leave(w) ELSE Set(w, "ack")
  /\ UNCHANGED <<backend, record, q, broker, revoked, client, used, lapsed, asked>>

LoopRaises(w) ==
  /\ worker[w].pc = "run" /\ Fault
  /\ used' = [used EXCEPT !.faults = @ + 1]
  /\ Set(w, IF backend = "redis" THEN "release" ELSE "failed")
  /\ UNCHANGED <<backend, record, q, broker, revoked, client, lapsed, asked>>

\* The result is stored over the worker's own claim, or not at all.
Settle(w) ==
  LET me == worker[w]
      mine == Cas(me.run, me.read.version)
  IN
  /\ me.pc = "settle"
  /\ IF mine THEN Write(me.run, me.read.version, me.outcome, me.read.version)
             ELSE UNCHANGED record
  /\ Set(w, IF mine \/ backend = "celery" THEN "ack" ELSE "release")
  /\ UNCHANGED <<backend, q, broker, revoked, client, used, lapsed, asked>>

\* The worker's process dies: the lease stays, the message is redelivered.
Die(w) ==
  /\ worker[w].pc # "idle" /\ Fault
  /\ used' = [used EXCEPT !.faults = @ + 1]
  /\ broker' = IF backend = "celery" THEN broker \cup {worker[w].ticket} ELSE broker
  /\ Leave(w)
  /\ UNCHANGED <<backend, record, q, revoked, client, lapsed, asked>>

-----------------------------------------------------------------------------
(* _process_one_pull_job over RedisQueueBackend                             *)

Leasing == {worker[v].ticket : v \in {u \in Workers : worker[u].pc # "idle"}} \cap DOMAIN q.leases

\* lease: a lease that expires under a live worker is a fault.  The example
\* handles START commands and raises, keeping the lease, on others.
PullLease(w, ripe, late) ==
  LET after == LeaseScript(q, ripe, late)
      l == after.issued
  IN
  /\ backend = "redis" /\ worker[w].pc = "idle" /\ q.issued < MaxLeases
  /\ ripe \cup late # {} \/ q.pending # <<>>
  /\ used.faults + Cardinality(late \cap Leasing) =< MaxFaults
  /\ used' = [used EXCEPT !.faults = @ + Cardinality(late \cap Leasing)]
  /\ q' = after
  /\ worker' = IF l = q.issued \/ after.jobs[after.leases[l]] = "RESUME" THEN worker
               ELSE [worker EXCEPT ![w] = [IdleWorker EXCEPT
                       !.pc = "get", !.run = after.leases[l], !.ticket = l]]
  /\ UNCHANGED <<backend, record, broker, revoked, client, lapsed, asked>>

\* The record is claimed whatever its status.
PullClaim(w) ==
  /\ backend = "redis" /\ worker[w].pc = "claim"
  /\ Claim(w, "release")
  /\ UNCHANGED <<backend, q, broker, revoked, client, used, lapsed, asked>>

PullAcknowledge(w) ==
  /\ backend = "redis" /\ worker[w].pc = "ack"
  /\ q' = AcknowledgeScript(q, worker[w].ticket, worker[w].run)
  /\ Leave(w)
  /\ UNCHANGED <<backend, record, broker, revoked, client, used, lapsed, asked>>

\* The delay is the worker's setting (0 in the example).
PullRelease(w, delay) ==
  /\ backend = "redis" /\ worker[w].pc = "release"
  /\ q' = ReleaseScript(q, worker[w].ticket, worker[w].run, delay)
  /\ Leave(w)
  /\ UNCHANGED <<backend, record, broker, revoked, client, used, lapsed, asked>>

-----------------------------------------------------------------------------
(* The Celery tasks                                                         *)

\* The broker delivers a message; the worker holds it until it acknowledges.
\* A revoked task_id is usually, not always, discarded.
Deliver(w, m) ==
  /\ backend = "celery" /\ worker[w].pc = "idle" /\ m \in broker
  /\ broker' = broker \ {m}
  /\ worker' = [worker EXCEPT ![w] = [IdleWorker EXCEPT
                  !.pc = "get", !.run = m.run, !.ticket = m]]
  /\ UNCHANGED <<backend, record, q, revoked, client, used, lapsed, asked>>

Discard(m) ==
  /\ m \in broker /\ <<m.action, m.run>> \in revoked
  /\ broker' = broker \ {m}
  /\ UNCHANGED <<backend, record, q, revoked, client, worker, used, lapsed, asked>>

\* The claim the worker has read belongs to a worker that is alive.
Claimant(w) ==
  \E v \in Workers \ {w} : /\ worker[v].pc \in {"run", "settle", "failed"}
                           /\ worker[v].run = worker[w].run
                           /\ worker[v].read.version = worker[w].read.version

\* _claim: a queued record, or a running one whose claim has run out.
Claimable(w, expired) ==
  \/ worker[w].read.status = "QUEUED"
  \/ worker[w].read.status = "RUNNING" /\ expired

\* claim_lease_seconds has passed, which under a live claimant is a fault.
TaskClaim(w, expired) ==
  LET over == expired /\ worker[w].read.status = "RUNNING"
      cost == IF over /\ Claimant(w) THEN 1 ELSE 0
  IN
  /\ backend = "celery" /\ worker[w].pc = "claim"
  /\ expired => worker[w].read.status = "RUNNING"
  /\ Claimable(w, expired)
  /\ used.faults + cost =< MaxFaults
  /\ used' = [used EXCEPT !.faults = @ + cost]
  /\ lapsed' = IF over THEN lapsed \cup {<<worker[w].run, worker[w].read.version>>} ELSE lapsed
  /\ Claim(w, "ack")
  /\ UNCHANGED <<backend, q, broker, revoked, client, asked>>

\* _duplicate_result: nothing to do, the message is acknowledged.
TaskDuplicate(w) ==
  /\ backend = "celery" /\ worker[w].pc = "claim"
  /\ ~Claimable(w, FALSE)
  /\ Set(w, "ack")
  /\ UNCHANGED <<backend, record, q, broker, revoked, client, used, lapsed, asked>>

\* _mark_failed; the exception ends the task and the message.
TaskMarkFailed(w) ==
  LET me == worker[w] IN
  /\ backend = "celery" /\ me.pc = "failed"
  /\ IF Cas(me.run, me.read.version)
       THEN Write(me.run, me.read.version, "FAILED", me.read.result)
       ELSE UNCHANGED record
  /\ Set(w, "ack")
  /\ UNCHANGED <<backend, q, broker, revoked, client, used, lapsed, asked>>

\* The task fails outside the call of the Loop: its dependencies cannot be made,
\* or the repository fails it when it looks, claims or writes.  The exception
\* ends the task and the message, and the record stays as it is.
TaskRaises(w) ==
  LET unclaimed == worker[w].pc \in {"get", "claim"} IN
  /\ backend = "celery" /\ Fault
  /\ worker[w].pc \in {"get", "claim", "settle", "failed"}
  /\ used' = [used EXCEPT !.faults = @ + 1,
                          !.conflicts = IF unclaimed THEN @ + 1 ELSE @]
  /\ Set(w, "ack")
  /\ UNCHANGED <<backend, record, q, broker, revoked, client, lapsed, asked>>

\* acks_late: the message goes when the task is over.
TaskAcknowledge(w) ==
  /\ backend = "celery" /\ worker[w].pc = "ack"
  /\ Leave(w)
  /\ UNCHANGED <<backend, record, q, broker, revoked, client, used, lapsed, asked>>

-----------------------------------------------------------------------------

ClientCall(c) == \E r \in Runs : Submit(c, r) \/ Cancel(c, r) \/ Resume(c, r)

ClientStep(c) ==
  \/ UpdateRead(c) \/ UpdateWrite(c)
  \/ Enqueue(c) \/ EnqueueRefused(c) \/ Revoke(c)

ClientFault(c) == EnqueueFails(c) \/ EnqueueAnswerLost(c)

WorkerStep(w) ==
  \/ ReadRecord(w) \/ Settle(w)
  \/ \E s \in {"PAUSED", "COMPLETED"} : LoopReturns(w, s)
  \/ PullClaim(w) \/ PullAcknowledge(w) \/ PullRelease(w, FALSE)
  \/ TaskClaim(w, FALSE) \/ TaskDuplicate(w) \/ TaskMarkFailed(w) \/ TaskAcknowledge(w)

WorkerFault(w) ==
  \/ LoopReturnsUnsettled(w) \/ LoopRaises(w) \/ Die(w)
  \/ PullRelease(w, TRUE) \/ TaskClaim(w, TRUE) \/ TaskRaises(w)

Take(w) ==
  \/ \E ripe \in SUBSET q.delayed, late \in SUBSET DOMAIN q.leases : PullLease(w, ripe, late)
  \/ \E m \in broker : Deliver(w, m)

Next ==
  \/ \E c \in Clients : ClientCall(c) \/ ClientStep(c) \/ ClientFault(c)
  \/ \E w \in Workers : WorkerStep(w) \/ WorkerFault(w) \/ Take(w)
  \/ \E m \in broker : Discard(m)

Spec == Init /\ [][Next]_vars

-----------------------------------------------------------------------------
(* Properties                                                               *)

Status == {"none", "QUEUED", "RUNNING"} \cup Settled

\* Every variable keeps its type, a version is claimed at most once, and a
\* command under a lease is in neither list of the Redis queue.
TypeOK ==
  /\ backend \in Backends
  /\ record \in [Runs -> [status : Status, version : Nat, result : Nat]]
  /\ q.cancelled \subseteq DOMAIN q.jobs /\ DOMAIN q.attempts = DOMAIN q.jobs
  /\ \A r \in DOMAIN q.runLeases : Held(q, q.runLeases[r], r)
  /\ ToSet(q.pending) \cap DOMAIN q.runLeases = {} /\ q.delayed \cap DOMAIN q.runLeases = {}
  /\ \A c \in Clients : client[c].pc \in {"idle", "enqueue", "revoke", "read", "write"}
  /\ \A w \in Workers : worker[w].pc \in
       {"idle", "get", "claim", "run", "settle", "failed", "ack", "release"}

\* The Redis scripts keep the promise of a lease queue: an accepted command
\* goes away only when its holder acknowledges it or a cancellation removes
\* it, and a redelivery is counted, although acknowledge, release and cancel
\* do not look at expiry (RedisQueueBackend).
Queue == INSTANCE LeaseQueue WITH cmd <- [r \in Runs |-> Command(q, r)]
KeepsPromise == Queue!Spec

\* With Celery workers a record that is COMPLETED, FAILED, CANCELLED or
\* TIMED_OUT never changes again: not by a late result, a redelivered message,
\* a takeover, or a client that read the record earlier (RunStatus.is_terminal).
TerminalIsFinal ==
  [][\A r \in Runs : backend = "celery" /\ record[r].status \in Terminal
       => record'[r] = record[r]]_vars

\* A result is stored only over the claim under which it was computed: a
\* worker that was overtaken, or whose run was cancelled meanwhile, does not
\* overwrite what came later (_complete, _process_one_pull_job).
ResultOfItsClaim ==
  [][\A r \in Runs :
       record'[r] # record[r] /\ record'[r].status \in Settled /\ record[r].status # "QUEUED"
         => record'[r].result \in {0, record[r].result, record[r].version}
            /\ (record'[r].result = record[r].version => record[r].status = "RUNNING")
            /\ record'[r].version = record[r].version + 1]_vars

Overtaken(v, w) ==
  /\ worker[v].read.version < worker[w].read.version
  /\ <<worker[v].run, worker[v].read.version>> \in lapsed

\* Two Celery workers execute one run at the same time only if the older claim
\* was past claim_lease_seconds (_claim).
ClaimedOnce ==
  backend = "celery" =>
    \A r \in Runs : \A v, w \in Running(r) : v # w => Overtaken(v, w) \/ Overtaken(w, v)

\* A QUEUED record has a command, a message or a worker that will see it, as
\* soon as the call that queued it is over: no sequence of submissions,
\* resumptions, refusals, lost answers and cancellations strands a run, unless
\* a call gave up after MaxAttempts conflicts or a task failed before its claim
\* (QueueRuntime, _claim).
Queued(r) == record[r].status = "QUEUED"

Reachable(r) ==
  \/ \E c \in Clients : client[c].run = r
  \/ r \in DOMAIN q.jobs
  \/ \E m \in broker : m.run = r
  \/ \E w \in Workers : worker[w].run = r /\ worker[w].pc \in {"get", "claim"}

QueuedIsReachable == used.conflicts = 0 => \A r \in Runs : Queued(r) => Reachable(r)

\* Whoever may execute a run is the one its record names, and a record that
\* waits has something that will wake it (_claim, QueueRuntime).
RunsReachable == TypeOK /\ ClaimedOnce /\ QueuedIsReachable

\* Results are written once, over the claim they belong to (_complete).
ResultsFinal == TerminalIsFinal /\ ResultOfItsClaim
=============================================================================
