# MatterLoop in TLA+

MatterLoop is a Python framework for controlled agent loops: a run plans, asks for
approval, executes one step at a time, verifies it, and ends, pauses or blocks under
hard limits, with every state change saved in a checkpoint before anything that depends
on it happens. Around this controller it has queued services, teams of agents, managed
model contexts, budgets, governed tools, and tracing. This directory specifies the parts
whose correctness depends on the order in which several calls, processes, failures and
restarts meet. Paths below are relative to `matterloop-*/src/python/`.

## Inventory

| Part | State it keeps | Operations | What is hard |
|---|---|---|---|
| Controller, `matterloop_core/loop/controller.py` | one `LoopContext` per call, the cancellation marks of the object | `run`, `resume`, `recover`, `submit_human_response`, `cancel` | awaits between every two saves; competing calls; crash between two saves; failed saves and publications; time-outs racing answers |
| State machine and checkpoint, `matterloop_core/state`, `context` | status, plan, cursor, counters, records, interactions, revision | `ensure_transition`, encode, decode, validate | a legal sequence of calls that needs an illegal transition or stores what cannot be read back; damaged and old texts |
| Checkpoint stores, `matterloop_memory/in_memory.py`, `matterloop_integration_redis/checkpoint.py` | checkpoint per run | `load`, `save` with an expected revision | lost answers, retries, lost keys |
| Run queue, `matterloop_runtime/queueing.py`, `worker.py`, `matterloop_integration_redis/queue.py` | pending and leased commands, known and cancelled runs | `enqueue`, `lease`, `renew`, `acknowledge`, `release`, `cancel`; worker loop | lease expiry racing acknowledgement and renewal, cancellation of a leased command |
| QueueRuntime, run repository, Celery tasks, `matterloop_runtime/queueing.py`, `matterloop_integration_celery/tasks.py`, the pull worker of `examples/enterprise` | one versioned `RunRecord` per run | `submit`, `cancel`, `resume`; claim, heartbeat, settlement | repository and queue are updated in two steps; redelivery after a crash; take-over of a live worker |
| Execution ledger, `matterloop_runtime/ledger.py`, `idempotency.py`, `transactional.py` | one record per operation | `prepare`, `mark_executing`, `commit`, `fail`, `recover`, `reconcile` | a crash between the effect and its record; recovery beside a live executor |
| Runtime facades, container, MCP connections, model registry | admitted runs, lease counts, slots of connections and clients | `run`, `aclose`, register, replace, unregister, lease | closing while operations start; replacement while in use; failing starts and closes |
| Context manager, `matterloop_runtime/context` | versioned context snapshots | prepare, generate, record, compact, archive, recover | stale versions, compaction across model changes, expiry |
| Team orchestrator and task graph, `matterloop_agents/collaboration` | team snapshot, task graph, run lease, pending interactions | run, resume, answer, cancel, recover | parallel calls, lost leases, partial failure, crash after dispatch |
| Team runtime, `collaboration/runtime.py` | event loop thread, operations under way | submit, close | threads that submit while others close |
| Agent directory, mailbox, bus, catalog, `collaboration/directory.py`, `messages.py`, `communication` | agent leases, mail, inboxes, pending requests, versions and contracts | register, lease, send, receive, request, deprecate | decisions on snapshots; time-outs and retries; bounded inboxes |
| Model-backed team roles, `collaboration/model_components.py` | none across calls | plan, execute, verify, review | model answers of any shape, agents that come and go while the model thinks |
| Usage, metering, quotas, tenancy, tool governance, `matterloop_policies`, `matterloop_tools` | reserved and committed usage, quotas, audit trail | reserve, commit, roll back; approve, authorize, admit, call, audit | failure or cancellation between reservation and settlement |
| Chat adapters, `matterloop_models/providers` | continuations | generate, continue, convert items | forks, retries, mixed adapters |
| Process sandbox, shell tool | child process, captured bytes | execute | time-out or cancellation meeting the end of the child |
| Component registry, `matterloop_core/registry` | catalog, registered components | discover, install, register, remove | creation outside the lock |
| Events and tracing, `matterloop_observability`, `matterloop_integration_redis/events.py` | subscriptions, bounded buffers, open spans, streams | publish, subscribe, enqueue, flush, close, page | back-pressure, shutdown, suspension and resume in another process, trimming under a reader |

The controller is called by everything else (`QueueWorker` handlers, Celery tasks, the
runtime facades and the team orchestrator) and calls host-supplied components: planner,
executor, verifier, approval gate, completion evaluator, retry policy, `LoopPolicy`,
event publisher, checkpoint store. It shares nothing but the checkpoint store with
another controller. The same holds one level up: orchestrators share the team repository,
services the run repository and the queue, managers the context store.

What makes the parts correct:

* controller: the executor runs at most `max_attempts` times; an execution that may
  have taken effect is never repeated; a completed run was verified; approvals are good
  for one step of one cycle; a human answer counts once; nothing committed is lost; an
  ended run stays ended; every call returns and every run settles;
* queue: a command that was accepted is held by at most one live lease, is not
  dropped unless it was acknowledged or cancelled, and is brought to an end;
* service: a queued run can be reached by a worker, a result belongs to the claim it was
  made under, a terminal record is final;
* ledger: an effect happens at most once, and what the ledger says of it stays true;
* team: a task is called when its dependencies are done and its approval is there, once
  per attempt, never blindly again; every stored graph can be loaded; an ended run stays ended;
* context: nothing that entered a context is lost, private state of a model stays with
  it, a restart continues the exact version its checkpoint names;
* budgets: nothing oversold, nothing left reserved, a true audit trail;
* runtime: nothing closed while in use or twice, nothing left open, shutdown ends.

## Modules

| Module | Models | Composes |
|---|---|---|
| `LoopState` | `state/machine.py`, `context/models.py`, `human.py`, the codec's invariant | |
| `AgentLoop` | the controller, its checkpoint store, its callers and its environment, for one run_id | extends `LoopState` |
| `AgentLoopProofs` | proofs: types, budget, kept history; traced records, one answer, final ends | extends `AgentLoop` |
| `LoopResumeProofs` | proofs: no blind replay, readable checkpoints; scoped approvals, verified completion | extends `AgentLoopProofs` |
| `LeaseQueue` | what the `QueueBackend` protocol promises (abstract) | |
| `MemoryQueue` | `InMemoryQueueBackend` and the `QueueWorker`s on it | refines `LeaseQueue` |
| `QueueProofs` | proofs: one command per run, the refinement | extends `MemoryQueue` |
| `RedisQueue` | the Lua scripts of the Redis queue, as functions on its keys | |
| `RunService` | `QueueRuntime` and run records over the Redis queue or over Celery | extends `RedisQueue`, refines `LeaseQueue` |
| `ServiceProofs` | proofs: reachable runs, final results, the refinement | extends `RunService` |
| `TaskGraph` | the states of a plan's tasks and the operations on them | |
| `TeamRun` | team orchestrators that share a repository | extends `TaskGraph` |
| `TeamProofs` | proofs: loadable graphs, justified calls, final ends | extends `TeamRun` |
| `ContextItems` | canonical model input; compaction, release of calls, change of model | |
| `ContextManager` | managed model calls of several processes on one context key | extends `ContextItems` |
| `UsageLedger` | reservations over nested scopes, the rate card | |
| `ToolGovernance` | metered models, budgeted attempts, the tool gateway | extends `UsageLedger` |
| `GovernanceProofs` | proofs: balanced books, accounted calls | extends `ToolGovernance` |
| `ToolRuntime` | runs, tool registry, MCP registry, container, model registry, shutdown | |
| `RuntimeProofs` | proofs: leases honoured | extends `ToolRuntime` |
| `Ledger` | execution ledger, invoker, staged execution, recovery | |
| `AgentDirectory`, `AgentMailbox`, `AgentBus`, `AgentCatalog` | how agents are found, leased, written to and described | |
| `PartProofs` | proofs: the ledger's promise; the directory's leases; paging of the event stream; a command's result; closing the team runtime; saves of a checkpoint; versions of a context; installation; the message bus; the export pipeline | extends `Ledger`, `AgentDirectory`, `EventStream`, `ProcessSandbox`, `TeamRuntime`, `RedisCheckpoint`, `ContextManager`, `PluginRegistry`, `AgentBus`, `ExportPipeline` |
| `TeamRuntime` | threads, the event loop and the closing of a team runtime | |
| `TeamRoles` | the model-backed planner, worker, verifier and reviewer in one cycle | |
| `ChatDialogue` | the chat adapters' continuations and canonical items | |
| `ProcessSandbox` | one command of the shell tool in the local sandbox | |
| `RedisCheckpoint`, `CheckpointCodec` | the save script under lost answers; texts and what is read back from them | |
| `PluginRegistry` | catalog, discovery, installation | |
| `EventFanout`, `EventStream` | bus and router; the capped Redis stream | |
| `SpanTree`, `ExportPipeline`, `LiveTracing`, `TeamTracing` | traces from events, the batching thread, live spans | `SpanTree` uses the pipeline by the contract that `ExportPipeline` is proved to keep |
| `MC*` | constants of the instances; `MCParts` puts the eighteen parts without a run of their own side by side | |

In all of them an action is the code between two awaits (asyncio gives control away
nowhere else), or between two accesses to shared memory where threads are involved, or one
script where Redis is. What several processes share is a store with a version check;
what a process holds is a private copy that may be stale.

### AgentLoop

A *call* `p` is an API call under way: `pc[p]` names the await it is suspended at and
`ctx[p]` is its private `LoopContext`. Asyncio gives control away only at an await, so
an action is the code between two awaits; actions of different calls interleave freely,
also calls on different `AgentLoop` objects (`InstanceOf`), which stand for different
processes. `store` is the checkpoint; `store.revision = 0` means there is none.

Every save goes through `CommitMany` (`_checkpoint_and_emit_many`): event numbers are
allocated in the context, the context is saved by compare-and-swap on its revision, and
the events are published. Its outcomes are the ones the code can meet: saved and
published; saved and the publisher raises; the store raises, with the save applied or
not; the task is cancelled there; the revision is stale. The two places an exception
may surface in (`raised`) are `_drive`'s handlers and the `except` of `_execute`, which
guards the executor call together with the saves around it.

| Labels | Code |
|---|---|
| `run_start`, `resume_*`, `recover_*`, `submit_save` | the entry points, between loading the checkpoint and their first saves |
| `cycle`, `begin`, `planner` | `_run_cycles` |
| `step`, `gate`, `approved`, `pausing` | `_execute_plan`, `_approve`, `_request_human_interaction` |
| `execute`, `dispatch`, `executor`, `retry`, `backoff`, `redispatch` | `_execute` and the retry decision |
| `verify`, `verifier`, `rejected` | verification and its verdict |
| `evaluator`, `accept`, `replan`, `request_human`, `stop`, `replanned` | `_finish_plan_outcome` |
| `failing`, `broken`, `cancelling`, `exit` | the handlers of `_drive`; `broken` is an exception the controller raises about its own state |

`Heartbeat`, `SupervisedCancel` and `SupervisedTimeout` are the supervision of a running
component (`_await_component`); they are possible at every await in `Awaiting`. `Crash`
ends all calls of one object; the checkpoint survives.

Three history variables record what the code does to the outside: `calls` (executor
calls in order), `unsettled` (operations called whose failure nobody has seen) and
`grants` (approvals by gate or human). No guard reads them.

Left out: text, timestamps and durations (the time-out is a choice, the active clock is
the flag `active`), the contents of results and feedback, event payloads, hooks without
effect on the state, and a completion evaluator that asks for an approval (`EvaluationAsksHuman` asks for
input or a review). `None` is encoded inside the type of each field (see `LoopState`).
A call that is refused changes nothing and is not a step.

### LeaseQueue and MemoryQueue

`LeaseQueue` says what a queue backend owes its callers, without saying how: each run_id
has no command, a waiting one, or one under a lease; a command is dropped only by the
acknowledgement of its holder or by a cancellation its caller asked for (`asked`), and
every redelivery counts.

`MemoryQueue` models every operation of `InMemoryQueueBackend`. The backend works under one
`asyncio.Lock`, so an operation is one step, and the `_reclaim_expired` it begins with is
part of it (`Alive`, `Dropped`, `Returned`). The clock is reduced to what the code compares:
`lapsed` are the leases whose `expires_at` has passed, `delayed` the released commands that
are not due; `pending` is the heap in the order of its keys. A lease_id is the number of the
lease. A task is one `QueueWorker._process` with its renewal coroutine; it holds a snapshot
of its lease, as `_LeaseHolder` does, and what it settles counts only if the snapshot is the
current one. `Poll`, `Lease` and `Stopped` are `run_until_stopped`; `Abort` is the
cancellation of a worker's tasks, which neither acknowledges nor releases because
`CancelledError` is no `Exception`. `Where` maps this state to the abstract command.

### RunService

`record` is the versioned run record, `q` the Redis queue's keys, which only the scripts of
`RedisQueue` change. Clients work through `submit`, `resume` and `cancel` await by await; a
worker pulls a command and keeps the record as `_process_one_pull_job` does, or receives a
broker message and claims the run as the Celery task does. A send may fail, or be applied and
its answer be lost; a worker may die or stall under its lease or claim, and a task may fail before, at or
after its claim (`TaskRaises`). The Loop and the
broker are external: a run ends, pauses or raises, a message that was not acknowledged
comes again.

### TeamRun

A controller's private snapshot is not kept apart: `fresh` are the controllers that hold the
stored version. A stale one can only fail at its next save, so its copy does not matter.
`TaskGraph` has the graph operations in the order the orchestrator applies them, with
`from_snapshot`'s checks as `Restorable` and `WellFormed`. A pending task is blocked by
`refresh` when it is in the least set that is closed under dependence on what has failed, which
is what the code's loop reaches; a graph has no cycle when every nonempty set of its tasks has one
that depends on none of the set (`IsDAG`). `calls` records agent calls, `asked` what was
approved; no guard reads them.

### ContextManager

A managed call is two stretches, load-to-save and generate-to-record; another process may do
anything between. `versions` maps the revisions the store has to their snapshots, so a load finds a
set of at most one. Contents are sizes; what is kept is identity, kind, retention, home model
and call id of each item, because these decide what compaction may drop. `ContextItems` is
pure: the choice of what may be summarised, compaction passes against the budget, the release
of answered tool calls, the move to another model. A `Checkpoint` may be written at any point of a
call of the same process, because the controller saves heartbeats while a model is asked
(`controller.py:850`); what it names is what `external_state_references` has then: nothing after
`prepare` has taken the recovery reference and before the call's own version is saved, the version the
model is being asked with afterwards. The output items of a response are never empty, as with both
adapters, so `_response_items` is not needed.

### ToolGovernance and ToolRuntime

Ledger, quota and tenant registry have a lock each, so their operations are steps; every
await of the gateway ends a step and can be cancelled. `LedgerFor` is the construction of a caller's
wrappers: they keep the ledger of their tenant for good, and no operation asks the tenant registry, so
deactivation only stops new wrappers. A budgeted attempt may be made with or without a `BudgetPolicy`
in front of it. A limit is a number (`Caps`): one that
is not set refuses nothing, as one too high to be met does. What is reserved in a scope is compared with what
the callers hold there (`Held`, `Share`). In `ToolRuntime` every lock but the
container's mutation lock and a connection's lifecycle lock is released before the next
await, so only these two are variables. Lease counts, retirement and closing follow the code
line by line, since this is where it can go wrong; what a tool or a model computes is left out.

### Ledger

One lock, so each ledger operation is a step. The effect on the outside world is a step of its
own, and a caller may die anywhere. `Hash` is the request hash: two requests that
differ in the order of their arguments have the same. The host may recover and reconcile at
any time, also under a live executor, with what the outside world shows at that moment.

### The tracing modules

`SpanTree` is retrospective (spans built from events), `LiveTracing` and `TeamTracing` are
live (spans attached to the task's context). A token restores what was current when it was
attached and fails in any task but its own. A process may crash, lose the run without an
event, or hand it to another process through the stored trace carrier. In `LiveTracing` heartbeats are
saved and published while a component's call is under way; the save of one may lose the run, and the
cancelled call then ends after its driver has left (`leftover`).

### EventFanout

Two runs publish at the same time through one bus. A publication is a step per await: the append, each
handler, each rule of the router. A filter or a rule may pass the event over, and its predicate may
raise, which is outside the `try` and ends the publication, or the route, in every error mode.

### ChatDialogue

A caller may go on from any earlier turn, with a continuation, whose outputs the adapter checks, or with
canonical items, whose outputs nobody checks: the items may lack an output or have it twice. From then on
the conversation is `loose`, and only what it says of private state and schemas is still claimed.

## Runs

| Run | Instance | States | Shows |
|---|---|---|---|
| `loop_crash` | two calls in two processes, one crash, resume, recover, component errors, 2 cycles, 2 attempts | 1.1 M | types, attempt budget, kept history; `CrashSafe`: no blind replay, evidence for records, readable checkpoints, final ends |
| `loop_human` | two calls, guarded plans, evaluator, human answers with two keys | 0.6 M | `HumanGate`: one answer per interaction and key, scoped approvals; verified completion; `RestsCleanly`: clock at rest, no internal error |
| `loop_faults` | one caller, every fault, every kind of plan, two faults | 0.9 M | `FaultsSurvived`: budget, evidence, kept history and final ends |
| `loop_live` | two calls, fair scheduling | 37 k | `Progress`: runs settle, calls return |
| `queue` | 2 runs, 2 workers, 2 enqueues, 2 faults, two environments, fair | 0.15 M | `QueueSound`: one command per run; `KeepsPromise`: refinement of `LeaseQueue`; `Served`: commands end, stops drain |
| `service` | 1 run, 2 clients, 2 workers, 3 operations, 1 fault, Redis and Celery | 0.3 M | `RunsReachable`, `ResultsFinal`, `KeepsPromise` (the Redis queue refines `LeaseQueue`) |
| `team` | 3 tasks, 4 shapes of requests, 2 controllers, 3 host calls, 1 fault | 0.7 M | `CallsJustified`, `TeamSound`, `EndedStaysEnded` |
| `context` | 2 processes, a native and a summarising model, 3 calls, 2 starts, up to 2 checkpoints or 1 and an expiry | 3.1 M | `ContextComplete`, `VersionsFollow` |
| `governance` | 1 tenant, 2 callers, 3 tools (one risky, one barred), 2 scopes | 1.1 M | `BooksBalance`, `CallsAccounted` |
| `runtime` | 2 servers, 3 connections, 2 model clients, fair | 0.3 M | `LeasesHonoured`, `ShutdownCompletes` |
| `parts` | the eighteen small modules side by side | 0.5 M | one property each: `DirectorySound`, `MessagesArrive`, `CloseIsOrderly`, `CatalogSound`, `EffectsSettled`, `DialogueSound`, `SandboxSound`, `CheckpointsSound`, `InstallAtomic`, `RolesSound`, `TraceIsTree`, `PipelineContract`, `LiveTraceSound`, `TeamTraceSound`, `FanoutSound`, `PagingSound` |
| `loop_recover_rejected` | as `loop_crash` | | violated as expected, see *Finding* |

A property of a run is a conjunction of named parts, each with its own comment in the module;
TLC reports the whole, the parts say what it consists of. Each property has a mutant: an
operator next to the original that makes a mistake a programmer could make there (no CAS,
uncounted attempt, kept approval, unchecked name, lost sentinel, ...), under which it fails.

Bounds. Two calls are enough for every race the code can have on one checkpoint: the CAS
serialises saves, and a third call can only be another loser; the same argument gives two
controllers, two processes and two clients. Two cycles and two steps
let an approval, an operation or a record of one cycle or step meet the next; the
attempt limits 2 and 6 let the limit bite in one run and stay out of the way in
another. In `AgentLoop` one heartbeat per run is enough because it changes nothing but the revision; in
`context` and `LiveTracing`, where it matters what a heartbeat saves, only the revisions and the tasks bound them.
One fault (two with a single caller) reaches every handler and a fault in a handler.
Symmetry exchanges the two processes with their calls, in `parts` the two actors of the part
that moves where nothing tells them apart. In the queue, two workers with
one task each make two holders of a command race; the second enqueue lets a run_id be used
again after it was cancelled or acknowledged, and two faults let a lease be lost twice, or
lost while another is. In the service three operations let a resume meet a settlement and a
cancellation both. In the team two tasks side by side and one that depends on another are the
two shapes of a plan the code treats differently. In the context three calls let
compaction, an answered tool call and a change of model follow each other; two starts and two checkpoints are a
run, its checkpoint, a restart and the heartbeat of the first call after it. In the governance
instance the limits are met by the second caller. The small modules have
two actors and limits of one to three: the first value that is refused or dropped; `LiveTracing` has five spans
(two segments with a phase and a call, and one of a late answer or score), `EventFanout` two events, of one
run or of two at the same time. `parts`
adds the states of its modules up (`part` picks one, the others stand still), it does not
multiply them.

Fairness. `AgentLoop!FairSpec` gives weak fairness to each call's own steps: the event loop runs
every ready task, and a component that was called answers, raises or is stopped by
the supervisor. Callers, cancellation, crashes and faults get none. Heartbeats are bounded
by `MaxBeats`: an endless sequence of them would be a component that never answers.
In `MemoryQueue`, workers poll, tasks settle, handlers end, orphaned leases run out and
delays pass; renewals, failures, aborts, cancellations and stop requests get no fairness.
In `ToolRuntime`, calls of models and tools come back, closing and starting connections
come back, and the shutdown takes its next step when it can; hosts and cancellations get none.
`CHECK_DEADLOCK FALSE` where everything may be at rest: an empty queue with stopped workers,
an ended team run, a closed runtime.

## Finding

`loop_recover_rejected`: a crash between the save of a failed verification and the
replanning save makes `recover` go on behind the failed step and complete the run
(`controller.py:580`); `matterloop-core/README.en.md:143` and `:271` say that a run completes when
all steps pass and that a failed result triggers replanning.

## Deviations met while modelling

The models do what the code does here; the properties are stated so that they hold all the
same, or are checked in environments without the trigger. Each is worth a look by a maintainer.
`README.en.md` is the one of `matterloop-core`, `README.md` the one of `matterloop-agents`.

Controller

* `:700`: `active_operation_id` is set before the boundary and attempt checks; a stop there
  keeps it, and `resume(REPLAN)` then fails the run (`README.en.md:212`).
* `:744`: an exception of the publisher after EXECUTION_COMPLETED was saved goes to the retry
  policy, and the executor may be called again (`README.en.md:273`, `:326`). With a policy that
  replans, the pending result is stored without its operation: `CheckpointReadable` is
  therefore not checked with `"publish"`.
* `:750`: the approval of the abandoned step survives a replan by the retry policy.
* `:452`: `_drive`'s `finally` discards a cancellation meant for another driver (`README.en.md:311`).
* `NoInternalError` fails with `"budget"` and `"resume"` (BLOCKED -> VERIFYING is missing from
  the table); `ClockStopsAtRest` fails with `"crash"` and `"resume"` (crash after LOOP_RESUMED).

Queue and service

* `queueing.py:337`: releasing a cancelled lease leaves the mark behind; the next command of
  that run_id is accepted and then dropped. The environment of `queue` with cancellations has
  no failing handlers for this reason.
* The example pull worker claims records of any status and raises on RESUME; a client that
  dies between create and enqueue leaves a QUEUED record without a command; `_update` gives up
  after 16 conflicts; a Celery worker that dies after its claim leaves RUNNING, and the
  redelivered message is answered as a duplicate while the claim lasts (`tasks.py:153`). A task that fails
  before its claim (`tasks.py:126`) loses the command: the record stays QUEUED. `RunsReachable` excepts it
  together with the calls that gave up.

Team

* `orchestrator.py:440`: a human answer revives a CANCELLED, FAILED or TIMED_OUT run whose
  interaction is still pending (against `models.py:66`); `EndedStaysEnded` excepts exactly this.
* `:1032`: an approved review draft is lost (`README.md:171`). Replay-safe tasks may exceed
  `max_task_attempts` after a recovery. An exhausted budget leaves sibling calls running. An accepted
  cancellation is lost when the run pauses or blocks. A task interrupted in WAITING_APPROVAL
  needs recovery. The child run_id of `LoopAgentEndpoint` repeats after a replan.

Ledger: `recover`, and `reconcile`, which does not ask for RECONCILIATION_REQUIRED, may decide about a record whose executor is alive, so a FAILED record may
have an effect afterwards; `invoke` never goes on with a PREPARED record left by a crash, and
nothing in the code calls `recover` by itself, so no liveness is claimed.

Context: the recovery reference is dropped before restore and prepare have succeeded (`manager.py:134`): a
heartbeat saved in the first call after a restart, before its own version is there, or the checkpoint after such a call
has failed, names no version (`manager.py:962`), and the next restart takes the latest one. `ReferenceKept`
says that a checkpoint loses its reference in no other way;
externalised tool outputs are never released; versions may repeat in Redis if retention is
shorter than a model call (the model lets a key expire only while no call is under way).

Governance: wrappers built before a tenant is deactivated go on spending (`metering.py:177`, `gateway.py:82`);
the gateway's docstring (every call is audited) does not hold for cancellations and
raising callbacks; a call the quota refuses keeps its share of the run's limit; `_run_calls`
is never cleared; a settlement violation is audited as an error although the tool ran.

Runtime: the roll-back of a replacement lets the last borrower of the old slot close the
connection in service (`container.py:69`); one failing close in `container.aclose` leaves others
open and a second `aclose` returns at once; a start that is cancelled leaks its component;
`LocalRuntime._submit` racing `close` can block for ever (`facades.py:349`); an operation that
closes its own runtime waits for itself; a second `McpServerRegistry.aclose` may return before
the first has finished.

Network: the docstring of `is_compatible_with` (`contract.py:217`) is false when the type, enum or
nested schema of a shared field differs; `SafeSwitch` is about fields and requirements. A receiver that
waits on the old inbox of an agent registered again never wakes. A predicate of a subscription that raises
(`bus.py:142`) ends the publication for all other handlers even with LOG_AND_CONTINUE, and one of a rule
(`router.py:99`) ends the route. A late answer can satisfy a retry with
the same correlation id.

Tracing: `BatchingPipeline.shutdown` may never return: the stop event is set before the sentinel
is put (`pipeline.py:90`, `:93`), the worker may leave in between, and `queue.join` then waits for the
sentinel. Roots opened by a human answer, or by cancelling a resting run, are not ended or not connected;
`TracedModelClient` loses its span on cancellation; items whose parent was dropped stay pending;
a JSONL export that is retried repeats lines; a team span is opened before a save that may be refused.

Codec: a result in a Redis run record loses `pending_interaction`, `human_interactions`,
`active_operation_id`, heartbeat and revision (`codec.py:96`); tuples in request metadata come back as
lists, and a resubmission is then refused as a different request (`controller.py:877`).

Others: the DeepSeek adapter ignores `request.input_items`; schema instructions of earlier turns
stay in the dialogue; the sandbox's time-out starts only after stdin was fed, and a cancellation while
feeding leaves the child running; a timeout or cancellation that meets the end of the child becomes a
ProcessLookupError (`sandbox.py:167`); after a lost answer a save retried by the Redis store conflicts with
itself; `FactoryCatalog.discover` is not atomic over several plugins.

## Proofs

The first part of `AgentLoopProofs` proves, for every set of calls, objects, plans, limits and environments
(`LoopAssumption`, `RequestsAssumption`: the constants have their types and there is a
request):

* `TypeCorrect`: `Spec => []TypeOK`;
* `AttemptsBounded`: `Spec => []AttemptBudget`;
* `CommittedKept`: `Spec => HistoryKept`.

None of them is inductive. The number of executor calls is bounded by the *stored*
attempt counter, but a call counts in its private context and saves it later, so the
proof has to know that a save which passes the CAS comes from a context that continues
the stored one. `IndInv` is

    TypeOK /\ CursorOK /\ FreshOK /\ BudgetOK

`CursorOK`: at an await inside the loop body the cursor is on a step of the plan (needed
for the types of operations and records). `FreshOK`: no call is ahead of the store, and
one that is level with it agrees with it but for what it has added (`Continues`).
`BudgetOK`: the budget in the store and in every context. `CallStep` says once what a step
of one call has to establish for `IndInv'`; `GotoStep` and `CommitStep` establish it for
the two ways a call moves on, `TransitionStep`, `StopStep` and `RequestHumanStep` for the
operators built from them; `LoopStepPreserves` then has one case per action. Every step
satisfies `Kept`: the checkpoint is untouched or replaced by one that `Advances` it,
which gives `HistoryKept`.

The first part of `PartProofs` proves `LedgerKeepsPromise`: `LedgerSpec => EffectsSettled` for every set of
callers, requests and executions (`LedgerAssumption`: `None` is no request and no execution). `EffectOnce` is
not inductive: that an effect is not repeated rests on who may still cause one. `LedgerInv` adds to
the types, `SharedRecord` and `CommittedIsReal`: whoever is at work has a record (`OnARecord`); one
caller at most is past `mark_executing` with a record (`OneOwner`); a record nobody marked has no such
caller and no effect (`Untouched`); an executor under way has caused nothing and one that returned has
(`EffectFollows`); no record is behind two effects (`Distinct`). One lemma per action shows
that it is preserved; `DecidedOnce` follows from the transition table and `LedgerInv`.

The second part of `AgentLoopProofs` goes on from `IndInv`. For every environment it proves

* `RecordsKept`: `Spec => []RecordsTraceCalls`;
* `AnswersKept`: `Spec => []OneAnswer`;

and, where no two calls share a cancellation mark (`Separate`: each call has an `AgentLoop`
object of its own, or nobody calls `cancel`),

* `EndedStayEnded`: `Spec => TerminalFinal`;
* `FaultsKept`: `Spec => FaultsSurvived`, all that `loop_faults` asks.

`WorkInv` says of every context what the code keeps true of it between its saves: the records
and the waiting result are calls that were made, each once (`Traced`); answers belong to
different interactions, all older than the checkpoint, and the pending one has none
(`AnsweredOnce`); from `BeginExecute` to the record a call works on the operation of its
step (`Placed`). `EndInv` says where a context whose run has ended can still be: on its way out, or,
when the save that ended it raised under supervision, in the hands of the retry policy, out
of time or with the cancellation mark still standing (`Ended`). Without `Separate` the last
theorem is false: two calls on one object, a cancellation, a storage fault in the save of
`SupervisedCancel`, a policy that retries (this saves CANCELLED), the other call returns and
discards the mark (`_drive`'s `finally`), and the first calls the executor of an ended run.

The first part of `LoopResumeProofs` proves, when no save and no publication raises (`~Faulty`),

* `CallsNeverBlind`: `Spec => []NoBlindReplay`;
* `CheckpointsReadable`: `Spec => []CheckpointReadable`;
* `CrashSurvived`: with `Separate`, `Spec => CrashSafe`, all that `loop_crash` asks.

`ReplayInv` says where an operation that was called and is not known to have failed can be
(`Spent`): in an earlier cycle, in a dropped plan or an ended run, at a step that is done, or
at the current step of a checkpoint that says so (`InFlight`: a result is waiting, the status
is EXECUTING, or the run is blocked for recovery). `Settled` says this of the stored
checkpoint, `Trusted` of a call that is level with the store, depending on the await it is at.
A crash, a lost race or a cancellation then leaves only the checkpoint, and `recover`,
`resume` and `submit_human_response` start from what `Settled` says. TLC checked `ReplayInv`
first, on the instance of `loop_crash` and on one with all faults but these two. `~Faulty` is
needed: a save of the result that raises goes to the retry policy, which may repeat the
call or save an unreadable checkpoint (see *Deviations*, `:744`).

Its second part proves

* `HumanGateKept`: when no component, save or publication raises an ordinary exception (`Calm`),
  `Spec => []HumanGate`;
* `CompletedVerified`: when nobody calls `recover` (`NoRecovery`), `Spec => []CompletedMeansVerified`.

Neither can be read off the code at the place where it matters: what `_execute` may call rests on
what was approved in this cycle, possibly by another process, and what `_stop` may call completed
on every earlier record. `HumanInv` says of the context of a call at each await (`Fit`) and of the stored
checkpoint (`StoreFit`) what they are good for: approvals are about the current step, are granted for this
cycle and do not outlive a plan (`Scoped`, `Granted`, in `Cleared`); every step behind the cursor has a
passed record of this cycle (`PassedSoFar`, in `Proven`), except between the save of a failed
verification and the one that drops the plan. An answer approves what was granted before or what
the checkpoint it was loaded from asks for (`Answering`), which the CAS makes the stored one. Most
awaits only need `Mid`, and `StopFits`, `TransitionFits`, `CommitFits` and `CompleteFits` then treat
the ways a call moves on. TLC checked `HumanInv` first, on four instances that satisfy one condition
or both. `Calm` is needed: a retry policy that replans after an exception keeps the approval of the
abandoned step (see *Deviations*, `:750`). `NoRecovery` is needed: `loop_recover_rejected` is the
counterexample. Crashes, exhausted budgets, time-outs, cancellations, lost races and, for
`CompletedVerified`, all faults are allowed.

`QueueProofs` proves `QueueKeptSound`: `Spec => []QueueSound`, and `PromiseKept`: `Spec => KeepsPromise`,
the refinement of `LeaseQueue`, for every set of runs and workers, concurrency and number of
enqueues and faults. `Places` counts, so the invariant is restated without counting:
`OneEach` says of each run where its one command is. One lemma per operation shows how it
keeps `OneEach`, first `_reclaim_expired` and then the operation proper. The refinement adds
`Marks` (a marked run is known, leased and asked to be cancelled) and computes with
`Tells`, which determines the refinement mapping from the tables; each operation is a
step of `LeaseQueue` or a stutter. `PromiseKept` assumes `MarksApart`: no environment has both
cancellations and failing handlers, because there the code does not keep the promise
(`queueing.py:337`, see *Deviations*). `QueueKeptSound` needs no such assumption.

The second part of `PartProofs` proves `DirectoryKept`: `DirSpec => DirectorySound`, for any agents, finitely many
borrowers and any edits. `AbleLease` and `WithinLimit` are not inductive, because the policy runs
outside the lock on an old snapshot: `DirInv` adds that a view is right as long as the slot
is the same object of the same generation (`ViewsAgree`) and that the choice was able in the
view (`ChosenAble`).

The other parts of `PartProofs`, each for every value of its constants:

* `StreamKept`: `StreamSpec => []PagingSound`. The stream has no gap behind what was trimmed (`NoGap`), so
  the first entry behind the cursor is the next one or the oldest left (`FirstAfterCursor`), and the reader
  has everything up to its cursor that is not trimmed (`NoneSkipped`).
* `SandboxKept`: `SandboxSpec => []SandboxSound`. What both readers have kept and what is left make up the
  budget, and until it is exceeded they have kept all they have read (`BudgetShared`); `ProcessFollows` says how
  far the process is at each stage of the call.
* `TeamRuntimeKept`: `TeamRtSpec => []CloseIsOrderly`, for finitely many clients. Who is queued is in
  the loop's callbacks once and not behind a stop (`ReadyInOrder`), because nobody is queued once the
  runtime is closed and a stop is queued only after that (`StopsForClose`), for a close task that has
  waited for whoever was running (`DrainedFirst`).
* `SavesKept`: `CkSpec => [](SavesBuildOnSaves /\ ToldIsStored)`, the part of `CheckpointsSound` that is about
  Redis. A context was made from the version whose revision it carries, as long as the key was never
  lost (`MadeFromStored`), so the script's comparison of numbers is one of contents; `StoredIsThere` covers the
  success whose answer is still on its way, or lost.
* `VersionsKept`: `Spec => []VersionsFollow` of `ContextManager`. What a call carries between its two stretches
  must still be what the store has when its second save is accepted: the snapshot it asks with is the
  latest version until the answer is recorded or another process saves, and then `expected_revision`
  refuses it; what a process owes its first context to stays owed until a call has taken it. `ReferenceKept`
  follows from what a process has at each point of a call: a recovery reference, a version of its own, or
  neither, and then its first call has taken the reference and not saved yet, or it failed.
* `PluginsKept`: `PlugSpec => InstallAtomic`. A component is created for one name of one installation
  (`MadeForOne`), and what an installation has created is not published before it is done (`HeldBack`).
* `BusKept`: `BusSpec => BusSound`, the part of `MessagesArrive` that is about the bus. Inboxes are bounded queues
  of what was sent (`InboxInv`); the table of futures holds the calls under way, and one that waits
  has no answer yet (`AsksInv`).
* `PipelineKept`: `PipeSpec => PipelineContract`. What was exported, the batch and the queue are each in
  order and follow one another, and with what was dropped they are all that was enqueued (`InLine`). `PipeInv` adds
  that `unfinished` counts queue and batch, that an export is counted while it runs, and that the worker leaves,
  and `shutdown()` returns, only when nothing but a sentinel is or will be queued.

`ServiceProofs` proves, for any workers and clients and any number of operations and faults
(`ServiceAssumption`: the types of the constants),

* `RunsKept`: `Spec => []RunsReachable`;
* `ResultsKept`: `Spec => ResultsFinal`;
* `PromiseServed`: `Spec => KeepsPromise`, the Redis queue refines `LeaseQueue`.

A Lua script is one step, so each has a lemma that says what it leaves in the queue when the tables
agree with each other (`QueueInv`), and all else is about what clients and workers do with the
answers. The invariant is `StoreOK` (the record and the queue fit each other), `ClientsOK` and
`WorkersOK` (what a client or worker knows at each await is still true or will be refused by the next
script or save), `QueueOK`, `ClaimsApart` (of two claims of a run the older had run out) and `WokenOK`
(a QUEUED run is awaited by a call, a command, a message or a worker, unless a call gave up after too
many conflicts). It is needed because a record and a command are written one after the other
by processes that may stop between them: that the run stays reachable, and that a result belongs to the
claim it was made under, depends on what the one that stopped had already done.

`TeamProofs` proves, for any finite set of tasks, any plans, controllers and limits (`TaskSpecs` and `Limits`:
types of the constants; the values that stand for nothing are no task),

* `TeamKeptSound`: `Spec => []TeamSound`;
* `CallsKeptJustified`: `Spec => []CallsJustified`;
* `EndedKept`: `Spec => EndedStaysEnded`.

Its first part is about the graph: each operation of `TaskGraph` keeps a graph loadable (`Loads`) and at rest
(`Stable`: refreshing it changes nothing). The invariant then says that the stored graph accounts
for the calls that were made (`SnapOK`, `CallsOK`), and that a controller whose copy is the stored one
stands at an await that fits the graph (`Fit`). Nothing is asked of a controller with an old copy: its next save
is refused. That a run which is neither ended nor waiting can always go on (`CanGoOn`, so the
orchestrator's deadlock branch is dead) needs `IsDAG` and `Stable` both.

`GovernanceProofs` proves, for any tenants, callers, tools, scopes, limits and rates (`GovernanceAssumption`: types of
the constants, finitely many callers, `"principal"` is no tool),

* `BooksKept`: `Spec => []BooksBalance`;
* `CallsKept`: `Spec => []CallsAccounted`.

What is reserved is not inductive by itself: it is the sum of what the callers hold, so the invariant says of
each caller what it holds at the await it is at (`CallersFit`), that the reserved amount is backed by just these
callers (`Backed`), and that it and what was spent stay under the limits (`Within`), which for settlements rests on
`EstimateCovers`: the cost of the usage is at most the cost that was reserved, roundings included.
`CallsTold` says the same of the audit trail: what an entry tells agrees with what its caller did. For
`TrailMatchesLedger` it does not suffice to count entries, because a tool runs, is charged and is recorded in
three steps: `TrailInv` puts what a tenant was charged for between the calls that are recorded as allowed or about to
be (`Paid`) and those that ran and are over (`Finished`), which holds because a caller's call is of the tenant whose
ledger it has (`Owned`).

`RuntimeProofs` proves `LeasesKept`: `Spec => []LeasesHonoured`, for any runs, callers, servers, connections
and model clients (`RuntimeAssumption`: types of the constants; no two connections start in one slot). That a connection
is open while it is used and closed once depends on who may still decide to close it: its last caller, the
host, or the close task. `RuntimeInv` says what each of them holds at the await it is at (`Fits`); that
a connection whose closing has begun is out of its slot, has no callers, and is locked or through (`Over`,
`Locks`); that a connection which is being started is known to nobody (`NotYet`); what the close task has
left behind and before it (`Emptied`); and that an open connection has somebody who is still to close it
(`Held`, in `NothingLost`), unless a start or a close was cut short. `TaskMoves`, `CloseAsked`, `CloseOver` and
`ShutdownMoves` say once what a step of a caller, the beginning and the end of a close, and a step of the
shutdown have to establish; `NextKept` then has a few lines per action.

TLC checked each of these four invariants first, on the instance of the run, and that of `TeamProofs` on a larger
one too.

The hypotheses of the theorems are the assumptions on constants (their types; borrowers are
and clients are finite, a request exists, what stands for nothing is no context or component; inboxes, batches and queues have room) and the named conditions `Separate`, `~Faulty`, `Calm`, `NoRecovery`
and `MarksApart`. Each is satisfied by the instance of the run that checks the same property.

Only model-checked: of `AgentLoop` `RestsCleanly` (`NoInternalError` and `ClockStopsAtRest`, which
hold only in few environments, see *Deviations*); of `ContextManager` `ContextComplete`; of the modules
in `parts` all but those in `PartProofs`.
Liveness under fairness (`Progress`, `Served`, `ShutdownCompletes`) and everything about
ENABLED is beyond the prover, and so is what a recursive definition computes for every input
(compaction in `ContextItems`, the schemas of `AgentCatalog`). Where an argument needs the least or the
n-th of a set of numbers (`InOrder`), it goes by `WFMin` and by ranks, not by induction over
a predicate.

## Plan

1. Theorems: `ContextComplete` of `ContextManager`; then the tracing modules of `parts`.
2. Liveness of a team run (every driver ends): the instance of `team` is too large for TLC's
   liveness check, a smaller one with one controller is the way.
3. Composition of `TeamRun` with `AgentDirectory`, and of `RunService` with `AgentLoop` through
   the abstract checkpoint, in place of the external Loop.

## Not modelled

* Memory stores and retrieval: lists with text similarity and floating-point decay; no protocol
  between actors.
* Intent, analysis, learning, scoring and evaluation: arithmetic and text rules on one input.
* MCP name and payload mapping, skills, built-in tools: conversions, files and HTTP. The MCP
  connections' life cycle is in `ToolRuntime`.
* Presets and FastAPI: wiring and request mapping without state of their own.
* Prompts, wording, JSON layouts, the HTTP side of the model providers, the Responses adapter's
  payloads. Durations and clocks are abstracted to the comparisons the code makes with
  them; a clock that runs backwards is not modelled.
