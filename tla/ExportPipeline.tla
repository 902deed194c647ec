--------------------------- MODULE ExportPipeline ---------------------------
(***************************************************************************)
(* BatchingPipeline (pipeline.py), the daemon thread that batches what the  *)
(* producers enqueue, and the life cycle of the OtelExporter it feeds        *)
(* (exporter.py): exports are counted, and aclose() waits for them.          *)
(*                                                                         *)
(* Producers, the worker thread and the callers that close the pipeline and  *)
(* the exporter interleave; each access to the queue, the stop event and the *)
(* locks is a step.  Items are numbers in the order of their enqueue() call. *)
(* What the exporter does with a batch is module SpanTree's part.            *)
(***************************************************************************)
EXTENDS Naturals, Sequences, FiniteSets, SequencesExt

CONSTANTS
    Closers,     \* callers of BatchingPipeline.shutdown and OtelExporter.aclose
    FlushAt,     \* BatchingPipeline flush_at
    QueueCap,    \* BatchingPipeline max_queue_size
    MaxCalls     \* bound: calls of enqueue in one behaviour

ASSUME PipelineAssumption ==
    FlushAt \in Nat \ {0} /\ QueueCap \in Nat \ {0} /\ MaxCalls \in Nat

VARIABLES
    calls,       \* enqueue() calls so far
    fifo,        \* self._queue
    unfinished,  \* its unfinished_tasks, what queue.join() waits for
    batch,       \* the worker's local batch
    worker,      \* where the worker thread is
    stop, closed,\* self._stop, self._closed
    closer,      \* where each closer is
    active, closeState,  \* OtelExporter._active_exports, _close_state
    sunk,        \* what the exporter took, in order
    dropped      \* what a full or closed pipeline or a closing exporter refused

pipeVars == <<calls, fifo, unfinished, batch, worker, stop, closed, closer,
              active, closeState, sunk, dropped>>

Sentinel == 0

PipeInit ==
    /\ calls = 0 /\ fifo = <<>> /\ unfinished = 0 /\ batch = <<>> /\ worker = "get"
    /\ stop = FALSE /\ closed = FALSE /\ closer = [c \in Closers |-> "idle"]
    /\ active = 0 /\ closeState = "open" /\ sunk = <<>> /\ dropped = {}

\* shutdown() holds the state lock while it signals the worker.
LockFree == \A c \in Closers : closer[c] # "signalled"

\* enqueue
EnqueueItem ==
    /\ LockFree /\ calls < MaxCalls /\ calls' = calls + 1
    /\ IF closed \/ Len(fifo) >= QueueCap
       THEN dropped' = dropped \cup {calls + 1} /\ UNCHANGED <<fifo, unfinished>>
       ELSE /\ fifo' = Append(fifo, calls + 1) /\ unfinished' = unfinished + 1
            /\ UNCHANGED dropped
    /\ UNCHANGED <<batch, worker, stop, closed, closer, active, closeState, sunk>>

----------------------------------------------------------------------------
(* _run, the worker thread                                                  *)

WorkerKeeps == UNCHANGED <<calls, stop, closed, closer, closeState>>
AfterEmpty == IF batch # <<>> THEN "export" ELSE "check"

\* queue.get(timeout): an item, the stop sentinel, or nothing for a while.
WorkerGet ==
    /\ worker = "get" /\ fifo # <<>> /\ fifo' = Tail(fifo)
    /\ IF Head(fifo) = Sentinel
       THEN worker' = AfterEmpty /\ unfinished' = unfinished - 1 /\ UNCHANGED batch
       ELSE worker' = "fill" /\ batch' = Append(batch, Head(fifo)) /\ UNCHANGED unfinished
    /\ UNCHANGED <<active, sunk, dropped>> /\ WorkerKeeps

WorkerIdle ==
    /\ worker = "get" /\ fifo = <<>> /\ worker' = AfterEmpty
    /\ UNCHANGED <<fifo, unfinished, batch, active, sunk, dropped>> /\ WorkerKeeps

\* The inner loop: get_nowait until the batch is full or the queue is empty.
WorkerFill ==
    /\ worker = "fill"
    /\ IF Len(batch) < FlushAt /\ fifo # <<>>
       THEN /\ fifo' = Tail(fifo)
            /\ IF Head(fifo) = Sentinel
               THEN worker' = "export" /\ unfinished' = unfinished - 1 /\ UNCHANGED batch
               ELSE batch' = Append(batch, Head(fifo)) /\ UNCHANGED <<worker, unfinished>>
       ELSE /\ worker' = IF Len(batch) >= FlushAt \/ stop THEN "export" ELSE "check"
            /\ UNCHANGED <<fifo, batch, unfinished>>
    /\ UNCHANGED <<active, sunk, dropped>> /\ WorkerKeeps

\* `if self._stop.is_set() and self._queue.empty(): break`, then the last batch.
MayExit == stop /\ fifo = <<>>
AfterLoop == IF batch # <<>> THEN "last" ELSE "exited"
WorkerCheck ==
    /\ worker = "check"
    /\ worker' = IF MayExit THEN AfterLoop ELSE "get"
    /\ UNCHANGED <<fifo, unfinished, batch, active, sunk, dropped>> /\ WorkerKeeps

\* Mutant: the batch is not emptied after it was exported.
BatchKept ==
    /\ unfinished' = unfinished - Len(batch) /\ UNCHANGED batch
    /\ worker' = IF worker \in {"last", "lastExport"} THEN "exited" ELSE "check"

\* _export: task_done for each item of the batch, exported or given up.
BatchDone ==
    /\ batch' = <<>> /\ unfinished' = unfinished - Len(batch)
    /\ worker' = IF worker \in {"last", "lastExport"} THEN "exited" ELSE "check"

\* OtelExporter.export raises when it is closing, at the second attempt too.
ExportRefused ==
    /\ worker \in {"export", "last"} /\ closeState # "open"
    /\ dropped' = dropped \cup ToSet(batch) /\ BatchDone
    /\ UNCHANGED <<fifo, active, sunk>> /\ WorkerKeeps

ExportBegin ==
    /\ worker \in {"export", "last"} /\ closeState = "open"
    /\ active' = active + 1
    /\ worker' = IF worker = "last" THEN "lastExport" ELSE "exporting"
    /\ UNCHANGED <<fifo, unfinished, batch, sunk, dropped>> /\ WorkerKeeps

ExportEnd ==
    /\ worker \in {"exporting", "lastExport"}
    /\ sunk' = sunk \o batch /\ BatchDone /\ active' = active - 1
    /\ UNCHANGED <<fifo, dropped>> /\ WorkerKeeps

----------------------------------------------------------------------------
(* The callers: shutdown() of the pipeline, then aclose() of the exporter;  *)
(* another component may close the exporter without the pipeline.           *)

CallerKeeps == UNCHANGED <<calls, batch, worker, active, sunk, dropped>>
At(c, here, there) == closer[c] = here /\ closer' = [closer EXCEPT ![c] = there]

ShutdownSignal(c) ==
    /\ LockFree /\ At(c, "idle", IF closed THEN "joining" ELSE "signalled")
    /\ closed' = TRUE /\ stop' = TRUE
    /\ UNCHANGED <<fifo, unfinished, closeState>> /\ CallerKeeps

\* put_nowait(self._stop_sentinel), queue.Full suppressed
ShutdownWake(c) ==
    /\ At(c, "signalled", "joining")
    /\ IF Len(fifo) < QueueCap
       THEN fifo' = Append(fifo, Sentinel) /\ unfinished' = unfinished + 1
       ELSE UNCHANGED <<fifo, unfinished>>
    /\ UNCHANGED <<stop, closed, closeState>> /\ CallerKeeps

\* worker.join(timeout), then flush(): queue.join()
ShutdownJoin(c) ==
    /\ At(c, "joining", "flushing")
    /\ UNCHANGED <<fifo, unfinished, stop, closed, closeState>> /\ CallerKeeps

ShutdownFlush(c) ==
    /\ unfinished = 0 /\ At(c, "flushing", "drained")
    /\ UNCHANGED <<fifo, unfinished, stop, closed, closeState>> /\ CallerKeeps

\* _close_provider: the first caller waits for the exports under way, the
\* others for the first.
CloseBegin(c) ==
    /\ closeState # "closing" /\ closer[c] \in {"idle", "drained"}
    /\ closer' = [closer EXCEPT ![c] = IF closeState = "open" THEN "closing" ELSE "done"]
    /\ closeState' = IF closeState = "open" THEN "closing" ELSE closeState
    /\ UNCHANGED <<fifo, unfinished, stop, closed>> /\ CallerKeeps

ExportsOver == active = 0
CloseEnd(c) ==
    /\ ExportsOver /\ At(c, "closing", "done") /\ closeState' = "closed"
    /\ UNCHANGED <<fifo, unfinished, stop, closed>> /\ CallerKeeps

WorkerStep ==
    \/ WorkerGet \/ WorkerIdle \/ WorkerFill \/ WorkerCheck
    \/ ExportRefused \/ ExportBegin \/ ExportEnd

CloserStep(c) ==
    \/ ShutdownSignal(c) \/ ShutdownWake(c) \/ ShutdownJoin(c) \/ ShutdownFlush(c)
    \/ CloseBegin(c) \/ CloseEnd(c)

PipeNext == EnqueueItem \/ WorkerStep \/ (\E c \in Closers : CloserStep(c))

PipeSpec == PipeInit /\ [][PipeNext]_pipeVars

----------------------------------------------------------------------------
\* The state has the shape the code gives it.
PipeTypeOK ==
    /\ calls \in 0..MaxCalls /\ unfinished \in Nat /\ active \in 0..1
    /\ Len(fifo) <= QueueCap /\ Len(batch) <= FlushAt
    /\ worker \in {"get", "fill", "check", "export", "exporting", "last", "lastExport", "exited"}
    /\ closer \in [Closers -> {"idle", "signalled", "joining", "flushing", "drained",
                               "closing", "done"}]
    /\ closeState \in {"open", "closing", "closed"}

\* pipeline.py: the contract SpanTree builds on.  What was enqueued is handed
\* over in order, once, or dropped; what is neither is in the batch and then
\* the queue, in order again: no worker step loses, doubles or reorders it.
LossyFifo ==
    LET line == sunk \o batch \o fifo
        items == ToSet(line) \ {Sentinel}
    IN /\ \A i, j \in DOMAIN line :
            i < j /\ line[i] # Sentinel /\ line[j] # Sentinel => line[i] < line[j]
       /\ Sentinel \notin ToSet(sunk \o batch)
       /\ items \cap dropped = {} /\ items \cup dropped = 1..calls

\* pipeline.py flush(): when shutdown() returns, everything accepted has been
\* exported or dropped; nothing is queued or in the worker's hands.
FlushDrains ==
    \A c \in Closers : closer[c] = "drained" => batch = <<>> /\ ToSet(fifo) \subseteq {Sentinel}

\* pipeline.py _run: the worker leaves nothing behind when it exits.
ExitsEmpty == worker = "exited" => batch = <<>> /\ ToSet(fifo) \subseteq {Sentinel}

\* exporter.py aclose(): once it is closed nothing more reaches the provider.
NothingAfterClose == [][closeState = "closed" => sunk' = sunk]_pipeVars

\* The pipeline keeps the contract SpanTree builds on until it is closed, and
\* nothing moves after that (BatchingPipeline, aclose).
PipelineContract ==
    [](PipeTypeOK /\ LossyFifo /\ FlushDrains /\ ExitsEmpty) /\ NothingAfterClose
============================================================================
