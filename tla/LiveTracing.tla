---------------------------- MODULE LiveTracing ----------------------------
(***************************************************************************)
(* Live OpenTelemetry tracing of one run across processes:                  *)
(*                                                                         *)
(*   OpenTelemetryTracePublisher  a root span per driven segment and one    *)
(*       phase span at a time, attached to the driver task's context        *)
(*       (live_tracing.py)                                                  *)
(*   OpenTelemetryModelClient, OpenTelemetryToolMiddleware  one span per    *)
(*       model or tool call, ended on every way out                         *)
(*       (model_client.py, tool_tracing.py)                                 *)
(*                                                                         *)
(* The run is driven by one process at a time; it may crash, lose the run   *)
(* to another driver without an event, or be suspended and resumed in       *)
(* another process.  An answer to a human question is submitted from any    *)
(* process.  Every checkpoint is prepared, saved and then published, and a  *)
(* crash may fall in between.  While a component works the controller saves *)
(* and publishes heartbeats; the calls of the component go on beside them,  *)
(* and one of them may lose the run.  A context is the span current in the  *)
(* driver's task; a token is [task, prev]: detaching it restores prev and   *)
(* fails in any task but its own.                                           *)
(***************************************************************************)
EXTENDS Naturals, Sequences, FiniteSets

CONSTANTS
    Procs,      \* processes that may drive the run
    MaxSpans,   \* bound: spans started in one behaviour
    MaxTasks    \* bound: driver tasks in one behaviour

ASSUME LiveAssumption == MaxSpans \in Nat /\ MaxTasks \in Nat

VARIABLES
    drive,    \* "new", "idle", "phase", "paused", "blocked", "away", "done"
    driver,   \* the process that drives the run, or NoProc
    task,     \* the driver's task; each drive has its own
    current,  \* the span current in that task's context, 0 for none
    live,     \* _runs of each process: its root and phase span for the run
    inner,    \* the span of the model or tool call under way, 0 for none
    carried,  \* propagation_context of the stored checkpoint: a root, 0 for none
    unpublished, \* the event saved but not published yet
    started,  \* the spans started, in order
    losers,   \* tasks that lost the run while they drove it
    leftover  \* calls of theirs that are cancelled but not over yet

liveVars == <<drive, driver, task, current, live, inner, carried, unpublished, started, losers,
              leftover>>

NoProc == "none"
NoLive == [id |-> 0, task |-> 0, prev |-> 0]
NoRun == [root |-> NoLive, phase |-> NoLive]

LiveInit ==
    /\ drive = "new" /\ driver = NoProc /\ task = 0 /\ current = 0 /\ inner = 0
    /\ live = [p \in Procs |-> NoRun] /\ carried = 0 /\ unpublished = "none"
    /\ started = <<>> /\ losers = {} /\ leftover = {}

Suspending == {"LOOP_PAUSED", "LOOP_BLOCKED"}        \* _SUSPENSION_EVENTS
Ending == {"LOOP_ENDED"}                             \* _TERMINAL_EVENTS
RestOf(e) == CASE e = "LOOP_PAUSED" -> "paused"
               [] e = "LOOP_BLOCKED" -> "blocked"
               [] OTHER -> "done"
AtRest == drive \in {"paused", "blocked", "done"} /\ unpublished = "none"

----------------------------------------------------------------------------
(* The publisher's bookkeeping, as a record that one event transforms       *)

Now(p) == [live |-> live[p], current |-> current, spans |-> started, task |-> task]

StartSpan(s, p, kind, parent) ==
    [s EXCEPT !.spans = Append(@, [kind |-> kind, parent |-> parent, proc |-> p, task |-> s.task,
                                   state |-> "open", segment |-> s.live.root.task = s.task])]
Newest(s) == Len(s.spans)
Token(s) == [id |-> Newest(s), task |-> s.task, prev |-> s.current]

\* _open_run: a child of the propagated root when there is one
OpenRun(s, p, parent) ==
    LET n == StartSpan(s, p, "root", parent)
    IN [n EXCEPT !.live.root = Token(n), !.current = Newest(n)]

EnsureRun(s, p, parent) == IF s.live.root = NoLive THEN OpenRun(s, p, parent) ELSE s

\* _finish_span: detach in the task that attached, then end in any case
FinishSpan(s, span) ==
    [s EXCEPT !.current = IF span.task = s.task THEN span.prev ELSE @,
              !.spans[span.id].state = "ended"]

ClosePhase(s) ==
    IF s.live.phase = NoLive THEN s
    ELSE [FinishSpan(s, s.live.phase) EXCEPT !.live.phase = NoLive]

\* _open_phase: a phase still open is ended first
OpenPhase(s, p) ==
    LET n == StartSpan(ClosePhase(s), p, "phase", ClosePhase(s).current)
    IN [n EXCEPT !.live.phase = Token(n), !.current = Newest(n)]

\* _emit_verification_score: a span that starts and ends at once, when the last
\* verification has a score
EmitScore(s, p, scored) ==
    LET n == StartSpan(s, p, "score", s.current)
    IN IF scored THEN [n EXCEPT !.spans[Newest(n)].state = "ended"] ELSE s

\* Mutant: the root is detached before the phase.
CloseRootFirst(s) ==
    LET n == FinishSpan(s, s.live.root)
    IN [ClosePhase([n EXCEPT !.live.root = NoLive]) EXCEPT !.live = NoRun]

\* _close_run: the phase, then the root, and the entry is dropped
CloseSegment(s) ==
    LET n == ClosePhase(s) IN [FinishSpan(n, n.live.root) EXCEPT !.live = NoRun]

\* handle()
Handle(s, p, e, scored) ==
    LET n == EnsureRun(s, p, carried) IN
    CASE e \in Suspending \cup Ending -> CloseSegment(n)
      [] e = "PHASE_STARTED" -> OpenPhase(n, p)
      [] e = "PHASE_COMPLETED" -> ClosePhase(n)
      [] e = "ITERATION_COMPLETED" -> ClosePhase(EmitScore(n, p, scored))
      [] OTHER -> n

Becomes(p, s) ==
    /\ Len(s.spans) <= MaxSpans
    /\ live' = [live EXCEPT ![p] = s.live] /\ current' = s.current /\ started' = s.spans

----------------------------------------------------------------------------
(* The driver                                                               *)

\* prepare_checkpoint: the terminal checkpoint carries nothing, the others the
\* live root; without one the stored context stays as it is.
Prepared(p, e) ==
    IF e \in Ending THEN 0
    ELSE IF live[p].root # NoLive THEN live[p].root.id ELSE carried

Checkpoint(p, e) == carried' = Prepared(p, e) /\ unpublished' = e

\* run(), resume() and recover() begin with a checkpoint in a new task.
Drive(p) ==
    /\ driver = NoProc /\ unpublished = "none" /\ task < MaxTasks
    /\ drive \in {"new", "idle", "phase", "paused", "blocked", "away"}
    /\ \E e \in (IF drive = "phase" THEN {"LOOP_BLOCKED", "LOOP_RECOVERED"} ELSE {"LOOP_RESUMED"}) :
          Checkpoint(p, e)
    /\ driver' = p /\ task' = task + 1 /\ current' = 0
    /\ drive' = IF drive = "phase" THEN "phase" ELSE "idle"
    /\ UNCHANGED <<live, inner, started, losers, leftover>>

\* The events of a drive.  One that starts a phase follows one that ended the
\* last; while a component's call is under way only the heartbeat is saved.
Emit(e) ==
    /\ driver # NoProc /\ unpublished = "none"
    /\ inner = 0 \/ e = "LOOP_HEARTBEAT"
    /\ drive = IF e = "PHASE_STARTED" THEN "idle"
               ELSE IF e \in Suspending \cup Ending THEN drive ELSE "phase"
    /\ Checkpoint(driver, e)
    /\ UNCHANGED <<drive, driver, task, current, live, inner, started, losers, leftover>>

Publish ==
    /\ driver # NoProc /\ unpublished # "none"
    /\ \E scored \in BOOLEAN : Becomes(driver, Handle(Now(driver), driver, unpublished, scored))
    /\ unpublished' = "none"
    /\ drive' = CASE unpublished = "PHASE_STARTED" -> "phase"
                  [] unpublished \in {"PHASE_COMPLETED", "ITERATION_COMPLETED"} -> "idle"
                  [] unpublished \in Suspending \cup Ending -> RestOf(unpublished)
                  [] OTHER -> drive
    /\ driver' = IF unpublished \in Suspending \cup Ending THEN NoProc ELSE driver
    /\ UNCHANGED <<task, inner, carried, losers, leftover>>

\* OpenTelemetryModelClient.generate and OpenTelemetryToolMiddleware.invoke:
\* the call runs in a task of its own that copied the driver's context, maybe
\* while a heartbeat is on its way.
InnerBegin ==
    /\ driver # NoProc /\ drive = "phase" /\ inner = 0
    /\ unpublished \in {"none", "LOOP_HEARTBEAT"}
    /\ Len(started) < MaxSpans
    /\ started' = StartSpan(Now(driver), driver, "call", current).spans /\ inner' = Len(started')
    /\ UNCHANGED <<drive, driver, task, current, live, carried, unpublished, losers, leftover>>

\* Answered, failed or cancelled: the finally clauses detach and end.
Ends(i) == started' = [started EXCEPT ![i].state = "ended"]

InnerEnd ==
    /\ inner # 0
    /\ Ends(inner) /\ inner' = 0
    /\ UNCHANGED <<drive, driver, task, current, live, carried, unpublished, losers, leftover>>

\* submit_human_response of a paused run, in a task of its own in any process:
\* the event opens a root, unless one is live, that nothing in that task closes;
\* nothing is suspended or ended by it unless the answer rejects the run.
Answer(p, rejects) ==
    /\ drive = "paused" /\ unpublished = "none" /\ task < MaxTasks /\ task' = task + 1
    /\ LET e == IF rejects THEN "LOOP_BLOCKED" ELSE "HUMAN_RESPONSE_SUBMITTED"
           s == Handle([Now(p) EXCEPT !.task = task + 1, !.current = 0], p, e, FALSE)
       IN /\ Len(s.spans) <= MaxSpans
          /\ carried' = Prepared(p, e)
          /\ live' = [live EXCEPT ![p] = s.live]
          /\ started' = IF s.live.root.task # task + 1 THEN s.spans
                      ELSE [s.spans EXCEPT ![s.live.root.id].kind = "answer"]
    /\ drive' = IF rejects THEN "blocked" ELSE drive
    /\ UNCHANGED <<driver, current, inner, unpublished, losers, leftover>>

\* CheckpointConflictError of any save, a heartbeat's too: the component's call
\* is cancelled and the driver leaves without a word.
LoseDrive ==
    /\ driver # NoProc /\ unpublished = "none"
    /\ losers' = losers \cup {task} /\ driver' = NoProc /\ drive' = "away"
    /\ leftover' = leftover \cup ({inner} \ {0}) /\ inner' = 0
    /\ UNCHANGED <<task, current, live, carried, unpublished, started>>

\* The cancelled call of a driver that left is over.
LeftoverEnd(i) ==
    /\ i \in leftover
    /\ Ends(i) /\ leftover' = leftover \ {i}
    /\ UNCHANGED <<drive, driver, task, current, live, inner, carried, unpublished, losers>>

\* The process dies, before or after the event was published.
Crash ==
    /\ driver # NoProc
    /\ live' = [live EXCEPT ![driver] = NoRun] /\ current' = 0 /\ inner' = 0
    /\ started' = [i \in DOMAIN started |->
                   IF started[i].proc = driver /\ started[i].state = "open"
                   THEN [started[i] EXCEPT !.state = "dead"] ELSE started[i]]
    /\ leftover' = {i \in leftover : started[i].proc # driver}
    /\ drive' = IF unpublished \in Suspending \cup Ending THEN RestOf(unpublished) ELSE drive
    /\ unpublished' = "none" /\ driver' = NoProc
    /\ UNCHANGED <<task, carried, losers>>

LiveNext ==
    \/ (\E p \in Procs : Drive(p))
    \/ (\E e \in {"PHASE_STARTED", "PHASE_COMPLETED", "ITERATION_COMPLETED", "LOOP_HEARTBEAT",
                  "LOOP_PAUSED", "LOOP_BLOCKED", "LOOP_ENDED"} : Emit(e))
    \/ Publish \/ InnerBegin \/ InnerEnd
    \/ (\E p \in Procs, rejects \in BOOLEAN : Answer(p, rejects))
    \/ LoseDrive \/ Crash \/ (\E i \in 1..MaxSpans : LeftoverEnd(i))

----------------------------------------------------------------------------
\* The state has the shape the code gives it.
LiveTypeOK ==
    /\ drive \in {"new", "idle", "phase", "paused", "blocked", "away", "done"}
    /\ driver \in Procs \cup {NoProc} /\ task \in 0..MaxTasks
    /\ {current, inner, carried} \subseteq 0..Len(started) /\ Len(started) <= MaxSpans
    /\ \A p \in Procs : {live[p].root.id, live[p].phase.id} \subseteq 0..Len(started)
    /\ losers \subseteq 1..MaxTasks /\ leftover \subseteq DOMAIN started

\* live_tracing.py: once the run is suspended or over, no span of it is open in
\* a living process, but the root an answer opened and what the very drive that
\* lost the run has left behind.
EndedAtRest ==
    AtRest => \A i \in DOMAIN started :
       started[i].state = "open" => started[i].kind = "answer" \/ started[i].task \in losers

\* live_tracing.py _finish_span: the driver's context is left as it was found;
\* what the host traces next in this task is no child of an ended span.
ContextRestored == AtRest => current = 0

\* live_tracing.py prepare_checkpoint: a suspended run carries the root of an
\* earlier segment, so a resume in any process continues the same trace.
SuspendedCarriesTrace ==
    AtRest /\ drive # "done" => carried # 0 /\ started[carried].kind \in {"root", "answer"}

\* A root hangs below an earlier root or below nothing; a phase, a score and a
\* call hang, through what is current in the driver's task, below the root of
\* their own segment when this drive opened that root.
BelowItsRoot ==
    LET IsRootSpan(i) == started[i].kind \in {"root", "answer"}
        top[i \in DOMAIN started] ==
            IF IsRootSpan(i) \/ started[i].parent = 0 THEN i ELSE top[started[i].parent]
    IN \A i \in DOMAIN started :
         /\ IsRootSpan(i) /\ started[i].parent # 0 =>
              started[i].parent < i /\ IsRootSpan(started[i].parent)
         /\ started[i].segment => IsRootSpan(top[i]) /\ started[top[i]].task = started[i].task

\* The live trace of a run survives suspension, other processes, heartbeats and
\* lost races: roots below earlier roots, phases below their own, nothing left
\* open or current (live_tracing.py).
LiveTraceSound ==
    LiveTypeOK /\ EndedAtRest /\ ContextRestored /\ SuspendedCarriesTrace /\ BelowItsRoot
============================================================================
