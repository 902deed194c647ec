------------------------------ MODULE SpanTree ------------------------------
(***************************************************************************)
(* Retrospective tracing of one run (matterloop_observability):            *)
(*                                                                         *)
(*   TraceBuilder       turns the run's lifecycle events into spans and     *)
(*                      emits each span when it closes (trace_builder.py)   *)
(*   TracedModelClient  emits one generation span per model call, under     *)
(*                      the span that is open then (model_client.py)        *)
(*   OtelExporter       holds the items of a trace back until its root has  *)
(*                      arrived, and exports parents before children        *)
(*                      (exporter.py)                                       *)
(*                                                                         *)
(* Between them lies the BatchingPipeline, here by its contract: a bounded   *)
(* FIFO that may refuse an item and hands over batches of any size.  Module  *)
(* ExportPipeline has its threads and shows that they keep this contract.    *)
(*                                                                         *)
(* The driver may lose the run to another process (a checkpoint conflict)    *)
(* and get it back later: spans it had open stay in the builder.  An item is *)
(* [id, parent, kind]; attributes and timestamps carry no control.           *)
(***************************************************************************)
EXTENDS Naturals, Sequences, FiniteSets, SequencesExt

CONSTANTS
    QueueSize,   \* BatchingPipeline max_queue_size
    MaxPending,  \* OtelExporter max_pending_items
    MaxItems     \* bound: spans and scores made in one behaviour

ASSUME SpanTreeAssumption ==
    QueueSize \in Nat \ {0} /\ MaxPending \in Nat \ {0} /\ MaxItems \in Nat

VARIABLES
    stage,       \* where the run's event stream stands
    step,        \* the plan step under way, 1 or 2
    open,        \* _RunTrace: the open span of each role
    gen,         \* the generation span of the model call under way
    made,        \* spans and scores made so far
    outbox,      \* what handle() still has to enqueue
    queue,       \* accepted by the pipeline, not yet given to the exporter
    pending,     \* OtelExporter._pending of this trace
    exported,    \* what the tracer provider has received
    lost,        \* items a full or closed pipeline, a full trace or a cancelled call dropped
    overwritten, \* open spans replaced by a new one of the same role
    stranded     \* spans that were open when the driver lost the run

builderVars == <<stage, step, open, gen, made, overwritten, stranded>>
treeVars == <<builderVars, outbox, queue, pending, exported, lost>>

Roles == {"root", "executor", "evaluator", "reviewer"}
NoSpan == [id |-> 0, step |-> 0]
Span(id, parent) == [id |-> id, parent |-> parent, kind |-> "span"]
NoGen == Span(0, 0)
Score(id) == [id |-> id, parent |-> 0, kind |-> "score"]
IsOpen(role) == open[role] # NoSpan
Ids(items) == {x.id : x \in items}

TreeInit ==
    /\ stage = "new" /\ step = 1 /\ made = 0
    /\ open = [r \in Roles |-> NoSpan] /\ gen = NoGen
    /\ overwritten = {} /\ stranded = {} /\ outbox = <<>>
    /\ queue = <<>> /\ pending = <<>> /\ exported = {} /\ lost = {}

----------------------------------------------------------------------------
(* TraceBuilder.  handle() runs under the builder's lock, so the next event *)
(* waits until everything the last one emitted has been enqueued.           *)

Quiet == outbox = <<>> /\ gen.id = 0
Room(n) == made + n <= MaxItems

\* _ensure_root: the root's id when it is open, the next free id otherwise.
RootId == IF IsOpen("root") THEN open["root"].id ELSE made + 1
RootNew == IF IsOpen("root") THEN 0 ELSE 1
WithRoot == [open EXCEPT !["root"] = [id |-> RootId, step |-> 0]]

\* _OpenSpan.close and _emit: the record of an open span of this role.
Closed(role) ==
    IF IsOpen(role)
    THEN <<Span(open[role].id, IF role = "root" THEN 0 ELSE RootId)>>
    ELSE <<>>

\* An event other than the terminal ones: root first, then what it opens.
Opens(role, forStep, emits) ==
    LET id == made + RootNew + 1 IN
    /\ Room(RootNew + 1)
    /\ open' = [WithRoot EXCEPT ![role] = [id |-> id, step |-> forStep]]
    /\ made' = id /\ outbox' = emits
    /\ overwritten' = overwritten \cup
          (IF emits = <<>> /\ IsOpen(role) THEN {open[role].id} ELSE {})

Touches ==
    /\ Room(RootNew) /\ open' = WithRoot /\ made' = made + RootNew
    /\ UNCHANGED <<outbox, overwritten>>

ClosesRole(role) ==
    /\ Room(RootNew) /\ open' = [WithRoot EXCEPT ![role] = NoSpan]
    /\ made' = made + RootNew /\ outbox' = Closed(role)
    /\ UNCHANGED overwritten

Elsewhere == UNCHANGED <<queue, pending, exported, lost>>

\* LOOP_STARTED, and LOOP_RESUMED or LOOP_RECOVERED of a run at rest.
Begin ==
    /\ Quiet /\ stage \in {"new", "paused", "blocked"}
    /\ Touches /\ stage' = "planning"
    /\ UNCHANGED <<step, gen, stranded>> /\ Elsewhere

\* _open_executor closes a previous attempt that no event has closed.
ExecutionDispatched ==
    /\ Quiet /\ stage = "planning"
    /\ Opens("executor", step, Closed("executor"))
    /\ stage' = "executing" /\ UNCHANGED <<step, gen, stranded>> /\ Elsewhere

ExecutionCompleted ==
    /\ Quiet /\ stage = "executing" /\ ClosesRole("executor")
    /\ stage' = "executed" /\ UNCHANGED <<step, gen, stranded>> /\ Elsewhere

ComponentRetrying ==
    /\ Quiet /\ stage = "executing" /\ ClosesRole("executor")
    /\ stage' = "planning" /\ UNCHANGED <<step, gen, stranded>> /\ Elsewhere

\* _open_evaluator and _open_reviewer do not look at what is open.
VerificationStarted ==
    /\ Quiet /\ stage = "executed" /\ Opens("evaluator", step, <<>>)
    /\ stage' = "verifying" /\ UNCHANGED <<step, gen, stranded>> /\ Elsewhere

\* _complete_iteration: the evaluator, the iteration's own span, a score.
CompleteIteration(scored) ==
    LET id == made + RootNew + 1
        n == IF scored THEN 1 ELSE 0 IN
    /\ Room(RootNew + 1 + n)
    /\ open' = [WithRoot EXCEPT !["evaluator"] = NoSpan]
    /\ made' = id + n
    /\ outbox' = Closed("evaluator") \o <<Span(id, RootId)>>
                   \o (IF scored THEN <<Score(id + 1)>> ELSE <<>>)
    /\ UNCHANGED overwritten

IterationCompleted(scored) ==
    /\ Quiet /\ stage = "verifying" /\ CompleteIteration(scored)
    /\ stage' \in {"planning", "iterated"} /\ step' = 3 - step
    /\ UNCHANGED <<gen, stranded>> /\ Elsewhere

CompletionEvaluationStarted ==
    /\ Quiet /\ stage = "iterated" /\ Opens("reviewer", 0, <<>>)
    /\ stage' = "evaluating" /\ UNCHANGED <<step, gen, stranded>> /\ Elsewhere

CompletionEvaluated ==
    /\ Quiet /\ stage = "evaluating" /\ ClosesRole("reviewer")
    /\ stage' \in {"planning", "evaluated", "paused"}
    /\ UNCHANGED <<step, gen, stranded>> /\ Elsewhere

\* Mutant: the root is emitted before what hangs below it.
CloseRunRootFirst ==
    /\ Room(RootNew)
    /\ outbox' = <<Span(RootId, 0)>> \o Closed("evaluator") \o Closed("executor")
                   \o Closed("reviewer")
    /\ open' = [r \in Roles |-> NoSpan] /\ made' = made + RootNew
    /\ UNCHANGED overwritten

\* A terminal event: _close_run emits what is open, the root last, and the
\* run's entry is dropped.  A model call under way was cancelled first: its
\* span ends nowhere, for CancelledError is no Exception.
CloseRun ==
    /\ Room(RootNew)
    /\ outbox' = Closed("evaluator") \o Closed("executor") \o Closed("reviewer")
                   \o <<Span(RootId, 0)>>
    /\ open' = [r \in Roles |-> NoSpan] /\ made' = made + RootNew
    /\ UNCHANGED overwritten

Terminal(rest) ==
    /\ outbox = <<>> /\ stage \notin {"new", "away", "blocked", "done"}
    /\ CloseRun /\ stage' = rest
    /\ gen' = NoGen
    /\ lost' = lost \cup ({gen} \ {NoGen})
    /\ UNCHANGED <<step, stranded, queue, pending, exported>>

\* The driver leaves without an event (CheckpointConflictError is re-raised),
\* with a span open.  Bound: once in a behaviour.
LoseRun ==
    /\ outbox = <<>> /\ stage \in {"executing", "verifying", "evaluating"} /\ stranded = {}
    /\ stage' = "away" /\ gen' = NoGen
    /\ lost' = lost \cup ({gen} \ {NoGen})
    /\ stranded' = stranded \cup ({open[r].id : r \in Roles \ {"root"}} \ {0})
    /\ UNCHANGED <<step, open, made, outbox, overwritten, queue, pending, exported>>

\* ... and comes back wherever the other driver has brought the run.
RegainRun ==
    /\ Quiet /\ stage = "away" /\ Touches
    /\ stage' \in {"planning", "executed", "verifying", "iterated"}
    /\ step' = 3 - step
    /\ UNCHANGED <<gen, stranded>> /\ Elsewhere

----------------------------------------------------------------------------
(* TracedModelClient.generate                                               *)

\* resolve_parent_span_id
Candidates == <<"evaluator", "executor", "reviewer">>
ResolveParent(forStep) ==
    LET ok(i) == /\ IsOpen(Candidates[i])
                 /\ forStep # 0 => open[Candidates[i]].step = forStep
    IN IF \E i \in 1..3 : ok(i)
       THEN open[Candidates[CHOOSE i \in 1..3 : ok(i) /\ \A j \in 1..(i - 1) : ~ok(j)]].id
       ELSE open["root"].id

GenerateBegin ==
    /\ Quiet /\ stage \in {"planning", "executing", "verifying", "evaluating"} /\ Room(1)
    /\ gen' = Span(made + 1,
                   ResolveParent(IF stage \in {"executing", "verifying"} THEN step ELSE 0))
    /\ made' = made + 1
    /\ UNCHANGED <<stage, step, open, overwritten, stranded, outbox>> /\ Elsewhere

GenerateEnd ==
    /\ gen.id # 0 /\ outbox = <<>>
    /\ outbox' = <<gen>> /\ gen' = NoGen
    /\ UNCHANGED <<stage, step, open, made, overwritten, stranded>> /\ Elsewhere

----------------------------------------------------------------------------
(* The pipeline as the builder and the exporter see it                      *)

\* BatchingPipeline.enqueue: refused when the queue is full.
Enqueue ==
    /\ outbox # <<>> /\ outbox' = Tail(outbox)
    /\ IF Len(queue) < QueueSize
       THEN queue' = Append(queue, Head(outbox)) /\ UNCHANGED lost
       ELSE lost' = lost \cup {Head(outbox)} /\ UNCHANGED queue
    /\ UNCHANGED <<builderVars, pending, exported>>

----------------------------------------------------------------------------
(* OtelExporter                                                             *)

IsRoot(x) == x.kind = "span" /\ x.parent = 0

\* The loop of export() over the batch: a full trace takes only roots.
Admits(held, x) == Len(held) < MaxPending \/ IsRoot(x)
Held(batch) == FoldLeft(LAMBDA held, x : IF Admits(held, x) THEN Append(held, x) ELSE held,
                 pending, batch)

\* _export_trace: the first root, then passes over what is left that export
\* each span whose parent has a context by now, and the scores.
Exportable(held) ==
    LET roots == {i \in DOMAIN held : IsRoot(held[i])}
        first == {held[i] : i \in {j \in roots : \A k \in roots : j <= k}}
        pass[n \in 0..Len(held)] ==
            IF n = 0 THEN first
            ELSE pass[n - 1] \cup {x \in ToSet(held) :
                   x.kind = "span" /\ ~IsRoot(x) /\ x.parent \in Ids(pass[n - 1])}
    IN IF roots = {} THEN {}
       ELSE pass[Len(held)] \cup {x \in ToSet(held) : x.kind = "score"}

\* Nothing is tried for a trace to which the batch has added nothing.
ExportBatch(batch) ==
    LET held == Held(batch)
        out == IF Len(held) = Len(pending) THEN {} ELSE Exportable(held) IN
    /\ exported' = exported \cup out
    /\ pending' = SelectSeq(held, LAMBDA x : x \notin out)
    /\ lost' = lost \cup (ToSet(batch) \ ToSet(held))

Export(n) ==
    /\ n \in 1..Len(queue)
    /\ ExportBatch(SubSeq(queue, 1, n))
    /\ queue' = SubSeq(queue, n + 1, Len(queue))
    /\ UNCHANGED <<builderVars, outbox>>

TreeNext ==
    \/ Begin \/ ExecutionDispatched \/ ExecutionCompleted \/ ComponentRetrying
    \/ VerificationStarted \/ (\E scored \in BOOLEAN : IterationCompleted(scored))
    \/ CompletionEvaluationStarted \/ CompletionEvaluated
    \/ (\E rest \in {"blocked", "done"} : Terminal(rest))
    \/ LoseRun \/ RegainRun \/ GenerateBegin \/ GenerateEnd
    \/ Enqueue \/ (\E n \in 1..QueueSize : Export(n))

----------------------------------------------------------------------------
\* The state has the shape the code gives it.
TreeTypeOK ==
    /\ step \in 1..2 /\ made \in 0..MaxItems /\ DOMAIN open = Roles
    /\ stage \in {"new", "planning", "executing", "executed", "verifying", "iterated",
                  "evaluating", "evaluated", "paused", "blocked", "away", "done"}
    /\ Len(queue) <= QueueSize /\ overwritten \cup stranded \subseteq 1..made

\* exporter.py: a span reaches the backend only under a parent that is there
\* too, however its trace was cut into batches.
ParentExported ==
    \A x \in exported : x.parent # 0 => x.parent \in Ids(exported)

\* trace_builder.py and exporter.py together: nothing waits in the exporter
\* for a parent that went ahead of it.  The parent's context is known only in
\* the call that exports it, so such an item would never leave the exporter.
ParentNotAhead ==
    \A x \in ToSet(pending) : x.parent # 0 => x.parent \notin Ids(exported)

\* trace_builder.py: each span and score made is in one place: open, waiting to
\* be enqueued, queued, held back, exported, lost, or forgotten; none is emitted
\* twice and none is emitted while it is still open.
EmittedOnce ==
    LET places == <<ToSet(outbox), ToSet(queue), ToSet(pending), exported, lost>>
        open_ids == {open[r].id : r \in Roles} \cup {gen.id}
    IN /\ \A i, j \in 1..5 : i < j => places[i] \cap places[j] = {}
       /\ \A k \in 1..made : \/ k \in open_ids \cup overwritten
                             \/ \E i \in 1..5 : k \in Ids(places[i])
       /\ \A i \in 1..5 : Ids(places[i]) \cap (open_ids \ {0}) = {}

\* trace_builder.py: a span is forgotten without a record only when its driver
\* had lost the run while the span was open.
ForgottenOnlyStranded == overwritten \subseteq stranded

\* The trace of a run in the backend is a tree without holes: every span and
\* score is made once and arrives under a parent that is there, or is dropped
\* for one of the reasons the code gives (trace_builder.py, exporter.py).
TraceIsTree ==
    TreeTypeOK /\ ParentExported /\ ParentNotAhead /\ EmittedOnce /\ ForgottenOnlyStranded
============================================================================
