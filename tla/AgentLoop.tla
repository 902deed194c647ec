----------------------------- MODULE AgentLoop -----------------------------
(***************************************************************************)
(* matterloop_core/loop/controller.py: the AgentLoop controller, for one   *)
(* run_id.                                                                 *)
(*                                                                         *)
(* Procs are the concurrent calls callers have under way (run, resume,     *)
(* recover, submit_human_response), spread over the AgentLoop objects      *)
(* Instances: the objects may live in different processes and share only   *)
(* the CheckpointStore.  A call works on a private LoopContext ctx[p] and  *)
(* publishes it by compare-and-swap on the revision; between two awaits    *)
(* of the code nothing else happens, so an action is the code between two  *)
(* awaits and pc[p] names the await the call is suspended at.              *)
(*                                                                         *)
(* Planner, executor, verifier, approval gate, completion evaluator, retry *)
(* policy, LoopPolicy and event publisher are supplied by the host: every  *)
(* answer they may give is allowed.  Env names what the environment may    *)
(* do in an instance of the model.                                         *)
(***************************************************************************)
EXTENDS LoopState, FiniteSets, SequencesExt

CONSTANTS
  Procs,             \* API calls that may be under way together
  Instances,         \* AgentLoop objects
  InstanceOf,        \* the AgentLoop object each call is made on
  Plans,             \* what planners return
  MaxCycles,         \* LoopLimits.max_cycles
  MaxAttempts,       \* LoopLimits.max_attempts
  MaxStepsPerPlan,   \* LoopLimits.max_steps_per_plan
  HasEvaluator,      \* completion_evaluator is configured
  Env,               \* what the environment may do, a subset of Hazards
  MaxCalls,          \* bound: API calls made
  MaxBeats,          \* bound: heartbeats written
  MaxFaults          \* bound: crashes, failed saves and failed publications

Hazards == {"crash",        \* a process dies and its calls with it
            "publish",      \* EventPublisher.publish raises
            "storage",      \* CheckpointStore.save raises, saved or not
            "error",        \* a component raises an ordinary exception
            "budget",       \* a component raises ResourceLimitExceededError
            "policy",       \* LoopPolicy.can_continue says no
            "timeout",      \* timeout_seconds runs out
            "cancel",       \* cancel(run_id)
            "task_cancel",  \* the asyncio task of a call is cancelled
            "human",        \* submit_human_response
            "resume",       \* resume
            "recover"}      \* recover

ASSUME LoopAssumption ==
  /\ InstanceOf \in [Procs -> Instances]
  /\ Plans \subseteq Seq(PlanStep)
  /\ MaxCycles \in Nat /\ MaxAttempts \in Nat /\ MaxStepsPerPlan \in Nat
  /\ MaxCalls \in Nat /\ MaxBeats \in Nat /\ MaxFaults \in Nat
  /\ HasEvaluator \in BOOLEAN
  /\ Env \subseteq Hazards

VARIABLES
  store,      \* the checkpoint of the run; revision 0 means there is none
  ctx,        \* the LoopContext each call works on
  pc,         \* the await each call is suspended at
  cancelled,  \* run_id is in _cancelled_runs, per AgentLoop object
  used,       \* how much of each bound has been used up
  calls,      \* history: the executor calls made, in order
  unsettled,  \* history: operations called and not known to have failed
  grants      \* history: operations the gate or a human has approved

vars == <<store, ctx, pc, cancelled, used, calls, unsettled, grants>>

\* Awaits inside _await_component: the component is running and supervised.
Awaiting == {"planner", "gate", "executor", "backoff", "verifier", "evaluator"}

CompletionAction == {"accept", "replan", "request_human", "stop"}

\* Awaits inside _drive.
Driving == Awaiting \cup CompletionAction \cup
           {"cycle", "begin", "step", "approved", "pausing", "execute",
            "dispatch", "redispatch", "retry", "verify", "rejected",
            "replanned", "failing", "broken", "cancelling", "exit"}

\* Awaits of run, resume, recover and submit_human_response outside _drive.
Entry == {"run_start", "resume_continue", "resume_replan", "resume_planning",
          "recover_stop", "recover_save", "submit_save"}

Label == {"idle"} \cup Entry \cup Driving

CallRecord == [op : OperationId \cup {NoOperation}, ord : Nat,
               granted : BOOLEAN, blind : BOOLEAN]

Blank == NewContext(CHOOSE r \in Requests : TRUE)

CurrentStep(c) == c.current_plan[c.current_step_index + 1]
StepsLeft(c) == c.current_step_index < Len(c.current_plan)

\* _operation_id
Operation(c, step) == <<c.cycle_count, step.step_id>>

Init ==
  /\ store = Blank
  /\ ctx = [p \in Procs |-> Blank]
  /\ pc = [p \in Procs |-> "idle"]
  /\ cancelled = [i \in Instances |-> FALSE]
  /\ used = [calls |-> 0, beats |-> 0, faults |-> 0]
  /\ calls = <<>>
  /\ unsettled = {}
  /\ grants = {}

-----------------------------------------------------------------------------
(* What the history variables record of a step of call p.                  *)

\* The executor is called: a supervisor that finds the run cancelled or out of
\* time before the component has started drops it.
Dispatches(p) ==
  /\ pc[p] \in {"dispatch", "redispatch"} /\ pc'[p] = "executor"
  /\ ~cancelled[InstanceOf[p]] /\ ctx'[p].status # "timed_out"

\* The executor raised and the driver saw it.  Nothing else moves a call from
\* the executor to the retry decision with its context untouched, or blocks it
\* there for lack of budget.
ExecutorRaised(p) ==
  /\ pc[p] = "executor"
  /\ \/ pc'[p] = "retry" /\ ctx'[p] = ctx[p]
     \/ store' # store /\ store'.stop_reason = "budget_exhausted"

HumanApproved(p) ==
  /\ pc[p] = "submit_save" /\ store' # store
  /\ Last(store'.human_interactions).action = "approve"

GateApproved(p) == pc[p] = "gate" /\ pc'[p] = "approved"

History(p) ==
  LET op == ctx'[p].active_operation_id IN
  /\ calls' = IF Dispatches(p)
                THEN Append(calls, [op      |-> op,
                                    ord     |-> ctx'[p].total_attempts,
                                    granted |-> CurrentStep(ctx'[p]).requires_approval => op \in grants,
                                    blind   |-> op \in unsettled])
                ELSE calls
  /\ unsettled' = IF Dispatches(p) THEN unsettled \cup {op}
                  ELSE IF ExecutorRaised(p) THEN unsettled \ {ctx[p].active_operation_id}
                  ELSE unsettled
  /\ grants' = IF GateApproved(p) THEN grants \cup {Operation(ctx[p], CurrentStep(ctx[p]))}
               ELSE IF HumanApproved(p) /\ store.pending_interaction.kind = "approval"
                 THEN grants \cup {<<store.cycle_count, store.pending_interaction.step>>}
               ELSE grants

-----------------------------------------------------------------------------
(* Saving the context.                                                     *)

\* Call p moves on to label with context c; a call that is over drops it.
Land(p, c, label) ==
  /\ pc' = [pc EXCEPT ![p] = label]
  /\ ctx' = [ctx EXCEPT ![p] = IF label \in {"idle", "exit"} THEN Blank ELSE c]

\* A step of the code that saves nothing.
Goto(p, c, label) ==
  /\ Land(p, c, label)
  /\ UNCHANGED <<store, cancelled, used>>
  /\ History(p)

\* A heartbeat is the only save after which a call waits where it waited.
Spend(p, next, faults) ==
  /\ used.faults + faults <= MaxFaults
  /\ used' = [used EXCEPT !.faults = @ + faults,
                          !.beats = IF next = pc[p] THEN @ + 1 ELSE @]

\* Mutant: the store does not compare revisions.
FreshAlways(c) == TRUE

\* CheckpointStore.save compares the revision the caller loaded with the one
\* it holds, under its lock.
Fresh(c) == store.revision = c.revision

\* _checkpoint_and_emit_many: allocate n event numbers, save by CAS, publish.
\* "raised" is where an exception of the save or of the publisher surfaces; a
\* cancelled task goes to _drive's handler unless an exception is already being
\* handled.  A conflict ends the call, whatever the retry policy says to it,
\* because every later save of the same context conflicts too.
CommitMany(p, c, n, next, raised) ==
  LET numbered == [c EXCEPT !.event_sequence = @ + n]
      saved    == [numbered EXCEPT !.revision = @ + 1]
  IN
  /\ UNCHANGED cancelled
  /\ \/ /\ Fresh(c)
        /\ store' = saved
        /\ Land(p, saved, next)
        /\ Spend(p, next, 0)
     \/ /\ "publish" \in Env /\ Fresh(c)
        /\ store' = saved
        /\ Land(p, saved, raised)
        /\ Spend(p, next, 1)
     \/ /\ "storage" \in Env
        /\ \/ UNCHANGED store
           \/ Fresh(c) /\ store' = saved
        /\ Land(p, numbered, raised)
        /\ Spend(p, next, 1)
     \/ /\ "task_cancel" \in Env /\ pc[p] \in Driving \ {"cancelling"}
        /\ \/ UNCHANGED store
           \/ Fresh(c) /\ store' = saved
        /\ Land(p, numbered, IF raised = "exit" THEN "exit" ELSE "cancelling")
        /\ Spend(p, next, 1)
     \/ /\ ~Fresh(c)
        /\ Land(p, c, IF pc[p] \in Driving THEN "exit" ELSE "idle")
        /\ UNCHANGED <<store, used>>
  /\ History(p)

\* _checkpoint_and_emit
Commit(p, c, next, raised) == CommitMany(p, c, 1, next, raised)

\* Mutant: the transition table is not consulted.
TransitionUnchecked(p, c, target, next, raised) ==
  Commit(p, [c EXCEPT !.status = target], next, raised)

\* _transition; an illegal one raises InvalidStateTransitionError.
Transition(p, c, target, next, raised) ==
  IF target \in AllowedTransitions[c.status]
    THEN Commit(p, [c EXCEPT !.status = target], next, raised)
    ELSE Goto(p, c, IF raised = "failing" THEN "broken" ELSE raised)

\* if context.status is not target: await _transition(...)
Enter(p, c, target, next, raised) ==
  IF c.status = target THEN Goto(p, c, next) ELSE Transition(p, c, target, next, raised)

\* Mutant: the status is written where the reason belongs.
StopMixingReason(p, c, status, reason, next, raised) ==
  Transition(p, [c EXCEPT !.active = FALSE, !.stop_reason = status], status, next, raised)

\* _stop
Stop(p, c, status, reason, next, raised) ==
  LET stopped == [c EXCEPT !.active = FALSE, !.stop_reason = reason] IN
  IF c.status = status THEN Commit(p, stopped, next, raised)
                       ELSE Transition(p, stopped, status, next, raised)

Block(p, c, reason) == Stop(p, c, "blocked", reason, "exit", "failing")

\* plan and cursor are dropped together
DropPlan(c) == [c EXCEPT !.current_plan = <<>>, !.current_step_index = 0]

-----------------------------------------------------------------------------
(* The entry points.  A call that is refused, or that finds nothing to do,  *)
(* changes nothing and is not a step.                                      *)

\* A caller makes a call: it loads the checkpoint, and continues with c.
Call(p, c, label) ==
  /\ pc[p] = "idle"
  /\ used.calls < MaxCalls
  /\ used' = [used EXCEPT !.calls = @ + 1]
  /\ Land(p, c, label)
  /\ UNCHANGED <<store, cancelled>>
  /\ History(p)

Exists == store.revision > 0

\* run
Run(p, request) ==
  /\ ~Exists
  /\ Call(p, [NewContext(request) EXCEPT !.active = TRUE], "run_start")

RunStart(p) ==
  /\ pc[p] = "run_start"
  /\ Commit(p, ctx[p], "cycle", "idle")

\* resume accepts the checkpoint in this mode
Resumable(c, mode) ==
  /\ c.status \in Stable
  /\ c.pending_interaction = NoInteraction
  /\ c.stop_reason = "human_rejected" => mode = "replan"
  /\ c.stop_reason # "recovery_required"

\* context.replan_required overrides the caller's mode
EffectiveMode(c, mode) == IF c.replan_required THEN "replan" ELSE mode

\* Mutant: a finished plan can be continued.
ContinuableWhenFinished(c) == c.current_plan # <<>>

Continuable(c) == c.current_plan # <<>> /\ (StepsLeft(c) \/ c.completion_approved)

\* Mutant: replanning keeps the approval cache.
ResumedKeepingApprovals(c, mode) ==
  LET started == [c EXCEPT !.stop_reason = "none", !.active = TRUE] IN
  IF mode = "replan"
    THEN [DropPlan(started) EXCEPT !.completion_approved = FALSE, !.replan_required = FALSE]
    ELSE started

ResumedContext(c, mode) ==
  LET started == [c EXCEPT !.stop_reason = "none", !.active = TRUE] IN
  IF mode = "replan"
    THEN [DropPlan(started) EXCEPT !.approved_step_ids = {},
                                   !.completion_approved = FALSE,
                                   !.replan_required = FALSE]
    ELSE started

Resume(p, asked) ==
  LET mode == EffectiveMode(store, asked) IN
  /\ "resume" \in Env
  /\ Exists /\ Resumable(store, asked)
  /\ mode = "continue" => Continuable(store)
  /\ Call(p, ResumedContext(store, mode),
          IF mode = "replan" THEN "resume_replan" ELSE "resume_continue")

ResumeContinue(p) ==
  /\ pc[p] = "resume_continue"
  /\ Commit(p, ctx[p], "step", "idle")

ResumeReplan(p) ==
  /\ pc[p] = "resume_replan"
  /\ Transition(p, ctx[p], "planning", "resume_planning", "idle")

ResumePlanning(p) ==
  /\ pc[p] = "resume_planning"
  /\ Commit(p, ctx[p], "cycle", "idle")

\* Mutant: a checkpoint left in the executor is taken for a fresh step.
InDoubtAtGateOnly(c) == c.status = "waiting_approval"

\* The checkpoint stops at a call whose outcome recover() cannot know.
InDoubt(c) == \/ c.status = "executing" /\ c.pending_execution = 0
              \/ c.status = "waiting_approval"

\* recover
Recover(p) ==
  /\ "recover" \in Env
  /\ Exists /\ store.status \notin Terminal \cup Stable
  /\ Call(p, [store EXCEPT !.active = TRUE],
          IF InDoubt(store) THEN "recover_stop" ELSE "recover_save")

RecoverStop(p) ==
  /\ pc[p] = "recover_stop"
  /\ Stop(p, ctx[p], "blocked", "recovery_required", "idle", "idle")

\* continue_current_plan
ContinuesPlan(c) == c.current_plan # <<>> /\ c.status \in {"executing", "verifying"}

RecoverSave(p) ==
  /\ pc[p] = "recover_save"
  /\ Commit(p, ctx[p], IF ContinuesPlan(ctx[p]) THEN "step" ELSE "cycle", "idle")

\* The response is for the pending interaction, offers an allowed action and
\* its idempotency key is new.
Acceptable(c, r) ==
  /\ \A i \in DOMAIN c.human_interactions : c.human_interactions[i].key # r.key
  /\ c.pending_interaction # NoInteraction
  /\ c.pending_interaction.interaction_id = r.interaction_id
  /\ r.action \in AllowedActions[c.pending_interaction.kind]

AnsweredContext(c, r) ==
  LET pending  == c.pending_interaction
      approve  == r.action = "approve"
      answered == [c EXCEPT !.human_interactions = Append(@, r),
                            !.pending_interaction = NoInteraction]
  IN
  CASE approve ->
         [answered EXCEPT
            !.approved_step_ids = IF pending.kind = "approval" THEN @ \cup {pending.step} ELSE @,
            !.completion_approved = @ \/ pending.kind = "completion_review"
                                      \/ (c.current_plan # <<>> /\ ~StepsLeft(c))]
    [] r.action = "reject" ->
         [answered EXCEPT !.active = FALSE, !.stop_reason = "human_rejected",
                          !.status = "blocked"]
    [] OTHER -> [answered EXCEPT !.replan_required = TRUE]

\* submit_human_response; ensure_transition refuses to block an ended run.
SubmitHumanResponse(p, r) ==
  /\ "human" \in Env
  /\ Exists /\ Acceptable(store, r)
  /\ r.action = "reject" => \/ store.status = "blocked"
                            \/ "blocked" \in AllowedTransitions[store.status]
  /\ Call(p, AnsweredContext(store, r), "submit_save")

SubmitSave(p) ==
  /\ pc[p] = "submit_save"
  /\ CommitMany(p, ctx[p],
                IF Last(ctx[p].human_interactions).action = "reject" THEN 3 ELSE 2,
                "idle", "idle")

-----------------------------------------------------------------------------
(* _drive, _run_cycles                                                      *)

IsCancelled(p) == cancelled[InstanceOf[p]]

\* _stop_at_safe_boundary stops the run
SafeBoundary == {"cycle", "step", "dispatch", "redispatch"}

AtBoundary(p) == pc[p] \in SafeBoundary /\ (pc[p] = "step" => StepsLeft(ctx[p]))

\* current_step_index has to be in the plan for the loop body to be entered
StopCancelled(p) ==
  /\ AtBoundary(p) /\ IsCancelled(p)
  /\ Stop(p, ctx[p], "cancelled", "cancelled", "exit", "failing")

StopRejected(p) ==
  /\ "policy" \in Env
  /\ AtBoundary(p) /\ ~IsCancelled(p)
  /\ Block(p, ctx[p], "policy_rejected")

\* _stop_at_safe_boundary lets the run go on
PassesBoundary(p) == AtBoundary(p) /\ ~IsCancelled(p)

CycleLimit(p) ==
  /\ pc[p] = "cycle" /\ PassesBoundary(p)
  /\ ctx[p].cycle_count >= MaxCycles
  /\ Block(p, ctx[p], "cycle_limit")

StartPlanning(p) ==
  /\ pc[p] = "cycle" /\ PassesBoundary(p)
  /\ ctx[p].cycle_count < MaxCycles
  /\ Enter(p, ctx[p], "planning", "begin", "failing")

\* The new cycle is counted in the context only; the next save persists it.
BeginCycle(p) ==
  /\ pc[p] = "begin"
  /\ Goto(p, [ctx[p] EXCEPT !.cycle_count = @ + 1], "planner")

\* _await_component returns: neither cancellation nor the timeout intervened.
\* A run stopped by its timeout stays out of time.
Returns(p, label) ==
  /\ pc[p] = label
  /\ ~IsCancelled(p)
  /\ ctx[p].status # "timed_out"

UniqueSteps(plan) ==
  \A i, j \in DOMAIN plan : plan[i].step_id = plan[j].step_id => i = j

PlanCreated(p, plan) ==
  /\ Returns(p, "planner")
  /\ CASE plan = <<>> -> Goto(p, ctx[p], "failing")
       [] Len(plan) > MaxStepsPerPlan -> Block(p, DropPlan(ctx[p]), "step_limit")
       [] plan # <<>> /\ Len(plan) <= MaxStepsPerPlan /\ ~UniqueSteps(plan) ->
            Goto(p, ctx[p], "failing")
       [] OTHER -> Commit(p, [ctx[p] EXCEPT !.current_plan = plan,
                                            !.current_step_index = 0], "step", "failing")

-----------------------------------------------------------------------------
(* _execute_plan, _approve                                                  *)

NextStep(p) == pc[p] = "step" /\ PassesBoundary(p)

\* A persisted result goes straight to verification.
VerifyPending(p) ==
  /\ NextStep(p) /\ ctx[p].pending_execution # 0
  /\ IF ctx[p].active_operation_id = Operation(ctx[p], CurrentStep(ctx[p]))
       THEN Enter(p, ctx[p], "verifying", "verifier", "failing")
       ELSE Goto(p, ctx[p], "broken")

StartStep(p) ==
  /\ NextStep(p) /\ ctx[p].pending_execution = 0
  /\ ~CurrentStep(ctx[p]).requires_approval
  /\ Enter(p, ctx[p], "executing", "execute", "failing")

\* A human has already approved the step.
UseApproval(p) ==
  /\ NextStep(p) /\ ctx[p].pending_execution = 0
  /\ CurrentStep(ctx[p]).requires_approval
  /\ CurrentStep(ctx[p]).step_id \in ctx[p].approved_step_ids
  /\ Commit(p, ctx[p], "approved", "failing")

AskGate(p) ==
  /\ NextStep(p) /\ ctx[p].pending_execution = 0
  /\ CurrentStep(ctx[p]).requires_approval
  /\ CurrentStep(ctx[p]).step_id \notin ctx[p].approved_step_ids
  /\ Transition(p, ctx[p], "waiting_approval", "gate", "failing")

GateApproves(p) ==
  /\ Returns(p, "gate")
  /\ Commit(p, ctx[p], "approved", "failing")

GateRejects(p) ==
  /\ Returns(p, "gate")
  /\ Block(p, ctx[p], "approval_rejected")

\* _request_human_interaction; two saves, the second at "pausing"
RequestHuman(p, kind, step, reason) ==
  LET asked == [ctx[p] EXCEPT
                  !.pending_interaction = [interaction_id |-> ctx[p].revision,
                                           kind |-> kind, step |-> step],
                  !.stop_reason = reason,
                  !.active = FALSE]
  IN IF ctx[p].pending_interaction = NoInteraction
       THEN IF ctx[p].status = "paused" THEN Commit(p, asked, "pausing", "failing")
            ELSE Transition(p, asked, "paused", "pausing", "failing")
       ELSE Goto(p, ctx[p], "broken")

GateDefers(p) ==
  /\ Returns(p, "gate")
  /\ RequestHuman(p, "approval", CurrentStep(ctx[p]).step_id, "approval_deferred")

Paused(p) ==
  /\ pc[p] = "pausing"
  /\ Commit(p, ctx[p], "exit", "failing")

Approved(p) ==
  /\ pc[p] = "approved"
  /\ Transition(p, ctx[p], "executing", "execute", "failing")

-----------------------------------------------------------------------------
(* _execute                                                                 *)

BeginExecute(p) ==
  LET op == Operation(ctx[p], CurrentStep(ctx[p])) IN
  /\ pc[p] = "execute"
  /\ IF ctx[p].active_operation_id \in {NoOperation, op}
       THEN Goto(p, [ctx[p] EXCEPT !.active_operation_id = op], "dispatch")
       ELSE Goto(p, ctx[p], "broken")

AttemptLimit(p) ==
  /\ pc[p] \in {"dispatch", "redispatch"} /\ PassesBoundary(p)
  /\ ctx[p].total_attempts >= MaxAttempts
  /\ Block(p, ctx[p], "attempt_limit")

\* Mutant: the attempt is not counted before the call.
DispatchUncounted(p) ==
  /\ pc[p] \in {"dispatch", "redispatch"} /\ PassesBoundary(p)
  /\ ctx[p].total_attempts < MaxAttempts
  /\ Commit(p, [ctx[p] EXCEPT !.pending_attempt = 1], "executor", "failing")

\* The local variable attempt is 1 at first and pending_attempt + 1 in a retry.
Dispatch(p) ==
  /\ pc[p] \in {"dispatch", "redispatch"} /\ PassesBoundary(p)
  /\ ctx[p].total_attempts < MaxAttempts
  /\ Commit(p, [ctx[p] EXCEPT
                  !.total_attempts = @ + 1,
                  !.pending_attempt = IF pc[p] = "dispatch" THEN 1 ELSE @ + 1],
            "executor", "failing")

ExecutorReturns(p) ==
  /\ Returns(p, "executor")
  /\ Commit(p, [ctx[p] EXCEPT !.pending_execution = ctx[p].total_attempts],
            "verify", "retry")

ExecutorRaises(p) ==
  /\ "error" \in Env
  /\ Returns(p, "executor")
  /\ Goto(p, ctx[p], "retry")

ExecutorOverBudget(p) ==
  /\ "budget" \in Env
  /\ Returns(p, "executor")
  /\ Block(p, [ctx[p] EXCEPT !.active_operation_id = NoOperation,
                             !.pending_attempt = 0], "budget_exhausted")

\* except Exception: retry_policy.decide(...)
RetryFails(p) ==
  /\ pc[p] = "retry"
  /\ Goto(p, ctx[p], "failing")

RetryReplans(p) ==
  /\ pc[p] = "retry"
  /\ Transition(p, [DropPlan(ctx[p]) EXCEPT !.active_operation_id = NoOperation,
                                            !.pending_attempt = 0],
                "planning", "cycle", "failing")

RetryRetries(p) ==
  /\ pc[p] = "retry"
  /\ \E next \in {"backoff", "redispatch"} : Commit(p, ctx[p], next, "failing")

BackoffEnds(p) ==
  /\ Returns(p, "backoff")
  /\ Goto(p, ctx[p], "redispatch")

-----------------------------------------------------------------------------
(* Verification, _finish_plan_outcome                                       *)

StartVerification(p) ==
  /\ pc[p] = "verify"
  /\ Enter(p, ctx[p], "verifying", "verifier", "failing")

VerifiedContext(c, passed) ==
  LET step == CurrentStep(c) IN
  [c EXCEPT !.records = Append(@, [cycle      |-> c.cycle_count,
                                   step_index |-> c.current_step_index,
                                   step       |-> step,
                                   execution  |-> c.pending_execution,
                                   passed     |-> passed,
                                   attempt    |-> c.pending_attempt]),
            !.current_step_index = @ + 1,
            !.approved_step_ids = @ \ {step.step_id},
            !.active_operation_id = NoOperation,
            !.pending_execution = 0,
            !.pending_attempt = 0]

\* Mutant: a failed verification goes on with the plan.
VerifierAlwaysContinues(p, passed) ==
  /\ Returns(p, "verifier")
  /\ Commit(p, VerifiedContext(ctx[p], passed), "step", "failing")

VerifierReturns(p, passed) ==
  /\ Returns(p, "verifier")
  /\ Commit(p, VerifiedContext(ctx[p], passed),
            IF passed THEN "step" ELSE "rejected", "failing")

\* A failed verification drops the plan in a save of its own.
ReplanRejected(p) ==
  /\ pc[p] = "rejected"
  /\ Transition(p, DropPlan(ctx[p]), "planning", "cycle", "failing")

PlanDone(p) == pc[p] = "step" /\ ~StepsLeft(ctx[p])

Complete(p, c) == Stop(p, c, "completed", "completed", "exit", "failing")

FinishApproved(p) ==
  /\ PlanDone(p) /\ ctx[p].completion_approved
  /\ Complete(p, [ctx[p] EXCEPT !.completion_approved = FALSE])

FinishUnevaluated(p) ==
  /\ PlanDone(p) /\ ~ctx[p].completion_approved
  /\ ~HasEvaluator
  /\ Complete(p, ctx[p])

StartEvaluation(p) ==
  /\ PlanDone(p) /\ ~ctx[p].completion_approved
  /\ HasEvaluator
  /\ Commit(p, ctx[p], "evaluator", "failing")

\* COMPLETION_EVALUATION_COMPLETED is saved before the decision is acted on.
EvaluatorDecides(p, decision) ==
  /\ Returns(p, "evaluator")
  /\ Commit(p, ctx[p], decision, "failing")

EvaluationAccepted(p) ==
  /\ pc[p] = "accept"
  /\ Complete(p, ctx[p])

EvaluationStops(p) ==
  /\ pc[p] = "stop"
  /\ Block(p, ctx[p], "completion_rejected")

\* The evaluator asks for input or a review of the whole run; one that asks for
\* an approval, which is about a step, is left out of the environment.
EvaluationAsksHuman(p) ==
  /\ pc[p] = "request_human"
  /\ \E kind \in {"input", "completion_review"} :
        RequestHuman(p, kind, "none", "human_input_required")

EvaluationReplans(p) ==
  /\ pc[p] = "replan"
  /\ Commit(p, DropPlan(ctx[p]), "replanned", "failing")

StartReplanning(p) ==
  /\ pc[p] = "replanned"
  /\ Transition(p, ctx[p], "planning", "cycle", "failing")

-----------------------------------------------------------------------------
(* _await_component: supervision of a running component                     *)

\* Where an exception of a save surfaces: _execute wraps its supervision.
SupervisionRaises(p) == IF pc[p] = "executor" THEN "retry" ELSE "failing"

Heartbeat(p) ==
  /\ pc[p] \in Awaiting /\ Returns(p, pc[p])
  /\ used.beats < MaxBeats
  /\ Commit(p, ctx[p], pc[p], SupervisionRaises(p))

SupervisedCancel(p) ==
  /\ pc[p] \in Awaiting /\ IsCancelled(p)
  /\ Stop(p, ctx[p], "cancelled", "cancelled", "exit", SupervisionRaises(p))

SupervisedTimeout(p) ==
  /\ "timeout" \in Env
  /\ pc[p] \in Awaiting /\ ~IsCancelled(p)
  /\ Stop(p, ctx[p], "timed_out", "timed_out", "exit", SupervisionRaises(p))

\* A component other than the executor or the back-off sleep raises.
ComponentRaises(p) ==
  /\ "error" \in Env
  /\ pc[p] \in Awaiting \ {"executor", "backoff"} /\ Returns(p, pc[p])
  /\ Goto(p, ctx[p], "failing")

\* except ResourceLimitExceededError in _drive
ComponentOverBudget(p) ==
  /\ "budget" \in Env
  /\ pc[p] \in Awaiting \ {"executor", "backoff"} /\ Returns(p, pc[p])
  /\ Stop(p, ctx[p], "blocked", "budget_exhausted", "exit", "exit")

-----------------------------------------------------------------------------
(* The exception handlers of _drive and the environment                     *)

\* Mutant: the failure is raised to the caller but not saved.
FailUnsaved(p) ==
  /\ pc[p] \in {"failing", "broken"}
  /\ Goto(p, ctx[p], "exit")

\* except Exception: _fail
Fail(p) ==
  /\ pc[p] \in {"failing", "broken"}
  /\ IF ctx[p].status \in Terminal
       THEN Goto(p, ctx[p], "exit")
       ELSE Transition(p, [ctx[p] EXCEPT !.active = FALSE,
                                         !.stop_reason = "component_error"],
                       "failed", "exit", "exit")

\* asyncio.CancelledError while a component runs: it is drained first
TaskCancelled(p) ==
  /\ "task_cancel" \in Env
  /\ pc[p] \in Awaiting
  /\ Goto(p, ctx[p], "cancelling")

\* except asyncio.CancelledError: the write is shielded
StopCancelledTask(p) ==
  /\ pc[p] = "cancelling"
  /\ IF ctx[p].status \in Terminal
       THEN Goto(p, ctx[p], "exit")
       ELSE Stop(p, ctx[p], "cancelled", "cancelled", "exit", "exit")

\* finally: the cancellation mark is discarded
Exit(p) ==
  /\ pc[p] = "exit"
  /\ Land(p, ctx[p], "idle")
  /\ cancelled' = [cancelled EXCEPT ![InstanceOf[p]] = FALSE]
  /\ UNCHANGED <<store, used>>
  /\ History(p)

\* cancel
Cancel(i) ==
  /\ "cancel" \in Env
  /\ ~cancelled[i]
  /\ cancelled' = [cancelled EXCEPT ![i] = TRUE]
  /\ UNCHANGED <<store, ctx, pc, used, calls, unsettled, grants>>

\* The process of an AgentLoop object dies; the store survives.
Crash(i) ==
  LET mine(p) == InstanceOf[p] = i IN
  /\ "crash" \in Env /\ used.faults < MaxFaults
  /\ used' = [used EXCEPT !.faults = @ + 1]
  /\ \E p \in Procs : mine(p) /\ pc[p] # "idle"
  /\ pc' = [p \in Procs |-> IF mine(p) THEN "idle" ELSE pc[p]]
  /\ ctx' = [p \in Procs |-> IF mine(p) THEN Blank ELSE ctx[p]]
  /\ cancelled' = [cancelled EXCEPT ![i] = FALSE]
  /\ UNCHANGED <<store, calls, unsettled, grants>>

\* Every call has returned and no other is made.
Quiet ==
  /\ \A p \in Procs : pc[p] = "idle"
  /\ UNCHANGED vars

-----------------------------------------------------------------------------

\* A response can only take effect for the interaction that is pending.
Responses == [interaction_id : {store.pending_interaction.interaction_id},
              action : HumanAction, key : Keys]

\* A caller makes a call on p.
CallerStep(p) ==
  \/ \E request \in Requests : Run(p, request)
  \/ \E mode \in {"continue", "replan"} : Resume(p, mode)
  \/ Recover(p)
  \/ \E r \in Responses : SubmitHumanResponse(p, r)

\* The call on p makes progress.
LoopStep(p) ==
  \/ RunStart(p) \/ ResumeContinue(p) \/ ResumeReplan(p) \/ ResumePlanning(p)
  \/ RecoverStop(p) \/ RecoverSave(p) \/ SubmitSave(p)
  \/ StopCancelled(p) \/ StopRejected(p) \/ CycleLimit(p) \/ StartPlanning(p)
  \/ BeginCycle(p) \/ \E plan \in Plans : PlanCreated(p, plan)
  \/ VerifyPending(p) \/ StartStep(p) \/ UseApproval(p) \/ AskGate(p)
  \/ GateApproves(p) \/ GateRejects(p) \/ GateDefers(p) \/ Paused(p) \/ Approved(p)
  \/ BeginExecute(p) \/ AttemptLimit(p) \/ Dispatch(p)
  \/ ExecutorReturns(p) \/ ExecutorRaises(p) \/ ExecutorOverBudget(p)
  \/ RetryFails(p) \/ RetryReplans(p) \/ RetryRetries(p) \/ BackoffEnds(p)
  \/ StartVerification(p) \/ \E passed \in BOOLEAN : VerifierReturns(p, passed)
  \/ ReplanRejected(p) \/ FinishApproved(p) \/ FinishUnevaluated(p)
  \/ StartEvaluation(p) \/ \E decision \in CompletionAction : EvaluatorDecides(p, decision)
  \/ EvaluationAccepted(p) \/ EvaluationStops(p) \/ EvaluationAsksHuman(p)
  \/ EvaluationReplans(p) \/ StartReplanning(p)
  \/ Heartbeat(p) \/ SupervisedCancel(p) \/ SupervisedTimeout(p)
  \/ ComponentRaises(p) \/ ComponentOverBudget(p)
  \/ Fail(p) \/ TaskCancelled(p) \/ StopCancelledTask(p) \/ Exit(p)

Next ==
  \/ \E p \in Procs : CallerStep(p) \/ LoopStep(p)
  \/ \E i \in Instances : Cancel(i) \/ Crash(i)
  \/ Quiet

Spec == Init /\ [][Next]_vars

\* A call that can take a step takes one: the event loop runs every ready task
\* and a component that was called answers.
FairSpec == Spec /\ \A p \in Procs : WF_vars(LoopStep(p))

-----------------------------------------------------------------------------
(* Properties                                                               *)

\* Every variable keeps its type: the contexts are well-formed LoopContexts
\* and a call is suspended at an await of the code.
TypeOK ==
  /\ store \in LoopContext
  /\ ctx \in [Procs -> LoopContext]
  /\ pc \in [Procs -> Label]
  /\ cancelled \in [Instances -> BOOLEAN]
  /\ used \in [calls : Nat, beats : Nat, faults : Nat]
  /\ calls \in Seq(CallRecord)
  /\ unsettled \subseteq OperationId \cup {NoOperation}
  /\ grants \subseteq OperationId

\* The executor is called at most max_attempts times in the life of the run,
\* over all retries, resumes, crashes and concurrent drivers: every call is
\* paid for in the checkpoint before it is made (_execute).
AttemptBudget ==
  /\ Len(calls) <= store.total_attempts
  /\ store.total_attempts <= MaxAttempts

\* recover() and resume() never call the executor again for an operation whose
\* earlier call may have taken effect: only a call that is known to have
\* raised is repeated (_execute, recover).
NoBlindReplay == \A i \in DOMAIN calls : ~calls[i].blind

\* Every record of the run is the verification of an executor call made for
\* the same step in the same cycle, and no call is recorded twice
\* (_execute_plan with the pending_execution of a crashed driver).
RecordsTraceCalls ==
  \A i \in DOMAIN store.records :
     LET r == store.records[i] IN
     /\ \E k \in DOMAIN calls : /\ calls[k].ord = r.execution
                                /\ calls[k].op = <<r.cycle, r.step.step_id>>
     /\ \A j \in 1 .. i - 1 : store.records[j].execution # r.execution

\* A stored checkpoint satisfies what LoopCheckpointCodec demands when it reads
\* it back, so that a run can always be loaded again.
CheckpointReadable == ValidCheckpoint(store)

\* A completed run has a passed verification, made in its last cycle, for
\* every step of its plan (_finish_plan_outcome).
CompletedMeansVerified ==
  store.status = "completed" =>
    /\ store.current_plan # <<>>
    /\ \A i \in DOMAIN store.current_plan : \E k \in DOMAIN store.records :
         /\ store.records[k].cycle = store.cycle_count
         /\ store.records[k].step = store.current_plan[i]
         /\ store.records[k].passed

\* A step that requires approval is executed only if the gate or a human has
\* approved that step in that cycle (_approve, approved_step_ids).
ApprovalScoped == \A i \in DOMAIN calls : calls[i].granted

\* Concurrent and repeated responses: an interaction is answered once and an
\* idempotency key is used once (submit_human_response).
OneAnswer ==
  \A i, j \in DOMAIN store.human_interactions :
     i # j => /\ store.human_interactions[i].interaction_id
                   # store.human_interactions[j].interaction_id
              /\ store.human_interactions[i].key # store.human_interactions[j].key

\* The controller never runs into its own consistency checks: no illegal
\* transition, no foreign pending execution or operation, inside _drive.
NoInternalError == \A p \in Procs : pc[p] # "broken"

\* When nobody is working on a stopped run its active clock is stopped, so
\* waiting does not count against timeout_seconds (_pause_active_timer).
ClockStopsAtRest ==
  (\A p \in Procs : pc[p] = "idle") /\ store.status \in Stable \cup Terminal
    => ~store.active

\* What is committed stays committed whoever writes: a save never loses
\* records, answers or counters and never changes the request.
HistoryKept ==
  [][Exists /\ store' # store =>
       /\ store'.request = store.request
       /\ store'.revision = store.revision + 1
       /\ store'.event_sequence > store.event_sequence
       /\ store'.cycle_count >= store.cycle_count
       /\ store'.total_attempts >= store.total_attempts
       /\ IsPrefix(store.records, store'.records)
       /\ IsPrefix(store.human_interactions, store'.human_interactions)]_vars

\* A run that has ended stays ended: its status never changes again and no
\* late driver calls the executor (ensure_transition, CAS).
TerminalFinal ==
  [][store.status \in Terminal => store'.status = store.status /\ calls' = calls]_vars

\* A run that has started is carried to a pause, a block or an end by some
\* driver, whichever of the competing calls wins the CAS.
Settles == Exists ~> store.status \in Terminal \cup Stable

\* Every call returns to its caller.
CallsReturn == \A p \in Procs : pc[p] # "idle" ~> pc[p] = "idle"

\* Whatever survives a crash can be trusted: the checkpoint can be read, its
\* records are calls that were made, what comes after it repeats no call that
\* may have taken effect, and the end of a run is the end for every process
\* that still works on it (recover, _execute, LoopCheckpointCodec).
CrashSafe ==
  [](NoBlindReplay /\ RecordsTraceCalls /\ CheckpointReadable) /\ TerminalFinal

\* What the executor is called for has the approval it needs, and the answers
\* that give it are used once each (_approve, submit_human_response).
HumanGate == ApprovalScoped /\ OneAnswer

\* No order of calls, answers and lost races runs into a consistency check of
\* _drive, and a run that rests does not use up its time (_pause_active_timer).
RestsCleanly == NoInternalError /\ ClockStopsAtRest

\* Failing planners, executors, verifiers, stores and publishers cost no call
\* beyond max_attempts, forge no record, lose nothing that is committed and
\* bring no ended run back (_drive's handlers, RetryPolicy).
FaultsSurvived == [](AttemptBudget /\ RecordsTraceCalls) /\ HistoryKept /\ TerminalFinal

\* Runs come to rest and callers get their answer (run, resume, recover).
Progress == Settles /\ CallsReturn
=============================================================================
