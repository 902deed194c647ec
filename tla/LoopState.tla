----------------------------- MODULE LoopState -----------------------------
(***************************************************************************)
(* The vocabulary of one MatterLoop run: the life-cycle states and the     *)
(* guarded transition table of matterloop_core/state/machine.py, and the   *)
(* value objects of matterloop_core/context that a checkpoint is made of.  *)
(*                                                                         *)
(* Text (goals, feedback, error messages) and wall-clock instants are not  *)
(* part of the model.  None is represented inside the type of the field:   *)
(* the empty plan <<>>, operation <<>>, interaction 0, result 0, attempt 0.*)
(***************************************************************************)
EXTENDS Naturals, Sequences

CONSTANTS
  Requests,   \* the LoopRequests callers submit under the run_id
  StepIds,    \* the step_id values planners use
  Keys        \* idempotency keys callers use for human responses

ASSUME RequestsAssumption == Requests # {}

LoopStatus == {"created", "planning", "executing", "verifying",
               "waiting_approval", "paused", "completed", "blocked",
               "cancelled", "timed_out", "failed"}

\* LoopStatus.is_terminal
Terminal == {"completed", "cancelled", "timed_out", "failed"}

\* The states resume() accepts; recover() leaves them alone.
Stable == {"paused", "blocked"}

StopReason == {"none", "completed", "policy_rejected", "approval_rejected",
               "approval_deferred", "human_input_required", "human_rejected",
               "completion_rejected", "cycle_limit", "attempt_limit",
               "step_limit", "cancelled", "timed_out", "component_error",
               "budget_exhausted", "recovery_required"}

\* Every live state may be cancelled, timed out or failed.
AbortTargets == {"cancelled", "timed_out", "failed"}

AllowedTransitions ==
  [ created          |-> {"planning", "blocked"} \cup AbortTargets,
    planning         |-> {"waiting_approval", "executing", "blocked"} \cup AbortTargets,
    waiting_approval |-> {"executing", "paused", "blocked"} \cup AbortTargets,
    executing        |-> {"planning", "blocked", "verifying"} \cup AbortTargets,
    verifying        |-> {"planning", "waiting_approval", "executing", "completed",
                          "paused", "blocked"} \cup AbortTargets,
    paused           |-> {"planning", "waiting_approval", "executing", "completed",
                          "blocked"} \cup AbortTargets,
    blocked          |-> {"planning", "waiting_approval", "executing"} \cup AbortTargets,
    completed        |-> {},
    cancelled        |-> {},
    timed_out        |-> {},
    failed           |-> {} ]

HumanAction == {"approve", "reject", "revise", "provide_input"}

\* HumanInteractionRequest.allowed_actions: the approval gate's request does
\* not offer provide_input, the completion evaluator's offer every action.
AllowedActions ==
  [ approval          |-> {"approve", "reject", "revise"},
    input             |-> HumanAction,
    completion_review |-> HumanAction,
    none              |-> {} ]

PlanStep == [step_id : StepIds, requires_approval : BOOLEAN]

\* _operation_id(): run_id is the same throughout, so an operation is its
\* cycle and step.
OperationId == Nat \X StepIds
NoOperation == <<>>

\* A human interaction is identified by the revision it was created at: a
\* fresh value, as uuid4 is in the code.
Interaction ==
  [interaction_id : Nat, kind : {"approval"}, step : StepIds]
    \cup [interaction_id : Nat, kind : {"input", "completion_review", "none"}, step : {"none"}]
NoInteraction == [interaction_id |-> 0, kind |-> "none", step |-> "none"]

HumanResponse == [interaction_id : Nat, action : HumanAction, key : Keys]

\* An ExecutionResult is identified by the number of the executor call that
\* produced it (LoopContext.total_attempts when it was dispatched).
IterationRecord == [cycle : Nat, step_index : Nat, step : PlanStep,
                    execution : Nat, passed : BOOLEAN, attempt : Nat]

LoopContext ==
  [ request             : Requests,
    status              : LoopStatus,
    records             : Seq(IterationRecord),
    current_plan        : Seq(PlanStep),
    current_step_index  : Nat,
    cycle_count         : Nat,
    total_attempts      : Nat,
    stop_reason         : StopReason,
    pending_interaction : Interaction,
    human_interactions  : Seq(HumanResponse),
    approved_step_ids   : SUBSET StepIds,
    replan_required     : BOOLEAN,
    completion_approved : BOOLEAN,
    active_operation_id : OperationId \cup {NoOperation},
    pending_execution   : Nat,
    pending_attempt     : Nat,
    event_sequence      : Nat,
    revision            : Nat,
    active              : BOOLEAN ]   \* active_started_at is not None

NewContext(request) ==
  [ request             |-> request,
    status              |-> "created",
    records             |-> <<>>,
    current_plan        |-> <<>>,
    current_step_index  |-> 0,
    cycle_count         |-> 0,
    total_attempts      |-> 0,
    stop_reason         |-> "none",
    pending_interaction |-> NoInteraction,
    human_interactions  |-> <<>>,
    approved_step_ids   |-> {},
    replan_required     |-> FALSE,
    completion_approved |-> FALSE,
    active_operation_id |-> NoOperation,
    pending_execution   |-> 0,
    pending_attempt     |-> 0,
    event_sequence      |-> 0,
    revision            |-> 0,
    active              |-> FALSE ]

\* LoopCheckpointCodec._validate_context: what a stored checkpoint must
\* satisfy for the codec to read it back.
ValidCheckpoint(c) ==
  /\ c.pending_execution # 0 => /\ c.active_operation_id # NoOperation
                                /\ c.pending_attempt # 0
  /\ c.current_plan # <<>> => c.current_step_index <= Len(c.current_plan)
=============================================================================
