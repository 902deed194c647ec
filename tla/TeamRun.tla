------------------------------ MODULE TeamRun ------------------------------
(***************************************************************************)
(* One team run (matterloop_agents/collaboration/orchestrator.py) driven   *)
(* by several TeamOrchestrator objects that share a TeamRepository.        *)
(*                                                                         *)
(* A controller reads the snapshot, claims the run's lease, and from then  *)
(* on saves after every decision with a compare-and-swap on the snapshot's *)
(* version.  The version is modelled by the set fresh of controllers that  *)
(* hold the stored version: a save succeeds exactly for those and makes    *)
(* every other copy stale.  A controller that is not in fresh therefore    *)
(* has only one way on, the conflict at its next save, whatever its stale  *)
(* copy says; its copy is not kept.                                        *)
(*                                                                         *)
(* Each await of the code (a component, an agent, a save) is a step.       *)
(* Components may raise, a budget may be exhausted, a deadline may pass,   *)
(* the coroutine may be cancelled, the process may die and a lease may run *)
(* out under a live controller; MaxFaults bounds how often, MaxOps the     *)
(* calls of the host.                                                      *)
(***************************************************************************)
EXTENDS TaskGraph

CONSTANTS
  Controllers,       \* TeamOrchestrator objects, each with its owner_id
  Requests,          \* the requests: TeamLimits, and what may be planned
  Faults,            \* the kinds of failure that may happen
  MaxFaults,         \* how many of them
  MaxOps,            \* calls of run, resume, cancel and submit
  None, Review       \* no interaction; an interaction about the whole draft

ASSUME Limits ==
  /\ \A l \in Requests :
       /\ l.max_concurrency \in Nat \ {0} /\ l.max_task_attempts \in Nat \ {0}
       /\ l.max_cycles \in Nat \ {0} /\ l.max_plan_revisions \in Nat
       /\ l.plans \subseteq SUBSET Tasks
  /\ MaxFaults \in Nat /\ MaxOps \in Nat
  /\ None \notin Tasks /\ Review \notin Tasks /\ None # Review
  /\ None \notin Controllers

Terminal == {"completed", "failed", "cancelled", "timed_out"}

Marks == {"timed_out", "cancelled", "budget", "component"}

VARIABLES
  request,    \* the request: its limits, and the plans its planner may make
  repo,       \* the stored TeamSnapshot
  lease,      \* the owner of the run lease, or None
  fresh,      \* the controllers whose snapshot is the stored version
  pc,         \* where each controller's coroutine waits
  batch,      \* each controller's scheduled tasks and their outcomes
  cancelling, \* controllers with the run in _cancel_requested
  calls,      \* history: the calls made to agents for the current plan
  asked,      \* history: the tasks approved for the current plan
  faults, ops

vars == <<request, repo, lease, fresh, pc, batch, cancelling, calls, asked, faults, ops>>

local == <<request, lease, batch, cancelling, calls, asked, faults, ops>>

NoRun == [status |-> "none", reason |-> "none", tasks |-> NoGraph, cycle |-> 0,
          revision |-> 0, history |-> {}, pending |-> None, approved |-> 0]

Init ==
  /\ request \in Requests
  /\ repo = NoRun /\ lease = None /\ fresh = {} /\ cancelling = {}
  /\ pc = [c \in Controllers |-> "idle"]
  /\ batch = [c \in Controllers |-> NoGraph]
  /\ calls = {} /\ asked = {} /\ faults = 0 /\ ops = 0

Driving(c) == pc[c] \notin {"idle", "claim", "claim_new"}

Outcomes(c, kinds) == {t \in DOMAIN batch[c] : batch[c][t] \in kinds}

-----------------------------------------------------------------------------
(* Saving.  Stop names the fields every _save resets: the reason defaults  *)
(* to none and the active clock, a function of the status, is left out.    *)

Stop(s, status, reason) == [s EXCEPT !.status = status, !.reason = reason]

With(s, g) == [s EXCEPT !.tasks = g]

(* A variant that must fail: the version is not compared.                  *)
BlindSave(c, s, next) ==
  /\ repo' = s
  /\ fresh' = {c}
  /\ pc' = [pc EXCEPT ![c] = next]

Save(c, s, next) ==
  /\ c \in fresh
  /\ repo' = s
  /\ fresh' = {c}
  /\ pc' = [pc EXCEPT ![c] = next]

(* The repository refuses the version: a terminal snapshot is returned,    *)
(* any other makes the call raise.                                         *)
Conflict(c) ==
  /\ c \notin fresh
  /\ \/ pc[c] \in Marks \cup {"begin", "recovered", "plan", "uncovered", "exec",
           "approve", "gate", "verify", "apply", "aggregate", "review"}
     \/ pc[c] = "invoke" /\ Outcomes(c, {"running"}) = {}
  /\ pc' = [pc EXCEPT ![c] = "leave"]
  /\ UNCHANGED <<repo, fresh, local>>

Block(c, reason) == Save(c, Stop(repo, "blocked", reason), "done")

-----------------------------------------------------------------------------
(* The operations of the host. *)

HostCall == ops < MaxOps /\ ops' = ops + 1

Run(c) ==
  /\ pc[c] = "idle" /\ repo = NoRun /\ HostCall
  /\ repo' = Stop(NoRun, "planning", "none")
  /\ fresh' = {c}
  /\ pc' = [pc EXCEPT ![c] = "claim_new"]
  /\ UNCHANGED <<request, lease, batch, cancelling, calls, asked, faults>>

(* resume answers at once for a run that is over, rejected, or waiting for *)
(* a human; otherwise it goes on to claim the run it has read.             *)
Resume(c) ==
  /\ pc[c] = "idle" /\ HostCall
  /\ repo # NoRun /\ repo.status \notin Terminal
  /\ ~ (repo.status = "blocked" /\ repo.reason = "human_rejected")
  /\ repo.pending = None
  /\ fresh' = fresh \cup {c}
  /\ pc' = [pc EXCEPT ![c] = "claim"]
  /\ UNCHANGED <<request, repo, lease, batch, cancelling, calls, asked, faults>>

ClaimRun(c) ==
  /\ pc[c] \in {"claim", "claim_new"}
  /\ \/ /\ lease = None
        /\ lease' = c
        /\ pc' = [pc EXCEPT ![c] = IF @ = "claim_new" THEN "plan" ELSE "begin"]
        /\ UNCHANGED fresh
     \/ /\ lease # None
        /\ pc' = [pc EXCEPT ![c] = "idle"]
        /\ fresh' = fresh \ {c}
        /\ UNCHANGED lease
  /\ UNCHANGED <<request, repo, batch, cancelling, calls, asked, faults, ops>>

(* cancel leaves a mark for the controller that drives the run; any other  *)
(* controller writes the end of the run itself.                            *)
Cancel(c) ==
  /\ HostCall
  /\ repo # NoRun /\ repo.status \notin Terminal
  /\ \/ /\ Driving(c) /\ c \notin cancelling
        /\ cancelling' = cancelling \cup {c}
        /\ UNCHANGED <<repo, fresh>>
     \/ /\ ~ Driving(c)
        /\ repo' = With(Stop(repo, "cancelled", "cancelled"),
                        CancelAll(repo.tasks))
        /\ fresh' = {}
        /\ UNCHANGED cancelling
  /\ UNCHANGED <<request, lease, pc, batch, calls, asked, faults>>

Rejected(s) ==
  LET t == s.pending
      g == IF t \in In(s.tasks, "waiting_approval")
           THEN Fail(s.tasks, t, "none", "none") ELSE s.tasks
  IN [With(Stop(s, "blocked", "human_rejected"), CancelAll(g))
        EXCEPT !.pending = None]

Approved(s) ==
  LET t == s.pending
  IN [Stop(s, "paused", "none") EXCEPT
        !.tasks = IF t = Review THEN @ ELSE ResumeApproval(@, t),
        !.approved = IF t = Review THEN s.cycle ELSE @,
        !.pending = None]

Archived(s) == s.history \cup {s.cycle}

Revised(s) ==
  IF s.revision >= request.max_plan_revisions
  THEN [Stop(s, "failed", "plan_revision_limit") EXCEPT
          !.pending = None, !.history = Archived(s)]
  ELSE [Stop(s, "paused", "none") EXCEPT
          !.tasks = NoGraph, !.pending = None, !.history = Archived(s),
          !.revision = @ + 1, !.approved = 0]

(* submit_human_response does not look at the run's status: it only needs  *)
(* the pending interaction it answers.  Answers to other interactions and  *)
(* repeated answers change nothing.                                        *)
Submit(action) ==
  /\ HostCall
  /\ repo.pending # None
  /\ \/ action = "reject" /\ repo' = Rejected(repo) /\ UNCHANGED asked
     \/ /\ action = "approve"
        /\ repo.pending \in {Review} \cup In(repo.tasks, "waiting_approval")
        /\ repo' = Approved(repo)
        /\ asked' = asked \cup {repo.pending}
     \/ action = "revise" /\ repo' = Revised(repo) /\ UNCHANGED asked
  /\ fresh' = {}
  /\ UNCHANGED <<request, lease, pc, batch, cancelling, calls, faults>>

-----------------------------------------------------------------------------
(* Planning, and what resume does before it drives the run again. *)

Begin(c) ==
  /\ pc[c] = "begin"
  /\ IF repo.tasks = NoGraph
     THEN Save(c, Stop(repo, "planning", "none"), "plan")
     ELSE Save(c, [With(Stop(repo, "running", "none"),
                        RecoverInflight(repo.tasks)) EXCEPT
                     !.cycle = IF @ = 0 THEN 1 ELSE @],
               IF Unresolved(repo.tasks) = {} THEN "exec" ELSE "recovered")
  /\ UNCHANGED local

RecoveryRequired(c) ==
  /\ pc[c] = "recovered" /\ Block(c, "recovery_required") /\ UNCHANGED local

Plan(c) ==
  /\ pc[c] = "plan"
  /\ \/ /\ repo.cycle + 1 > request.max_cycles
        /\ Save(c, Stop(repo, "failed", "cycle_limit"), "done")
        /\ UNCHANGED local
     \/ /\ repo.cycle + 1 <= request.max_cycles
        /\ \E S \in request.plans, covered \in BOOLEAN :
             /\ ValidPlan(S)
             /\ Save(c, [With(Stop(repo, "running", "none"), NewGraph(S)) EXCEPT
                           !.cycle = @ + 1, !.approved = 0],
                     IF covered THEN "exec" ELSE "uncovered")
        /\ calls' = {} /\ asked' = {}
        /\ UNCHANGED <<request, lease, batch, cancelling, faults, ops>>

NoCapableAgent(c) ==
  /\ pc[c] = "uncovered" /\ Block(c, "no_capable_agent") /\ UNCHANGED local

-----------------------------------------------------------------------------
(* The loop of _execute. *)

CancelSnapshot(c) ==
  /\ pc[c] \in {"exec", "aggregate"} /\ c \in cancelling
  /\ Save(c, With(Stop(repo, "cancelled", "cancelled"), CancelAll(repo.tasks)),
          "done")
  /\ UNCHANGED local

AtHead(c) == pc[c] = "exec" /\ c \in fresh /\ c \notin cancelling

(* _resume_verifying takes the tasks with a stored result one by one.      *)
ResumeVerifying(c) ==
  /\ AtHead(c)
  /\ \E t \in In(repo.tasks, "verifying") :
       batch' = [batch EXCEPT ![c] =
         [x \in {t} |-> IF repo.tasks[t].verification = "none" THEN "ok"
                        ELSE repo.tasks[t].verification]]
  /\ pc' = [pc EXCEPT ![c] = "verify"]
  /\ UNCHANGED <<request, repo, lease, fresh, cancelling, calls, asked,
                faults, ops>>

Complete(c) ==
  /\ AtHead(c) /\ AllSucceeded(repo.tasks)
  /\ pc' = [pc EXCEPT ![c] = "aggregate"]
  /\ UNCHANGED <<repo, fresh, local>>

Replanned(s) ==
  IF s.cycle >= request.max_cycles
  THEN [Stop(s, "failed", "cycle_limit") EXCEPT !.history = Archived(s)]
  ELSE IF s.revision >= request.max_plan_revisions
  THEN [Stop(s, "failed", "plan_revision_limit") EXCEPT !.history = Archived(s)]
  ELSE [Stop(s, "planning", "none") EXCEPT
          !.tasks = NoGraph, !.history = Archived(s),
          !.revision = @ + 1, !.approved = 0]

Replan(c) ==
  Save(c, Replanned(repo),
       IF Replanned(repo).status = "planning" THEN "plan" ELSE "done")

FailTasks(c) ==
  /\ AtHead(c)
  /\ AllTerminal(repo.tasks) /\ ~ AllSucceeded(repo.tasks)
  /\ Replan(c) /\ UNCHANGED local

(* Past the head of the loop: approvals first, then a batch.               *)
PastHead(c) ==
  /\ c \in fresh
  /\ \/ pc[c] = "approve"
     \/ /\ AtHead(c) /\ In(repo.tasks, "verifying") = {}
        /\ ~ AllTerminal(repo.tasks)

NeedsApproval(g) ==
  {t \in In(g, "ready") \cap requiresApproval : ~ g[t].approval_granted}

AskGate(c) ==
  /\ PastHead(c)
  /\ \E t \in NeedsApproval(repo.tasks) :
       Save(c, With(Stop(repo, "waiting_approval", "none"),
                    MarkWaitingApproval(repo.tasks, t)), "gate")
  /\ UNCHANGED local

GateDecides(c, decision) ==
  /\ pc[c] = "gate"
  /\ \E t \in In(repo.tasks, "waiting_approval") :
     \/ /\ decision = "approved"
        /\ Save(c, With(Stop(repo, "running", "none"),
                        ResumeApproval(repo.tasks, t)), "approve")
        /\ asked' = asked \cup {t}
     \/ /\ decision = "deferred"
        /\ Save(c, [Stop(repo, "paused", "approval_deferred") EXCEPT
                      !.pending = t], "done")
        /\ UNCHANGED asked
     \/ /\ decision = "rejected"
        /\ Save(c, With(Stop(repo, "failed", "approval_rejected"),
                        CancelAll(Fail(repo.tasks, t, "none", "none"))), "done")
        /\ UNCHANGED asked
  /\ UNCHANGED <<request, lease, batch, cancelling, calls, faults, ops>>

(* The tasks that found a free agent; when none did, the run is blocked.   *)
ExecuteBatch(c) ==
  /\ PastHead(c) /\ NeedsApproval(repo.tasks) = {}
  /\ \E S \in SUBSET In(repo.tasks, "ready") :
       /\ S # {} /\ Cardinality(S) <= request.max_concurrency
       /\ LET g == Start(repo.tasks, S)
          IN /\ Save(c, With(Stop(repo, "running", "none"), g), "invoke")
             /\ batch' = [batch EXCEPT ![c] = [t \in S |-> "running"]]
             /\ calls' = calls \cup
                  {[task |-> t, attempt |-> g[t].attempt, by |-> c,
                    state |-> "running"] : t \in S}
  /\ UNCHANGED <<request, lease, cancelling, asked, faults, ops>>

NothingScheduled(c) ==
  /\ PastHead(c) /\ NeedsApproval(repo.tasks) = {}
  /\ \E reason \in IF In(repo.tasks, "ready") = {} THEN {"deadlock"}
                   ELSE {"no_capable_agent", "agent_capacity"} : Block(c, reason)
  /\ UNCHANGED local

(* History: what became of controller c's calls for the tasks of S.        *)
Became(c, S, old, new) ==
  {IF x.by = c /\ x.task \in S /\ x.state = old
   THEN [x EXCEPT !.state = new] ELSE x : x \in calls}

Judged(t) ==
  {IF x.task = t /\ x.state = "ok" THEN [x EXCEPT !.state = "rejected"] ELSE x
     : x \in calls}

AgentReturns(c, t, outcome) ==
  /\ pc[c] = "invoke" /\ t \in DOMAIN batch[c] /\ batch[c][t] = "running"
  /\ batch' = [batch EXCEPT ![c][t] = outcome]
  /\ calls' = Became(c, {t}, "running", outcome)
  /\ UNCHANGED <<request, repo, lease, fresh, pc, cancelling, asked, faults,
                ops>>

Returned(c) ==
  /\ pc[c] = "invoke" /\ Outcomes(c, {"running"}) = {} /\ c \in fresh
  /\ IF Outcomes(c, {"ok"}) = {}
     THEN pc' = [pc EXCEPT ![c] = "apply"] /\ UNCHANGED <<repo, fresh>>
     ELSE Save(c, With(Stop(repo, "running", "none"),
                       BeginVerification(repo.tasks, Outcomes(c, {"ok"}))),
               "verify")
  /\ UNCHANGED local

VerifierReturns(c, t, verdict) ==
  /\ pc[c] = "verify" /\ t \in Outcomes(c, {"ok"})
  /\ batch' = [batch EXCEPT ![c][t] = verdict]
  /\ UNCHANGED <<request, repo, lease, fresh, pc, cancelling, calls, asked,
                faults, ops>>

Verified(c) ==
  /\ pc[c] = "verify" /\ Outcomes(c, {"ok"}) = {}
  /\ pc' = [pc EXCEPT ![c] = "apply"]
  /\ UNCHANGED <<repo, fresh, local>>

(* _apply_outcome: the verdict is stored first, the task's new state with  *)
(* a save of its own.                                                      *)
RecordVerdict(c, t) ==
  /\ pc[c] = "apply" /\ t \in Outcomes(c, {"passed", "failed"}) /\ c \in fresh
  /\ repo.tasks[t].verification # batch[c][t]
  /\ Save(c, With(Stop(repo, "running", "none"),
                  RecordVerification(repo.tasks, t, batch[c][t])), "apply")
  /\ UNCHANGED local

Applied(g, t, outcome) ==
  LET r == IF outcome = "bad" THEN "bad" ELSE "ok"
      v == IF outcome = "failed" THEN "failed" ELSE "none"
  IN IF outcome = "passed" THEN Succeed(g, t)
     ELSE IF g[t].attempt < request.max_task_attempts THEN Retry(g, t, r, v)
     ELSE Fail(g, t, r, v)

ApplyOutcome(c, t) ==
  /\ pc[c] = "apply" /\ t \in DOMAIN batch[c] /\ c \in fresh
  /\ batch[c][t] \in {"passed", "failed"}
       => repo.tasks[t].verification = batch[c][t]
  /\ LET rest == DOMAIN batch[c] \ {t}
     IN /\ Save(c, With(Stop(repo, "running", "none"),
                        Applied(repo.tasks, t, batch[c][t])),
                IF rest = {} THEN "exec" ELSE "apply")
        /\ batch' = [batch EXCEPT ![c] = [x \in rest |-> batch[c][x]]]
        /\ calls' = IF batch[c][t] \in {"failed", "error"} THEN Judged(t)
                    ELSE calls
  /\ UNCHANGED <<request, lease, cancelling, asked, faults, ops>>

-----------------------------------------------------------------------------
(* The team review. *)

Aggregate(c) ==
  /\ pc[c] = "aggregate" /\ c \notin cancelling
  /\ pc' = [pc EXCEPT ![c] = "review"]
  /\ UNCHANGED <<repo, fresh, local>>

Reviewed(c, action) ==
  /\ pc[c] = "review" /\ c \in fresh
  /\ repo.approved = repo.cycle => action = "accept"
  /\ \/ action = "accept"
        /\ Save(c, [Stop(repo, "completed", "completed") EXCEPT
                      !.history = Archived(repo), !.pending = None], "done")
     \/ action = "replan" /\ Replan(c)
     \/ action = "request_human"
        /\ Save(c, [Stop(repo, "paused", "approval_deferred") EXCEPT
                      !.pending = Review], "done")
     \/ action = "stop"
        /\ Save(c, [Stop(repo, "failed", "review_stopped") EXCEPT
                      !.history = Archived(repo)], "done")
  /\ UNCHANGED local

-----------------------------------------------------------------------------
(* Failures.  The handlers of run and resume read the snapshot again and   *)
(* write what happened over whatever is stored, unless that is terminal.   *)

Fault(kind) == kind \in Faults /\ faults < MaxFaults /\ faults' = faults + 1

MarkOf == [abort |-> "cancelled", deadline |-> "timed_out",
           budget |-> "budget", raise |-> "component"]

(* A cancelled coroutine and a deadline cancel the calls under way.  A     *)
(* call that exhausts the budget makes gather raise, and the other calls   *)
(* of the batch go on with nobody waiting for them.                        *)
Interrupted(c, kind) ==
  /\ kind \in DOMAIN MarkOf /\ Fault(kind)
  /\ Driving(c) /\ pc[c] \notin Marks \cup {"leave"}
  /\ kind = "raise" /\ pc[c] = "invoke"
       => Outcomes(c, {"running"}) = DOMAIN batch[c]
  /\ kind = "budget" => pc[c] \in {"plan", "gate", "invoke", "verify",
                                   "aggregate", "review"}
  /\ kind = "deadline" => /\ pc[c] \notin {"begin", "recovered"}
                           /\ repo.reason # "recovery_required"
  /\ \/ /\ kind = "budget" /\ pc[c] = "invoke"
        /\ \E t \in Outcomes(c, {"running"}) :
             calls' = Became(c, {t}, "running", "lost")
     \/ /\ ~ (kind = "budget" /\ pc[c] = "invoke")
        /\ calls' = Became(c, Tasks, "running", "lost")
  /\ IF repo.status \in Terminal
     THEN pc' = [pc EXCEPT ![c] = "leave"] /\ UNCHANGED fresh
     ELSE pc' = [pc EXCEPT ![c] = MarkOf[kind]] /\ fresh' = fresh \cup {c}
  /\ batch' = [batch EXCEPT ![c] = NoGraph]
  /\ UNCHANGED <<request, repo, lease, cancelling, asked, ops>>

Mark(c) ==
  /\ \/ /\ pc[c] = "budget"
        /\ Save(c, Stop(repo, "blocked", "budget_exhausted"), "leave")
     \/ \E status \in {"cancelled", "timed_out"} :
          /\ pc[c] = status
          /\ Save(c, With(Stop(repo, status, status), CancelAll(repo.tasks)),
                  "leave")
     \/ /\ pc[c] = "component"
        /\ Save(c, With(Stop(repo, "failed", "component_error"),
                        CancelAll(repo.tasks)), "leave")
  /\ UNCHANGED local

(* The finally clause of run and resume. *)
Finish(c) ==
  /\ pc[c] \in {"done", "leave"}
  /\ pc' = [pc EXCEPT ![c] = "idle"]
  /\ lease' = IF lease = c THEN None ELSE lease
  /\ cancelling' = cancelling \ {c}
  /\ fresh' = fresh \ {c}
  /\ batch' = [batch EXCEPT ![c] = NoGraph]
  /\ UNCHANGED <<request, repo, calls, asked, faults, ops>>

(* A call that outlived its batch ends and its result is dropped.          *)
OrphanEnds(c) ==
  /\ pc[c] # "invoke"
  /\ \E x \in calls : x.by = c /\ x.state = "running"
  /\ calls' = Became(c, Tasks, "running", "lost")
  /\ UNCHANGED <<request, repo, lease, fresh, pc, batch, cancelling, asked,
                faults, ops>>

(* The process dies; a durable repository ends its lease some time later.  *)
Crash(c) ==
  /\ Fault("crash") /\ pc[c] # "idle"
  /\ pc' = [pc EXCEPT ![c] = "idle"]
  /\ fresh' = fresh \ {c} /\ cancelling' = cancelling \ {c}
  /\ batch' = [batch EXCEPT ![c] = NoGraph]
  /\ calls' = Became(c, Tasks, "running", "lost")
  /\ UNCHANGED <<request, repo, lease, asked, ops>>

DeadLeaseEnds ==
  /\ lease # None /\ ~ Driving(lease)
  /\ lease' = None
  /\ UNCHANGED <<request, repo, fresh, pc, batch, cancelling, calls, asked,
                faults, ops>>

LiveLeaseEnds ==
  /\ Fault("expire") /\ lease # None /\ Driving(lease)
  /\ lease' = None
  /\ UNCHANGED <<request, repo, fresh, pc, batch, cancelling, calls, asked,
                ops>>

-----------------------------------------------------------------------------
DriverStep(c) ==
  \/ ClaimRun(c) \/ Begin(c) \/ RecoveryRequired(c) \/ Plan(c)
  \/ NoCapableAgent(c) \/ CancelSnapshot(c) \/ ResumeVerifying(c)
  \/ Complete(c) \/ FailTasks(c) \/ AskGate(c)
  \/ \E d \in {"approved", "deferred", "rejected"} : GateDecides(c, d)
  \/ ExecuteBatch(c) \/ NothingScheduled(c)
  \/ \E t \in Tasks :
       \/ \E o \in {"ok", "bad"} : AgentReturns(c, t, o)
       \/ \E v \in {"passed", "failed", "error"} : VerifierReturns(c, t, v)
       \/ RecordVerdict(c, t) \/ ApplyOutcome(c, t)
  \/ Returned(c) \/ Verified(c) \/ Aggregate(c)
  \/ \E a \in {"accept", "replan", "request_human", "stop"} : Reviewed(c, a)
  \/ Mark(c) \/ Conflict(c) \/ Finish(c)

HostStep ==
  \/ \E c \in Controllers : Run(c) \/ Resume(c) \/ Cancel(c)
  \/ \E a \in {"approve", "reject", "revise"} : Submit(a)

FaultStep ==
  \/ \E c \in Controllers :
       Crash(c) \/ \E kind \in DOMAIN MarkOf : Interrupted(c, kind)
  \/ LiveLeaseEnds

Next ==
  \/ \E c \in Controllers : DriverStep(c) \/ OrphanEnds(c)
  \/ HostStep \/ FaultStep \/ DeadLeaseEnds

Spec == Init /\ [][Next]_vars

-----------------------------------------------------------------------------
(* Types: the snapshot, the lease and the bookkeeping of the controllers.  *)
TypeOK ==
  /\ repo.status \in Terminal \cup {"none", "planning", "running",
                     "waiting_approval", "paused", "blocked"}
  /\ IsGraph(repo.tasks)
  /\ repo.cycle \in 0..request.max_cycles /\ repo.approved \in 0..repo.cycle
  /\ repo.revision \in 0..request.max_plan_revisions
  /\ repo.history \subseteq 1..repo.cycle
  /\ repo.pending \in Tasks \cup {None, Review}
  /\ lease \in Controllers \cup {None}
  /\ fresh \subseteq Controllers /\ cancelling \subseteq Controllers
  /\ \A c \in Controllers : DOMAIN batch[c] \subseteq Tasks
  /\ calls \subseteq [task : Tasks, attempt : Nat \ {0}, by : Controllers,
                     state : {"running", "ok", "bad", "rejected", "lost"}]
  /\ asked \subseteq Tasks \cup {Review}

(* A task that is not replay_safe is called again within a plan only after *)
(* its earlier call came back and failed, or its result was rejected by    *)
(* the verifier: never after a call whose end is unknown (process death,   *)
(* exhausted budget) or while one is still running under a controller that *)
(* lost its lease (recover_inflight, save before invoke).                  *)
NoBlindReplay ==
  \A x, y \in calls :
    x.task = y.task /\ x.attempt < y.attempt /\ x.task \notin replaySafe
      => x.state \in {"bad", "rejected"}

(* An attempt number of a task is used for one call, whichever controllers *)
(* drove the plan: LoopAgentEndpoint derives the child run_id from it.     *)
OneCallPerAttempt ==
  \A x, y \in calls : x.task = y.task /\ x.attempt = y.attempt => x = y

(* A task that requires approval is called only after the gate or a human  *)
(* approved it for the current plan, across retries, crashes and resumes.  *)
ApprovedFirst ==
  \A x \in calls : x.task \in requiresApproval => x.task \in asked

(* A stored success is backed by the call of that very attempt, which      *)
(* returned a result no verifier rejected: results of earlier attempts or  *)
(* of another controller never stand in for it.                            *)
SuccessIsOwn ==
  \A t \in In(repo.tasks, "succeeded") :
    \E x \in calls : /\ x.task = t /\ x.attempt = repo.tasks[t].attempt
                     /\ x.state = "ok"

(* Every stored snapshot can be loaded again: from_snapshot and TaskState  *)
(* accept it, whatever was interrupted, cancelled or rejected before.      *)
StoredGraphLoads == Restorable(repo.tasks) /\ WellFormed(repo.tasks)

(* The branch of _execute for a graph that is neither ready nor finished   *)
(* is never taken.                                                         *)
NoGraphDeadlock == repo.reason # "deadlock"

(* A completed run has a graph whose tasks all succeeded, answers no open  *)
(* question, and was archived as the last cycle.                           *)
CompletedMeansDone ==
  repo.status = "completed" =>
    /\ repo.tasks # NoGraph
    /\ \A t \in DOMAIN repo.tasks : repo.tasks[t].status = "succeeded"
    /\ repo.pending = None /\ repo.cycle \in repo.history

(* An ended run changes no more, whichever stale controller, late handler  *)
(* or cancellation comes after; the one way back is the answer to a        *)
(* question that the end left pending.                                     *)
EndedStaysEnded ==
  [][repo.status \in Terminal => repo' = repo \/ repo.pending # None]_vars

(* Every call of an agent is one the stored graph accounts for: begun once *)
(* per attempt, approved first, and never repeated unless the task is      *)
(* replay-safe (_execute_batch, recover_inflight, _approve_ready).         *)
CallsJustified == NoBlindReplay /\ OneCallPerAttempt /\ ApprovedFirst

(* What is stored is a graph that loads and can go on, its results are its *)
(* tasks' own, and a team run is COMPLETED only with every task done       *)
(* (TaskGraph.from_snapshot, _apply_outcome, _complete).                   *)
TeamSound ==
  TypeOK /\ StoredGraphLoads /\ NoGraphDeadlock /\ SuccessIsOwn /\ CompletedMeansDone
=============================================================================
