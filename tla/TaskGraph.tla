----------------------------- MODULE TaskGraph -----------------------------
(***************************************************************************)
(* The task graph of a team run (matterloop_agents/collaboration/          *)
(* task_graph.py): the states of the tasks of one plan and the operations  *)
(* the orchestrator applies to them.  A graph is a function from the task  *)
(* identifiers of the plan to task states; the empty function is a         *)
(* snapshot without tasks.                                                 *)
(*                                                                         *)
(* A task's description, capability, priority, artifacts and the wording   *)
(* of results and errors are left out.                                     *)
(***************************************************************************)
EXTENDS Naturals, FiniteSets

CONSTANTS
  Tasks,             \* task identifiers a planner may use
  dependencies,      \* TaskSpec.dependencies
  requiresApproval,  \* tasks with TaskSpec.requires_approval
  replaySafe         \* tasks with TaskSpec.replay_safe

ASSUME TaskSpecs ==
  /\ IsFiniteSet(Tasks)
  /\ dependencies \in [Tasks -> SUBSET Tasks]
  /\ requiresApproval \subseteq Tasks
  /\ replaySafe \subseteq Tasks

TaskStatus == {"pending", "ready", "waiting_approval", "running", "verifying",
               "succeeded", "failed", "blocked", "cancelled"}

IsTerminal(status) == status \in {"succeeded", "failed", "blocked", "cancelled"}

(* A TaskResult is kept as its success flag, a TaskVerification as its     *)
(* passed flag.                                                            *)
TaskState == [status : TaskStatus, attempt : Nat, approval_granted : BOOLEAN,
              result : {"none", "ok", "bad"},
              verification : {"none", "passed", "failed"}]

IsGraph(g) == DOMAIN g \subseteq Tasks /\ \A t \in DOMAIN g : g[t] \in TaskState

NoGraph == [t \in {} |-> {}]

(* A plan is accepted when it is not empty, its dependencies are its own   *)
(* tasks, and none of its tasks wait for one another in a circle.          *)
IsDAG(S) == \A U \in (SUBSET S) \ {{}} : \E t \in U : dependencies[t] \cap U = {}

ValidPlan(S) ==
  /\ S # {}
  /\ \A t \in S : dependencies[t] \subseteq S
  /\ IsDAG(S)

NewGraph(S) ==
  [t \in S |-> [status |-> IF dependencies[t] = {} THEN "ready" ELSE "pending",
                attempt |-> 0, approval_granted |-> FALSE,
                result |-> "none", verification |-> "none"]]

In(g, status) == {t \in DOMAIN g : g[t].status = status}

AllSucceeded(g) == \A t \in DOMAIN g : g[t].status = "succeeded"

AllTerminal(g) == \A t \in DOMAIN g : IsTerminal(g[t].status)

(* A variant that must fail: a dependency that ended counts as done.       *)
RefreshedWhenEnded(g) ==
  [t \in DOMAIN g |->
     [g[t] EXCEPT !.status =
        IF @ = "pending" /\ \A d \in dependencies[t] : IsTerminal(g[d].status)
        THEN "ready" ELSE @]]

(* The pending tasks that can never run: the least set with the dependents *)
(* of the tasks that did not complete and of its own members.              *)
FailedDependencies == {"failed", "blocked", "cancelled"}

Inherited(g, S) ==
  \A t \in In(g, "pending") :
    (\E d \in dependencies[t] : d \in S \/ g[d].status \in FailedDependencies) => t \in S

Hopeless(g) ==
  {t \in In(g, "pending") : \A S \in SUBSET In(g, "pending") : Inherited(g, S) => t \in S}

(* The pending tasks after each change of a dependency has been followed.  *)
Refresh(g) ==
  LET hopeless == Hopeless(g)
  IN [t \in DOMAIN g |-> [g[t] EXCEPT !.status =
        IF @ # "pending" THEN @
        ELSE IF t \in hopeless THEN "blocked"
        ELSE IF \A d \in dependencies[t] : g[d].status = "succeeded" THEN "ready"
        ELSE @]]

MarkWaitingApproval(g, t) == [g EXCEPT ![t].status = "waiting_approval"]

ResumeApproval(g, t) ==
  [g EXCEPT ![t].status = "ready", ![t].approval_granted = TRUE]

Start(g, S) ==
  [t \in DOMAIN g |->
     IF t \notin S THEN g[t]
     ELSE [g[t] EXCEPT !.status = "running", !.attempt = @ + 1,
                       !.result = "none", !.verification = "none"]]

BeginVerification(g, S) ==
  [t \in DOMAIN g |->
     IF t \notin S THEN g[t]
     ELSE [g[t] EXCEPT !.status = "verifying", !.result = "ok",
                       !.verification = "none"]]

RecordVerification(g, t, v) == [g EXCEPT ![t].verification = v]

Succeed(g, t) == Refresh([g EXCEPT ![t].status = "succeeded"])

Retry(g, t, r, v) ==
  [g EXCEPT ![t].status = "ready", ![t].result = r, ![t].verification = v]

Fail(g, t, r, v) ==
  Refresh([g EXCEPT ![t].status = "failed", ![t].result = r,
                    ![t].verification = v])

CancelAll(g) ==
  [t \in DOMAIN g |->
     [g[t] EXCEPT !.status = IF IsTerminal(@) THEN @ ELSE "cancelled"]]

(* A variant that must fail: every interrupted call is made again.         *)
WaitingOnly(g) == In(g, "waiting_approval")

(* What an interrupted process left behind: a replay-safe call may be made *)
(* again, any other open call or question is put before the host.          *)
Unresolved(g) ==
  In(g, "waiting_approval") \cup (In(g, "running") \ replaySafe)

RecoverInflight(g) ==
  Refresh([t \in DOMAIN g |->
     IF t \in Unresolved(g) THEN [g[t] EXCEPT !.status = "blocked"]
     ELSE IF g[t].status = "running"
     THEN [g[t] EXCEPT !.status = "ready", !.result = "none",
                       !.verification = "none"]
     ELSE g[t]])

(* What from_snapshot demands of a stored graph.                           *)
Restorable(g) ==
  \A t \in DOMAIN g :
    g[t].status \in {"ready", "waiting_approval", "running", "verifying",
                     "succeeded"}
      => \A d \in dependencies[t] : g[d].status = "succeeded"

(* What TaskState's own validation demands of a stored task.               *)
WellFormed(g) ==
  \A t \in DOMAIN g :
    /\ g[t].status \in {"running", "verifying"} => g[t].attempt > 0
    /\ g[t].status = "verifying" => g[t].result = "ok"
    /\ g[t].status = "succeeded"
         => g[t].result = "ok" /\ g[t].verification = "passed"
=============================================================================
