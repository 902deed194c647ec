----------------------------- MODULE TeamRoles ------------------------------
(***************************************************************************)
(* The model-backed roles of a team:                                       *)
(* matterloop_agents/collaboration/model_components.py, in one cycle of    *)
(* the orchestrator that calls them. A model may answer anything: text     *)
(* that is no JSON of the asked shape is "junk", everything else is a      *)
(* plan, a verdict or a review whose values are still to be checked.       *)
(* Agents come and go while the planner waits for its model, and the       *)
(* results of a batch are verified at the same time.                       *)
(***************************************************************************)
EXTENDS Naturals, Sequences, FiniteSets, SequencesExt

CONSTANTS
  TaskIds, Skills,        \* task identifiers and capabilities a model may name
  PlannerMax, RequestMax, \* max_tasks of the planner and of the request
  PassScore,              \* pass_score of verifier and reviewer
  MaxScore                \* scores are 0..MaxScore

VARIABLES
  cycle,      \* the stage of the cycle
  skills,     \* capabilities of the agents registered now
  shown,      \* those of the planning context
  plan,       \* tasks [id, skill, needs] the planner returned
  loops,      \* per task: how the child loop of its last attempt ended
  verdicts,   \* per task: its last verification
  review,     \* the review of the draft
  asking       \* model calls in flight, by their context scope

roleVars == <<cycle, skills, shown, plan, loops, verdicts, review, asking>>

Opinion(state, score, failed) == [state |-> state, score |-> score, failed |-> failed]

Unseen == Opinion("none", 0, FALSE)

RolesInit ==
  /\ cycle = "new" /\ skills = {} /\ shown = {}
  /\ plan = <<>> /\ review = Unseen
  /\ loops = [t \in TaskIds |-> "none"] /\ verdicts = [t \in TaskIds |-> Unseen]
  /\ asking = {}

\* _context_scope: run and tenant are those of the cycle; a verifier's scope
\* has the task.
ScopeOf(participant, task) == <<participant, task>>

AgentsChange(new) ==
  /\ skills' = new
  /\ UNCHANGED <<cycle, shown, plan, loops, verdicts, review, asking>>

\* ModelTeamPlanner.plan up to its model call; without agents it gives up.
AskPlan ==
  /\ cycle = "new" /\ shown' = skills
  /\ IF skills = {}
     THEN cycle' = "failed" /\ UNCHANGED asking
     ELSE cycle' = "planning" /\ asking' = {ScopeOf("planner", "-")}
  /\ UNCHANGED <<skills, plan, loops, verdicts, review>>

TaskIdsOf(tasks) == {tasks[i].id : i \in DOMAIN tasks}

\* TaskGraph: distinct identifiers, known dependencies, no cycle.
Sorted(tasks) ==
  LET done[n \in 0..Len(tasks)] ==
        IF n = 0 THEN {}
        ELSE {t \in TaskIdsOf(tasks) :
                \A i \in DOMAIN tasks : tasks[i].id = t => tasks[i].needs \subseteq done[n - 1]}
  IN done[Len(tasks)] = TaskIdsOf(tasks)

IsTaskGraph(tasks) ==
  /\ tasks # <<>>
  /\ \A i, j \in DOMAIN tasks : tasks[i].id = tasks[j].id => i = j
  /\ Sorted(tasks)

Smaller(a, b) == IF a < b THEN a ELSE b

\* Mutant: the capabilities are those of the agents there are by now.
ParsedTasksNow(tasks) ==
  /\ tasks # <<>> /\ Len(tasks) <= Smaller(PlannerMax, RequestMax)
  /\ \A i \in DOMAIN tasks : tasks[i].id \notin tasks[i].needs /\ tasks[i].skill \in skills
  /\ IsTaskGraph(tasks)

\* _parse_tasks: at most the smaller limit, no task that needs itself, only
\* capabilities the planner was shown, and a graph.
ParsedTasks(tasks) ==
  /\ tasks # <<>> /\ Len(tasks) <= Smaller(PlannerMax, RequestMax)
  /\ \A i \in DOMAIN tasks : tasks[i].id \notin tasks[i].needs /\ tasks[i].skill \in shown
  /\ IsTaskGraph(tasks)

\* The planner's model answers; what does not parse is AgentModelOutputError,
\* which ends the run.
PlanAnswer(tasks) ==
  /\ cycle = "planning" /\ asking' = {}
  /\ IF ParsedTasks(tasks)
     THEN cycle' = "planned" /\ plan' = tasks
     ELSE cycle' = "failed" /\ UNCHANGED plan
  /\ UNCHANGED <<skills, shown, loops, verdicts, review>>

\* TeamOrchestrator._plan_and_execute: its own checks of the plan it got.
TakePlan ==
  /\ cycle = "planned"
  /\ cycle' = IF /\ Len(plan) <= RequestMax /\ IsTaskGraph(plan)
                 /\ \A i \in DOMAIN plan : plan[i].skill \in shown
              THEN "working" ELSE "refused"
  /\ UNCHANGED <<skills, shown, plan, loops, verdicts, review, asking>>

\* LoopAgentEndpoint.execute: a loop that paused, stopped or failed is no
\* success.
TaskSuccess(status) == status = "completed"

\* A task whose dependencies are verified is tried; its agent runs a loop.
RunTask(i, status) ==
  LET t == plan[i].id
  IN /\ cycle = "working" /\ verdicts[t].state \in {"none", "failed"}
     /\ \A d \in plan[i].needs : verdicts[d].state = "passed"
     /\ loops' = [loops EXCEPT ![t] = status]
     /\ verdicts' = [verdicts EXCEPT ![t] =
          Opinion(IF TaskSuccess(status) THEN "done" ELSE "failed", 0, FALSE)]
     /\ UNCHANGED <<cycle, skills, shown, plan, review, asking>>

\* The verifier asks its model about a successful result.
VerifyTask(i) ==
  LET t == plan[i].id
  IN /\ cycle = "working" /\ verdicts[t].state = "done"
     /\ asking' = asking \cup {ScopeOf("verifier", t)}
     /\ verdicts' = [verdicts EXCEPT ![t] = Opinion("asked", 0, FALSE)]
     /\ UNCHANGED <<cycle, skills, shown, plan, loops, review>>

\* ModelTaskVerifier.verify: passed means the model says so, the score is
\* high enough and no criterion failed.
Verification(passed, score, failed) == passed /\ score >= PassScore /\ ~failed

\* The verifier's model answers; junk or a failure is a failed attempt.
VerifyAnswer(i, junk, passed, score, failed) ==
  LET t == plan[i].id
      state == IF ~junk /\ Verification(passed, score, failed) THEN "passed" ELSE "failed"
  IN /\ verdicts[t].state = "asked"
     /\ asking' = asking \ {ScopeOf("verifier", t)}
     /\ verdicts' = [verdicts EXCEPT ![t] = Opinion(state, score, failed)]
     /\ UNCHANGED <<cycle, skills, shown, plan, loops, review>>

\* ModelResultAggregator.aggregate over the verified results.
Aggregate(junk) ==
  /\ cycle = "working" /\ \A i \in DOMAIN plan : verdicts[plan[i].id].state = "passed"
  /\ cycle' = IF junk THEN "failed" ELSE "draft"
  /\ UNCHANGED <<skills, shown, plan, loops, verdicts, review, asking>>

\* ModelTeamReviewer.review: an acceptance without the score, or with failed
\* criteria, is a request to plan anew; a human is asked with a prompt.
Review(action, score, failed, prompt) ==
  IF action = "accept" /\ (score < PassScore \/ failed) THEN "replan"
  ELSE IF action = "request_human" /\ ~prompt THEN "failed"
  ELSE action

ReviewDraft(junk, action, score, failed, prompt) ==
  /\ cycle = "draft"
  /\ cycle' = IF junk THEN "failed" ELSE Review(action, score, failed, prompt)
  /\ review' = Opinion(action, score, failed)
  /\ UNCHANGED <<skills, shown, plan, loops, verdicts, asking>>

\* _replan: the next cycle starts without tasks.
NextCycle ==
  /\ cycle = "replan" /\ cycle' = "new"
  /\ plan' = <<>> /\ review' = Unseen /\ shown' = {}
  /\ loops' = [t \in TaskIds |-> "none"] /\ verdicts' = [t \in TaskIds |-> Unseen]
  /\ UNCHANGED <<skills, asking>>

Answers ==
  SeqOf([id : TaskIds, skill : Skills, needs : SUBSET TaskIds], RequestMax + 1)

LoopEnds == {"completed", "blocked", "waiting_human"}

Actions == {"accept", "replan", "request_human", "stop"}

RolesNext ==
  \/ \E new \in SUBSET Skills : AgentsChange(new)
  \/ AskPlan
  \/ \E tasks \in Answers : PlanAnswer(tasks)
  \/ TakePlan
  \/ \E i \in DOMAIN plan, status \in LoopEnds : RunTask(i, status)
  \/ \E i \in DOMAIN plan : VerifyTask(i)
  \/ \E i \in DOMAIN plan, junk, passed, failed \in BOOLEAN, score \in 0..MaxScore :
       VerifyAnswer(i, junk, passed, score, failed)
  \/ \E junk \in BOOLEAN : Aggregate(junk)
  \/ \E junk, failed, prompt \in BOOLEAN, action \in Actions, score \in 0..MaxScore :
       ReviewDraft(junk, action, score, failed, prompt)
  \/ NextCycle

-----------------------------------------------------------------------------
\* A plan that the planner returns is never refused by the orchestrator,
\* whatever agents have come or gone since the planner was asked: both check
\* the capabilities of the same planning context and the smaller of the two
\* limits (_parse_tasks; TeamOrchestrator._plan_and_execute).
PlanNeverRefused == cycle # "refused"

\* The tasks of a plan that is worked on can be done one after the other, each
\* after all it depends on (_parse_tasks, TaskGraph).
PlanRunnable ==
  cycle = "working" =>
    \E order \in SetToSeqs(DOMAIN plan) : \A k \in DOMAIN plan :
      plan[order[k]].needs \subseteq {plan[order[j]].id : j \in 1..(k - 1)}

\* A run is accepted only with every task of the plan done by a loop that
\* completed, verified, and the draft reviewed at the pass score with no
\* failed criterion, whatever the models claim (execute, verify, review).
AcceptanceEarned ==
  cycle = "accept" =>
    /\ review.score >= PassScore /\ ~review.failed
    /\ \A i \in DOMAIN plan : LET v == verdicts[plan[i].id]
                             IN /\ loops[plan[i].id] = "completed"
                                /\ v.state = "passed" /\ v.score >= PassScore /\ ~v.failed

\* Tasks that are verified at the same time do not share a model context: as
\* many scopes are in use as calls are in flight (_context_scope).
ScopePerCall ==
  Cardinality(asking) = Cardinality({t \in TaskIds : verdicts[t].state = "asked"})
                         + (IF cycle = "planning" THEN 1 ELSE 0)

\* The model-backed roles agree with the orchestrator that drives them, whatever
\* the models answer and whichever agents come and go (model_components.py).
RolesSound == PlanNeverRefused /\ PlanRunnable /\ AcceptanceEarned /\ ScopePerCall
=============================================================================
