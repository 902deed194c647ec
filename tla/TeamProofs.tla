----------------------------- MODULE TeamProofs -----------------------------
(***************************************************************************)
(* The team run, for all sets of tasks, controllers, requests and faults.  *)
(*                                                                         *)
(* First the graph: what each operation of TaskGraph leaves of a graph     *)
(* that loads (Loads) and whose pending tasks still wait for something     *)
(* (Stable).  Then IInv, the inductive invariant: the stored graph         *)
(* accounts for the calls that were made for it (CallsOK), and a           *)
(* controller whose copy is the stored one stands at an await that fits    *)
(* the graph, with outcomes of its own calls (Fit).  A controller whose    *)
(* copy is stale needs no invariant: its next save is refused.             *)
(***************************************************************************)
EXTENDS TeamRun, TLAPS

-----------------------------------------------------------------------------
(* Graphs                                                                   *)

Begun == {"ready", "waiting_approval", "running", "verifying", "succeeded"}

\* What from_snapshot and TaskState accept, of a plan that was accepted.
Loads(g) ==
  /\ IsGraph(g) /\ (g = NoGraph \/ ValidPlan(DOMAIN g))
  /\ Restorable(g) /\ WellFormed(g)

\* A pending task waits for something that may still succeed.
Stable(g) ==
  \A t \in In(g, "pending") :
    /\ \A d \in dependencies[t] : g[d].status \notin FailedDependencies
    /\ \E d \in dependencies[t] : g[d].status # "succeeded"

GraphOK(g) == Loads(g) /\ Stable(g)

-----------------------------------------------------------------------------
(* The inductive invariant                                                  *)

Call == [task : Tasks, attempt : Nat \ {0}, by : Controllers,
         state : {"running", "ok", "bad", "rejected", "lost"}]

\* Calls that are known to have failed, and tasks that may be called.
Failed(x) == x.state \in {"bad", "rejected"}
Callable == {"pending", "ready", "waiting_approval"}

Own(C, t, n) == \E x \in C : x.task = t /\ x.attempt = n /\ x.state = "ok"

\* The graph g accounts for the calls C, and A are the approvals behind it.
CallsOK(g, C, A) ==
  /\ C \subseteq Call /\ A \subseteq Tasks \cup {Review}
  /\ \A x, y \in C : x.task = y.task /\ x.attempt = y.attempt => x = y
  /\ \A x, y \in C :
       x.task = y.task /\ x.attempt < y.attempt /\ x.task \notin replaySafe => Failed(x)
  /\ \A x \in C : x.task \in requiresApproval => x.task \in A
  /\ \A x \in C : x.task \in DOMAIN g =>
       /\ x.attempt =< g[x.task].attempt
       /\ \/ x.task \in replaySafe \/ Failed(x)
          \/ x.attempt = g[x.task].attempt /\ g[x.task].status \notin Callable
  /\ \A t \in DOMAIN g :
       /\ g[t].approval_granted => t \in A
       /\ g[t].status \in {"verifying", "succeeded"} => Own(C, t, g[t].attempt)

Fields == {"status", "reason", "tasks", "cycle", "revision", "history", "pending", "approved"}

Statuses == Terminal \cup {"none", "planning", "running", "waiting_approval", "paused", "blocked"}

\* A stored snapshot under the limits l.
SnapOK(s, l) ==
  /\ DOMAIN s = Fields /\ s.status \in Statuses /\ s.reason # "deadlock"
  /\ GraphOK(s.tasks)
  /\ s.cycle \in 0 .. l.max_cycles /\ s.approved \in 0 .. s.cycle
  /\ s.revision \in 0 .. l.max_plan_revisions
  /\ s.history \subseteq 1 .. s.cycle
  /\ s.pending \in Tasks \cup {None, Review}
  /\ (DOMAIN s.tasks # {} \/ s.pending # None) => s.cycle # 0
  /\ s.status = "completed" =>
       /\ DOMAIN s.tasks # {} /\ AllSucceeded(s.tasks)
       /\ s.pending = None /\ s.cycle \in s.history

\* The awaits at which a controller has a graph, and works on a batch.
Planned == {"recovered", "exec", "uncovered", "approve", "gate", "invoke", "verify",
            "apply", "aggregate", "review"}
Working == {"invoke", "verify", "apply"}

\* The outcome o of task t, in the batch of controller c at p, is about a
\* task that the graph g has open, and about c's own call.
OutcomeFits(g, p, C, c, t, o) ==
  /\ t \in DOMAIN g
  /\ \/ /\ g[t].status = "running"
        /\ \/ p = "invoke" /\ o \in {"running", "ok", "bad"}
           \/ o = "bad"
        /\ \E x \in C : /\ x.task = t /\ x.attempt = g[t].attempt
                        /\ x.by = c /\ x.state = o
     \/ /\ p # "invoke" /\ g[t].status = "verifying"
        /\ \/ o \in {"passed", "failed", "error"}
           \/ p = "verify" /\ o = "ok"

\* Where a controller whose copy is the stored one can stand.
Fit(s, p, out, C, c) ==
  LET g == s.tasks IN
  /\ s.status \in Terminal => p \in {"done", "leave"}
  /\ p \in Planned => DOMAIN g # {}
  /\ p \in {"exec", "approve"} \cup Working => In(g, "waiting_approval") = {}
  /\ p \in {"exec", "approve", "gate"} => In(g, "running") = {}
  /\ p = "approve" => In(g, "ready") # {}
  /\ p = "gate" => \E t : In(g, "waiting_approval") = {t}
  /\ p \in Working =>
       /\ In(g, "running") \subseteq DOMAIN out
       /\ \A t \in DOMAIN out : OutcomeFits(g, p, C, c, t, out[t])
  /\ p \in {"aggregate", "review"} => AllSucceeded(g)

IInv ==
  /\ request \in Requests
  /\ SnapOK(repo, request) /\ CallsOK(repo.tasks, calls, asked)
  /\ DOMAIN pc = Controllers /\ DOMAIN batch = Controllers
  /\ lease \in Controllers \cup {None}
  /\ fresh \subseteq Controllers /\ cancelling \subseteq Controllers
  /\ \A c \in Controllers : DOMAIN batch[c] \subseteq Tasks
  /\ \A c \in fresh : Fit(repo, pc[c], batch[c], calls, c)

-----------------------------------------------------------------------------
(* Operations on graphs                                                     *)

\* What TaskState demands of one task.
WellMade(x) ==
  /\ x \in TaskState
  /\ x.status \in {"running", "verifying"} => x.attempt > 0
  /\ x.status = "verifying" => x.result = "ok"
  /\ x.status = "succeeded" => x.result = "ok" /\ x.verification = "passed"

\* A graph keeps loading when the successes stay and no task begins that had
\* not begun before.
LEMMA LoadsOn ==
  ASSUME NEW g, NEW h, Loads(g), DOMAIN h = DOMAIN g, g = NoGraph => h = NoGraph,
         \A t \in DOMAIN g :
           /\ WellMade(h[t])
           /\ g[t].status = "succeeded" => h[t].status = "succeeded"
           /\ h[t].status \in Begun => g[t].status \in Begun
  PROVE  Loads(h)
<1>1. IsGraph(h) /\ WellFormed(h)
  BY DEF Loads, IsGraph, WellMade, WellFormed
<1>2. Restorable(h)
  <2> SUFFICES ASSUME NEW t \in DOMAIN h, h[t].status \in Begun, NEW d \in dependencies[t]
               PROVE  h[d].status = "succeeded"
    BY DEF Restorable, Begun
  <2>1. g # NoGraph
    BY DEF NoGraph
  <2>2. d \in DOMAIN g
    BY <2>1 DEF Loads, ValidPlan
  <2>3. g[d].status = "succeeded"
    BY DEF Loads, Restorable, Begun
  <2> QED
    BY <2>2, <2>3
<1> QED
  BY <1>1, <1>2 DEF Loads

\* Nothing changes for the tasks that wait when no other task ends.
LEMMA StableOn ==
  ASSUME NEW g, NEW h, GraphOK(g), DOMAIN h = DOMAIN g,
         \A t \in DOMAIN g :
           /\ h[t].status = "pending" => g[t].status = "pending"
           /\ h[t].status \in FailedDependencies => g[t].status \in FailedDependencies
           /\ h[t].status = "succeeded" => g[t].status = "succeeded"
  PROVE  Stable(h)
<1> SUFFICES ASSUME NEW t \in DOMAIN h, h[t].status = "pending"
             PROVE  /\ \A d \in dependencies[t] : h[d].status \notin FailedDependencies
                    /\ \E d \in dependencies[t] : h[d].status # "succeeded"
  BY DEF Stable, In
<1>1. g # NoGraph
  BY DEF NoGraph
<1>2. dependencies[t] \subseteq DOMAIN g
  BY <1>1 DEF GraphOK, Loads, ValidPlan
<1>3. /\ \A d \in dependencies[t] : g[d].status \notin FailedDependencies
      /\ \E d \in dependencies[t] : g[d].status # "succeeded"
  BY DEF GraphOK, Stable, In
<1> QED
  BY <1>2, <1>3

\* h is g after the pending tasks were looked at: nothing else has changed.
Settles(g, h) ==
  /\ DOMAIN h = DOMAIN g /\ (g = NoGraph => h = NoGraph)
  /\ \A t \in DOMAIN g :
       /\ h[t].attempt = g[t].attempt /\ h[t].approval_granted = g[t].approval_granted
       /\ h[t].result = g[t].result /\ h[t].verification = g[t].verification
       /\ \/ h[t].status = g[t].status
          \/ g[t].status = "pending" /\ h[t].status \in {"ready", "blocked"}

\* A pending task is blocked when what it waits for can no longer succeed,
\* and ready when all of it has (_refresh_pending).
LEMMA RefreshEffect ==
  ASSUME NEW g, Loads(g)
  PROVE  GraphOK(Refresh(g)) /\ Settles(g, Refresh(g))
<1> DEFINE h == Refresh(g)
           P == In(g, "pending")
           D == Hopeless(g)
<1>0. \A t \in DOMAIN g : WellMade(g[t])
  BY DEF Loads, IsGraph, WellFormed, WellMade
<1>1. /\ DOMAIN h = DOMAIN g
      /\ \A t \in DOMAIN g : h[t] = [g[t] EXCEPT !.status =
           IF @ # "pending" THEN @ ELSE IF t \in D THEN "blocked"
           ELSE IF \A d \in dependencies[t] : g[d].status = "succeeded" THEN "ready" ELSE @]
  BY DEF Refresh
<1>2. g = NoGraph => h = NoGraph
  BY DEF Refresh, NoGraph
<1>3. D \subseteq P /\ Inherited(g, D)
  BY DEF Hopeless, Inherited
<1> HIDE DEF h, D
<1>4. \A t \in DOMAIN g :
        /\ h[t] \in TaskState
        /\ h[t].attempt = g[t].attempt /\ h[t].approval_granted = g[t].approval_granted
        /\ h[t].result = g[t].result /\ h[t].verification = g[t].verification
        /\ h[t].status = IF g[t].status # "pending" THEN g[t].status
                         ELSE IF t \in D THEN "blocked"
                         ELSE IF \A d \in dependencies[t] : g[d].status = "succeeded"
                           THEN "ready" ELSE "pending"
  BY <1>0, <1>1 DEF WellMade, TaskState, TaskStatus
<1>5. Settles(g, h)
  BY <1>1, <1>2, <1>4 DEF Settles
<1>6. \A t \in DOMAIN g : WellMade(h[t]) /\ (g[t].status = "succeeded" => h[t].status = "succeeded")
  BY <1>0, <1>4 DEF WellMade
<1>7. \A t \in DOMAIN g : t \in DOMAIN g /\ dependencies[t] \subseteq DOMAIN g
  BY DEF Loads, ValidPlan, NoGraph
<1>8. Restorable(h)
  <2> SUFFICES ASSUME NEW t \in DOMAIN g, h[t].status \in Begun, NEW d \in dependencies[t]
               PROVE  g[d].status = "succeeded"
    BY <1>1, <1>6, <1>7 DEF Restorable, Begun
  <2>1. CASE g[t].status = "pending"
    BY <1>4, <2>1 DEF Begun
  <2>2. CASE g[t].status # "pending"
    BY <1>4, <2>2 DEF Loads, Restorable, Begun
  <2> QED
    BY <2>1, <2>2
<1>9. Loads(h)
  BY <1>1, <1>2, <1>4, <1>6, <1>8 DEF Loads, IsGraph, WellFormed, WellMade
<1>10. Stable(h)
  <2> SUFFICES ASSUME NEW t \in DOMAIN g, h[t].status = "pending"
               PROVE  /\ \A d \in dependencies[t] : h[d].status \notin FailedDependencies
                      /\ \E d \in dependencies[t] : h[d].status # "succeeded"
    BY <1>1 DEF Stable, In
  <2>1. g[t].status = "pending" /\ t \notin D /\ \E d \in dependencies[t] : g[d].status # "succeeded"
    BY <1>4
  <2>2. \A d \in dependencies[t] : d \notin D /\ g[d].status \notin FailedDependencies
    BY <1>3, <2>1 DEF Inherited, In
  <2>3. \A d \in dependencies[t] :
          h[d].status \notin FailedDependencies /\ (h[d].status = "succeeded" => g[d].status = "succeeded")
    BY <1>4, <1>7, <2>2 DEF FailedDependencies
  <2> QED
    BY <2>1, <2>3
<1> QED
  BY <1>5, <1>9, <1>10 DEF GraphOK, h

LEMMA MembersWellMade ==
  ASSUME NEW g, Loads(g)
  PROVE  \A t \in DOMAIN g : t \in Tasks /\ WellMade(g[t])
BY DEF Loads, IsGraph, WellFormed, WellMade

LEMMA NewGraphEffect ==
  ASSUME NEW S, S \in SUBSET Tasks, ValidPlan(S)
  PROVE  /\ GraphOK(NewGraph(S)) /\ DOMAIN NewGraph(S) = S
         /\ \A t \in S : /\ NewGraph(S)[t].attempt = 0 /\ ~ NewGraph(S)[t].approval_granted
                         /\ NewGraph(S)[t].status \in {"ready", "pending"}
<1> DEFINE g == NewGraph(S)
<1>1. /\ DOMAIN g = S
      /\ \A t \in S : g[t] = [status |-> IF dependencies[t] = {} THEN "ready" ELSE "pending",
                              attempt |-> 0, approval_granted |-> FALSE,
                              result |-> "none", verification |-> "none"]
  BY DEF NewGraph
<1> HIDE DEF g
<1>2. \A t \in S : /\ g[t] \in TaskState
                   /\ g[t].attempt = 0 /\ g[t].approval_granted = FALSE
                   /\ g[t].status = IF dependencies[t] = {} THEN "ready" ELSE "pending"
  <2> SUFFICES ASSUME NEW t \in S
               PROVE  /\ g[t] \in TaskState
                      /\ g[t].attempt = 0 /\ g[t].approval_granted = FALSE
                      /\ g[t].status = IF dependencies[t] = {} THEN "ready" ELSE "pending"
    OBVIOUS
  <2>1. PICK st \in {"ready", "pending"} :
          /\ st = IF dependencies[t] = {} THEN "ready" ELSE "pending"
          /\ g[t] = [status |-> st, attempt |-> 0, approval_granted |-> FALSE,
                     result |-> "none", verification |-> "none"]
    BY <1>1
  <2>2. st \in TaskStatus
    BY DEF TaskStatus
  <2>3. g[t] \in TaskState
    BY <2>1, <2>2 DEF TaskState
  <2> QED
    BY <2>1, <2>3
<1>3. \A t \in S : dependencies[t] \subseteq S
  BY DEF ValidPlan
<1>4. Loads(g)
  BY <1>1, <1>2, <1>3 DEF Loads, IsGraph, Restorable, WellFormed
<1>5. Stable(g)
  BY <1>1, <1>2, <1>3 DEF Stable, In, FailedDependencies
<1> QED
  BY <1>1, <1>2, <1>4, <1>5 DEF GraphOK, g

LEMMA CancelAllEffect ==
  ASSUME NEW g, Loads(g)
  PROVE  /\ GraphOK(CancelAll(g)) /\ DOMAIN CancelAll(g) = DOMAIN g
         /\ \A t \in DOMAIN g :
              /\ CancelAll(g)[t].attempt = g[t].attempt
              /\ CancelAll(g)[t].approval_granted = g[t].approval_granted
              /\ CancelAll(g)[t].status = IF IsTerminal(g[t].status) THEN g[t].status ELSE "cancelled"
<1> DEFINE h == CancelAll(g)
<1>0. \A t \in DOMAIN g : WellMade(g[t])
  BY MembersWellMade
<1>1. /\ DOMAIN h = DOMAIN g
      /\ \A t \in DOMAIN g : h[t] = [g[t] EXCEPT !.status = IF IsTerminal(@) THEN @ ELSE "cancelled"]
  BY DEF CancelAll
<1>2. g = NoGraph => h = NoGraph
  BY DEF CancelAll, NoGraph
<1> HIDE DEF h
<1>3. \A t \in DOMAIN g :
        /\ h[t] \in TaskState /\ h[t].attempt = g[t].attempt
        /\ h[t].approval_granted = g[t].approval_granted
        /\ h[t].result = g[t].result /\ h[t].verification = g[t].verification
        /\ h[t].status = IF IsTerminal(g[t].status) THEN g[t].status ELSE "cancelled"
  BY <1>0, <1>1 DEF WellMade, TaskState, TaskStatus
<1>4. \A t \in DOMAIN g :
        /\ WellMade(h[t]) /\ h[t].status # "pending"
        /\ g[t].status = "succeeded" => h[t].status = "succeeded"
        /\ h[t].status \in Begun => g[t].status \in Begun
  BY <1>0, <1>3 DEF WellMade, IsTerminal, Begun
<1>5. Loads(h)
  BY <1>1, <1>2, <1>4, LoadsOn
<1>6. Stable(h)
  BY <1>1, <1>4 DEF Stable, In
<1> QED
  BY <1>1, <1>3, <1>5, <1>6 DEF GraphOK, h

\* Only t is another in h than in g.
OnlyAt(g, h, t) ==
  /\ DOMAIN h = DOMAIN g /\ \A u \in DOMAIN g \ {t} : h[u] = g[u]
  /\ h[t].attempt = g[t].attempt

\* A task that moves among the states of a begun task that is not done.
LEMMA OneMoves ==
  ASSUME NEW g, NEW h, NEW t \in DOMAIN g, GraphOK(g), OnlyAt(g, h, t), WellMade(h[t]),
         g[t].status \in Begun \ {"succeeded"}, h[t].status \in Begun \ {"succeeded"}
  PROVE  GraphOK(h)
<1>1. \A u \in DOMAIN g : WellMade(g[u])
  BY MembersWellMade DEF GraphOK
<1>2. \A u \in DOMAIN g :
        /\ WellMade(h[u])
        /\ g[u].status = "succeeded" => h[u].status = "succeeded"
        /\ h[u].status \in Begun => g[u].status \in Begun
        /\ h[u].status = "pending" => g[u].status = "pending"
        /\ h[u].status \in FailedDependencies => g[u].status \in FailedDependencies
        /\ h[u].status = "succeeded" => g[u].status = "succeeded"
  BY <1>1 DEF OnlyAt, Begun, FailedDependencies
<1>3. DOMAIN h = DOMAIN g /\ g # NoGraph
  BY DEF OnlyAt, NoGraph
<1>4. Loads(g)
  BY DEF GraphOK
<1>5. Loads(h)
  BY <1>2, <1>3, <1>4, LoadsOn
<1>6. Stable(h)
  BY <1>2, <1>3, StableOn
<1> QED
  BY <1>5, <1>6 DEF GraphOK

LEMMA MarkWaitingEffect ==
  ASSUME NEW g, GraphOK(g), NEW t \in In(g, "ready")
  PROVE  LET h == MarkWaitingApproval(g, t) IN
         /\ GraphOK(h) /\ OnlyAt(g, h, t)
         /\ h[t].status = "waiting_approval" /\ h[t].approval_granted = g[t].approval_granted
<1> DEFINE h == MarkWaitingApproval(g, t)
<1>0. t \in DOMAIN g /\ g[t].status = "ready" /\ WellMade(g[t])
  BY MembersWellMade DEF GraphOK, In
<1>1. /\ DOMAIN h = DOMAIN g /\ \A u \in DOMAIN g \ {t} : h[u] = g[u]
      /\ h[t] = [g[t] EXCEPT !.status = "waiting_approval"]
  BY <1>0 DEF MarkWaitingApproval
<1> HIDE DEF h
<1>2. /\ h[t] \in TaskState /\ h[t].status = "waiting_approval" /\ h[t].attempt = g[t].attempt
      /\ h[t].approval_granted = g[t].approval_granted
  BY <1>0, <1>1 DEF WellMade, TaskState, TaskStatus
<1>3. OnlyAt(g, h, t) /\ WellMade(h[t])
  BY <1>1, <1>2 DEF OnlyAt, WellMade
<1>4. g[t].status \in Begun \ {"succeeded"} /\ h[t].status \in Begun \ {"succeeded"}
  BY <1>0, <1>2 DEF Begun
<1>5. GraphOK(h)
  BY <1>0, <1>3, <1>4, OneMoves
<1> QED
  BY <1>2, <1>3, <1>5 DEF h

LEMMA ResumeApprovalEffect ==
  ASSUME NEW g, GraphOK(g), NEW t \in In(g, "waiting_approval")
  PROVE  LET h == ResumeApproval(g, t) IN
         GraphOK(h) /\ OnlyAt(g, h, t) /\ h[t].status = "ready"
<1> DEFINE h == ResumeApproval(g, t)
<1>0. t \in DOMAIN g /\ g[t].status = "waiting_approval" /\ WellMade(g[t])
  BY MembersWellMade DEF GraphOK, In
<1>1. /\ DOMAIN h = DOMAIN g /\ \A u \in DOMAIN g \ {t} : h[u] = g[u]
      /\ h[t] = [g[t] EXCEPT !.status = "ready", !.approval_granted = TRUE]
  BY <1>0 DEF ResumeApproval
<1> HIDE DEF h
<1>2. h[t] \in TaskState /\ h[t].status = "ready" /\ h[t].attempt = g[t].attempt
  BY <1>0, <1>1 DEF WellMade, TaskState, TaskStatus
<1>3. OnlyAt(g, h, t) /\ WellMade(h[t])
  BY <1>1, <1>2 DEF OnlyAt, WellMade
<1>4. g[t].status \in Begun \ {"succeeded"} /\ h[t].status \in Begun \ {"succeeded"}
  BY <1>0, <1>2 DEF Begun
<1>5. GraphOK(h)
  BY <1>0, <1>3, <1>4, OneMoves
<1> QED
  BY <1>2, <1>3, <1>5 DEF h

LEMMA RecordVerificationEffect ==
  ASSUME NEW g, GraphOK(g), NEW t \in In(g, "verifying"), NEW v \in {"passed", "failed"}
  PROVE  LET h == RecordVerification(g, t, v) IN
         /\ GraphOK(h) /\ OnlyAt(g, h, t) /\ h[t].status = "verifying"
         /\ h[t].approval_granted = g[t].approval_granted
<1> DEFINE h == RecordVerification(g, t, v)
<1>0. t \in DOMAIN g /\ g[t].status = "verifying" /\ WellMade(g[t])
  BY MembersWellMade DEF GraphOK, In
<1>1. /\ DOMAIN h = DOMAIN g /\ \A u \in DOMAIN g \ {t} : h[u] = g[u]
      /\ h[t] = [g[t] EXCEPT !.verification = v]
  BY <1>0 DEF RecordVerification
<1> HIDE DEF h
<1>2. /\ h[t] \in TaskState /\ h[t].status = "verifying" /\ h[t].attempt = g[t].attempt
      /\ h[t].approval_granted = g[t].approval_granted /\ h[t].result = g[t].result
  BY <1>0, <1>1 DEF WellMade, TaskState, TaskStatus
<1>3. OnlyAt(g, h, t) /\ WellMade(h[t])
  BY <1>0, <1>1, <1>2 DEF OnlyAt, WellMade
<1>4. g[t].status \in Begun \ {"succeeded"} /\ h[t].status \in Begun \ {"succeeded"}
  BY <1>0, <1>2 DEF Begun
<1>5. GraphOK(h)
  BY <1>0, <1>3, <1>4, OneMoves
<1> QED
  BY <1>2, <1>3, <1>5 DEF h

LEMMA RetryEffect ==
  ASSUME NEW g, GraphOK(g), NEW t \in In(g, "running") \cup In(g, "verifying"),
         NEW r \in {"ok", "bad"}, NEW v \in {"none", "failed"}
  PROVE  LET h == Retry(g, t, r, v) IN
         /\ GraphOK(h) /\ OnlyAt(g, h, t) /\ h[t].status = "ready"
         /\ h[t].approval_granted = g[t].approval_granted
<1> DEFINE h == Retry(g, t, r, v)
<1>0. t \in DOMAIN g /\ g[t].status \in {"running", "verifying"} /\ WellMade(g[t])
  BY MembersWellMade DEF GraphOK, In
<1>1. /\ DOMAIN h = DOMAIN g /\ \A u \in DOMAIN g \ {t} : h[u] = g[u]
      /\ h[t] = [g[t] EXCEPT !.status = "ready", !.result = r, !.verification = v]
  BY <1>0 DEF Retry
<1> HIDE DEF h
<1>2. /\ h[t] \in TaskState /\ h[t].status = "ready" /\ h[t].attempt = g[t].attempt
      /\ h[t].approval_granted = g[t].approval_granted
  BY <1>0, <1>1 DEF WellMade, TaskState, TaskStatus
<1>3. OnlyAt(g, h, t) /\ WellMade(h[t])
  BY <1>1, <1>2 DEF OnlyAt, WellMade
<1>4. g[t].status \in Begun \ {"succeeded"} /\ h[t].status \in Begun \ {"succeeded"}
  BY <1>0, <1>2 DEF Begun
<1>5. GraphOK(h)
  BY <1>0, <1>3, <1>4, OneMoves
<1> QED
  BY <1>2, <1>3, <1>5 DEF h

\* t has come to an end in h, and the tasks that waited may have moved.
EndedIn(g, h, t, status) ==
  /\ DOMAIN h = DOMAIN g /\ h[t].status = status
  /\ \A u \in DOMAIN g :
       /\ h[u].attempt = g[u].attempt /\ h[u].approval_granted = g[u].approval_granted
       /\ \/ u = t \/ h[u].status = g[u].status
          \/ g[u].status = "pending" /\ h[u].status \in {"ready", "blocked"}

\* The two ends of a task: its own new state, then the tasks that wait.
LEMMA EndEffect ==
  ASSUME NEW g, GraphOK(g), NEW k, NEW t \in DOMAIN g, OnlyAt(g, k, t), WellMade(k[t]),
         k[t].approval_granted = g[t].approval_granted,
         g[t].status \in {"waiting_approval", "running", "verifying"},
         k[t].status \in {"succeeded", "failed"}
  PROVE  GraphOK(Refresh(k)) /\ EndedIn(g, Refresh(k), t, k[t].status)
<1>1. Loads(g) /\ \A u \in DOMAIN g : WellMade(g[u])
  BY MembersWellMade DEF GraphOK
<1>2. /\ DOMAIN k = DOMAIN g /\ g # NoGraph
      /\ \A u \in DOMAIN g : /\ WellMade(k[u])
                             /\ g[u].status = "succeeded" => k[u].status = "succeeded"
                             /\ k[u].status \in Begun => g[u].status \in Begun
  BY <1>1 DEF OnlyAt, Begun, NoGraph
<1>3. Loads(k)
  BY <1>1, <1>2, LoadsOn
<1>4. GraphOK(Refresh(k)) /\ Settles(k, Refresh(k))
  BY <1>3, RefreshEffect
<1> DEFINE h == Refresh(k)
<1> HIDE DEF h
<1>5. EndedIn(g, h, t, k[t].status)
  BY <1>4 DEF Settles, OnlyAt, EndedIn, h
<1> QED
  BY <1>4, <1>5 DEF h

LEMMA SucceedEffect ==
  ASSUME NEW g, GraphOK(g), NEW t \in In(g, "verifying"), g[t].verification = "passed"
  PROVE  GraphOK(Succeed(g, t)) /\ EndedIn(g, Succeed(g, t), t, "succeeded")
<1> DEFINE k == [g EXCEPT ![t].status = "succeeded"]
<1>0. t \in DOMAIN g /\ g[t].status = "verifying" /\ WellMade(g[t])
  BY MembersWellMade DEF GraphOK, In
<1>1. /\ DOMAIN k = DOMAIN g /\ \A u \in DOMAIN g \ {t} : k[u] = g[u]
      /\ k[t] = [g[t] EXCEPT !.status = "succeeded"]
  BY <1>0
<1>a. Succeed(g, t) = Refresh(k)
  BY DEF Succeed
<1> HIDE DEF k
<1>2. /\ k[t] \in TaskState /\ k[t].status = "succeeded" /\ k[t].attempt = g[t].attempt
      /\ k[t].approval_granted = g[t].approval_granted
      /\ k[t].result = "ok" /\ k[t].verification = "passed"
  BY <1>0, <1>1 DEF WellMade, TaskState, TaskStatus
<1>3. OnlyAt(g, k, t) /\ WellMade(k[t])
  BY <1>1, <1>2 DEF OnlyAt, WellMade
<1>4. GraphOK(Refresh(k)) /\ EndedIn(g, Refresh(k), t, k[t].status)
  BY <1>0, <1>2, <1>3, EndEffect
<1> QED
  BY <1>2, <1>4, <1>a

LEMMA FailEffect ==
  ASSUME NEW g, GraphOK(g), NEW t \in DOMAIN g,
         g[t].status \in {"waiting_approval", "running", "verifying"},
         NEW r \in {"none", "ok", "bad"}, NEW v \in {"none", "failed"}
  PROVE  GraphOK(Fail(g, t, r, v)) /\ EndedIn(g, Fail(g, t, r, v), t, "failed")
<1> DEFINE k == [g EXCEPT ![t].status = "failed", ![t].result = r, ![t].verification = v]
<1>0. WellMade(g[t])
  BY MembersWellMade DEF GraphOK
<1>1. /\ DOMAIN k = DOMAIN g /\ \A u \in DOMAIN g \ {t} : k[u] = g[u]
      /\ k[t] = [g[t] EXCEPT !.status = "failed", !.result = r, !.verification = v]
  OBVIOUS
<1>a. Fail(g, t, r, v) = Refresh(k)
  BY DEF Fail
<1> HIDE DEF k
<1>2. /\ k[t] \in TaskState /\ k[t].status = "failed" /\ k[t].attempt = g[t].attempt
      /\ k[t].approval_granted = g[t].approval_granted
  BY <1>0, <1>1 DEF WellMade, TaskState, TaskStatus
<1>3. OnlyAt(g, k, t) /\ WellMade(k[t])
  BY <1>1, <1>2 DEF OnlyAt, WellMade
<1>4. GraphOK(Refresh(k)) /\ EndedIn(g, Refresh(k), t, k[t].status)
  BY <1>2, <1>3, EndEffect
<1> QED
  BY <1>2, <1>4, <1>a

LEMMA StartEffect ==
  ASSUME NEW g, GraphOK(g), NEW S \in SUBSET In(g, "ready")
  PROVE  LET h == Start(g, S) IN
         /\ GraphOK(h) /\ DOMAIN h = DOMAIN g
         /\ \A t \in DOMAIN g \ S : h[t] = g[t]
         /\ \A t \in S : /\ h[t].status = "running" /\ h[t].attempt = g[t].attempt + 1
                         /\ h[t].approval_granted = g[t].approval_granted
<1> DEFINE h == Start(g, S)
<1>0. /\ \A t \in DOMAIN g : WellMade(g[t])
      /\ \A t \in S : t \in DOMAIN g /\ g[t].status = "ready"
  BY MembersWellMade DEF GraphOK, In
<1>1. /\ DOMAIN h = DOMAIN g /\ \A t \in DOMAIN g \ S : h[t] = g[t]
      /\ \A t \in S : h[t] = [g[t] EXCEPT !.status = "running", !.attempt = @ + 1,
                                          !.result = "none", !.verification = "none"]
  BY <1>0 DEF Start
<1>a. g = NoGraph => h = NoGraph
  BY DEF Start, NoGraph
<1> HIDE DEF h
<1>2. \A t \in S :
        /\ h[t] \in TaskState /\ h[t].status = "running" /\ h[t].attempt = g[t].attempt + 1
        /\ h[t].approval_granted = g[t].approval_granted /\ h[t].attempt > 0
  <2> SUFFICES ASSUME NEW t \in S
               PROVE  /\ h[t] \in TaskState /\ h[t].status = "running"
                      /\ h[t].attempt = g[t].attempt + 1
                      /\ h[t].approval_granted = g[t].approval_granted /\ h[t].attempt > 0
    OBVIOUS
  <2>1. g[t] \in TaskState /\ g[t].attempt \in Nat /\ "running" \in TaskStatus
    BY <1>0 DEF WellMade, TaskState, TaskStatus
  <2>2. h[t] = [g[t] EXCEPT !.status = "running", !.attempt = g[t].attempt + 1,
                            !.result = "none", !.verification = "none"]
    BY <1>1
  <2>3. h[t].attempt = g[t].attempt + 1 /\ g[t].attempt + 1 \in Nat /\ h[t].attempt > 0
    BY <2>1, <2>2 DEF TaskState
  <2>4. h[t].status = "running" /\ h[t].approval_granted = g[t].approval_granted
    BY <2>1, <2>2 DEF TaskState
  <2>5. h[t] \in TaskState
    BY <2>1, <2>2, <2>3 DEF TaskState
  <2> QED
    BY <2>3, <2>4, <2>5
<1>3. \A t \in DOMAIN g :
        /\ WellMade(h[t])
        /\ g[t].status = "succeeded" => h[t].status = "succeeded"
        /\ h[t].status \in Begun => g[t].status \in Begun
        /\ h[t].status = "pending" => g[t].status = "pending"
        /\ h[t].status \in FailedDependencies => g[t].status \in FailedDependencies
        /\ h[t].status = "succeeded" => g[t].status = "succeeded"
  <2> TAKE t \in DOMAIN g
  <2>1. CASE t \in S
    BY <1>0, <1>2, <2>1 DEF WellMade, Begun, FailedDependencies
  <2>2. CASE t \notin S
    <3>1. h[t] = g[t]
      BY <1>1, <2>2
    <3> QED
      BY <1>0, <3>1
  <2> QED
    BY <2>1, <2>2
<1>4. Loads(h)
  BY <1>1, <1>3, <1>a, LoadsOn DEF GraphOK
<1>5. Stable(h)
  BY <1>1, <1>3, StableOn
<1> QED
  BY <1>1, <1>2, <1>4, <1>5 DEF GraphOK, h

LEMMA BeginVerificationEffect ==
  ASSUME NEW g, GraphOK(g), NEW S \in SUBSET In(g, "running")
  PROVE  LET h == BeginVerification(g, S) IN
         /\ GraphOK(h) /\ DOMAIN h = DOMAIN g
         /\ \A t \in DOMAIN g \ S : h[t] = g[t]
         /\ \A t \in S : /\ h[t].status = "verifying" /\ h[t].attempt = g[t].attempt
                         /\ h[t].approval_granted = g[t].approval_granted
<1> DEFINE h == BeginVerification(g, S)
<1>0. /\ \A t \in DOMAIN g : WellMade(g[t])
      /\ \A t \in S : t \in DOMAIN g /\ g[t].status = "running"
  BY MembersWellMade DEF GraphOK, In
<1>1. /\ DOMAIN h = DOMAIN g /\ \A t \in DOMAIN g \ S : h[t] = g[t]
      /\ \A t \in S : h[t] = [g[t] EXCEPT !.status = "verifying", !.result = "ok",
                                          !.verification = "none"]
  BY <1>0 DEF BeginVerification
<1>a. g = NoGraph => h = NoGraph
  BY DEF BeginVerification, NoGraph
<1> HIDE DEF h
<1>2. \A t \in S :
        /\ h[t] \in TaskState /\ h[t].status = "verifying" /\ h[t].attempt = g[t].attempt
        /\ h[t].approval_granted = g[t].approval_granted /\ h[t].result = "ok"
  <2> TAKE t \in S
  <2>1. g[t] \in TaskState /\ "verifying" \in TaskStatus
    BY <1>0 DEF WellMade, TaskStatus
  <2>2. h[t] = [g[t] EXCEPT !.status = "verifying", !.result = "ok", !.verification = "none"]
    BY <1>1
  <2>3. h[t] \in TaskState
    BY <2>1, <2>2 DEF TaskState
  <2>4. /\ h[t].status = "verifying" /\ h[t].attempt = g[t].attempt
        /\ h[t].approval_granted = g[t].approval_granted /\ h[t].result = "ok"
    BY <2>1, <2>2 DEF TaskState
  <2> QED
    BY <2>3, <2>4
<1>3. \A t \in DOMAIN g :
        /\ WellMade(h[t])
        /\ g[t].status = "succeeded" => h[t].status = "succeeded"
        /\ h[t].status \in Begun => g[t].status \in Begun
        /\ h[t].status = "pending" => g[t].status = "pending"
        /\ h[t].status \in FailedDependencies => g[t].status \in FailedDependencies
        /\ h[t].status = "succeeded" => g[t].status = "succeeded"
  <2> TAKE t \in DOMAIN g
  <2>1. CASE t \in S
    BY <1>0, <1>2, <2>1 DEF WellMade, Begun, FailedDependencies
  <2>2. CASE t \notin S
    <3>1. h[t] = g[t]
      BY <1>1, <2>2
    <3> QED
      BY <1>0, <3>1
  <2> QED
    BY <2>1, <2>2
<1>4. Loads(h)
  BY <1>1, <1>3, <1>a, LoadsOn DEF GraphOK
<1>5. Stable(h)
  BY <1>1, <1>3, StableOn
<1> QED
  BY <1>1, <1>2, <1>4, <1>5 DEF GraphOK, h

\* What an interrupted process left open is ready again or blocked.
LEMMA RecoverEffect ==
  ASSUME NEW g, GraphOK(g)
  PROVE  LET h == RecoverInflight(g) IN
         /\ GraphOK(h) /\ DOMAIN h = DOMAIN g
         /\ \A t \in DOMAIN g :
              /\ h[t].attempt = g[t].attempt /\ h[t].approval_granted = g[t].approval_granted
              /\ h[t].status \notin {"running", "waiting_approval"}
              /\ \/ h[t].status = g[t].status
                 \/ g[t].status = "pending" /\ h[t].status = "ready"
                 \/ h[t].status = "blocked"
                 \/ t \in replaySafe /\ h[t].status = "ready"
<1> DEFINE k == [t \in DOMAIN g |->
                   IF t \in Unresolved(g) THEN [g[t] EXCEPT !.status = "blocked"]
                   ELSE IF g[t].status = "running"
                   THEN [g[t] EXCEPT !.status = "ready", !.result = "none",
                                     !.verification = "none"]
                   ELSE g[t]]
<1>0. Loads(g) /\ \A t \in DOMAIN g : WellMade(g[t])
  BY MembersWellMade DEF GraphOK
<1>1. /\ DOMAIN k = DOMAIN g
      /\ \A t \in DOMAIN g :
           k[t] = IF t \in Unresolved(g) THEN [g[t] EXCEPT !.status = "blocked"]
                  ELSE IF g[t].status = "running"
                  THEN [g[t] EXCEPT !.status = "ready", !.result = "none",
                                    !.verification = "none"]
                  ELSE g[t]
  OBVIOUS
<1>a. g = NoGraph => k = NoGraph
  BY DEF NoGraph
<1>b. RecoverInflight(g) = Refresh(k)
  BY DEF RecoverInflight
<1> HIDE DEF k
<1>2. ASSUME NEW t \in DOMAIN g
      PROVE  /\ WellMade(k[t])
             /\ k[t].attempt = g[t].attempt /\ k[t].approval_granted = g[t].approval_granted
             /\ k[t].status \notin {"running", "waiting_approval"}
             /\ \/ k[t].status = g[t].status
                \/ g[t].status \in {"waiting_approval", "running"} /\ k[t].status = "blocked"
                \/ g[t].status = "running" /\ t \in replaySafe /\ k[t].status = "ready"
  <2>0. g[t] \in TaskState /\ WellMade(g[t])
    BY <1>0 DEF WellMade
  <2>1. CASE t \in Unresolved(g)
    <3>1. k[t] = [g[t] EXCEPT !.status = "blocked"]
      BY <1>1, <2>1
    <3>2. k[t] \in TaskState /\ k[t].status = "blocked"
      BY <2>0, <3>1 DEF TaskState, TaskStatus
    <3>3. k[t].attempt = g[t].attempt /\ k[t].approval_granted = g[t].approval_granted
      BY <2>0, <3>1 DEF TaskState
    <3>4. g[t].status \in {"waiting_approval", "running"}
      BY <2>1 DEF Unresolved, In
    <3> QED
      BY <3>2, <3>3, <3>4 DEF WellMade
  <2>2. CASE t \notin Unresolved(g) /\ g[t].status = "running"
    <3>1. k[t] = [g[t] EXCEPT !.status = "ready", !.result = "none", !.verification = "none"]
      BY <1>1, <2>2
    <3>2. k[t] \in TaskState /\ k[t].status = "ready"
      BY <2>0, <3>1 DEF TaskState, TaskStatus
    <3>3. k[t].attempt = g[t].attempt /\ k[t].approval_granted = g[t].approval_granted
      BY <2>0, <3>1 DEF TaskState
    <3>4. t \in replaySafe
      BY <2>2 DEF Unresolved, In
    <3> QED
      BY <2>2, <3>2, <3>3, <3>4 DEF WellMade
  <2>3. CASE t \notin Unresolved(g) /\ g[t].status # "running"
    <3>1. k[t] = g[t] /\ g[t].status # "waiting_approval"
      BY <1>1, <2>3 DEF Unresolved, In
    <3> QED
      BY <2>0, <2>3, <3>1
  <2> QED
    BY <2>1, <2>2, <2>3
<1>3. \A t \in DOMAIN g : /\ WellMade(k[t])
                          /\ g[t].status = "succeeded" => k[t].status = "succeeded"
                          /\ k[t].status \in Begun => g[t].status \in Begun
  BY <1>2 DEF Begun
<1>4. Loads(k)
  BY <1>0, <1>1, <1>3, <1>a, LoadsOn
<1>5. GraphOK(Refresh(k)) /\ Settles(k, Refresh(k))
  BY <1>4, RefreshEffect
<1> DEFINE h == Refresh(k)
<1> HIDE DEF h
<1>6. /\ DOMAIN h = DOMAIN g
      /\ \A t \in DOMAIN g :
           /\ h[t].attempt = g[t].attempt /\ h[t].approval_granted = g[t].approval_granted
           /\ h[t].status \notin {"running", "waiting_approval"}
           /\ \/ h[t].status = g[t].status
              \/ g[t].status = "pending" /\ h[t].status = "ready"
              \/ h[t].status = "blocked"
              \/ t \in replaySafe /\ h[t].status = "ready"
  <2>1. DOMAIN h = DOMAIN g
    BY <1>1, <1>5 DEF Settles, h
  <2>2. ASSUME NEW t \in DOMAIN g
        PROVE  /\ h[t].attempt = k[t].attempt /\ h[t].approval_granted = k[t].approval_granted
               /\ \/ h[t].status = k[t].status
                  \/ k[t].status = "pending" /\ h[t].status \in {"ready", "blocked"}
    BY <1>1, <1>5 DEF Settles, h
  <2> QED
    BY <1>2, <2>1, <2>2
<1> QED
  BY <1>5, <1>6, <1>b DEF h

-----------------------------------------------------------------------------
(* The calls of a plan                                                      *)

\* What may become of a call: it stays the same call, and a failure stays one.
SameCall(x, y) ==
  /\ y \in Call /\ y.task = x.task /\ y.attempt = x.attempt /\ y.by = x.by
  /\ Failed(x) => Failed(y)

\* f says what became of each call, h what became of the graph.  A task may be
\* called again only if all its calls have failed, and is done by its own call.
LEMMA CallsGoOn ==
  ASSUME NEW g, NEW h, NEW C, NEW A, NEW B, CallsOK(g, C, A),
         A \subseteq B, B \subseteq Tasks \cup {Review},
         NEW f, DOMAIN f = C, \A x \in C : SameCall(x, f[x]),
         DOMAIN h = DOMAIN g,
         \A t \in DOMAIN g :
           /\ h[t].attempt = g[t].attempt
           /\ h[t].approval_granted => g[t].approval_granted \/ t \in B
           /\ h[t].status \in Callable =>
                \/ t \in replaySafe \/ g[t].status \in Callable
                \/ \A x \in C : x.task = t => Failed(f[x])
           /\ h[t].status \in {"verifying", "succeeded"} =>
                \E x \in C : x.task = t /\ x.attempt = g[t].attempt /\ f[x].state = "ok"
  PROVE  CallsOK(h, {f[x] : x \in C}, B)
<1> DEFINE D == {f[x] : x \in C}
<1>1. \A y \in D : \E x \in C : y = f[x] /\ SameCall(x, y)
  OBVIOUS
<1>2. D \subseteq Call
  BY <1>1 DEF SameCall
<1>3. \A y, z \in D : y.task = z.task /\ y.attempt = z.attempt => y = z
  BY <1>1 DEF SameCall, CallsOK
<1>4. \A y, z \in D :
        y.task = z.task /\ y.attempt < z.attempt /\ y.task \notin replaySafe => Failed(y)
  BY <1>1 DEF SameCall, CallsOK
<1>5. \A y \in D : y.task \in requiresApproval => y.task \in B
  BY <1>1 DEF SameCall, CallsOK
<1>6. ASSUME NEW y \in D, y.task \in DOMAIN h
      PROVE  /\ y.attempt =< h[y.task].attempt
             /\ \/ y.task \in replaySafe \/ Failed(y)
                \/ y.attempt = h[y.task].attempt /\ h[y.task].status \notin Callable
  <2>1. PICK x \in C : y = f[x] /\ SameCall(x, y)
    BY <1>1
  <2>2. x.task = y.task /\ x.attempt = y.attempt /\ (Failed(x) => Failed(y))
    BY <2>1 DEF SameCall
  <2>3. /\ x.attempt =< g[x.task].attempt
        /\ \/ x.task \in replaySafe \/ Failed(x)
           \/ x.attempt = g[x.task].attempt /\ g[x.task].status \notin Callable
    BY <1>6, <2>2 DEF CallsOK
  <2>4. h[x.task].status \in Callable =>
          \/ x.task \in replaySafe \/ g[x.task].status \in Callable \/ Failed(y)
    BY <1>6, <2>1, <2>2
  <2>5. h[x.task].attempt = g[x.task].attempt
    BY <1>6, <2>2
  <2> QED
    BY <2>2, <2>3, <2>4, <2>5
<1>7. ASSUME NEW t \in DOMAIN h
      PROVE  /\ h[t].approval_granted => t \in B
             /\ h[t].status \in {"verifying", "succeeded"} => Own(D, t, h[t].attempt)
  <2>1. h[t].approval_granted => t \in B
    BY DEF CallsOK
  <2>2. ASSUME h[t].status \in {"verifying", "succeeded"} PROVE Own(D, t, h[t].attempt)
    <3>1. PICK x \in C : x.task = t /\ x.attempt = g[t].attempt /\ f[x].state = "ok"
      BY <2>2
    <3>2. f[x] \in D /\ f[x].task = t /\ f[x].attempt = h[t].attempt
      BY <3>1 DEF SameCall
    <3> QED
      BY <3>1, <3>2 DEF Own
  <2> QED
    BY <2>1, <2>2
<1> QED
  BY <1>2, <1>3, <1>4, <1>5, <1>6, <1>7 DEF CallsOK

\* The graph moves and the calls stay.
LEMMA CallsStay ==
  ASSUME NEW g, NEW h, NEW C, NEW A, NEW B, CallsOK(g, C, A),
         A \subseteq B, B \subseteq Tasks \cup {Review}, DOMAIN h = DOMAIN g,
         \A t \in DOMAIN g :
           /\ h[t].attempt = g[t].attempt
           /\ h[t].approval_granted => g[t].approval_granted \/ t \in B
           /\ h[t].status \in Callable =>
                \/ t \in replaySafe \/ g[t].status \in Callable
                \/ \A x \in C : x.task = t => Failed(x)
           /\ h[t].status \in {"verifying", "succeeded"} =>
                \/ g[t].status \in {"verifying", "succeeded"} \/ Own(C, t, g[t].attempt)
  PROVE  CallsOK(h, C, B)
<1>1. ASSUME NEW y \in C, y.task \in DOMAIN h
      PROVE  /\ y.attempt =< h[y.task].attempt
             /\ \/ y.task \in replaySafe \/ Failed(y)
                \/ y.attempt = h[y.task].attempt /\ h[y.task].status \notin Callable
  BY <1>1 DEF CallsOK
<1>2. ASSUME NEW t \in DOMAIN h
      PROVE  /\ h[t].approval_granted => t \in B
             /\ h[t].status \in {"verifying", "succeeded"} => Own(C, t, h[t].attempt)
  BY DEF CallsOK
<1>3. \A x \in C : x.task \in requiresApproval => x.task \in B
  BY DEF CallsOK
<1> QED
  BY <1>1, <1>2, <1>3 DEF CallsOK

\* A plan that is dropped takes nothing back.
LEMMA CallsOfNothing ==
  ASSUME NEW g, NEW C, NEW A, CallsOK(g, C, A)
  PROVE  CallsOK(NoGraph, C, A)
BY DEF CallsOK, NoGraph

\* The calls of controller c for the tasks of S that are in state old.
LEMMA BecameEffect ==
  ASSUME NEW g, CallsOK(g, calls, asked), NEW c \in Controllers, NEW S,
         NEW new \in {"ok", "bad", "lost"}
  PROVE  /\ CallsOK(g, Became(c, S, "running", new), asked)
         /\ \A x \in calls : x.by # c \/ x.state # "running" => x \in Became(c, S, "running", new)
         /\ \A x \in calls : x.by = c /\ x.task \in S /\ x.state = "running" =>
              \E y \in Became(c, S, "running", new) :
                y.task = x.task /\ y.attempt = x.attempt /\ y.by = c /\ y.state = new
         /\ \A x \in calls : x.task \notin S => x \in Became(c, S, "running", new)
<1> DEFINE Hit(x) == x.by = c /\ x.task \in S /\ x.state = "running"
           f == [x \in calls |-> IF Hit(x) THEN [x EXCEPT !.state = new] ELSE x]
<1>1. DOMAIN f = calls /\ \A x \in calls : f[x] = IF Hit(x) THEN [x EXCEPT !.state = new] ELSE x
  OBVIOUS
<1>2. Became(c, S, "running", new) = {f[x] : x \in calls}
  BY DEF Became
<1> HIDE DEF f
<1>3. ASSUME NEW x \in calls
      PROVE  /\ SameCall(x, f[x])
             /\ ~ Hit(x) => f[x] = x
             /\ Hit(x) => f[x].state = new
  <2>0. x \in Call
    BY DEF CallsOK
  <2>1. CASE Hit(x)
    <3>1. f[x] = [x EXCEPT !.state = new]
      BY <1>1, <2>1
    <3>2. f[x] \in Call
      BY <2>0, <3>1 DEF Call
    <3>3. f[x].task = x.task /\ f[x].attempt = x.attempt /\ f[x].by = x.by /\ f[x].state = new
      BY <2>0, <3>1 DEF Call
    <3>4. ~ Failed(x)
      BY <2>1 DEF Failed
    <3> QED
      BY <2>1, <3>2, <3>3, <3>4 DEF SameCall
  <2>2. CASE ~ Hit(x)
    BY <1>1, <2>0, <2>2 DEF SameCall
  <2> QED
    BY <2>1, <2>2
<1>4. \A t \in DOMAIN g : g[t].status \in {"verifying", "succeeded"} =>
        \E x \in calls : x.task = t /\ x.attempt = g[t].attempt /\ f[x].state = "ok"
  <2> SUFFICES ASSUME NEW t \in DOMAIN g, g[t].status \in {"verifying", "succeeded"}
               PROVE  \E x \in calls : x.task = t /\ x.attempt = g[t].attempt /\ f[x].state = "ok"
    OBVIOUS
  <2>1. PICK x \in calls : x.task = t /\ x.attempt = g[t].attempt /\ x.state = "ok"
    BY DEF CallsOK, Own
  <2>2. f[x] = x
    BY <1>3, <2>1
  <2> QED
    BY <2>1, <2>2
<1>5. asked \subseteq Tasks \cup {Review}
  BY DEF CallsOK
<1>6. CallsOK(g, {f[x] : x \in calls}, asked)
  BY <1>1, <1>3, <1>4, <1>5, CallsGoOn
<1>7. \A x \in calls : Hit(x) =>
        /\ f[x] \in {f[y] : y \in calls}
        /\ f[x].task = x.task /\ f[x].attempt = x.attempt /\ f[x].by = c /\ f[x].state = new
  BY <1>3 DEF SameCall
<1>8. \A x \in calls : ~ Hit(x) => x \in {f[y] : y \in calls}
  BY <1>3
<1> QED
  BY <1>2, <1>6, <1>7, <1>8

-----------------------------------------------------------------------------
(* Saves                                                                    *)

\* The request is fixed, and the bookkeeping keeps its types.
Frame ==
  /\ request' = request
  /\ DOMAIN pc' = Controllers /\ DOMAIN batch' = Controllers
  /\ lease' \in Controllers \cup {None}
  /\ fresh' \subseteq Controllers /\ cancelling' \subseteq Controllers
  /\ \A c \in Controllers : DOMAIN batch'[c] \subseteq Tasks

LEMMA LimitsTyped ==
  ASSUME request \in Requests
  PROVE  /\ request.max_cycles \in Nat \ {0} /\ request.max_plan_revisions \in Nat
         /\ request.plans \subseteq SUBSET Tasks
BY Limits

\* A save makes every other copy stale, so only the one who saved has to fit.
LEMMA SaveKept ==
  ASSUME IInv, NEW c \in Controllers, NEW s, NEW next,
         repo' = s, fresh' = {c}, pc' = [pc EXCEPT ![c] = next], Frame,
         SnapOK(s, request), CallsOK(s.tasks, calls', asked'),
         Fit(s, next, batch'[c], calls', c)
  PROVE  IInv'
<1>1. repo' = s /\ fresh' = {c} /\ pc'[c] = next
  BY DEF IInv
<1>2. \A d \in fresh' : Fit(repo, pc[d], batch[d], calls, d)'
  BY <1>1
<1>3. SnapOK(repo, request)'
  BY <1>1 DEF Frame
<1>4. CallsOK(repo.tasks, calls, asked)'
  BY <1>1
<1> QED
  BY <1>2, <1>3, <1>4 DEF IInv, Frame

\* Who does not save has to fit what is stored, and leaves the others alone.
LEMMA NoSaveKept ==
  ASSUME IInv, NEW c \in Controllers, Frame, repo' = repo, asked' = asked,
         CallsOK(repo.tasks, calls', asked),
         fresh' \subseteq fresh \cup {c},
         \A d \in Controllers \ {c} : /\ pc'[d] = pc[d] /\ batch'[d] = batch[d]
                                      /\ \A x \in calls : x.by = d => x \in calls',
         c \in fresh' => Fit(repo, pc'[c], batch'[c], calls', c)
  PROVE  IInv'
<1>1. ASSUME NEW d \in fresh', d # c PROVE Fit(repo, pc'[d], batch'[d], calls', d)
  <2>1. d \in fresh /\ d \in Controllers
    BY <1>1 DEF Frame
  <2>2. Fit(repo, pc[d], batch[d], calls, d) /\ pc'[d] = pc[d] /\ batch'[d] = batch[d]
    BY <1>1, <2>1 DEF IInv
  <2>3. \A x \in calls : x.by = d => x \in calls'
    BY <1>1, <2>1
  <2>4. \A t \in DOMAIN batch[d] :
          OutcomeFits(repo.tasks, pc[d], calls, d, t, batch[d][t])
            => OutcomeFits(repo.tasks, pc[d], calls', d, t, batch[d][t])
    BY <2>3 DEF OutcomeFits
  <2> QED
    BY <2>2, <2>4 DEF Fit
<1>2. \A d \in fresh' : Fit(repo, pc[d], batch[d], calls, d)'
  BY <1>1
<1>3. SnapOK(repo, request)'
  BY DEF IInv, Frame
<1>4. CallsOK(repo.tasks, calls, asked)'
  OBVIOUS
<1> QED
  BY <1>2, <1>3, <1>4 DEF IInv, Frame

\* Somebody writes the end, or the answer of a human, from outside.
LEMMA OutsideKept ==
  ASSUME IInv, Frame, fresh' = {}, SnapOK(repo', request),
         CallsOK(repo'.tasks, calls', asked')
  PROVE  IInv'
<1>1. SnapOK(repo, request)' /\ CallsOK(repo.tasks, calls, asked)'
  BY DEF Frame
<1> QED
  BY <1>1 DEF IInv, Frame

\* A new status and reason.
LEMMA StopEffect ==
  ASSUME NEW s, NEW l, SnapOK(s, l), NEW status \in Statuses \ {"completed"},
         NEW reason, reason # "deadlock"
  PROVE  LET z == Stop(s, status, reason) IN
         /\ SnapOK(z, l) /\ z.status = status /\ z.tasks = s.tasks /\ z.cycle = s.cycle
         /\ z.history = s.history /\ z.revision = s.revision /\ z.pending = s.pending
<1> DEFINE z == Stop(s, status, reason)
<1>1. /\ DOMAIN z = Fields /\ z.status = status /\ z.reason = reason
      /\ z.tasks = s.tasks /\ z.cycle = s.cycle /\ z.revision = s.revision
      /\ z.history = s.history /\ z.pending = s.pending /\ z.approved = s.approved
  BY DEF Stop, SnapOK, Fields
<1> HIDE DEF z
<1>2. SnapOK(z, l)
  BY <1>1 DEF SnapOK
<1> QED
  BY <1>1, <1>2 DEF z

\* A new status, and a new state of the same tasks.
LEMMA WithEffect ==
  ASSUME NEW s, NEW l, SnapOK(s, l), NEW status \in Statuses \ {"completed"},
         NEW reason, reason # "deadlock",
         NEW h, GraphOK(h), DOMAIN h = DOMAIN s.tasks
  PROVE  LET z == With(Stop(s, status, reason), h) IN
         /\ SnapOK(z, l) /\ z.status = status /\ z.tasks = h /\ z.cycle = s.cycle
         /\ z.pending = s.pending
<1> DEFINE z == With(Stop(s, status, reason), h)
<1>1. /\ DOMAIN z = Fields /\ z.status = status /\ z.reason = reason
      /\ z.tasks = h /\ z.cycle = s.cycle /\ z.revision = s.revision
      /\ z.history = s.history /\ z.pending = s.pending /\ z.approved = s.approved
  BY DEF With, Stop, SnapOK, Fields
<1> HIDE DEF z
<1>2. SnapOK(z, l)
  BY <1>1 DEF SnapOK
<1> QED
  BY <1>1, <1>2 DEF z

\* The end of a run, by a mark, a cancellation or a rejection.
LEMMA CancelAllSound ==
  ASSUME NEW g, NEW C, NEW A, GraphOK(g), CallsOK(g, C, A)
  PROVE  GraphOK(CancelAll(g)) /\ DOMAIN CancelAll(g) = DOMAIN g /\ CallsOK(CancelAll(g), C, A)
<1>1. /\ GraphOK(CancelAll(g)) /\ DOMAIN CancelAll(g) = DOMAIN g
      /\ \A t \in DOMAIN g :
           /\ CancelAll(g)[t].attempt = g[t].attempt
           /\ CancelAll(g)[t].approval_granted = g[t].approval_granted
           /\ CancelAll(g)[t].status = IF IsTerminal(g[t].status) THEN g[t].status ELSE "cancelled"
  BY CancelAllEffect DEF GraphOK
<1> DEFINE h == CancelAll(g)
<1> HIDE DEF h
<1>2. \A t \in DOMAIN g :
        /\ h[t].status \notin Callable
        /\ h[t].status \in {"verifying", "succeeded"} => g[t].status \in {"verifying", "succeeded"}
  BY <1>1 DEF IsTerminal, Callable, h
<1>3. A \subseteq Tasks \cup {Review}
  BY DEF CallsOK
<1>4. CallsOK(h, C, A)
  BY <1>1, <1>2, <1>3, CallsStay DEF h
<1> QED
  BY <1>1, <1>4 DEF h

\* At an await that asks nothing of the graph.
Plain == {"begin", "plan", "done", "leave", "idle", "claim", "claim_new"} \cup Marks

LEMMA PlainFits ==
  ASSUME NEW s, NEW p \in Plain, NEW out, NEW C, NEW c, s.status \in Terminal => p \in {"done", "leave"}
  PROVE  Fit(s, p, out, C, c)
BY DEF Fit, Plain, Planned, Working, Marks

\* A save that leaves the batch and the histories alone.
LEMMA LocalSaveKept ==
  ASSUME IInv, NEW c \in Controllers, NEW s, NEW next, Save(c, s, next), UNCHANGED local,
         SnapOK(s, request), CallsOK(s.tasks, calls, asked),
         Fit(s, next, batch[c], calls, c)
  PROVE  IInv'
<1>1. /\ repo' = s /\ fresh' = {c} /\ pc' = [pc EXCEPT ![c] = next]
      /\ request' = request /\ lease' = lease /\ batch' = batch
      /\ cancelling' = cancelling /\ calls' = calls /\ asked' = asked
  BY DEF Save, local
<1>2. Frame
  BY <1>1 DEF IInv, Frame
<1> QED
  BY <1>1, <1>2, SaveKept

\* The same when the save is the controller's last.
LEMMA LastSaveKept ==
  ASSUME IInv, NEW c \in Controllers, NEW s, NEW next \in {"done", "leave"},
         Save(c, s, next), UNCHANGED local,
         SnapOK(s, request), CallsOK(s.tasks, calls, asked)
  PROVE  IInv'
<1>1. next \in Plain
  BY DEF Plain
<1>2. Fit(s, next, batch[c], calls, c)
  BY <1>1, PlainFits
<1> QED
  BY <1>2, LocalSaveKept

LEMMA BlockKept ==
  ASSUME IInv, NEW c \in Controllers, NEW reason, reason # "deadlock",
         Block(c, reason), UNCHANGED local
  PROVE  IInv'
<1> DEFINE z == Stop(repo, "blocked", reason)
<1>1. SnapOK(repo, request) /\ CallsOK(repo.tasks, calls, asked)
  BY DEF IInv
<1>2. "blocked" \in Statuses \ {"completed"}
  BY DEF Statuses, Terminal
<1>3. SnapOK(z, request) /\ z.tasks = repo.tasks
  BY <1>1, <1>2, StopEffect
<1>4. Save(c, z, "done")
  BY DEF Block
<1> HIDE DEF z
<1> QED
  BY <1>1, <1>3, <1>4, LastSaveKept

\* The end of a run with every open task cancelled.
LEMMA EndSnap ==
  ASSUME NEW s, NEW l, NEW C, NEW A, SnapOK(s, l), CallsOK(s.tasks, C, A),
         NEW status \in Statuses \ {"completed"}, NEW reason, reason # "deadlock"
  PROVE  LET z == With(Stop(s, status, reason), CancelAll(s.tasks)) IN
         SnapOK(z, l) /\ CallsOK(z.tasks, C, A)
<1> DEFINE h == CancelAll(s.tasks)
           z == With(Stop(s, status, reason), h)
<1>1. GraphOK(s.tasks)
  BY DEF SnapOK
<1>2. GraphOK(h) /\ DOMAIN h = DOMAIN s.tasks /\ CallsOK(h, C, A)
  BY <1>1, CancelAllSound
<1> HIDE DEF h
<1>3. SnapOK(z, l) /\ z.tasks = h
  BY <1>2, WithEffect
<1> QED
  BY <1>2, <1>3 DEF h

\* A task that has come to an end leaves its calls accounted for.
LEMMA EndedCalls ==
  ASSUME NEW g, NEW h, NEW C, NEW A, CallsOK(g, C, A), NEW t \in DOMAIN g,
         NEW status \in {"failed", "succeeded"}, EndedIn(g, h, t, status),
         status = "succeeded" => g[t].status = "verifying"
  PROVE  CallsOK(h, C, A)
<1>1. A \subseteq Tasks \cup {Review}
  BY DEF CallsOK
<1>2. \A u \in DOMAIN g :
        /\ h[u].attempt = g[u].attempt
        /\ h[u].approval_granted => g[u].approval_granted
        /\ h[u].status \in Callable => g[u].status \in Callable
        /\ h[u].status \in {"verifying", "succeeded"} => g[u].status \in {"verifying", "succeeded"}
  BY DEF EndedIn, Callable
<1>3. DOMAIN h = DOMAIN g
  BY DEF EndedIn
<1> QED
  BY <1>1, <1>2, <1>3, CallsStay

LEMMA NoGraphOK == GraphOK(NoGraph)
BY DEF GraphOK, Loads, Stable, IsGraph, Restorable, WellFormed, NoGraph, In

\* A question that was rejected.
LEMMA RejectedSound ==
  ASSUME NEW s, NEW l, NEW C, NEW A, SnapOK(s, l), CallsOK(s.tasks, C, A)
  PROVE  SnapOK(Rejected(s), l) /\ CallsOK(Rejected(s).tasks, C, A)
<1> DEFINE t == s.pending
           g == IF t \in In(s.tasks, "waiting_approval")
                THEN Fail(s.tasks, t, "none", "none") ELSE s.tasks
           h == CancelAll(g)
           z == Rejected(s)
<1>1. GraphOK(s.tasks)
  BY DEF SnapOK
<1>2. GraphOK(g) /\ DOMAIN g = DOMAIN s.tasks /\ CallsOK(g, C, A)
  <2>1. CASE t \in In(s.tasks, "waiting_approval")
    <3>1. t \in DOMAIN s.tasks /\ s.tasks[t].status = "waiting_approval" /\ g = Fail(s.tasks, t, "none", "none")
      BY <2>1 DEF In
    <3>2. GraphOK(g) /\ EndedIn(s.tasks, g, t, "failed")
      BY <1>1, <3>1, FailEffect
    <3> HIDE DEF g, t
    <3>3. CallsOK(g, C, A)
      BY <3>1, <3>2, EndedCalls
    <3> QED
      BY <3>2, <3>3 DEF EndedIn
  <2>2. CASE t \notin In(s.tasks, "waiting_approval")
    BY <1>1, <2>2
  <2> QED
    BY <2>1, <2>2
<1> HIDE DEF g
<1>3. GraphOK(h) /\ DOMAIN h = DOMAIN s.tasks /\ CallsOK(h, C, A)
  BY <1>2, CancelAllSound
<1>4. z = [With(Stop(s, "blocked", "human_rejected"), h) EXCEPT !.pending = None]
  BY DEF Rejected, g
<1> HIDE DEF h, z
<1>5. /\ DOMAIN z = Fields /\ z.status = "blocked" /\ z.reason = "human_rejected"
      /\ z.tasks = h /\ z.cycle = s.cycle /\ z.revision = s.revision
      /\ z.history = s.history /\ z.pending = None /\ z.approved = s.approved
  BY <1>4 DEF With, Stop, SnapOK, Fields
<1>6. SnapOK(z, l)
  BY <1>3, <1>5 DEF SnapOK, Statuses, Terminal
<1> QED
  BY <1>3, <1>5, <1>6 DEF z

\* A question that was approved: about the whole draft, or about one task.
LEMMA ApprovedSound ==
  ASSUME NEW s, NEW l, NEW C, NEW A, SnapOK(s, l), CallsOK(s.tasks, C, A),
         s.pending \in {Review} \cup In(s.tasks, "waiting_approval")
  PROVE  SnapOK(Approved(s), l) /\ CallsOK(Approved(s).tasks, C, A \cup {s.pending})
<1> DEFINE t == s.pending
           h == IF t = Review THEN s.tasks ELSE ResumeApproval(s.tasks, t)
           z == Approved(s)
           B == A \cup {t}
<1>1. GraphOK(s.tasks) /\ t \in Tasks \cup {None, Review}
  BY DEF SnapOK
<1>2. B \subseteq Tasks \cup {Review}
  <2>1. DOMAIN s.tasks \subseteq Tasks
    BY <1>1 DEF GraphOK, Loads, IsGraph
  <2> QED
    BY <2>1 DEF CallsOK, In
<1>3. GraphOK(h) /\ DOMAIN h = DOMAIN s.tasks /\ CallsOK(h, C, B)
  <2>1. CASE t = Review
    <3>1. CallsOK(s.tasks, C, B)
      BY <1>2, CallsStay DEF CallsOK
    <3> QED
      BY <1>1, <2>1, <3>1
  <2>2. CASE t # Review
    <3>1. t \in In(s.tasks, "waiting_approval") /\ h = ResumeApproval(s.tasks, t)
      BY <2>2
    <3>2. GraphOK(h) /\ OnlyAt(s.tasks, h, t) /\ h[t].status = "ready"
      BY <1>1, <3>1, ResumeApprovalEffect
    <3> HIDE DEF h
    <3>3. t \in B /\ s.tasks[t].status \in Callable /\ A \subseteq B
      BY <3>1 DEF In, Callable
    <3> HIDE DEF B, t
    <3>4. CallsOK(h, C, B)
      BY <1>2, <3>2, <3>3, CallsStay DEF OnlyAt
    <3> QED
      BY <3>2, <3>4 DEF OnlyAt
  <2> QED
    BY <2>1, <2>2
<1> HIDE DEF h
<1>4. /\ DOMAIN z = Fields /\ z.status = "paused" /\ z.reason = "none"
      /\ z.tasks = h /\ z.cycle = s.cycle /\ z.revision = s.revision
      /\ z.history = s.history /\ z.pending = None
      /\ (z.approved = s.approved \/ z.approved = s.cycle)
  BY DEF Approved, Stop, SnapOK, Fields, h
<1> HIDE DEF z
<1>5. SnapOK(z, l)
  <2>1. z.approved \in 0 .. s.cycle
    BY <1>4 DEF SnapOK
  <2> QED
    BY <1>3, <1>4, <2>1 DEF SnapOK, Statuses, Terminal
<1> QED
  BY <1>3, <1>4, <1>5 DEF z

\* A plan that is given up: the cycle is archived, and the run fails or gets
\* another plan.
LEMMA ArchivedTyped ==
  ASSUME NEW s, NEW l, l.max_cycles \in Nat, SnapOK(s, l), s.cycle # 0
  PROVE  Archived(s) \subseteq 1 .. s.cycle
BY DEF Archived, SnapOK

LEMMA RevisedSound ==
  ASSUME request \in Requests, NEW s, NEW C, NEW A,
         SnapOK(s, request), CallsOK(s.tasks, C, A), s.pending # None
  PROVE  SnapOK(Revised(s), request) /\ CallsOK(Revised(s).tasks, C, A)
<1> DEFINE z == Revised(s)
<1>1. s.cycle # 0 /\ s.cycle \in 0 .. request.max_cycles /\ s.revision \in 0 .. request.max_plan_revisions
  BY DEF SnapOK
<1>2. Archived(s) \subseteq 1 .. s.cycle
  BY <1>1, LimitsTyped, ArchivedTyped
<1>3. /\ DOMAIN z = Fields /\ z.status \in {"failed", "paused"} /\ z.pending = None
      /\ z.reason # "deadlock" /\ z.cycle = s.cycle /\ z.history = Archived(s)
      /\ \/ z.tasks = s.tasks /\ z.revision = s.revision /\ z.approved = s.approved
         \/ /\ z.tasks = NoGraph /\ z.approved = 0
            /\ z.revision = s.revision + 1 /\ ~ s.revision >= request.max_plan_revisions
  <2>1. CASE s.revision >= request.max_plan_revisions
    BY <2>1 DEF Revised, Stop, SnapOK, Fields
  <2>2. CASE ~ s.revision >= request.max_plan_revisions
    BY <2>2 DEF Revised, Stop, SnapOK, Fields
  <2> QED
    BY <2>1, <2>2
<1> HIDE DEF z
<1>4. GraphOK(s.tasks) /\ s.approved \in 0 .. s.cycle
  BY DEF SnapOK
<1>5. GraphOK(z.tasks) /\ CallsOK(z.tasks, C, A)
  BY <1>3, <1>4, NoGraphOK, CallsOfNothing
<1>6. z.approved \in 0 .. z.cycle /\ z.revision \in 0 .. request.max_plan_revisions
  BY <1>1, <1>3, <1>4, LimitsTyped
<1>7. SnapOK(z, request)
  BY <1>1, <1>2, <1>3, <1>5, <1>6 DEF SnapOK, Statuses, Terminal
<1> QED
  BY <1>5, <1>7 DEF z

LEMMA ReplannedSound ==
  ASSUME request \in Requests, NEW s, NEW C, NEW A,
         SnapOK(s, request), CallsOK(s.tasks, C, A), DOMAIN s.tasks # {}
  PROVE  /\ SnapOK(Replanned(s), request) /\ CallsOK(Replanned(s).tasks, C, A)
         /\ Replanned(s).status \in {"failed", "planning"}
<1> DEFINE z == Replanned(s)
<1>1. s.cycle # 0 /\ s.cycle \in 0 .. request.max_cycles /\ s.revision \in 0 .. request.max_plan_revisions
  BY DEF SnapOK
<1>2. Archived(s) \subseteq 1 .. s.cycle
  BY <1>1, LimitsTyped, ArchivedTyped
<1>3. /\ DOMAIN z = Fields /\ z.status \in {"failed", "planning"} /\ z.pending = s.pending
      /\ z.reason # "deadlock" /\ z.cycle = s.cycle /\ z.history = Archived(s)
      /\ \/ z.tasks = s.tasks /\ z.revision = s.revision /\ z.approved = s.approved
         \/ /\ z.tasks = NoGraph /\ z.approved = 0
            /\ z.revision = s.revision + 1 /\ ~ s.revision >= request.max_plan_revisions
  <2>1. CASE s.cycle >= request.max_cycles
    BY <2>1 DEF Replanned, Stop, SnapOK, Fields
  <2>2. CASE ~ s.cycle >= request.max_cycles /\ s.revision >= request.max_plan_revisions
    BY <2>2 DEF Replanned, Stop, SnapOK, Fields
  <2>3. CASE ~ s.cycle >= request.max_cycles /\ ~ s.revision >= request.max_plan_revisions
    BY <2>3 DEF Replanned, Stop, SnapOK, Fields
  <2> QED
    BY <2>1, <2>2, <2>3
<1> HIDE DEF z
<1>4. GraphOK(s.tasks) /\ s.approved \in 0 .. s.cycle /\ s.pending \in Tasks \cup {None, Review}
  BY DEF SnapOK
<1>5. GraphOK(z.tasks) /\ CallsOK(z.tasks, C, A)
  BY <1>3, <1>4, NoGraphOK, CallsOfNothing
<1>6. z.approved \in 0 .. z.cycle /\ z.revision \in 0 .. request.max_plan_revisions
  BY <1>1, <1>3, <1>4, LimitsTyped
<1>7. SnapOK(z, request)
  BY <1>1, <1>2, <1>3, <1>4, <1>5, <1>6 DEF SnapOK, Statuses, Terminal
<1> QED
  BY <1>3, <1>5, <1>7 DEF z

LEMMA ReplanKept ==
  ASSUME IInv, NEW c \in Controllers, Replan(c), UNCHANGED local, DOMAIN repo.tasks # {}
  PROVE  IInv'
<1> DEFINE z == Replanned(repo)
           next == IF z.status = "planning" THEN "plan" ELSE "done"
<1>1. request \in Requests /\ SnapOK(repo, request) /\ CallsOK(repo.tasks, calls, asked)
  BY DEF IInv
<1>2. /\ SnapOK(z, request) /\ CallsOK(z.tasks, calls, asked)
      /\ z.status \in {"failed", "planning"}
  BY <1>1, ReplannedSound
<1>3. Save(c, z, next)
  BY DEF Replan
<1> HIDE DEF z
<1>4. next \in Plain /\ (z.status \in Terminal => next = "done")
  BY <1>2 DEF Plain, Terminal
<1>5. Fit(z, next, batch[c], calls, c)
  BY <1>4, PlainFits
<1> QED
  BY <1>2, <1>3, <1>5, LocalSaveKept

-----------------------------------------------------------------------------
(* The host                                                                 *)

LEMMA RunKept ==
  ASSUME IInv, NEW c \in Controllers, Run(c)
  PROVE  IInv'
<1> DEFINE z == Stop(repo, "planning", "none")
<1>1. /\ repo' = z /\ fresh' = {c} /\ pc' = [pc EXCEPT ![c] = "claim_new"]
      /\ request' = request /\ lease' = lease /\ batch' = batch
      /\ cancelling' = cancelling /\ calls' = calls /\ asked' = asked
  BY DEF Run
<1>2. Frame
  BY <1>1 DEF IInv, Frame
<1>3. SnapOK(z, request) /\ z.tasks = repo.tasks /\ z.status = "planning"
  BY StopEffect DEF IInv, Statuses, Terminal
<1> HIDE DEF z
<1>4. Fit(z, "claim_new", batch'[c], calls', c)
  BY <1>3, PlainFits DEF Plain, Terminal
<1>5. CallsOK(z.tasks, calls', asked')
  BY <1>1, <1>3 DEF IInv
<1> QED
  BY <1>1, <1>2, <1>3, <1>4, <1>5, SaveKept

LEMMA ResumeKept ==
  ASSUME IInv, NEW c \in Controllers, Resume(c)
  PROVE  IInv'
<1>1. /\ repo' = repo /\ fresh' = fresh \cup {c} /\ pc' = [pc EXCEPT ![c] = "claim"]
      /\ request' = request /\ lease' = lease /\ batch' = batch
      /\ cancelling' = cancelling /\ calls' = calls /\ asked' = asked
      /\ repo.status \notin Terminal
  BY DEF Resume
<1>2. Frame
  BY <1>1 DEF IInv, Frame
<1>3. pc'[c] = "claim" /\ \A d \in Controllers \ {c} : pc'[d] = pc[d]
  BY <1>1 DEF IInv
<1>4. Fit(repo, pc'[c], batch'[c], calls', c)
  BY <1>1, <1>3, PlainFits DEF Plain
<1>5. CallsOK(repo.tasks, calls', asked)
  BY <1>1 DEF IInv
<1> QED
  BY <1>1, <1>2, <1>3, <1>4, <1>5, NoSaveKept

\* Of the two ways to claim, only the one that gets the lease keeps its copy.
LEMMA ClaimRunKept ==
  ASSUME IInv, NEW c \in Controllers, ClaimRun(c)
  PROVE  IInv'
<1>1. /\ repo' = repo /\ request' = request /\ batch' = batch
      /\ cancelling' = cancelling /\ calls' = calls /\ asked' = asked
      /\ pc[c] \in {"claim", "claim_new"}
      /\ \/ lease' = c /\ fresh' = fresh /\ \E p \in {"plan", "begin"} : pc' = [pc EXCEPT ![c] = p]
         \/ lease' = lease /\ fresh' = fresh \ {c} /\ pc' = [pc EXCEPT ![c] = "idle"]
  BY DEF ClaimRun, IInv
<1>2. Frame
  BY <1>1 DEF IInv, Frame
<1>3. \A d \in Controllers \ {c} : pc'[d] = pc[d]
  BY <1>1 DEF IInv
<1>4. CallsOK(repo.tasks, calls', asked)
  BY <1>1 DEF IInv
<1>5. c \in fresh' => Fit(repo, pc'[c], batch'[c], calls', c)
  <2>1. HAVE c \in fresh'
  <2>2. c \in fresh /\ pc'[c] \in {"plan", "begin"}
    BY <1>1, <2>1 DEF IInv
  <2>3. repo.status \notin Terminal
    BY <1>1, <2>2 DEF IInv, Fit
  <2> QED
    BY <2>2, <2>3, PlainFits DEF Plain
<1> QED
  BY <1>1, <1>2, <1>3, <1>4, <1>5, NoSaveKept

LEMMA CancelKept ==
  ASSUME IInv, NEW c \in Controllers, Cancel(c)
  PROVE  IInv'
<1>1. /\ request' = request /\ lease' = lease /\ pc' = pc /\ batch' = batch
      /\ calls' = calls /\ asked' = asked
  BY DEF Cancel
<1>2. CASE cancelling' = cancelling \cup {c} /\ repo' = repo /\ fresh' = fresh
  <2>1. Frame
    BY <1>1, <1>2 DEF IInv, Frame
  <2> QED
    BY <1>1, <1>2, <2>1, NoSaveKept DEF IInv
<1>3. CASE /\ repo' = With(Stop(repo, "cancelled", "cancelled"), CancelAll(repo.tasks))
           /\ fresh' = {} /\ cancelling' = cancelling
  <2>1. Frame
    BY <1>1, <1>3 DEF IInv, Frame
  <2>2. "cancelled" \in Statuses \ {"completed"}
    BY DEF Statuses, Terminal
  <2>3. SnapOK(repo, request) /\ CallsOK(repo.tasks, calls, asked)
    BY DEF IInv
  <2>4. SnapOK(repo', request) /\ CallsOK(repo'.tasks, calls, asked)
    BY <1>3, <2>2, <2>3, EndSnap
  <2> QED
    BY <1>1, <1>3, <2>1, <2>4, OutsideKept
<1> QED
  BY <1>2, <1>3 DEF Cancel

LEMMA SubmitKept ==
  ASSUME IInv, NEW action, Submit(action)
  PROVE  IInv'
<1>1. /\ request' = request /\ lease' = lease /\ pc' = pc /\ batch' = batch
      /\ calls' = calls /\ cancelling' = cancelling /\ fresh' = {} /\ repo.pending # None
  BY DEF Submit
<1>2. Frame
  BY <1>1 DEF IInv, Frame
<1>3. request \in Requests /\ SnapOK(repo, request) /\ CallsOK(repo.tasks, calls, asked)
  BY DEF IInv
<1>4. SnapOK(repo', request) /\ CallsOK(repo'.tasks, calls, asked')
  <2>1. CASE repo' = Rejected(repo) /\ asked' = asked
    BY <1>3, <2>1, RejectedSound
  <2>2. CASE /\ repo.pending \in {Review} \cup In(repo.tasks, "waiting_approval")
             /\ repo' = Approved(repo) /\ asked' = asked \cup {repo.pending}
    BY <1>3, <2>2, ApprovedSound
  <2>3. CASE repo' = Revised(repo) /\ asked' = asked
    BY <1>1, <1>3, <2>3, RevisedSound
  <2> QED
    BY <2>1, <2>2, <2>3 DEF Submit
<1> QED
  BY <1>1, <1>2, <1>4, OutsideKept

-----------------------------------------------------------------------------
(* Planning, and the head of the loop                                       *)

\* What a controller that is about to save knows.
LEMMA Standing ==
  ASSUME IInv, NEW c \in fresh
  PROVE  /\ c \in Controllers /\ Fit(repo, pc[c], batch[c], calls, c)
         /\ request \in Requests /\ SnapOK(repo, request) /\ CallsOK(repo.tasks, calls, asked)
         /\ GraphOK(repo.tasks)
BY DEF IInv, SnapOK

LEMMA BeginKept ==
  ASSUME IInv, NEW c \in Controllers, Begin(c)
  PROVE  IInv'
<1> DEFINE g == repo.tasks
           h == RecoverInflight(g)
<1>1. c \in fresh /\ UNCHANGED local
  BY DEF Begin, Save
<1>2. SnapOK(repo, request) /\ CallsOK(g, calls, asked) /\ GraphOK(g)
  BY <1>1, Standing
<1>3. CASE g = NoGraph
  <2> DEFINE z == Stop(repo, "planning", "none")
  <2>1. SnapOK(z, request) /\ z.tasks = g /\ z.status = "planning"
    BY <1>2, StopEffect DEF Statuses, Terminal
  <2>2. Save(c, z, "plan")
    BY <1>3 DEF Begin
  <2> HIDE DEF z
  <2>3. Fit(z, "plan", batch[c], calls, c)
    BY <2>1, PlainFits DEF Plain, Terminal
  <2> QED
    BY <1>1, <1>2, <2>1, <2>2, <2>3, LocalSaveKept
<1>4. CASE g # NoGraph
  <2> DEFINE z == [With(Stop(repo, "running", "none"), h) EXCEPT
                     !.cycle = IF @ = 0 THEN 1 ELSE @]
             next == IF Unresolved(g) = {} THEN "exec" ELSE "recovered"
  <2>1. DOMAIN g # {}
    BY <1>2, <1>4 DEF GraphOK, Loads, ValidPlan
  <2>2. /\ GraphOK(h) /\ DOMAIN h = DOMAIN g
        /\ \A t \in DOMAIN g :
             /\ h[t].attempt = g[t].attempt /\ h[t].approval_granted = g[t].approval_granted
             /\ h[t].status \notin {"running", "waiting_approval"}
             /\ \/ h[t].status = g[t].status
                \/ g[t].status = "pending" /\ h[t].status = "ready"
                \/ h[t].status = "blocked"
                \/ t \in replaySafe /\ h[t].status = "ready"
    BY <1>2, RecoverEffect
  <2>3. Save(c, z, next)
    BY <1>4 DEF Begin
  <2> HIDE DEF h
  <2>4. CallsOK(h, calls, asked)
    <3>1. asked \subseteq Tasks \cup {Review}
      BY <1>2 DEF CallsOK
    <3>2. \A t \in DOMAIN g :
            /\ h[t].attempt = g[t].attempt
            /\ h[t].approval_granted => g[t].approval_granted
            /\ h[t].status \in Callable => t \in replaySafe \/ g[t].status \in Callable
            /\ h[t].status \in {"verifying", "succeeded"} => g[t].status \in {"verifying", "succeeded"}
      BY <2>2 DEF Callable
    <3> HIDE DEF g
    <3> QED
      BY <1>2, <2>2, <3>1, <3>2, CallsStay
  <2>5. /\ DOMAIN z = Fields /\ z.status = "running" /\ z.reason = "none"
        /\ z.tasks = h /\ z.cycle = repo.cycle /\ z.revision = repo.revision
        /\ z.history = repo.history /\ z.pending = repo.pending /\ z.approved = repo.approved
    BY <1>2, <2>1 DEF With, Stop, SnapOK, Fields
  <2> HIDE DEF z
  <2>6. SnapOK(z, request)
    BY <1>2, <2>2, <2>5 DEF SnapOK, Statuses, Terminal
  <2>7. Fit(z, next, batch[c], calls, c)
    BY <2>1, <2>2, <2>5 DEF Fit, Planned, Working, In, Terminal
  <2> QED
    BY <1>1, <2>3, <2>4, <2>5, <2>6, <2>7, LocalSaveKept
<1> QED
  BY <1>3, <1>4

LEMMA PlanKept ==
  ASSUME IInv, NEW c \in Controllers, Plan(c)
  PROVE  IInv'
<1>1. c \in fresh
  BY DEF Plan, Save
<1>2. request \in Requests /\ SnapOK(repo, request) /\ CallsOK(repo.tasks, calls, asked)
  BY <1>1, Standing
<1>3. CASE Save(c, Stop(repo, "failed", "cycle_limit"), "done") /\ UNCHANGED local
  <2> DEFINE z == Stop(repo, "failed", "cycle_limit")
  <2>1. SnapOK(z, request) /\ z.tasks = repo.tasks
    BY <1>2, StopEffect DEF Statuses, Terminal
  <2> HIDE DEF z
  <2> QED
    BY <1>2, <1>3, <2>1, LastSaveKept DEF z
<1>4. ASSUME repo.cycle + 1 <= request.max_cycles,
             NEW S \in request.plans, NEW covered \in BOOLEAN, ValidPlan(S),
             Save(c, [With(Stop(repo, "running", "none"), NewGraph(S)) EXCEPT
                        !.cycle = @ + 1, !.approved = 0],
                  IF covered THEN "exec" ELSE "uncovered"),
             calls' = {}, asked' = {},
             UNCHANGED <<request, lease, batch, cancelling, faults, ops>>
      PROVE  IInv'
  <2> DEFINE h == NewGraph(S)
             z == [With(Stop(repo, "running", "none"), h) EXCEPT !.cycle = @ + 1, !.approved = 0]
             next == IF covered THEN "exec" ELSE "uncovered"
  <2>1. S \in SUBSET Tasks /\ S # {}
    BY <1>2, <1>4, LimitsTyped DEF ValidPlan
  <2>2. /\ GraphOK(h) /\ DOMAIN h = S
        /\ \A t \in S : /\ h[t].attempt = 0 /\ ~ h[t].approval_granted
                        /\ h[t].status \in {"ready", "pending"}
    BY <1>4, <2>1, NewGraphEffect
  <2> HIDE DEF h
  <2>3. /\ DOMAIN z = Fields /\ z.status = "running" /\ z.reason = "none"
        /\ z.tasks = h /\ z.cycle = repo.cycle + 1 /\ z.revision = repo.revision
        /\ z.history = repo.history /\ z.pending = repo.pending /\ z.approved = 0
    BY <1>2 DEF With, Stop, SnapOK, Fields
  <2>4. repo' = z /\ fresh' = {c} /\ pc' = [pc EXCEPT ![c] = next] /\ calls' = {} /\ asked' = {}
    BY <1>4 DEF Save, h
  <2> HIDE DEF z
  <2>5. Frame
    BY <1>4, <2>4 DEF IInv, Frame
  <2>6. CallsOK(z.tasks, calls', asked')
    BY <2>2, <2>3, <2>4 DEF CallsOK
  <2>7. SnapOK(z, request)
    <3>1. z.cycle \in 1 .. request.max_cycles /\ 1 .. repo.cycle \subseteq 1 .. z.cycle
      BY <1>2, <1>4, <2>3, LimitsTyped DEF SnapOK
    <3>2. z.history \subseteq 1 .. z.cycle
      BY <1>2, <2>3, <3>1 DEF SnapOK
    <3> QED
      BY <1>2, <2>2, <2>3, <3>1, <3>2 DEF SnapOK, Statuses, Terminal
  <2>8. Fit(z, next, batch'[c], calls', c)
    BY <2>1, <2>2, <2>3 DEF Fit, Planned, Working, In, Terminal
  <2> QED
    BY <2>4, <2>5, <2>6, <2>7, <2>8, SaveKept
<1> QED
  BY <1>3, <1>4 DEF Plan

LEMMA CancelSnapshotKept ==
  ASSUME IInv, NEW c \in Controllers, CancelSnapshot(c)
  PROVE  IInv'
<1> DEFINE z == With(Stop(repo, "cancelled", "cancelled"), CancelAll(repo.tasks))
<1>1. c \in fresh /\ UNCHANGED local /\ Save(c, z, "done")
  BY DEF CancelSnapshot, Save
<1>2. SnapOK(repo, request) /\ CallsOK(repo.tasks, calls, asked)
  BY <1>1, Standing
<1>3. SnapOK(z, request) /\ CallsOK(z.tasks, calls, asked)
  BY <1>2, EndSnap DEF Statuses, Terminal
<1> HIDE DEF z
<1> QED
  BY <1>1, <1>3, LastSaveKept

\* A step of controller c alone that saves nothing and calls nobody.
LEMMA QuietKept ==
  ASSUME IInv, NEW c \in Controllers, NEW p, pc' = [pc EXCEPT ![c] = p],
         NEW out, (batch' = batch /\ out = batch[c]) \/ batch' = [batch EXCEPT ![c] = out],
         DOMAIN out \subseteq Tasks,
         UNCHANGED <<request, repo, fresh, lease, cancelling, calls, asked>>,
         c \in fresh => Fit(repo, p, out, calls, c)
  PROVE  IInv'
<1>1. /\ pc'[c] = p /\ batch'[c] = out
      /\ \A d \in Controllers \ {c} : pc'[d] = pc[d] /\ batch'[d] = batch[d]
  BY DEF IInv
<1>2. Frame
  BY <1>1 DEF IInv, Frame
<1>3. CallsOK(repo.tasks, calls', asked)
  BY DEF IInv
<1> QED
  BY <1>1, <1>2, <1>3, NoSaveKept

LEMMA ResumeVerifyingKept ==
  ASSUME IInv, NEW c \in Controllers, ResumeVerifying(c)
  PROVE  IInv'
<1>1. PICK t \in In(repo.tasks, "verifying") :
        batch' = [batch EXCEPT ![c] =
          [x \in {t} |-> IF repo.tasks[t].verification = "none" THEN "ok"
                         ELSE repo.tasks[t].verification]]
  BY DEF ResumeVerifying
<1> DEFINE o == IF repo.tasks[t].verification = "none" THEN "ok" ELSE repo.tasks[t].verification
           out == [x \in {t} |-> o]
<1>2. /\ pc[c] = "exec" /\ c \in fresh /\ pc' = [pc EXCEPT ![c] = "verify"]
      /\ UNCHANGED <<request, repo, fresh, lease, cancelling, calls, asked>>
  BY DEF ResumeVerifying, AtHead
<1>3. Fit(repo, "exec", batch[c], calls, c) /\ GraphOK(repo.tasks)
  BY <1>2, Standing
<1>4. t \in DOMAIN repo.tasks /\ repo.tasks[t].status = "verifying"
  BY DEF In
<1>5. t \in Tasks /\ o \in {"ok", "passed", "failed"}
  <2>1. repo.tasks[t] \in TaskState /\ t \in Tasks
    BY <1>3, <1>4 DEF GraphOK, Loads, IsGraph
  <2> QED
    BY <2>1 DEF TaskState
<1> HIDE DEF o
<1>6. DOMAIN out = {t} /\ out[t] = o
  OBVIOUS
<1> HIDE DEF out
<1>7. Fit(repo, "verify", out, calls, c)
  BY <1>3, <1>4, <1>5, <1>6 DEF Fit, Planned, Working, OutcomeFits
<1> QED
  BY <1>1, <1>2, <1>5, <1>6, <1>7, QuietKept DEF out, o

LEMMA CompleteKept ==
  ASSUME IInv, NEW c \in Controllers, Complete(c)
  PROVE  IInv'
<1>1. /\ pc[c] = "exec" /\ c \in fresh /\ pc' = [pc EXCEPT ![c] = "aggregate"]
      /\ AllSucceeded(repo.tasks)
      /\ UNCHANGED <<request, repo, fresh, lease, cancelling, calls, asked, batch>>
  BY DEF Complete, AtHead, local
<1>2. Fit(repo, "exec", batch[c], calls, c)
  BY <1>1, Standing
<1>3. Fit(repo, "aggregate", batch[c], calls, c)
  BY <1>1, <1>2 DEF Fit, Planned, Working
<1>4. DOMAIN batch[c] \subseteq Tasks
  BY DEF IInv
<1> QED
  BY <1>1, <1>3, <1>4, QuietKept

LEMMA FailTasksKept ==
  ASSUME IInv, NEW c \in Controllers, FailTasks(c)
  PROVE  IInv'
<1>1. c \in fresh /\ pc[c] = "exec" /\ Replan(c) /\ UNCHANGED local
  BY DEF FailTasks, AtHead
<1>2. DOMAIN repo.tasks # {}
  BY <1>1, Standing DEF Fit, Planned
<1> QED
  BY <1>1, <1>2, ReplanKept

-----------------------------------------------------------------------------
(* Approvals and batches                                                    *)

\* Past the head of the loop nobody waits for an approval and nothing runs.
LEMMA PastHeadFits ==
  ASSUME IInv, NEW c \in Controllers, PastHead(c)
  PROVE  /\ c \in fresh /\ DOMAIN repo.tasks # {}
         /\ In(repo.tasks, "waiting_approval") = {} /\ In(repo.tasks, "running") = {}
         /\ \/ In(repo.tasks, "ready") # {}
            \/ In(repo.tasks, "verifying") = {} /\ ~ AllTerminal(repo.tasks)
<1>1. c \in fresh /\ pc[c] \in {"approve", "exec"}
  BY DEF PastHead, AtHead
<1>2. Fit(repo, pc[c], batch[c], calls, c)
  BY <1>1, Standing
<1> QED
  BY <1>1, <1>2 DEF PastHead, Fit, Planned, Working

LEMMA AskGateKept ==
  ASSUME IInv, NEW c \in Controllers, AskGate(c)
  PROVE  IInv'
<1> DEFINE g == repo.tasks
<1>1. PICK t \in NeedsApproval(g) :
        Save(c, With(Stop(repo, "waiting_approval", "none"), MarkWaitingApproval(g, t)), "gate")
  BY DEF AskGate
<1> DEFINE h == MarkWaitingApproval(g, t)
           z == With(Stop(repo, "waiting_approval", "none"), h)
<1>2. PastHead(c) /\ UNCHANGED local /\ Save(c, z, "gate")
  BY <1>1 DEF AskGate
<1>3. /\ c \in fresh /\ DOMAIN g # {}
      /\ In(g, "waiting_approval") = {} /\ In(g, "running") = {}
  BY <1>2, PastHeadFits
<1>4. SnapOK(repo, request) /\ CallsOK(g, calls, asked) /\ GraphOK(g)
  BY <1>3, Standing
<1>5. t \in In(g, "ready")
  BY DEF NeedsApproval
<1>6. /\ GraphOK(h) /\ OnlyAt(g, h, t)
      /\ h[t].status = "waiting_approval" /\ h[t].approval_granted = g[t].approval_granted
  BY <1>4, <1>5, MarkWaitingEffect
<1> HIDE DEF h
<1>7. DOMAIN h = DOMAIN g /\ SnapOK(z, request) /\ z.tasks = h /\ z.status = "waiting_approval"
  <2>1. "waiting_approval" \in Statuses \ {"completed"}
    BY DEF Statuses, Terminal
  <2>2. DOMAIN h = DOMAIN g
    BY <1>6 DEF OnlyAt
  <2> HIDE DEF g
  <2> QED
    BY <1>4, <1>6, <2>1, <2>2, WithEffect DEF g
<1> HIDE DEF z
<1>8. CallsOK(h, calls, asked)
  <2>1. asked \subseteq Tasks \cup {Review}
    BY <1>4 DEF CallsOK
  <2>2. \A u \in DOMAIN g :
          /\ h[u].attempt = g[u].attempt
          /\ h[u].approval_granted => g[u].approval_granted
          /\ h[u].status \in Callable => g[u].status \in Callable
          /\ h[u].status \in {"verifying", "succeeded"} => g[u].status \in {"verifying", "succeeded"}
    BY <1>5, <1>6 DEF OnlyAt, Callable, In
  <2> HIDE DEF g
  <2> QED
    BY <1>4, <1>7, <2>1, <2>2, CallsStay
<1>9. Fit(z, "gate", batch[c], calls, c)
  <2>1. In(h, "waiting_approval") = {t}
    BY <1>3, <1>5, <1>6 DEF OnlyAt, In
  <2>2. In(h, "running") = {}
    BY <1>3, <1>5, <1>6 DEF OnlyAt, In
  <2> QED
    BY <1>3, <1>7, <2>1, <2>2 DEF Fit, Planned, Working, Terminal
<1> QED
  BY <1>2, <1>7, <1>8, <1>9, LocalSaveKept

LEMMA GateDecidesKept ==
  ASSUME IInv, NEW c \in Controllers, NEW decision, GateDecides(c, decision)
  PROVE  IInv'
<1> DEFINE g == repo.tasks
<1>1. pc[c] = "gate" /\ UNCHANGED <<request, lease, batch, cancelling, calls, faults, ops>>
  BY DEF GateDecides
<1>2. PICK t \in In(g, "waiting_approval") :
     \/ /\ decision = "approved"
        /\ Save(c, With(Stop(repo, "running", "none"), ResumeApproval(g, t)), "approve")
        /\ asked' = asked \cup {t}
     \/ /\ decision = "deferred"
        /\ Save(c, [Stop(repo, "paused", "approval_deferred") EXCEPT !.pending = t], "done")
        /\ UNCHANGED asked
     \/ /\ decision = "rejected"
        /\ Save(c, With(Stop(repo, "failed", "approval_rejected"),
                        CancelAll(Fail(g, t, "none", "none"))), "done")
        /\ UNCHANGED asked
  BY DEF GateDecides
<1>3. c \in fresh
  BY <1>2 DEF Save
<1>4. SnapOK(repo, request) /\ CallsOK(g, calls, asked) /\ GraphOK(g) /\ Fit(repo, "gate", batch[c], calls, c)
  BY <1>1, <1>3, Standing
<1>5. DOMAIN g # {} /\ In(g, "running") = {} /\ In(g, "waiting_approval") = {t}
  BY <1>4 DEF Fit, Planned
<1>6. t \in DOMAIN g /\ g[t].status = "waiting_approval" /\ t \in Tasks
  BY <1>4 DEF In, GraphOK, Loads, IsGraph
<1>7. asked \subseteq Tasks \cup {Review}
  BY <1>4 DEF CallsOK
<1>8. CASE /\ Save(c, With(Stop(repo, "running", "none"), ResumeApproval(g, t)), "approve")
           /\ asked' = asked \cup {t}
  <2> DEFINE h == ResumeApproval(g, t)
             z == With(Stop(repo, "running", "none"), h)
  <2>1. GraphOK(h) /\ OnlyAt(g, h, t) /\ h[t].status = "ready"
    BY <1>4, ResumeApprovalEffect
  <2>2. repo' = z /\ fresh' = {c} /\ pc' = [pc EXCEPT ![c] = "approve"]
    BY <1>8 DEF Save
  <2> HIDE DEF h
  <2>3. DOMAIN h = DOMAIN g
    BY <2>1 DEF OnlyAt
  <2>4. SnapOK(z, request) /\ z.tasks = h /\ z.status = "running"
    <3>1. "running" \in Statuses \ {"completed"}
      BY DEF Statuses, Terminal
    <3> QED
      BY <1>4, <2>1, <2>3, <3>1, WithEffect
  <2> HIDE DEF z
  <2>5. Frame
    BY <1>1, <2>2 DEF IInv, Frame
  <2>6. CallsOK(h, calls', asked')
    <3>1. asked \subseteq asked' /\ asked' \subseteq Tasks \cup {Review} /\ t \in asked' /\ calls' = calls
      BY <1>1, <1>6, <1>7, <1>8
    <3>2. \A u \in DOMAIN g :
            /\ h[u].attempt = g[u].attempt
            /\ h[u].approval_granted => g[u].approval_granted \/ u \in asked'
            /\ h[u].status \in Callable => g[u].status \in Callable
            /\ h[u].status \in {"verifying", "succeeded"} => g[u].status \in {"verifying", "succeeded"}
      BY <1>6, <2>1, <3>1 DEF OnlyAt, Callable
    <3> HIDE DEF g
    <3> QED
      BY <1>4, <2>3, <3>1, <3>2, CallsStay
  <2>7. Fit(z, "approve", batch'[c], calls', c)
    <3>1. In(h, "waiting_approval") = {} /\ In(h, "running") = {} /\ t \in In(h, "ready")
      BY <1>5, <1>6, <2>1 DEF OnlyAt, In
    <3> QED
      BY <1>5, <2>3, <2>4, <3>1 DEF Fit, Planned, Working, Terminal
  <2> QED
    BY <2>2, <2>4, <2>5, <2>6, <2>7, SaveKept
<1>9. CASE /\ Save(c, [Stop(repo, "paused", "approval_deferred") EXCEPT !.pending = t], "done")
           /\ UNCHANGED asked
  <2> DEFINE z == [Stop(repo, "paused", "approval_deferred") EXCEPT !.pending = t]
  <2>1. /\ DOMAIN z = Fields /\ z.status = "paused" /\ z.reason = "approval_deferred"
        /\ z.tasks = g /\ z.cycle = repo.cycle /\ z.revision = repo.revision
        /\ z.history = repo.history /\ z.pending = t /\ z.approved = repo.approved
    BY <1>4 DEF Stop, SnapOK, Fields
  <2> HIDE DEF z
  <2>2. SnapOK(z, request)
    BY <1>4, <1>5, <1>6, <2>1 DEF SnapOK, Statuses, Terminal
  <2>3. Save(c, z, "done") /\ UNCHANGED local
    BY <1>1, <1>9 DEF z, local
  <2> QED
    BY <1>4, <2>1, <2>2, <2>3, LastSaveKept
<1>10. CASE /\ Save(c, With(Stop(repo, "failed", "approval_rejected"),
                           CancelAll(Fail(g, t, "none", "none"))), "done")
            /\ UNCHANGED asked
  <2> DEFINE k == Fail(g, t, "none", "none")
             h == CancelAll(k)
             z == With(Stop(repo, "failed", "approval_rejected"), h)
  <2>1. GraphOK(k) /\ EndedIn(g, k, t, "failed")
    BY <1>4, <1>6, FailEffect
  <2> HIDE DEF k
  <2>2. CallsOK(k, calls, asked) /\ DOMAIN k = DOMAIN g
    BY <1>4, <1>6, <2>1, EndedCalls DEF EndedIn
  <2>3. GraphOK(h) /\ DOMAIN h = DOMAIN g /\ CallsOK(h, calls, asked)
    BY <2>1, <2>2, CancelAllSound
  <2>4. Save(c, z, "done") /\ UNCHANGED local
    BY <1>1, <1>10 DEF k, local
  <2> HIDE DEF h
  <2>5. SnapOK(z, request) /\ z.tasks = h
    <3>1. "failed" \in Statuses \ {"completed"}
      BY DEF Statuses, Terminal
    <3> QED
      BY <1>4, <2>3, <3>1, WithEffect
  <2> HIDE DEF z
  <2> QED
    BY <2>3, <2>4, <2>5, LastSaveKept
<1> QED
  BY <1>2, <1>8, <1>9, <1>10

\* The branch for a graph that cannot go on is never taken.
LEMMA CanGoOn ==
  ASSUME NEW g, GraphOK(g), DOMAIN g # {}, In(g, "waiting_approval") = {},
         In(g, "running") = {}, In(g, "verifying") = {}, ~ AllTerminal(g)
  PROVE  In(g, "ready") # {}
<1> SUFFICES ASSUME In(g, "ready") = {} PROVE FALSE
  OBVIOUS
<1> DEFINE U == In(g, "pending")
<1>1. /\ DOMAIN g \subseteq Tasks /\ IsDAG(DOMAIN g)
      /\ \A t \in DOMAIN g : dependencies[t] \subseteq DOMAIN g
  BY DEF GraphOK, Loads, IsGraph, ValidPlan, NoGraph
<1>2. \A t \in DOMAIN g : g[t].status = "pending" \/ IsTerminal(g[t].status)
  <2> TAKE t \in DOMAIN g
  <2>1. g[t].status \in TaskStatus
    BY DEF GraphOK, Loads, IsGraph, TaskState
  <2> QED
    BY <2>1 DEF In, TaskStatus, IsTerminal
<1>3. U # {} /\ U \subseteq DOMAIN g
  BY <1>2 DEF AllTerminal, In
<1>4. PICK t \in U : dependencies[t] \cap U = {}
  BY <1>1, <1>3 DEF IsDAG
<1>5. PICK d \in dependencies[t] : g[d].status # "succeeded"
  BY <1>4 DEF GraphOK, Stable
<1>6. g[d].status \notin FailedDependencies
  BY <1>4, <1>5 DEF GraphOK, Stable
<1>7. d \in DOMAIN g
  BY <1>1, <1>3, <1>4, <1>5
<1>8. g[d].status = "pending"
  BY <1>2, <1>5, <1>6, <1>7 DEF IsTerminal, FailedDependencies
<1> QED
  BY <1>4, <1>5, <1>7, <1>8 DEF In

LEMMA NothingScheduledKept ==
  ASSUME IInv, NEW c \in Controllers, NothingScheduled(c)
  PROVE  IInv'
<1>1. PastHead(c) /\ UNCHANGED local
  BY DEF NothingScheduled
<1>2. In(repo.tasks, "ready") # {}
  BY <1>1, PastHeadFits, Standing, CanGoOn
<1>3. PICK reason \in {"no_capable_agent", "agent_capacity"} : Block(c, reason)
  BY <1>2 DEF NothingScheduled
<1> QED
  BY <1>1, <1>3, BlockKept

\* The calls of a batch: each task's next attempt, begun once, approved first.
LEMMA NewCallsSound ==
  ASSUME NEW g, NEW h, NEW C, NEW A, CallsOK(g, C, A), GraphOK(g), DOMAIN h = DOMAIN g,
         NEW S \in SUBSET In(g, "ready"), NEW c \in Controllers,
         \A t \in DOMAIN g \ S : h[t] = g[t],
         \A t \in S : /\ h[t].status = "running" /\ h[t].attempt = g[t].attempt + 1
                      /\ h[t].approval_granted = g[t].approval_granted,
         \A t \in S \cap requiresApproval : g[t].approval_granted
  PROVE  CallsOK(h, C \cup {[task |-> t, attempt |-> h[t].attempt, by |-> c,
                             state |-> "running"] : t \in S}, A)
<1> DEFINE new(t) == [task |-> t, attempt |-> h[t].attempt, by |-> c, state |-> "running"]
           N == {new(t) : t \in S}
           D == C \cup N
<1>1. \A t \in DOMAIN g : t \in Tasks /\ g[t].attempt \in Nat
  BY DEF GraphOK, Loads, IsGraph, TaskState
<1>2. \A t \in S : t \in DOMAIN g /\ g[t].status = "ready" /\ t \in DOMAIN h
  BY DEF In
<1>3. \A y \in N : /\ y \in Call /\ y.task \in S /\ y = new(y.task)
                   /\ y.attempt = g[y.task].attempt + 1
  <2> TAKE y \in N
  <2>1. PICK t \in S : y = new(t)
    OBVIOUS
  <2>2. y.task = t /\ y.attempt = g[t].attempt + 1 /\ y = new(y.task)
    BY <2>1
  <2>3. t \in Tasks /\ g[t].attempt + 1 \in Nat \ {0}
    BY <1>1, <1>2
  <2>4. y \in Call
    BY <2>1, <2>2, <2>3 DEF Call
  <2> QED
    BY <2>2, <2>4
<1>4. \A x \in C : x.task \in S => /\ x.attempt \in Nat /\ x.attempt =< g[x.task].attempt
                                   /\ x.task \in replaySafe \/ Failed(x)
  <2> TAKE x \in C
  <2> HAVE x.task \in S
  <2>1. x \in Call
    BY DEF CallsOK
  <2>2. g[x.task].status = "ready" /\ x.task \in DOMAIN g
    BY <1>2
  <2>3. x.attempt =< g[x.task].attempt /\ (x.task \in replaySafe \/ Failed(x))
    BY <2>2 DEF CallsOK, Callable
  <2> QED
    BY <2>1, <2>3 DEF Call
<1>5. \A t \in S : /\ new(t).task = t /\ new(t).attempt = h[t].attempt /\ new(t) \in N
  OBVIOUS
<1>6. \A y \in N : y.task \in requiresApproval => y.task \in A
  <2> TAKE y \in N
  <2> HAVE y.task \in requiresApproval
  <2>1. y.task \in S /\ y.task \in DOMAIN g /\ g[y.task].approval_granted
    BY <1>2, <1>3
  <2> QED
    BY <2>1 DEF CallsOK
<1> HIDE DEF new, N
<1>7. D \subseteq Call /\ A \subseteq Tasks \cup {Review}
  BY <1>3 DEF CallsOK
<1>8. \A x, y \in D : x.task = y.task /\ x.attempt = y.attempt => x = y
  <2>1. \A x, y \in C : x.task = y.task /\ x.attempt = y.attempt => x = y
    BY DEF CallsOK
  <2>2. \A x, y \in N : x.task = y.task => x = y
    BY <1>3
  <2>3. \A x \in C, y \in N : x.task = y.task => x.attempt # y.attempt
    <3> TAKE x \in C, y \in N
    <3> HAVE x.task = y.task
    <3>1. y.task \in S /\ y.attempt = g[y.task].attempt + 1 /\ g[y.task].attempt \in Nat
      BY <1>1, <1>2, <1>3
    <3>2. x.attempt \in Nat /\ x.attempt =< g[y.task].attempt
      BY <1>4, <3>1
    <3> QED
      BY <3>1, <3>2
  <2> QED
    BY <2>1, <2>2, <2>3
<1>9. \A x, y \in D :
        x.task = y.task /\ x.attempt < y.attempt /\ x.task \notin replaySafe => Failed(x)
  <2>1. \A x, y \in C :
          x.task = y.task /\ x.attempt < y.attempt /\ x.task \notin replaySafe => Failed(x)
    BY DEF CallsOK
  <2>2. \A x \in C, y \in N : x.task = y.task /\ x.task \notin replaySafe => Failed(x)
    BY <1>3, <1>4
  <2>3. \A x \in N, y \in D : x.task = y.task => ~ x.attempt < y.attempt
    <3> TAKE x \in N, y \in D
    <3> HAVE x.task = y.task
    <3>1. x.task \in S /\ x.attempt = g[x.task].attempt + 1 /\ g[x.task].attempt \in Nat
      BY <1>1, <1>2, <1>3
    <3>2. CASE y \in C
      <4>1. y.attempt \in Nat /\ y.attempt =< g[x.task].attempt
        BY <1>4, <3>1, <3>2
      <4> QED
        BY <3>1, <4>1
    <3>3. CASE y \in N
      <4>1. y.attempt = x.attempt
        BY <1>3, <3>3
      <4> QED
        BY <3>1, <4>1
    <3> QED
      BY <3>2, <3>3
  <2> QED
    BY <2>1, <2>2, <2>3
<1>10. \A x \in D : x.task \in requiresApproval => x.task \in A
  BY <1>6 DEF CallsOK
<1>11. \A x \in D : x.task \in DOMAIN h =>
         /\ x.attempt =< h[x.task].attempt
         /\ \/ x.task \in replaySafe \/ Failed(x)
            \/ x.attempt = h[x.task].attempt /\ h[x.task].status \notin Callable
  <2> TAKE x \in D
  <2> HAVE x.task \in DOMAIN h
  <2>1. CASE x \in N
    <3>1. x.task \in S /\ x.attempt = h[x.task].attempt /\ x.attempt \in Nat
      BY <1>1, <1>2, <1>3, <2>1
    <3> QED
      BY <3>1 DEF Callable
  <2>2. CASE x \in C /\ x.task \in S
    <3>1. h[x.task].attempt = g[x.task].attempt + 1 /\ g[x.task].attempt \in Nat
      BY <1>1, <1>2, <2>2
    <3> QED
      BY <1>4, <2>2, <3>1
  <2>3. CASE x \in C /\ x.task \notin S
    <3>1. h[x.task] = g[x.task] /\ x.task \in DOMAIN g
      BY <2>3
    <3> QED
      BY <2>3, <3>1 DEF CallsOK
  <2> QED
    BY <2>1, <2>2, <2>3
<1>12. \A t \in DOMAIN h :
         /\ h[t].approval_granted => t \in A
         /\ h[t].status \in {"verifying", "succeeded"} => Own(D, t, h[t].attempt)
  <2> TAKE t \in DOMAIN h
  <2>1. CASE t \in S
    BY <1>2, <2>1 DEF CallsOK
  <2>2. CASE t \notin S
    <3>1. h[t] = g[t] /\ t \in DOMAIN g
      BY <2>2
    <3> QED
      BY <3>1 DEF CallsOK, Own
  <2> QED
    BY <2>1, <2>2
<1>13. CallsOK(h, D, A)
  BY <1>7, <1>8, <1>9, <1>10, <1>11, <1>12 DEF CallsOK
<1> QED
  BY <1>13 DEF N, new

LEMMA ExecuteBatchKept ==
  ASSUME IInv, NEW c \in Controllers, ExecuteBatch(c)
  PROVE  IInv'
<1> DEFINE g == repo.tasks
<1>1. /\ PastHead(c) /\ NeedsApproval(g) = {}
      /\ UNCHANGED <<request, lease, cancelling, asked, faults, ops>>
  BY DEF ExecuteBatch
<1>2. PICK S \in SUBSET In(g, "ready") :
        /\ Save(c, With(Stop(repo, "running", "none"), Start(g, S)), "invoke")
        /\ batch' = [batch EXCEPT ![c] = [t \in S |-> "running"]]
        /\ calls' = calls \cup
             {[task |-> t, attempt |-> Start(g, S)[t].attempt, by |-> c,
               state |-> "running"] : t \in S}
  BY DEF ExecuteBatch
<1> DEFINE h == Start(g, S)
           N == {[task |-> t, attempt |-> h[t].attempt, by |-> c, state |-> "running"] : t \in S}
           z == With(Stop(repo, "running", "none"), h)
           out == [t \in S |-> "running"]
<1>3. /\ c \in fresh /\ DOMAIN g # {}
      /\ In(g, "waiting_approval") = {} /\ In(g, "running") = {}
  BY <1>1, PastHeadFits
<1>4. SnapOK(repo, request) /\ CallsOK(g, calls, asked) /\ GraphOK(g)
  BY <1>3, Standing
<1>5. /\ GraphOK(h) /\ DOMAIN h = DOMAIN g
      /\ \A t \in DOMAIN g \ S : h[t] = g[t]
      /\ \A t \in S : /\ h[t].status = "running" /\ h[t].attempt = g[t].attempt + 1
                      /\ h[t].approval_granted = g[t].approval_granted
  BY <1>4, StartEffect
<1>6. /\ repo' = z /\ fresh' = {c} /\ pc' = [pc EXCEPT ![c] = "invoke"]
      /\ calls' = calls \cup N /\ batch'[c] = out /\ batch' = [batch EXCEPT ![c] = out]
  BY <1>2 DEF Save, IInv
<1> HIDE DEF h
<1>7. \A t \in S \cap requiresApproval : g[t].approval_granted
  BY <1>1 DEF NeedsApproval
<1>8. CallsOK(h, calls', asked')
  <2> HIDE DEF g, z, out
  <2>1. CallsOK(h, calls \cup N, asked)
    <3>1. CallsOK(g, calls, asked) /\ GraphOK(g) /\ DOMAIN h = DOMAIN g
      BY <1>4, <1>5
    <3>2. \A t \in DOMAIN g \ S : h[t] = g[t]
      BY <1>5
    <3>3. \A t \in S : /\ h[t].status = "running" /\ h[t].attempt = g[t].attempt + 1
                      /\ h[t].approval_granted = g[t].approval_granted
      BY <1>5
    <3> QED
      BY <3>1, <3>2, <3>3, <1>7, NewCallsSound
  <2> QED
    BY <1>1, <1>6, <2>1
<1>9. SnapOK(z, request) /\ z.tasks = h /\ z.status = "running"
  <2>1. "running" \in Statuses \ {"completed"}
    BY DEF Statuses, Terminal
  <2> QED
    BY <1>4, <1>5, <2>1, WithEffect
<1>10. S \subseteq DOMAIN g /\ S \subseteq Tasks
  BY <1>4 DEF In, GraphOK, Loads, IsGraph
<1>11. \A t \in S : [task |-> t, attempt |-> h[t].attempt, by |-> c, state |-> "running"] \in calls'
  BY <1>6
<1> HIDE DEF N, z
<1>12. Frame
  BY <1>1, <1>6, <1>10 DEF IInv, Frame
<1>13. DOMAIN out = S /\ \A t \in S : out[t] = "running"
  OBVIOUS
<1> HIDE DEF out
<1>14. Fit(z, "invoke", batch'[c], calls', c)
  <2>1. In(h, "waiting_approval") = {} /\ In(h, "running") \subseteq S
    BY <1>3, <1>5 DEF In
  <2>2. \A t \in S : OutcomeFits(h, "invoke", calls', c, t, "running")
    BY <1>5, <1>10, <1>11 DEF OutcomeFits
  <2> QED
    BY <1>3, <1>5, <1>6, <1>9, <1>13, <2>1, <2>2 DEF Fit, Planned, Working, Terminal
<1> QED
  BY <1>6, <1>8, <1>9, <1>12, <1>14, SaveKept

-----------------------------------------------------------------------------
(* Outcomes                                                                 *)

LEMMA AgentReturnsKept ==
  ASSUME IInv, NEW c \in Controllers, NEW t \in Tasks, NEW outcome \in {"ok", "bad"},
         AgentReturns(c, t, outcome)
  PROVE  IInv'
<1> DEFINE out == [batch[c] EXCEPT ![t] = outcome]
           D == Became(c, {t}, "running", outcome)
<1>1. /\ pc[c] = "invoke" /\ t \in DOMAIN batch[c] /\ batch[c][t] = "running"
      /\ batch' = [batch EXCEPT ![c] = out] /\ calls' = D
      /\ UNCHANGED <<request, repo, lease, fresh, pc, cancelling, asked>>
  BY DEF AgentReturns, IInv
<1>2. CallsOK(repo.tasks, calls, asked)
  BY DEF IInv
<1>3. /\ CallsOK(repo.tasks, D, asked)
      /\ \A x \in calls : x.by # c \/ x.state # "running" => x \in D
      /\ \A x \in calls : x.by = c /\ x.task = t /\ x.state = "running" =>
           \E y \in D : y.task = x.task /\ y.attempt = x.attempt /\ y.by = c /\ y.state = outcome
      /\ \A x \in calls : x.task # t => x \in D
  BY <1>2, BecameEffect
<1> HIDE DEF D
<1>4. /\ DOMAIN out = DOMAIN batch[c] /\ out[t] = outcome
      /\ \A u \in DOMAIN out \ {t} : out[u] = batch[c][u]
  BY <1>1
<1> HIDE DEF out
<1>5. /\ batch'[c] = out /\ DOMAIN batch' = Controllers
      /\ \A d \in Controllers \ {c} : pc'[d] = pc[d] /\ batch'[d] = batch[d]
  BY <1>1 DEF IInv
<1>6. Frame
  BY <1>1, <1>4, <1>5 DEF IInv, Frame
<1>7. ASSUME c \in fresh PROVE Fit(repo, "invoke", out, calls', c)
  <2>1. Fit(repo, "invoke", batch[c], calls, c)
    BY <1>1, <1>7, Standing
  <2>2. ASSUME NEW u \in DOMAIN out PROVE OutcomeFits(repo.tasks, "invoke", calls', c, u, out[u])
    <3>1. OutcomeFits(repo.tasks, "invoke", calls, c, u, batch[c][u])
      BY <1>4, <2>1, <2>2 DEF Fit, Working
    <3>2. CASE u = t
      <4>1. PICK x \in calls : x.task = t /\ x.attempt = repo.tasks[t].attempt /\ x.by = c /\ x.state = "running"
        BY <1>1, <3>1, <3>2 DEF OutcomeFits
      <4>2. \E y \in calls' : y.task = t /\ y.attempt = repo.tasks[t].attempt /\ y.by = c /\ y.state = outcome
        BY <1>1, <1>3, <4>1
      <4> QED
        BY <1>4, <3>1, <3>2, <4>2 DEF OutcomeFits
    <3>3. CASE u # t
      BY <1>1, <1>3, <1>4, <2>2, <3>1, <3>3 DEF OutcomeFits
    <3> QED
      BY <3>2, <3>3
  <2> QED
    BY <1>4, <2>1, <2>2 DEF Fit, Planned, Working
<1>8. c \in fresh' => Fit(repo, pc'[c], batch'[c], calls', c)
  BY <1>1, <1>5, <1>7
<1> QED
  BY <1>1, <1>3, <1>5, <1>6, <1>8, NoSaveKept

LEMMA ReturnedKept ==
  ASSUME IInv, NEW c \in Controllers, Returned(c)
  PROVE  IInv'
<1> DEFINE g == repo.tasks
           S == Outcomes(c, {"ok"})
           out == batch[c]
<1>1. pc[c] = "invoke" /\ Outcomes(c, {"running"}) = {} /\ c \in fresh /\ UNCHANGED local
  BY DEF Returned
<1>2. /\ SnapOK(repo, request) /\ CallsOK(g, calls, asked) /\ GraphOK(g)
      /\ Fit(repo, "invoke", out, calls, c)
  BY <1>1, Standing
<1>3. /\ DOMAIN g # {} /\ In(g, "waiting_approval") = {} /\ In(g, "running") \subseteq DOMAIN out
      /\ \A t \in DOMAIN out : OutcomeFits(g, "invoke", calls, c, t, out[t])
      /\ repo.status \notin Terminal
  BY <1>2 DEF Fit, Planned, Working
<1>4. \A t \in DOMAIN out :
        /\ t \in DOMAIN g /\ g[t].status = "running" /\ out[t] \in {"ok", "bad"}
        /\ \E x \in calls : /\ x.task = t /\ x.attempt = g[t].attempt
                            /\ x.by = c /\ x.state = out[t]
  BY <1>1, <1>3 DEF OutcomeFits, Outcomes
<1>5. CASE S = {} /\ pc' = [pc EXCEPT ![c] = "apply"] /\ UNCHANGED <<repo, fresh>>
  <2>1. \A t \in DOMAIN out : out[t] = "bad"
    BY <1>4, <1>5 DEF Outcomes
  <2>2. Fit(repo, "apply", out, calls, c)
    BY <1>3, <1>4, <2>1 DEF Fit, Planned, Working, OutcomeFits
  <2>3. DOMAIN out \subseteq Tasks
    BY DEF IInv
  <2>4. UNCHANGED <<request, repo, fresh, lease, cancelling, calls, asked>> /\ batch' = batch
    BY <1>1, <1>5 DEF local
  <2> QED
    BY <1>5, <2>2, <2>3, <2>4, QuietKept
<1>6. CASE Save(c, With(Stop(repo, "running", "none"), BeginVerification(g, S)), "verify")
  <2> DEFINE h == BeginVerification(g, S)
             z == With(Stop(repo, "running", "none"), h)
  <2>1. S \in SUBSET In(g, "running") /\ S \subseteq DOMAIN out /\ \A t \in DOMAIN out : t \in S <=> out[t] = "ok"
    BY <1>4 DEF Outcomes, In
  <2>2. Save(c, z, "verify")
    BY <1>6
  <2> HIDE DEF S, out
  <2>3. /\ GraphOK(h) /\ DOMAIN h = DOMAIN g
        /\ \A t \in DOMAIN g \ S : h[t] = g[t]
        /\ \A t \in S : /\ h[t].status = "verifying" /\ h[t].attempt = g[t].attempt
                        /\ h[t].approval_granted = g[t].approval_granted
    BY <1>2, <2>1, BeginVerificationEffect
  <2> HIDE DEF h
  <2>4. SnapOK(z, request) /\ z.tasks = h /\ z.status = "running"
    <3>1. "running" \in Statuses \ {"completed"}
      BY DEF Statuses, Terminal
    <3> QED
      BY <1>2, <2>3, <3>1, WithEffect
  <2> HIDE DEF z
  <2>5. CallsOK(h, calls, asked)
    <3>1. asked \subseteq Tasks \cup {Review}
      BY <1>2 DEF CallsOK
    <3>2. \A t \in S : Own(calls, t, g[t].attempt)
      BY <1>4, <2>1 DEF Own
    <3>3. \A u \in DOMAIN g :
            /\ h[u].attempt = g[u].attempt
            /\ h[u].approval_granted => g[u].approval_granted
            /\ h[u].status \in Callable => g[u].status \in Callable
            /\ h[u].status \in {"verifying", "succeeded"} =>
                 g[u].status \in {"verifying", "succeeded"} \/ Own(calls, u, g[u].attempt)
      BY <2>3, <3>2 DEF Callable
    <3> HIDE DEF g
    <3> QED
      BY <1>2, <2>3, <3>1, <3>3, CallsStay
  <2>6. Fit(z, "verify", out, calls, c)
    <3>1. In(h, "waiting_approval") = {} /\ In(h, "running") \subseteq DOMAIN out
      BY <1>3, <2>3 DEF In
    <3>2. ASSUME NEW t \in DOMAIN out PROVE OutcomeFits(h, "verify", calls, c, t, out[t])
      <4>1. CASE t \in S
        BY <1>4, <2>1, <2>3, <3>2, <4>1 DEF OutcomeFits
      <4>2. CASE t \notin S
        <5>1. h[t] = g[t] /\ out[t] = "bad" /\ t \in DOMAIN h
          BY <1>4, <2>1, <2>3, <3>2, <4>2
        <5> QED
          BY <1>4, <3>2, <5>1 DEF OutcomeFits
      <4> QED
        BY <4>1, <4>2
    <3> QED
      BY <1>3, <2>3, <2>4, <3>1, <3>2 DEF Fit, Planned, Working, Terminal
  <2> QED
    BY <1>1, <2>2, <2>4, <2>5, <2>6, LocalSaveKept DEF out
<1> QED
  BY <1>5, <1>6 DEF Returned

LEMMA VerifierReturnsKept ==
  ASSUME IInv, NEW c \in Controllers, NEW t \in Tasks,
         NEW verdict \in {"passed", "failed", "error"}, VerifierReturns(c, t, verdict)
  PROVE  IInv'
<1> DEFINE out == [batch[c] EXCEPT ![t] = verdict]
<1>1. /\ pc[c] = "verify" /\ t \in DOMAIN batch[c] /\ batch[c][t] = "ok"
      /\ batch' = [batch EXCEPT ![c] = out]
      /\ UNCHANGED <<request, repo, lease, fresh, pc, cancelling, calls, asked>>
  BY DEF VerifierReturns, Outcomes, IInv
<1>2. /\ DOMAIN out = DOMAIN batch[c] /\ out[t] = verdict
      /\ \A u \in DOMAIN out \ {t} : out[u] = batch[c][u]
  BY <1>1
<1> HIDE DEF out
<1>3. /\ batch'[c] = out /\ DOMAIN batch' = Controllers
      /\ \A d \in Controllers \ {c} : pc'[d] = pc[d] /\ batch'[d] = batch[d]
  BY <1>1 DEF IInv
<1>4. Frame
  BY <1>1, <1>2, <1>3 DEF IInv, Frame
<1>5. ASSUME c \in fresh PROVE Fit(repo, "verify", out, calls, c)
  <2>1. Fit(repo, "verify", batch[c], calls, c)
    BY <1>1, <1>5, Standing
  <2>2. \A u \in DOMAIN out : OutcomeFits(repo.tasks, "verify", calls, c, u, out[u])
    <3> TAKE u \in DOMAIN out
    <3>1. OutcomeFits(repo.tasks, "verify", calls, c, u, batch[c][u])
      BY <1>2, <2>1 DEF Fit, Working
    <3> QED
      BY <1>1, <1>2, <3>1 DEF OutcomeFits
  <2> QED
    BY <1>2, <2>1, <2>2 DEF Fit, Planned, Working
<1>6. c \in fresh' => Fit(repo, pc'[c], batch'[c], calls', c)
  BY <1>1, <1>3, <1>5
<1>7. CallsOK(repo.tasks, calls', asked)
  BY <1>1 DEF IInv
<1> QED
  BY <1>1, <1>3, <1>4, <1>6, <1>7, NoSaveKept

LEMMA VerifiedKept ==
  ASSUME IInv, NEW c \in Controllers, Verified(c)
  PROVE  IInv'
<1>1. /\ pc[c] = "verify" /\ Outcomes(c, {"ok"}) = {} /\ pc' = [pc EXCEPT ![c] = "apply"]
      /\ batch' = batch
      /\ UNCHANGED <<request, repo, fresh, lease, cancelling, calls, asked>>
  BY DEF Verified, local
<1>2. ASSUME c \in fresh PROVE Fit(repo, "apply", batch[c], calls, c)
  <2>1. Fit(repo, "verify", batch[c], calls, c)
    BY <1>1, <1>2, Standing
  <2>2. \A u \in DOMAIN batch[c] : batch[c][u] # "ok"
    BY <1>1 DEF Outcomes
  <2>3. \A u \in DOMAIN batch[c] : OutcomeFits(repo.tasks, "apply", calls, c, u, batch[c][u])
    BY <2>1, <2>2 DEF OutcomeFits, Fit, Working
  <2> QED
    BY <2>1, <2>3 DEF Fit, Planned, Working
<1>3. DOMAIN batch[c] \subseteq Tasks
  BY DEF IInv
<1> QED
  BY <1>1, <1>2, <1>3, QuietKept

LEMMA RecordVerdictKept ==
  ASSUME IInv, NEW c \in Controllers, NEW t \in Tasks, RecordVerdict(c, t)
  PROVE  IInv'
<1> DEFINE g == repo.tasks
           out == batch[c]
           v == out[t]
           h == RecordVerification(g, t, v)
           z == With(Stop(repo, "running", "none"), h)
<1>1. /\ pc[c] = "apply" /\ t \in DOMAIN out /\ v \in {"passed", "failed"} /\ c \in fresh
      /\ Save(c, z, "apply") /\ UNCHANGED local
  BY DEF RecordVerdict, Outcomes
<1>2. /\ SnapOK(repo, request) /\ CallsOK(g, calls, asked) /\ GraphOK(g)
      /\ Fit(repo, "apply", out, calls, c)
  BY <1>1, Standing
<1>3. /\ DOMAIN g # {} /\ In(g, "waiting_approval") = {} /\ In(g, "running") \subseteq DOMAIN out
      /\ \A u \in DOMAIN out : OutcomeFits(g, "apply", calls, c, u, out[u])
  BY <1>2 DEF Fit, Planned, Working
<1>4. t \in In(g, "verifying")
  BY <1>1, <1>3 DEF OutcomeFits, In
<1> HIDE DEF out, v
<1>5. /\ GraphOK(h) /\ OnlyAt(g, h, t) /\ h[t].status = "verifying"
      /\ h[t].approval_granted = g[t].approval_granted
  BY <1>1, <1>2, <1>4, RecordVerificationEffect
<1> HIDE DEF h
<1>6. /\ DOMAIN h = DOMAIN g
      /\ \A u \in DOMAIN g : /\ h[u].attempt = g[u].attempt /\ h[u].status = g[u].status
                             /\ h[u].approval_granted = g[u].approval_granted
  BY <1>4, <1>5 DEF OnlyAt, In
<1>7. SnapOK(z, request) /\ z.tasks = h /\ z.status = "running"
  <2>1. "running" \in Statuses \ {"completed"}
    BY DEF Statuses, Terminal
  <2> QED
    BY <1>2, <1>5, <1>6, <2>1, WithEffect
<1> HIDE DEF z
<1>8. CallsOK(h, calls, asked)
  <2>1. asked \subseteq Tasks \cup {Review}
    BY <1>2 DEF CallsOK
  <2> HIDE DEF g
  <2> QED
    BY <1>2, <1>6, <2>1, CallsStay
<1>9. Fit(z, "apply", out, calls, c)
  <2>1. \A u \in DOMAIN out : OutcomeFits(h, "apply", calls, c, u, out[u])
    BY <1>3, <1>6 DEF OutcomeFits
  <2>2. In(h, "waiting_approval") = {} /\ In(h, "running") \subseteq DOMAIN out
    BY <1>3, <1>6 DEF In
  <2> QED
    BY <1>3, <1>6, <1>7, <2>1, <2>2 DEF Fit, Planned, Working, Terminal
<1> QED
  BY <1>1, <1>7, <1>8, <1>9, LocalSaveKept DEF out

\* The verifier rejected what the calls for t returned.
LEMMA JudgedEffect ==
  ASSUME NEW g, NEW h, CallsOK(g, calls, asked), NEW t \in DOMAIN g,
         g[t].status = "verifying", DOMAIN h = DOMAIN g,
         \A u \in DOMAIN g :
           /\ h[u].attempt = g[u].attempt
           /\ h[u].approval_granted => g[u].approval_granted
           /\ u # t /\ h[u].status \in Callable => g[u].status \in Callable
           /\ h[u].status \in {"verifying", "succeeded"} =>
                u # t /\ g[u].status \in {"verifying", "succeeded"}
  PROVE  CallsOK(h, Judged(t), asked) /\ \A x \in calls : x.task # t => x \in Judged(t)
<1> DEFINE f == [x \in calls |-> IF x.task = t /\ x.state = "ok"
                                 THEN [x EXCEPT !.state = "rejected"] ELSE x]
<1>1. /\ DOMAIN f = calls
      /\ \A x \in calls : f[x] = IF x.task = t /\ x.state = "ok"
                                 THEN [x EXCEPT !.state = "rejected"] ELSE x
  OBVIOUS
<1>2. Judged(t) = {f[x] : x \in calls}
  BY DEF Judged
<1> HIDE DEF f
<1>3. calls \subseteq Call /\ asked \subseteq Tasks \cup {Review}
  BY DEF CallsOK
<1>4. \A x \in calls :
        /\ SameCall(x, f[x])
        /\ x.task # t => f[x] = x
        /\ x.task = t /\ x.state = "ok" => Failed(f[x])
  <2> TAKE x \in calls
  <2>1. x \in Call
    BY <1>3
  <2>2. CASE x.task = t /\ x.state = "ok"
    <3>1. /\ f[x] = [x EXCEPT !.state = "rejected"]
          /\ f[x].state = "rejected" /\ f[x].task = x.task /\ f[x].attempt = x.attempt
          /\ f[x].by = x.by /\ f[x] \in Call
      BY <1>1, <2>1, <2>2 DEF Call
    <3> QED
      BY <2>2, <3>1 DEF SameCall, Failed
  <2>3. CASE ~ (x.task = t /\ x.state = "ok")
    <3>1. f[x] = x
      BY <1>1, <2>3
    <3> QED
      BY <2>1, <2>3, <3>1 DEF SameCall
  <2> QED
    BY <2>2, <2>3
<1>5. \A x \in calls : x.task = t => t \in replaySafe \/ Failed(f[x])
  <2> TAKE x \in calls
  <2> HAVE x.task = t
  <2>1. CASE Failed(x)
    BY <1>4, <2>1 DEF SameCall
  <2>2. CASE x.attempt = g[t].attempt
    <3>1. PICK y \in calls : y.task = t /\ y.attempt = g[t].attempt /\ y.state = "ok"
      BY DEF CallsOK, Own
    <3>2. x = y
      BY <2>2, <3>1 DEF CallsOK
    <3> QED
      BY <1>4, <3>1, <3>2
  <2> QED
    BY <2>1, <2>2 DEF CallsOK
<1>6. \A u \in DOMAIN g :
        /\ h[u].attempt = g[u].attempt
        /\ h[u].approval_granted => g[u].approval_granted
        /\ h[u].status \in Callable =>
             \/ u \in replaySafe \/ g[u].status \in Callable
             \/ \A x \in calls : x.task = u => Failed(f[x])
        /\ h[u].status \in {"verifying", "succeeded"} =>
             \E x \in calls : x.task = u /\ x.attempt = g[u].attempt /\ f[x].state = "ok"
  <2> TAKE u \in DOMAIN g
  <2>1. CASE u = t
    BY <1>5, <2>1
  <2>2. CASE u # t
    <3>1. h[u].status \in {"verifying", "succeeded"} => Own(calls, u, g[u].attempt)
      BY <2>2 DEF CallsOK
    <3> QED
      BY <1>4, <2>2, <3>1 DEF Own
  <2> QED
    BY <2>1, <2>2
<1>7. CallsOK(h, {f[x] : x \in calls}, asked)
  BY <1>1, <1>3, <1>4, <1>6, CallsGoOn
<1>8. \A x \in calls : x.task # t => x \in {f[y] : y \in calls}
  BY <1>4
<1> QED
  BY <1>2, <1>7, <1>8

\* What became of the task whose outcome was applied, and of those that waited.
LEMMA AppliedEffect ==
  ASSUME NEW g, GraphOK(g), NEW t \in DOMAIN g, NEW outcome \in {"bad", "passed", "failed", "error"},
         outcome = "bad" <=> g[t].status = "running", outcome # "bad" => g[t].status = "verifying",
         outcome = "passed" => g[t].verification = "passed"
  PROVE  LET h == Applied(g, t, outcome) IN
         /\ GraphOK(h) /\ DOMAIN h = DOMAIN g
         /\ \A u \in DOMAIN g \ {t} :
              /\ h[u].attempt = g[u].attempt /\ h[u].approval_granted = g[u].approval_granted
              /\ \/ h[u].status = g[u].status
                 \/ g[u].status = "pending" /\ h[u].status \in {"ready", "blocked"}
         /\ h[t].attempt = g[t].attempt /\ h[t].approval_granted = g[t].approval_granted
         /\ IF outcome = "passed" THEN h[t].status = "succeeded"
            ELSE h[t].status \in {"ready", "failed"}
<1> DEFINE h == Applied(g, t, outcome)
           r == IF outcome = "bad" THEN "bad" ELSE "ok"
           v == IF outcome = "failed" THEN "failed" ELSE "none"
<1>1. r \in {"ok", "bad"} /\ v \in {"none", "failed"}
  OBVIOUS
<1>2. t \in In(g, "running") \cup In(g, "verifying") /\ g[t].status \in {"running", "verifying"}
  BY DEF In
<1>3. CASE outcome = "passed"
  <2>1. h = Succeed(g, t) /\ t \in In(g, "verifying")
    BY <1>2, <1>3 DEF Applied, In
  <2>2. GraphOK(h) /\ EndedIn(g, h, t, "succeeded")
    BY <1>3, <2>1, SucceedEffect
  <2> HIDE DEF h
  <2> QED
    BY <1>3, <2>2 DEF EndedIn, h
<1>4. CASE outcome # "passed" /\ h = Retry(g, t, r, v)
  <2> HIDE DEF r, v
  <2>1. /\ GraphOK(h) /\ OnlyAt(g, h, t) /\ h[t].status = "ready"
        /\ h[t].approval_granted = g[t].approval_granted
    BY <1>1, <1>2, <1>4, RetryEffect
  <2> HIDE DEF h
  <2> QED
    BY <1>4, <2>1 DEF OnlyAt, h
<1>5. CASE outcome # "passed" /\ h = Fail(g, t, r, v)
  <2> HIDE DEF r, v
  <2>1. GraphOK(h) /\ EndedIn(g, h, t, "failed")
    BY <1>1, <1>2, <1>5, FailEffect
  <2> HIDE DEF h
  <2> QED
    BY <1>5, <2>1 DEF EndedIn, h
<1> QED
  BY <1>3, <1>4, <1>5 DEF Applied

LEMMA ApplyOutcomeKept ==
  ASSUME IInv, NEW c \in Controllers, NEW t \in Tasks, ApplyOutcome(c, t)
  PROVE  IInv'
<1> DEFINE g == repo.tasks
           out == batch[c]
           o == out[t]
           rest == DOMAIN out \ {t}
           left == [x \in rest |-> out[x]]
           h == Applied(g, t, o)
           z == With(Stop(repo, "running", "none"), h)
           next == IF rest = {} THEN "exec" ELSE "apply"
<1>1. /\ pc[c] = "apply" /\ t \in DOMAIN out /\ c \in fresh
      /\ o \in {"passed", "failed"} => g[t].verification = o
      /\ repo' = z /\ fresh' = {c} /\ pc' = [pc EXCEPT ![c] = next]
      /\ batch' = [batch EXCEPT ![c] = left]
      /\ calls' = IF o \in {"failed", "error"} THEN Judged(t) ELSE calls
      /\ UNCHANGED <<request, lease, cancelling, asked>>
  BY DEF ApplyOutcome, Save
<1>2. /\ SnapOK(repo, request) /\ CallsOK(g, calls, asked) /\ GraphOK(g)
      /\ Fit(repo, "apply", out, calls, c)
  BY <1>1, Standing
<1>3. /\ DOMAIN g # {} /\ In(g, "waiting_approval") = {} /\ In(g, "running") \subseteq DOMAIN out
      /\ \A u \in DOMAIN out : OutcomeFits(g, "apply", calls, c, u, out[u])
  BY <1>2 DEF Fit, Planned, Working
<1>4. /\ t \in DOMAIN g
      /\ \/ /\ o = "bad" /\ g[t].status = "running"
            /\ \E x \in calls : x.task = t /\ x.attempt = g[t].attempt /\ x.state = "bad"
         \/ o \in {"passed", "failed", "error"} /\ g[t].status = "verifying"
  BY <1>1, <1>3 DEF OutcomeFits
<1>5. /\ DOMAIN left = rest /\ \A u \in rest : left[u] = out[u]
      /\ \A u \in rest : u \in DOMAIN out /\ u # t
      /\ DOMAIN out \subseteq rest \cup {t}
  OBVIOUS
<1>6. DOMAIN out \subseteq Tasks
  BY DEF IInv
<1>7. rest \subseteq Tasks
  BY <1>6
<1>8. batch'[c] = left /\ DOMAIN batch' = Controllers
  BY <1>1 DEF IInv
<1> HIDE DEF left, out, o
<1>9. /\ GraphOK(h) /\ DOMAIN h = DOMAIN g
      /\ \A u \in DOMAIN g \ {t} :
           /\ h[u].attempt = g[u].attempt /\ h[u].approval_granted = g[u].approval_granted
           /\ \/ h[u].status = g[u].status
              \/ g[u].status = "pending" /\ h[u].status \in {"ready", "blocked"}
      /\ h[t].attempt = g[t].attempt /\ h[t].approval_granted = g[t].approval_granted
      /\ IF o = "passed" THEN h[t].status = "succeeded" ELSE h[t].status \in {"ready", "failed"}
  BY <1>1, <1>2, <1>4, AppliedEffect
<1> HIDE DEF h
<1>10. SnapOK(z, request) /\ z.tasks = h /\ z.status = "running"
  <2>1. "running" \in Statuses \ {"completed"}
    BY DEF Statuses, Terminal
  <2> QED
    BY <1>2, <1>9, <2>1, WithEffect
<1> HIDE DEF z
<1>11. asked \subseteq Tasks \cup {Review}
  BY <1>2 DEF CallsOK
<1>12. CallsOK(h, calls', asked) /\ \A x \in calls : x.task # t => x \in calls'
  <2>1. CASE o = "passed"
    <3>1. \A u \in DOMAIN g :
            /\ h[u].attempt = g[u].attempt
            /\ h[u].approval_granted => g[u].approval_granted
            /\ h[u].status \in Callable => g[u].status \in Callable
            /\ h[u].status \in {"verifying", "succeeded"} => g[u].status \in {"verifying", "succeeded"}
      BY <1>4, <1>9, <2>1 DEF Callable
    <3>2. calls' = calls
      BY <1>1, <2>1
    <3> HIDE DEF g
    <3> QED
      BY <1>2, <1>9, <1>11, <3>1, <3>2, CallsStay
  <2>2. CASE o = "bad"
    <3>1. \A x \in calls : x.task = t => t \in replaySafe \/ Failed(x)
      <4>1. PICK y \in calls : y.task = t /\ y.attempt = g[t].attempt /\ y.state = "bad"
        BY <1>4, <2>2
      <4>2. \A x \in calls : x.task = t /\ x.attempt = g[t].attempt => x = y
        BY <1>2, <4>1 DEF CallsOK
      <4> QED
        BY <1>2, <1>4, <4>1, <4>2 DEF CallsOK, Failed
    <3>2. \A u \in DOMAIN g :
            /\ h[u].attempt = g[u].attempt
            /\ h[u].approval_granted => g[u].approval_granted
            /\ h[u].status \in Callable =>
                 \/ u \in replaySafe \/ g[u].status \in Callable
                 \/ \A x \in calls : x.task = u => Failed(x)
            /\ h[u].status \in {"verifying", "succeeded"} => g[u].status \in {"verifying", "succeeded"}
      <4> TAKE u \in DOMAIN g
      <4>1. CASE u = t
        BY <1>9, <2>2, <3>1, <4>1
      <4>2. CASE u # t
        BY <1>9, <4>2 DEF Callable
      <4> QED
        BY <4>1, <4>2
    <3>3. calls' = calls
      BY <1>1, <2>2
    <3> HIDE DEF g
    <3> QED
      BY <1>2, <1>9, <1>11, <3>2, <3>3, CallsStay
  <2>3. CASE o \in {"failed", "error"}
    <3>1. calls' = Judged(t) /\ g[t].status = "verifying"
      BY <1>1, <1>4, <2>3
    <3>2. \A u \in DOMAIN g :
            /\ h[u].attempt = g[u].attempt
            /\ h[u].approval_granted => g[u].approval_granted
            /\ u # t /\ h[u].status \in Callable => g[u].status \in Callable
            /\ h[u].status \in {"verifying", "succeeded"} =>
                 u # t /\ g[u].status \in {"verifying", "succeeded"}
      <4> TAKE u \in DOMAIN g
      <4>1. CASE u = t
        BY <1>9, <2>3, <4>1
      <4>2. CASE u # t
        BY <1>9, <4>2 DEF Callable
      <4> QED
        BY <4>1, <4>2
    <3> HIDE DEF g
    <3> QED
      BY <1>2, <1>4, <1>9, <3>1, <3>2, JudgedEffect
  <2> QED
    BY <1>4, <2>1, <2>2, <2>3
<1>13. Frame
  BY <1>1, <1>5, <1>7, <1>8 DEF IInv, Frame
<1>14. Fit(z, next, left, calls', c)
  <2>1. In(h, "waiting_approval") = {} /\ In(h, "running") \subseteq rest
    <3>1. \A u \in DOMAIN h : h[u].status # "waiting_approval" /\ (h[u].status = "running" => u \in rest)
      <4> TAKE u \in DOMAIN h
      <4>1. CASE u = t
        BY <1>9, <4>1
      <4>2. CASE u # t
        BY <1>3, <1>9, <4>2 DEF In
      <4> QED
        BY <4>1, <4>2
    <3> QED
      BY <3>1 DEF In
  <2>2. \A u \in rest : OutcomeFits(h, "apply", calls', c, u, left[u])
    <3> TAKE u \in rest
    <3>1. OutcomeFits(g, "apply", calls, c, u, out[u])
      BY <1>3, <1>5
    <3>2. u \in DOMAIN h /\ u # t
      BY <1>5, <1>9, <3>1 DEF OutcomeFits
    <3>3. h[u].status = g[u].status /\ h[u].attempt = g[u].attempt
      BY <1>9, <3>1, <3>2 DEF OutcomeFits
    <3> QED
      BY <1>5, <1>12, <3>1, <3>2, <3>3 DEF OutcomeFits
  <2>3. CASE rest = {}
    BY <1>3, <1>9, <1>10, <2>1, <2>3 DEF Fit, Planned, Working, Terminal
  <2>4. CASE rest # {}
    BY <1>3, <1>5, <1>9, <1>10, <2>1, <2>2, <2>4 DEF Fit, Planned, Working, Terminal
  <2> QED
    BY <2>3, <2>4
<1> QED
  BY <1>1, <1>8, <1>10, <1>12, <1>13, <1>14, SaveKept

-----------------------------------------------------------------------------
(* The review, failures and the end of a call                               *)

LEMMA AggregateKept ==
  ASSUME IInv, NEW c \in Controllers, Aggregate(c)
  PROVE  IInv'
<1>1. /\ pc[c] = "aggregate" /\ pc' = [pc EXCEPT ![c] = "review"] /\ batch' = batch
      /\ UNCHANGED <<request, repo, fresh, lease, cancelling, calls, asked>>
  BY DEF Aggregate, local
<1>2. c \in fresh => Fit(repo, "review", batch[c], calls, c)
  BY <1>1, Standing DEF Fit, Planned, Working
<1>3. DOMAIN batch[c] \subseteq Tasks
  BY DEF IInv
<1> QED
  BY <1>1, <1>2, <1>3, QuietKept

LEMMA ReviewedKept ==
  ASSUME IInv, NEW c \in Controllers, NEW action, Reviewed(c, action)
  PROVE  IInv'
<1> DEFINE g == repo.tasks
<1>1. pc[c] = "review" /\ c \in fresh /\ UNCHANGED local
  BY DEF Reviewed
<1>2. /\ request \in Requests /\ SnapOK(repo, request) /\ CallsOK(g, calls, asked)
      /\ DOMAIN g # {} /\ AllSucceeded(g)
  BY <1>1, Standing DEF Fit, Planned
<1>3. repo.cycle # 0 /\ repo.cycle \in 0 .. request.max_cycles
  BY <1>2 DEF SnapOK
<1>4. Archived(repo) \subseteq 1 .. repo.cycle /\ repo.cycle \in Archived(repo)
  BY <1>2, <1>3, LimitsTyped, ArchivedTyped DEF Archived
<1>5. CASE Save(c, [Stop(repo, "completed", "completed") EXCEPT
                      !.history = Archived(repo), !.pending = None], "done")
  <2> DEFINE z == [Stop(repo, "completed", "completed") EXCEPT
                     !.history = Archived(repo), !.pending = None]
  <2>1. /\ DOMAIN z = Fields /\ z.status = "completed" /\ z.reason = "completed"
        /\ z.tasks = g /\ z.cycle = repo.cycle /\ z.revision = repo.revision
        /\ z.history = Archived(repo) /\ z.pending = None /\ z.approved = repo.approved
    BY <1>2 DEF Stop, SnapOK, Fields
  <2> HIDE DEF z
  <2>2. SnapOK(z, request)
    BY <1>2, <1>3, <1>4, <2>1 DEF SnapOK, Statuses, Terminal
  <2> QED
    BY <1>1, <1>2, <1>5, <2>1, <2>2, LastSaveKept DEF z
<1>6. CASE Replan(c)
  BY <1>1, <1>2, <1>6, ReplanKept
<1>7. CASE Save(c, [Stop(repo, "paused", "approval_deferred") EXCEPT !.pending = Review], "done")
  <2> DEFINE z == [Stop(repo, "paused", "approval_deferred") EXCEPT !.pending = Review]
  <2>1. /\ DOMAIN z = Fields /\ z.status = "paused" /\ z.reason = "approval_deferred"
        /\ z.tasks = g /\ z.cycle = repo.cycle /\ z.revision = repo.revision
        /\ z.history = repo.history /\ z.pending = Review /\ z.approved = repo.approved
    BY <1>2 DEF Stop, SnapOK, Fields
  <2> HIDE DEF z
  <2>2. SnapOK(z, request)
    BY <1>2, <1>3, <2>1 DEF SnapOK, Statuses, Terminal
  <2> QED
    BY <1>1, <1>2, <1>7, <2>1, <2>2, LastSaveKept DEF z
<1>8. CASE Save(c, [Stop(repo, "failed", "review_stopped") EXCEPT !.history = Archived(repo)], "done")
  <2> DEFINE z == [Stop(repo, "failed", "review_stopped") EXCEPT !.history = Archived(repo)]
  <2>1. /\ DOMAIN z = Fields /\ z.status = "failed" /\ z.reason = "review_stopped"
        /\ z.tasks = g /\ z.cycle = repo.cycle /\ z.revision = repo.revision
        /\ z.history = Archived(repo) /\ z.pending = repo.pending /\ z.approved = repo.approved
    BY <1>2 DEF Stop, SnapOK, Fields
  <2> HIDE DEF z
  <2>2. SnapOK(z, request)
    BY <1>2, <1>3, <1>4, <2>1 DEF SnapOK, Statuses, Terminal
  <2> QED
    BY <1>1, <1>2, <1>8, <2>1, <2>2, LastSaveKept DEF z
<1> QED
  BY <1>5, <1>6, <1>7, <1>8 DEF Reviewed

LEMMA MarkKept ==
  ASSUME IInv, NEW c \in Controllers, Mark(c)
  PROVE  IInv'
<1>1. c \in fresh /\ UNCHANGED local
  BY DEF Mark, Save
<1>2. SnapOK(repo, request) /\ CallsOK(repo.tasks, calls, asked)
  BY <1>1, Standing
<1>3. CASE Save(c, Stop(repo, "blocked", "budget_exhausted"), "leave")
  <2> DEFINE z == Stop(repo, "blocked", "budget_exhausted")
  <2>1. SnapOK(z, request) /\ z.tasks = repo.tasks
    BY <1>2, StopEffect DEF Statuses, Terminal
  <2> HIDE DEF z
  <2> QED
    BY <1>1, <1>2, <1>3, <2>1, LastSaveKept DEF z
<1>4. ASSUME NEW status \in {"cancelled", "timed_out", "failed"}, NEW reason, reason # "deadlock",
             Save(c, With(Stop(repo, status, reason), CancelAll(repo.tasks)), "leave")
      PROVE  IInv'
  <2> DEFINE z == With(Stop(repo, status, reason), CancelAll(repo.tasks))
  <2>1. status \in Statuses \ {"completed"}
    BY DEF Statuses, Terminal
  <2>2. SnapOK(z, request) /\ CallsOK(z.tasks, calls, asked)
    BY <1>2, <1>4, <2>1, EndSnap
  <2> HIDE DEF z
  <2> QED
    BY <1>1, <1>4, <2>2, LastSaveKept DEF z
<1>5. CASE \E status \in {"cancelled", "timed_out"} :
             Save(c, With(Stop(repo, status, status), CancelAll(repo.tasks)), "leave")
  BY <1>4, <1>5
<1>6. CASE Save(c, With(Stop(repo, "failed", "component_error"), CancelAll(repo.tasks)), "leave")
  BY <1>4, <1>6
<1> QED
  BY <1>3, <1>5, <1>6 DEF Mark

\* A step that takes its copy away from controller c.
LEMMA LetGoKept ==
  ASSUME IInv, NEW c \in Controllers, NEW S, c \notin fresh',
         request' = request, repo' = repo, asked' = asked,
         lease' \in Controllers \cup {None}, cancelling' \subseteq cancelling,
         fresh' \subseteq fresh, NEW p, pc' = [pc EXCEPT ![c] = p],
         batch' = batch \/ batch' = [batch EXCEPT ![c] = NoGraph],
         calls' = calls \/ calls' = Became(c, S, "running", "lost")
  PROVE  IInv'
<1>1. CallsOK(repo.tasks, calls, asked)
  BY DEF IInv
<1>2. CallsOK(repo.tasks, calls', asked) /\ \A x \in calls : x.by # c => x \in calls'
  BY <1>1, BecameEffect
<1>3. /\ DOMAIN batch' = Controllers /\ DOMAIN pc' = Controllers
      /\ \A d \in Controllers \ {c} : pc'[d] = pc[d] /\ batch'[d] = batch[d]
      /\ batch'[c] = batch[c] \/ batch'[c] = NoGraph
  BY DEF IInv
<1>4. \A d \in Controllers : DOMAIN batch'[d] \subseteq Tasks
  <2> TAKE d \in Controllers
  <2>1. DOMAIN batch[d] \subseteq Tasks /\ DOMAIN NoGraph \subseteq Tasks
    BY DEF IInv, NoGraph
  <2> QED
    BY <1>3, <2>1
<1>5. Frame
  BY <1>3, <1>4 DEF IInv, Frame
<1> QED
  BY <1>2, <1>3, <1>5, NoSaveKept

LEMMA ConflictKept ==
  ASSUME IInv, NEW c \in Controllers, Conflict(c)
  PROVE  IInv'
<1>1. /\ c \notin fresh' /\ pc' = [pc EXCEPT ![c] = "leave"]
      /\ request' = request /\ repo' = repo /\ asked' = asked /\ lease' = lease
      /\ cancelling' = cancelling /\ fresh' = fresh /\ batch' = batch /\ calls' = calls
  BY DEF Conflict, local
<1>2. lease' \in Controllers \cup {None}
  BY <1>1 DEF IInv
<1> QED
  BY <1>1, <1>2, LetGoKept

LEMMA FinishKept ==
  ASSUME IInv, NEW c \in Controllers, Finish(c)
  PROVE  IInv'
<1>1. /\ c \notin fresh' /\ pc' = [pc EXCEPT ![c] = "idle"]
      /\ request' = request /\ repo' = repo /\ asked' = asked
      /\ cancelling' \subseteq cancelling /\ fresh' \subseteq fresh
      /\ batch' = [batch EXCEPT ![c] = NoGraph] /\ calls' = calls
  BY DEF Finish
<1>2. lease' \in Controllers \cup {None}
  BY DEF Finish, IInv
<1> QED
  BY <1>1, <1>2, LetGoKept

LEMMA CrashKept ==
  ASSUME IInv, NEW c \in Controllers, Crash(c)
  PROVE  IInv'
<1>1. /\ c \notin fresh' /\ pc' = [pc EXCEPT ![c] = "idle"]
      /\ request' = request /\ repo' = repo /\ asked' = asked /\ lease' = lease
      /\ cancelling' \subseteq cancelling /\ fresh' \subseteq fresh
      /\ batch' = [batch EXCEPT ![c] = NoGraph] /\ calls' = Became(c, Tasks, "running", "lost")
  BY DEF Crash
<1>2. lease' \in Controllers \cup {None}
  BY <1>1 DEF IInv
<1> QED
  BY <1>1, <1>2, LetGoKept

LEMMA InterruptedKept ==
  ASSUME IInv, NEW c \in Controllers, NEW kind \in DOMAIN MarkOf, Interrupted(c, kind)
  PROVE  IInv'
<1>1. PICK S : calls' = Became(c, S, "running", "lost")
  BY DEF Interrupted
<1>2. /\ batch' = [batch EXCEPT ![c] = NoGraph]
      /\ UNCHANGED <<request, repo, lease, cancelling, asked>>
      /\ \/ repo.status \in Terminal /\ pc' = [pc EXCEPT ![c] = "leave"] /\ fresh' = fresh
         \/ /\ repo.status \notin Terminal /\ pc' = [pc EXCEPT ![c] = MarkOf[kind]]
            /\ fresh' = fresh \cup {c}
  BY DEF Interrupted
<1>3. CallsOK(repo.tasks, calls, asked)
  BY DEF IInv
<1>4. CallsOK(repo.tasks, calls', asked) /\ \A x \in calls : x.by # c => x \in calls'
  BY <1>1, <1>3, BecameEffect
<1>5. /\ DOMAIN batch' = Controllers /\ DOMAIN pc' = Controllers /\ batch'[c] = NoGraph
      /\ \A d \in Controllers \ {c} : pc'[d] = pc[d] /\ batch'[d] = batch[d]
      /\ \/ repo.status \in Terminal /\ pc'[c] = "leave"
         \/ repo.status \notin Terminal /\ pc'[c] = MarkOf[kind]
  BY <1>2 DEF IInv
<1>6. \A d \in Controllers : DOMAIN batch'[d] \subseteq Tasks
  <2> TAKE d \in Controllers
  <2>1. DOMAIN batch[d] \subseteq Tasks /\ DOMAIN NoGraph \subseteq Tasks
    BY DEF IInv, NoGraph
  <2> QED
    BY <1>5, <2>1
<1>7. Frame
  BY <1>2, <1>5, <1>6 DEF IInv, Frame
<1>8. MarkOf[kind] \in Marks
  BY DEF MarkOf, Marks
<1>9. Fit(repo, pc'[c], batch'[c], calls', c)
  BY <1>5, <1>8, PlainFits DEF Plain
<1> QED
  BY <1>2, <1>4, <1>5, <1>7, <1>9, NoSaveKept

\* Nobody waits for the call, so no outcome speaks of it.
LEMMA OrphanEndsKept ==
  ASSUME IInv, NEW c \in Controllers, OrphanEnds(c)
  PROVE  IInv'
<1>1. /\ pc[c] # "invoke" /\ calls' = Became(c, Tasks, "running", "lost")
      /\ UNCHANGED <<request, repo, lease, fresh, pc, batch, cancelling, asked>>
  BY DEF OrphanEnds
<1>2. CallsOK(repo.tasks, calls, asked)
  BY DEF IInv
<1>3. /\ CallsOK(repo.tasks, calls', asked)
      /\ \A x \in calls : x.by # c \/ x.state # "running" => x \in calls'
  BY <1>1, <1>2, BecameEffect
<1>4. Frame
  BY <1>1 DEF IInv, Frame
<1>5. ASSUME c \in fresh' PROVE Fit(repo, pc'[c], batch'[c], calls', c)
  <2>1. Fit(repo, pc[c], batch[c], calls, c)
    BY <1>1, <1>5, Standing
  <2>2. \A t \in DOMAIN batch[c] :
          OutcomeFits(repo.tasks, pc[c], calls, c, t, batch[c][t])
            => OutcomeFits(repo.tasks, pc[c], calls', c, t, batch[c][t])
    BY <1>1, <1>3 DEF OutcomeFits
  <2>3. Fit(repo, pc[c], batch[c], calls', c)
    BY <2>1, <2>2 DEF Fit
  <2> QED
    BY <1>1, <2>3
<1> QED
  BY <1>1, <1>3, <1>4, <1>5, NoSaveKept

LEMMA LeaseEndsKept ==
  ASSUME IInv, DeadLeaseEnds \/ LiveLeaseEnds
  PROVE  IInv'
<1>1. /\ lease' = None
      /\ UNCHANGED <<request, repo, fresh, pc, batch, cancelling, calls, asked>>
  BY DEF DeadLeaseEnds, LiveLeaseEnds
<1> QED
  BY <1>1 DEF IInv

-----------------------------------------------------------------------------
(* The theorems                                                             *)

LEMMA InvInit == Init => IInv
<1> SUFFICES ASSUME Init PROVE IInv
  OBVIOUS
<1>1. /\ request \in Requests /\ repo = NoRun /\ lease = None /\ fresh = {} /\ cancelling = {}
      /\ DOMAIN pc = Controllers /\ DOMAIN batch = Controllers
      /\ \A c \in Controllers : DOMAIN batch[c] \subseteq Tasks
      /\ calls = {} /\ asked = {}
  BY DEF Init, NoGraph
<1>2. SnapOK(NoRun, request)
  <2>1. /\ DOMAIN NoRun = Fields /\ NoRun.status = "none" /\ NoRun.reason = "none"
        /\ NoRun.tasks = NoGraph /\ NoRun.cycle = 0 /\ NoRun.revision = 0
        /\ NoRun.history = {} /\ NoRun.pending = None /\ NoRun.approved = 0
    BY DEF NoRun, Fields
  <2>2. DOMAIN NoGraph = {}
    BY DEF NoGraph
  <2> QED
    BY <1>1, <2>1, <2>2, LimitsTyped, NoGraphOK DEF SnapOK, Statuses
<1>3. CallsOK(NoRun.tasks, {}, {})
  BY DEF CallsOK, NoRun, NoGraph
<1> QED
  BY <1>1, <1>2, <1>3 DEF IInv

LEMMA InvNext == IInv /\ [Next]_vars => IInv'
<1> SUFFICES ASSUME IInv, [Next]_vars PROVE IInv'
  OBVIOUS
<1>1. ASSUME NEW c \in Controllers, DriverStep(c) PROVE IInv'
  <2>1. CASE ClaimRun(c) \/ Begin(c) \/ RecoveryRequired(c) \/ Plan(c) \/ NoCapableAgent(c)
    BY <2>1, ClaimRunKept, BeginKept, PlanKept, BlockKept DEF RecoveryRequired, NoCapableAgent
  <2>2. CASE CancelSnapshot(c) \/ ResumeVerifying(c) \/ Complete(c) \/ FailTasks(c) \/ AskGate(c)
    BY <2>2, CancelSnapshotKept, ResumeVerifyingKept, CompleteKept, FailTasksKept, AskGateKept
  <2>3. CASE \E d \in {"approved", "deferred", "rejected"} : GateDecides(c, d)
    BY <2>3, GateDecidesKept
  <2>4. CASE ExecuteBatch(c) \/ NothingScheduled(c)
    BY <2>4, ExecuteBatchKept, NothingScheduledKept
  <2>5. CASE \E t \in Tasks :
               \/ \E o \in {"ok", "bad"} : AgentReturns(c, t, o)
               \/ \E v \in {"passed", "failed", "error"} : VerifierReturns(c, t, v)
               \/ RecordVerdict(c, t) \/ ApplyOutcome(c, t)
    BY <2>5, AgentReturnsKept, VerifierReturnsKept, RecordVerdictKept, ApplyOutcomeKept
  <2>6. CASE Returned(c) \/ Verified(c) \/ Aggregate(c)
    BY <2>6, ReturnedKept, VerifiedKept, AggregateKept
  <2>7. CASE \E a \in {"accept", "replan", "request_human", "stop"} : Reviewed(c, a)
    BY <2>7, ReviewedKept
  <2>8. CASE Mark(c) \/ Conflict(c) \/ Finish(c)
    BY <2>8, MarkKept, ConflictKept, FinishKept
  <2> QED
    BY <1>1, <2>1, <2>2, <2>3, <2>4, <2>5, <2>6, <2>7, <2>8 DEF DriverStep
<1>2. CASE \E c \in Controllers : OrphanEnds(c)
  BY <1>2, OrphanEndsKept
<1>3. CASE HostStep
  BY <1>3, RunKept, ResumeKept, CancelKept, SubmitKept DEF HostStep
<1>4. CASE FaultStep
  BY <1>4, CrashKept, InterruptedKept, LeaseEndsKept DEF FaultStep
<1>5. CASE DeadLeaseEnds
  BY <1>5, LeaseEndsKept
<1>6. CASE UNCHANGED vars
  BY <1>6 DEF vars, IInv
<1> QED
  BY <1>1, <1>2, <1>3, <1>4, <1>5, <1>6 DEF Next

\* What is stored is sound, and no call goes unjustified.
LEMMA InvImplies == IInv => TeamSound /\ CallsJustified
<1> SUFFICES ASSUME IInv PROVE TeamSound /\ CallsJustified
  OBVIOUS
<1> DEFINE g == repo.tasks
<1>1. /\ request \in Requests /\ SnapOK(repo, request) /\ CallsOK(g, calls, asked)
      /\ Loads(g)
  BY DEF IInv, SnapOK, GraphOK
<1>2. TypeOK
  BY <1>1 DEF IInv, SnapOK, TypeOK, Statuses, CallsOK, Call, Loads
<1>3. StoredGraphLoads
  BY <1>1 DEF StoredGraphLoads, Loads
<1>4. NoGraphDeadlock
  BY <1>1 DEF NoGraphDeadlock, SnapOK
<1>5. SuccessIsOwn
  BY <1>1 DEF SuccessIsOwn, CallsOK, Own, In
<1>6. CompletedMeansDone
  BY <1>1 DEF CompletedMeansDone, SnapOK, AllSucceeded, NoGraph
<1>7. NoBlindReplay
  BY <1>1 DEF NoBlindReplay, CallsOK, Failed
<1>8. OneCallPerAttempt /\ ApprovedFirst
  BY <1>1 DEF OneCallPerAttempt, ApprovedFirst, CallsOK
<1> QED
  BY <1>2, <1>3, <1>4, <1>5, <1>6, <1>7, <1>8 DEF TeamSound, CallsJustified

LEMMA Inductive == Spec => []IInv
BY InvInit, InvNext, PTL DEF Spec

\* TeamSound of TeamRun: whatever controllers, crashes, expired leases and
\* answers come together, what is stored loads again and can go on, each
\* success is the task's own, and a run is COMPLETED only with all of its
\* tasks done (TaskGraph.from_snapshot, _execute, _apply_outcome, _complete).
THEOREM TeamKeptSound == Spec => []TeamSound
<1>1. IInv => TeamSound
  BY InvImplies
<1> QED
  BY <1>1, Inductive, PTL

\* CallsJustified of TeamRun: an agent is called once per attempt, after the
\* approval the task needs, and again only when the earlier call is known to
\* have failed or the task is replay-safe (_execute_batch, recover_inflight).
THEOREM CallsKeptJustified == Spec => []CallsJustified
<1>1. IInv => CallsJustified
  BY InvImplies
<1> QED
  BY <1>1, Inductive, PTL

\* A controller that could still save over an ended run is on its way out.
LEMMA EndedFits ==
  ASSUME IInv, repo.status \in Terminal, NEW c, NEW s, NEW next, Save(c, s, next)
  PROVE  pc[c] \in {"done", "leave"}
BY Standing DEF Save, Fit

LEMMA EndedStep ==
  ASSUME IInv, Next, repo.status \in Terminal, repo.pending = None
  PROVE  repo' = repo
<1>1. ASSUME NEW c \in Controllers, NEW s, NEW next, Save(c, s, next),
             pc[c] \in Marks \cup {"begin", "recovered", "plan", "uncovered", "exec", "aggregate",
                                   "gate", "approve", "invoke", "apply", "review"}
      PROVE  FALSE
  BY <1>1, EndedFits DEF Marks
<1>2. ASSUME NEW c \in Controllers, DriverStep(c) PROVE repo' = repo
  <2>1. CASE ClaimRun(c) \/ ResumeVerifying(c)
    BY <2>1 DEF ClaimRun, ResumeVerifying
  <2>2. CASE Complete(c) \/ Verified(c) \/ Aggregate(c) \/ Conflict(c) \/ Finish(c)
    BY <2>2 DEF Complete, Verified, Aggregate, Conflict, Finish
  <2>3. CASE Begin(c) \/ RecoveryRequired(c) \/ Plan(c) \/ NoCapableAgent(c)
    BY <1>1, <2>3 DEF Begin, RecoveryRequired, Plan, NoCapableAgent, Block
  <2>4. CASE CancelSnapshot(c) \/ FailTasks(c) \/ AskGate(c) \/ ExecuteBatch(c) \/ NothingScheduled(c)
    BY <1>1, <2>4
       DEF CancelSnapshot, FailTasks, AskGate, ExecuteBatch, NothingScheduled, Block, Replan,
           PastHead, AtHead
  <2>5. CASE \E d \in {"approved", "deferred", "rejected"} : GateDecides(c, d)
    BY <1>1, <2>5 DEF GateDecides
  <2>6. CASE \E t \in Tasks :
               \/ \E o \in {"ok", "bad"} : AgentReturns(c, t, o)
               \/ \E v \in {"passed", "failed", "error"} : VerifierReturns(c, t, v)
               \/ RecordVerdict(c, t) \/ ApplyOutcome(c, t)
    <3>1. ASSUME NEW t \in Tasks, RecordVerdict(c, t) \/ ApplyOutcome(c, t) PROVE FALSE
      BY <1>1, <3>1 DEF RecordVerdict, ApplyOutcome
    <3> QED
      BY <2>6, <3>1 DEF AgentReturns, VerifierReturns
  <2>7. CASE Returned(c)
    BY <1>1, <2>7 DEF Returned
  <2>8. CASE \E a \in {"accept", "replan", "request_human", "stop"} : Reviewed(c, a)
    BY <1>1, <2>8 DEF Reviewed, Replan
  <2>9. CASE Mark(c)
    BY <1>1, <2>9 DEF Mark, Marks
  <2> QED
    BY <1>2, <2>1, <2>2, <2>3, <2>4, <2>5, <2>6, <2>7, <2>8, <2>9 DEF DriverStep
<1>3. CASE \E c \in Controllers : OrphanEnds(c)
  BY <1>3 DEF OrphanEnds
<1>4. CASE HostStep
  <2>1. repo # NoRun
    BY DEF NoRun, Terminal
  <2> QED
    BY <1>4, <2>1 DEF HostStep, Run, Resume, Cancel, Submit
<1>5. CASE FaultStep \/ DeadLeaseEnds
  BY <1>5 DEF FaultStep, Crash, Interrupted, LiveLeaseEnds, DeadLeaseEnds
<1> QED
  BY <1>2, <1>3, <1>4, <1>5 DEF Next

\* EndedStaysEnded of TeamRun: no stale controller, late handler, cancellation
\* or crash changes a run that has ended; only the answer to a question the
\* end left pending does (TeamRepository.compare_and_swap, cancel,
\* submit_human_response).
THEOREM EndedKept == Spec => EndedStaysEnded
<1>1. IInv /\ [Next]_vars =>
        [repo.status \in Terminal => repo' = repo \/ repo.pending # None]_vars
  BY EndedStep
<1> QED
  BY <1>1, Inductive, PTL DEF Spec, EndedStaysEnded
=============================================================================
