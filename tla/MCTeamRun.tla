----------------------------- MODULE MCTeamRun -----------------------------
(* Three tasks: a needs approval, b may be replayed, z depends on a.  One  *)
(* plan runs two tasks side by side, the other one after the other.        *)
EXTENDS TeamRun, TLC

CONSTANTS a, b, z, c1, c2

Symmetry == Permutations(Controllers)

MCTasks == {a, b, z}
MCDependencies == [t \in MCTasks |-> IF t = z THEN {a} ELSE {}]
MCRequiresApproval == {a}
MCReplaySafe == {b}
Request(concurrency, attempts, cycles, revisions, plans) ==
  [max_concurrency |-> concurrency, max_task_attempts |-> attempts,
   max_cycles |-> cycles, max_plan_revisions |-> revisions, plans |-> plans]

(* Side by side; one after the other with a retry; a replay-safe retry;    *)
(* a second plan.                                                          *)
MCRequests ==
  {Request(2, 1, 1, 0, {{a, b}}), Request(1, 2, 1, 0, {{a, z}}),
   Request(1, 2, 1, 0, {{b}}), Request(1, 1, 2, 1, {{a, b}, {a, z}})}

MCFaults == {"abort", "deadline", "budget", "raise", "crash", "expire"}
=============================================================================
