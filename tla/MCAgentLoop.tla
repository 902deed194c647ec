---------------------------- MODULE MCAgentLoop ----------------------------
(***************************************************************************)
(* Values of the constants of AgentLoop for TLC.                           *)
(***************************************************************************)
EXTENDS AgentLoop

CONSTANTS p1, p2, i1, i2, s1, s2, s3

Plain(s) == [step_id |-> s, requires_approval |-> FALSE]
Guarded(s) == [step_id |-> s, requires_approval |-> TRUE]

\* One AgentLoop object per call: competing processes.
Apart == (p1 :> i1) @@ (p2 :> i2)
\* Exchanging the two processes with their calls changes nothing.
Exchange == {(p1 :> p2) @@ (p2 :> p1) @@ (i1 :> i2) @@ (i2 :> i1)}
\* A single caller.
Alone == p1 :> i1

\* A one-step and a two-step plan: steps before and after each other.
ShortPlans == {<<Plain(s1)>>, <<Plain(s1), Plain(s2)>>}
\* Plans a human or the gate has to approve, and a plan that reuses the id.
GuardedPlans == {<<Guarded(s1)>>, <<Plain(s2), Guarded(s1)>>}
\* Everything _run_cycles has to refuse, and a plan it accepts.
AnyPlans == {<<>>, <<Plain(s1)>>, <<Guarded(s1), Plain(s2)>>,
             <<Plain(s1), Plain(s1)>>, <<Plain(s1), Plain(s2), Plain(s3)>>}

LivePlans == {<<Guarded(s1)>>}

\* Environments
CrashEnv == {"crash", "recover", "resume", "error"}
HumanEnv == {"human", "resume"}
FaultEnv == Hazards \ {"crash", "human"}
LiveEnv == {"human", "resume", "recover", "error", "timeout"}
=============================================================================
