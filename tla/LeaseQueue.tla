----------------------------- MODULE LeaseQueue -----------------------------
(***************************************************************************)
(* What a QueueBackend promises (matterloop_runtime/queueing.py, protocols *)
(* QueueProducer and QueueBackend), whatever it is made of: a command that *)
(* was accepted waits, is held under one lease at a time, and goes away    *)
(* only when it is acknowledged or cancelled.  attempt is the delivery     *)
(* count.  Every operation may first take back commands whose lease has    *)
(* run out.                                                                *)
(***************************************************************************)
EXTENDS Naturals

CONSTANT Runs

VARIABLES
  cmd,    \* the command of each run_id
  asked   \* the run_ids whose last command the caller asked to cancel

vars == <<cmd, asked>>

Absent == [phase |-> "absent", lease |-> 0, attempt |-> 0]
Waiting(n) == [phase |-> "waiting", lease |-> 0, attempt |-> n]

Leased == {r \in Runs : cmd[r].phase \in {"held", "doomed"}}

\* A command that comes back from its holder; a cancelled one is dropped.
GivenBack(c) == IF c.phase = "doomed" THEN Absent ELSE Waiting(c.attempt + 1)

Reclaimed(S) == [r \in Runs |-> IF r \in S THEN GivenBack(cmd[r]) ELSE cmd[r]]

Init == cmd = [r \in Runs |-> Absent] /\ asked = {}

Enqueue(r) ==
  /\ cmd[r] = Absent
  /\ cmd' = [cmd EXCEPT ![r] = Waiting(1)]
  /\ asked' = asked \ {r}

\* The new lease is one nobody holds.
Lease(S, r) ==
  LET before == Reclaimed(S) IN
  /\ before[r].phase = "waiting"
  /\ cmd'[r].lease # 0 /\ \A q \in Runs : cmd[q].lease # cmd'[r].lease
  /\ cmd' = [before EXCEPT ![r] = [phase |-> "held", lease |-> cmd'[r].lease,
                                   attempt |-> before[r].attempt]]
  /\ UNCHANGED asked

Acknowledge(S, r) ==
  /\ r \in Leased \ S
  /\ cmd' = [Reclaimed(S) EXCEPT ![r] = Absent]
  /\ UNCHANGED asked

\* release, or an operation that only takes back
GiveBack(S) == cmd' = Reclaimed(S) /\ UNCHANGED asked

\* A waiting command is removed, a held one when its holder lets go of it.
Cancel(r) ==
  /\ r \notin asked
  /\ asked' = asked \cup {r}
  /\ \/ /\ cmd[r].phase = "waiting"
        /\ cmd' = [cmd EXCEPT ![r] = Absent]
     \/ /\ cmd[r].phase = "held"
        /\ cmd' = [cmd EXCEPT ![r].phase = "doomed"]

Next ==
  \/ \E r \in Runs : Enqueue(r) \/ Cancel(r)
  \/ \E S \in SUBSET Leased :
       GiveBack(S) \/ \E r \in Runs : Lease(S, r) \/ Acknowledge(S, r)

Spec == Init /\ [][Next]_vars
=============================================================================
