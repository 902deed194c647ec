--------------------------- MODULE LoopResumeProofs ---------------------------
(***************************************************************************)
(* What those who go on with a run can trust.                              *)
(*                                                                         *)
(* First part, crashes: when no save and no publication raises, no         *)
(* executor call that may have taken effect is made again, and every       *)
(* checkpoint can be read back.  ReplayInv says where an operation that    *)
(* was called and is not known to have failed can be: in an earlier cycle, *)
(* in a plan that is dropped or a run that has ended, at a step that is    *)
(* done, or at the current step of a checkpoint that says so (InFlight).   *)
(*                                                                         *)
(* Second part, humans and verifiers: when nothing but the budget raises,  *)
(* a step that requires approval is executed only with a grant for that    *)
(* step in that cycle; when nobody recovers a run, one that completes has  *)
(* a passed verification for every step of its plan.  HumanInv says what   *)
(* the context of a call is at each await (Fit), and what is saved         *)
(* (StoreFit), under either condition.                                     *)
(***************************************************************************)
EXTENDS AgentLoopProofs

\* The plan of c has passed step s.
Done(c, s) == \E i \in DOMAIN c.current_plan :
                i <= c.current_step_index /\ c.current_plan[i].step_id = s

\* No step of the plan of c is called any more.
Over(c) == c.status \in Terminal \/ c.current_plan = <<>>

\* None of the operations U is called again by who goes on with c; open says
\* that the current one is not called before its outcome is known.
Spent(U, c, open) ==
  \A op \in U :
    \/ op[1] < c.cycle_count
    \/ op[1] = c.cycle_count /\ \/ Over(c) \/ Done(c, op[2])
                                \/ open /\ StepsLeft(c) /\ op = Operation(c, CurrentStep(c))

\* The executor may have been called for the current step of a checkpoint.
InFlight(c) == \/ c.pending_execution # 0
               \/ c.status = "executing"
               \/ c.status = "blocked" /\ c.stop_reason = "recovery_required"

Readable(c) == ValidCheckpoint(c) /\ UniqueSteps(c.current_plan)

AtRest == Terminal \cup {"paused"}

\* What a checkpoint says when the operations U are unsettled.
Settled(U, c) ==
  /\ Spent(U, c, InFlight(c)) /\ Readable(c)
  /\ c.pending_interaction # NoInteraction => c.status \in AtRest

\* From the transition to executing to the result.
Working == {"execute", "dispatch", "redispatch", "executor", "retry", "backoff"}

\* Where a call does not yet know what became of the executor's call.
Unsure == {"executor", "cancelling", "recover_stop"}

\* What a call at l with the latest context c may rely on.
Trusted(U, l, c) ==
  /\ Spent(U, c, l \in Unsure \/ c.pending_execution # 0)
  /\ l = "planner" => \A op \in U : op[1] < c.cycle_count
  /\ l \in Working => c.status = "executing" /\ c.pending_execution = 0
  /\ l = "executor" => c.pending_attempt # 0
  /\ l = "recover_stop" => c.status \in {"executing", "waiting_approval"}
  /\ c.pending_interaction # NoInteraction
       => \/ l \in {"cancelling", "broken"}
          \/ l \in {"pausing", "exit", "idle"} /\ c.status \in AtRest
  /\ Readable(c)

ReplayInv ==
  /\ NoBlindReplay
  /\ unsettled \subseteq OperationId
  /\ Settled(unsettled, store)
  /\ \A p \in Procs : pc[p] \notin {"idle", "exit"} /\ ctx[p].revision = store.revision
                        => Trusted(unsettled, pc[p], ctx[p])

-----------------------------------------------------------------------------
(* Operations that are spent.                                               *)

LEMMA SpentLess ==
  ASSUME NEW U, NEW V \in SUBSET U, NEW c, NEW open \in BOOLEAN, Spent(U, c, open)
  PROVE  Spent(V, c, open) /\ Spent(V, c, TRUE)
BY DEF Spent

LEMMA TrustedLess ==
  ASSUME NEW U, NEW V \in SUBSET U, NEW c
  PROVE  /\ \A l : Trusted(U, l, c) => Trusted(V, l, c)
         /\ Settled(U, c) => Settled(V, c)
BY DEF Trusted, Settled, Spent

\* c and d differ in nothing but what a save or a stop writes.
LEMMA SpentSame ==
  ASSUME NEW U, NEW c, NEW d, SameWork(c, d), c.status \in Terminal => d.status \in Terminal
  PROVE  /\ \A open : Spent(U, c, open) => Spent(U, d, open)
         /\ Readable(c) => Readable(d)
<1>1. /\ Over(c) => Over(d)
      /\ \A s : Done(c, s) => Done(d, s)
      /\ StepsLeft(c) => StepsLeft(d)
      /\ Operation(d, CurrentStep(d)) = Operation(c, CurrentStep(c))
      /\ d.cycle_count = c.cycle_count
  BY DEF SameWork, Over, Done, StepsLeft, Operation, CurrentStep
<1>2. \A open : Spent(U, c, open) => Spent(U, d, open)
  BY <1>1 DEF Spent
<1>3. Readable(c) => Readable(d)
  BY DEF SameWork, Readable, ValidCheckpoint, UniqueSteps
<1> QED BY <1>2, <1>3

LEMMA CopySpent ==
  ASSUME NEW U, NEW c, NEW d, Copy(c, d)
  PROVE  /\ \A l : Trusted(U, l, c) => Trusted(U, l, d)
         /\ Settled(U, c) => Settled(U, d)
<1>1. /\ \A open : Spent(U, c, open) => Spent(U, d, open)
      /\ Readable(c) => Readable(d)
  BY SpentSame DEF Copy
<1>2. /\ d.status = c.status /\ d.stop_reason = c.stop_reason
      /\ d.pending_execution = c.pending_execution /\ d.pending_attempt = c.pending_attempt
      /\ d.pending_interaction = c.pending_interaction /\ d.cycle_count = c.cycle_count
  BY DEF Copy, SameWork
<1>3. InFlight(c) = InFlight(d)
  BY <1>2 DEF InFlight
<1>4. Settled(U, c) => Settled(U, d)
  BY <1>1, <1>2, <1>3 DEF Settled
<1>5. ASSUME NEW l, Trusted(U, l, c) PROVE Trusted(U, l, d)
  <2>1. Spent(U, d, l \in Unsure \/ d.pending_execution # 0)
    BY <1>1, <1>2, <1>5 DEF Trusted
  <2> QED BY <1>1, <1>2, <1>5, <2>1 DEF Trusted
<1> QED BY <1>4, <1>5

\* Where a save never leads to, or leads to with an answer outstanding.
Odd == {"cancelling", "broken", "recover_stop"}

\* A checkpoint that a call goes on with says enough.
LEMMA TrustedSettled ==
  ASSUME NEW U, NEW l, l \notin Odd, NEW c, Trusted(U, l, c)
  PROVE  Settled(U, c)
<1>1. c.pending_interaction # NoInteraction => c.status \in AtRest
  BY DEF Trusted, Odd
<1>2. l \in Unsure => l = "executor"
  BY DEF Unsure, Odd
<1>3. (l \in Unsure \/ c.pending_execution # 0) => InFlight(c)
  BY <1>2 DEF Trusted, Working, InFlight
<1>4. Spent(U, c, InFlight(c))
  BY <1>3 DEF Trusted, Spent
<1> QED BY <1>1, <1>4 DEF Trusted, Settled

\* A cancelled task knows least.
LEMMA SettledCancelling ==
  ASSUME NEW U, NEW c, Settled(U, c)
  PROVE  Trusted(U, "cancelling", c)
BY DEF Settled, Trusted, Spent, Unsure, Working

LEMMA TrustedCancelling ==
  ASSUME NEW U, NEW l, NEW c, Trusted(U, l, c)
  PROVE  Trusted(U, "cancelling", c)
BY DEF Trusted, Spent, Unsure, Working

-----------------------------------------------------------------------------
(* The history.                                                             *)

LEMMA HistoryShrinks ==
  ASSUME NEW p, History(p), ~Dispatches(p)
  PROVE  unsettled' \subseteq unsettled /\ calls' = calls
BY DEF History

LEMMA HistoryAdds ==
  ASSUME NEW p, History(p)
  PROVE  unsettled' \subseteq unsettled \cup {ctx'[p].active_operation_id}
BY DEF History

LEMMA NotBlind ==
  ASSUME TypeOK, NEW p \in Procs, History(p), NoBlindReplay,
         Dispatches(p) => ctx'[p].active_operation_id \notin unsettled
  PROVE  NoBlindReplay'
<1> DEFINE record == [op      |-> ctx'[p].active_operation_id,
                      ord     |-> ctx'[p].total_attempts,
                      granted |-> CurrentStep(ctx'[p]).requires_approval => ctx'[p].active_operation_id \in grants,
                      blind   |-> ctx'[p].active_operation_id \in unsettled]
<1>1. calls \in Seq(CallRecord)
  BY DEF TypeOK
<1>2. calls' = IF Dispatches(p) THEN Append(calls, record) ELSE calls
  BY DEF History
<1>3. record.blind = (ctx'[p].active_operation_id \in unsettled)
  OBVIOUS
<1> HIDE DEF record
<1>4. CASE ~Dispatches(p)
  BY <1>2, <1>4 DEF NoBlindReplay
<1>5. CASE Dispatches(p)
  <2>1. /\ calls' = Append(calls, record) /\ Len(calls) \in Nat
        /\ DOMAIN calls = 1 .. Len(calls) /\ DOMAIN calls' = 1 .. Len(calls) + 1
        /\ calls'[Len(calls) + 1] = record
        /\ \A k \in 1 .. Len(calls) : calls'[k] = calls[k]
    BY <1>1, <1>2, <1>5
  <2>2. ~record.blind
    BY <1>3, <1>5
  <2>3. ASSUME NEW k \in DOMAIN calls' PROVE ~calls'[k].blind
    <3>1. CASE k \in 1 .. Len(calls)
      BY <2>1, <3>1 DEF NoBlindReplay
    <3>2. CASE k = Len(calls) + 1
      BY <2>1, <2>2, <3>2
    <3> QED BY <2>1, <2>3, <3>1, <3>2
  <2> QED BY <2>3 DEF NoBlindReplay
<1> QED BY <1>4, <1>5

-----------------------------------------------------------------------------
(* A step of one call.                                                      *)

\* The executor is called for an operation that is not unsettled.
Sighted(p, next, c) ==
  pc[p] \in {"dispatch", "redispatch"} /\ next = "executor" => c.active_operation_id \notin unsettled

\* A step of call p that may have saved c, given what the calls and checkpoints
\* it leads to may rely on.
LEMMA WentReplays ==
  ASSUME ~Faulty, IndInv, ReplayInv, NEW p \in Procs, NEW c \in LoopContext, c.revision = ctx[p].revision,
         NEW next \in Label, NEW raised \in Label, raised # "executor",
         Went(p, c, next, raised),
         NEW U \in SUBSET OperationId, unsettled' = U,
         Fresh(c) /\ store' # store =>
           /\ Settled(U, c) /\ Sighted(p, next, c)
           /\ next \in {"idle", "exit"} \/ Trusted(U, next, c),
         Fresh(c) /\ store' = store =>
           /\ pc[p] \in Driving => Trusted(U, "cancelling", c)
           /\ next = raised => next \in {"idle", "exit"} \/ Trusted(U, next, c)
  PROVE  ReplayInv'
<1>1. PICK x \in LoopContext, l \in Label :
        /\ Land(p, x, l) /\ History(p)
        /\ Copy(c, x) /\ x.revision \in {c.revision, c.revision + 1}
        /\ \/ store' = store
           \/ Fresh(c) /\ store' \in LoopContext /\ Copy(c, store') /\ store'.revision = c.revision + 1
        /\ x.revision = c.revision \/ (Fresh(c) /\ store' = x)
        /\ \/ l = next /\ Fresh(c) /\ store' = x /\ x.revision = c.revision + 1
           \/ l = raised /\ next = raised
           \/ l = "cancelling" /\ pc[p] \in Driving
           \/ l \in {"exit", "idle"}
  BY DEF Went
<1>2. /\ store \in LoopContext /\ c.revision \in Nat /\ store.revision \in Nat
      /\ \A q \in Procs : ctx[q].revision \in Nat /\ ctx[q].revision <= store.revision
  BY Fields DEF IndInv, TypeOK, FreshOK
<1>3. /\ pc'[p] = l
      /\ l \notin {"idle", "exit"} => ctx'[p] = x
      /\ \A q \in Procs : q # p => pc'[q] = pc[q] /\ ctx'[q] = ctx[q]
  BY <1>1 DEF Land, IndInv, TypeOK
<1>4. ASSUME Dispatches(p)
      PROVE  /\ l = next /\ Fresh(c) /\ store' = x /\ x.revision = c.revision + 1
             /\ next = "executor" /\ ctx'[p] = x /\ store' # store
  <2>1. l = "executor"
    BY <1>3, <1>4 DEF Dispatches
  <2> QED BY <1>1, <1>2, <1>3, <2>1 DEF Fresh
<1>5. store' = store => U \subseteq unsettled
  BY <1>1, <1>4, HistoryShrinks
<1>6. NoBlindReplay'
  <2>1. Dispatches(p) => ctx'[p].active_operation_id \notin unsettled
    <3> SUFFICES ASSUME Dispatches(p) PROVE ctx'[p].active_operation_id \notin unsettled
      OBVIOUS
    <3>1. Sighted(p, next, c) /\ next = "executor" /\ ctx'[p] = x
      BY <1>4
    <3>2. x.active_operation_id = c.active_operation_id
      BY <1>1 DEF Copy, SameWork
    <3> QED BY <3>1, <3>2 DEF Sighted, Dispatches
  <2> QED BY <1>1, <2>1, NotBlind DEF ReplayInv, IndInv
<1>7. PICK s \in LoopContext : s = store'
  BY <1>1, <1>2
<1>8. Settled(U, s)
  <2>1. CASE store' = store
    BY <1>5, <1>7, <2>1, TrustedLess DEF ReplayInv
  <2>2. CASE store' # store
    <3>1. Copy(c, s) /\ Settled(U, c)
      BY <1>1, <1>7, <2>2
    <3> QED BY <3>1, CopySpent
  <2> QED BY <2>1, <2>2
<1>9. ASSUME NEW q \in Procs, pc'[q] \notin {"idle", "exit"}, ctx'[q].revision = store'.revision
      PROVE  Trusted(U, pc'[q], ctx'[q])
  <2>1. CASE q # p
    <3>1. pc'[q] = pc[q] /\ ctx'[q] = ctx[q] /\ ctx[q].revision <= store.revision
      BY <1>2, <1>3, <2>1
    <3>2. store' = store
      <4>1. CASE Fresh(c) /\ store'.revision = c.revision + 1
        BY <1>2, <1>9, <3>1, <4>1 DEF Fresh
      <4> QED BY <1>1, <4>1
    <3>3. Trusted(unsettled, pc[q], ctx[q])
      BY <1>9, <3>1, <3>2 DEF ReplayInv
    <3> QED BY <1>5, <3>1, <3>2, <3>3, TrustedLess
  <2>2. CASE q = p
    <3>1. pc'[q] = l /\ ctx'[q] = x /\ l \notin {"idle", "exit"}
      BY <1>3, <1>9, <2>2
    <3>2. CASE store' # store
      <4>1. Fresh(c) /\ store'.revision = c.revision + 1
        BY <1>1, <3>2
      <4>2. store' = x
        BY <1>1, <1>2, <1>9, <3>1, <4>1
      <4>3. CASE l = next
        BY <1>1, <3>1, <3>2, <4>1, <4>3, CopySpent
      <4>4. CASE l = "cancelling"
        <5>1. Trusted(U, "cancelling", c)
          BY <3>2, <4>1, SettledCancelling
        <5> QED BY <1>1, <3>1, <4>4, <5>1, CopySpent
      <4> QED BY <1>1, <3>1, <4>3, <4>4
    <3>3. CASE store' = store
      <4>1. Fresh(c) /\ x.revision = c.revision
        BY <1>1, <1>2, <1>9, <3>1, <3>3 DEF Fresh
      <4>2. CASE l = next /\ next = raised
        <5>1. Trusted(U, next, c)
          BY <3>1, <3>3, <4>1, <4>2
        <5> QED BY <1>1, <3>1, <4>2, <5>1, CopySpent
      <4>3. CASE l = "cancelling" /\ pc[p] \in Driving
        <5>1. Trusted(U, "cancelling", c)
          BY <3>3, <4>1, <4>3
        <5> QED BY <1>1, <3>1, <4>3, <5>1, CopySpent
      <4> QED BY <1>1, <1>2, <3>1, <4>1, <4>2, <4>3
    <3> QED BY <3>2, <3>3
  <2> QED BY <2>1, <2>2
<1>10. Settled(unsettled, store)'
  BY <1>7, <1>8 DEF Settled, Spent, InFlight, Readable, Over, Done
<1>11. \A q \in Procs : pc'[q] \notin {"idle", "exit"} /\ ctx'[q].revision = store'.revision
                          => Trusted(U, pc'[q], ctx'[q])
  BY <1>9
<1> QED BY <1>6, <1>10, <1>11 DEF ReplayInv, Trusted, Spent, Readable, Over, Done, Operation, CurrentStep

\* A step that saves nothing.
LEMMA GotoReplays ==
  ASSUME ~Faulty, IndInv, ReplayInv, NEW p \in Procs, NEW c \in LoopContext, c.revision = ctx[p].revision,
         NEW l \in Label, l # "executor", Goto(p, c, l),
         NEW U, unsettled' = U, U \subseteq unsettled,
         Fresh(c) => Trusted(U, l, c)
  PROVE  ReplayInv'
<1>1. store' = store /\ Went(p, c, l, l)
  BY GotoWent DEF Goto
<1>2. Fresh(c) => Trusted(U, "cancelling", c)
  BY TrustedCancelling
<1>3. U \in SUBSET OperationId
  BY DEF ReplayInv
<1> QED BY <1>1, <1>2, <1>3, WentReplays

\* What most calls may rely on.
Sane(U, c) ==
  /\ Spent(U, c, c.pending_execution # 0)
  /\ c.pending_interaction = NoInteraction
  /\ Readable(c)

\* The awaits that need no more.
Plain == Label \ ({"planner", "recover_stop"} \cup Working)

LEMMA SaneTrusted ==
  ASSUME NEW U, NEW c, Sane(U, c), NEW l \in Plain
  PROVE  Trusted(U, l, c)
<1>1. Spent(U, c, l \in Unsure \/ c.pending_execution # 0)
  BY DEF Sane, Spent
<1> QED BY <1>1 DEF Sane, Trusted, Plain, Working

LEMMA TrustedSane ==
  ASSUME NEW U, NEW c, NEW l, l \notin Unsure \cup {"pausing", "broken", "exit", "idle"}, Trusted(U, l, c)
  PROVE  Sane(U, c)
BY DEF Trusted, Sane, Unsure, Spent

LEMMA NoDispatch ==
  ASSUME TypeOK, NEW p \in Procs, NEW c, NEW next, NEW raised, raised # "executor",
         pc[p] \notin {"dispatch", "redispatch"} \/ next # "executor",
         Went(p, c, next, raised)
  PROVE  unsettled' \subseteq unsettled /\ calls' = calls
<1>1. PICK x, l : Land(p, x, l) /\ History(p) /\ (l = next \/ l = raised \/ l \in {"cancelling", "exit", "idle"})
  BY DEF Went
<1>2. pc'[p] = l
  BY <1>1 DEF Land, TypeOK
<1>3. ~Dispatches(p)
  BY <1>1, <1>2 DEF Dispatches
<1> QED BY <1>1, <1>3, HistoryShrinks

\* A save, or none, after which the call may rely on what it relies on now.
LEMMA SaveReplays ==
  ASSUME ~Faulty, IndInv, ReplayInv, NEW p \in Procs, NEW c \in LoopContext, c.revision = ctx[p].revision,
         NEW next \in Label, next \notin Odd \/ store' = store, NEW raised \in Label, raised # "executor",
         pc[p] \notin {"dispatch", "redispatch"} \/ next # "executor",
         Went(p, c, next, raised),
         Fresh(c) => Trusted(unsettled, next, c)
  PROVE  ReplayInv'
<1>1. PICK U : U = unsettled'
  OBVIOUS
<1>2. U \subseteq unsettled
  BY <1>1, NoDispatch DEF IndInv
<1>3. U \in SUBSET OperationId
  BY <1>2 DEF ReplayInv
<1>4. Fresh(c) => Trusted(U, next, c) /\ Trusted(U, "cancelling", c)
  BY <1>2, TrustedLess, TrustedCancelling
<1>5. Sighted(p, next, c)
  BY DEF Sighted
<1>6. Fresh(c) /\ store' # store => Settled(U, c)
  BY <1>4, TrustedSettled
<1> QED BY <1>1, <1>3, <1>4, <1>5, <1>6, WentReplays

LEMMA CommitReplays ==
  ASSUME ~Faulty, IndInv, ReplayInv, NEW p \in Procs, NEW c \in LoopContext, c.revision = ctx[p].revision,
         NEW next \in Label, next \notin Odd, NEW raised \in Label, raised # "executor",
         pc[p] \notin {"dispatch", "redispatch"} \/ next # "executor",
         Commit(p, c, next, raised),
         Fresh(c) => Trusted(unsettled, next, c)
  PROVE  ReplayInv'
<1>1. Went(p, c, next, raised)
  BY OneEventWent
<1> QED BY <1>1, SaveReplays

\* A transition out of a state in which nothing is in doubt.
LEMMA MoveReplays ==
  ASSUME ~Faulty, IndInv, ReplayInv, NEW p \in Procs, NEW c \in LoopContext, c.revision = ctx[p].revision,
         NEW target \in LoopStatus, NEW next \in Label, NEW raised \in Plain \ Odd,
         \/ next \in Plain \ Odd
         \/ next = "execute" /\ target = "executing" /\ c.pending_execution = 0,
         Moved(p, c, target, next, raised),
         Fresh(c) => Sane(unsettled, c)
  PROVE  ReplayInv'
<1>1. PICK d \in LoopContext :
        /\ SameWork(c, d) /\ d.revision = c.revision
        /\ \/ /\ d.status = target /\ (c.status = target \/ target \in AllowedTransitions[c.status])
              /\ Went(p, d, next, raised)
           \/ /\ d.status = c.status /\ store' = store
              /\ \/ Went(p, d, "broken", "broken")
                 \/ Went(p, d, raised, raised)
  BY DEF Moved
<1>2. c.status \in Terminal => AllowedTransitions[c.status] = {}
  BY DEF Terminal, AllowedTransitions
<1>3. Fresh(c) => Sane(unsettled, d)
  <2>1. c.status \in Terminal => d.status \in Terminal
    BY <1>1, <1>2
  <2>2. d.pending_execution = c.pending_execution /\ d.pending_interaction = c.pending_interaction
    BY <1>1 DEF SameWork
  <2> QED BY <1>1, <2>1, <2>2, SpentSame DEF Sane
<1>4. Fresh(d) => Sane(unsettled, d)
  BY <1>1, <1>3 DEF Fresh
<1>5. /\ {"executor", "execute"} \cap (Plain \cup Odd) = {} /\ Plain \subseteq Label
      /\ "broken" \in Plain /\ "broken" # "executor"
  BY DEF Plain, Odd, Working, Label, Driving
<1>6. CASE /\ d.status = target
           /\ Went(p, d, next, raised)
  <2>1. Fresh(d) => Trusted(unsettled, next, d)
    <3>1. CASE next \in Plain
      BY <1>4, <3>1, SaneTrusted
    <3>2. CASE next = "execute" /\ target = "executing" /\ c.pending_execution = 0
      <4>1. d.pending_execution = 0
        BY <1>1, <3>2 DEF SameWork
      <4> QED BY <1>4, <1>6, <3>2, <4>1 DEF Sane, Trusted, Unsure
    <3> QED BY <3>1, <3>2
  <2> QED BY <1>1, <1>5, <1>6, <2>1, SaveReplays
<1>7. CASE store' = store /\ Went(p, d, "broken", "broken")
  <2>1. Fresh(d) => Trusted(unsettled, "broken", d)
    BY <1>4, <1>5, SaneTrusted
  <2> QED BY <1>1, <1>5, <1>7, <2>1, SaveReplays
<1>8. CASE store' = store /\ Went(p, d, raised, raised)
  <2>1. Fresh(d) => Trusted(unsettled, raised, d)
    BY <1>4, SaneTrusted
  <2> QED BY <1>1, <1>5, <1>8, <2>1, SaveReplays
<1> QED BY <1>1, <1>6, <1>7, <1>8

\* A call that lost the race cannot move anything.
LEMMA StaleReplays ==
  ASSUME ~Faulty, IndInv, ReplayInv, NEW p \in Procs, NEW c \in LoopContext, c.revision = ctx[p].revision,
         NEW target \in LoopStatus, NEW next \in Label \ (Odd \cup {"executor"}),
         NEW raised \in Label \ {"executor"},
         Moved(p, c, target, next, raised), ~Fresh(c)
  PROVE  ReplayInv'
<1>1. PICK d \in LoopContext, l \in {next, "broken", raised}, r \in Label \ {"executor"} :
        /\ d.revision = c.revision
        /\ Went(p, d, l, r) /\ (l = next \/ store' = store)
  <2>1. "broken" \in Label \ {"executor"}
    BY DEF Label, Driving
  <2> QED BY <2>1 DEF Moved
<1>2. ~Fresh(d) /\ d.revision = ctx[p].revision /\ r \in Label /\ r # "executor"
  BY <1>1 DEF Fresh
<1>3. l \in Label /\ l # "executor" /\ (l \notin Odd \/ store' = store)
  BY <1>1 DEF Label, Driving
<1> QED BY <1>1, <1>2, <1>3, SaveReplays

\* The end of a run, whatever is in doubt.
LEMMA EndReplays ==
  ASSUME ~Faulty, IndInv, ReplayInv, NEW p \in Procs, NEW c \in LoopContext, c.revision = ctx[p].revision,
         NEW target \in AbortTargets, NEW raised \in Label \ {"executor"},
         Fresh(c) => c.status \notin Terminal /\ Spent(unsettled, c, TRUE) /\ Readable(c),
         Moved(p, c, target, "exit", raised)
  PROVE  ReplayInv'
<1>1. "exit" \in Label \ (Odd \cup {"executor"}) /\ target \in LoopStatus /\ target \in Terminal
  BY DEF Label, Driving, Odd, AbortTargets, LoopStatus, Terminal
<1>2. CASE ~Fresh(c)
  BY <1>1, <1>2, StaleReplays
<1>3. CASE Fresh(c)
  <2>1. target \in AllowedTransitions[c.status]
    <3>1. c.status \in LoopStatus \ Terminal
      BY <1>3, Fields
    <3> QED BY <3>1 DEF LoopStatus, AllowedTransitions, Terminal, AbortTargets
  <2>2. PICK d \in LoopContext :
          /\ SameWork(c, d) /\ d.revision = c.revision
          /\ d.status = target /\ Went(p, d, "exit", raised)
    BY <2>1 DEF Moved
  <2>3. Spent(unsettled, d, TRUE) /\ Readable(d)
    BY <1>1, <1>3, <2>2, SpentSame
  <2>4. Spent(unsettled, d, "exit" \in Unsure \/ d.pending_execution # 0)
    BY <1>1, <2>2, <2>3 DEF Spent, Over
  <2>5. Trusted(unsettled, "exit", d)
    BY <1>1, <2>2, <2>3, <2>4 DEF Trusted, Working, AtRest
  <2>6. raised \in Label /\ raised # "executor" /\ d.revision = ctx[p].revision
    BY <2>2
  <2> QED BY <1>1, <2>2, <2>5, <2>6, SaveReplays
<1> QED BY <1>2, <1>3

\* _stop and _transition.
LEMMA StopReplays ==
  ASSUME ~Faulty, IndInv, ReplayInv, NEW p \in Procs, NEW c \in LoopContext, c.revision = ctx[p].revision,
         NEW status \in LoopStatus, NEW reason \in StopReason,
         NEW next \in Plain \ Odd, NEW raised \in Plain \ Odd,
         Stop(p, c, status, reason, next, raised),
         Fresh(c) => Sane(unsettled, c)
  PROVE  ReplayInv'
<1>1. next \in Label /\ raised \in Label
  BY DEF Plain
<1>2. Moved(p, c, status, next, raised)
  BY <1>1, StopMoved
<1> QED BY <1>1, <1>2, MoveReplays

LEMMA BlockReplays ==
  ASSUME ~Faulty, IndInv, ReplayInv, NEW p \in Procs, NEW c \in LoopContext, c.revision = ctx[p].revision,
         NEW reason \in StopReason, Block(p, c, reason),
         Fresh(c) => Sane(unsettled, c)
  PROVE  ReplayInv'
<1>1. "exit" \in Plain \ Odd /\ "failing" \in Plain \ Odd /\ "blocked" \in LoopStatus
  BY DEF Plain, Odd, Label, Driving, Working, LoopStatus
<1> QED BY <1>1, StopReplays DEF Block

LEMMA TransitionReplays ==
  ASSUME ~Faulty, IndInv, ReplayInv, NEW p \in Procs, NEW c \in LoopContext, c.revision = ctx[p].revision,
         NEW target \in LoopStatus, NEW next \in Label, NEW raised \in Plain \ Odd,
         \/ next \in Plain \ Odd
         \/ next = "execute" /\ target = "executing" /\ c.pending_execution = 0,
         Transition(p, c, target, next, raised),
         Fresh(c) => Sane(unsettled, c)
  PROVE  ReplayInv'
<1>1. raised \in Label
  BY DEF Plain
<1>2. Moved(p, c, target, next, raised)
  BY <1>1, TransitionMoved
<1> QED BY <1>2, MoveReplays

LEMMA EnterReplays ==
  ASSUME ~Faulty, IndInv, ReplayInv, NEW p \in Procs, NEW c \in LoopContext, c.revision = ctx[p].revision,
         NEW target \in LoopStatus, NEW next \in Label, NEW raised \in Plain \ Odd,
         \/ next \in Plain \ Odd
         \/ next = "execute" /\ target = "executing" /\ c.pending_execution = 0,
         Enter(p, c, target, next, raised),
         Fresh(c) => Sane(unsettled, c)
  PROVE  ReplayInv'
<1>1. CASE c.status = target
  <2>1. Goto(p, c, next)
    BY <1>1 DEF Enter
  <2>2. Went(p, c, next, next) /\ store' = store
    BY <2>1, GotoWent DEF Goto
  <2>3. Fresh(c) => Trusted(unsettled, next, c)
    <3>1. CASE next \in Plain
      BY <3>1, SaneTrusted
    <3>2. CASE next = "execute" /\ target = "executing" /\ c.pending_execution = 0
      BY <1>1, <3>2 DEF Sane, Trusted, Unsure
    <3> QED BY <3>1, <3>2
  <2>4. next # "executor"
    BY DEF Plain, Working
  <2> QED BY <2>2, <2>3, <2>4, SaveReplays
<1>2. CASE c.status # target
  <2>1. Transition(p, c, target, next, raised)
    BY <1>2 DEF Enter
  <2> QED BY <2>1, TransitionReplays
<1> QED BY <1>1, <1>2

-----------------------------------------------------------------------------
(* The updates the controller makes to a context.                           *)

\* d is at the same place of the same plan as c.
SamePlace(c, d) ==
  /\ d.current_plan = c.current_plan /\ d.current_step_index = c.current_step_index
  /\ d.cycle_count = c.cycle_count
  /\ c.status \in Terminal => d.status \in Terminal

LEMMA SpentPlace ==
  ASSUME NEW U, NEW c, NEW d, SamePlace(c, d)
  PROVE  \A open : Spent(U, c, open) => Spent(U, d, open)
<1>1. /\ Over(c) => Over(d)
      /\ \A s : Done(c, s) => Done(d, s)
      /\ StepsLeft(c) => StepsLeft(d)
      /\ Operation(d, CurrentStep(d)) = Operation(c, CurrentStep(c))
      /\ d.cycle_count = c.cycle_count
  BY DEF SamePlace, Over, Done, StepsLeft, Operation, CurrentStep
<1> QED BY <1>1 DEF Spent

\* d differs from c in nothing but the clock, reasons and approvals.
LEMMA SaneSame ==
  ASSUME NEW U, NEW c, NEW d, Sane(U, c), SamePlace(c, d),
         d.pending_execution = c.pending_execution, d.pending_attempt = c.pending_attempt,
         d.active_operation_id = c.active_operation_id,
         d.pending_interaction = NoInteraction
  PROVE  Sane(U, d)
<1>1. Spent(U, d, d.pending_execution # 0)
  BY SpentPlace DEF Sane
<1>2. Readable(d)
  BY DEF Sane, Readable, ValidCheckpoint, UniqueSteps, SamePlace
<1> QED BY <1>1, <1>2 DEF Sane

\* A plan that is dropped calls nothing.
LEMMA DropSane ==
  ASSUME NEW U, NEW c \in LoopContext, Spent(U, c, TRUE), Readable(c),
         c.pending_interaction = NoInteraction
  PROVE  Sane(U, DropPlan(c)) /\ DropPlan(c) \in LoopContext /\ DropPlan(c).revision = c.revision
<1> DEFINE d == DropPlan(c)
<1>1. d \in LoopContext
  BY DropPlanUpdate
<1>2. /\ d.current_plan = <<>> /\ d.cycle_count = c.cycle_count /\ d.revision = c.revision
      /\ d.pending_execution = c.pending_execution /\ d.pending_attempt = c.pending_attempt
      /\ d.active_operation_id = c.active_operation_id
      /\ d.pending_interaction = c.pending_interaction
  BY DEF DropPlan, LoopContext
<1> HIDE DEF d
<1>3. Spent(U, d, d.pending_execution # 0)
  BY <1>2 DEF Spent, Over
<1>4. Readable(d)
  BY <1>2 DEF Readable, ValidCheckpoint, UniqueSteps
<1>5. Sane(U, d)
  BY <1>2, <1>3, <1>4 DEF Sane
<1> QED BY <1>1, <1>2, <1>5 DEF d

LEMMA ForgetSane ==
  ASSUME NEW U, NEW c \in LoopContext, Sane(U, c), c.pending_execution = 0
  PROVE  LET d == [c EXCEPT !.active_operation_id = NoOperation, !.pending_attempt = 0] IN
         Sane(U, d) /\ d \in LoopContext /\ d.revision = c.revision
<1> DEFINE d == [c EXCEPT !.active_operation_id = NoOperation, !.pending_attempt = 0]
<1>1. d \in LoopContext
  BY ForgetUpdate
<1>2. /\ SamePlace(c, d) /\ d.revision = c.revision
      /\ d.pending_execution = 0 /\ d.pending_interaction = c.pending_interaction
  BY DEF LoopContext, SamePlace
<1> HIDE DEF d
<1>3. Spent(U, d, d.pending_execution # 0)
  BY <1>2, SpentPlace DEF Sane
<1>4. Readable(d)
  BY <1>2 DEF Sane, Readable, ValidCheckpoint, UniqueSteps, SamePlace
<1>5. Sane(U, d)
  BY <1>2, <1>3, <1>4 DEF Sane
<1> QED BY <1>1, <1>2, <1>5 DEF d

\* A new cycle leaves every operation behind.
LEMMA CycleTrusted ==
  ASSUME NEW U \in SUBSET OperationId, NEW c \in LoopContext, Sane(U, c)
  PROVE  LET d == [c EXCEPT !.cycle_count = @ + 1] IN
         Trusted(U, "planner", d) /\ d \in LoopContext /\ d.revision = c.revision
<1> DEFINE d == [c EXCEPT !.cycle_count = @ + 1]
<1>1. d \in LoopContext /\ d.revision = c.revision
  BY CycleWork DEF Rearranged
<1>2. /\ d.current_plan = c.current_plan /\ d.current_step_index = c.current_step_index
      /\ d.cycle_count = c.cycle_count + 1
      /\ d.pending_execution = c.pending_execution /\ d.pending_attempt = c.pending_attempt
      /\ d.active_operation_id = c.active_operation_id
      /\ d.pending_interaction = c.pending_interaction
      /\ c.cycle_count \in Nat
  BY Fields DEF LoopContext
<1> HIDE DEF d
<1>3. ASSUME NEW op \in U PROVE op[1] < d.cycle_count
  <2>1. op[1] \in Nat
    BY DEF OperationId
  <2>2. op[1] < c.cycle_count \/ op[1] = c.cycle_count
    BY DEF Sane, Spent
  <2> QED BY <1>2, <2>1, <2>2
<1>4. Spent(U, d, "planner" \in Unsure \/ d.pending_execution # 0)
  BY <1>3 DEF Spent
<1>5. Readable(d)
  BY <1>2 DEF Sane, Readable, ValidCheckpoint, UniqueSteps
<1>6. Trusted(U, "planner", d)
  BY <1>2, <1>3, <1>4, <1>5 DEF Trusted, Working, Sane
<1> QED BY <1>1, <1>6 DEF d

LEMMA PlanSane ==
  ASSUME NEW U, NEW c \in LoopContext, Trusted(U, "planner", c),
         NEW plan \in Seq(PlanStep), UniqueSteps(plan)
  PROVE  LET d == [c EXCEPT !.current_plan = plan, !.current_step_index = 0] IN
         Sane(U, d) /\ d \in LoopContext /\ d.revision = c.revision
<1> DEFINE d == [c EXCEPT !.current_plan = plan, !.current_step_index = 0]
<1>1. d \in LoopContext
  BY PlanUpdate
<1>2. /\ d.current_plan = plan /\ d.current_step_index = 0
      /\ d.cycle_count = c.cycle_count /\ d.revision = c.revision
      /\ d.pending_execution = c.pending_execution /\ d.pending_attempt = c.pending_attempt
      /\ d.active_operation_id = c.active_operation_id
      /\ d.pending_interaction = c.pending_interaction
  BY DEF LoopContext
<1> HIDE DEF d
<1>3. Spent(U, d, d.pending_execution # 0)
  BY <1>2 DEF Trusted, Spent
<1>4. Readable(d)
  <2>1. Len(plan) \in Nat
    OBVIOUS
  <2> QED BY <1>2, <2>1 DEF Trusted, Readable, ValidCheckpoint, UniqueSteps
<1>5. d.pending_interaction = NoInteraction
  BY <1>2 DEF Trusted
<1>6. Sane(U, d)
  BY <1>3, <1>4, <1>5 DEF Sane
<1> QED BY <1>1, <1>2, <1>6 DEF d

LEMMA OperationTrusted ==
  ASSUME NEW U, NEW c \in LoopContext, NEW op \in OperationId, Trusted(U, "execute", c)
  PROVE  LET d == [c EXCEPT !.active_operation_id = op] IN
         Trusted(U, "dispatch", d) /\ d \in LoopContext /\ d.revision = c.revision
<1> DEFINE d == [c EXCEPT !.active_operation_id = op]
<1>1. d \in LoopContext
  BY OperationUpdate
<1>2. /\ SamePlace(c, d) /\ d.revision = c.revision /\ d.status = c.status
      /\ d.pending_execution = c.pending_execution /\ d.pending_interaction = c.pending_interaction
  BY DEF LoopContext, SamePlace
<1> HIDE DEF d
<1>3. c.status = "executing" /\ c.pending_execution = 0
  BY DEF Trusted, Working
<1>4. Spent(U, d, "dispatch" \in Unsure \/ d.pending_execution # 0)
  <2>1. Spent(U, c, FALSE)
    BY <1>3 DEF Trusted, Unsure
  <2> QED BY <1>2, <1>3, <2>1, SpentPlace DEF Unsure
<1>5. Readable(d)
  BY <1>2, <1>3 DEF Trusted, Readable, ValidCheckpoint, UniqueSteps, SamePlace
<1>6. c.pending_interaction = NoInteraction
  BY DEF Trusted
<1>7. Trusted(U, "dispatch", d)
  BY <1>2, <1>3, <1>4, <1>5, <1>6 DEF Trusted
<1> QED BY <1>1, <1>2, <1>7 DEF d

\* The operation a call is about to dispatch is not unsettled.
LEMMA OperationSettled ==
  ASSUME NEW U, NEW c \in LoopContext, NEW l \in {"dispatch", "redispatch"}, Trusted(U, l, c),
         StepsLeft(c)
  PROVE  Operation(c, CurrentStep(c)) \notin U
<1> SUFFICES ASSUME Operation(c, CurrentStep(c)) \in U PROVE FALSE
  OBVIOUS
<1>1. PICK op \in U : op = <<c.cycle_count, c.current_plan[c.current_step_index + 1].step_id>>
  BY DEF Operation, CurrentStep
<1>2. /\ c.status = "executing" /\ c.pending_execution = 0 /\ Spent(U, c, FALSE) /\ Readable(c)
  BY DEF Trusted, Working, Unsure
<1>3. /\ c.current_plan \in Seq(PlanStep) /\ c.current_step_index \in Nat /\ c.cycle_count \in Nat
      /\ c.current_step_index < Len(c.current_plan)
  BY Fields DEF StepsLeft
<1>4. ~Over(c)
  BY <1>2, <1>3 DEF Over, Terminal
<1>5. Done(c, op[2])
  BY <1>1, <1>2, <1>3, <1>4 DEF Spent
<1>6. PICK i \in DOMAIN c.current_plan :
        i <= c.current_step_index
        /\ c.current_plan[i].step_id = c.current_plan[c.current_step_index + 1].step_id
  BY <1>1, <1>5 DEF Done
<1>7. DOMAIN c.current_plan = 1 .. Len(c.current_plan) /\ Len(c.current_plan) \in Nat
  BY <1>3
<1>8. c.current_step_index + 1 \in DOMAIN c.current_plan /\ i # c.current_step_index + 1
  BY <1>3, <1>6, <1>7
<1> QED BY <1>2, <1>6, <1>8 DEF Readable, UniqueSteps

LEMMA AttemptTrusted ==
  ASSUME NEW U, NEW c \in LoopContext, NEW l \in {"dispatch", "redispatch"}, Trusted(U, l, c),
         StepsLeft(c), NEW k \in Nat \ {0}
  PROVE  LET d == [c EXCEPT !.total_attempts = @ + 1, !.pending_attempt = k] IN
         /\ Trusted(U \cup {Operation(c, CurrentStep(c))}, "executor", d)
         /\ d \in LoopContext /\ d.revision = c.revision
         /\ d.active_operation_id = c.active_operation_id
<1> DEFINE d == [c EXCEPT !.total_attempts = @ + 1, !.pending_attempt = k]
           V == U \cup {Operation(c, CurrentStep(c))}
<1>1. d \in LoopContext
  <2>1. c.total_attempts + 1 \in Nat /\ k \in Nat
    BY Fields
  <2> QED BY <2>1, Zenon DEF LoopContext
<1>2. /\ SamePlace(c, d) /\ d.revision = c.revision /\ d.status = c.status
      /\ d.pending_execution = c.pending_execution /\ d.pending_attempt = k
      /\ d.active_operation_id = c.active_operation_id
      /\ d.pending_interaction = c.pending_interaction
  BY DEF LoopContext, SamePlace
<1> HIDE DEF d
<1>3. c.status = "executing" /\ c.pending_execution = 0 /\ Spent(U, c, FALSE)
  BY DEF Trusted, Working, Unsure
<1>4. Spent(V, c, TRUE)
  <2>1. Operation(c, CurrentStep(c))[1] = c.cycle_count
    BY DEF Operation
  <2> QED BY <1>3, <2>1 DEF Spent
<1>5. Spent(V, d, "executor" \in Unsure \/ d.pending_execution # 0)
  BY <1>2, <1>4, SpentPlace DEF Unsure
<1>6. Readable(d)
  BY <1>2, <1>3 DEF Trusted, Readable, ValidCheckpoint, UniqueSteps, SamePlace
<1>7. c.pending_interaction = NoInteraction
  BY DEF Trusted
<1>8. Trusted(V, "executor", d)
  BY <1>2, <1>3, <1>5, <1>6, <1>7 DEF Trusted
<1> QED BY <1>1, <1>2, <1>8 DEF d, V

LEMMA ResultSane ==
  ASSUME NEW U, NEW c \in LoopContext, Trusted(U, "executor", c), c.total_attempts # 0,
         c.active_operation_id # NoOperation
  PROVE  LET d == [c EXCEPT !.pending_execution = c.total_attempts] IN
         Sane(U, d) /\ d \in LoopContext /\ d.revision = c.revision
<1> DEFINE d == [c EXCEPT !.pending_execution = c.total_attempts]
<1>1. d \in LoopContext
  BY ResultUpdate, Fields
<1>2. /\ SamePlace(c, d) /\ d.revision = c.revision
      /\ d.pending_execution = c.total_attempts /\ d.pending_attempt = c.pending_attempt
      /\ d.active_operation_id = c.active_operation_id
      /\ d.pending_interaction = c.pending_interaction
  BY DEF LoopContext, SamePlace
<1> HIDE DEF d
<1>3. Spent(U, d, d.pending_execution # 0)
  BY <1>2, SpentPlace DEF Trusted, Unsure
<1>4. Readable(d)
  BY <1>2 DEF Trusted, Readable, ValidCheckpoint, UniqueSteps, SamePlace
<1>5. d.pending_interaction = NoInteraction
  BY <1>2 DEF Trusted
<1>6. Sane(U, d)
  BY <1>3, <1>4, <1>5 DEF Sane
<1> QED BY <1>1, <1>2, <1>6 DEF d

\* A step whose result is verified is done.
LEMMA VerifiedSane ==
  ASSUME NEW U, NEW c \in LoopContext, Spent(U, c, TRUE), Readable(c), StepsLeft(c),
         c.pending_interaction = NoInteraction, NEW passed
  PROVE  Sane(U, VerifiedContext(c, passed))
<1> DEFINE d == VerifiedContext(c, passed)
<1>1. /\ c.current_plan \in Seq(PlanStep) /\ c.current_step_index \in Nat
      /\ c.current_step_index < Len(c.current_plan) /\ Len(c.current_plan) \in Nat
  BY Fields DEF StepsLeft
<1>2. /\ d.current_plan = c.current_plan /\ d.current_step_index = c.current_step_index + 1
      /\ d.cycle_count = c.cycle_count /\ d.status = c.status
      /\ d.pending_execution = 0 /\ d.pending_interaction = c.pending_interaction
  BY DEF VerifiedContext, LoopContext
<1> HIDE DEF d
<1>3. Over(c) => Over(d)
  BY <1>2 DEF Over
<1>4. \A s : Done(c, s) => Done(d, s)
  BY <1>1, <1>2 DEF Done
<1>5. Done(d, CurrentStep(c).step_id)
  <2>1. c.current_step_index + 1 \in DOMAIN d.current_plan
    BY <1>1, <1>2
  <2> QED BY <1>1, <1>2, <2>1 DEF Done, CurrentStep
<1>6. Operation(c, CurrentStep(c))[2] = CurrentStep(c).step_id
  BY DEF Operation
<1>7. Spent(U, d, d.pending_execution # 0)
  BY <1>2, <1>3, <1>4, <1>5, <1>6 DEF Spent
<1>8. Readable(d)
  BY <1>1, <1>2 DEF Readable, ValidCheckpoint, UniqueSteps
<1> QED BY <1>2, <1>7, <1>8 DEF Sane, d

-----------------------------------------------------------------------------
(* The steps in which something is in doubt or an answer outstanding.       *)

\* _stop into a block that the table allows.
LEMMA BlockWent ==
  ASSUME NEW p, NEW c \in LoopContext, NEW reason \in StopReason, NEW next \in Label, NEW raised \in Label,
         c.status \in {"executing", "waiting_approval"},
         Stop(p, c, "blocked", reason, next, raised)
  PROVE  \E e \in LoopContext :
           /\ SameWork(c, e) /\ e.revision = c.revision
           /\ e.status = "blocked" /\ e.stop_reason = reason
           /\ Went(p, e, next, raised)
<1> DEFINE d == [c EXCEPT !.active = FALSE, !.stop_reason = reason]
           e == [d EXCEPT !.status = "blocked"]
<1>1. d \in LoopContext /\ SameWork(c, d) /\ d.revision = c.revision /\ d.status = c.status
  BY ReasonWork
<1>2. d.stop_reason = reason
  BY DEF LoopContext
<1>3. Transition(p, d, "blocked", next, raised)
  BY DEF Stop
<1> HIDE DEF d
<1>4. "blocked" \in LoopStatus /\ "blocked" \in AllowedTransitions[d.status]
  BY <1>1 DEF LoopStatus, AllowedTransitions
<1>5. Commit(p, e, next, raised)
  BY <1>3, <1>4 DEF Transition
<1>6. e \in LoopContext /\ SameWork(d, e) /\ e.revision = d.revision /\ e.status = "blocked"
  BY <1>1, <1>4, StatusWork
<1>7. e.stop_reason = reason
  BY <1>1, <1>2 DEF LoopContext
<1> HIDE DEF e
<1>8. Went(p, e, next, raised)
  BY <1>5, <1>6, OneEventWent
<1> QED BY <1>1, <1>6, <1>7, <1>8, SameWorkTrans

\* recover() leaves a call in doubt behind in a run that cannot be resumed.
LEMMA RecoverStopReplays ==
  ASSUME ~Faulty, IndInv, ReplayInv, NEW p \in Procs, RecoverStop(p)
  PROVE  ReplayInv'
<1>1. PICK c : c = ctx[p]
  OBVIOUS
<1>2. /\ pc[p] = "recover_stop" /\ Stop(p, c, "blocked", "recovery_required", "idle", "idle")
      /\ c \in LoopContext /\ c.revision = ctx[p].revision
  BY <1>1 DEF RecoverStop, IndInv, TypeOK
<1>3. /\ "recovery_required" \in StopReason /\ "blocked" \in LoopStatus
      /\ "idle" \in Label /\ "idle" \notin Odd /\ "idle" # "executor"
      /\ "recover_stop" \notin Driving
  BY DEF StopReason, LoopStatus, Label, Driving, Awaiting, CompletionAction, Odd
<1>4. CASE ~Fresh(c)
  <2>1. Moved(p, c, "blocked", "idle", "idle")
    BY <1>2, <1>3, StopMoved
  <2> QED BY <1>2, <1>3, <1>4, <2>1, StaleReplays
<1>5. CASE Fresh(c)
  <2>1. Trusted(unsettled, "recover_stop", c)
    BY <1>1, <1>2, <1>5 DEF ReplayInv, Fresh
  <2>2. c.status \in {"executing", "waiting_approval"} /\ Spent(unsettled, c, TRUE) /\ Readable(c)
        /\ c.pending_interaction = NoInteraction
    BY <2>1 DEF Trusted, Unsure
  <2>3. PICK e \in LoopContext :
          /\ SameWork(c, e) /\ e.revision = c.revision
          /\ e.status = "blocked" /\ e.stop_reason = "recovery_required"
          /\ Went(p, e, "idle", "idle")
    BY <1>2, <1>3, <2>2, BlockWent
  <2>4. PICK U : U = unsettled'
    OBVIOUS
  <2>5. U \subseteq unsettled
    BY <1>3, <2>3, <2>4, NoDispatch DEF IndInv
  <2>6. c.status \notin Terminal
    BY <2>2 DEF Terminal
  <2>7. Settled(unsettled, e)
    <3>1. Spent(unsettled, e, TRUE) /\ Readable(e)
      BY <2>2, <2>3, <2>6, SpentSame
    <3> QED BY <2>2, <2>3, <3>1 DEF Settled, InFlight, SameWork
  <2>8. Settled(U, e) /\ U \in SUBSET OperationId
    BY <2>5, <2>7, TrustedLess DEF ReplayInv
  <2>9. Sighted(p, "idle", e)
    BY DEF Sighted
  <2> QED BY <1>2, <1>3, <2>3, <2>4, <2>8, <2>9, WentReplays
<1> QED BY <1>4, <1>5

\* A call that is over budget is known to have failed when that is saved.
LEMMA OverBudgetReplays ==
  ASSUME ~Faulty, IndInv, WorkInv, ReplayInv, NEW p \in Procs, ExecutorOverBudget(p)
  PROVE  ReplayInv'
<1> DEFINE d == [ctx[p] EXCEPT !.active_operation_id = NoOperation, !.pending_attempt = 0]
<1>1. PICK c : c = ctx[p]
  OBVIOUS
<1>2. /\ pc[p] = "executor" /\ Stop(p, d, "blocked", "budget_exhausted", "exit", "failing")
      /\ c \in LoopContext /\ c.revision = ctx[p].revision
  BY <1>1 DEF ExecutorOverBudget, Block, Returns, IndInv, TypeOK
<1>3. /\ "budget_exhausted" \in StopReason /\ "blocked" \in LoopStatus
      /\ {"exit", "failing", "broken"} \subseteq Label
      /\ "exit" \notin Odd /\ "failing" \notin Odd
      /\ "exit" # "executor" /\ "failing" # "executor" /\ "broken" # "executor"
  BY DEF StopReason, LoopStatus, Label, Driving, Odd
<1>4. /\ d \in LoopContext /\ d.revision = c.revision /\ SamePlace(c, d) /\ d.status = c.status
      /\ d.pending_execution = c.pending_execution
      /\ d.pending_interaction = c.pending_interaction
  <2>1. [c EXCEPT !.active_operation_id = NoOperation, !.pending_attempt = 0] \in LoopContext
    BY <1>2, ForgetUpdate
  <2>2. d = [c EXCEPT !.active_operation_id = NoOperation, !.pending_attempt = 0]
    BY <1>1
  <2> QED BY <1>2, <2>1, <2>2 DEF LoopContext, SamePlace
<1> HIDE DEF d
<1>5. CASE ~Fresh(c)
  <2>1. Moved(p, d, "blocked", "exit", "failing")
    BY <1>2, <1>3, <1>4, StopMoved
  <2>2. ~Fresh(d) /\ d.revision = ctx[p].revision
    BY <1>2, <1>4, <1>5 DEF Fresh
  <2> QED BY <1>3, <1>4, <2>1, <2>2, StaleReplays
<1>6. CASE Fresh(c)
  <2>1. Trusted(unsettled, "executor", c)
    BY <1>1, <1>2, <1>6 DEF ReplayInv, Fresh
  <2>2. c.status = "executing" /\ c.pending_execution = 0 /\ Spent(unsettled, c, TRUE) /\ Readable(c)
        /\ c.pending_interaction = NoInteraction
    BY <2>1 DEF Trusted, Unsure, Working
  <2>3. PICK e \in LoopContext :
          /\ SameWork(d, e) /\ e.revision = d.revision
          /\ e.status = "blocked" /\ e.stop_reason = "budget_exhausted"
          /\ Went(p, e, "exit", "failing")
    BY <1>2, <1>3, <1>4, <2>2, BlockWent
  <2>4. PICK U : U = unsettled'
    OBVIOUS
  <2>5. U \subseteq unsettled
    BY <1>2, <1>3, <2>3, <2>4, NoDispatch DEF IndInv
  <2>6. /\ SamePlace(c, e) /\ e.pending_execution = 0
        /\ e.pending_interaction = NoInteraction /\ e.status \notin AtRest
        /\ c.active_operation_id = Operation(c, CurrentStep(c))
    <3>1. c.active_operation_id = Operation(c, CurrentStep(c))
      BY <1>1, <1>2 DEF WorkInv, Placed, OnOperation
    <3>2. "executing" \notin Terminal /\ "blocked" \notin AtRest
      BY DEF Terminal, AtRest
    <3> QED BY <1>4, <2>2, <2>3, <3>1, <3>2 DEF SamePlace, SameWork
  <2>7. Readable(e)
    BY <2>2, <2>6 DEF Readable, ValidCheckpoint, UniqueSteps, SamePlace
  <2>8. Trusted(U, "cancelling", e)
    <3>1. Spent(U, e, TRUE)
      BY <2>2, <2>5, <2>6, SpentLess, SpentPlace
    <3> QED BY <2>6, <2>7, <3>1 DEF Trusted, Unsure, Working
  <2>9. ASSUME store' # store PROVE Settled(U, e)
    <3>1. PICK x, l : Land(p, x, l) /\ History(p) /\ (l \in {"exit", "failing", "cancelling", "idle"})
                      /\ Copy(e, store')
      BY <2>3, <2>9 DEF Went
    <3>2. pc'[p] # "executor" /\ store'.stop_reason = "budget_exhausted"
      BY <2>3, <3>1 DEF Land, Copy, IndInv, TypeOK
    <3>3. U = unsettled \ {c.active_operation_id}
      BY <1>1, <1>2, <2>4, <2>9, <3>1, <3>2 DEF History, Dispatches, ExecutorRaised
    <3>4. Spent(U, c, FALSE)
      BY <2>2, <2>6, <3>3 DEF Spent
    <3>5. Spent(U, e, FALSE)
      BY <2>6, <3>4, SpentPlace
    <3>6. Spent(U, e, InFlight(e))
      BY <3>5 DEF Spent
    <3> QED BY <2>6, <2>7, <3>6 DEF Settled
  <2>10. ASSUME store' # store PROVE Settled(U, e) /\ Sighted(p, "exit", e)
    BY <2>9, <2>10 DEF Sighted
  <2>11. U \in SUBSET OperationId /\ e.revision = ctx[p].revision /\ "exit" # "failing"
    BY <1>2, <1>4, <2>3, <2>5 DEF ReplayInv
  <2> QED BY <1>3, <2>3, <2>4, <2>8, <2>10, <2>11, WentReplays
<1> QED BY <1>5, <1>6

\* The run is paused for the answer it asks for.
LEMMA RequestHumanReplays ==
  ASSUME ~Faulty, IndInv, ReplayInv, NEW p \in Procs, NEW kind, NEW step, NEW reason \in StopReason,
         [interaction_id |-> ctx[p].revision, kind |-> kind, step |-> step] \in Interaction,
         Fresh(ctx[p]) => Sane(unsettled, ctx[p]), RequestHuman(p, kind, step, reason)
  PROVE  ReplayInv'
<1> DEFINE i == [interaction_id |-> ctx[p].revision, kind |-> kind, step |-> step]
           d == [ctx[p] EXCEPT !.pending_interaction = i, !.stop_reason = reason,
                               !.active = FALSE]
<1>1. PICK c : c = ctx[p]
  OBVIOUS
<1>2. c \in LoopContext /\ c.revision = ctx[p].revision
  BY <1>1 DEF IndInv, TypeOK
<1>3. \/ ctx[p].status = "paused" /\ Commit(p, d, "pausing", "failing")
      \/ Transition(p, d, "paused", "pausing", "failing")
      \/ Goto(p, ctx[p], "broken")
  BY DEF RequestHuman
<1>4. i \in Interaction
  OBVIOUS
<1> HIDE DEF i
<1>5. d = Asking(c, i, reason)
  BY <1>1 DEF Asking
<1> HIDE DEF d
<1>6. /\ d \in LoopContext /\ d.revision = c.revision /\ SamePlace(c, d) /\ d.status = c.status
      /\ d.pending_execution = c.pending_execution /\ d.pending_attempt = c.pending_attempt
      /\ d.active_operation_id = c.active_operation_id
  <2>1. Asking(c, i, reason) \in LoopContext
    BY <1>2, <1>4, AskUpdate DEF Asking
  <2> QED BY <1>2, <1>5, <2>1 DEF Asking, LoopContext, SamePlace
<1>7. Fresh(c) => Spent(unsettled, d, d.pending_execution # 0) /\ Readable(d)
  <2> SUFFICES ASSUME Fresh(c) PROVE Spent(unsettled, d, d.pending_execution # 0) /\ Readable(d)
    OBVIOUS
  <2>1. Sane(unsettled, c)
    BY <1>1
  <2>2. Spent(unsettled, d, d.pending_execution # 0)
    BY <1>6, <2>1, SpentPlace DEF Sane
  <2>3. Readable(d)
    BY <1>6, <2>1 DEF Sane, Readable, ValidCheckpoint, UniqueSteps, SamePlace
  <2> QED BY <2>2, <2>3
<1>8. /\ {"pausing", "failing", "broken"} \subseteq Plain
      /\ {"pausing", "failing", "broken"} \subseteq Label \ (Working \cup {"planner", "recover_stop", "executor"})
      /\ "pausing" \notin Odd /\ "paused" \in LoopStatus /\ "paused" \in AtRest
      /\ {"pausing", "broken"} \cap Unsure = {}
  BY DEF Plain, Label, Driving, Working, Odd, LoopStatus, AtRest, Unsure
<1>9. ASSUME NEW e, Spent(unsettled, e, e.pending_execution # 0), Readable(e)
      PROVE  Trusted(unsettled, "broken", e) /\ (e.status = "paused" => Trusted(unsettled, "pausing", e))
  BY <1>8, <1>9 DEF Trusted
<1>10. CASE ctx[p].status = "paused" /\ Commit(p, d, "pausing", "failing")
  <2>1. Fresh(d) => Trusted(unsettled, "pausing", d)
    BY <1>1, <1>6, <1>7, <1>9, <1>10 DEF Fresh
  <2> QED BY <1>2, <1>6, <1>8, <1>10, <2>1, CommitReplays
<1>11. CASE Transition(p, d, "paused", "pausing", "failing")
  <2>1. Moved(p, d, "paused", "pausing", "failing")
    BY <1>6, <1>8, <1>11, TransitionMoved
  <2>2. PICK e \in LoopContext :
          /\ SameWork(d, e) /\ e.revision = d.revision
          /\ \/ /\ e.status = "paused" /\ (d.status = "paused" \/ "paused" \in AllowedTransitions[d.status])
                /\ Went(p, e, "pausing", "failing")
             \/ /\ e.status = d.status /\ store' = store
                /\ Went(p, e, "broken", "broken")
    BY <2>1 DEF Moved
  <2>3. d.status \in Terminal => e.status \in Terminal
    <3>1. d.status \in Terminal => "paused" \notin AllowedTransitions[d.status] /\ d.status # "paused"
      BY DEF Terminal, AllowedTransitions
    <3> QED BY <2>2, <3>1
  <2>4. Fresh(e) => Spent(unsettled, e, e.pending_execution # 0) /\ Readable(e)
    <3>1. e.pending_execution = d.pending_execution
      BY <2>2 DEF SameWork
    <3> QED BY <1>6, <1>7, <2>2, <2>3, <3>1, SpentSame DEF Fresh
  <2>5. Fresh(e) => Trusted(unsettled, "broken", e) /\ (e.status = "paused" => Trusted(unsettled, "pausing", e))
    BY <1>9, <2>4
  <2>6. e.revision = ctx[p].revision
    BY <1>2, <1>6, <2>2
  <2>7. CASE e.status = "paused" /\ Went(p, e, "pausing", "failing")
    BY <1>8, <2>5, <2>6, <2>7, SaveReplays
  <2>8. CASE store' = store /\ Went(p, e, "broken", "broken")
    BY <1>8, <2>5, <2>6, <2>8, SaveReplays
  <2> QED BY <2>2, <2>7, <2>8
<1>12. CASE Goto(p, ctx[p], "broken")
  <2>1. Went(p, c, "broken", "broken") /\ store' = store
    BY <1>1, <1>2, <1>8, <1>12, GotoWent DEF Goto
  <2>2. Fresh(c) => Trusted(unsettled, "broken", c)
    BY <1>1, <1>8, SaneTrusted
  <2> QED BY <1>2, <1>8, <2>1, <2>2, SaveReplays
<1> QED BY <1>3, <1>10, <1>11, <1>12

\* The call is counted, saved and made; from here on it is unsettled.
LEMMA DispatchReplays ==
  ASSUME ~Faulty, IndInv, WorkInv, ReplayInv, NEW p \in Procs, Dispatch(p)
  PROVE  ReplayInv'
<1> DEFINE k == IF pc[p] = "dispatch" THEN 1 ELSE ctx[p].pending_attempt + 1
           d == [ctx[p] EXCEPT !.total_attempts = @ + 1, !.pending_attempt = k]
<1>1. PICK c : c = ctx[p]
  OBVIOUS
<1>2. /\ pc[p] \in {"dispatch", "redispatch"} /\ Commit(p, d, "executor", "failing")
      /\ c \in LoopContext /\ c.revision = ctx[p].revision
  BY <1>1, Zenon DEF Dispatch, PassesBoundary, IndInv, TypeOK
<1>3. k \in Nat \ {0}
  <2>1. c.pending_attempt \in Nat
    BY <1>2, Fields
  <2> QED BY <1>1, <2>1
<1> HIDE DEF k
<1>4. d = [c EXCEPT !.total_attempts = @ + 1, !.pending_attempt = k]
  BY <1>1
<1> HIDE DEF d
<1>5. StepsLeft(c) /\ c.active_operation_id = Operation(c, CurrentStep(c))
      /\ Operation(c, CurrentStep(c)) \in OperationId
  <2>1. StepsLeft(c)
    BY <1>1, <1>2 DEF IndInv, CursorOK, InStep
  <2>2. c.active_operation_id = Operation(c, CurrentStep(c))
    BY <1>1, <1>2 DEF WorkInv, Placed, OnOperation
  <2>3. CurrentStep(c).step_id \in StepIds /\ c.cycle_count \in Nat
    BY <1>2, <2>1, CurrentStepType, Fields
  <2> QED BY <2>1, <2>2, <2>3 DEF Operation, OperationId
<1>6. /\ d \in LoopContext /\ d.revision = c.revision
      /\ d.active_operation_id = c.active_operation_id
  <2>1. d \in LoopContext
    <3>1. c.total_attempts + 1 \in Nat /\ k \in Nat
      BY <1>2, <1>3, Fields
    <3> QED BY <1>2, <1>4, <3>1, Zenon DEF LoopContext
  <2> QED BY <1>2, <1>4, <2>1 DEF LoopContext
<1>7. "executor" \in Label /\ "failing" \in Label /\ "failing" # "executor" /\ "executor" \notin Odd
  BY DEF Label, Driving, Awaiting, Odd
<1>8. Went(p, d, "executor", "failing")
  BY <1>2, <1>6, <1>7, OneEventWent
<1>9. PICK U : U = unsettled'
  OBVIOUS
<1> DEFINE V == unsettled \cup {Operation(c, CurrentStep(c))}
<1>10. U \subseteq V
  <2>1. PICK x, l : Land(p, x, l) /\ History(p) /\ Copy(d, x)
    BY <1>8 DEF Went
  <2>2. CASE ~Dispatches(p)
    BY <1>9, <2>1, <2>2, HistoryShrinks
  <2>3. CASE Dispatches(p)
    <3>1. ctx'[p] = x
      <4>1. pc'[p] = l /\ pc'[p] = "executor"
        BY <2>1, <2>3 DEF Land, Dispatches, IndInv, TypeOK
      <4> QED BY <2>1, <4>1 DEF Land, IndInv, TypeOK
    <3>2. x.active_operation_id = Operation(c, CurrentStep(c))
      BY <1>5, <1>6, <2>1 DEF Copy, SameWork
    <3> QED BY <1>9, <2>1, <3>1, <3>2, HistoryAdds
  <2> QED BY <2>2, <2>3
<1>11. U \in SUBSET OperationId
  BY <1>5, <1>10 DEF ReplayInv
<1>12. ASSUME Fresh(d)
       PROVE  /\ Trusted(U, "executor", d) /\ Trusted(U, "cancelling", d) /\ Settled(U, d)
              /\ Sighted(p, "executor", d)
  <2>1. Fresh(c)
    BY <1>6, <1>12 DEF Fresh
  <2>2. PICK l \in {"dispatch", "redispatch"} : l = pc[p]
    BY <1>2
  <2>3. Trusted(unsettled, l, c)
    BY <1>1, <1>2, <2>1, <2>2 DEF ReplayInv, Fresh
  <2>4. Trusted(V, "executor", d)
    BY <1>2, <1>3, <1>4, <1>5, <2>3, AttemptTrusted
  <2>5. Trusted(U, "executor", d)
    BY <1>10, <2>4, TrustedLess
  <2>6. Sighted(p, "executor", d)
    BY <1>2, <1>5, <1>6, <2>3, OperationSettled DEF Sighted
  <2> QED BY <1>7, <2>5, <2>6, TrustedSettled, TrustedCancelling
<1>13. d.revision = ctx[p].revision
  BY <1>2, <1>6
<1> QED BY <1>6, <1>7, <1>8, <1>9, <1>11, <1>12, <1>13, WentReplays

\* A step that changes neither the store nor the history.
LEMMA QuietReplays ==
  ASSUME ReplayInv, store' = store, calls' = calls, unsettled' = unsettled,
         \A p \in Procs : \/ pc'[p] = "idle"
                          \/ pc'[p] = pc[p] /\ ctx'[p] = ctx[p]
  PROVE  ReplayInv'
<1>1. PICK U, s : U = unsettled /\ s = store
  OBVIOUS
<1>2. unsettled' = U /\ store' = s /\ Settled(U, s)
  BY <1>1 DEF ReplayInv
<1>3. Settled(unsettled, store)'
  BY <1>2 DEF Settled, Spent, InFlight, Readable, Over, Done
<1>4. \A q \in Procs : pc'[q] \notin {"idle", "exit"} /\ ctx'[q].revision = store'.revision
                          => Trusted(U, pc'[q], ctx'[q])
  BY <1>1, <1>2 DEF ReplayInv
<1>5. NoBlindReplay' /\ unsettled' \subseteq OperationId
  BY DEF ReplayInv, NoBlindReplay
<1> QED BY <1>2, <1>3, <1>4, <1>5 DEF ReplayInv, Trusted, Spent, Readable, Over, Done, Operation, CurrentStep

LEMMA ExitReplays ==
  ASSUME IndInv, ReplayInv, NEW p \in Procs, Exit(p)
  PROVE  ReplayInv'
<1>1. store' = store /\ pc[p] = "exit" /\ Land(p, ctx[p], "idle") /\ History(p)
  BY DEF Exit
<1>2. ~Dispatches(p) /\ ~ExecutorRaised(p)
  BY <1>1 DEF Dispatches, ExecutorRaised
<1>3. calls' = calls /\ unsettled' = unsettled
  BY <1>1, <1>2 DEF History
<1>4. \A q \in Procs : \/ pc'[q] = "idle"
                       \/ pc'[q] = pc[q] /\ ctx'[q] = ctx[q]
  BY <1>1 DEF Land, IndInv, TypeOK
<1> QED BY <1>1, <1>3, <1>4, QuietReplays

-----------------------------------------------------------------------------
(* One step of the call on p.                                               *)

LEMMA LoopStepReplays ==
  ASSUME ~Faulty, IndInv, WorkInv, ReplayInv, NEW p \in Procs, LoopStep(p)
  PROVE  ReplayInv'
<1> DEFINE c == ctx[p]
           Simple == Plain \ Odd
<1>c. /\ c \in LoopContext /\ c.revision = ctx[p].revision /\ c = ctx[p] /\ Placed(pc[p], c)
      /\ unsettled \in SUBSET OperationId
  BY DEF IndInv, TypeOK, WorkInv, ReplayInv
<1>s. pc[p] \in InStep => StepsLeft(c)
  BY DEF IndInv, CursorOK
<1>v. pc[p] \notin {"idle", "exit"} /\ Fresh(c) => Trusted(unsettled, pc[p], c)
  BY DEF ReplayInv, Fresh
<1>a. pc[p] \notin Unsure \cup {"pausing", "broken", "exit", "idle"} /\ Fresh(c) => Sane(unsettled, c)
  BY <1>v, TrustedSane
<1>l. /\ {"cycle", "step", "begin", "rejected", "replanned", "failing", "evaluator", "verify",
          "verifier", "gate", "approved", "exit", "idle", "resume_planning"} \subseteq Simple
      /\ CompletionAction \subseteq Simple
      /\ Simple \subseteq Plain /\ Simple \subseteq Label \ (Odd \cup {"executor"})
      /\ {"execute", "dispatch", "redispatch", "backoff", "retry", "planner", "broken", "cancelling", "executor"}
            \subseteq Label
      /\ {"broken", "cancelling"} \subseteq Plain
  BY DEF Plain, Odd, Working, Label, Driving, Awaiting, Entry, CompletionAction
<1>u. /\ Unsure \cup {"pausing", "broken", "exit", "idle"}
            = {"executor", "cancelling", "recover_stop", "pausing", "broken", "exit", "idle"}
      /\ Odd = {"cancelling", "broken", "recover_stop"}
      /\ Working = {"execute", "dispatch", "redispatch", "executor", "retry", "backoff"}
      /\ "executor" \in InStep /\ "verifier" \in InStep /\ "execute" \in InStep /\ "gate" \in InStep
  BY DEF Unsure, Odd, Working, InStep
<1>t. /\ {"planning", "executing", "verifying", "waiting_approval", "blocked",
          "completed", "cancelled", "timed_out", "failed"} \subseteq LoopStatus
      /\ {"cancelled", "timed_out", "failed"} = AbortTargets
      /\ {"policy_rejected", "approval_rejected", "approval_deferred", "cycle_limit",
          "attempt_limit", "step_limit", "cancelled", "timed_out", "completed",
          "human_input_required", "completion_rejected", "component_error",
          "budget_exhausted", "recovery_required"} \subseteq StopReason
  BY DEF LoopStatus, StopReason, AbortTargets
<1>d. Fresh(c) /\ Sane(unsettled, c)
        => /\ Sane(unsettled, DropPlan(c)) /\ DropPlan(c) \in LoopContext
           /\ DropPlan(c).revision = c.revision
  <2> SUFFICES ASSUME Sane(unsettled, c)
               PROVE  /\ Sane(unsettled, DropPlan(c)) /\ DropPlan(c) \in LoopContext
                      /\ DropPlan(c).revision = c.revision
    OBVIOUS
  <2>1. Spent(unsettled, c, TRUE) /\ Readable(c) /\ c.pending_interaction = NoInteraction
    BY DEF Sane, Spent
  <2> QED BY <1>c, <2>1, DropSane
<1>e. DropPlan(c) \in LoopContext /\ DropPlan(c).revision = c.revision
  BY <1>c, DropPlanWork DEF Rearranged
<1>f. \A d : d.revision = c.revision => Fresh(d) = Fresh(c)
  BY DEF Fresh
<1> HIDE DEF c, Simple
<1>g. ASSUME pc[p] \notin {"executor", "cancelling", "recover_stop", "pausing", "broken", "exit", "idle"}
      PROVE  /\ Fresh(c) => Sane(unsettled, c)
             /\ Fresh(c) => \A l \in Simple : Trusted(unsettled, l, c)
  BY <1>a, <1>g, <1>l, <1>u, SaneTrusted
<1>1. CASE RunStart(p)
  BY <1>1, <1>c, <1>g, <1>l, CommitReplays DEF RunStart
<1>2. CASE ResumeContinue(p)
  BY <1>2, <1>c, <1>g, <1>l, CommitReplays DEF ResumeContinue
<1>3. CASE ResumeReplan(p)
  BY <1>3, <1>c, <1>g, <1>l, <1>t, TransitionReplays DEF ResumeReplan
<1>4. CASE ResumePlanning(p)
  BY <1>4, <1>c, <1>g, <1>l, CommitReplays DEF ResumePlanning
<1>5. CASE RecoverStop(p)
  BY <1>5, RecoverStopReplays
<1>6. CASE RecoverSave(p)
  <2>1. PICK l \in {"step", "cycle"} : Commit(p, c, l, "idle")
    BY <1>6, <1>c DEF RecoverSave
  <2>2. pc[p] = "recover_save"
    BY <1>6 DEF RecoverSave
  <2> QED BY <2>1, <2>2, <1>c, <1>g, <1>l, CommitReplays
<1>7. CASE SubmitSave(p)
  <2>1. PICK n \in Nat \ {0} : CommitMany(p, c, n, "idle", "idle")
    BY <1>7, <1>c DEF SubmitSave
  <2>2. pc[p] = "submit_save" /\ Went(p, c, "idle", "idle")
    BY <1>7, <1>c, <1>l, <2>1, CommitWent DEF SubmitSave
  <2> QED BY <1>c, <1>g, <1>l, <2>2, SaveReplays
<1>8. CASE StopCancelled(p)
  <2>1. pc[p] \in SafeBoundary /\ Stop(p, c, "cancelled", "cancelled", "exit", "failing")
    BY <1>8, <1>c DEF StopCancelled, AtBoundary
  <2> QED BY <2>1, <1>c, <1>g, <1>l, <1>t, StopReplays DEF SafeBoundary
<1>9. CASE StopRejected(p)
  <2>1. pc[p] \in SafeBoundary /\ Block(p, c, "policy_rejected")
    BY <1>9, <1>c DEF StopRejected, AtBoundary
  <2> QED BY <2>1, <1>c, <1>g, <1>t, BlockReplays DEF SafeBoundary
<1>10. CASE CycleLimit(p)
  BY <1>10, <1>c, <1>g, <1>t, BlockReplays DEF CycleLimit
<1>11. CASE StartPlanning(p)
  BY <1>11, <1>c, <1>g, <1>l, <1>t, EnterReplays DEF StartPlanning
<1>12. CASE BeginCycle(p)
  <2> DEFINE d == [c EXCEPT !.cycle_count = @ + 1]
  <2>1. pc[p] = "begin" /\ Goto(p, d, "planner")
    BY <1>12, <1>c DEF BeginCycle
  <2>2. d \in LoopContext /\ d.revision = c.revision
    BY <1>c, CycleWork DEF Rearranged
  <2>3. Fresh(c) => Trusted(unsettled, "planner", d)
    BY <1>c, <1>g, <2>1, CycleTrusted
  <2> HIDE DEF d
  <2>4. Went(p, d, "planner", "planner") /\ store' = store
    BY <1>l, <2>1, <2>2, GotoWent DEF Goto
  <2> QED BY <1>c, <1>f, <1>l, <2>2, <2>3, <2>4, SaveReplays
<1>13. CASE \E plan \in Plans : PlanCreated(p, plan)
  <2>1. PICK plan \in Plans : PlanCreated(p, plan)
    BY <1>13
  <2>2. plan \in Seq(PlanStep)
    BY LoopAssumption
  <2> DEFINE d == [c EXCEPT !.current_plan = plan, !.current_step_index = 0]
  <2>3. pc[p] = "planner"
    BY <2>1 DEF PlanCreated, Returns
  <2>4. Len(plan) \in Nat /\ MaxStepsPerPlan \in Nat
    BY <2>2, LoopAssumption
  <2>5. \/ Goto(p, c, "failing")
        \/ Block(p, DropPlan(c), "step_limit")
        \/ UniqueSteps(plan) /\ Commit(p, d, "step", "failing")
    BY <2>1, <2>4, <1>c DEF PlanCreated
  <2>6. d \in LoopContext /\ d.revision = c.revision
    BY <1>c, <2>2, PlanWork, Zenon DEF Rearranged
  <2>7. UniqueSteps(plan) /\ Fresh(c) => Sane(unsettled, d)
    BY <1>c, <1>v, <2>2, <2>3, PlanSane
  <2> HIDE DEF d
  <2>8. CASE Goto(p, c, "failing")
    <3>1. Went(p, c, "failing", "failing") /\ store' = store
      BY <1>c, <1>l, <2>8, GotoWent DEF Goto
    <3> QED BY <1>c, <1>g, <1>l, <2>3, <3>1, SaveReplays
  <2>9. CASE Block(p, DropPlan(c), "step_limit")
    BY <1>c, <1>d, <1>e, <1>f, <1>g, <1>t, <2>3, <2>9, BlockReplays
  <2>10. CASE UniqueSteps(plan) /\ Commit(p, d, "step", "failing")
    <3>1. Fresh(d) => Trusted(unsettled, "step", d)
      BY <1>f, <1>l, <2>6, <2>7, <2>10, SaneTrusted
    <3> QED BY <1>c, <1>l, <2>3, <2>6, <2>10, <3>1, CommitReplays
  <2> QED BY <2>5, <2>8, <2>9, <2>10
<1>b. ASSUME Goto(p, c, "broken"), pc[p] \in {"step", "execute"} PROVE ReplayInv'
  <2>1. Went(p, c, "broken", "broken") /\ store' = store
    BY <1>b, <1>c, <1>l, GotoWent DEF Goto
  <2>2. Fresh(c) => Trusted(unsettled, "broken", c)
    BY <1>b, <1>g, <1>l, SaneTrusted
  <2> QED BY <1>c, <1>l, <2>1, <2>2, SaveReplays
<1>14. CASE VerifyPending(p)
  <2>1. pc[p] = "step"
    BY <1>14 DEF VerifyPending, NextStep
  <2>2. Enter(p, c, "verifying", "verifier", "failing") \/ Goto(p, c, "broken")
    BY <1>14, <1>c DEF VerifyPending
  <2> QED BY <1>b, <1>c, <1>g, <1>l, <1>t, <2>1, <2>2, EnterReplays
<1>15. CASE StartStep(p)
  <2>1. pc[p] = "step" /\ c.pending_execution = 0 /\ Enter(p, c, "executing", "execute", "failing")
    BY <1>15, <1>c DEF StartStep, NextStep
  <2> QED BY <1>c, <1>g, <1>l, <1>t, <2>1, EnterReplays
<1>16. CASE UseApproval(p)
  BY <1>16, <1>c, <1>g, <1>l, CommitReplays DEF UseApproval, NextStep
<1>17. CASE AskGate(p)
  BY <1>17, <1>c, <1>g, <1>l, <1>t, TransitionReplays DEF AskGate, NextStep
<1>18. CASE GateApproves(p)
  BY <1>18, <1>c, <1>g, <1>l, CommitReplays DEF GateApproves, Returns
<1>19. CASE GateRejects(p)
  BY <1>19, <1>c, <1>g, <1>t, BlockReplays DEF GateRejects, Returns
<1>20. CASE GateDefers(p)
  <2>1. pc[p] = "gate" /\ RequestHuman(p, "approval", CurrentStep(c).step_id, "approval_deferred")
    BY <1>20, <1>c DEF GateDefers, Returns
  <2>2. CurrentStep(c).step_id \in StepIds /\ c.revision \in Nat
    BY <1>c, <1>s, <1>u, <2>1, CurrentStepType, Fields
  <2>3. [interaction_id |-> ctx[p].revision, kind |-> "approval", step |-> CurrentStep(c).step_id]
          \in Interaction
    BY <1>c, <2>2 DEF Interaction
  <2> QED BY <1>c, <1>g, <1>t, <2>1, <2>3, RequestHumanReplays
<1>21. CASE Paused(p)
  <2>1. pc[p] = "pausing" /\ Commit(p, c, "exit", "failing")
    BY <1>21, <1>c DEF Paused
  <2>2. Fresh(c) => Trusted(unsettled, "exit", c)
    BY <1>v, <2>1 DEF Trusted, Unsure, Working
  <2> QED BY <1>c, <1>l, <2>1, <2>2, CommitReplays
<1>22. CASE Approved(p)
  <2>1. pc[p] = "approved" /\ Transition(p, c, "executing", "execute", "failing")
    BY <1>22, <1>c DEF Approved
  <2>2. c.pending_execution = 0
    BY <1>c, <2>1 DEF Placed
  <2> QED BY <1>c, <1>g, <1>l, <1>t, <2>1, <2>2, TransitionReplays
<1>23. CASE BeginExecute(p)
  <2> DEFINE op == Operation(c, CurrentStep(c))
             d == [c EXCEPT !.active_operation_id = op]
  <2>1. pc[p] = "execute"
    BY <1>23 DEF BeginExecute
  <2>2. Goto(p, d, "dispatch") \/ Goto(p, c, "broken")
    BY <1>23, <1>c DEF BeginExecute
  <2>3. op \in OperationId
    <3>1. CurrentStep(c).step_id \in StepIds /\ c.cycle_count \in Nat
      BY <1>c, <1>s, <1>u, <2>1, CurrentStepType, Fields
    <3> QED BY <3>1 DEF Operation, OperationId
  <2> HIDE DEF op
  <2>4. d \in LoopContext /\ d.revision = c.revision
    <3>1. d \in LoopContext
      BY <1>c, <2>3, OperationUpdate
    <3> QED BY <1>c, <3>1 DEF LoopContext
  <2>5. Fresh(c) => Trusted(unsettled, "dispatch", d)
    BY <1>c, <1>v, <2>1, <2>3, OperationTrusted
  <2> HIDE DEF d
  <2>6. CASE Goto(p, d, "dispatch")
    <3>1. Went(p, d, "dispatch", "dispatch") /\ store' = store
      BY <1>l, <2>4, <2>6, GotoWent DEF Goto
    <3> QED BY <1>c, <1>f, <1>l, <2>4, <2>5, <3>1, SaveReplays
  <2> QED BY <1>b, <2>1, <2>2, <2>6
<1>24. CASE AttemptLimit(p)
  BY <1>24, <1>c, <1>g, <1>t, BlockReplays DEF AttemptLimit
<1>25. CASE Dispatch(p)
  BY <1>25, DispatchReplays
<1>26. CASE ExecutorReturns(p)
  <2> DEFINE d == [c EXCEPT !.pending_execution = c.total_attempts]
  <2>1. pc[p] = "executor" /\ Commit(p, d, "verify", "retry")
    BY <1>26, <1>c DEF ExecutorReturns, Returns
  <2>2. c.total_attempts # 0 /\ c.active_operation_id # NoOperation
    <3>1. c.total_attempts # 0 /\ c.active_operation_id = Operation(c, CurrentStep(c))
      BY <1>c, <2>1 DEF Placed, OnOperation
    <3>2. Operation(c, CurrentStep(c)) # NoOperation
      BY DEF Operation, NoOperation
    <3> QED BY <3>1, <3>2
  <2>3. d \in LoopContext /\ d.revision = c.revision
    <3>1. d \in LoopContext
      BY <1>c, ResultUpdate, Fields
    <3> QED BY <1>c, <3>1 DEF LoopContext
  <2>4. Fresh(c) => Sane(unsettled, d)
    BY <1>c, <1>v, <2>1, <2>2, ResultSane
  <2> HIDE DEF d
  <2>5. Fresh(d) => Trusted(unsettled, "verify", d)
    BY <1>f, <1>l, <2>3, <2>4, SaneTrusted
  <2> QED BY <1>c, <1>l, <2>1, <2>3, <2>5, CommitReplays
<1>27. CASE ExecutorRaises(p)
  <2>1. pc[p] = "executor" /\ Goto(p, c, "retry") /\ c.active_operation_id = Operation(c, CurrentStep(c))
    BY <1>27, <1>c DEF ExecutorRaises, Returns, Placed, OnOperation
  <2>2. pc'[p] = "retry" /\ ctx'[p] = c /\ History(p)
    BY <2>1 DEF Goto, Land, IndInv, TypeOK
  <2>3. unsettled' = unsettled \ {c.active_operation_id}
    BY <1>c, <2>1, <2>2 DEF History, Dispatches, ExecutorRaised
  <2>4. PICK U : U = unsettled'
    OBVIOUS
  <2>5. Fresh(c) => Trusted(U, "retry", c)
    <3> SUFFICES ASSUME Fresh(c) PROVE Trusted(U, "retry", c)
      OBVIOUS
    <3>1. Trusted(unsettled, "executor", c)
      BY <1>v, <2>1
    <3>2. Spent(U, c, FALSE)
      BY <2>1, <2>3, <2>4, <3>1 DEF Trusted, Spent
    <3> QED BY <3>1, <3>2 DEF Trusted, Spent, Working, Unsure
  <2> QED BY <1>c, <1>l, <2>1, <2>3, <2>4, <2>5, GotoReplays
<1>28. CASE ExecutorOverBudget(p)
  BY <1>28, OverBudgetReplays
<1>29. CASE RetryFails(p)
  <2>1. pc[p] = "retry" /\ Goto(p, c, "failing")
    BY <1>29, <1>c DEF RetryFails
  <2>2. Went(p, c, "failing", "failing") /\ store' = store
    BY <1>c, <1>l, <2>1, GotoWent DEF Goto
  <2> QED BY <1>c, <1>g, <1>l, <2>1, <2>2, SaveReplays
<1>30. CASE RetryReplans(p)
  <2> DEFINE e == DropPlan(c)
             d == [e EXCEPT !.active_operation_id = NoOperation, !.pending_attempt = 0]
  <2>1. pc[p] = "retry" /\ Transition(p, d, "planning", "cycle", "failing")
    BY <1>30, <1>c DEF RetryReplans
  <2>2. e \in LoopContext /\ e.revision = c.revision
    BY <1>e
  <2>3. Fresh(c) => Sane(unsettled, e) /\ e.pending_execution = 0
    <3> SUFFICES ASSUME Fresh(c) PROVE Sane(unsettled, e) /\ e.pending_execution = 0
      OBVIOUS
    <3>1. c.pending_execution = 0 /\ Sane(unsettled, c)
      BY <1>g, <1>v, <2>1 DEF Trusted, Working
    <3>2. e.pending_execution = 0
      BY <1>c, <3>1 DEF DropPlan, LoopContext
    <3> QED BY <1>d, <3>1, <3>2
  <2> HIDE DEF e
  <2>4. d \in LoopContext /\ d.revision = c.revision
    BY <2>2, ForgetWork DEF Rearranged
  <2>5. Fresh(c) => Sane(unsettled, d)
    BY <2>2, <2>3, ForgetSane
  <2> HIDE DEF d
  <2> QED BY <1>c, <1>f, <1>l, <1>t, <2>1, <2>4, <2>5, TransitionReplays
<1>31. CASE RetryRetries(p)
  <2>1. PICK l \in {"backoff", "redispatch"} : Commit(p, c, l, "failing")
    BY <1>31, <1>c DEF RetryRetries
  <2>2. pc[p] = "retry"
    BY <1>31 DEF RetryRetries
  <2>3. Fresh(c) => Trusted(unsettled, l, c)
    BY <1>v, <2>2 DEF Trusted, Unsure, Working
  <2> QED BY <1>c, <1>l, <1>u, <2>1, <2>2, <2>3, CommitReplays
<1>32. CASE BackoffEnds(p)
  <2>1. pc[p] = "backoff" /\ Goto(p, c, "redispatch")
    BY <1>32, <1>c DEF BackoffEnds, Returns
  <2>2. Fresh(c) => Trusted(unsettled, "redispatch", c)
    BY <1>v, <2>1 DEF Trusted, Unsure, Working
  <2>3. Went(p, c, "redispatch", "redispatch") /\ store' = store
    BY <1>c, <1>l, <2>1, GotoWent DEF Goto
  <2> QED BY <1>c, <1>l, <2>1, <2>2, <2>3, SaveReplays
<1>33. CASE StartVerification(p)
  BY <1>33, <1>c, <1>g, <1>l, <1>t, EnterReplays DEF StartVerification
<1>34. CASE \E passed \in BOOLEAN : VerifierReturns(p, passed)
  <2>1. PICK passed \in BOOLEAN : VerifierReturns(p, passed)
    BY <1>34
  <2>2. PICK l \in {"step", "rejected"} : Commit(p, VerifiedContext(c, passed), l, "failing")
    BY <2>1, <1>c DEF VerifierReturns
  <2>3. pc[p] = "verifier"
    BY <2>1 DEF VerifierReturns, Returns
  <2> DEFINE d == VerifiedContext(c, passed)
  <2>4. d \in LoopContext
    BY <1>c, <1>s, <1>u, <2>3, GoodSelf, VerifiedUpdate DEF Good
  <2>5. d.revision = c.revision
    BY <1>c DEF VerifiedContext, LoopContext
  <2>6. Fresh(c) => Sane(unsettled, d)
    <3> SUFFICES ASSUME Fresh(c) PROVE Sane(unsettled, d)
      OBVIOUS
    <3>1. Spent(unsettled, c, TRUE) /\ Readable(c) /\ c.pending_interaction = NoInteraction
      BY <1>g, <2>3 DEF Sane, Spent
    <3> QED BY <1>c, <1>s, <1>u, <2>3, <3>1, VerifiedSane
  <2> HIDE DEF d
  <2>7. Fresh(d) => Trusted(unsettled, l, d)
    BY <1>f, <1>l, <2>5, <2>6, SaneTrusted
  <2>8. Commit(p, d, l, "failing")
    BY <2>2 DEF d
  <2> QED BY <1>c, <1>l, <2>3, <2>4, <2>5, <2>7, <2>8, CommitReplays
<1>35. CASE ReplanRejected(p)
  <2>1. pc[p] = "rejected" /\ Transition(p, DropPlan(c), "planning", "cycle", "failing")
    BY <1>35, <1>c DEF ReplanRejected
  <2> QED BY <1>c, <1>d, <1>e, <1>f, <1>g, <1>l, <1>t, <2>1, TransitionReplays
<1>36. CASE FinishApproved(p)
  <2> DEFINE d == [c EXCEPT !.completion_approved = FALSE]
  <2>1. pc[p] = "step" /\ Stop(p, d, "completed", "completed", "exit", "failing")
    BY <1>36, <1>c DEF FinishApproved, PlanDone, Complete
  <2>2. /\ d \in LoopContext /\ d.revision = c.revision /\ SamePlace(c, d)
        /\ d.pending_execution = c.pending_execution /\ d.pending_attempt = c.pending_attempt
        /\ d.active_operation_id = c.active_operation_id
        /\ d.pending_interaction = c.pending_interaction
    <3>1. d \in LoopContext
      BY <1>c, CompletionUpdate
    <3> QED BY <1>c, <3>1 DEF LoopContext, SamePlace
  <2> HIDE DEF d
  <2>3. Fresh(d) => Sane(unsettled, d)
    <3>1. Sane(unsettled, c) => d.pending_interaction = NoInteraction
      BY <2>2 DEF Sane
    <3> QED BY <1>f, <1>g, <2>1, <2>2, <3>1, SaneSame
  <2> QED BY <1>c, <1>l, <1>t, <2>1, <2>2, <2>3, StopReplays
<1>37. CASE FinishUnevaluated(p)
  BY <1>37, <1>c, <1>g, <1>l, <1>t, StopReplays DEF FinishUnevaluated, PlanDone, Complete
<1>38. CASE StartEvaluation(p)
  BY <1>38, <1>c, <1>g, <1>l, CommitReplays DEF StartEvaluation, PlanDone
<1>39. CASE \E decision \in CompletionAction : EvaluatorDecides(p, decision)
  <2>1. PICK decision \in CompletionAction : Commit(p, c, decision, "failing")
    BY <1>39, <1>c DEF EvaluatorDecides
  <2>2. pc[p] = "evaluator" /\ decision \in Simple
    BY <1>39, <1>l DEF EvaluatorDecides, Returns
  <2> QED BY <1>c, <1>g, <1>l, <2>1, <2>2, CommitReplays
<1>40. CASE EvaluationAccepted(p)
  BY <1>40, <1>c, <1>g, <1>l, <1>t, StopReplays DEF EvaluationAccepted, Complete
<1>41. CASE EvaluationStops(p)
  BY <1>41, <1>c, <1>g, <1>t, BlockReplays DEF EvaluationStops
<1>42. CASE EvaluationAsksHuman(p)
  <2>1. PICK kind \in {"input", "completion_review"} :
          RequestHuman(p, kind, "none", "human_input_required")
    BY <1>42 DEF EvaluationAsksHuman
  <2>2. pc[p] = "request_human"
    BY <1>42 DEF EvaluationAsksHuman
  <2>3. [interaction_id |-> ctx[p].revision, kind |-> kind, step |-> "none"] \in Interaction
    BY <1>c, Fields DEF Interaction
  <2> QED BY <1>c, <1>g, <1>t, <2>1, <2>2, <2>3, RequestHumanReplays
<1>43. CASE EvaluationReplans(p)
  <2>1. pc[p] = "replan" /\ Commit(p, DropPlan(c), "replanned", "failing")
    BY <1>43, <1>c DEF EvaluationReplans
  <2>2. Fresh(DropPlan(c)) => Trusted(unsettled, "replanned", DropPlan(c))
    BY <1>d, <1>e, <1>f, <1>g, <1>l, <2>1, SaneTrusted
  <2> QED BY <1>c, <1>e, <1>l, <2>1, <2>2, CommitReplays
<1>44. CASE StartReplanning(p)
  BY <1>44, <1>c, <1>g, <1>l, <1>t, TransitionReplays DEF StartReplanning
<1>w. /\ SupervisionRaises(p) \in {"failing", "retry"}
      /\ pc[p] # "executor" => SupervisionRaises(p) = "failing"
      /\ Awaiting \subseteq Label \ {"cancelling", "broken", "recover_stop", "idle", "exit",
                                     "pausing", "dispatch", "redispatch"}
  BY DEF SupervisionRaises, Awaiting, Label, Driving
<1>45. CASE Heartbeat(p)
  <2>1. PICK r \in {"failing", "retry"} : Commit(p, c, pc[p], r) /\ pc[p] \in Awaiting
    BY <1>45, <1>c, <1>w DEF Heartbeat
  <2> QED BY <1>c, <1>l, <1>u, <1>v, <1>w, <2>1, CommitReplays
<1>x. ASSUME NEW target \in {"cancelled", "timed_out"}, pc[p] \in Awaiting,
             Stop(p, c, target, target, "exit", SupervisionRaises(p))
      PROVE  ReplayInv'
  <2>1. CASE pc[p] # "executor"
    BY <1>c, <1>g, <1>l, <1>t, <1>w, <1>x, <2>1, StopReplays
  <2>2. CASE pc[p] = "executor"
    <3>1. PICK r \in Label \ {"executor"} : Stop(p, c, target, target, "exit", r)
      BY <1>l, <1>w, <1>x
    <3>2. Moved(p, c, target, "exit", r)
      BY <1>c, <1>l, <1>t, <3>1, StopMoved
    <3>3. Fresh(c) => c.status \notin Terminal /\ Spent(unsettled, c, TRUE) /\ Readable(c)
      BY <1>v, <2>2 DEF Trusted, Unsure, Working, Terminal
    <3> QED BY <1>c, <1>t, <3>2, <3>3, EndReplays
  <2> QED BY <2>1, <2>2
<1>46. CASE SupervisedCancel(p)
  BY <1>46, <1>c, <1>x DEF SupervisedCancel
<1>47. CASE SupervisedTimeout(p)
  BY <1>47, <1>c, <1>x DEF SupervisedTimeout
<1>48. CASE ComponentRaises(p)
  <2>1. pc[p] \in Awaiting \ {"executor", "backoff"} /\ Goto(p, c, "failing")
    BY <1>48, <1>c DEF ComponentRaises
  <2>2. Went(p, c, "failing", "failing") /\ store' = store
    BY <1>c, <1>l, <2>1, GotoWent DEF Goto
  <2> QED BY <1>c, <1>g, <1>l, <1>w, <2>1, <2>2, SaveReplays
<1>49. CASE ComponentOverBudget(p)
  <2>1. pc[p] \in Awaiting \ {"executor", "backoff"}
        /\ Stop(p, c, "blocked", "budget_exhausted", "exit", "exit")
    BY <1>49, <1>c DEF ComponentOverBudget
  <2> QED BY <1>c, <1>g, <1>l, <1>t, <1>w, <2>1, StopReplays
<1>50. CASE Fail(p)
  <2> DEFINE d == [c EXCEPT !.active = FALSE, !.stop_reason = "component_error"]
  <2>1. pc[p] \in {"failing", "broken"}
    BY <1>50 DEF Fail
  <2>2. \/ Goto(p, c, "exit")
        \/ c.status \notin Terminal /\ Transition(p, d, "failed", "exit", "exit")
    BY <1>50, <1>c DEF Fail
  <2>3. d \in LoopContext /\ SameWork(c, d) /\ d.revision = c.revision /\ d.status = c.status
    BY <1>c, <1>t, ReasonWork
  <2> HIDE DEF d
  <2>4. CASE Goto(p, c, "exit")
    <3>1. store' = store /\ pc'[p] = "exit" /\ Land(p, c, "exit") /\ History(p)
      BY <2>4 DEF Goto, Land, IndInv, TypeOK
    <3>2. ~Dispatches(p) /\ ~ExecutorRaised(p)
      BY <2>1, <3>1 DEF Dispatches, ExecutorRaised
    <3>3. unsettled' = unsettled /\ calls' = calls
      BY <3>1, <3>2 DEF History
    <3>4. Went(p, c, "exit", "exit")
      BY <1>c, <1>l, <2>4, GotoWent
    <3>5. Fresh(c) => Trusted(unsettled, "cancelling", c)
      BY <1>v, <2>1, TrustedCancelling
    <3>6. PICK U : U = unsettled /\ unsettled' = U
      BY <3>3
    <3> QED BY <1>c, <1>l, <3>1, <3>4, <3>5, <3>6, WentReplays
  <2>5. CASE c.status \notin Terminal /\ Transition(p, d, "failed", "exit", "exit")
    <3>1. Moved(p, d, "failed", "exit", "exit")
      BY <1>l, <1>t, <2>3, <2>5, TransitionMoved
    <3>2. Fresh(c) => Spent(unsettled, c, TRUE) /\ Readable(c)
      BY <1>v, <2>1 DEF Trusted, Spent
    <3>3. Fresh(d) => d.status \notin Terminal /\ Spent(unsettled, d, TRUE) /\ Readable(d)
      BY <1>f, <2>3, <2>5, <3>2, SpentSame
    <3> QED BY <1>c, <1>l, <1>t, <2>3, <3>1, <3>3, EndReplays
  <2> QED BY <2>2, <2>4, <2>5
<1>51. CASE TaskCancelled(p)
  <2>1. pc[p] \in Awaiting /\ Goto(p, c, "cancelling")
    BY <1>51, <1>c DEF TaskCancelled
  <2>2. Went(p, c, "cancelling", "cancelling") /\ store' = store
    BY <1>c, <1>l, <2>1, GotoWent DEF Goto
  <2>3. Fresh(c) => Trusted(unsettled, "cancelling", c)
    BY <1>v, <1>w, <2>1, TrustedCancelling
  <2> QED BY <1>c, <1>l, <2>2, <2>3, SaveReplays
<1>52. CASE StopCancelledTask(p)
  <2>1. pc[p] = "cancelling"
    BY <1>52 DEF StopCancelledTask
  <2>2. \/ Goto(p, c, "exit")
        \/ c.status \notin Terminal /\ Stop(p, c, "cancelled", "cancelled", "exit", "exit")
    BY <1>52, <1>c DEF StopCancelledTask
  <2>3. CASE Goto(p, c, "exit")
    <3>1. store' = store /\ pc'[p] = "exit" /\ Land(p, c, "exit") /\ History(p)
      BY <2>3 DEF Goto, Land, IndInv, TypeOK
    <3>2. ~Dispatches(p) /\ ~ExecutorRaised(p)
      BY <2>1, <3>1 DEF Dispatches, ExecutorRaised
    <3>3. unsettled' = unsettled /\ calls' = calls
      BY <3>1, <3>2 DEF History
    <3>4. Went(p, c, "exit", "exit")
      BY <1>c, <1>l, <2>3, GotoWent
    <3>5. Fresh(c) => Trusted(unsettled, "cancelling", c)
      BY <1>v, <2>1
    <3>6. PICK U : U = unsettled /\ unsettled' = U
      BY <3>3
    <3> QED BY <1>c, <1>l, <3>1, <3>4, <3>5, <3>6, WentReplays
  <2>4. CASE c.status \notin Terminal /\ Stop(p, c, "cancelled", "cancelled", "exit", "exit")
    <3>1. Moved(p, c, "cancelled", "exit", "exit")
      BY <1>c, <1>l, <1>t, <2>4, StopMoved
    <3>2. Fresh(c) => c.status \notin Terminal /\ Spent(unsettled, c, TRUE) /\ Readable(c)
      BY <1>v, <2>1, <2>4 DEF Trusted, Unsure
    <3> QED BY <1>c, <1>l, <1>t, <3>1, <3>2, EndReplays
  <2> QED BY <2>2, <2>3, <2>4
<1>53. CASE Exit(p)
  BY <1>53, ExitReplays
<1> QED
  BY <1>1, <1>2, <1>3, <1>4, <1>5, <1>6, <1>7, <1>8, <1>9, <1>10, <1>11, <1>12,
     <1>13, <1>14, <1>15, <1>16, <1>17, <1>18, <1>19, <1>20, <1>21, <1>22,
     <1>23, <1>24, <1>25, <1>26, <1>27, <1>28, <1>29, <1>30, <1>31, <1>32,
     <1>33, <1>34, <1>35, <1>36, <1>37, <1>38, <1>39, <1>40, <1>41, <1>42,
     <1>43, <1>44, <1>45, <1>46, <1>47, <1>48, <1>49, <1>50, <1>51, <1>52, <1>53
     DEF LoopStep

-----------------------------------------------------------------------------
(* The callers and the environment.                                         *)

LEMMA CallReplays ==
  ASSUME IndInv, ReplayInv, NEW p \in Procs, NEW c \in LoopContext, NEW l \in Entry,
         Trusted(unsettled, l, c), Call(p, c, l)
  PROVE  ReplayInv'
<1>1. pc[p] = "idle" /\ Land(p, c, l) /\ History(p) /\ store' = store
  BY DEF Call
<1>2. l \notin {"idle", "exit"}
  BY DEF Entry
<1>3. /\ pc'[p] = l /\ ctx'[p] = c
      /\ \A q \in Procs : q # p => pc'[q] = pc[q] /\ ctx'[q] = ctx[q]
  BY <1>1, <1>2 DEF Land, IndInv, TypeOK
<1>4. ~Dispatches(p) /\ ~ExecutorRaised(p)
  BY <1>1 DEF Dispatches, ExecutorRaised
<1>5. calls' = calls /\ unsettled' = unsettled
  BY <1>1, <1>4 DEF History
<1>6. PICK U, s : U = unsettled /\ s = store
  OBVIOUS
<1>7. unsettled' = U /\ store' = s /\ Settled(U, s)
  BY <1>1, <1>5, <1>6 DEF ReplayInv
<1>8. Settled(unsettled, store)'
  BY <1>7 DEF Settled, Spent, InFlight, Readable, Over, Done
<1>9. \A q \in Procs : pc'[q] \notin {"idle", "exit"} /\ ctx'[q].revision = store'.revision
                          => Trusted(U, pc'[q], ctx'[q])
  BY <1>1, <1>3, <1>6 DEF ReplayInv
<1>10. NoBlindReplay' /\ unsettled' \subseteq OperationId
  BY <1>5 DEF ReplayInv, NoBlindReplay
<1> QED BY <1>7, <1>8, <1>9, <1>10 DEF ReplayInv, Trusted, Spent, Readable, Over, Done, Operation, CurrentStep

\* A checkpoint says enough for a call that goes on with it where no executor
\* call can be under way.
LEMMA SettledSane ==
  ASSUME NEW U, NEW c, Settled(U, c), c.pending_interaction = NoInteraction,
         InFlight(c) => c.pending_execution # 0
  PROVE  Sane(U, c)
BY DEF Settled, Sane, Spent

LEMMA FirstTrusted ==
  ASSUME NEW U, \A op \in U : op[1] < 0 \/ op[1] = 0, NEW request \in Requests
  PROVE  LET d == [NewContext(request) EXCEPT !.active = TRUE] IN Trusted(U, "run_start", d)
<1> DEFINE e == NewContext(request)
           d == [e EXCEPT !.active = TRUE]
<1>1. e \in LoopContext
  BY DEF NewContext, LoopContext, LoopStatus, StopReason, NoInteraction, Interaction,
         NoOperation
<1>2. /\ e.current_plan = <<>> /\ e.cycle_count = 0 /\ e.pending_execution = 0
      /\ e.pending_interaction = NoInteraction
  BY DEF NewContext
<1> HIDE DEF e
<1>3. /\ d.current_plan = <<>> /\ d.cycle_count = 0 /\ d.pending_execution = 0
      /\ d.pending_interaction = NoInteraction
  BY <1>1, <1>2 DEF LoopContext
<1> HIDE DEF d
<1>4. Readable(d)
  BY <1>3 DEF Readable, ValidCheckpoint, UniqueSteps
<1>5. Trusted(U, "run_start", d)
  <2>1. \A open : Spent(U, d, open)
    BY <1>3 DEF Spent, Over
  <2> QED BY <1>3, <1>4, <2>1 DEF Trusted, Working
<1> QED BY <1>5 DEF d, e

LEMMA ResumedSane ==
  ASSUME NEW U, NEW c \in LoopContext, Sane(U, c), NEW mode
  PROVE  Sane(U, ResumedContext(c, mode))
<1> DEFINE s == [c EXCEPT !.stop_reason = "none", !.active = TRUE]
           e == DropPlan(s)
           d == [e EXCEPT !.approved_step_ids = {}, !.completion_approved = FALSE,
                          !.replan_required = FALSE]
<1>1. ResumedContext(c, mode) = IF mode = "replan" THEN d ELSE s
  BY DEF ResumedContext
<1>2. s \in LoopContext
  <2>1. "none" \in StopReason
    BY DEF StopReason
  <2> QED BY <2>1, Zenon DEF LoopContext
<1>3. /\ SamePlace(c, s) /\ s.pending_execution = c.pending_execution
      /\ s.pending_attempt = c.pending_attempt /\ s.active_operation_id = c.active_operation_id
      /\ s.pending_interaction = c.pending_interaction
  BY <1>2 DEF LoopContext, SamePlace
<1> HIDE DEF s
<1>4. Sane(U, s)
  <2>1. s.pending_interaction = NoInteraction
    BY <1>3 DEF Sane
  <2> QED BY <1>3, <2>1, SaneSame
<1>5. Sane(U, e) /\ e \in LoopContext
  <2>1. Spent(U, s, TRUE) /\ Readable(s) /\ s.pending_interaction = NoInteraction
    BY <1>4 DEF Sane, Spent
  <2> QED BY <1>2, <2>1, DropSane
<1> HIDE DEF e
<1>6. /\ SamePlace(e, d) /\ d.pending_execution = e.pending_execution
      /\ d.pending_attempt = e.pending_attempt /\ d.active_operation_id = e.active_operation_id
      /\ d.pending_interaction = e.pending_interaction
  BY <1>5 DEF LoopContext, SamePlace
<1> HIDE DEF d
<1>7. Sane(U, d)
  <2>1. d.pending_interaction = NoInteraction
    BY <1>5, <1>6 DEF Sane
  <2> QED BY <1>5, <1>6, <2>1, SaneSame
<1> QED BY <1>1, <1>4, <1>7

\* An answer leaves the plan and the cursor alone.
LEMMA AnsweredPlace ==
  ASSUME NEW c \in LoopContext, NEW r \in HumanResponse
  PROVE  LET d == AnsweredContext(c, r) IN
         /\ d.current_plan = c.current_plan /\ d.current_step_index = c.current_step_index
         /\ d.cycle_count = c.cycle_count /\ d.pending_attempt = c.pending_attempt
         /\ d.pending_execution = c.pending_execution
         /\ d.active_operation_id = c.active_operation_id
         /\ d.pending_interaction = NoInteraction
         /\ d.status = c.status \/ (r.action = "reject" /\ d.status = "blocked")
<1> DEFINE a == [c EXCEPT !.human_interactions = Append(@, r),
                          !.pending_interaction = NoInteraction]
           pending == c.pending_interaction
           steps == IF pending.kind = "approval" THEN a.approved_step_ids \cup {pending.step}
                                                 ELSE a.approved_step_ids
           done == a.completion_approved \/ pending.kind = "completion_review"
                     \/ (c.current_plan # <<>> /\ ~StepsLeft(c))
           approved == [a EXCEPT !.approved_step_ids = steps, !.completion_approved = done]
           rejected == [a EXCEPT !.active = FALSE, !.stop_reason = "human_rejected",
                                 !.status = "blocked"]
           revised  == [a EXCEPT !.replan_required = TRUE]
           d == AnsweredContext(c, r)
<1>1. d = CASE r.action = "approve" -> approved
            [] r.action = "reject" -> rejected
            [] OTHER -> revised
  BY Zenon DEF AnsweredContext
<1> DEFINE Like(e) == /\ e.current_plan = c.current_plan
                      /\ e.current_step_index = c.current_step_index
                      /\ e.cycle_count = c.cycle_count
                      /\ e.pending_attempt = c.pending_attempt
                      /\ e.pending_execution = c.pending_execution
                      /\ e.active_operation_id = c.active_operation_id
                      /\ e.pending_interaction = NoInteraction
<1>2. a \in LoopContext
  <2>1. /\ Append(c.human_interactions, r) \in Seq(HumanResponse)
        /\ NoInteraction \in Interaction
    BY Fields DEF NoInteraction, Interaction
  <2> QED BY <2>1, Zenon DEF LoopContext
<1>3. Like(a) /\ a.status = c.status
  BY DEF LoopContext
<1> HIDE DEF a, steps, done
<1>4. Like(approved) /\ approved.status = c.status
  BY <1>2, <1>3 DEF LoopContext
<1>5. Like(rejected) /\ rejected.status = "blocked"
  BY <1>2, <1>3 DEF LoopContext
<1>6. Like(revised) /\ revised.status = c.status
  BY <1>2, <1>3 DEF LoopContext
<1> HIDE DEF approved, rejected, revised, d
<1>7. Like(d) /\ (d.status = c.status \/ (r.action = "reject" /\ d.status = "blocked"))
  BY <1>1, <1>4, <1>5, <1>6
<1> QED BY <1>7 DEF d

LEMMA CallerStepReplays ==
  ASSUME IndInv, ReplayInv, NEW p \in Procs, CallerStep(p)
  PROVE  ReplayInv'
<1>1. store \in LoopContext /\ Settled(unsettled, store)
  BY DEF IndInv, TypeOK, ReplayInv
<1>2. {"run_start", "resume_replan", "resume_continue", "recover_save", "submit_save"}
        \subseteq Plain \cap Entry
  BY DEF Plain, Working, Entry, Label
<1>3. ASSUME NEW request \in Requests, Run(p, request) PROVE ReplayInv'
  <2> DEFINE d == [NewContext(request) EXCEPT !.active = TRUE]
  <2>1. Call(p, d, "run_start") /\ ~Exists
    BY <1>3 DEF Run
  <2>2. store.cycle_count = 0
    <3>1. store = Blank
      BY <1>1, <2>1, Fields DEF Exists, IndInv, FreshOK
    <3> QED BY <3>1 DEF Blank, NewContext
  <2>3. \A op \in unsettled : op[1] < 0 \/ op[1] = 0
    BY <1>1, <2>2 DEF Settled, Spent
  <2>4. d \in LoopContext /\ Trusted(unsettled, "run_start", d)
    BY <2>3, RunWork, FirstTrusted
  <2> HIDE DEF d
  <2> QED BY <1>2, <2>1, <2>4, CallReplays
<1>4. ASSUME NEW mode, Resume(p, mode) PROVE ReplayInv'
  <2> DEFINE m == EffectiveMode(store, mode)
             d == ResumedContext(store, m)
             l == IF m = "replan" THEN "resume_replan" ELSE "resume_continue"
  <2>1. Call(p, d, l) /\ Resumable(store, mode)
    BY <1>4 DEF Resume
  <2> HIDE DEF m
  <2>2. Sane(unsettled, store)
    <3>1. store.pending_interaction = NoInteraction
      BY <2>1 DEF Resumable
    <3>2. InFlight(store) => store.pending_execution # 0
      BY <2>1 DEF Resumable, InFlight, Stable
    <3> QED BY <1>1, <3>1, <3>2, SettledSane
  <2>3. Sane(unsettled, d) /\ d \in LoopContext
    BY <1>1, <2>2, ResumedSane, ResumedUpdate
  <2>4. l \in Plain /\ l \in Entry
    BY <1>2
  <2> HIDE DEF d, l
  <2> QED BY <2>1, <2>3, <2>4, SaneTrusted, CallReplays
<1>5. CASE Recover(p)
  <2> DEFINE d == [store EXCEPT !.active = TRUE]
             l == IF InDoubt(store) THEN "recover_stop" ELSE "recover_save"
  <2>1. Call(p, d, l) /\ store.status \notin Terminal \cup Stable
    BY <1>5 DEF Recover
  <2>2. d \in LoopContext
    BY <1>1, Zenon DEF LoopContext
  <2>3. /\ SamePlace(store, d) /\ d.status = store.status
        /\ d.pending_execution = store.pending_execution
        /\ d.pending_attempt = store.pending_attempt
        /\ d.active_operation_id = store.active_operation_id
        /\ d.pending_interaction = store.pending_interaction
    BY <1>1, <2>2 DEF LoopContext, SamePlace
  <2> HIDE DEF d
  <2>4. store.pending_interaction = NoInteraction
    BY <1>1, <2>1 DEF Settled, AtRest, Stable
  <2>5. CASE InDoubt(store)
    <3>1. Spent(unsettled, store, TRUE) /\ Readable(store)
      BY <1>1 DEF Settled, Spent
    <3>2. Spent(unsettled, d, TRUE)
      BY <2>3, <3>1, SpentPlace
    <3>3. Readable(d)
      BY <2>3, <3>1 DEF Readable, ValidCheckpoint, UniqueSteps, SamePlace
    <3>4. d.status \in {"executing", "waiting_approval"}
      BY <2>3, <2>5 DEF InDoubt
    <3>5. Trusted(unsettled, "recover_stop", d)
      BY <2>3, <2>4, <3>2, <3>3, <3>4 DEF Trusted, Unsure, Working
    <3>6. "recover_stop" \in Entry
      BY DEF Entry
    <3> QED BY <2>1, <2>2, <2>5, <3>5, <3>6, CallReplays
  <2>6. CASE ~InDoubt(store)
    <3>1. InFlight(store) => store.pending_execution # 0
      BY <2>1, <2>6 DEF InDoubt, InFlight, Stable
    <3>2. Sane(unsettled, store)
      BY <1>1, <2>4, <3>1, SettledSane
    <3>3. d.pending_interaction = NoInteraction
      BY <2>3, <2>4
    <3>4. Sane(unsettled, d)
      BY <2>3, <3>2, <3>3, SaneSame
    <3>5. Trusted(unsettled, "recover_save", d)
      BY <1>2, <3>4, SaneTrusted
    <3> QED BY <1>2, <2>1, <2>2, <2>6, <3>5, CallReplays
  <2> QED BY <2>5, <2>6
<1>6. ASSUME NEW r \in Responses, SubmitHumanResponse(p, r) PROVE ReplayInv'
  <2> DEFINE d == AnsweredContext(store, r)
  <2>1. r \in HumanResponse
    BY <1>1, Fields DEF Responses, HumanResponse, Interaction
  <2>2. /\ Call(p, d, "submit_save") /\ Acceptable(store, r)
        /\ r.action = "reject" => \/ store.status = "blocked"
                                  \/ "blocked" \in AllowedTransitions[store.status]
    BY <1>6 DEF SubmitHumanResponse
  <2>3. store.status \in AtRest
    BY <1>1, <2>2 DEF Acceptable, Settled
  <2>4. /\ d.current_plan = store.current_plan
        /\ d.current_step_index = store.current_step_index
        /\ d.cycle_count = store.cycle_count /\ d.pending_attempt = store.pending_attempt
        /\ d.pending_execution = store.pending_execution
        /\ d.active_operation_id = store.active_operation_id
        /\ d.pending_interaction = NoInteraction
        /\ d.status = store.status \/ (r.action = "reject" /\ d.status = "blocked")
    BY <1>1, <2>1, AnsweredPlace
  <2>5. d \in LoopContext
    BY <1>1, <2>1, AnsweredUpdate
  <2> HIDE DEF d
  <2>6. store.status \in Terminal => d.status \in Terminal
    <3>1. ASSUME store.status \in Terminal
          PROVE  store.status # "blocked" /\ "blocked" \notin AllowedTransitions[store.status]
      BY <3>1 DEF Terminal, AllowedTransitions
    <3> QED BY <2>2, <2>4, <3>1
  <2>7. SamePlace(store, d)
    BY <2>4, <2>6 DEF SamePlace
  <2>8. InFlight(store) => store.pending_execution # 0
    BY <2>3 DEF InFlight, AtRest, Terminal
  <2>9. Spent(unsettled, store, store.pending_execution # 0) /\ Readable(store)
    BY <1>1, <2>8 DEF Settled, Spent
  <2>10. Spent(unsettled, d, d.pending_execution # 0)
    BY <2>4, <2>7, <2>9, SpentPlace
  <2>11. Readable(d)
    BY <2>4, <2>9 DEF Readable, ValidCheckpoint, UniqueSteps
  <2>12. Trusted(unsettled, "submit_save", d)
    BY <1>2, <2>4, <2>10, <2>11, SaneTrusted DEF Sane
  <2> QED BY <1>2, <2>2, <2>5, <2>12, CallReplays
<1> QED BY <1>3, <1>4, <1>5, <1>6 DEF CallerStep

-----------------------------------------------------------------------------
(* The theorems.                                                            *)

LEMMA InitReplays == Init => ReplayInv
<1> SUFFICES ASSUME Init PROVE ReplayInv
  OBVIOUS
<1>1. /\ store = Blank /\ calls = <<>> /\ unsettled = {}
      /\ \A p \in Procs : pc[p] = "idle"
  BY DEF Init
<1>2. /\ store.current_plan = <<>> /\ store.pending_execution = 0
      /\ store.pending_interaction = NoInteraction
  BY <1>1 DEF Blank, NewContext
<1>3. Settled(unsettled, store)
  BY <1>1, <1>2 DEF Settled, Spent, Readable, ValidCheckpoint, UniqueSteps
<1> QED BY <1>1, <1>3 DEF ReplayInv, NoBlindReplay

LEMMA NextReplays ==
  ASSUME ~Faulty
  PROVE  IndInv /\ WorkInv /\ ReplayInv /\ [Next]_vars => ReplayInv'
<1> SUFFICES ASSUME IndInv, WorkInv, ReplayInv, [Next]_vars PROVE ReplayInv'
  OBVIOUS
<1>1. CASE UNCHANGED vars
  BY <1>1, QuietReplays DEF vars
<1>2. ASSUME NEW p \in Procs, CallerStep(p) PROVE ReplayInv'
  BY <1>2, CallerStepReplays
<1>3. ASSUME NEW p \in Procs, LoopStep(p) PROVE ReplayInv'
  BY <1>3, LoopStepReplays
<1>4. ASSUME NEW i \in Instances, Cancel(i) PROVE ReplayInv'
  BY <1>4, QuietReplays DEF Cancel
<1>5. ASSUME NEW i \in Instances, Crash(i) PROVE ReplayInv'
  BY <1>5, QuietReplays DEF Crash
<1> QED BY <1>1, <1>2, <1>3, <1>4, <1>5 DEF Next, Quiet

LEMMA ReplayInvariance ==
  ASSUME ~Faulty
  PROVE  Spec => []ReplayInv
<1>1. Init => ReplayInv
  BY InitReplays
<1>2. IndInv /\ WorkInv /\ ReplayInv /\ [Next]_vars => ReplayInv'
  BY NextReplays
<1> QED BY <1>1, <1>2, Invariance, WorkInvariance, PTL DEF Spec

\* When no save and no publication raises, the executor is never called for an
\* operation whose earlier call may have taken effect, whatever processes die
\* and whoever resumes and recovers: the call is in the checkpoint before it is
\* made, and recover() stops at a checkpoint that cannot know its outcome.
THEOREM CallsNeverBlind ==
  ASSUME ~Faulty
  PROVE  Spec => []NoBlindReplay
<1>1. ReplayInv => NoBlindReplay
  BY DEF ReplayInv
<1> QED BY <1>1, ReplayInvariance, PTL

\* Under the same condition every checkpoint that is saved satisfies what
\* LoopCheckpointCodec demands when it reads it back.
THEOREM CheckpointsReadable ==
  ASSUME ~Faulty
  PROVE  Spec => []CheckpointReadable
<1>1. ReplayInv => CheckpointReadable
  BY DEF ReplayInv, Settled, Readable, CheckpointReadable
<1> QED BY <1>1, ReplayInvariance, PTL

\* All that the LoopCrash run asks of what survives a crash: checkpoints that
\* can be read, records that are calls, no call repeated that may have taken
\* effect, and the end of a run the end for every process (recover, _execute).
THEOREM CrashSurvived ==
  ASSUME ~Faulty, Separate
  PROVE  Spec => CrashSafe
  BY CallsNeverBlind, CheckpointsReadable, RecordsKept, EndedStayEnded, PTL DEF CrashSafe

-----------------------------------------------------------------------------
(* Humans and verifiers.                                                    *)

\* No component, save or publication raises an ordinary exception.
Calm == Env \cap {"error", "publish", "storage"} = {}

NoRecovery == "recover" \notin Env

\* On the way out of a call.
Out == {"idle", "exit", "failing", "broken", "cancelling"}

Evaluated == {"evaluator"} \cup CompletionAction

\* The awaits between a plan and the next.
Unplanned == {"run_start", "resume_replan", "resume_planning", "cycle", "begin",
              "planner", "replanned"}

-----------------------------------------------------------------------------
(* Verified steps.                                                          *)

\* c has a passed verification of step in its cycle.
Passed(c, step) ==
  \E k \in DOMAIN c.records : /\ c.records[k].cycle = c.cycle_count
                              /\ c.records[k].step = step
                              /\ c.records[k].passed

PassedSoFar(c) ==
  \A i \in DOMAIN c.current_plan : i <= c.current_step_index => Passed(c, c.current_plan[i])

AllPassed(c) ==
  c.current_plan # <<>> /\ \A i \in DOMAIN c.current_plan : Passed(c, c.current_plan[i])

-----------------------------------------------------------------------------
(* Approved steps.                                                          *)

AtStep(c, s) == StepsLeft(c) /\ s = CurrentStep(c).step_id

\* Approvals and questions are about the current step, and none outlives a plan.
Scoped(c) ==
  /\ \A s \in c.approved_step_ids : AtStep(c, s)
  /\ c.status \in {"created", "planning"} => c.approved_step_ids = {}
  /\ c.pending_interaction.kind = "approval" => AtStep(c, c.pending_interaction.step)

\* What c takes for approved is granted.
Granted(S, c) == \A s \in c.approved_step_ids : <<c.cycle_count, s>> \in S

-----------------------------------------------------------------------------
(* The invariant.                                                           *)

\* A question is outstanding only in a run that waits for its answer.
Shaped(l, c) ==
  /\ c.pending_interaction # NoInteraction
       => l = "broken" \/ (l \in {"pausing"} \cup Out /\ c.status \in AtRest)
  /\ l \in Evaluated => ~StepsLeft(c)
  /\ l \in {"verifier", "rejected"} => c.status = "verifying"

Proven(l, c) ==
  /\ c.status = "completed" => AllPassed(c) /\ l \in Out \cup {"submit_save"}
  /\ l \in Out \cup {"rejected"} \/ PassedSoFar(c)
  /\ c.pending_interaction # NoInteraction => PassedSoFar(c)
  /\ l \in Unplanned => c.current_plan = <<>>
  /\ l \in {"resume_continue", "step"} \cup Evaluated => c.current_plan # <<>>
  /\ l \notin {"recover_stop", "recover_save"}

Cleared(S, l, c) ==
  /\ l \notin {"retry", "backoff", "redispatch"}
  /\ Scoped(c)
  /\ l = "submit_save" \/ Granted(S, c)
  /\ l \in Unplanned \cup {"rejected"} => c.approved_step_ids = {}
  /\ l \in {"approved", "execute", "dispatch", "executor"} =>
       (CurrentStep(c).requires_approval => Operation(c, CurrentStep(c)) \in S)
  /\ l \in {"execute", "dispatch", "executor"} => c.status = "executing"
  /\ l = "recover_save" => c.status \in {"created", "planning", "executing", "verifying"}

\* Call at l with context c, when S has been granted.
Fit(S, l, c) ==
  /\ Shaped(l, c)
  /\ NoRecovery => Proven(l, c)
  /\ Calm => Cleared(S, l, c)

\* A checkpoint that may be gone on with.
StoreFit(S, c) ==
  /\ c.pending_interaction # NoInteraction => c.status \in AtRest
  /\ NoRecovery =>
       /\ c.status = "completed" => AllPassed(c)
       /\ \/ PassedSoFar(c)
          \/ c.status \in {"verifying"} \cup Terminal /\ c.pending_interaction = NoInteraction
  /\ Calm => Scoped(c) /\ Granted(S, c)

\* An answer c to what checkpoint s asks: it approves what is granted already
\* or what was asked for.
Answering(S, s, c) ==
  c.revision = s.revision =>
    /\ c.cycle_count = s.cycle_count
    /\ \A step \in c.approved_step_ids :
         \/ <<c.cycle_count, step>> \in S
         \/ /\ s.pending_interaction.kind = "approval" /\ step = s.pending_interaction.step
            /\ Last(c.human_interactions).action = "approve"

HumanInv ==
  /\ Calm => ApprovalScoped
  /\ StoreFit(grants, store)
  /\ \A p \in Procs :
       /\ Fit(grants, pc[p], ctx[p])
       /\ Calm /\ pc[p] = "submit_save" => Answering(grants, store, ctx[p])

-----------------------------------------------------------------------------
(* Contexts that fit.                                                       *)

\* What a call in the middle of its work relies on wherever it is.
Mid(S, c) ==
  /\ c.pending_interaction = NoInteraction
  /\ NoRecovery => PassedSoFar(c) /\ c.status # "completed"
  /\ Calm => Scoped(c) /\ Granted(S, c)

Midway == Label \ (Out \cup {"pausing", "rejected", "submit_save"})

LEMMA FitMid ==
  ASSUME NEW S, NEW l \in Midway, NEW c, Fit(S, l, c)
  PROVE  Mid(S, c)
BY DEF Fit, Shaped, Proven, Cleared, Mid, Midway, Out

\* Where Mid is all there is to know.
LEMMA MidFit ==
  ASSUME NEW S, NEW c, Mid(S, c)
  PROVE  /\ \A l \in Out \cup {"gate", "verify"} : Fit(S, l, c)
         /\ StoreFit(S, c)
<1>1. ASSUME NEW l \in Out \cup {"gate", "verify"} PROVE Fit(S, l, c)
  BY <1>1 DEF Mid, Fit, Shaped, Proven, Cleared, Out, Evaluated, CompletionAction, Unplanned
<1>2. StoreFit(S, c)
  BY DEF Mid, StoreFit
<1> QED BY <1>1, <1>2

\* A call may fail or be cancelled wherever it is.
LEMMA FitOut ==
  ASSUME NEW S, NEW l \in Label \ {"broken", "submit_save"}, NEW c, Fit(S, l, c)
  PROVE  \A m \in Out : Fit(S, m, c)
<1>1. CASE l \in Midway
  BY <1>1, FitMid, MidFit
<1>2. CASE l \in (Out \ {"broken"}) \cup {"pausing", "rejected"}
  BY <1>2 DEF Fit, Shaped, Proven, Cleared, Out, Evaluated, CompletionAction, Unplanned
<1> QED BY <1>1, <1>2 DEF Midway

\* c and d are the same to the invariant, up to their status.
SameView(c, d) ==
  /\ d.records = c.records /\ d.cycle_count = c.cycle_count
  /\ d.current_plan = c.current_plan /\ d.current_step_index = c.current_step_index
  /\ d.approved_step_ids = c.approved_step_ids
  /\ d.pending_interaction = c.pending_interaction

LEMMA WorkView == \A c, d : SameWork(c, d) => SameView(c, d)
BY DEF SameWork, SameView

LEMMA SameFit ==
  ASSUME NEW c, NEW d, SameView(c, d)
  PROVE  /\ PassedSoFar(c) = PassedSoFar(d) /\ AllPassed(c) = AllPassed(d)
         /\ \A s : AtStep(c, s) = AtStep(d, s)
         /\ StepsLeft(c) = StepsLeft(d)
         /\ \A S : Granted(S, c) = Granted(S, d)
         /\ CurrentStep(c) = CurrentStep(d)
         /\ Operation(c, CurrentStep(c)) = Operation(d, CurrentStep(d))
<1>1. /\ StepsLeft(c) = StepsLeft(d)
      /\ CurrentStep(c) = CurrentStep(d)
      /\ Operation(c, CurrentStep(c)) = Operation(d, CurrentStep(d))
      /\ \A S : Granted(S, c) = Granted(S, d)
      /\ \A s : Passed(c, s) = Passed(d, s)
  BY DEF SameView, StepsLeft, CurrentStep, Operation, Granted, Passed
<1>2. \A s : AtStep(c, s) = AtStep(d, s)
  BY <1>1 DEF AtStep
<1>3. PassedSoFar(c) = PassedSoFar(d) /\ AllPassed(c) = AllPassed(d)
  BY <1>1 DEF SameView, PassedSoFar, AllPassed
<1> QED BY <1>1, <1>2, <1>3

LEMMA CopyFit ==
  ASSUME NEW c, NEW d, SameView(c, d), d.status = c.status, NEW S
  PROVE  /\ \A l : Fit(S, l, c) => Fit(S, l, d)
         /\ StoreFit(S, c) => StoreFit(S, d)
<1>1. /\ PassedSoFar(c) = PassedSoFar(d) /\ AllPassed(c) = AllPassed(d)
      /\ \A s : AtStep(c, s) = AtStep(d, s)
      /\ StepsLeft(c) = StepsLeft(d) /\ Granted(S, c) = Granted(S, d)
      /\ CurrentStep(c) = CurrentStep(d)
      /\ Operation(c, CurrentStep(c)) = Operation(d, CurrentStep(d))
  BY SameFit
<1>2. /\ d.current_plan = c.current_plan /\ d.approved_step_ids = c.approved_step_ids
      /\ d.pending_interaction = c.pending_interaction
  BY DEF SameView
<1>3. Scoped(c) => Scoped(d)
  BY <1>1, <1>2 DEF Scoped
<1>4. StoreFit(S, c) => StoreFit(S, d)
  BY <1>1, <1>2, <1>3 DEF StoreFit
<1>5. ASSUME NEW l, Fit(S, l, c) PROVE Fit(S, l, d)
  <2>1. Shaped(l, c) => Shaped(l, d)
    BY <1>1, <1>2 DEF Shaped
  <2>2. Proven(l, c) => Proven(l, d)
    BY <1>1, <1>2 DEF Proven
  <2>3. Cleared(S, l, c) => Cleared(S, l, d)
    BY <1>1, <1>2, <1>3 DEF Cleared
  <2> QED BY <1>5, <2>1, <2>2, <2>3 DEF Fit
<1> QED BY <1>4, <1>5

\* More grants do no harm.
LEMMA MoreFit ==
  ASSUME NEW T, NEW S \in SUBSET T, NEW c
  PROVE  /\ \A l : Fit(S, l, c) => Fit(T, l, c)
         /\ StoreFit(S, c) => StoreFit(T, c)
         /\ \A s : Answering(S, s, c) => Answering(T, s, c)
BY DEF Fit, Cleared, StoreFit, Granted, Answering

LEMMA BlankFit == \A S, l : l \in {"idle", "exit"} => Fit(S, l, Blank)
<1>1. /\ Blank.pending_interaction = NoInteraction /\ Blank.status = "created"
      /\ Blank.approved_step_ids = {} /\ Blank.pending_interaction.kind = "none"
  BY DEF Blank, NewContext, NoInteraction
<1> QED
  BY <1>1 DEF Fit, Shaped, Proven, Cleared, Scoped, Granted, Out, Evaluated,
              CompletionAction, Unplanned

-----------------------------------------------------------------------------
(* A step of one call.                                                      *)

LEMMA GrantsGrow ==
  ASSUME NEW p, History(p)
  PROVE  grants \subseteq grants'
BY DEF History

\* The operation of a call that is dispatched is granted, if it has to be.
LEMMA CallGranted ==
  ASSUME TypeOK, NEW p \in Procs, History(p), NEW x, ctx'[p] = x, ApprovalScoped,
         Dispatches(p) => (CurrentStep(x).requires_approval => x.active_operation_id \in grants)
  PROVE  ApprovalScoped'
<1> DEFINE record == [op      |-> x.active_operation_id,
                      ord     |-> x.total_attempts,
                      granted |-> CurrentStep(x).requires_approval => x.active_operation_id \in grants,
                      blind   |-> x.active_operation_id \in unsettled]
<1>1. calls \in Seq(CallRecord)
  BY DEF TypeOK
<1>2. calls' = IF Dispatches(p) THEN Append(calls, record) ELSE calls
  BY DEF History
<1>3. Dispatches(p) => record.granted
  OBVIOUS
<1> HIDE DEF record
<1>4. CASE ~Dispatches(p)
  BY <1>2, <1>4 DEF ApprovalScoped
<1>5. CASE Dispatches(p)
  <2>1. /\ calls' = Append(calls, record) /\ Len(calls) \in Nat
        /\ DOMAIN calls = 1 .. Len(calls) /\ DOMAIN calls' = 1 .. Len(calls) + 1
        /\ calls'[Len(calls) + 1] = record
        /\ \A k \in 1 .. Len(calls) : calls'[k] = calls[k]
    BY <1>1, <1>2, <1>5
  <2>2. ASSUME NEW k \in DOMAIN calls' PROVE calls'[k].granted
    <3>1. CASE k \in 1 .. Len(calls)
      BY <2>1, <3>1 DEF ApprovalScoped
    <3>2. CASE k = Len(calls) + 1
      BY <1>3, <1>5, <2>1, <3>2
    <3> QED BY <2>1, <2>2, <3>1, <3>2
  <2> QED BY <2>2 DEF ApprovalScoped
<1> QED BY <1>4, <1>5

\* Call p arrives at l with x and leaves the checkpoint s.
LEMMA LandFits ==
  ASSUME IndInv, HumanInv, NEW p \in Procs, NEW x \in LoopContext, NEW l \in Label, l # "submit_save",
         Land(p, x, l), History(p), NEW S, grants' = S,
         NEW s \in LoopContext, store' = s, s = store \/ s.revision > store.revision,
         StoreFit(S, s), l \in {"idle", "exit"} \/ Fit(S, l, x),
         Calm /\ l = "executor" /\ Dispatches(p)
           => (CurrentStep(x).requires_approval => x.active_operation_id \in grants)
  PROVE  HumanInv'
<1>1. /\ pc'[p] = l
      /\ ctx'[p] = IF l \in {"idle", "exit"} THEN Blank ELSE x
      /\ \A q \in Procs : q # p => pc'[q] = pc[q] /\ ctx'[q] = ctx[q]
  BY DEF Land, IndInv, TypeOK
<1>2. /\ grants \subseteq S
      /\ \A q \in Procs : ctx[q].revision \in Nat /\ ctx[q].revision <= store.revision
      /\ store.revision \in Nat /\ s.revision \in Nat
  BY GrantsGrow, Fields DEF IndInv, TypeOK, FreshOK
<1>3. Calm => ApprovalScoped'
  <2>1. Dispatches(p) => l = "executor" /\ ctx'[p] = x
    BY <1>1 DEF Dispatches
  <2> QED BY <2>1, CallGranted DEF IndInv, HumanInv
<1>4. ASSUME NEW q \in Procs
      PROVE  /\ Fit(S, pc'[q], ctx'[q])
             /\ Calm /\ pc'[q] = "submit_save" => Answering(S, s, ctx'[q])
  <2>1. CASE q = p
    BY <1>1, <2>1, BlankFit
  <2>2. CASE q # p
    <3>1. pc'[q] = pc[q] /\ ctx'[q] = ctx[q] /\ Fit(S, pc[q], ctx[q])
      BY <1>1, <1>2, <2>2, MoreFit DEF HumanInv
    <3>2. ASSUME Calm, pc[q] = "submit_save" PROVE Answering(S, s, ctx[q])
      <4>1. CASE s = store
        BY <1>2, <3>2, <4>1, MoreFit DEF HumanInv
      <4>2. CASE s.revision > store.revision
        BY <1>2, <4>2 DEF Answering
      <4> QED BY <4>1, <4>2
    <3> QED BY <3>1, <3>2
  <2> QED BY <2>1, <2>2
<1>5. StoreFit(grants, store)'
  BY DEF StoreFit, AllPassed, PassedSoFar, Passed, Scoped, Granted, AtStep, StepsLeft, CurrentStep
<1>6. ASSUME NEW q \in Procs PROVE Fit(grants, pc[q], ctx[q])'
  BY <1>4
     DEF Fit, Shaped, Proven, Cleared, AllPassed, PassedSoFar, Passed, Scoped,
         Granted, AtStep, StepsLeft, CurrentStep, Operation
<1>7. ASSUME NEW q \in Procs
      PROVE  Calm /\ pc'[q] = "submit_save" => Answering(grants, store, ctx[q])'
  BY <1>4 DEF Answering
<1> QED BY <1>3, <1>5, <1>6, <1>7 DEF HumanInv

\* A step of call p that may have saved c.
LEMMA WentFits ==
  ASSUME IndInv, HumanInv, NEW p \in Procs, NEW c \in LoopContext, c.revision = ctx[p].revision,
         NEW next \in Label \ {"submit_save"}, NEW raised \in Label \ {"submit_save", "executor"},
         Went(p, c, next, raised), NEW S, grants' = S,
         Calm /\ next = "executor" /\ pc[p] \in {"dispatch", "redispatch"}
           => (CurrentStep(c).requires_approval => c.active_operation_id \in grants),
         pc'[p] = next => Fit(S, next, c),
         Faulty \/ next = raised => Fit(S, raised, c),
         pc[p] \in Driving => Fit(S, "cancelling", c),
         Fresh(c) /\ store' # store => StoreFit(S, c)
  PROVE  HumanInv'
<1>1. PICK x \in LoopContext, l \in Label :
        /\ Land(p, x, l) /\ History(p)
        /\ Copy(c, x) /\ x.revision \in {c.revision, c.revision + 1}
        /\ \/ store' = store
           \/ Fresh(c) /\ store' \in LoopContext /\ Copy(c, store') /\ store'.revision = c.revision + 1
        /\ x.revision = c.revision \/ (Fresh(c) /\ store' = x)
        /\ \/ l = next /\ Fresh(c) /\ store' = x /\ x.revision = c.revision + 1
           \/ l = raised /\ (next = raised \/ Faulty)
           \/ l = "cancelling" /\ pc[p] \in Driving
           \/ l \in {"exit", "idle"}
  BY DEF Went
<1>2. pc'[p] = l /\ l # "submit_save" /\ (l = "executor" => l = next)
  BY <1>1 DEF Land, IndInv, TypeOK
<1>3. SameWork(c, x) /\ x.status = c.status
  BY <1>1 DEF Copy
<1>4. l \in {"idle", "exit"} \/ Fit(S, l, x)
  <2>1. l \in {"idle", "exit"} \/ Fit(S, l, c)
    BY <1>1, <1>2
  <2> QED BY <1>3, <2>1, CopyFit, WorkView
<1>5. PICK s \in LoopContext : /\ store' = s
                               /\ \/ s = store
                                  \/ Fresh(c) /\ Copy(c, s) /\ s.revision = store.revision + 1
  BY <1>1 DEF Fresh, IndInv, TypeOK
<1>6. s = store \/ s.revision > store.revision
  BY <1>5, Fields DEF IndInv, TypeOK
<1>7. StoreFit(S, s)
  <2>1. CASE s = store
    BY <1>1, <2>1, GrantsGrow, MoreFit DEF HumanInv
  <2>2. CASE s # store
    <3>1. Copy(c, s) /\ StoreFit(S, c)
      BY <1>5, <2>2
    <3> QED BY <3>1, CopyFit, WorkView DEF Copy
  <2> QED BY <2>1, <2>2
<1>8. Calm /\ l = "executor" /\ Dispatches(p)
        => (CurrentStep(x).requires_approval => x.active_operation_id \in grants)
  <2>1. CurrentStep(x) = CurrentStep(c) /\ x.active_operation_id = c.active_operation_id
    BY <1>3 DEF SameWork, CurrentStep
  <2> QED BY <1>2, <2>1 DEF Dispatches
<1> QED BY <1>1, <1>2, <1>4, <1>5, <1>6, <1>7, <1>8, LandFits

\* A step that saves nothing.
LEMMA GotoFits ==
  ASSUME IndInv, HumanInv, NEW p \in Procs, NEW c \in LoopContext,
         NEW l \in Label \ {"submit_save", "executor"}, Goto(p, c, l),
         l \in {"idle", "exit"} \/ Fit(grants, l, c)
  PROVE  HumanInv'
<1>1. Land(p, c, l) /\ History(p) /\ store' = store /\ store \in LoopContext
  BY DEF Goto, IndInv, TypeOK
<1>2. PICK S : grants' = S
  OBVIOUS
<1>3. grants \subseteq S
  BY <1>1, <1>2, GrantsGrow
<1>4. StoreFit(S, store) /\ (l \in {"idle", "exit"} \/ Fit(S, l, c))
  BY <1>3, MoreFit DEF HumanInv
<1>5. l # "submit_save" /\ l # "executor"
  OBVIOUS
<1> QED BY <1>1, <1>2, <1>4, <1>5, LandFits

\* Where an exception of a save surfaces.
Surfaces == {"failing", "exit", "idle"}

\* A save after which call p may go on at next with c.
LEMMA CommitFits ==
  ASSUME IndInv, HumanInv, NEW p \in Procs, NEW c \in LoopContext, c.revision = ctx[p].revision,
         NEW next \in Label \ {"submit_save", "broken", "executor"}, NEW raised \in Surfaces,
         Commit(p, c, next, raised), Fit(grants, next, c), StoreFit(grants, c)
  PROVE  HumanInv'
<1>1. Surfaces \subseteq Label \ {"submit_save", "executor"} /\ Surfaces \subseteq Out /\ "cancelling" \in Out
  BY DEF Surfaces, Label, Driving, Out
<1>2. Went(p, c, next, raised) /\ History(p)
  BY <1>1, OneEventWent DEF Went
<1>3. PICK S : grants' = S
  OBVIOUS
<1>4. grants \subseteq S
  BY <1>2, <1>3, GrantsGrow
<1>5. \A m \in Out : Fit(grants, m, c)
  BY FitOut
<1>6. Fit(S, next, c) /\ Fit(S, raised, c) /\ Fit(S, "cancelling", c) /\ StoreFit(S, c)
  BY <1>1, <1>4, <1>5, MoreFit
<1>7. next \in Label \ {"submit_save"} /\ next # "executor" /\ raised \in Label \ {"submit_save", "executor"}
  BY <1>1
<1> QED BY <1>2, <1>3, <1>6, <1>7, WentFits

\* A change of status in the middle of the work.
LEMMA MoveMid ==
  ASSUME NEW S, NEW c, NEW d, Mid(S, c), SameWork(c, d), d.status # "completed",
         Calm /\ d.status \in {"created", "planning"} => c.approved_step_ids = {}
  PROVE  Mid(S, d)
<1>1. /\ PassedSoFar(c) = PassedSoFar(d) /\ \A s : AtStep(c, s) = AtStep(d, s)
      /\ Granted(S, c) = Granted(S, d)
  BY SameFit, WorkView
<1>2. d.pending_interaction = c.pending_interaction /\ d.approved_step_ids = c.approved_step_ids
  BY DEF SameWork
<1> QED BY <1>1, <1>2 DEF Mid, Scoped

\* A change of status, or the refusal of one, after which call p goes on at next.
LEMMA MoveFits ==
  ASSUME IndInv, HumanInv, NEW p \in Procs, NEW c \in LoopContext, c.revision = ctx[p].revision,
         NEW target \in LoopStatus, target # "completed",
         NEW next \in Label \ {"submit_save", "broken", "executor"},
         NEW raised \in Surfaces \cup {"retry"},
         raised = "retry" => (Calm => target \in AllowedTransitions[c.status]),
         Mid(grants, c), Calm /\ target \in {"created", "planning"} => c.approved_step_ids = {},
         \A d \in LoopContext : SameWork(c, d) /\ d.status = target /\ Mid(grants, d)
            => Fit(grants, next, d),
         Moved(p, c, target, next, raised)
  PROVE  HumanInv'
<1>1. PICK d \in LoopContext :
        /\ SameWork(c, d) /\ d.revision = c.revision
        /\ \/ d.status = target /\ Went(p, d, next, raised)
           \/ /\ d.status = c.status /\ target \notin AllowedTransitions[c.status] /\ store' = store
              /\ \/ Went(p, d, "broken", "broken")
                 \/ raised # "failing" /\ Went(p, d, raised, raised)
  BY DEF Moved
<1>2. PICK S : grants' = S
  OBVIOUS
<1>3. grants \subseteq S
  BY <1>1, <1>2, GrantsGrow DEF Went
<1>4. /\ "broken" \in Label \ {"submit_save", "executor"} /\ raised \in Label \ {"submit_save", "executor"}
      /\ Surfaces \subseteq Out /\ {"broken", "cancelling"} \subseteq Out /\ "broken" # "executor"
  BY DEF Surfaces, Label, Driving, Out
<1>5. ASSUME NEW e \in LoopContext, Mid(grants, e), ~Calm \/ raised # "retry"
      PROVE  /\ Fit(S, raised, e) /\ Fit(S, "broken", e) /\ Fit(S, "cancelling", e)
             /\ StoreFit(S, e)
  <2>1. Fit(grants, "broken", e) /\ Fit(grants, "cancelling", e) /\ StoreFit(grants, e)
    BY <1>4, <1>5, MidFit
  <2>2. Fit(grants, raised, e)
    <3>1. CASE raised \in Surfaces
      BY <1>4, <1>5, <3>1, MidFit
    <3>2. CASE raised = "retry"
      BY <1>5, <3>2 DEF Mid, Fit, Shaped, Proven, Out, Evaluated, CompletionAction, Unplanned
    <3> QED BY <3>1, <3>2
  <2> QED BY <1>3, <2>1, <2>2, MoreFit
<1>6. CASE d.status = target /\ Went(p, d, next, raised)
  <2>1. Mid(grants, d)
    BY <1>1, <1>6, MoveMid
  <2>2. Fit(S, next, d)
    BY <1>1, <1>3, <1>6, <2>1, MoreFit
  <2>3. CASE ~Calm \/ raised # "retry"
    <3>1. Fit(S, raised, d) /\ Fit(S, "cancelling", d) /\ StoreFit(S, d)
      BY <1>5, <2>1, <2>3
    <3> QED BY <1>1, <1>2, <1>4, <1>6, <2>2, <3>1, WentFits
  <2>4. CASE Calm /\ raised = "retry"
    <3>1. ~Faulty
      BY <2>4 DEF Calm, Faulty
    <3>2. next = raised => Fit(S, raised, d)
      BY <2>2
    <3>3. Fit(S, "cancelling", d) /\ StoreFit(S, d)
      <4>1. Fit(grants, "cancelling", d) /\ StoreFit(grants, d)
        BY <1>4, <2>1, MidFit
      <4> QED BY <1>3, <4>1, MoreFit
    <3> QED BY <1>1, <1>2, <1>4, <1>6, <2>2, <3>1, <3>2, <3>3, WentFits
  <2> QED BY <2>3, <2>4
<1>7. CASE /\ d.status = c.status /\ target \notin AllowedTransitions[c.status] /\ store' = store
           /\ Went(p, d, "broken", "broken") \/ Went(p, d, raised, raised)
  <2>1. store' = store /\ (Went(p, d, "broken", "broken") \/ Went(p, d, raised, raised))
    BY <1>7
  <2>2. ~Calm \/ raised # "retry"
    BY <1>7
  <2>3. Mid(grants, d)
    <3>1. NoRecovery => d.status # "completed"
      BY <1>7 DEF Mid
    <3>2. Calm /\ d.status \in {"created", "planning"} => c.approved_step_ids = {}
      BY <1>7 DEF Mid, Scoped
    <3>3. PassedSoFar(c) = PassedSoFar(d) /\ (\A s : AtStep(c, s) = AtStep(d, s))
          /\ Granted(grants, c) = Granted(grants, d)
      BY <1>1, SameFit, WorkView
    <3>4. d.pending_interaction = c.pending_interaction /\ d.approved_step_ids = c.approved_step_ids
      BY <1>1 DEF SameWork
    <3> QED BY <3>1, <3>2, <3>3, <3>4 DEF Mid, Scoped
  <2>4. Fit(S, raised, d) /\ Fit(S, "broken", d) /\ Fit(S, "cancelling", d) /\ StoreFit(S, d)
    BY <1>5, <2>2, <2>3
  <2>5. CASE Went(p, d, "broken", "broken")
    BY <1>1, <1>2, <1>4, <2>1, <2>4, <2>5, WentFits
  <2>6. CASE Went(p, d, raised, raised)
    BY <1>1, <1>2, <1>4, <2>1, <2>4, <2>6, WentFits
  <2> QED BY <2>1, <2>5, <2>6
<1> QED BY <1>1, <1>6, <1>7

\* _stop, with the run to be gone on with or not at all.
LEMMA StopFits ==
  ASSUME IndInv, HumanInv, NEW p \in Procs, NEW c \in LoopContext, c.revision = ctx[p].revision,
         NEW status \in {"blocked", "cancelled", "timed_out"}, NEW reason \in StopReason,
         NEW next \in {"exit", "idle"}, NEW raised \in Surfaces \cup {"retry"},
         raised = "retry" => (Calm => status \in AllowedTransitions[c.status]),
         Stop(p, c, status, reason, next, raised), Mid(grants, c)
  PROVE  HumanInv'
<1>1. /\ next \in Label \ {"submit_save", "broken", "executor"} /\ next \in Out
      /\ raised \in Label /\ next \in Label
      /\ status \in LoopStatus /\ status # "completed" /\ status \notin {"created", "planning"}
  BY DEF Label, Driving, Out, Surfaces, LoopStatus
<1>2. Moved(p, c, status, next, raised)
  BY <1>1, StopMoved
<1>3. \A d \in LoopContext : SameWork(c, d) /\ d.status = status /\ Mid(grants, d)
         => Fit(grants, next, d)
  BY <1>1, MidFit
<1> QED BY <1>1, <1>2, <1>3, MoveFits

LEMMA BlockFits ==
  ASSUME IndInv, HumanInv, NEW p \in Procs, NEW c \in LoopContext, c.revision = ctx[p].revision,
         NEW reason \in StopReason, Block(p, c, reason), Mid(grants, c)
  PROVE  HumanInv'
<1>1. "failing" \in Surfaces \cup {"retry"} /\ "failing" # "retry"
  BY DEF Surfaces
<1> QED BY <1>1, StopFits DEF Block

LEMMA TransitionFits ==
  ASSUME IndInv, HumanInv, NEW p \in Procs, NEW c \in LoopContext, c.revision = ctx[p].revision,
         NEW target \in LoopStatus, target # "completed",
         NEW next \in Label \ {"submit_save", "broken", "executor"}, NEW raised \in Surfaces,
         Mid(grants, c), Calm /\ target \in {"created", "planning"} => c.approved_step_ids = {},
         \A d \in LoopContext : SameWork(c, d) /\ d.status = target /\ Mid(grants, d)
            => Fit(grants, next, d),
         Transition(p, c, target, next, raised)
  PROVE  HumanInv'
<1>1. raised \in Label /\ next \in Label /\ raised # "retry" /\ raised \in Surfaces \cup {"retry"}
  BY DEF Surfaces, Label, Driving
<1>2. Moved(p, c, target, next, raised)
  BY <1>1, TransitionMoved
<1> QED BY <1>1, <1>2, MoveFits

LEMMA EnterFits ==
  ASSUME IndInv, HumanInv, NEW p \in Procs, NEW c \in LoopContext, c.revision = ctx[p].revision,
         NEW target \in LoopStatus, target # "completed",
         NEW next \in Label \ {"submit_save", "broken", "executor"}, NEW raised \in Surfaces,
         Mid(grants, c), Calm /\ target \in {"created", "planning"} => c.approved_step_ids = {},
         \A d \in LoopContext : SameWork(c, d) /\ d.status = target /\ Mid(grants, d)
            => Fit(grants, next, d),
         Enter(p, c, target, next, raised)
  PROVE  HumanInv'
<1>1. CASE c.status = target
  <2>1. Goto(p, c, next)
    BY <1>1 DEF Enter
  <2>2. SameWork(c, c)
    BY DEF SameWork
  <2>3. Fit(grants, next, c)
    BY <1>1, <2>2
  <2> QED BY <2>1, <2>3, GotoFits
<1>2. CASE c.status # target
  <2>1. Transition(p, c, target, next, raised)
    BY <1>2 DEF Enter
  <2> QED BY <2>1, TransitionFits
<1> QED BY <1>1, <1>2

\* The end of a run that fails or is cancelled.
LEMMA EndFits ==
  ASSUME IndInv, HumanInv, NEW p \in Procs, NEW c \in LoopContext, c.revision = ctx[p].revision,
         NEW target \in {"cancelled", "failed"}, c.status \notin Terminal,
         NEW l \in Out, Fit(grants, l, c), Moved(p, c, target, "exit", "exit")
  PROVE  HumanInv'
<1>1. target \in AllowedTransitions[c.status] /\ target \in AtRest
  <2>1. c.status \in LoopStatus \ Terminal
    BY Fields
  <2> QED BY <2>1 DEF LoopStatus, AllowedTransitions, Terminal, AbortTargets, AtRest
<1>2. PICK d \in LoopContext : /\ SameWork(c, d) /\ d.revision = c.revision /\ d.status = target
                               /\ Went(p, d, "exit", "exit")
  BY <1>1 DEF Moved
<1>3. PICK S : grants' = S
  OBVIOUS
<1>4. grants \subseteq S
  BY <1>2, <1>3, GrantsGrow DEF Went
<1>5. /\ PassedSoFar(c) = PassedSoFar(d) /\ \A s : AtStep(c, s) = AtStep(d, s)
      /\ Granted(grants, c) = Granted(grants, d)
  BY <1>2, SameFit, WorkView
<1>6. d.pending_interaction = c.pending_interaction /\ d.approved_step_ids = c.approved_step_ids
  BY <1>2 DEF SameWork
<1>7. /\ Calm => Scoped(d) /\ Granted(grants, d)
      /\ NoRecovery => (d.pending_interaction # NoInteraction => PassedSoFar(d))
  <2>1. l # "submit_save"
    BY DEF Out
  <2> QED BY <1>2, <1>5, <1>6, <2>1 DEF Fit, Cleared, Proven, Scoped
<1>8. \A m \in {"cancelling", "exit"} : Fit(grants, m, d)
  BY <1>1, <1>2, <1>7
     DEF Fit, Shaped, Proven, Cleared, Out, Evaluated, CompletionAction, Unplanned
<1>9. StoreFit(grants, d)
  BY <1>1, <1>2, <1>7 DEF StoreFit, Terminal
<1>10. Fit(S, "cancelling", d) /\ Fit(S, "exit", d) /\ StoreFit(S, d)
  BY <1>4, <1>8, <1>9, MoreFit
<1>11. "exit" \in Label \ {"submit_save", "executor"} /\ "exit" # "executor"
  BY DEF Label, Driving
<1> QED BY <1>2, <1>3, <1>10, <1>11, WentFits

\* A run completes when its plan is done.
LEMMA CompleteFits ==
  ASSUME IndInv, HumanInv, NEW p \in Procs, NEW c \in LoopContext, c.revision = ctx[p].revision,
         Mid(grants, c), ~StepsLeft(c), NoRecovery => c.current_plan # <<>>, Complete(p, c)
  PROVE  HumanInv'
<1>1. "completed" \in StopReason /\ "completed" \in LoopStatus
      /\ {"exit", "failing", "broken"} \subseteq Label \ {"submit_save", "executor"}
      /\ "exit" # "executor" /\ "exit" # "failing" /\ "broken" # "executor"
  BY DEF StopReason, LoopStatus, Label, Driving
<1>2. Moved(p, c, "completed", "exit", "failing")
  BY <1>1, StopMoved DEF Complete
<1>3. PICK d \in LoopContext :
        /\ SameWork(c, d) /\ d.revision = c.revision
        /\ \/ d.status = "completed" /\ Went(p, d, "exit", "failing")
           \/ d.status = c.status /\ store' = store /\ Went(p, d, "broken", "broken")
  BY <1>2 DEF Moved
<1>4. PICK S : grants' = S
  OBVIOUS
<1>5. grants \subseteq S
  BY <1>3, <1>4, GrantsGrow DEF Went
<1>6. /\ PassedSoFar(c) = PassedSoFar(d) /\ \A s : AtStep(c, s) = AtStep(d, s)
      /\ Granted(grants, c) = Granted(grants, d) /\ AllPassed(c) = AllPassed(d)
  BY <1>3, SameFit, WorkView
<1>7. d.pending_interaction = c.pending_interaction /\ d.approved_step_ids = c.approved_step_ids
  BY <1>3 DEF SameWork
<1>8. CASE d.status = "completed" /\ Went(p, d, "exit", "failing")
  <2>1. NoRecovery => AllPassed(d)
    <3>1. c.current_plan \in Seq(PlanStep) /\ c.current_step_index \in Nat
      BY Fields
    <3>2. \A i \in DOMAIN c.current_plan : i <= c.current_step_index
      BY <3>1 DEF StepsLeft
    <3> QED BY <1>6, <3>2 DEF Mid, PassedSoFar, AllPassed
  <2>2. \A m \in Out : Fit(grants, m, d)
    BY <1>6, <1>7, <1>8, <2>1
       DEF Mid, Fit, Shaped, Proven, Cleared, Scoped, Out, Evaluated, CompletionAction, Unplanned
  <2>3. StoreFit(grants, d)
    BY <1>6, <1>7, <1>8, <2>1 DEF Mid, StoreFit, Scoped
  <2>4. {"exit", "failing", "cancelling"} \subseteq Out
    BY DEF Out
  <2>5. /\ Fit(S, "exit", d) /\ Fit(S, "failing", d) /\ Fit(S, "cancelling", d)
        /\ StoreFit(S, d)
    BY <1>5, <2>2, <2>3, <2>4, MoreFit
  <2> QED BY <1>1, <1>3, <1>4, <1>8, <2>5, WentFits
<1>9. CASE d.status = c.status /\ store' = store /\ Went(p, d, "broken", "broken")
  <2>1. \A m \in Out : Fit(grants, m, d)
    <3>1. \A m \in Out : Fit(grants, m, c)
      BY MidFit
    <3> QED BY <1>3, <1>9, <3>1, CopyFit, WorkView
  <2>2. {"broken", "cancelling"} \subseteq Out
    BY DEF Out
  <2>3. Fit(S, "broken", d) /\ Fit(S, "cancelling", d)
    BY <1>5, <2>1, <2>2, MoreFit
  <2> QED BY <1>1, <1>3, <1>4, <1>9, <2>3, WentFits
<1> QED BY <1>3, <1>8, <1>9

-----------------------------------------------------------------------------
(* The updates the controller makes to a context.                           *)

\* Awaits with nothing planned need no more than that.
LEMMA UnplannedFit ==
  ASSUME NEW S, NEW c, Mid(S, c), NoRecovery => c.current_plan = <<>>,
         Calm => c.approved_step_ids = {}
  PROVE  \A l \in Unplanned : Fit(S, l, c)
BY DEF Mid, Fit, Shaped, Proven, Cleared, Out, Evaluated, CompletionAction, Unplanned

LEMMA FitUnplanned ==
  ASSUME NEW S, NEW c, NEW l \in Unplanned, Fit(S, l, c)
  PROVE  /\ NoRecovery => c.current_plan = <<>>
         /\ Calm => c.approved_step_ids = {}
         /\ Mid(S, c)
<1>1. l \in Midway
  BY DEF Unplanned, Midway, Label, Entry, Driving, Awaiting, Out
<1> QED BY <1>1, FitMid DEF Fit, Proven, Cleared

\* Nothing is approved in a plan that is dropped.
LEMMA DropFit ==
  ASSUME NEW S, NEW c \in LoopContext, c.pending_interaction = NoInteraction,
         NoRecovery => c.status # "completed", Calm => c.approved_step_ids = {}
  PROVE  LET d == DropPlan(c) IN
         /\ d \in LoopContext /\ d.revision = c.revision /\ d.status = c.status
         /\ d.approved_step_ids = c.approved_step_ids
         /\ Mid(S, d) /\ \A l \in Unplanned : Fit(S, l, d)
<1> DEFINE d == DropPlan(c)
<1>1. d \in LoopContext
  BY DropPlanUpdate
<1>2. /\ d.revision = c.revision /\ d.status = c.status /\ d.current_plan = <<>>
      /\ d.approved_step_ids = c.approved_step_ids
      /\ d.pending_interaction = c.pending_interaction
  BY DEF DropPlan, LoopContext
<1> HIDE DEF d
<1>3. Mid(S, d)
  BY <1>2 DEF Mid, PassedSoFar, Scoped, Granted, NoInteraction
<1>4. \A l \in Unplanned : Fit(S, l, d)
  BY <1>2, <1>3, UnplannedFit
<1> QED BY <1>1, <1>2, <1>3, <1>4 DEF d

LEMMA CycleFit ==
  ASSUME NEW S, NEW c \in LoopContext, Fit(S, "begin", c)
  PROVE  Fit(S, "planner", [c EXCEPT !.cycle_count = @ + 1])
<1> DEFINE d == [c EXCEPT !.cycle_count = @ + 1]
<1>1. /\ d.status = c.status /\ d.current_plan = c.current_plan
      /\ d.current_step_index = c.current_step_index
      /\ d.approved_step_ids = c.approved_step_ids
      /\ d.pending_interaction = c.pending_interaction
  BY DEF LoopContext
<1> HIDE DEF d
<1>2. "begin" \in Unplanned /\ "planner" \in Unplanned
  BY DEF Unplanned
<1>3. /\ NoRecovery => c.current_plan = <<>>
      /\ Calm => c.approved_step_ids = {}
      /\ Mid(S, c)
  BY <1>2, FitUnplanned
<1>4. Mid(S, d)
  BY <1>1, <1>3 DEF Mid, PassedSoFar, Scoped, Granted, NoInteraction
<1>5. Fit(S, "planner", d)
  BY <1>1, <1>2, <1>3, <1>4, UnplannedFit
<1> QED BY <1>5 DEF d

\* A new plan has nothing to show yet.
LEMMA PlanFit ==
  ASSUME NEW S, NEW c \in LoopContext, Fit(S, "planner", c), NEW plan \in Seq(PlanStep), plan # <<>>
  PROVE  LET d == [c EXCEPT !.current_plan = plan, !.current_step_index = 0] IN
         Fit(S, "step", d) /\ StoreFit(S, d)
<1> DEFINE d == [c EXCEPT !.current_plan = plan, !.current_step_index = 0]
<1>1. /\ d.status = c.status /\ d.current_plan = plan
      /\ d.current_step_index = 0
      /\ d.approved_step_ids = c.approved_step_ids
      /\ d.pending_interaction = c.pending_interaction
  BY DEF LoopContext
<1> HIDE DEF d
<1>2. /\ Calm => c.approved_step_ids = {}
      /\ Mid(S, c)
  <2>1. "planner" \in Unplanned
    BY DEF Unplanned
  <2> QED BY <2>1, FitUnplanned
<1>3. PassedSoFar(d)
  <2>1. DOMAIN plan = 1 .. Len(plan) /\ Len(plan) \in Nat
    OBVIOUS
  <2> QED BY <1>1, <2>1 DEF PassedSoFar
<1>4. Mid(S, d)
  BY <1>1, <1>2, <1>3 DEF Mid, Scoped, Granted, NoInteraction
<1>5. Fit(S, "step", d)
  BY <1>1, <1>4 DEF Mid, Fit, Shaped, Proven, Cleared, Out, Evaluated, CompletionAction, Unplanned
<1> QED BY <1>4, <1>5, MidFit DEF d

LEMMA OperationFit ==
  ASSUME NEW S, NEW c \in LoopContext, NEW op, Fit(S, "execute", c)
  PROVE  Fit(S, "dispatch", [c EXCEPT !.active_operation_id = op])
<1> DEFINE d == [c EXCEPT !.active_operation_id = op]
<1>1. SameView(c, d) /\ d.status = c.status
  BY DEF LoopContext, SameView
<1> HIDE DEF d
<1>2. Fit(S, "execute", d)
  BY <1>1, CopyFit
<1>3. Fit(S, "dispatch", d)
  BY <1>2 DEF Fit, Shaped, Proven, Cleared, Out, Evaluated, CompletionAction, Unplanned
<1> QED BY <1>3 DEF d

LEMMA AttemptFit ==
  ASSUME NEW S, NEW c \in LoopContext, NEW l \in {"dispatch", "redispatch"}, Fit(S, l, c), NEW k
  PROVE  LET d == [c EXCEPT !.total_attempts = @ + 1, !.pending_attempt = k] IN
         Fit(S, "executor", d) /\ Fit(S, "failing", d) /\ Fit(S, "cancelling", d) /\ StoreFit(S, d)
<1> DEFINE d == [c EXCEPT !.total_attempts = @ + 1, !.pending_attempt = k]
<1>1. SameView(c, d) /\ d.status = c.status
  BY DEF LoopContext, SameView
<1> HIDE DEF d
<1>2. Fit(S, l, d)
  BY <1>1, CopyFit
<1>3. Fit(S, "executor", d)
  BY <1>2 DEF Fit, Shaped, Proven, Cleared, Out, Evaluated, CompletionAction, Unplanned
<1>4. Mid(S, d) /\ {"failing", "cancelling"} \subseteq Out
  <2>1. l \in Midway
    BY DEF Midway, Label, Driving, Out
  <2> QED BY <1>2, <2>1, FitMid DEF Out
<1> QED BY <1>3, <1>4, MidFit DEF d

LEMMA ResultFit ==
  ASSUME NEW S, NEW c \in LoopContext, Fit(S, "executor", c)
  PROVE  LET d == [c EXCEPT !.pending_execution = c.total_attempts] IN
         Mid(S, d) /\ (~Calm => Fit(S, "retry", d))
<1> DEFINE d == [c EXCEPT !.pending_execution = c.total_attempts]
<1>1. SameView(c, d) /\ d.status = c.status
  BY DEF LoopContext, SameView
<1> HIDE DEF d
<1>2. Fit(S, "executor", d)
  BY <1>1, CopyFit
<1>3. ~Calm => Fit(S, "retry", d)
  BY <1>2 DEF Fit, Shaped, Proven, Out, Evaluated, CompletionAction, Unplanned
<1>4. Mid(S, d)
  <2>1. "executor" \in Midway
    BY DEF Midway, Label, Driving, Awaiting, Out
  <2> QED BY <1>2, <2>1, FitMid
<1> QED BY <1>3, <1>4 DEF d

LEMMA ForgetFit ==
  ASSUME NEW S, NEW c \in LoopContext, Mid(S, c)
  PROVE  Mid(S, [c EXCEPT !.active_operation_id = NoOperation, !.pending_attempt = 0])
<1> DEFINE d == [c EXCEPT !.active_operation_id = NoOperation, !.pending_attempt = 0]
<1>1. SameView(c, d) /\ d.status = c.status
  BY DEF LoopContext, SameView
<1> HIDE DEF d
<1>2. Mid(S, d)
  BY <1>1, SameFit DEF Mid, Scoped, SameView
<1> QED BY <1>2 DEF d

\* A verification is one more record, and uses up the approval of its step.
LEMMA VerifiedFit ==
  ASSUME NEW S, NEW c \in LoopContext, Fit(S, "verifier", c), StepsLeft(c), NEW passed \in BOOLEAN
  PROVE  LET d == VerifiedContext(c, passed) IN
         Fit(S, IF passed THEN "step" ELSE "rejected", d) /\ StoreFit(S, d)
<1> DEFINE d == VerifiedContext(c, passed)
           step == CurrentStep(c)
           r == [cycle |-> c.cycle_count, step_index |-> c.current_step_index, step |-> step,
                 execution |-> c.pending_execution, passed |-> passed, attempt |-> c.pending_attempt]
<1>1. /\ c.current_plan \in Seq(PlanStep) /\ c.current_step_index \in Nat
      /\ c.current_step_index < Len(c.current_plan) /\ Len(c.current_plan) \in Nat
      /\ DOMAIN c.current_plan = 1 .. Len(c.current_plan)
      /\ c.records \in Seq(IterationRecord)
  BY Fields DEF StepsLeft
<1>2. /\ d.current_plan = c.current_plan /\ d.current_step_index = c.current_step_index + 1
      /\ d.cycle_count = c.cycle_count /\ d.status = c.status
      /\ d.approved_step_ids = c.approved_step_ids \ {step.step_id}
      /\ d.pending_interaction = c.pending_interaction
  BY DEF VerifiedContext, LoopContext
<1>3. d.records = Append(c.records, r)
  BY DEF VerifiedContext, LoopContext
<1>4. r.cycle = c.cycle_count /\ r.step = step /\ r.passed = passed
  OBVIOUS
<1> HIDE DEF d, r
<1>5. /\ c.status = "verifying" /\ Mid(S, c)
  <2>1. "verifier" \in Midway
    BY DEF Midway, Label, Driving, Awaiting, Out
  <2> QED BY <2>1, FitMid DEF Fit, Shaped
<1>6. Calm => d.approved_step_ids = {}
  BY <1>2, <1>5 DEF Mid, Scoped, AtStep
<1>7. \A s : Passed(c, s) => Passed(d, s)
  <2> SUFFICES ASSUME NEW s, Passed(c, s) PROVE Passed(d, s)
    OBVIOUS
  <2>1. PICK k \in DOMAIN c.records : /\ c.records[k].cycle = c.cycle_count
                                      /\ c.records[k].step = s /\ c.records[k].passed
    BY DEF Passed
  <2>2. k \in DOMAIN d.records /\ d.records[k] = c.records[k]
    BY <1>1, <1>3
  <2> QED BY <1>2, <2>1, <2>2 DEF Passed
<1>8. passed => Passed(d, step)
  <2>1. /\ Len(c.records) + 1 \in DOMAIN d.records
        /\ d.records[Len(c.records) + 1] = r
    BY <1>1, <1>3
  <2> QED BY <1>2, <1>4, <2>1 DEF Passed
<1>9. NoRecovery /\ passed => PassedSoFar(d)
  <2> SUFFICES ASSUME NoRecovery, passed, NEW i \in DOMAIN d.current_plan, i <= d.current_step_index
               PROVE  Passed(d, d.current_plan[i])
    BY DEF PassedSoFar
  <2>1. CASE i <= c.current_step_index
    BY <1>2, <1>5, <1>7, <2>1 DEF Mid, PassedSoFar
  <2>2. CASE i = c.current_step_index + 1
    BY <1>2, <1>8, <2>2 DEF CurrentStep
  <2>3. i \in Nat
    BY <1>1, <1>2
  <2> QED BY <1>1, <1>2, <2>1, <2>2, <2>3
<1>10. c.current_plan # <<>>
  BY <1>1
<1>11. StoreFit(S, d)
  BY <1>2, <1>5, <1>6 DEF StoreFit, Mid, Scoped, Granted, NoInteraction
<1>12. CASE passed
  <2>1. Mid(S, d)
    BY <1>2, <1>5, <1>6, <1>9, <1>12 DEF Mid, Scoped, Granted, NoInteraction
  <2>2. Fit(S, "step", d)
    BY <1>2, <1>10, <2>1 DEF Mid, Fit, Shaped, Proven, Cleared, Out, Evaluated, CompletionAction, Unplanned
  <2> QED BY <1>11, <1>12, <2>2 DEF d
<1>13. CASE ~passed
  <2>1. Fit(S, "rejected", d)
    BY <1>2, <1>5, <1>6
       DEF Mid, Fit, Shaped, Proven, Cleared, Scoped, Granted, NoInteraction, Out, Evaluated,
           CompletionAction, Unplanned
  <2> QED BY <1>11, <1>13, <2>1 DEF d
<1> QED BY <1>12, <1>13

LEMMA CompletionFit ==
  ASSUME NEW S, NEW c \in LoopContext, Mid(S, c)
  PROVE  LET d == [c EXCEPT !.completion_approved = FALSE] IN
         /\ Mid(S, d) /\ StepsLeft(c) = StepsLeft(d) /\ d.current_plan = c.current_plan
<1> DEFINE d == [c EXCEPT !.completion_approved = FALSE]
<1>1. SameView(c, d) /\ d.status = c.status
  BY DEF LoopContext, SameView
<1> HIDE DEF d
<1>2. Mid(S, d)
  BY <1>1, SameFit DEF Mid, Scoped, SameView
<1> QED BY <1>1, <1>2, SameFit DEF d, SameView

\* A question is asked about the current step, or about none.
LEMMA AskFit ==
  ASSUME NEW S, NEW c \in LoopContext, Mid(S, c), NEW i \in Interaction, NEW reason \in StopReason,
         i.kind = "approval" => AtStep(c, i.step)
  PROVE  LET d == Asking(c, i, reason) IN
         /\ Fit(S, "broken", d)
         /\ \A e : SameView(d, e) /\ e.status = "paused"
              => Fit(S, "pausing", e) /\ StoreFit(S, e)
<1> DEFINE d == Asking(c, i, reason)
<1>1. /\ d.records = c.records /\ d.cycle_count = c.cycle_count /\ d.status = c.status
      /\ d.current_plan = c.current_plan /\ d.current_step_index = c.current_step_index
      /\ d.approved_step_ids = c.approved_step_ids
      /\ d.pending_interaction = i
  BY DEF Asking, LoopContext
<1> HIDE DEF d
<1>2. /\ PassedSoFar(d) = PassedSoFar(c) /\ \A s : AtStep(d, s) = AtStep(c, s)
      /\ Granted(S, d) = Granted(S, c)
  BY <1>1 DEF PassedSoFar, Passed, AtStep, StepsLeft, CurrentStep, Granted
<1>3. /\ NoRecovery => PassedSoFar(d) /\ d.status # "completed"
      /\ Calm => Scoped(d) /\ Granted(S, d)
  BY <1>1, <1>2 DEF Mid, Scoped
<1>4. Fit(S, "broken", d)
  BY <1>3 DEF Fit, Shaped, Proven, Cleared, Out, Evaluated, CompletionAction, Unplanned
<1>5. ASSUME NEW e, SameView(d, e), e.status = "paused"
      PROVE  Fit(S, "pausing", e) /\ StoreFit(S, e)
  <2>1. /\ PassedSoFar(d) = PassedSoFar(e) /\ \A s : AtStep(d, s) = AtStep(e, s)
        /\ Granted(S, d) = Granted(S, e)
    BY <1>5, SameFit
  <2>2. /\ NoRecovery => PassedSoFar(e)
        /\ Calm => Scoped(e) /\ Granted(S, e)
    BY <1>3, <1>5, <2>1 DEF Scoped, SameView
  <2>3. "paused" \in AtRest
    BY DEF AtRest
  <2>4. Fit(S, "pausing", e)
    BY <1>5, <2>2, <2>3 DEF Fit, Shaped, Proven, Cleared, Out, Evaluated, CompletionAction, Unplanned
  <2> QED BY <1>5, <2>2, <2>3, <2>4 DEF StoreFit
<1> QED BY <1>4, <1>5 DEF d

-----------------------------------------------------------------------------
(* The steps that grant, ask or may raise into the retry policy.            *)

\* The gate's yes is a grant for the step the call is at.
LEMMA GateFits ==
  ASSUME IndInv, HumanInv, NEW p \in Procs, GateApproves(p)
  PROVE  HumanInv'
<1>1. PICK c \in LoopContext : c = ctx[p]
  BY DEF IndInv, TypeOK
<1>2. pc[p] = "gate" /\ Commit(p, c, "approved", "failing") /\ Fit(grants, "gate", c)
  BY <1>1 DEF GateApproves, Returns, HumanInv
<1>3. /\ "gate" \in Midway /\ {"approved", "failing"} \subseteq Label \ {"submit_save", "executor"}
      /\ {"failing", "cancelling"} \subseteq Out /\ "approved" # "executor" /\ "approved" # "failing"
      /\ "approved" \in Label /\ "failing" \in Label
  BY DEF Midway, Label, Driving, Awaiting, Out
<1>4. Mid(grants, c)
  BY <1>2, <1>3, FitMid
<1>5. Went(p, c, "approved", "failing") /\ History(p)
  <2>1. Went(p, c, "approved", "failing")
    BY <1>2, <1>3, OneEventWent
  <2> QED BY <2>1 DEF Went
<1>6. PICK S : grants' = S
  OBVIOUS
<1>7. grants \subseteq S
  BY <1>5, <1>6, GrantsGrow
<1>8. Fit(S, "failing", c) /\ Fit(S, "cancelling", c) /\ StoreFit(S, c)
  <2>1. Fit(grants, "failing", c) /\ Fit(grants, "cancelling", c) /\ StoreFit(grants, c)
    BY <1>3, <1>4, MidFit
  <2> QED BY <1>7, <2>1, MoreFit
<1>9. ASSUME pc'[p] = "approved" PROVE Fit(S, "approved", c)
  <2>1. Operation(c, CurrentStep(c)) \in S
    BY <1>1, <1>2, <1>5, <1>6, <1>9 DEF History, GateApproved
  <2>2. Calm => Granted(S, c)
    BY <1>4, <1>7 DEF Mid, Granted
  <2> QED
    BY <1>4, <2>1, <2>2
       DEF Mid, Fit, Shaped, Proven, Cleared, Out, Evaluated, CompletionAction, Unplanned
<1>10. c.revision = ctx[p].revision
  BY <1>1
<1> QED BY <1>3, <1>5, <1>6, <1>8, <1>9, <1>10, WentFits

\* What is dispatched is granted.
LEMMA DispatchFits ==
  ASSUME IndInv, WorkInv, HumanInv, NEW p \in Procs, Dispatch(p)
  PROVE  HumanInv'
<1> DEFINE k == IF pc[p] = "dispatch" THEN 1 ELSE ctx[p].pending_attempt + 1
           d == [ctx[p] EXCEPT !.total_attempts = @ + 1, !.pending_attempt = k]
<1>1. PICK c \in LoopContext : c = ctx[p]
  BY DEF IndInv, TypeOK
<1>2. PICK l \in {"dispatch", "redispatch"} :
        /\ pc[p] = l /\ Commit(p, d, "executor", "failing") /\ Fit(grants, l, c)
  BY <1>1, Zenon DEF Dispatch, HumanInv
<1>3. k \in Nat
  <2>1. c.pending_attempt \in Nat
    BY Fields
  <2> QED BY <1>1, <2>1
<1> HIDE DEF k
<1>4. d = [c EXCEPT !.total_attempts = @ + 1, !.pending_attempt = k]
  BY <1>1
<1> HIDE DEF d
<1>5. d \in LoopContext
  <2>1. c.total_attempts + 1 \in Nat
    BY Fields
  <2> QED BY <1>3, <1>4, <2>1, Zenon DEF LoopContext
<1>6. /\ d.revision = c.revision /\ d.active_operation_id = c.active_operation_id
      /\ CurrentStep(d) = CurrentStep(c)
  BY <1>4 DEF LoopContext, CurrentStep
<1>7. Fit(grants, "executor", d) /\ Fit(grants, "failing", d) /\ Fit(grants, "cancelling", d)
      /\ StoreFit(grants, d)
  BY <1>2, <1>4, AttemptFit
<1>8. {"executor", "failing"} \subseteq Label \ {"submit_save"} /\ "failing" # "executor"
  BY DEF Label, Driving, Awaiting
<1>9. Went(p, d, "executor", "failing") /\ History(p)
  <2>1. Went(p, d, "executor", "failing")
    BY <1>2, <1>5, <1>8, OneEventWent
  <2> QED BY <2>1 DEF Went
<1>10. PICK S : grants' = S
  OBVIOUS
<1>11. Fit(S, "executor", d) /\ Fit(S, "failing", d) /\ Fit(S, "cancelling", d) /\ StoreFit(S, d)
  BY <1>7, <1>9, <1>10, GrantsGrow, MoreFit
<1>12. Calm => (CurrentStep(d).requires_approval => d.active_operation_id \in grants)
  <2>1. c.active_operation_id = Operation(c, CurrentStep(c))
    BY <1>1, <1>2 DEF WorkInv, Placed, OnOperation
  <2> QED BY <1>2, <1>6, <2>1 DEF Fit, Cleared
<1>13. d.revision = ctx[p].revision
  BY <1>1, <1>6
<1> QED BY <1>5, <1>8, <1>9, <1>10, <1>11, <1>12, <1>13, WentFits

\* A save whose exception surfaces in _execute.
LEMMA RetryFits ==
  ASSUME IndInv, HumanInv, NEW p \in Procs, pc[p] \notin {"dispatch", "redispatch"},
         NEW c \in LoopContext, c.revision = ctx[p].revision,
         NEW next \in Label \ {"submit_save", "broken", "retry"},
         Commit(p, c, next, "retry"), Fit(grants, next, c), StoreFit(grants, c),
         ~Calm => Fit(grants, "retry", c)
  PROVE  HumanInv'
<1>1. "retry" \in Label \ {"submit_save", "executor"} /\ "cancelling" \in Out
  BY DEF Label, Driving, Out
<1>2. Went(p, c, next, "retry") /\ History(p)
  <2>1. Went(p, c, next, "retry")
    BY <1>1, OneEventWent
  <2> QED BY <2>1 DEF Went
<1>3. PICK S : grants' = S
  OBVIOUS
<1>4. Fit(grants, "cancelling", c)
  BY <1>1, FitOut
<1>5. Faulty => ~Calm
  BY DEF Faulty, Calm
<1>6. /\ Fit(S, next, c) /\ Fit(S, "cancelling", c) /\ StoreFit(S, c)
      /\ Faulty => Fit(S, "retry", c)
  BY <1>2, <1>3, <1>4, <1>5, GrantsGrow, MoreFit
<1> QED BY <1>1, <1>2, <1>3, <1>6, WentFits

LEMMA RequestHumanFits ==
  ASSUME IndInv, HumanInv, NEW p \in Procs, NEW kind, NEW step, NEW reason \in StopReason,
         [interaction_id |-> ctx[p].revision, kind |-> kind, step |-> step] \in Interaction,
         Mid(grants, ctx[p]), kind = "approval" => AtStep(ctx[p], step),
         RequestHuman(p, kind, step, reason)
  PROVE  HumanInv'
<1> DEFINE i == [interaction_id |-> ctx[p].revision, kind |-> kind, step |-> step]
           d == [ctx[p] EXCEPT !.pending_interaction = i, !.stop_reason = reason,
                               !.active = FALSE]
           e == [d EXCEPT !.status = "paused"]
<1>1. PICK c \in LoopContext : c = ctx[p]
  BY DEF IndInv, TypeOK
<1>2. \/ d.status = "paused" /\ Commit(p, d, "pausing", "failing")
      \/ Commit(p, e, "pausing", "failing")
      \/ Goto(p, d, "broken")
  <2>1. \/ ctx[p].status = "paused" /\ Commit(p, d, "pausing", "failing")
        \/ Transition(p, d, "paused", "pausing", "failing")
    BY DEF RequestHuman, Mid
  <2>2. d.status = ctx[p].status
    BY <1>1 DEF LoopContext
  <2> QED BY <2>1, <2>2 DEF Transition
<1>3. i \in Interaction /\ i.kind = kind /\ i.step = step
  OBVIOUS
<1> HIDE DEF i
<1>4. d = Asking(c, i, reason)
  BY <1>1 DEF Asking
<1> HIDE DEF d
<1>5. d \in LoopContext /\ d.revision = c.revision
  <2>1. Asking(c, i, reason) \in LoopContext
    BY <1>3, AskUpdate DEF Asking
  <2> QED BY <1>4, <2>1 DEF Asking, LoopContext
<1>6. e \in LoopContext /\ SameWork(d, e) /\ e.revision = d.revision /\ e.status = "paused"
  <2>1. "paused" \in LoopStatus
    BY DEF LoopStatus
  <2> QED BY <1>5, <2>1, StatusWork
<1> HIDE DEF e
<1>7. /\ Fit(grants, "broken", d)
      /\ \A f : SameView(d, f) /\ f.status = "paused"
           => Fit(grants, "pausing", f) /\ StoreFit(grants, f)
  BY <1>1, <1>3, <1>4, AskFit
<1>8. /\ "pausing" \in Label \ {"submit_save", "broken", "executor"} /\ "failing" \in Surfaces
      /\ "broken" \in Label \ {"submit_save", "executor"}
  BY DEF Label, Driving, Surfaces
<1>9. SameView(d, d) /\ SameView(d, e)
  BY <1>6, WorkView DEF SameView
<1>10. d.revision = ctx[p].revision /\ e.revision = ctx[p].revision
  BY <1>1, <1>5, <1>6
<1>11. CASE d.status = "paused" /\ Commit(p, d, "pausing", "failing")
  BY <1>5, <1>7, <1>8, <1>9, <1>10, <1>11, CommitFits
<1>12. CASE Commit(p, e, "pausing", "failing")
  BY <1>6, <1>7, <1>8, <1>9, <1>10, <1>12, CommitFits
<1>13. CASE Goto(p, d, "broken")
  BY <1>5, <1>7, <1>8, <1>13, GotoFits
<1> QED BY <1>2, <1>11, <1>12, <1>13

\* An answer that is saved approves what it grants.
LEMMA SubmitFits ==
  ASSUME IndInv, HumanInv, NEW p \in Procs, SubmitSave(p)
  PROVE  HumanInv'
<1>1. PICK c \in LoopContext : c = ctx[p]
  BY DEF IndInv, TypeOK
<1>2. /\ pc[p] = "submit_save" /\ Fit(grants, "submit_save", c)
      /\ Calm => Answering(grants, store, c)
  BY <1>1 DEF SubmitSave, HumanInv
<1>3. PICK n \in Nat \ {0} : CommitMany(p, c, n, "idle", "idle")
  BY <1>1 DEF SubmitSave
<1>4. "idle" \in Label \ {"submit_save", "executor"} /\ "idle" # "executor" /\ "submit_save" \notin Driving
      /\ "idle" \in Label
  BY DEF Label, Driving, Awaiting, CompletionAction
<1>5. Went(p, c, "idle", "idle")
  BY <1>3, <1>4, CommitWent
<1>6. PICK x \in LoopContext, l \in Label :
        /\ Land(p, x, l) /\ History(p) /\ l \in {"idle", "exit", "cancelling"}
        /\ l = "cancelling" => pc[p] \in Driving
        /\ store' = store \/ (Fresh(c) /\ store' \in LoopContext /\ Copy(c, store'))
  BY <1>5 DEF Went
<1>7. PICK S : grants' = S
  OBVIOUS
<1>8. grants \subseteq S
  BY <1>6, <1>7, GrantsGrow
<1>9. ASSUME Fresh(c), store' # store PROVE StoreFit(S, c)
  <2>1. Calm => Granted(S, c)
    <3> SUFFICES ASSUME Calm, NEW s \in c.approved_step_ids PROVE <<c.cycle_count, s>> \in S
      BY DEF Granted
    <3>1. /\ c.cycle_count = store.cycle_count
          /\ \/ <<c.cycle_count, s>> \in grants
             \/ /\ store.pending_interaction.kind = "approval" /\ s = store.pending_interaction.step
                /\ Last(c.human_interactions).action = "approve"
      BY <1>2, <1>9 DEF Answering, Fresh
    <3>2. CASE <<c.cycle_count, s>> \in grants
      BY <1>8, <3>2
    <3>3. CASE /\ store.pending_interaction.kind = "approval" /\ s = store.pending_interaction.step
               /\ Last(c.human_interactions).action = "approve"
      <4>1. store'.human_interactions = c.human_interactions
        BY <1>6, <1>9 DEF Copy, SameWork
      <4>2. HumanApproved(p) /\ ~GateApproved(p)
        BY <1>2, <1>9, <3>3, <4>1 DEF HumanApproved, GateApproved
      <4>3. grants' = grants \cup {<<store.cycle_count, store.pending_interaction.step>>}
        BY <1>6, <3>3, <4>2 DEF History
      <4> QED BY <1>7, <3>1, <3>3, <4>3
    <3> QED BY <3>1, <3>2, <3>3
  <2>2. /\ c.pending_interaction = NoInteraction
        /\ NoRecovery => (c.status = "completed" => AllPassed(c)) /\ PassedSoFar(c)
        /\ Calm => Scoped(c)
    BY <1>2 DEF Fit, Shaped, Proven, Cleared, Out
  <2> QED BY <2>1, <2>2 DEF StoreFit
<1>10. pc'[p] = l
  BY <1>6 DEF Land, IndInv, TypeOK
<1>11. Fit(S, "idle", Blank)
  BY BlankFit
<1>12. PICK s \in LoopContext : /\ store' = s
                                /\ s = store \/ s.revision > store.revision
                                /\ s = store \/ (Fresh(c) /\ Copy(c, s))
  <2>1. store \in LoopContext /\ store.revision \in Nat
    BY Fields DEF IndInv, TypeOK
  <2>2. store' = store \/ (Fresh(c) /\ store' \in LoopContext /\ Copy(c, store')
                             /\ store'.revision = c.revision + 1)
    BY <1>5 DEF Went
  <2> QED BY <2>1, <2>2 DEF Fresh
<1>13. StoreFit(S, s)
  <2>1. CASE s = store
    BY <1>8, <2>1, MoreFit DEF HumanInv
  <2>2. CASE s # store
    <3>1. StoreFit(S, c) /\ Copy(c, s)
      BY <1>9, <1>12, <2>2
    <3> QED BY <3>1, CopyFit, WorkView DEF Copy
  <2> QED BY <2>1, <2>2
<1>14. l \in {"idle", "exit"} /\ l # "submit_save" /\ l # "executor"
  BY <1>2, <1>4, <1>6
<1> QED BY <1>6, <1>7, <1>12, <1>13, <1>14, LandFits


-----------------------------------------------------------------------------
(* One step of the call on p.                                               *)

\* Where a call that has a plan may go on.
LEMMA PlannedFit ==
  ASSUME NEW S, NEW c, Mid(S, c)
  PROVE  /\ (NoRecovery => c.current_plan # <<>>) => Fit(S, "step", c)
         /\ (NoRecovery => c.current_plan # <<>>) /\ ~StepsLeft(c) => \A l \in Evaluated : Fit(S, l, c)
         /\ c.status = "verifying" => Fit(S, "verifier", c)
         /\ (Calm => (CurrentStep(c).requires_approval => Operation(c, CurrentStep(c)) \in S))
              => /\ Fit(S, "approved", c)
                 /\ c.status = "executing" => Fit(S, "execute", c)
<1> USE DEF Mid, Fit, Shaped, Proven, Cleared, Out, Evaluated, CompletionAction, Unplanned
<1>1. ASSUME NoRecovery => c.current_plan # <<>> PROVE Fit(S, "step", c)
  BY <1>1
<1>2. ASSUME NoRecovery => c.current_plan # <<>>, ~StepsLeft(c), NEW l \in Evaluated
      PROVE  Fit(S, l, c)
  BY <1>2
<1>3. ASSUME c.status = "verifying" PROVE Fit(S, "verifier", c)
  BY <1>3
<1>4. ASSUME Calm => (CurrentStep(c).requires_approval => Operation(c, CurrentStep(c)) \in S)
      PROVE  Fit(S, "approved", c) /\ (c.status = "executing" => Fit(S, "execute", c))
  BY <1>4
<1> QED BY <1>1, <1>2, <1>3, <1>4

\* A change of status where nothing is planned.
LEMMA MoveUnplanned ==
  ASSUME NEW S, NEW c, NoRecovery => c.current_plan = <<>>, Calm => c.approved_step_ids = {}
  PROVE  \A d : SameWork(c, d) /\ Mid(S, d) => \A l \in Unplanned : Fit(S, l, d)
<1> SUFFICES ASSUME NEW d, SameWork(c, d), Mid(S, d), NEW l \in Unplanned
             PROVE  Fit(S, l, d)
  OBVIOUS
<1>1. d.current_plan = c.current_plan /\ d.approved_step_ids = c.approved_step_ids
  BY DEF SameWork
<1>2. (NoRecovery => d.current_plan = <<>>) /\ (Calm => d.approved_step_ids = {})
  BY <1>1
<1> QED BY <1>2, UnplannedFit

LEMMA LoopStepFits ==
  ASSUME IndInv, WorkInv, HumanInv, NEW p \in Procs, LoopStep(p)
  PROVE  HumanInv'
<1> DEFINE c == ctx[p]
<1>c. /\ c \in LoopContext /\ c.revision = ctx[p].revision /\ c = ctx[p]
      /\ Fit(grants, pc[p], c) /\ pc[p] \in Label
  BY DEF IndInv, TypeOK, HumanInv
<1>s. pc[p] \in InStep => StepsLeft(c)
  BY DEF IndInv, CursorOK
<1> HIDE DEF c
<1>m. pc[p] \in Midway => Mid(grants, c)
  BY <1>c, FitMid
<1>l. /\ Midway = {"run_start", "resume_continue", "resume_replan", "resume_planning",
                   "recover_stop", "recover_save", "cycle", "begin", "step", "approved",
                   "execute", "dispatch", "redispatch", "retry", "verify", "replanned",
                   "planner", "gate", "executor", "backoff", "verifier", "evaluator",
                   "accept", "replan", "request_human", "stop"}
      /\ {"cycle", "step", "begin", "planner", "replanned", "evaluator", "verify", "verifier",
          "gate", "approved", "execute", "exit", "idle", "resume_planning", "accept", "replan",
          "request_human", "stop", "backoff", "redispatch"}
           \subseteq Label \ {"submit_save", "broken", "executor"}
      /\ {"cycle", "step", "begin", "planner", "replanned", "evaluator", "verify", "verifier",
          "gate", "approved", "execute", "exit", "idle", "resume_planning", "failing", "broken",
          "cancelling", "dispatch", "redispatch", "retry", "backoff"}
           \subseteq Label \ {"submit_save", "executor"}
      /\ "failing" \in Surfaces /\ "idle" \in Surfaces /\ "exit" \in Surfaces
      /\ Out = {"idle", "exit", "failing", "broken", "cancelling"}
      /\ Unplanned = {"run_start", "resume_replan", "resume_planning", "cycle", "begin",
                      "planner", "replanned"}
      /\ Evaluated = {"evaluator", "accept", "replan", "request_human", "stop"}
  BY DEF Midway, Label, Driving, Awaiting, Entry, CompletionAction, Out, Surfaces, Unplanned, Evaluated
<1>t. /\ {"planning", "executing", "verifying", "waiting_approval", "blocked",
          "completed", "cancelled", "timed_out", "failed"} \subseteq LoopStatus
      /\ {"policy_rejected", "approval_rejected", "approval_deferred", "cycle_limit",
          "attempt_limit", "step_limit", "cancelled", "timed_out", "completed",
          "human_input_required", "completion_rejected", "component_error",
          "budget_exhausted", "recovery_required"} \subseteq StopReason
  BY DEF LoopStatus, StopReason
<1>u. pc[p] \in Unplanned
        => /\ (NoRecovery => c.current_plan = <<>>) /\ (Calm => c.approved_step_ids = {})
           /\ Mid(grants, c) /\ \A l \in Unplanned : Fit(grants, l, c)
  BY <1>c, FitUnplanned, UnplannedFit
<1>n. pc[p] \in {"step", "resume_continue"} \cup Evaluated => (NoRecovery => c.current_plan # <<>>)
  BY <1>c DEF Fit, Proven
<1>o. Mid(grants, c) => StoreFit(grants, c) /\ \A l \in Out \cup {"gate", "verify"} : Fit(grants, l, c)
  BY MidFit
<1>z. \A d \in LoopContext : Mid(grants, d)
         => StoreFit(grants, d) /\ \A l \in Out \cup {"gate", "verify"} : Fit(grants, l, d)
  BY MidFit
<1>1. CASE RunStart(p)
  <2>1. pc[p] = "run_start" /\ Commit(p, c, "cycle", "idle")
    BY <1>1, <1>c DEF RunStart
  <2>2. Fit(grants, "cycle", c) /\ StoreFit(grants, c)
    BY <1>l, <1>o, <1>u, <2>1
  <2> QED BY <1>c, <1>l, <2>1, <2>2, CommitFits
<1>2. CASE ResumeContinue(p)
  <2>1. pc[p] = "resume_continue" /\ Commit(p, c, "step", "idle")
    BY <1>2, <1>c DEF ResumeContinue
  <2>2. Fit(grants, "step", c) /\ StoreFit(grants, c)
    BY <1>l, <1>m, <1>n, <1>o, <2>1, PlannedFit
  <2> QED BY <1>c, <1>l, <2>1, <2>2, CommitFits
<1>p. ASSUME NEW next \in Unplanned, NEW raised \in Surfaces, pc[p] \in Unplanned,
             \/ Transition(p, c, "planning", next, raised) \/ Enter(p, c, "planning", next, raised)
      PROVE  HumanInv'
  <2>1. /\ Mid(grants, c) /\ (Calm /\ "planning" \in {"created", "planning"} => c.approved_step_ids = {})
        /\ \A d \in LoopContext : SameWork(c, d) /\ d.status = "planning" /\ Mid(grants, d)
             => Fit(grants, next, d)
    BY <1>p, <1>u, MoveUnplanned
  <2>2. next \in Label \ {"submit_save", "broken", "executor"} /\ "planning" \in LoopStatus
        /\ "planning" # "completed"
    BY <1>t DEF Unplanned, Label, Driving, Awaiting, Entry
  <2> QED BY <1>c, <1>p, <2>1, <2>2, TransitionFits, EnterFits
<1>3. CASE ResumeReplan(p)
  <2>1. pc[p] = "resume_replan" /\ Transition(p, c, "planning", "resume_planning", "idle")
    BY <1>3, <1>c DEF ResumeReplan
  <2> QED BY <1>l, <1>p, <2>1
<1>4. CASE ResumePlanning(p)
  <2>1. pc[p] = "resume_planning" /\ Commit(p, c, "cycle", "idle")
    BY <1>4, <1>c DEF ResumePlanning
  <2>2. Fit(grants, "cycle", c) /\ StoreFit(grants, c)
    BY <1>l, <1>o, <1>u, <2>1
  <2> QED BY <1>c, <1>l, <2>1, <2>2, CommitFits
<1>5. CASE RecoverStop(p)
  <2>1. pc[p] = "recover_stop" /\ Stop(p, c, "blocked", "recovery_required", "idle", "idle")
    BY <1>5, <1>c DEF RecoverStop
  <2>2. Mid(grants, c) /\ "idle" \in Surfaces \cup {"retry"} /\ "idle" # "retry"
        /\ "idle" \in {"exit", "idle"} /\ "recovery_required" \in StopReason
    BY <1>l, <1>m, <1>t, <2>1
  <2> QED BY <1>c, <2>1, <2>2, StopFits
<1>6. CASE RecoverSave(p)
  <2>1. /\ pc[p] = "recover_save"
        /\ Commit(p, c, IF ContinuesPlan(c) THEN "step" ELSE "cycle", "idle")
    BY <1>6, <1>c DEF RecoverSave
  <2>2. Mid(grants, c) /\ ~NoRecovery
    BY <1>c, <1>l, <1>m, <2>1 DEF Fit, Proven
  <2>3. StoreFit(grants, c)
    BY <1>o, <2>2
  <2>4. CASE ContinuesPlan(c)
    <3>1. Commit(p, c, "step", "idle") /\ Fit(grants, "step", c)
      BY <2>1, <2>2, <2>4, PlannedFit
    <3> QED BY <1>c, <1>l, <2>3, <3>1, CommitFits
  <2>5. CASE ~ContinuesPlan(c)
    <3>1. ASSUME Calm PROVE c.approved_step_ids = {}
      <4>1. /\ c.status \in {"created", "planning", "executing", "verifying"} /\ Scoped(c)
        BY <1>c, <2>1, <3>1 DEF Fit, Cleared
      <4>2. CASE c.status \in {"created", "planning"}
        BY <4>1, <4>2 DEF Scoped
      <4>3. CASE c.status \in {"executing", "verifying"}
        <5>1. c.current_plan = <<>> /\ c.current_step_index \in Nat
          BY <1>c, <2>5, <4>3, Fields DEF ContinuesPlan
        <5>2. ~StepsLeft(c)
          BY <5>1 DEF StepsLeft
        <5> QED BY <4>1, <5>2 DEF Scoped, AtStep
      <4> QED BY <4>1, <4>2, <4>3
    <3>2. Commit(p, c, "cycle", "idle") /\ Fit(grants, "cycle", c)
      BY <1>l, <2>1, <2>2, <2>5, <3>1, UnplannedFit
    <3> QED BY <1>c, <1>l, <2>3, <3>2, CommitFits
  <2> QED BY <2>4, <2>5
<1>7. CASE SubmitSave(p)
  BY <1>7, SubmitFits
<1>8. CASE StopCancelled(p)
  <2>1. pc[p] \in SafeBoundary /\ Stop(p, c, "cancelled", "cancelled", "exit", "failing")
    BY <1>8, <1>c DEF StopCancelled, AtBoundary
  <2>2. Mid(grants, c) /\ "failing" \in Surfaces \cup {"retry"} /\ "failing" # "retry"
        /\ "exit" \in {"exit", "idle"} /\ "cancelled" \in StopReason
    BY <1>l, <1>m, <1>t, <2>1 DEF SafeBoundary
  <2> QED BY <1>c, <2>1, <2>2, StopFits
<1>b. ASSUME NEW reason \in StopReason, Block(p, c, reason), pc[p] \in Midway PROVE HumanInv'
  BY <1>b, <1>c, <1>m, BlockFits
<1>9. CASE StopRejected(p)
  <2>1. pc[p] \in SafeBoundary /\ Block(p, c, "policy_rejected")
    BY <1>9, <1>c DEF StopRejected, AtBoundary
  <2> QED BY <2>1, <1>b, <1>l, <1>t DEF SafeBoundary
<1>10. CASE CycleLimit(p)
  BY <1>10, <1>b, <1>c, <1>l, <1>t DEF CycleLimit
<1>11. CASE StartPlanning(p)
  <2>1. pc[p] = "cycle" /\ Enter(p, c, "planning", "begin", "failing")
    BY <1>11, <1>c DEF StartPlanning
  <2> QED BY <1>l, <1>p, <2>1
<1>12. CASE BeginCycle(p)
  <2> DEFINE d == [c EXCEPT !.cycle_count = @ + 1]
  <2>1. pc[p] = "begin" /\ Goto(p, d, "planner")
    BY <1>12, <1>c DEF BeginCycle
  <2>2. d \in LoopContext
    BY <1>c, CycleWork DEF Rearranged
  <2>3. Fit(grants, "planner", d)
    BY <1>c, <2>1, CycleFit
  <2> HIDE DEF d
  <2> QED BY <1>l, <2>1, <2>2, <2>3, GotoFits
<1>e. ASSUME c.pending_interaction = NoInteraction, NoRecovery => c.status # "completed",
             Calm => c.approved_step_ids = {}
      PROVE  /\ DropPlan(c) \in LoopContext /\ DropPlan(c).revision = c.revision
             /\ DropPlan(c).status = c.status
             /\ DropPlan(c).approved_step_ids = c.approved_step_ids
             /\ DropPlan(c).current_plan = <<>>
             /\ Mid(grants, DropPlan(c)) /\ \A l \in Unplanned : Fit(grants, l, DropPlan(c))
  <2>1. DropPlan(c).current_plan = <<>>
    BY <1>c DEF DropPlan, LoopContext
  <2> QED BY <1>c, <1>e, <2>1, DropFit
<1>13. CASE \E plan \in Plans : PlanCreated(p, plan)
  <2>1. PICK plan \in Plans : PlanCreated(p, plan)
    BY <1>13
  <2>2. plan \in Seq(PlanStep)
    BY LoopAssumption
  <2> DEFINE d == [c EXCEPT !.current_plan = plan, !.current_step_index = 0]
  <2>3. pc[p] = "planner"
    BY <2>1 DEF PlanCreated, Returns
  <2>4. \/ Goto(p, c, "failing")
        \/ Block(p, DropPlan(c), "step_limit")
        \/ plan # <<>> /\ Commit(p, d, "step", "failing")
    BY <2>1, <1>c DEF PlanCreated
  <2>5. d \in LoopContext /\ d.revision = c.revision
    BY <1>c, <2>2, PlanWork, Zenon DEF Rearranged
  <2>6. plan # <<>> => Fit(grants, "step", d) /\ StoreFit(grants, d)
    BY <1>c, <2>2, <2>3, PlanFit
  <2> HIDE DEF d
  <2>7. CASE Goto(p, c, "failing")
    BY <1>c, <1>l, <1>o, <1>u, <2>3, <2>7, GotoFits
  <2>8. CASE Block(p, DropPlan(c), "step_limit")
    <3>1. /\ c.pending_interaction = NoInteraction /\ (NoRecovery => c.status # "completed")
          /\ Calm => c.approved_step_ids = {}
      BY <1>l, <1>u, <2>3 DEF Mid
    <3>2. DropPlan(c) \in LoopContext /\ DropPlan(c).revision = ctx[p].revision
          /\ Mid(grants, DropPlan(c)) /\ "step_limit" \in StopReason
      BY <1>c, <1>e, <1>t, <3>1
    <3> QED BY <2>8, <3>2, BlockFits
  <2>9. CASE plan # <<>> /\ Commit(p, d, "step", "failing")
    BY <1>c, <1>l, <2>5, <2>6, <2>9, CommitFits
  <2> QED BY <2>4, <2>7, <2>8, <2>9
<1>g. ASSUME NEW l \in Out, Goto(p, c, l), Fit(grants, l, c) PROVE HumanInv'
  <2>1. l \in Label \ {"submit_save", "executor"}
    BY <1>l
  <2> QED BY <1>c, <1>g, <2>1, GotoFits
<1>v. ASSUME Enter(p, c, "verifying", "verifier", "failing"), pc[p] \in Midway PROVE HumanInv'
  <2>1. /\ Mid(grants, c) /\ "verifying" \in LoopStatus /\ "verifying" # "completed"
        /\ "verifying" \notin {"created", "planning"}
        /\ \A d \in LoopContext : SameWork(c, d) /\ d.status = "verifying" /\ Mid(grants, d)
             => Fit(grants, "verifier", d)
    BY <1>m, <1>t, <1>v, PlannedFit
  <2> QED BY <1>c, <1>l, <1>v, <2>1, EnterFits
<1>14. CASE VerifyPending(p)
  <2>1. pc[p] = "step"
    BY <1>14 DEF VerifyPending, NextStep
  <2>2. Enter(p, c, "verifying", "verifier", "failing") \/ Goto(p, c, "broken")
    BY <1>14, <1>c DEF VerifyPending
  <2>3. Fit(grants, "broken", c) /\ "broken" \in Out /\ pc[p] \in Midway
    BY <1>l, <1>m, <1>o, <2>1
  <2> QED BY <1>g, <1>v, <2>2, <2>3
<1>x. ASSUME \/ Enter(p, c, "executing", "execute", "failing")
             \/ Transition(p, c, "executing", "execute", "failing"),
             Mid(grants, c),
             Calm => (CurrentStep(c).requires_approval => Operation(c, CurrentStep(c)) \in grants)
      PROVE  HumanInv'
  <2>1. /\ "executing" \in LoopStatus /\ "executing" # "completed" /\ "executing" \notin {"created", "planning"}
    BY <1>t
  <2>2. ASSUME NEW d \in LoopContext, SameWork(c, d), d.status = "executing", Mid(grants, d)
        PROVE  Fit(grants, "execute", d)
    <3>1. CurrentStep(d) = CurrentStep(c) /\ Operation(d, CurrentStep(d)) = Operation(c, CurrentStep(c))
      BY <2>2, SameFit, WorkView
    <3>2. Calm => (CurrentStep(d).requires_approval => Operation(d, CurrentStep(d)) \in grants)
      BY <1>x, <3>1
    <3> QED BY <2>2, <3>2, PlannedFit
  <2> QED BY <1>c, <1>l, <1>x, <2>1, <2>2, TransitionFits, EnterFits
<1>15. CASE StartStep(p)
  <2>1. /\ pc[p] = "step" /\ ~CurrentStep(c).requires_approval
        /\ Enter(p, c, "executing", "execute", "failing")
    BY <1>15, <1>c DEF StartStep, NextStep
  <2> QED BY <1>l, <1>m, <1>x, <2>1
<1>16. CASE UseApproval(p)
  <2>1. /\ pc[p] = "step" /\ CurrentStep(c).step_id \in c.approved_step_ids
        /\ Commit(p, c, "approved", "failing")
    BY <1>16, <1>c DEF UseApproval, NextStep
  <2>2. Mid(grants, c)
    BY <1>l, <1>m, <2>1
  <2>3. Calm => Operation(c, CurrentStep(c)) \in grants
    BY <2>1, <2>2 DEF Mid, Granted, Operation
  <2>4. Fit(grants, "approved", c) /\ StoreFit(grants, c)
    BY <1>o, <2>2, <2>3, PlannedFit
  <2> QED BY <1>c, <1>l, <2>1, <2>4, CommitFits
<1>17. CASE AskGate(p)
  <2>1. pc[p] = "step" /\ Transition(p, c, "waiting_approval", "gate", "failing")
    BY <1>17, <1>c DEF AskGate, NextStep
  <2>2. /\ Mid(grants, c) /\ "waiting_approval" \in LoopStatus /\ "waiting_approval" # "completed"
        /\ "waiting_approval" \notin {"created", "planning"}
        /\ \A d \in LoopContext : SameWork(c, d) /\ d.status = "waiting_approval" /\ Mid(grants, d)
             => Fit(grants, "gate", d)
    BY <1>l, <1>m, <1>t, <1>z, <2>1
  <2> QED BY <1>c, <1>l, <2>1, <2>2, TransitionFits
<1>18. CASE GateApproves(p)
  BY <1>18, GateFits
<1>19. CASE GateRejects(p)
  BY <1>19, <1>b, <1>c, <1>l, <1>t DEF GateRejects, Returns
<1>20. CASE GateDefers(p)
  <2>1. pc[p] = "gate" /\ RequestHuman(p, "approval", CurrentStep(c).step_id, "approval_deferred")
    BY <1>20, <1>c DEF GateDefers, Returns
  <2>2. StepsLeft(c)
    BY <1>s, <2>1 DEF InStep
  <2>3. CurrentStep(c).step_id \in StepIds /\ c.revision \in Nat
    BY <1>c, <2>2, CurrentStepType, Fields
  <2>4. [interaction_id |-> ctx[p].revision, kind |-> "approval", step |-> CurrentStep(c).step_id]
          \in Interaction
    BY <1>c, <2>3 DEF Interaction
  <2>5. Mid(grants, ctx[p]) /\ AtStep(ctx[p], CurrentStep(c).step_id)
    BY <1>c, <1>l, <1>m, <2>1, <2>2 DEF AtStep
  <2> QED BY <1>t, <2>1, <2>4, <2>5, RequestHumanFits
<1>21. CASE Paused(p)
  <2>1. pc[p] = "pausing" /\ Commit(p, c, "exit", "failing")
    BY <1>21, <1>c DEF Paused
  <2>2. Fit(grants, "exit", c) /\ StoreFit(grants, c)
    BY <1>c, <1>l, <2>1
       DEF Fit, StoreFit, Shaped, Proven, Cleared, Out, Evaluated, CompletionAction, Unplanned
  <2> QED BY <1>c, <1>l, <2>1, <2>2, CommitFits
<1>22. CASE Approved(p)
  <2>1. pc[p] = "approved" /\ Transition(p, c, "executing", "execute", "failing")
    BY <1>22, <1>c DEF Approved
  <2>2. Calm => (CurrentStep(c).requires_approval => Operation(c, CurrentStep(c)) \in grants)
    BY <1>c, <2>1 DEF Fit, Cleared
  <2> QED BY <1>l, <1>m, <1>x, <2>1, <2>2
<1>23. CASE BeginExecute(p)
  <2> DEFINE op == Operation(c, CurrentStep(c))
             d == [c EXCEPT !.active_operation_id = op]
  <2>1. pc[p] = "execute"
    BY <1>23 DEF BeginExecute
  <2>2. Goto(p, d, "dispatch") \/ Goto(p, c, "broken")
    BY <1>23, <1>c DEF BeginExecute
  <2>3. op \in OperationId
    <3>1. CurrentStep(c).step_id \in StepIds /\ c.cycle_count \in Nat
      BY <1>c, <1>s, <2>1, CurrentStepType, Fields DEF InStep
    <3> QED BY <3>1 DEF Operation, OperationId
  <2> HIDE DEF op
  <2>4. d \in LoopContext
    BY <1>c, <2>3, OperationUpdate
  <2>5. Fit(grants, "dispatch", d)
    BY <1>c, <2>1, OperationFit
  <2> HIDE DEF d
  <2>6. CASE Goto(p, d, "dispatch")
    BY <1>l, <2>4, <2>5, <2>6, GotoFits
  <2>7. Fit(grants, "broken", c) /\ "broken" \in Out
    BY <1>l, <1>m, <1>o, <2>1
  <2> QED BY <1>g, <2>2, <2>6, <2>7
<1>24. CASE AttemptLimit(p)
  BY <1>24, <1>b, <1>c, <1>l, <1>t DEF AttemptLimit
<1>25. CASE Dispatch(p)
  BY <1>25, DispatchFits
<1>26. CASE ExecutorReturns(p)
  <2> DEFINE d == [c EXCEPT !.pending_execution = c.total_attempts]
  <2>1. pc[p] = "executor" /\ Commit(p, d, "verify", "retry")
    BY <1>26, <1>c DEF ExecutorReturns, Returns
  <2>2. d \in LoopContext /\ d.revision = c.revision
    <3>1. d \in LoopContext
      BY <1>c, ResultUpdate
    <3> QED BY <1>c, <3>1 DEF LoopContext
  <2>3. Mid(grants, d) /\ (~Calm => Fit(grants, "retry", d))
    BY <1>c, <2>1, ResultFit
  <2> HIDE DEF d
  <2>4. Fit(grants, "verify", d) /\ StoreFit(grants, d)
    BY <1>z, <2>2, <2>3
  <2>5. "verify" \in Label \ {"submit_save", "broken", "retry"} /\ pc[p] \notin {"dispatch", "redispatch"}
        /\ d.revision = ctx[p].revision
    BY <1>c, <1>l, <2>1, <2>2
  <2> QED BY <2>1, <2>2, <2>3, <2>4, <2>5, RetryFits
<1>h. pc[p] \in {"retry", "backoff", "redispatch"} => ~Calm
  BY <1>c DEF Fit, Cleared
<1>j. ASSUME ~Calm, pc[p] \in {"executor", "retry", "backoff"}
      PROVE  \A l \in {"retry", "backoff", "redispatch"} : Fit(grants, l, c)
  BY <1>j, <1>l, <1>m DEF Mid, Fit, Shaped, Proven, Out, Evaluated, CompletionAction, Unplanned
<1>27. CASE ExecutorRaises(p)
  <2>1. pc[p] = "executor" /\ Goto(p, c, "retry") /\ ~Calm
    BY <1>27, <1>c DEF ExecutorRaises, Returns, Calm
  <2>2. Fit(grants, "retry", c)
    BY <1>j, <2>1
  <2> QED BY <1>c, <1>l, <2>1, <2>2, GotoFits
<1>f. ASSUME NEW e \in LoopContext, e.revision = c.revision, Mid(grants, e)
      PROVE  LET d == [e EXCEPT !.active_operation_id = NoOperation, !.pending_attempt = 0] IN
             /\ d \in LoopContext /\ d.revision = c.revision /\ Mid(grants, d)
             /\ d.current_plan = e.current_plan /\ d.approved_step_ids = e.approved_step_ids
  <2> DEFINE d == [e EXCEPT !.active_operation_id = NoOperation, !.pending_attempt = 0]
  <2>1. d \in LoopContext /\ d.revision = c.revision
    BY <1>f, ForgetWork DEF Rearranged
  <2>2. Mid(grants, d)
    BY <1>f, ForgetFit
  <2>3. d.current_plan = e.current_plan /\ d.approved_step_ids = e.approved_step_ids
    BY <1>f DEF LoopContext
  <2> QED BY <2>1, <2>2, <2>3
<1>28. CASE ExecutorOverBudget(p)
  <2> DEFINE d == [c EXCEPT !.active_operation_id = NoOperation, !.pending_attempt = 0]
  <2>1. pc[p] = "executor" /\ Block(p, d, "budget_exhausted")
    BY <1>28, <1>c DEF ExecutorOverBudget, Returns
  <2>2. d \in LoopContext /\ d.revision = c.revision /\ Mid(grants, d)
    BY <1>c, <1>f, <1>l, <1>m, <2>1
  <2> HIDE DEF d
  <2> QED BY <1>c, <1>t, <2>1, <2>2, BlockFits
<1>29. CASE RetryFails(p)
  <2>1. pc[p] = "retry" /\ Goto(p, c, "failing")
    BY <1>29, <1>c DEF RetryFails
  <2> QED BY <1>g, <1>l, <1>m, <1>o, <2>1
<1>d. ASSUME NEW d \in LoopContext, d.revision = c.revision, Mid(grants, d),
             d.current_plan = <<>>, Calm => d.approved_step_ids = {},
             Transition(p, d, "planning", "cycle", "failing")
      PROVE  HumanInv'
  <2>1. /\ "planning" \in LoopStatus /\ "planning" # "completed" /\ "cycle" \in Unplanned
        /\ Calm /\ "planning" \in {"created", "planning"} => d.approved_step_ids = {}
    BY <1>d, <1>l, <1>t
  <2>2. \A f \in LoopContext : SameWork(d, f) /\ f.status = "planning" /\ Mid(grants, f)
          => Fit(grants, "cycle", f)
    BY <1>d, <2>1, MoveUnplanned
  <2>3. d.revision = ctx[p].revision
    BY <1>c, <1>d
  <2> QED BY <1>d, <1>l, <2>1, <2>2, <2>3, TransitionFits
<1>30. CASE RetryReplans(p)
  <2> DEFINE e == DropPlan(c)
             d == [e EXCEPT !.active_operation_id = NoOperation, !.pending_attempt = 0]
  <2>1. pc[p] = "retry" /\ Transition(p, d, "planning", "cycle", "failing")
    BY <1>30, <1>c DEF RetryReplans
  <2>2. c.pending_interaction = NoInteraction /\ (NoRecovery => c.status # "completed") /\ ~Calm
    BY <1>h, <1>l, <1>m, <2>1 DEF Mid
  <2>3. e \in LoopContext /\ e.revision = c.revision /\ Mid(grants, e) /\ e.current_plan = <<>>
    BY <1>e, <2>2
  <2> HIDE DEF e
  <2>4. /\ d \in LoopContext /\ d.revision = c.revision /\ Mid(grants, d)
        /\ d.current_plan = e.current_plan /\ d.approved_step_ids = e.approved_step_ids
    BY <1>f, <2>3
  <2> HIDE DEF d
  <2> QED BY <1>d, <2>1, <2>2, <2>3, <2>4
<1>31. CASE RetryRetries(p)
  <2>1. PICK l \in {"backoff", "redispatch"} : Commit(p, c, l, "failing")
    BY <1>31, <1>c DEF RetryRetries
  <2>2. pc[p] = "retry"
    BY <1>31 DEF RetryRetries
  <2>3. Fit(grants, l, c) /\ StoreFit(grants, c)
    BY <1>h, <1>j, <1>l, <1>m, <1>o, <2>2
  <2> QED BY <1>c, <1>l, <2>1, <2>3, CommitFits
<1>32. CASE BackoffEnds(p)
  <2>1. pc[p] = "backoff" /\ Goto(p, c, "redispatch")
    BY <1>32, <1>c DEF BackoffEnds, Returns
  <2>2. Fit(grants, "redispatch", c)
    BY <1>h, <1>j, <2>1
  <2> QED BY <1>c, <1>l, <2>1, <2>2, GotoFits
<1>33. CASE StartVerification(p)
  BY <1>33, <1>c, <1>l, <1>v DEF StartVerification
<1>34. CASE \E passed \in BOOLEAN : VerifierReturns(p, passed)
  <2>1. PICK passed \in BOOLEAN : VerifierReturns(p, passed)
    BY <1>34
  <2> DEFINE d == VerifiedContext(c, passed)
             l == IF passed THEN "step" ELSE "rejected"
  <2>2. pc[p] = "verifier" /\ Commit(p, d, l, "failing")
    BY <2>1, <1>c DEF VerifierReturns, Returns
  <2>3. StepsLeft(c)
    BY <1>s, <2>2 DEF InStep
  <2>4. d \in LoopContext
    BY <1>c, <2>3, GoodSelf, VerifiedUpdate DEF Good
  <2>5. d.revision = ctx[p].revision
    BY <1>c DEF VerifiedContext, LoopContext
  <2>6. Fit(grants, l, d) /\ StoreFit(grants, d)
    BY <1>c, <2>2, <2>3, VerifiedFit
  <2>7. l \in Label \ {"submit_save", "broken", "executor"}
    BY DEF Label, Driving
  <2> HIDE DEF d, l
  <2> QED BY <1>l, <2>2, <2>4, <2>5, <2>6, <2>7, CommitFits
<1>35. CASE ReplanRejected(p)
  <2>1. pc[p] = "rejected" /\ Transition(p, DropPlan(c), "planning", "cycle", "failing")
    BY <1>35, <1>c DEF ReplanRejected
  <2>2. /\ c.pending_interaction = NoInteraction /\ (NoRecovery => c.status # "completed")
        /\ Calm => c.approved_step_ids = {}
    BY <1>c, <2>1 DEF Fit, Shaped, Proven, Cleared, Out
  <2> QED BY <1>d, <1>e, <2>1, <2>2
<1>36. CASE FinishApproved(p)
  <2> DEFINE d == [c EXCEPT !.completion_approved = FALSE]
  <2>1. pc[p] = "step" /\ ~StepsLeft(c) /\ Complete(p, d)
    BY <1>36, <1>c DEF FinishApproved, PlanDone
  <2>2. Mid(grants, c)
    BY <1>l, <1>m, <2>1
  <2>3. d \in LoopContext /\ d.revision = ctx[p].revision
    <3>1. d \in LoopContext
      BY <1>c, CompletionUpdate
    <3> QED BY <1>c, <3>1 DEF LoopContext
  <2>4. Mid(grants, d) /\ ~StepsLeft(d) /\ d.current_plan = c.current_plan
    BY <1>c, <2>1, <2>2, CompletionFit
  <2> HIDE DEF d
  <2> QED BY <1>n, <2>1, <2>3, <2>4, CompleteFits
<1>37. CASE FinishUnevaluated(p)
  <2>1. pc[p] = "step" /\ ~StepsLeft(c) /\ Complete(p, c)
    BY <1>37, <1>c DEF FinishUnevaluated, PlanDone
  <2> QED BY <1>c, <1>l, <1>m, <1>n, <2>1, CompleteFits
<1>k. pc[p] \in Evaluated => Mid(grants, c) /\ ~StepsLeft(c)
  BY <1>c, <1>l, <1>m DEF Fit, Shaped
<1>38. CASE StartEvaluation(p)
  <2>1. pc[p] = "step" /\ ~StepsLeft(c) /\ Commit(p, c, "evaluator", "failing")
    BY <1>38, <1>c DEF StartEvaluation, PlanDone
  <2>2. Fit(grants, "evaluator", c) /\ StoreFit(grants, c)
    BY <1>l, <1>m, <1>n, <1>o, <2>1, PlannedFit
  <2> QED BY <1>c, <1>l, <2>1, <2>2, CommitFits
<1>39. CASE \E decision \in CompletionAction : EvaluatorDecides(p, decision)
  <2>1. PICK decision \in CompletionAction : Commit(p, c, decision, "failing")
    BY <1>39, <1>c DEF EvaluatorDecides
  <2>2. pc[p] = "evaluator"
    BY <1>39 DEF EvaluatorDecides, Returns
  <2>3. decision \in Evaluated /\ decision \in Label \ {"submit_save", "broken", "executor"}
    BY <1>l DEF CompletionAction
  <2>4. pc[p] \in Evaluated
    BY <1>l, <2>2
  <2>5. Fit(grants, decision, c) /\ StoreFit(grants, c)
    BY <1>k, <1>n, <1>o, <2>3, <2>4, PlannedFit
  <2> QED BY <1>c, <1>l, <2>1, <2>3, <2>5, CommitFits
<1>40. CASE EvaluationAccepted(p)
  <2>1. pc[p] \in Evaluated /\ Complete(p, c)
    BY <1>40, <1>c, <1>l DEF EvaluationAccepted
  <2> QED BY <1>c, <1>k, <1>n, <2>1, CompleteFits
<1>41. CASE EvaluationStops(p)
  BY <1>41, <1>b, <1>c, <1>l, <1>t DEF EvaluationStops
<1>42. CASE EvaluationAsksHuman(p)
  <2>1. PICK kind \in {"input", "completion_review"} :
          RequestHuman(p, kind, "none", "human_input_required")
    BY <1>42 DEF EvaluationAsksHuman
  <2>2. pc[p] = "request_human"
    BY <1>42 DEF EvaluationAsksHuman
  <2>3. [interaction_id |-> ctx[p].revision, kind |-> kind, step |-> "none"] \in Interaction
    BY <1>c, Fields DEF Interaction
  <2>4. Mid(grants, ctx[p]) /\ kind # "approval"
    BY <1>c, <1>l, <1>m, <2>2
  <2> QED BY <1>t, <2>1, <2>3, <2>4, RequestHumanFits
<1>43. CASE EvaluationReplans(p)
  <2>1. pc[p] = "replan" /\ Commit(p, DropPlan(c), "replanned", "failing")
    BY <1>43, <1>c DEF EvaluationReplans
  <2>2. Mid(grants, c) /\ ~StepsLeft(c)
    BY <1>k, <1>l, <2>1
  <2>3. /\ c.pending_interaction = NoInteraction /\ (NoRecovery => c.status # "completed")
        /\ Calm => c.approved_step_ids = {}
    BY <2>2 DEF Mid, Scoped, AtStep
  <2>4. /\ DropPlan(c) \in LoopContext /\ DropPlan(c).revision = ctx[p].revision
        /\ Mid(grants, DropPlan(c)) /\ Fit(grants, "replanned", DropPlan(c))
    BY <1>c, <1>e, <1>l, <2>3
  <2>5. StoreFit(grants, DropPlan(c))
    BY <1>z, <2>4
  <2> QED BY <1>l, <2>1, <2>4, <2>5, CommitFits
<1>44. CASE StartReplanning(p)
  <2>1. pc[p] = "replanned" /\ Transition(p, c, "planning", "cycle", "failing")
    BY <1>44, <1>c DEF StartReplanning
  <2> QED BY <1>l, <1>p, <2>1
<1>w. /\ SupervisionRaises(p) = (IF pc[p] = "executor" THEN "retry" ELSE "failing")
      /\ Awaiting = {"planner", "gate", "executor", "backoff", "verifier", "evaluator"}
      /\ Awaiting \subseteq Midway
  BY <1>l DEF SupervisionRaises, Awaiting
<1>45. CASE Heartbeat(p)
  <2>1. Commit(p, c, pc[p], SupervisionRaises(p)) /\ pc[p] \in Awaiting
    BY <1>45, <1>c DEF Heartbeat
  <2>2. Fit(grants, pc[p], c) /\ StoreFit(grants, c)
    BY <1>c, <1>m, <1>o, <1>w, <2>1
  <2>3. CASE pc[p] = "executor"
    <3>1. /\ Commit(p, c, "executor", "retry") /\ pc[p] \notin {"dispatch", "redispatch"}
          /\ "executor" \in Label \ {"submit_save", "broken", "retry"}
          /\ Fit(grants, "executor", c)
      BY <1>c, <1>w, <2>1, <2>2, <2>3
    <3>2. ~Calm => Fit(grants, "retry", c)
      BY <1>j, <2>3
    <3> QED BY <1>c, <2>2, <3>1, <3>2, RetryFits
  <2>4. CASE pc[p] # "executor"
    <3>1. /\ Commit(p, c, pc[p], "failing")
          /\ pc[p] \in Label \ {"submit_save", "broken", "executor"}
      BY <1>c, <1>w, <2>1, <2>4
    <3> QED BY <1>c, <1>l, <2>2, <3>1, CommitFits
  <2> QED BY <2>3, <2>4
<1>y. ASSUME NEW target \in {"cancelled", "timed_out"}, pc[p] \in Awaiting,
             Stop(p, c, target, target, "exit", SupervisionRaises(p))
      PROVE  HumanInv'
  <2>1. Mid(grants, c) /\ SupervisionRaises(p) \in Surfaces \cup {"retry"} /\ target \in StopReason
        /\ "exit" \in {"exit", "idle"} /\ target \in {"blocked", "cancelled", "timed_out"}
    BY <1>l, <1>m, <1>t, <1>w, <1>y
  <2>2. ASSUME SupervisionRaises(p) = "retry", Calm PROVE target \in AllowedTransitions[c.status]
    <3>1. pc[p] = "executor"
      BY <1>w, <2>2
    <3>2. c.status = "executing"
      BY <1>c, <2>2, <3>1 DEF Fit, Cleared
    <3> QED BY <3>2 DEF AllowedTransitions, AbortTargets
  <2> QED BY <1>c, <1>y, <2>1, <2>2, StopFits
<1>46. CASE SupervisedCancel(p)
  BY <1>46, <1>c, <1>y DEF SupervisedCancel
<1>47. CASE SupervisedTimeout(p)
  BY <1>47, <1>c, <1>y DEF SupervisedTimeout
<1>48. CASE ComponentRaises(p)
  <2>1. pc[p] \in Awaiting /\ Goto(p, c, "failing")
    BY <1>48, <1>c DEF ComponentRaises
  <2>2. "failing" \in Out /\ Fit(grants, "failing", c)
    BY <1>l, <1>m, <1>o, <1>w, <2>1
  <2> QED BY <1>g, <2>1, <2>2
<1>49. CASE ComponentOverBudget(p)
  <2>1. pc[p] \in Awaiting /\ Stop(p, c, "blocked", "budget_exhausted", "exit", "exit")
    BY <1>49, <1>c DEF ComponentOverBudget
  <2>2. Mid(grants, c) /\ "exit" \in Surfaces \cup {"retry"} /\ "exit" # "retry"
        /\ "exit" \in {"exit", "idle"} /\ "budget_exhausted" \in StopReason
    BY <1>l, <1>m, <1>t, <1>w, <2>1
  <2> QED BY <1>c, <2>1, <2>2, StopFits
<1>50. CASE Fail(p)
  <2> DEFINE d == [c EXCEPT !.active = FALSE, !.stop_reason = "component_error"]
  <2>1. pc[p] \in {"failing", "broken"}
    BY <1>50 DEF Fail
  <2>2. \/ Goto(p, c, "exit")
        \/ c.status \notin Terminal /\ Transition(p, d, "failed", "exit", "exit")
    BY <1>50, <1>c DEF Fail
  <2>3. d \in LoopContext /\ SameWork(c, d) /\ d.revision = ctx[p].revision /\ d.status = c.status
    BY <1>c, <1>t, ReasonWork
  <2> HIDE DEF d
  <2>4. CASE Goto(p, c, "exit")
    BY <1>c, <1>l, <2>4, GotoFits
  <2>5. CASE c.status \notin Terminal /\ Transition(p, d, "failed", "exit", "exit")
    <3>1. Moved(p, d, "failed", "exit", "exit")
      BY <1>l, <1>t, <2>3, <2>5, TransitionMoved
    <3>2. \A l : Fit(grants, l, c) => Fit(grants, l, d)
      BY <2>3, CopyFit, WorkView
    <3>3. Fit(grants, pc[p], d) /\ pc[p] \in Out /\ d.status \notin Terminal
      BY <1>c, <1>l, <2>1, <2>3, <2>5, <3>2
    <3> QED BY <2>3, <3>1, <3>3, EndFits
  <2> QED BY <2>2, <2>4, <2>5
<1>51. CASE TaskCancelled(p)
  <2>1. pc[p] \in Awaiting /\ Goto(p, c, "cancelling")
    BY <1>51, <1>c DEF TaskCancelled
  <2>2. "cancelling" \in Out /\ Fit(grants, "cancelling", c)
    BY <1>l, <1>m, <1>o, <1>w, <2>1
  <2> QED BY <1>g, <2>1, <2>2
<1>52. CASE StopCancelledTask(p)
  <2>1. pc[p] = "cancelling"
    BY <1>52 DEF StopCancelledTask
  <2>2. \/ Goto(p, c, "exit")
        \/ c.status \notin Terminal /\ Stop(p, c, "cancelled", "cancelled", "exit", "exit")
    BY <1>52, <1>c DEF StopCancelledTask
  <2>3. CASE Goto(p, c, "exit")
    BY <1>c, <1>l, <2>3, GotoFits
  <2>4. CASE c.status \notin Terminal /\ Stop(p, c, "cancelled", "cancelled", "exit", "exit")
    <3>1. Moved(p, c, "cancelled", "exit", "exit")
      BY <1>c, <1>l, <1>t, <2>4, StopMoved
    <3> QED BY <1>c, <1>l, <2>1, <2>4, <3>1, EndFits
  <2> QED BY <2>2, <2>3, <2>4
<1>53. CASE Exit(p)
  <2>1. Land(p, c, "idle") /\ History(p) /\ store' = store
    BY <1>53, <1>c DEF Exit
  <2>2. PICK S : grants' = S
    OBVIOUS
  <2>3. grants \subseteq S /\ store \in LoopContext
    BY <2>1, <2>2, GrantsGrow DEF IndInv, TypeOK
  <2>4. StoreFit(S, store)
    BY <2>3, MoreFit DEF HumanInv
  <2>5. "idle" \in Label /\ "idle" # "submit_save" /\ "idle" # "executor"
    BY <1>l
  <2> QED BY <1>c, <2>1, <2>2, <2>3, <2>4, <2>5, LandFits
<1> QED
  BY <1>1, <1>2, <1>3, <1>4, <1>5, <1>6, <1>7, <1>8, <1>9, <1>10, <1>11, <1>12,
     <1>13, <1>14, <1>15, <1>16, <1>17, <1>18, <1>19, <1>20, <1>21, <1>22,
     <1>23, <1>24, <1>25, <1>26, <1>27, <1>28, <1>29, <1>30, <1>31, <1>32,
     <1>33, <1>34, <1>35, <1>36, <1>37, <1>38, <1>39, <1>40, <1>41, <1>42,
     <1>43, <1>44, <1>45, <1>46, <1>47, <1>48, <1>49, <1>50, <1>51, <1>52, <1>53
     DEF LoopStep

-----------------------------------------------------------------------------
(* The callers and the environment.                                         *)

\* A step that neither saves nor grants nor calls.
LEMMA QuietFits ==
  ASSUME HumanInv, store' = store, calls' = calls, grants' = grants,
         \A q \in Procs : \/ pc'[q] = "idle" /\ ctx'[q] = Blank
                          \/ pc'[q] = pc[q] /\ ctx'[q] = ctx[q]
                          \/ /\ pc'[q] # "idle" /\ Fit(grants, pc'[q], ctx'[q])
                             /\ Calm /\ pc'[q] = "submit_save" => Answering(grants, store, ctx'[q])
  PROVE  HumanInv'
<1>1. PICK S, s : S = grants /\ s = store
  OBVIOUS
<1>2. grants' = S /\ store' = s /\ StoreFit(S, s)
  BY <1>1 DEF HumanInv
<1>3. ASSUME NEW q \in Procs
      PROVE  /\ Fit(S, pc'[q], ctx'[q])
             /\ Calm /\ pc'[q] = "submit_save" => Answering(S, s, ctx'[q])
  BY <1>1, BlankFit DEF HumanInv
<1>4. Calm => ApprovalScoped'
  BY DEF HumanInv, ApprovalScoped
<1>5. StoreFit(grants, store)'
  BY <1>2 DEF StoreFit, AllPassed, PassedSoFar, Passed, Scoped, Granted, AtStep, StepsLeft, CurrentStep
<1>6. ASSUME NEW q \in Procs PROVE Fit(grants, pc[q], ctx[q])'
  BY <1>2, <1>3
     DEF Fit, Shaped, Proven, Cleared, AllPassed, PassedSoFar, Passed, Scoped,
         Granted, AtStep, StepsLeft, CurrentStep, Operation
<1>7. ASSUME NEW q \in Procs
      PROVE  Calm /\ pc'[q] = "submit_save" => Answering(grants, store, ctx[q])'
  BY <1>2, <1>3 DEF Answering
<1> QED BY <1>4, <1>5, <1>6, <1>7 DEF HumanInv

LEMMA CallFits ==
  ASSUME IndInv, HumanInv, NEW p \in Procs, NEW c \in LoopContext, NEW l \in Entry,
         Fit(grants, l, c), Calm /\ l = "submit_save" => Answering(grants, store, c), Call(p, c, l)
  PROVE  HumanInv'
<1>1. pc[p] = "idle" /\ Land(p, c, l) /\ History(p) /\ store' = store
  BY DEF Call
<1>2. l \notin {"idle", "exit"}
  BY DEF Entry
<1>3. /\ pc'[p] = l /\ ctx'[p] = c
      /\ \A q \in Procs : q # p => pc'[q] = pc[q] /\ ctx'[q] = ctx[q]
  BY <1>1, <1>2 DEF Land, IndInv, TypeOK
<1>4. ~Dispatches(p) /\ ~GateApproved(p) /\ ~HumanApproved(p)
  BY <1>1 DEF Dispatches, GateApproved, HumanApproved
<1>5. calls' = calls /\ grants' = grants
  BY <1>1, <1>4 DEF History
<1> QED BY <1>1, <1>2, <1>3, <1>5, QuietFits

\* The first context of a run has nothing to show.
LEMMA RunFits ==
  ASSUME NEW S, NEW request \in Requests
  PROVE  Fit(S, "run_start", [NewContext(request) EXCEPT !.active = TRUE])
<1> DEFINE e == NewContext(request)
           d == [e EXCEPT !.active = TRUE]
<1>1. e \in LoopContext
  BY DEF NewContext, LoopContext, LoopStatus, StopReason, NoInteraction, Interaction,
         NoOperation
<1>2. /\ e.status = "created" /\ e.current_plan = <<>> /\ e.approved_step_ids = {}
      /\ e.pending_interaction = NoInteraction
  BY DEF NewContext
<1> HIDE DEF e
<1>3. /\ d.status = "created" /\ d.current_plan = <<>> /\ d.approved_step_ids = {}
      /\ d.pending_interaction = NoInteraction
  BY <1>1, <1>2 DEF LoopContext
<1> HIDE DEF d
<1>4. Mid(S, d) /\ "run_start" \in Unplanned
  BY <1>3 DEF Mid, PassedSoFar, Scoped, Granted, NoInteraction, Unplanned
<1>5. Fit(S, "run_start", d)
  BY <1>3, <1>4, UnplannedFit
<1> QED BY <1>5 DEF d, e

\* What resume() goes on with: nothing, or a plan it can continue.
LEMMA ResumedFit ==
  ASSUME NEW S, NEW c \in LoopContext, Mid(S, c), c.status \in Stable, NEW mode
  PROVE  LET d == ResumedContext(c, mode) IN
         IF mode = "replan" THEN Fit(S, "resume_replan", d)
                            ELSE c.current_plan # <<>> => Fit(S, "resume_continue", d)
<1> DEFINE s == [c EXCEPT !.stop_reason = "none", !.active = TRUE]
           e == DropPlan(s)
           d == [e EXCEPT !.approved_step_ids = {}, !.completion_approved = FALSE,
                          !.replan_required = FALSE]
<1>1. ResumedContext(c, mode) = IF mode = "replan" THEN d ELSE s
  BY DEF ResumedContext
<1>2. s \in LoopContext
  <2>1. "none" \in StopReason
    BY DEF StopReason
  <2> QED BY <2>1, Zenon DEF LoopContext
<1>3. SameView(c, s) /\ s.status = c.status
  BY DEF LoopContext, SameView
<1> HIDE DEF s
<1>4. Mid(S, s)
  BY <1>3, SameFit DEF Mid, Scoped, SameView
<1>5. c.current_plan # <<>> => Fit(S, "resume_continue", s)
  <2>1. s.current_plan = c.current_plan
    BY <1>3 DEF SameView
  <2> QED BY <1>4, <2>1 DEF Mid, Fit, Shaped, Proven, Cleared, Out, Evaluated, CompletionAction, Unplanned
<1>6. /\ e \in LoopContext /\ e.status = s.status /\ e.current_plan = <<>>
      /\ e.pending_interaction = s.pending_interaction
  <2>1. e \in LoopContext
    BY <1>2, DropPlanUpdate
  <2> QED BY <1>2, <2>1 DEF DropPlan, LoopContext
<1> HIDE DEF e
<1>7. /\ d.status = e.status /\ d.current_plan = <<>> /\ d.approved_step_ids = {}
      /\ d.pending_interaction = e.pending_interaction
  BY <1>6 DEF LoopContext
<1> HIDE DEF d
<1>8. Mid(S, d) /\ "resume_replan" \in Unplanned
  <2>1. d.status = c.status /\ d.status \notin {"completed", "created", "planning"}
    BY <1>3, <1>6, <1>7 DEF Stable
  <2>2. d.pending_interaction = NoInteraction
    BY <1>4, <1>6, <1>7 DEF Mid
  <2> QED BY <1>7, <2>1, <2>2 DEF Mid, PassedSoFar, Scoped, Granted, NoInteraction, Unplanned
<1>9. Fit(S, "resume_replan", d)
  BY <1>7, <1>8, UnplannedFit
<1> QED BY <1>1, <1>5, <1>9

\* An answer to an approval question adds the step that was asked about.
LEMMA AnsweredView ==
  ASSUME NEW c \in LoopContext, NEW r \in HumanResponse
  PROVE  LET d == AnsweredContext(c, r) IN
         /\ d.records = c.records
         /\ d.human_interactions = Append(c.human_interactions, r)
         /\ d.approved_step_ids = IF r.action = "approve" /\ c.pending_interaction.kind = "approval"
                                    THEN c.approved_step_ids \cup {c.pending_interaction.step}
                                    ELSE c.approved_step_ids
<1> DEFINE a == [c EXCEPT !.human_interactions = Append(@, r),
                          !.pending_interaction = NoInteraction]
           pending == c.pending_interaction
           steps == IF pending.kind = "approval" THEN a.approved_step_ids \cup {pending.step}
                                                 ELSE a.approved_step_ids
           done == a.completion_approved \/ pending.kind = "completion_review"
                     \/ (c.current_plan # <<>> /\ ~StepsLeft(c))
           approved == [a EXCEPT !.approved_step_ids = steps, !.completion_approved = done]
           rejected == [a EXCEPT !.active = FALSE, !.stop_reason = "human_rejected",
                                 !.status = "blocked"]
           revised  == [a EXCEPT !.replan_required = TRUE]
           d == AnsweredContext(c, r)
<1>1. d = CASE r.action = "approve" -> approved
            [] r.action = "reject" -> rejected
            [] OTHER -> revised
  BY Zenon DEF AnsweredContext
<1>2. a \in LoopContext
  <2>1. /\ Append(c.human_interactions, r) \in Seq(HumanResponse)
        /\ NoInteraction \in Interaction
    BY Fields DEF NoInteraction, Interaction
  <2> QED BY <2>1, Zenon DEF LoopContext
<1>3. /\ a.records = c.records /\ a.human_interactions = Append(c.human_interactions, r)
      /\ a.approved_step_ids = c.approved_step_ids
  BY DEF LoopContext
<1>4. steps = IF pending.kind = "approval" THEN c.approved_step_ids \cup {pending.step}
                                           ELSE c.approved_step_ids
  BY <1>3
<1> HIDE DEF a, steps, done
<1> DEFINE Like(e) == e.records = c.records /\ e.human_interactions = Append(c.human_interactions, r)
<1>5. Like(approved) /\ approved.approved_step_ids = steps
  BY <1>2, <1>3 DEF LoopContext
<1>6. Like(rejected) /\ rejected.approved_step_ids = c.approved_step_ids
  BY <1>2, <1>3 DEF LoopContext
<1>7. Like(revised) /\ revised.approved_step_ids = c.approved_step_ids
  BY <1>2, <1>3 DEF LoopContext
<1> HIDE DEF approved, rejected, revised, d
<1>8. /\ Like(d)
      /\ d.approved_step_ids = IF r.action = "approve" THEN steps ELSE c.approved_step_ids
  BY <1>1, <1>5, <1>6, <1>7
<1> QED BY <1>4, <1>8 DEF d

\* An answer to what the checkpoint asks goes on with what the checkpoint proves.
LEMMA AnsweredFit ==
  ASSUME NEW S, NEW c \in LoopContext, StoreFit(S, c), NEW r \in HumanResponse, Acceptable(c, r)
  PROVE  LET d == AnsweredContext(c, r) IN Fit(S, "submit_save", d) /\ (Calm => Answering(S, c, d))
<1> DEFINE d == AnsweredContext(c, r)
           asked == c.pending_interaction
<1>1. /\ d.current_plan = c.current_plan /\ d.current_step_index = c.current_step_index
      /\ d.cycle_count = c.cycle_count /\ d.pending_interaction = NoInteraction
      /\ d.status = c.status \/ d.status = "blocked"
  BY AnsweredPlace
<1>2. /\ d.records = c.records
      /\ d.human_interactions = Append(c.human_interactions, r)
      /\ d.approved_step_ids = IF r.action = "approve" /\ asked.kind = "approval"
                                 THEN c.approved_step_ids \cup {asked.step}
                                 ELSE c.approved_step_ids
  BY AnsweredView
<1> HIDE DEF d
<1>3. asked # NoInteraction /\ c.status \in AtRest
  BY DEF Acceptable, StoreFit
<1>4. /\ PassedSoFar(d) = PassedSoFar(c) /\ AllPassed(d) = AllPassed(c)
      /\ \A s : AtStep(d, s) = AtStep(c, s)
  BY <1>1, <1>2 DEF PassedSoFar, AllPassed, Passed, AtStep, StepsLeft, CurrentStep
<1>5. NoRecovery => PassedSoFar(d) /\ (d.status = "completed" => AllPassed(d))
  BY <1>1, <1>3, <1>4 DEF StoreFit
<1>6. Calm => Scoped(d)
  <2> SUFFICES ASSUME Calm PROVE Scoped(d)
    OBVIOUS
  <2>1. \A s \in d.approved_step_ids : AtStep(d, s)
    BY <1>2, <1>4 DEF StoreFit, Scoped
  <2>2. d.status \notin {"created", "planning"}
    BY <1>1, <1>3 DEF AtRest, Terminal
  <2> QED BY <1>1, <2>1, <2>2 DEF Scoped, NoInteraction
<1>7. Fit(S, "submit_save", d)
  BY <1>1, <1>5, <1>6 DEF Fit, Shaped, Proven, Cleared, Out, Evaluated, CompletionAction, Unplanned
<1>8. Last(d.human_interactions) = r
  <2>1. c.human_interactions \in Seq(HumanResponse)
    BY Fields
  <2> QED BY <1>2, <2>1 DEF Last
<1>9. Calm => Answering(S, c, d)
  <2> SUFFICES ASSUME Calm, NEW s \in d.approved_step_ids
               PROVE  \/ <<d.cycle_count, s>> \in S
                      \/ /\ asked.kind = "approval" /\ s = asked.step
                         /\ Last(d.human_interactions).action = "approve"
    BY <1>1 DEF Answering
  <2>1. CASE s \in c.approved_step_ids
    BY <1>1, <2>1 DEF StoreFit, Granted
  <2>2. CASE s \notin c.approved_step_ids
    BY <1>2, <1>8, <2>2
  <2> QED BY <2>1, <2>2
<1> QED BY <1>7, <1>9 DEF d

LEMMA CallerStepFits ==
  ASSUME IndInv, HumanInv, NEW p \in Procs, CallerStep(p)
  PROVE  HumanInv'
<1>1. PICK c \in LoopContext : c = store /\ StoreFit(grants, c)
  BY DEF IndInv, TypeOK, HumanInv
<1>2. {"run_start", "resume_replan", "resume_continue", "recover_save", "recover_stop", "submit_save"}
        \subseteq Entry
  BY DEF Entry
<1>3. ASSUME NEW request \in Requests, Run(p, request) PROVE HumanInv'
  <2> DEFINE d == [NewContext(request) EXCEPT !.active = TRUE]
  <2>1. Call(p, d, "run_start")
    BY <1>3 DEF Run
  <2>2. d \in LoopContext /\ Fit(grants, "run_start", d)
    BY RunWork, RunFits
  <2> HIDE DEF d
  <2> QED BY <1>2, <2>1, <2>2, CallFits
<1>4. ASSUME NEW mode \in {"continue", "replan"}, Resume(p, mode) PROVE HumanInv'
  <2> DEFINE m == EffectiveMode(store, mode)
             d == ResumedContext(c, m)
             l == IF m = "replan" THEN "resume_replan" ELSE "resume_continue"
  <2>1. /\ Call(p, d, l) /\ Resumable(c, mode)
        /\ m = "continue" => c.current_plan # <<>>
    BY <1>1, <1>4 DEF Resume, Continuable
  <2>2. m \in {"continue", "replan"}
    BY <1>4 DEF EffectiveMode
  <2>3. Mid(grants, c) /\ c.status \in Stable
    BY <1>1, <2>1 DEF Resumable, StoreFit, Mid, Stable, Terminal
  <2> HIDE DEF m
  <2>4. d \in LoopContext
    BY ResumedUpdate
  <2>5. /\ m = "replan" => Fit(grants, "resume_replan", d)
        /\ m # "replan" /\ c.current_plan # <<>> => Fit(grants, "resume_continue", d)
    BY <2>3, ResumedFit
  <2> HIDE DEF d
  <2>6. CASE m = "replan"
    BY <1>2, <2>1, <2>4, <2>5, <2>6, CallFits
  <2>7. CASE m # "replan" /\ c.current_plan # <<>>
    BY <1>2, <2>1, <2>4, <2>5, <2>7, CallFits
  <2> QED BY <2>1, <2>2, <2>6, <2>7
<1>5. CASE Recover(p)
  <2> DEFINE d == [c EXCEPT !.active = TRUE]
             l == IF InDoubt(c) THEN "recover_stop" ELSE "recover_save"
  <2>1. Call(p, d, l) /\ c.status \notin Terminal \cup Stable /\ ~NoRecovery
    BY <1>1, <1>5 DEF Recover, NoRecovery
  <2>2. d \in LoopContext
    BY Zenon DEF LoopContext
  <2>3. SameView(c, d) /\ d.status = c.status
    BY DEF LoopContext, SameView
  <2> HIDE DEF d
  <2>4. /\ d.pending_interaction = NoInteraction
        /\ Calm => Scoped(d) /\ Granted(grants, d)
    <3>1. c.pending_interaction = NoInteraction
      BY <1>1, <2>1 DEF StoreFit, AtRest, Stable
    <3>2. StoreFit(grants, d)
      BY <1>1, <2>3, CopyFit
    <3> QED BY <2>3, <3>1, <3>2 DEF StoreFit, SameView
  <2>5. l = "recover_save" => d.status \in {"created", "planning", "executing", "verifying"}
    <3>1. c.status \in LoopStatus
      BY Fields
    <3> QED BY <2>1, <2>3, <3>1 DEF InDoubt, LoopStatus, Terminal, Stable
  <2>6. l \in {"recover_stop", "recover_save"}
    OBVIOUS
  <2> HIDE DEF l
  <2>7. Fit(grants, l, d)
    BY <2>1, <2>4, <2>5, <2>6
       DEF Fit, Shaped, Cleared, Out, Evaluated, CompletionAction, Unplanned
  <2>8. l \in Entry /\ l # "submit_save"
    BY <1>2, <2>6
  <2> QED BY <2>1, <2>2, <2>7, <2>8, CallFits
<1>6. ASSUME NEW r \in Responses, SubmitHumanResponse(p, r) PROVE HumanInv'
  <2> DEFINE d == AnsweredContext(c, r)
  <2>1. r \in HumanResponse
    BY <1>1, Fields DEF Responses, HumanResponse, Interaction
  <2>2. Call(p, d, "submit_save") /\ Acceptable(c, r)
    BY <1>1, <1>6 DEF SubmitHumanResponse
  <2>3. d \in LoopContext /\ Fit(grants, "submit_save", d) /\ (Calm => Answering(grants, c, d))
    BY <1>1, <2>1, <2>2, AnsweredUpdate, AnsweredFit
  <2> HIDE DEF d
  <2> QED BY <1>1, <1>2, <2>2, <2>3, CallFits
<1> QED BY <1>3, <1>4, <1>5, <1>6 DEF CallerStep

-----------------------------------------------------------------------------
(* The theorems.                                                            *)

LEMMA InitFits == Init => HumanInv
<1> SUFFICES ASSUME Init PROVE HumanInv
  OBVIOUS
<1>1. /\ store = Blank /\ calls = <<>> /\ grants = {}
      /\ \A p \in Procs : pc[p] = "idle" /\ ctx[p] = Blank
  BY DEF Init
<1>2. /\ store.current_plan = <<>> /\ store.status = "created" /\ store.approved_step_ids = {}
      /\ store.pending_interaction = NoInteraction
  BY <1>1 DEF Blank, NewContext
<1>3. StoreFit(grants, store)
  BY <1>2 DEF StoreFit, PassedSoFar, Scoped, Granted, NoInteraction
<1>4. \A p \in Procs : Fit(grants, pc[p], ctx[p])
  BY <1>1, BlankFit
<1>5. ApprovalScoped
  BY <1>1 DEF ApprovalScoped
<1> QED BY <1>1, <1>3, <1>4, <1>5 DEF HumanInv

LEMMA NextFits == IndInv /\ WorkInv /\ HumanInv /\ [Next]_vars => HumanInv'
<1> SUFFICES ASSUME IndInv, WorkInv, HumanInv, [Next]_vars PROVE HumanInv'
  OBVIOUS
<1>1. CASE UNCHANGED vars
  BY <1>1, QuietFits DEF vars
<1>2. ASSUME NEW p \in Procs, CallerStep(p) PROVE HumanInv'
  BY <1>2, CallerStepFits
<1>3. ASSUME NEW p \in Procs, LoopStep(p) PROVE HumanInv'
  BY <1>3, LoopStepFits
<1>4. ASSUME NEW i \in Instances, Cancel(i) PROVE HumanInv'
  BY <1>4, QuietFits DEF Cancel
<1>5. ASSUME NEW i \in Instances, Crash(i) PROVE HumanInv'
  BY <1>5, QuietFits DEF Crash
<1> QED BY <1>1, <1>2, <1>3, <1>4, <1>5 DEF Next, Quiet

LEMMA HumanInvariance == Spec => []HumanInv
<1>1. Init => HumanInv
  BY InitFits
<1>2. IndInv /\ WorkInv /\ HumanInv /\ [Next]_vars => HumanInv'
  BY NextFits
<1> QED BY <1>1, <1>2, Invariance, WorkInvariance, PTL DEF Spec

\* When no component, save or publication raises an ordinary exception, the
\* executor is called for a step that requires approval only with a grant for
\* that step in that cycle, whatever callers resume, replan and recover, and
\* each question is answered once: an approval does not outlive the plan it was
\* given for (_approve, approved_step_ids, submit_human_response).
THEOREM HumanGateKept ==
  ASSUME Calm
  PROVE  Spec => []HumanGate
<1>1. HumanInv => ApprovalScoped
  BY DEF HumanInv
<1> QED BY <1>1, HumanInvariance, AnswersKept, PTL DEF HumanGate

\* When nobody recovers the run, whatever else fails, a run that is saved as
\* completed has a plan and a passed verification, made in its last cycle, for
\* every step of it (_finish_plan_outcome, _execute_plan, resume).
THEOREM CompletedVerified ==
  ASSUME NoRecovery
  PROVE  Spec => []CompletedMeansVerified
<1>1. HumanInv => CompletedMeansVerified
  BY DEF HumanInv, StoreFit, AllPassed, Passed, CompletedMeansVerified
<1> QED BY <1>1, HumanInvariance, PTL
=============================================================================
