-------------------------- MODULE AgentLoopProofs --------------------------
(***************************************************************************)
(* Proofs about AgentLoop, for every number of calls, processes, steps and *)
(* plans and every environment.                                            *)
(*                                                                         *)
(* First part: types, bounds, what is durable and what steps depend on.    *)
(*                                                                         *)
(* Second part: the records trace executor calls and each interaction is   *)
(* answered once in every environment; an ended run stays ended, whatever  *)
(* fails, where no two calls share a cancellation mark.                    *)
(***************************************************************************)
EXTENDS AgentLoop, SequenceTheorems, TLAPS

\* The awaits inside the body of _execute_plan's loop: the cursor is on a step.
InStep == {"gate", "approved", "execute", "dispatch", "redispatch", "executor",
           "retry", "backoff", "verify", "verifier"}

CursorOK == \A p \in Procs : pc[p] \in InStep => StepsLeft(ctx[p])

\* d is what a call has made of c without saving: nothing committed is lost.
Continues(c, d) ==
  /\ d.revision = c.revision
  /\ c.revision > 0 => d.request = c.request
  /\ d.event_sequence >= c.event_sequence
  /\ d.cycle_count >= c.cycle_count
  /\ d.total_attempts >= c.total_attempts
  /\ IsPrefix(c.records, d.records)
  /\ IsPrefix(c.human_interactions, d.human_interactions)

\* No call is ahead of the store, and one that is level with it continues it.
FreshOK ==
  /\ store.revision = 0 => store = Blank
  /\ \A p \in Procs :
       /\ ctx[p].revision <= store.revision
       /\ pc[p] \notin {"idle", "exit"} /\ ctx[p].revision = store.revision
            => Continues(store, ctx[p])

BudgetOK == AttemptBudget /\ \A p \in Procs : ctx[p].total_attempts <= MaxAttempts

IndInv == TypeOK /\ CursorOK /\ FreshOK /\ BudgetOK

-----------------------------------------------------------------------------

(* Prefixes, element by element.                                           *)

LEMMA PrefixElements ==
  ASSUME NEW S, NEW s \in Seq(S), NEW t \in Seq(S)
  PROVE  IsPrefix(s, t) <=> Len(s) <= Len(t) /\ \A i \in 1 .. Len(s) : s[i] = t[i]
<1>1. SubSeq(s, 1, Len(s)) = s
  OBVIOUS
<1>2. ASSUME Len(s) <= Len(t)
      PROVE  /\ SubSeq(t, 1, Len(s)) \in Seq(S)
             /\ Len(SubSeq(t, 1, Len(s))) = Len(s)
             /\ \A i \in 1 .. Len(s) : SubSeq(t, 1, Len(s))[i] = t[i]
  BY <1>2
<1>3. ASSUME Len(s) <= Len(t), \A i \in 1 .. Len(s) : s[i] = t[i]
      PROVE  SubSeq(t, 1, Len(s)) = s
  BY <1>2, <1>3, SeqEqual
<1> QED
  BY <1>1, <1>2, <1>3 DEF IsPrefix

LEMMA PrefixTrans ==
  ASSUME NEW S, NEW s \in Seq(S), NEW t \in Seq(S), NEW u \in Seq(S),
         IsPrefix(s, t), IsPrefix(t, u)
  PROVE  IsPrefix(s, u)
<1>1. Len(s) <= Len(t) /\ \A i \in 1 .. Len(s) : s[i] = t[i]
  BY PrefixElements
<1>2. Len(t) <= Len(u) /\ \A i \in 1 .. Len(t) : t[i] = u[i]
  BY PrefixElements
<1>3. Len(s) <= Len(u) /\ \A i \in 1 .. Len(s) : s[i] = u[i]
  BY <1>1, <1>2
<1> QED
  BY <1>3, PrefixElements

LEMMA PrefixAppend ==
  ASSUME NEW S, NEW s \in Seq(S), NEW e \in S
  PROVE  IsPrefix(s, s) /\ IsPrefix(s, Append(s, e))
<1>1. Append(s, e) \in Seq(S) /\ Len(s) <= Len(Append(s, e))
       /\ \A i \in 1 .. Len(s) : s[i] = Append(s, e)[i]
  OBVIOUS
<1>2. IsPrefix(s, Append(s, e))
  BY <1>1, PrefixElements
<1>3. IsPrefix(s, s)
  BY PrefixElements
<1> QED
  BY <1>2, <1>3

(***************************************************************************)
(* Contexts.                                                               *)
(***************************************************************************)

LEMMA Fields ==
  ASSUME NEW c \in LoopContext
  PROVE  /\ c.revision \in Nat /\ c.event_sequence \in Nat /\ c.cycle_count \in Nat
         /\ c.total_attempts \in Nat /\ c.current_step_index \in Nat
         /\ c.pending_execution \in Nat /\ c.pending_attempt \in Nat
         /\ c.records \in Seq(IterationRecord)
         /\ c.human_interactions \in Seq(HumanResponse)
         /\ c.current_plan \in Seq(PlanStep)
         /\ c.pending_interaction \in Interaction
         /\ c.active_operation_id \in OperationId \cup {NoOperation}
         /\ c.approved_step_ids \subseteq StepIds
         /\ c.status \in LoopStatus /\ c.stop_reason \in StopReason
         /\ c.completion_approved \in BOOLEAN
  BY DEF LoopContext

LEMMA ContinuesTrans ==
  ASSUME NEW c \in LoopContext, NEW d \in LoopContext, NEW e \in LoopContext,
         Continues(c, d), Continues(d, e)
  PROVE  Continues(c, e)
<1>1. IsPrefix(c.records, e.records)
  BY Fields, PrefixTrans DEF Continues
<1>2. IsPrefix(c.human_interactions, e.human_interactions)
  BY Fields, PrefixTrans DEF Continues
<1>3. /\ e.revision = c.revision
      /\ c.revision > 0 => e.request = c.request
  BY DEF Continues
<1>4. \A x \in {c, d, e} : /\ x.event_sequence \in Nat /\ x.cycle_count \in Nat
                            /\ x.total_attempts \in Nat
  BY Fields
<1>5. /\ e.event_sequence >= c.event_sequence
      /\ e.cycle_count >= c.cycle_count
      /\ e.total_attempts >= c.total_attempts
  BY <1>4 DEF Continues
<1> QED
  BY <1>1, <1>2, <1>3, <1>5 DEF Continues

LEMMA ContinuesRefl ==
  ASSUME NEW c \in LoopContext
  PROVE  Continues(c, c)
<1>1. IsPrefix(c.records, c.records) /\ IsPrefix(c.human_interactions, c.human_interactions)
  BY Fields, PrefixElements
<1> QED
  BY <1>1, Fields DEF Continues

LEMMA BlankType == Blank \in LoopContext /\ Blank.revision = 0 /\ Blank.total_attempts = 0
<1>1. (CHOOSE r \in Requests : TRUE) \in Requests
  BY RequestsAssumption
<1> QED
  BY <1>1 DEF Blank, NewContext, LoopContext, LoopStatus, StopReason, NoInteraction,
              Interaction, NoOperation

-----------------------------------------------------------------------------
(* A step of one call.                                                     *)

\* A save from c to d adds to what was committed.
Advances(c, d) ==
  /\ d.revision = c.revision + 1
  /\ c.revision > 0 => d.request = c.request
  /\ d.event_sequence > c.event_sequence
  /\ d.cycle_count >= c.cycle_count
  /\ d.total_attempts >= c.total_attempts
  /\ IsPrefix(c.records, d.records)
  /\ IsPrefix(c.human_interactions, d.human_interactions)

\* The step neither touches the checkpoint nor loses anything in it.
Kept == store' = store \/ Advances(store, store')

LEMMA CurrentStepType ==
  ASSUME NEW c \in LoopContext, StepsLeft(c)
  PROVE  CurrentStep(c) \in PlanStep /\ CurrentStep(c).step_id \in StepIds
<1>1. c.current_plan \in Seq(PlanStep) /\ c.current_step_index \in Nat
  BY Fields
<1>2. c.current_step_index + 1 \in 1 .. Len(c.current_plan)
  BY <1>1 DEF StepsLeft
<1>3. CurrentStep(c) \in PlanStep
  BY <1>1, <1>2 DEF CurrentStep
<1> QED
  BY <1>3 DEF PlanStep

LEMMA OperationType ==
  ASSUME NEW c \in LoopContext, StepsLeft(c)
  PROVE  Operation(c, CurrentStep(c)) \in OperationId
  BY CurrentStepType, Fields DEF Operation, OperationId

LEMMA HistoryType ==
  ASSUME TypeOK, CursorOK, NEW p \in Procs,
         ctx' \in [Procs -> LoopContext], History(p)
  PROVE  /\ calls' \in Seq(CallRecord)
         /\ unsettled' \subseteq OperationId \cup {NoOperation}
         /\ grants' \subseteq OperationId
         /\ Len(calls') = Len(calls) + (IF Dispatches(p) THEN 1 ELSE 0)
<1> DEFINE op == ctx'[p].active_operation_id
<1> DEFINE record == [op      |-> op,
                      ord     |-> ctx'[p].total_attempts,
                      granted |-> CurrentStep(ctx'[p]).requires_approval => op \in grants,
                      blind   |-> op \in unsettled]
<1>1. ctx'[p] \in LoopContext /\ ctx[p] \in LoopContext /\ store \in LoopContext
  BY DEF TypeOK
<1>2. op \in OperationId \cup {NoOperation} /\ ctx'[p].total_attempts \in Nat
  BY <1>1, Fields
<1>3. record \in CallRecord
  BY <1>2 DEF CallRecord
<1>4. /\ calls' \in Seq(CallRecord)
      /\ Len(calls') = Len(calls) + (IF Dispatches(p) THEN 1 ELSE 0)
  <2>1. calls' = IF Dispatches(p) THEN Append(calls, record) ELSE calls
    BY DEF History
  <2>2. calls \in Seq(CallRecord)
    BY DEF TypeOK
  <2> QED
    BY <1>3, <2>1, <2>2
<1>5. unsettled' \subseteq OperationId \cup {NoOperation}
  BY <1>2 DEF History, TypeOK
<1>6. ASSUME GateApproved(p) PROVE Operation(ctx[p], CurrentStep(ctx[p])) \in OperationId
  BY <1>1, <1>6, OperationType DEF GateApproved, CursorOK, InStep
<1>7. ASSUME store.pending_interaction.kind = "approval"
      PROVE  <<store.cycle_count, store.pending_interaction.step>> \in OperationId
  BY <1>1, <1>7, Fields DEF OperationId, Interaction
<1>8. grants' \subseteq OperationId
  BY <1>6, <1>7 DEF History, TypeOK
<1> QED
  BY <1>4, <1>5, <1>8

\* What a step of call p has to satisfy to preserve the invariant.
LEMMA CallStep ==
  ASSUME IndInv, NEW p \in Procs, NEW x \in LoopContext, NEW l \in Label,
         pc' = [pc EXCEPT ![p] = l],
         ctx' = [ctx EXCEPT ![p] = x],
         store' \in LoopContext,
         Kept,
         l \in InStep => StepsLeft(x),
         x.revision <= store'.revision,
         l \notin {"idle", "exit"} /\ x.revision = store'.revision => Continues(store', x),
         x.total_attempts <= MaxAttempts,
         store'.total_attempts <= MaxAttempts,
         Dispatches(p) => store'.total_attempts >= store.total_attempts + 1,
         used' \in [calls : Nat, beats : Nat, faults : Nat],
         cancelled' \in [Instances -> BOOLEAN],
         History(p)
  PROVE  IndInv'
<1>1. ctx' \in [Procs -> LoopContext] /\ pc' \in [Procs -> Label]
  BY DEF IndInv, TypeOK
<1>2. TypeOK'
  BY <1>1, HistoryType DEF IndInv, TypeOK
<1>3. \A q \in Procs : q # p => ctx'[q] = ctx[q] /\ pc'[q] = pc[q]
  BY DEF IndInv, TypeOK
<1>4. ctx'[p] = x /\ pc'[p] = l
  BY DEF IndInv, TypeOK
<1>5. CursorOK'
  <2> SUFFICES ASSUME NEW q \in Procs, pc'[q] \in InStep PROVE StepsLeft(ctx'[q])
    BY DEF CursorOK, StepsLeft
  <2> QED
    BY <1>3, <1>4 DEF IndInv, CursorOK
<1>6. store.revision \in Nat /\ store'.revision \in Nat /\ store.total_attempts \in Nat
      /\ store'.total_attempts \in Nat /\ MaxAttempts \in Nat
      /\ \A q \in Procs : ctx[q].revision \in Nat /\ ctx[q].total_attempts \in Nat
  BY Fields, LoopAssumption DEF IndInv, TypeOK
<1>6a. store'.revision = 0 => store' = Blank
  BY <1>6 DEF Kept, Advances, IndInv, FreshOK
<1>7. FreshOK'
  <2> SUFFICES ASSUME NEW q \in Procs
               PROVE  /\ ctx'[q].revision <= store'.revision
                      /\ pc'[q] \notin {"idle", "exit"} /\ ctx'[q].revision = store'.revision
                           => Continues(store', ctx'[q])
    BY <1>6a DEF FreshOK, Continues, Blank
  <2>1. CASE q = p
    BY <1>4, <2>1
  <2>2. CASE q # p /\ store' = store
    BY <1>3, <2>2 DEF IndInv, FreshOK
  <2>3. CASE q # p /\ Advances(store, store')
    <3>1. ctx[q].revision <= store.revision /\ store'.revision = store.revision + 1
      BY <2>3 DEF IndInv, FreshOK, Advances
    <3> QED
      BY <1>3, <1>6, <2>3, <3>1
  <2> QED
    BY <2>1, <2>2, <2>3 DEF Kept
<1>8. store'.total_attempts >= store.total_attempts
  BY <1>6 DEF Kept, Advances
<1>9. Len(calls') <= store'.total_attempts
  <2>1. Len(calls') = Len(calls) + (IF Dispatches(p) THEN 1 ELSE 0)
    BY <1>1, HistoryType DEF IndInv
  <2>2. Len(calls) <= store.total_attempts /\ Len(calls) \in Nat
    BY DEF IndInv, BudgetOK, AttemptBudget, TypeOK
  <2> QED
    BY <1>6, <1>8, <2>1, <2>2
<1>10. \A q \in Procs : ctx'[q].total_attempts <= MaxAttempts
  BY <1>3, <1>4 DEF IndInv, BudgetOK
<1> QED
  BY <1>2, <1>5, <1>7, <1>9, <1>10 DEF IndInv, BudgetOK, AttemptBudget

-----------------------------------------------------------------------------
(* Saving and moving on.                                                   *)

\* c is a context call p may go on with: it loses nothing of ctx[p].
Good(p, c) ==
  /\ c \in LoopContext
  /\ Continues(ctx[p], c)
  /\ c.total_attempts <= MaxAttempts

LEMMA GoodSelf ==
  ASSUME IndInv, NEW p \in Procs
  PROVE  Good(p, ctx[p])
  BY ContinuesRefl DEF IndInv, TypeOK, BudgetOK, Good

\* A context that differs from ctx[p] in none of the counters and histories.
Same(c, d) ==
  /\ d.revision = c.revision
  /\ d.request = c.request
  /\ d.event_sequence = c.event_sequence
  /\ d.cycle_count = c.cycle_count
  /\ d.total_attempts = c.total_attempts
  /\ d.records = c.records
  /\ d.human_interactions = c.human_interactions

LEMMA GoodSame ==
  ASSUME NEW p, NEW c \in LoopContext, NEW d \in LoopContext,
         ctx[p] \in LoopContext, Good(p, c), Same(c, d)
  PROVE  Good(p, d)
  BY DEF Good, Same, Continues

\* Call p, at work, is level with the store or behind it.
LEMMA AtWork ==
  ASSUME IndInv, NEW p \in Procs, NEW c, Good(p, c), pc[p] \notin {"idle", "exit"}
  PROVE  /\ c.revision <= store.revision
         /\ c.revision = store.revision => Continues(store, c)
<1>1. ctx[p] \in LoopContext /\ store \in LoopContext /\ c \in LoopContext
  BY DEF IndInv, TypeOK, Good
<1>2. c.revision = ctx[p].revision /\ Continues(ctx[p], c)
  BY DEF Good, Continues
<1> QED
  BY <1>1, <1>2, ContinuesTrans DEF IndInv, FreshOK

\* Goto preserves the invariant and leaves the checkpoint alone.
LEMMA GotoStep ==
  ASSUME IndInv, NEW p \in Procs, NEW c, Good(p, c), NEW l \in Label,
         l \in InStep => StepsLeft(c), l # "executor",
         pc[p] \notin {"idle", "exit"}, Goto(p, c, l)
  PROVE  IndInv' /\ Kept
<1> DEFINE x == IF l \in {"idle", "exit"} THEN Blank ELSE c
<1>1. x \in LoopContext /\ x.total_attempts <= MaxAttempts
  BY BlankType, LoopAssumption DEF Good
<1>2. store' = store /\ cancelled' = cancelled /\ used' = used /\ History(p)
      /\ pc' = [pc EXCEPT ![p] = l] /\ ctx' = [ctx EXCEPT ![p] = x]
  BY DEF Goto, Land
<1>3. x.revision <= store.revision
      /\ (l \notin {"idle", "exit"} /\ x.revision = store.revision => Continues(store, x))
  BY AtWork, BlankType, Fields DEF IndInv, TypeOK
<1>4. l \in InStep => StepsLeft(x)
  BY DEF InStep
<1>5. ~Dispatches(p)
  BY <1>2 DEF Dispatches, IndInv, TypeOK
<1>6. Kept
  BY <1>2 DEF Kept
<1>7. store \in LoopContext /\ store.total_attempts <= MaxAttempts
      /\ used \in [calls : Nat, beats : Nat, faults : Nat] /\ cancelled \in [Instances -> BOOLEAN]
  BY DEF IndInv, TypeOK, BudgetOK, AttemptBudget
<1> HIDE DEF x
<1>8. IndInv'
  BY <1>1, <1>2, <1>3, <1>4, <1>5, <1>6, <1>7, CallStep
<1> QED
  BY <1>6, <1>8

\* What a save makes of c.
LEMMA Numbered ==
  ASSUME NEW c \in LoopContext, NEW n \in Nat
  PROVE  LET numbered == [c EXCEPT !.event_sequence = @ + n] IN
         /\ numbered \in LoopContext
         /\ numbered.event_sequence = c.event_sequence + n
         /\ numbered.revision = c.revision
         /\ numbered.request = c.request
         /\ numbered.cycle_count = c.cycle_count
         /\ numbered.total_attempts = c.total_attempts
         /\ numbered.records = c.records
         /\ numbered.human_interactions = c.human_interactions
         /\ numbered.current_plan = c.current_plan
         /\ numbered.current_step_index = c.current_step_index
<1> DEFINE numbered == [c EXCEPT !.event_sequence = @ + n]
<1>1. c.event_sequence + n \in Nat
  BY Fields
<1>2. numbered \in LoopContext
  BY <1>1, Zenon DEF LoopContext
<1>3. /\ numbered.event_sequence = c.event_sequence + n
      /\ numbered.revision = c.revision
      /\ numbered.request = c.request
      /\ numbered.cycle_count = c.cycle_count
      /\ numbered.total_attempts = c.total_attempts
      /\ numbered.records = c.records
      /\ numbered.human_interactions = c.human_interactions
      /\ numbered.current_plan = c.current_plan
      /\ numbered.current_step_index = c.current_step_index
  BY DEF LoopContext
<1> QED
  BY <1>2, <1>3

LEMMA Saved ==
  ASSUME NEW c \in LoopContext
  PROVE  LET saved == [c EXCEPT !.revision = @ + 1] IN
         /\ saved \in LoopContext
         /\ saved.revision = c.revision + 1
         /\ saved.event_sequence = c.event_sequence
         /\ saved.request = c.request
         /\ saved.cycle_count = c.cycle_count
         /\ saved.total_attempts = c.total_attempts
         /\ saved.records = c.records
         /\ saved.human_interactions = c.human_interactions
         /\ saved.current_plan = c.current_plan
         /\ saved.current_step_index = c.current_step_index
<1> DEFINE saved == [c EXCEPT !.revision = @ + 1]
<1>1. c.revision + 1 \in Nat
  BY Fields
<1>2. saved \in LoopContext
  BY <1>1, Zenon DEF LoopContext
<1>3. /\ saved.revision = c.revision + 1
      /\ saved.event_sequence = c.event_sequence
      /\ saved.request = c.request
      /\ saved.cycle_count = c.cycle_count
      /\ saved.total_attempts = c.total_attempts
      /\ saved.records = c.records
      /\ saved.human_interactions = c.human_interactions
      /\ saved.current_plan = c.current_plan
      /\ saved.current_step_index = c.current_step_index
  BY DEF LoopContext
<1> QED
  BY <1>2, <1>3

LEMMA SpendType ==
  ASSUME NEW p, NEW next, NEW f \in Nat, TypeOK, Spend(p, next, f)
  PROVE  used' \in [calls : Nat, beats : Nat, faults : Nat]
<1>1. used \in [calls : Nat, beats : Nat, faults : Nat]
  BY DEF TypeOK
<1>2. used.faults + f \in Nat /\ used.beats \in Nat /\ used.beats + 1 \in Nat
  BY <1>1
<1>3. (IF next = pc[p] THEN used.beats + 1 ELSE used.beats) \in Nat
  BY <1>2
<1> QED
  BY <1>1, <1>2, <1>3, Zenon DEF Spend

\* CommitMany preserves the invariant, and a save adds to the checkpoint.
LEMMA CommitStep ==
  ASSUME IndInv, NEW p \in Procs, NEW c, Good(p, c), NEW n \in Nat \ {0},
         NEW next \in Label, NEW raised \in Label,
         next \in InStep => StepsLeft(c),
         raised \in InStep => StepsLeft(c), raised # "executor",
         next = "executor" /\ pc[p] \in {"dispatch", "redispatch"}
           => c.total_attempts >= ctx[p].total_attempts + 1,
         pc[p] \notin {"idle", "exit"}, CommitMany(p, c, n, next, raised)
  PROVE  IndInv' /\ Kept
<1> DEFINE numbered == [c EXCEPT !.event_sequence = @ + n]
           saved    == [numbered EXCEPT !.revision = @ + 1]
<1>1. c \in LoopContext /\ store \in LoopContext /\ ctx[p] \in LoopContext
  BY DEF IndInv, TypeOK, Good
<1>2. /\ numbered \in LoopContext
      /\ numbered.event_sequence = c.event_sequence + n
      /\ numbered.revision = c.revision
      /\ numbered.request = c.request
      /\ numbered.cycle_count = c.cycle_count
      /\ numbered.total_attempts = c.total_attempts
      /\ numbered.records = c.records
      /\ numbered.human_interactions = c.human_interactions
      /\ numbered.current_plan = c.current_plan
      /\ numbered.current_step_index = c.current_step_index
  BY <1>1, Numbered
<1> HIDE DEF numbered
<1>3. /\ saved \in LoopContext
      /\ saved.revision = c.revision + 1
      /\ saved.event_sequence = c.event_sequence + n
      /\ saved.request = c.request
      /\ saved.cycle_count = c.cycle_count
      /\ saved.total_attempts = c.total_attempts
      /\ saved.records = c.records
      /\ saved.human_interactions = c.human_interactions
      /\ saved.current_plan = c.current_plan
      /\ saved.current_step_index = c.current_step_index
  BY <1>2, Saved
<1> HIDE DEF saved
<1>4. /\ c.revision <= store.revision
      /\ c.revision = store.revision => Continues(store, c)
  BY AtWork
<1>5. /\ c.revision \in Nat /\ c.event_sequence \in Nat /\ c.total_attempts \in Nat
      /\ store.revision \in Nat /\ store.event_sequence \in Nat /\ store.total_attempts \in Nat
      /\ ctx[p].total_attempts \in Nat
  BY <1>1, Fields
<1>6. ASSUME Fresh(c) PROVE Advances(store, saved) /\ saved.total_attempts <= MaxAttempts
  BY <1>3, <1>4, <1>5, <1>6 DEF Fresh, Advances, Continues, Good
<1> DEFINE Saves(x, l, f) ==
      /\ Land(p, x, l)
      /\ Spend(p, next, f)
      /\ (Fresh(c) /\ store' = saved) \/ store' = store
<1>7. /\ cancelled' = cancelled
      /\ History(p)
      /\ \/ Fresh(c) /\ store' = saved /\ Saves(saved, next, 0)
         \/ Fresh(c) /\ store' = saved /\ Saves(saved, raised, 1)
         \/ Saves(numbered, raised, 1)
         \/ Saves(numbered, IF raised = "exit" THEN "exit" ELSE "cancelling", 1)
         \/ /\ Land(p, c, IF pc[p] \in Driving THEN "exit" ELSE "idle")
            /\ store' = store /\ used' = used
  BY Zenon DEF CommitMany, numbered, saved
<1>8a. (Fresh(c) /\ store' = saved) \/ store' = store
  BY <1>7
<1>8b. used' \in [calls : Nat, beats : Nat, faults : Nat]
  BY <1>7, SpendType DEF IndInv, TypeOK
<1>8. Kept
  BY <1>6, <1>8a DEF Kept
<1>9. store' \in LoopContext /\ store'.total_attempts <= MaxAttempts
      /\ cancelled' \in [Instances -> BOOLEAN]
  BY <1>1, <1>3, <1>6, <1>7, <1>8a DEF IndInv, TypeOK, BudgetOK, AttemptBudget
<1>10. /\ "exit" \in Label /\ "idle" \in Label
       /\ (IF raised = "exit" THEN "exit" ELSE "cancelling") \in Label
       /\ (IF raised = "exit" THEN "exit" ELSE "cancelling") \in {"exit", "cancelling"}
       /\ (IF pc[p] \in Driving THEN "exit" ELSE "idle") \in {"exit", "idle"}
  BY DEF Label, Driving
<1>11. PICK x, l : /\ Land(p, x, l)
                   /\ l \in Label
                   /\ \/ x = saved /\ l = next /\ Fresh(c) /\ store' = saved
                      \/ x = saved /\ l = raised /\ Fresh(c) /\ store' = saved
                      \/ x = numbered /\ l = raised
                      \/ x = numbered /\ l \in {"exit", "cancelling"}
                      \/ x = c /\ l \in {"exit", "idle"}
  <2>1. CASE Fresh(c) /\ store' = saved /\ Saves(saved, next, 0)
    BY <2>1
  <2>2. CASE Fresh(c) /\ store' = saved /\ Saves(saved, raised, 1)
    BY <2>2
  <2>3. CASE Saves(numbered, raised, 1)
    BY <2>3
  <2>4. CASE Saves(numbered, IF raised = "exit" THEN "exit" ELSE "cancelling", 1)
    BY <1>10, <2>4
  <2>5. CASE Land(p, c, IF pc[p] \in Driving THEN "exit" ELSE "idle")
    BY <1>10, <2>5
  <2> QED
    BY <1>7, <2>1, <2>2, <2>3, <2>4, <2>5
<1> HIDE DEF Saves
<1> DEFINE y == IF l \in {"idle", "exit"} THEN Blank ELSE x
<1>12. pc' = [pc EXCEPT ![p] = l] /\ ctx' = [ctx EXCEPT ![p] = y]
  BY <1>11 DEF Land
<1>13. y \in LoopContext /\ y.total_attempts <= MaxAttempts
  BY <1>1, <1>2, <1>3, <1>11, BlankType, LoopAssumption DEF Good
<1>14. l \in InStep => StepsLeft(y)
  BY <1>2, <1>3, <1>11 DEF InStep, StepsLeft
<1>15. y.revision <= store'.revision
  BY <1>2, <1>3, <1>4, <1>5, <1>8a, <1>11, BlankType DEF Fresh
<1>16. ASSUME l \notin {"idle", "exit"}, y.revision = store'.revision
       PROVE  Continues(store', y)
  <2>1. CASE x = saved /\ store' = saved
    BY <1>3, <1>16, <2>1, ContinuesRefl
  <2>2. CASE x = numbered
    <3>1. store' = store
      BY <1>2, <1>3, <1>5, <1>8a, <1>16, <2>2
    <3>2. Continues(store, c)
      BY <1>2, <1>4, <1>16, <2>2, <3>1
    <3> QED
      BY <1>2, <1>5, <1>16, <2>2, <3>1, <3>2 DEF Continues
  <2> QED
    BY <1>11, <1>16, <2>1, <2>2
<1>17. ASSUME Dispatches(p) PROVE store'.total_attempts >= store.total_attempts + 1
  <2>1. pc'[p] = l
    BY <1>12 DEF IndInv, TypeOK
  <2>2. l = "executor" /\ pc[p] \in {"dispatch", "redispatch"}
    BY <1>17, <2>1 DEF Dispatches
  <2>3. l = next /\ Fresh(c) /\ store' = saved
    BY <1>11, <2>2
  <2>4. c.total_attempts >= ctx[p].total_attempts + 1
    BY <2>2, <2>3
  <2>5. ctx[p].total_attempts >= store.total_attempts
    <3>1. ctx[p].revision = store.revision
      BY <2>3 DEF Fresh, Good, Continues
    <3> QED
      BY <3>1 DEF IndInv, FreshOK, Continues
  <2> QED
    BY <1>3, <1>5, <2>3, <2>4, <2>5
<1> HIDE DEF y
<1>18. IndInv'
  BY <1>7, <1>8, <1>8b, <1>9, <1>11, <1>12, <1>13, <1>14, <1>15, <1>16, <1>17, CallStep
<1> QED
  BY <1>8, <1>18

-----------------------------------------------------------------------------
(* The updates the controller makes to a context.                          *)

\* d differs from c in neither counters nor histories, nor in plan and cursor.
SameStep(c, d) ==
  /\ Same(c, d)
  /\ d.current_plan = c.current_plan
  /\ d.current_step_index = c.current_step_index

LEMMA GoodSameStep ==
  ASSUME NEW p, NEW c \in LoopContext, NEW d \in LoopContext,
         ctx[p] \in LoopContext, Good(p, c), SameStep(c, d)
  PROVE  Good(p, d) /\ (StepsLeft(c) => StepsLeft(d))
<1>1. Good(p, d)
  BY GoodSame DEF SameStep
<1> QED
  BY <1>1 DEF SameStep, StepsLeft

LEMMA StatusUpdate ==
  ASSUME NEW c \in LoopContext, NEW target \in LoopStatus
  PROVE  LET d == [c EXCEPT !.status = target] IN d \in LoopContext /\ SameStep(c, d)
<1> DEFINE d == [c EXCEPT !.status = target]
<1>1. d \in LoopContext
  BY Zenon DEF LoopContext
<1>2. SameStep(c, d)
  BY DEF LoopContext, SameStep, Same
<1> QED
  BY <1>1, <1>2

LEMMA ReasonUpdate ==
  ASSUME NEW c \in LoopContext, NEW reason \in StopReason
  PROVE  LET d == [c EXCEPT !.active = FALSE, !.stop_reason = reason] IN
         d \in LoopContext /\ SameStep(c, d) /\ d.status = c.status
<1> DEFINE d == [c EXCEPT !.active = FALSE, !.stop_reason = reason]
<1>1. d \in LoopContext
  BY Zenon DEF LoopContext
<1>2. SameStep(c, d) /\ d.status = c.status
  BY DEF LoopContext, SameStep, Same
<1> QED
  BY <1>1, <1>2

LEMMA DropPlanUpdate ==
  ASSUME NEW c \in LoopContext
  PROVE  DropPlan(c) \in LoopContext /\ Same(c, DropPlan(c))
<1>1. <<>> \in Seq(PlanStep) /\ 0 \in Nat
  OBVIOUS
<1>2. DropPlan(c) \in LoopContext
  BY <1>1, Zenon DEF LoopContext, DropPlan
<1>3. Same(c, DropPlan(c))
  BY DEF LoopContext, Same, DropPlan
<1> QED
  BY <1>2, <1>3

LEMMA PlanUpdate ==
  ASSUME NEW c \in LoopContext, NEW plan \in Seq(PlanStep)
  PROVE  LET d == [c EXCEPT !.current_plan = plan, !.current_step_index = 0] IN
         d \in LoopContext /\ Same(c, d)
<1> DEFINE d == [c EXCEPT !.current_plan = plan, !.current_step_index = 0]
<1>1. 0 \in Nat
  OBVIOUS
<1>2. d \in LoopContext
  BY <1>1, Zenon DEF LoopContext
<1>3. Same(c, d)
  BY DEF LoopContext, Same
<1> QED
  BY <1>2, <1>3

LEMMA OperationUpdate ==
  ASSUME NEW c \in LoopContext, NEW op \in OperationId \cup {NoOperation}
  PROVE  LET d == [c EXCEPT !.active_operation_id = op] IN
         d \in LoopContext /\ SameStep(c, d)
<1> DEFINE d == [c EXCEPT !.active_operation_id = op]
<1>1. d \in LoopContext
  BY Zenon DEF LoopContext
<1>2. SameStep(c, d)
  BY DEF LoopContext, SameStep, Same
<1> QED
  BY <1>1, <1>2

LEMMA ForgetUpdate ==
  ASSUME NEW c \in LoopContext
  PROVE  LET d == [c EXCEPT !.active_operation_id = NoOperation, !.pending_attempt = 0] IN
         d \in LoopContext /\ SameStep(c, d)
<1> DEFINE d == [c EXCEPT !.active_operation_id = NoOperation, !.pending_attempt = 0]
<1>1. NoOperation \in OperationId \cup {NoOperation} /\ 0 \in Nat
  OBVIOUS
<1>2. d \in LoopContext
  BY <1>1, Zenon DEF LoopContext
<1>3. SameStep(c, d)
  BY DEF LoopContext, SameStep, Same
<1> QED
  BY <1>2, <1>3

LEMMA ResultUpdate ==
  ASSUME NEW c \in LoopContext
  PROVE  LET d == [c EXCEPT !.pending_execution = c.total_attempts] IN
         d \in LoopContext /\ SameStep(c, d)
<1> DEFINE d == [c EXCEPT !.pending_execution = c.total_attempts]
<1>1. c.total_attempts \in Nat
  BY Fields
<1>2. d \in LoopContext
  BY <1>1, Zenon DEF LoopContext
<1>3. SameStep(c, d)
  BY DEF LoopContext, SameStep, Same
<1> QED
  BY <1>2, <1>3

LEMMA CompletionUpdate ==
  ASSUME NEW c \in LoopContext
  PROVE  LET d == [c EXCEPT !.completion_approved = FALSE] IN
         d \in LoopContext /\ SameStep(c, d)
<1> DEFINE d == [c EXCEPT !.completion_approved = FALSE]
<1>1. d \in LoopContext
  BY Zenon DEF LoopContext
<1>2. SameStep(c, d)
  BY DEF LoopContext, SameStep, Same
<1> QED
  BY <1>1, <1>2

LEMMA AskUpdate ==
  ASSUME NEW c \in LoopContext, NEW i \in Interaction, NEW reason \in StopReason
  PROVE  LET d == [c EXCEPT !.pending_interaction = i, !.stop_reason = reason,
                            !.active = FALSE] IN
         d \in LoopContext /\ SameStep(c, d)
<1> DEFINE d == [c EXCEPT !.pending_interaction = i, !.stop_reason = reason, !.active = FALSE]
<1>1. d \in LoopContext
  BY Zenon DEF LoopContext
<1>2. SameStep(c, d)
  BY DEF LoopContext, SameStep, Same
<1> QED
  BY <1>1, <1>2

LEMMA CycleUpdate ==
  ASSUME NEW p, NEW c \in LoopContext, ctx[p] \in LoopContext, Good(p, c)
  PROVE  Good(p, [c EXCEPT !.cycle_count = @ + 1])
<1> DEFINE d == [c EXCEPT !.cycle_count = @ + 1]
<1>1. c.cycle_count + 1 \in Nat
  BY Fields
<1>2. d \in LoopContext
  BY <1>1, Zenon DEF LoopContext
<1>3. /\ d.cycle_count = c.cycle_count + 1
      /\ d.revision = c.revision /\ d.request = c.request
      /\ d.event_sequence = c.event_sequence /\ d.total_attempts = c.total_attempts
      /\ d.records = c.records /\ d.human_interactions = c.human_interactions
  BY DEF LoopContext
<1>4. c.cycle_count \in Nat /\ ctx[p].cycle_count \in Nat
  BY Fields
<1> HIDE DEF d
<1>5. Good(p, d)
  BY <1>2, <1>3, <1>4 DEF Good, Continues
<1> QED
  BY <1>5 DEF d

LEMMA AttemptUpdate ==
  ASSUME NEW p, NEW c \in LoopContext, ctx[p] \in LoopContext, Good(p, c),
         NEW k \in Nat, c.total_attempts < MaxAttempts
  PROVE  LET d == [c EXCEPT !.total_attempts = @ + 1, !.pending_attempt = k] IN
         /\ Good(p, d)
         /\ d.total_attempts = c.total_attempts + 1
         /\ StepsLeft(c) => StepsLeft(d)
<1> DEFINE d == [c EXCEPT !.total_attempts = @ + 1, !.pending_attempt = k]
<1>1. c.total_attempts + 1 \in Nat
  BY Fields
<1>2. d \in LoopContext
  BY <1>1, Zenon DEF LoopContext
<1>3. /\ d.total_attempts = c.total_attempts + 1
      /\ d.revision = c.revision /\ d.request = c.request
      /\ d.event_sequence = c.event_sequence /\ d.cycle_count = c.cycle_count
      /\ d.records = c.records /\ d.human_interactions = c.human_interactions
      /\ d.current_plan = c.current_plan /\ d.current_step_index = c.current_step_index
  BY DEF LoopContext
<1>4. c.total_attempts \in Nat /\ ctx[p].total_attempts \in Nat /\ MaxAttempts \in Nat
  BY Fields, LoopAssumption
<1> HIDE DEF d
<1>5. Good(p, d) /\ (StepsLeft(c) => StepsLeft(d))
  BY <1>2, <1>3, <1>4 DEF Good, Continues, StepsLeft
<1> QED
  BY <1>3, <1>5 DEF d

LEMMA VerifiedUpdate ==
  ASSUME NEW p, NEW c \in LoopContext, ctx[p] \in LoopContext, Good(p, c),
         StepsLeft(c), NEW passed \in BOOLEAN
  PROVE  Good(p, VerifiedContext(c, passed))
<1> DEFINE record == [cycle      |-> c.cycle_count,
                      step_index |-> c.current_step_index,
                      step       |-> CurrentStep(c),
                      execution  |-> c.pending_execution,
                      passed     |-> passed,
                      attempt    |-> c.pending_attempt]
           d == VerifiedContext(c, passed)
           remaining == c.approved_step_ids \ {CurrentStep(c).step_id}
           records == Append(c.records, record)
<1>1. record \in IterationRecord
  BY Fields, CurrentStepType DEF IterationRecord
<1> HIDE DEF record
<1>2. records \in Seq(IterationRecord) /\ IsPrefix(c.records, records)
  BY <1>1, Fields, PrefixAppend
<1>3. c.current_step_index + 1 \in Nat /\ remaining \in SUBSET StepIds /\ 0 \in Nat
      /\ NoOperation \in OperationId \cup {NoOperation}
  BY Fields
<1>4. d = [c EXCEPT !.records = records, !.current_step_index = @ + 1,
                    !.approved_step_ids = remaining, !.active_operation_id = NoOperation,
                    !.pending_execution = 0, !.pending_attempt = 0]
  BY DEF VerifiedContext, record
<1> HIDE DEF records, remaining, d
<1>5. d \in LoopContext
  BY <1>2, <1>3, <1>4, Zenon DEF LoopContext
<1>6. /\ d.revision = c.revision /\ d.request = c.request
      /\ d.event_sequence = c.event_sequence /\ d.cycle_count = c.cycle_count
      /\ d.total_attempts = c.total_attempts
      /\ d.records = records /\ d.human_interactions = c.human_interactions
  BY <1>4 DEF LoopContext
<1>7. IsPrefix(ctx[p].records, d.records)
  <2>1. IsPrefix(ctx[p].records, c.records)
    BY DEF Good, Continues
  <2> QED
    BY <1>2, <1>6, <2>1, Fields, PrefixTrans
<1> QED
  BY <1>5, <1>6, <1>7 DEF Good, Continues, d

\* A single event, by where the call goes on.
LEMMA CommitOutside ==
  ASSUME IndInv, NEW p \in Procs, NEW c, Good(p, c),
         NEW next \in Label \ InStep, NEW raised \in Label,
         raised \in InStep => StepsLeft(c), raised # "executor",
         pc[p] \notin {"idle", "exit"}, Commit(p, c, next, raised)
  PROVE  IndInv' /\ Kept
<1>1. next # "executor" /\ 1 \in Nat \ {0}
  BY DEF InStep
<1>2. CommitMany(p, c, 1, next, raised)
  BY DEF Commit
<1> QED
  BY <1>1, <1>2, CommitStep, Zenon

LEMMA CommitInside ==
  ASSUME IndInv, NEW p \in Procs, NEW c, Good(p, c), StepsLeft(c),
         NEW next \in InStep \ {"executor"}, NEW raised \in {"failing", "retry"},
         pc[p] \notin {"idle", "exit"}, Commit(p, c, next, raised)
  PROVE  IndInv' /\ Kept
<1>1. next # "executor" /\ raised # "executor" /\ 1 \in Nat \ {0}
      /\ next \in Label /\ raised \in Label
  BY DEF InStep, Label, Driving, Awaiting
<1>2. CommitMany(p, c, 1, next, raised)
  BY DEF Commit
<1> QED
  BY <1>1, <1>2, CommitStep, Zenon

-----------------------------------------------------------------------------
(* _transition, _stop and _request_human_interaction.                       *)

LEMMA TransitionStep ==
  ASSUME IndInv, NEW p \in Procs, NEW c, Good(p, c), NEW target \in LoopStatus,
         NEW next \in Label, NEW raised \in Label,
         next \in InStep => StepsLeft(c), next # "executor",
         raised \in InStep => StepsLeft(c), raised # "executor",
         pc[p] \notin {"idle", "exit"}, Transition(p, c, target, next, raised)
  PROVE  IndInv' /\ Kept
<1> DEFINE d == [c EXCEPT !.status = target]
           l == IF raised = "failing" THEN "broken" ELSE raised
<1>1. c \in LoopContext /\ ctx[p] \in LoopContext
  BY DEF Good, IndInv, TypeOK
<1>2. d \in LoopContext /\ SameStep(c, d)
  BY <1>1, StatusUpdate
<1> HIDE DEF d
<1>3. Good(p, d) /\ (StepsLeft(c) => StepsLeft(d))
  BY <1>1, <1>2, GoodSameStep
<1>4. CASE CommitMany(p, d, 1, next, raised)
  BY <1>3, <1>4, CommitStep
<1>5. CASE Goto(p, c, l)
  <2>1. l \in Label /\ (l \in InStep => StepsLeft(c)) /\ l # "executor"
    BY DEF Label, Driving, InStep
  <2> HIDE DEF l
  <2> QED
    BY <1>5, <2>1, GotoStep
<1> QED
  BY <1>4, <1>5 DEF Transition, Commit, d

LEMMA EnterStep ==
  ASSUME IndInv, NEW p \in Procs, NEW c, Good(p, c), NEW target \in LoopStatus,
         NEW next \in Label, NEW raised \in Label,
         next \in InStep => StepsLeft(c), next # "executor",
         raised \in InStep => StepsLeft(c), raised # "executor",
         pc[p] \notin {"idle", "exit"}, Enter(p, c, target, next, raised)
  PROVE  IndInv' /\ Kept
<1>1. CASE Goto(p, c, next)
  BY <1>1, GotoStep
<1>2. CASE Transition(p, c, target, next, raised)
  BY <1>2, TransitionStep
<1> QED
  BY <1>1, <1>2 DEF Enter

LEMMA StopStep ==
  ASSUME IndInv, NEW p \in Procs, NEW c, Good(p, c),
         NEW status \in LoopStatus, NEW reason \in StopReason,
         NEW next \in {"exit", "idle"}, NEW raised \in Label,
         raised \in InStep => StepsLeft(c), raised # "executor",
         pc[p] \notin {"idle", "exit"}, Stop(p, c, status, reason, next, raised)
  PROVE  IndInv' /\ Kept
<1> DEFINE d == [c EXCEPT !.active = FALSE, !.stop_reason = reason]
<1>1. c \in LoopContext /\ ctx[p] \in LoopContext
  BY DEF Good, IndInv, TypeOK
<1>2. d \in LoopContext /\ SameStep(c, d)
  BY <1>1, ReasonUpdate
<1> HIDE DEF d
<1>3. Good(p, d) /\ (StepsLeft(c) => StepsLeft(d))
  BY <1>1, <1>2, GoodSameStep
<1>4. next \in Label \ InStep /\ next # "executor"
  BY DEF Label, Driving, InStep
<1>5. CASE Commit(p, d, next, raised)
  BY <1>3, <1>4, <1>5, CommitOutside
<1>6. CASE Transition(p, d, status, next, raised)
  BY <1>3, <1>4, <1>6, TransitionStep
<1> QED
  BY <1>5, <1>6 DEF Stop, d

LEMMA BlockStep ==
  ASSUME IndInv, NEW p \in Procs, NEW c, Good(p, c), NEW reason \in StopReason,
         pc[p] \notin {"idle", "exit"}, Block(p, c, reason)
  PROVE  IndInv' /\ Kept
<1>1. "failing" \in Label /\ "failing" \notin InStep /\ "blocked" \in LoopStatus
  BY DEF Label, Driving, InStep, LoopStatus
<1> QED
  BY <1>1, StopStep DEF Block

LEMMA RequestHumanStep ==
  ASSUME IndInv, NEW p \in Procs, NEW kind, NEW step, NEW reason \in StopReason,
         [interaction_id |-> ctx[p].revision, kind |-> kind, step |-> step] \in Interaction,
         pc[p] \notin {"idle", "exit"}, RequestHuman(p, kind, step, reason)
  PROVE  IndInv' /\ Kept
<1> DEFINE i == [interaction_id |-> ctx[p].revision, kind |-> kind, step |-> step]
           d == [ctx[p] EXCEPT !.pending_interaction = i, !.stop_reason = reason,
                               !.active = FALSE]
<1>1. ctx[p] \in LoopContext
  BY DEF IndInv, TypeOK
<1>2. d \in LoopContext /\ SameStep(ctx[p], d)
  <2> HIDE DEF i
  <2>1. i \in Interaction
    BY DEF i
  <2> QED
    BY <1>1, <2>1, AskUpdate
<1>3. \/ Commit(p, d, "pausing", "failing")
      \/ Transition(p, d, "paused", "pausing", "failing")
      \/ Goto(p, ctx[p], "broken")
  BY DEF RequestHuman
<1> HIDE DEF d
<1>4. Good(p, d) /\ Good(p, ctx[p])
  BY <1>1, <1>2, GoodSameStep, GoodSelf
<1>5. /\ {"pausing", "failing", "broken"} \subseteq Label \ InStep
      /\ "paused" \in LoopStatus
  BY DEF Label, Driving, InStep, LoopStatus
<1>6. CASE Commit(p, d, "pausing", "failing")
  BY <1>4, <1>5, <1>6, CommitOutside
<1>7. CASE Transition(p, d, "paused", "pausing", "failing")
  BY <1>4, <1>5, <1>7, TransitionStep
<1>8. CASE Goto(p, ctx[p], "broken")
  BY <1>4, <1>5, <1>8, GotoStep
<1> QED
  BY <1>3, <1>6, <1>7, <1>8

-----------------------------------------------------------------------------
(* One step of the call on p.                                               *)

LEMMA LoopStepPreserves ==
  ASSUME IndInv, NEW p \in Procs, LoopStep(p)
  PROVE  IndInv' /\ Kept
<1> DEFINE c == ctx[p]
<1>c. c \in LoopContext /\ Good(p, c)
  BY GoodSelf DEF IndInv, TypeOK
<1>s. pc[p] \in InStep => StepsLeft(c)
  BY DEF IndInv, CursorOK
<1>b. pc[p] = "step" /\ AtBoundary(p) => StepsLeft(c)
  BY DEF AtBoundary
<1>l. /\ {"idle", "exit", "cycle", "step", "begin", "planner", "pausing", "rejected",
          "replanned", "failing", "broken", "cancelling", "evaluator"}
           \subseteq Label \ InStep
      /\ CompletionAction \subseteq Label \ InStep
      /\ "resume_planning" \in Label \ InStep
      /\ InStep \subseteq Label
      /\ Awaiting \subseteq Label
  BY DEF Label, Driving, Awaiting, Entry, CompletionAction, InStep
<1>t. /\ {"planning", "executing", "verifying", "waiting_approval", "completed", "blocked",
          "cancelled", "timed_out", "failed"} \subseteq LoopStatus
      /\ {"policy_rejected", "approval_rejected", "approval_deferred", "cycle_limit",
          "attempt_limit", "step_limit", "cancelled", "timed_out", "completed",
          "human_input_required", "completion_rejected", "component_error",
          "budget_exhausted", "recovery_required"} \subseteq StopReason
  BY DEF LoopStatus, StopReason
<1>w. {"gate", "approved", "execute", "dispatch", "redispatch", "executor",
       "retry", "backoff", "verify", "verifier"} = InStep
  BY DEF InStep
<1> HIDE DEF c
<1>1. CASE RunStart(p)
  BY <1>1, <1>c, <1>l, CommitOutside DEF RunStart, c
<1>2. CASE ResumeContinue(p)
  BY <1>2, <1>c, <1>l, CommitOutside DEF ResumeContinue, c
<1>3. CASE ResumeReplan(p)
  BY <1>3, <1>c, <1>l, <1>t, TransitionStep DEF ResumeReplan, c
<1>4. CASE ResumePlanning(p)
  BY <1>4, <1>c, <1>l, CommitOutside DEF ResumePlanning, c
<1>5. CASE RecoverStop(p)
  BY <1>5, <1>c, <1>l, <1>t, StopStep DEF RecoverStop, c
<1>6. CASE RecoverSave(p)
  <2>1. (IF ContinuesPlan(c) THEN "step" ELSE "cycle") \in {"step", "cycle"}
    OBVIOUS
  <2> QED
    BY <1>6, <1>c, <1>l, <2>1, CommitOutside DEF RecoverSave, c
<1>7. CASE SubmitSave(p)
  <2>1. (IF Last(c.human_interactions).action = "reject" THEN 3 ELSE 2) \in Nat \ {0}
    OBVIOUS
  <2> QED
    BY <1>7, <1>c, <1>l, <2>1, CommitStep DEF SubmitSave, c
<1>8. CASE StopCancelled(p)
  <2>1. pc[p] \notin {"idle", "exit"}
    BY <1>8 DEF StopCancelled, AtBoundary, SafeBoundary
  <2> QED
    BY <1>8, <1>c, <1>l, <1>t, <2>1, StopStep DEF StopCancelled, c
<1>9. CASE StopRejected(p)
  <2>1. pc[p] \notin {"idle", "exit"}
    BY <1>9 DEF StopRejected, AtBoundary, SafeBoundary
  <2> QED
    BY <1>9, <1>c, <1>l, <1>t, <2>1, BlockStep DEF StopRejected, c
<1>10. CASE CycleLimit(p)
  BY <1>10, <1>c, <1>t, BlockStep DEF CycleLimit, c
<1>11. CASE StartPlanning(p)
  BY <1>11, <1>c, <1>l, <1>t, EnterStep DEF StartPlanning, c
<1>12. CASE BeginCycle(p)
  <2> DEFINE d == [c EXCEPT !.cycle_count = @ + 1]
  <2>1. Good(p, d)
    BY <1>c, CycleUpdate DEF c
  <2>2. pc[p] = "begin" /\ Goto(p, d, "planner")
    BY <1>12 DEF BeginCycle, c
  <2> HIDE DEF d
  <2> QED
    BY <1>l, <2>1, <2>2, GotoStep
<1>13. CASE \E plan \in Plans : PlanCreated(p, plan)
  <2>1. PICK plan \in Plans : PlanCreated(p, plan)
    BY <1>13
  <2>2. plan \in Seq(PlanStep)
    BY LoopAssumption
  <2> DEFINE d == [c EXCEPT !.current_plan = plan, !.current_step_index = 0]
  <2>3. d \in LoopContext /\ Same(c, d)
    BY <1>c, <2>2, PlanUpdate
  <2>4. pc[p] = "planner"
    BY <2>1 DEF PlanCreated, Returns
  <2>5. \/ Goto(p, c, "failing")
        \/ Block(p, DropPlan(c), "step_limit")
        \/ Commit(p, d, "step", "failing")
    BY <2>1 DEF PlanCreated, c
  <2> HIDE DEF d
  <2>6. Good(p, d) /\ Good(p, DropPlan(c))
    BY <1>c, <2>3, DropPlanUpdate, GoodSame DEF c
  <2>7. CASE Goto(p, c, "failing")
    BY <1>c, <1>l, <2>4, <2>7, GotoStep
  <2>8. CASE Block(p, DropPlan(c), "step_limit")
    BY <1>t, <2>4, <2>6, <2>8, BlockStep
  <2>9. CASE Commit(p, d, "step", "failing")
    BY <1>l, <2>4, <2>6, <2>9, CommitOutside
  <2> QED
    BY <2>5, <2>7, <2>8, <2>9
<1>14. CASE VerifyPending(p)
  <2>1. pc[p] = "step" /\ StepsLeft(c)
    BY <1>14, <1>b DEF VerifyPending, NextStep, PassesBoundary
  <2> QED
    BY <1>14, <1>c, <1>l, <1>t, <1>w, <2>1, EnterStep, GotoStep DEF VerifyPending, c
<1>15. CASE StartStep(p)
  <2>1. pc[p] = "step" /\ StepsLeft(c)
    BY <1>15, <1>b DEF StartStep, NextStep, PassesBoundary
  <2> QED
    BY <1>15, <1>c, <1>l, <1>t, <1>w, <2>1, EnterStep DEF StartStep, c
<1>16. CASE UseApproval(p)
  <2>1. pc[p] = "step" /\ StepsLeft(c)
    BY <1>16, <1>b DEF UseApproval, NextStep, PassesBoundary
  <2> QED
    BY <1>16, <1>c, <1>l, <1>t, <1>w, <2>1, CommitInside DEF UseApproval, c
<1>17. CASE AskGate(p)
  <2>1. pc[p] = "step" /\ StepsLeft(c)
    BY <1>17, <1>b DEF AskGate, NextStep, PassesBoundary
  <2> QED
    BY <1>17, <1>c, <1>l, <1>t, <1>w, <2>1, TransitionStep DEF AskGate, c
<1>18. CASE GateApproves(p)
  BY <1>18, <1>c, <1>s, <1>w, CommitInside DEF GateApproves, Returns, c
<1>19. CASE GateRejects(p)
  BY <1>19, <1>c, <1>t, BlockStep DEF GateRejects, Returns, c
<1>20. CASE GateDefers(p)
  <2>1. pc[p] = "gate" /\ RequestHuman(p, "approval", CurrentStep(c).step_id, "approval_deferred")
    BY <1>20 DEF GateDefers, Returns, c
  <2>2. CurrentStep(c).step_id \in StepIds /\ c.revision \in Nat
    BY <1>c, <1>s, <1>w, <2>1, CurrentStepType, Fields
  <2>3. [interaction_id |-> ctx[p].revision, kind |-> "approval", step |-> CurrentStep(c).step_id]
          \in Interaction
    BY <2>2 DEF Interaction, c
  <2> QED
    BY <1>t, <2>1, <2>3, RequestHumanStep
<1>21. CASE Paused(p)
  BY <1>21, <1>c, <1>l, CommitOutside DEF Paused, c
<1>22. CASE Approved(p)
  BY <1>22, <1>c, <1>s, <1>l, <1>t, <1>w, TransitionStep DEF Approved, c
<1>23. CASE BeginExecute(p)
  <2> DEFINE op == Operation(c, CurrentStep(c))
             d == [c EXCEPT !.active_operation_id = op]
  <2>1. pc[p] = "execute" /\ StepsLeft(c)
    BY <1>23, <1>s, <1>w DEF BeginExecute
  <2>2. op \in OperationId \cup {NoOperation}
    BY <1>c, <2>1, OperationType
  <2>3. Goto(p, d, "dispatch") \/ Goto(p, c, "broken")
    BY <1>23 DEF BeginExecute, c
  <2> HIDE DEF op
  <2>4. d \in LoopContext /\ SameStep(c, d)
    BY <1>c, <2>2, OperationUpdate
  <2> HIDE DEF d
  <2>5. Good(p, d) /\ StepsLeft(d)
    BY <1>c, <2>1, <2>4, GoodSameStep DEF c
  <2>6. CASE Goto(p, d, "dispatch")
    BY <1>l, <1>w, <2>1, <2>5, <2>6, GotoStep
  <2>7. CASE Goto(p, c, "broken")
    BY <1>c, <1>l, <2>1, <2>7, GotoStep
  <2> QED
    BY <2>3, <2>6, <2>7
<1>24. CASE AttemptLimit(p)
  BY <1>24, <1>c, <1>t, BlockStep DEF AttemptLimit, c
<1>25. CASE Dispatch(p)
  <2> DEFINE k == IF pc[p] = "dispatch" THEN 1 ELSE c.pending_attempt + 1
             d == [c EXCEPT !.total_attempts = @ + 1, !.pending_attempt = k]
  <2>1. pc[p] \in {"dispatch", "redispatch"} /\ c.total_attempts < MaxAttempts
    BY <1>25 DEF Dispatch, c
  <2>2. k \in Nat
    BY <1>c, Fields
  <2>3. CommitMany(p, d, 1, "executor", "failing")
    BY <1>25, Zenon DEF Dispatch, Commit, c
  <2> HIDE DEF k
  <2>4. /\ Good(p, d)
        /\ d.total_attempts = c.total_attempts + 1
        /\ StepsLeft(c) => StepsLeft(d)
    BY <1>c, <2>1, <2>2, AttemptUpdate DEF c
  <2> HIDE DEF d
  <2>5. d.total_attempts >= ctx[p].total_attempts + 1
    BY <1>c, <2>4, Fields DEF c
  <2>6. StepsLeft(d)
    BY <1>s, <1>w, <2>1, <2>4
  <2>7. "executor" \in Label /\ "failing" \in Label \ InStep /\ 1 \in Nat \ {0}
    BY <1>l, <1>w
  <2> QED
    BY <2>1, <2>3, <2>4, <2>5, <2>6, <2>7, CommitStep, SMTT(30)
<1>26. CASE ExecutorReturns(p)
  <2> DEFINE d == [c EXCEPT !.pending_execution = c.total_attempts]
  <2>1. pc[p] = "executor" /\ Commit(p, d, "verify", "retry")
    BY <1>26 DEF ExecutorReturns, Returns, c
  <2>2. d \in LoopContext /\ SameStep(c, d)
    BY <1>c, ResultUpdate
  <2> HIDE DEF d
  <2>3. Good(p, d) /\ StepsLeft(d)
    BY <1>c, <1>s, <1>w, <2>1, <2>2, GoodSameStep DEF c
  <2> QED
    BY <1>w, <2>1, <2>3, CommitInside
<1>27. CASE ExecutorRaises(p)
  BY <1>27, <1>c, <1>s, <1>l, <1>w, GotoStep DEF ExecutorRaises, Returns, c
<1>28. CASE ExecutorOverBudget(p)
  <2> DEFINE d == [c EXCEPT !.active_operation_id = NoOperation, !.pending_attempt = 0]
  <2>1. pc[p] = "executor" /\ Block(p, d, "budget_exhausted")
    BY <1>28 DEF ExecutorOverBudget, Returns, c
  <2>2. d \in LoopContext /\ SameStep(c, d)
    BY <1>c, ForgetUpdate
  <2> HIDE DEF d
  <2>3. Good(p, d)
    BY <1>c, <2>2, GoodSameStep DEF c
  <2> QED
    BY <1>t, <2>1, <2>3, BlockStep
<1>29. CASE RetryFails(p)
  BY <1>29, <1>c, <1>l, GotoStep DEF RetryFails, c
<1>30. CASE RetryReplans(p)
  <2> DEFINE e == DropPlan(c)
             d == [e EXCEPT !.active_operation_id = NoOperation, !.pending_attempt = 0]
  <2>1. pc[p] = "retry" /\ Transition(p, d, "planning", "cycle", "failing")
    BY <1>30 DEF RetryReplans, c
  <2>2. e \in LoopContext /\ Same(c, e)
    BY <1>c, DropPlanUpdate
  <2> HIDE DEF e
  <2>3. d \in LoopContext /\ SameStep(e, d)
    BY <2>2, ForgetUpdate
  <2> HIDE DEF d
  <2>4. Good(p, d)
    BY <1>c, <2>2, <2>3, GoodSame, GoodSameStep DEF c
  <2> QED
    BY <1>l, <1>t, <2>1, <2>4, TransitionStep
<1>31. CASE RetryRetries(p)
  BY <1>31, <1>c, <1>s, <1>w, CommitInside DEF RetryRetries, c
<1>32. CASE BackoffEnds(p)
  BY <1>32, <1>c, <1>s, <1>l, <1>w, GotoStep DEF BackoffEnds, Returns, c
<1>33. CASE StartVerification(p)
  BY <1>33, <1>c, <1>s, <1>l, <1>t, <1>w, EnterStep DEF StartVerification, c
<1>34. CASE \E passed \in BOOLEAN : VerifierReturns(p, passed)
  <2>1. PICK passed \in BOOLEAN : VerifierReturns(p, passed)
    BY <1>34
  <2> DEFINE l == IF passed THEN "step" ELSE "rejected"
  <2>2. /\ pc[p] = "verifier"
        /\ Commit(p, VerifiedContext(c, passed), l, "failing")
    BY <2>1 DEF VerifierReturns, Returns, c
  <2>3. Good(p, VerifiedContext(c, passed))
    BY <1>c, <1>s, <1>w, <2>2, VerifiedUpdate DEF c
  <2>4. l \in {"step", "rejected"}
    OBVIOUS
  <2> HIDE DEF l
  <2> QED
    BY <1>l, <2>2, <2>3, <2>4, CommitOutside
<1>35. CASE ReplanRejected(p)
  <2>1. Good(p, DropPlan(c))
    BY <1>c, DropPlanUpdate, GoodSame DEF c
  <2> QED
    BY <1>35, <1>l, <1>t, <2>1, TransitionStep DEF ReplanRejected, c
<1>36. CASE FinishApproved(p)
  <2> DEFINE d == [c EXCEPT !.completion_approved = FALSE]
  <2>1. pc[p] = "step" /\ Stop(p, d, "completed", "completed", "exit", "failing")
    BY <1>36 DEF FinishApproved, PlanDone, Complete, c
  <2>2. d \in LoopContext /\ SameStep(c, d)
    BY <1>c, CompletionUpdate
  <2> HIDE DEF d
  <2>3. Good(p, d)
    BY <1>c, <2>2, GoodSameStep DEF c
  <2> QED
    BY <1>l, <1>t, <2>1, <2>3, StopStep
<1>37. CASE FinishUnevaluated(p)
  BY <1>37, <1>c, <1>l, <1>t, StopStep DEF FinishUnevaluated, PlanDone, Complete, c
<1>38. CASE StartEvaluation(p)
  BY <1>38, <1>c, <1>l, CommitOutside DEF StartEvaluation, PlanDone, c
<1>39. CASE \E decision \in CompletionAction : EvaluatorDecides(p, decision)
  BY <1>39, <1>c, <1>l, CommitOutside DEF EvaluatorDecides, Returns, c
<1>40. CASE EvaluationAccepted(p)
  BY <1>40, <1>c, <1>l, <1>t, StopStep DEF EvaluationAccepted, Complete, c
<1>41. CASE EvaluationStops(p)
  BY <1>41, <1>c, <1>t, BlockStep DEF EvaluationStops, c
<1>42. CASE EvaluationAsksHuman(p)
  <2>1. PICK kind \in {"input", "completion_review"} :
          RequestHuman(p, kind, "none", "human_input_required")
    BY <1>42 DEF EvaluationAsksHuman
  <2>2. pc[p] = "request_human"
    BY <1>42 DEF EvaluationAsksHuman
  <2>3. [interaction_id |-> ctx[p].revision, kind |-> kind, step |-> "none"] \in Interaction
    BY <1>c, Fields DEF Interaction, c
  <2> QED
    BY <1>t, <2>1, <2>2, <2>3, RequestHumanStep
<1>43. CASE EvaluationReplans(p)
  <2>1. Good(p, DropPlan(c))
    BY <1>c, DropPlanUpdate, GoodSame DEF c
  <2> QED
    BY <1>43, <1>l, <2>1, CommitOutside DEF EvaluationReplans, c
<1>44. CASE StartReplanning(p)
  BY <1>44, <1>c, <1>l, <1>t, TransitionStep DEF StartReplanning, c
<1>45. CASE Heartbeat(p)
  <2> DEFINE r == SupervisionRaises(p)
  <2>1. pc[p] \in Awaiting /\ CommitMany(p, c, 1, pc[p], r)
    BY <1>45 DEF Heartbeat, Commit, c
  <2>2. r \in Label /\ (r \in InStep => StepsLeft(c)) /\ r # "executor"
    BY <1>s, <1>l, <1>w DEF SupervisionRaises
  <2>3. pc[p] \in Label \ {"idle", "exit", "dispatch", "redispatch"}
    BY <1>l, <2>1 DEF Awaiting
  <2> HIDE DEF r
  <2> QED
    BY <1>c, <1>s, <2>1, <2>2, <2>3, CommitStep
<1>46. CASE SupervisedCancel(p)
  <2> DEFINE r == SupervisionRaises(p)
  <2>1. pc[p] \in Awaiting /\ Stop(p, c, "cancelled", "cancelled", "exit", r)
    BY <1>46 DEF SupervisedCancel, c
  <2>2. r \in Label /\ (r \in InStep => StepsLeft(c)) /\ r # "executor"
    BY <1>s, <1>l, <1>w DEF SupervisionRaises
  <2>3. pc[p] \notin {"idle", "exit"}
    BY <2>1 DEF Awaiting
  <2> HIDE DEF r
  <2> QED
    BY <1>c, <1>t, <2>1, <2>2, <2>3, StopStep
<1>47. CASE SupervisedTimeout(p)
  <2> DEFINE r == SupervisionRaises(p)
  <2>1. pc[p] \in Awaiting /\ Stop(p, c, "timed_out", "timed_out", "exit", r)
    BY <1>47 DEF SupervisedTimeout, c
  <2>2. r \in Label /\ (r \in InStep => StepsLeft(c)) /\ r # "executor"
    BY <1>s, <1>l, <1>w DEF SupervisionRaises
  <2>3. pc[p] \notin {"idle", "exit"}
    BY <2>1 DEF Awaiting
  <2> HIDE DEF r
  <2> QED
    BY <1>c, <1>t, <2>1, <2>2, <2>3, StopStep
<1>48. CASE ComponentRaises(p)
  BY <1>48, <1>c, <1>l, GotoStep DEF ComponentRaises, Awaiting, c
<1>49. CASE ComponentOverBudget(p)
  BY <1>49, <1>c, <1>l, <1>t, StopStep DEF ComponentOverBudget, Awaiting, c
<1>50. CASE Fail(p)
  <2> DEFINE d == [c EXCEPT !.active = FALSE, !.stop_reason = "component_error"]
  <2>1. \/ Goto(p, c, "exit")
        \/ Transition(p, d, "failed", "exit", "exit")
    BY <1>50 DEF Fail, c
  <2>2. pc[p] \notin {"idle", "exit"}
    BY <1>50 DEF Fail
  <2>3. d \in LoopContext /\ SameStep(c, d)
    BY <1>c, <1>t, ReasonUpdate
  <2> HIDE DEF d
  <2>4. Good(p, d)
    BY <1>c, <2>3, GoodSameStep DEF c
  <2>5. CASE Goto(p, c, "exit")
    BY <1>c, <1>l, <2>2, <2>5, GotoStep
  <2>6. CASE Transition(p, d, "failed", "exit", "exit")
    BY <1>l, <1>t, <2>2, <2>4, <2>6, TransitionStep
  <2> QED
    BY <2>1, <2>5, <2>6
<1>51. CASE TaskCancelled(p)
  BY <1>51, <1>c, <1>l, GotoStep DEF TaskCancelled, Awaiting, c
<1>52. CASE StopCancelledTask(p)
  BY <1>52, <1>c, <1>l, <1>t, GotoStep, StopStep DEF StopCancelledTask, c
<1>53. CASE Exit(p)
  <2>1. /\ pc' = [pc EXCEPT ![p] = "idle"] /\ ctx' = [ctx EXCEPT ![p] = Blank]
        /\ store' = store /\ used' = used /\ History(p)
        /\ pc[p] = "exit"
        /\ cancelled' = [cancelled EXCEPT ![InstanceOf[p]] = FALSE]
    BY <1>53 DEF Exit, Land
  <2>2. /\ Kept
        /\ store' \in LoopContext /\ store'.total_attempts <= MaxAttempts
        /\ used' \in [calls : Nat, beats : Nat, faults : Nat]
        /\ Blank \in LoopContext /\ Blank.total_attempts <= MaxAttempts
        /\ Blank.revision <= store'.revision
        /\ "idle" \notin InStep
    BY <1>l, <2>1, BlankType, LoopAssumption, Fields
       DEF Kept, IndInv, TypeOK, BudgetOK, AttemptBudget
  <2>3. cancelled' \in [Instances -> BOOLEAN]
    BY <2>1 DEF IndInv, TypeOK
  <2>4. ~Dispatches(p)
    BY <2>1 DEF Dispatches
  <2> QED
    BY <1>l, <2>1, <2>2, <2>3, <2>4, CallStep
<1> QED
  BY <1>1, <1>2, <1>3, <1>4, <1>5, <1>6, <1>7, <1>8, <1>9, <1>10, <1>11, <1>12,
     <1>13, <1>14, <1>15, <1>16, <1>17, <1>18, <1>19, <1>20, <1>21, <1>22,
     <1>23, <1>24, <1>25, <1>26, <1>27, <1>28, <1>29, <1>30, <1>31, <1>32,
     <1>33, <1>34, <1>35, <1>36, <1>37, <1>38, <1>39, <1>40, <1>41, <1>42,
     <1>43, <1>44, <1>45, <1>46, <1>47, <1>48, <1>49, <1>50, <1>51, <1>52, <1>53
     DEF LoopStep

-----------------------------------------------------------------------------
(* The callers and the environment.                                         *)

LEMMA CallPreserves ==
  ASSUME IndInv, NEW p \in Procs, NEW c \in LoopContext, NEW l \in Entry,
         Continues(store, c), c.total_attempts <= MaxAttempts, Call(p, c, l)
  PROVE  IndInv' /\ Kept
<1>1. /\ pc' = [pc EXCEPT ![p] = l] /\ ctx' = [ctx EXCEPT ![p] = c]
      /\ store' = store /\ cancelled' = cancelled /\ History(p) /\ pc[p] = "idle"
  BY DEF Call, Land, Entry
<1>2. used' \in [calls : Nat, beats : Nat, faults : Nat]
  <2>1. used \in [calls : Nat, beats : Nat, faults : Nat]
    BY DEF IndInv, TypeOK
  <2>2. used.calls + 1 \in Nat
    BY <2>1
  <2> QED
    BY <2>1, <2>2, Zenon DEF Call
<1>3. /\ Kept
      /\ store' \in LoopContext /\ store'.total_attempts <= MaxAttempts
      /\ cancelled' \in [Instances -> BOOLEAN]
  BY <1>1 DEF Kept, IndInv, TypeOK, BudgetOK, AttemptBudget
<1>4. ~Dispatches(p)
  BY <1>1 DEF Dispatches
<1>5. l \in Label /\ l \notin InStep
  BY DEF Label, Entry, InStep
<1>6. c.revision <= store'.revision /\ Continues(store', c)
  <2>1. c.revision = store.revision /\ c.revision \in Nat
    BY Fields DEF Continues
  <2> QED
    BY <1>1, <2>1
<1> QED
  BY <1>1, <1>2, <1>3, <1>4, <1>5, <1>6, CallStep

LEMMA NewContextType ==
  ASSUME NEW request \in Requests
  PROVE  LET d == [NewContext(request) EXCEPT !.active = TRUE] IN
         d \in LoopContext /\ Continues(Blank, d) /\ d.total_attempts = 0
<1> DEFINE e == NewContext(request)
           d == [e EXCEPT !.active = TRUE]
<1>1. e \in LoopContext
  BY DEF NewContext, LoopContext, LoopStatus, StopReason, NoInteraction, Interaction,
         NoOperation
<1>2. /\ e.revision = 0 /\ e.event_sequence = 0 /\ e.cycle_count = 0
      /\ e.total_attempts = 0 /\ e.records = <<>> /\ e.human_interactions = <<>>
  BY DEF NewContext
<1>3. /\ Blank.revision = 0 /\ Blank.event_sequence = 0 /\ Blank.cycle_count = 0
      /\ Blank.total_attempts = 0 /\ Blank.records = <<>> /\ Blank.human_interactions = <<>>
  BY DEF NewContext, Blank
<1> HIDE DEF e
<1>4. d \in LoopContext
  BY <1>1, Zenon DEF LoopContext
<1>5. Same(e, d)
  BY <1>1 DEF LoopContext, Same
<1>6. Continues(Blank, d)
  <2>1. IsPrefix(Blank.records, d.records)
        /\ IsPrefix(Blank.human_interactions, d.human_interactions)
    BY <1>2, <1>3, <1>5, <1>4, Fields, BlankType, PrefixElements DEF Same
  <2> QED
    BY <1>2, <1>3, <1>5, <2>1 DEF Same, Continues
<1> QED
  BY <1>2, <1>4, <1>5, <1>6 DEF Same, e

LEMMA SameContinues ==
  ASSUME NEW c \in LoopContext, NEW d \in LoopContext, Same(c, d)
  PROVE  Continues(c, d) /\ d.total_attempts = c.total_attempts
  BY ContinuesRefl DEF Same, Continues

LEMMA ResumedUpdate ==
  ASSUME NEW c \in LoopContext, NEW mode
  PROVE  ResumedContext(c, mode) \in LoopContext /\ Same(c, ResumedContext(c, mode))
<1> DEFINE s == [c EXCEPT !.stop_reason = "none", !.active = TRUE]
           e == DropPlan(s)
           d == [e EXCEPT !.approved_step_ids = {}, !.completion_approved = FALSE,
                          !.replan_required = FALSE]
<1>1. ResumedContext(c, mode) = IF mode = "replan" THEN d ELSE s
  BY DEF ResumedContext
<1>2. s \in LoopContext
  <2>1. "none" \in StopReason
    BY DEF StopReason
  <2> QED
    BY <2>1, Zenon DEF LoopContext
<1>3. Same(c, s)
  BY DEF LoopContext, Same
<1> HIDE DEF s
<1>4. e \in LoopContext /\ Same(s, e)
  BY <1>2, DropPlanUpdate
<1> HIDE DEF e
<1>5. d \in LoopContext
  <2>1. {} \in SUBSET StepIds
    OBVIOUS
  <2> QED
    BY <1>4, <2>1, Zenon DEF LoopContext
<1>6. Same(e, d)
  BY <1>4 DEF LoopContext, Same
<1> HIDE DEF d
<1> QED
  BY <1>1, <1>2, <1>3, <1>4, <1>5, <1>6 DEF Same

LEMMA AnsweredUpdate ==
  ASSUME NEW c \in LoopContext, NEW r \in HumanResponse
  PROVE  /\ AnsweredContext(c, r) \in LoopContext
         /\ Continues(c, AnsweredContext(c, r))
         /\ AnsweredContext(c, r).total_attempts = c.total_attempts
<1> DEFINE a == [c EXCEPT !.human_interactions = Append(@, r),
                          !.pending_interaction = NoInteraction]
           pending == c.pending_interaction
           steps == IF pending.kind = "approval" THEN a.approved_step_ids \cup {pending.step}
                                                 ELSE a.approved_step_ids
           done == a.completion_approved \/ pending.kind = "completion_review"
                     \/ (c.current_plan # <<>> /\ ~StepsLeft(c))
           approved == [a EXCEPT !.approved_step_ids = steps, !.completion_approved = done]
           rejected == [a EXCEPT !.active = FALSE, !.stop_reason = "human_rejected",
                                 !.status = "blocked"]
           revised  == [a EXCEPT !.replan_required = TRUE]
<1>1. AnsweredContext(c, r) = CASE r.action = "approve" -> approved
                                [] r.action = "reject" -> rejected
                                [] OTHER -> revised
  BY Zenon DEF AnsweredContext
<1>2. /\ Append(c.human_interactions, r) \in Seq(HumanResponse)
      /\ IsPrefix(c.human_interactions, Append(c.human_interactions, r))
      /\ IsPrefix(c.records, c.records)
  BY Fields, PrefixAppend, PrefixElements
<1>3. a \in LoopContext
  <2>1. NoInteraction \in Interaction
    BY DEF NoInteraction, Interaction
  <2> QED
    BY <1>2, <2>1, Zenon DEF LoopContext
<1>4. /\ a.revision = c.revision /\ a.request = c.request
      /\ a.event_sequence = c.event_sequence /\ a.cycle_count = c.cycle_count
      /\ a.total_attempts = c.total_attempts /\ a.records = c.records
      /\ a.human_interactions = Append(c.human_interactions, r)
  BY DEF LoopContext
<1> HIDE DEF a
<1>5. Continues(c, a)
  BY <1>2, <1>4, Fields DEF Continues
<1>6. steps \in SUBSET StepIds
  BY <1>3, Fields DEF Interaction
<1>7. done \in BOOLEAN
  OBVIOUS
<1> HIDE DEF steps, done
<1>8. approved \in LoopContext /\ Same(a, approved)
  <2>1. approved \in LoopContext
    BY <1>3, <1>6, <1>7, Zenon DEF LoopContext
  <2>2. Same(a, approved)
    BY <1>3 DEF LoopContext, Same
  <2> QED
    BY <2>1, <2>2
<1>9. rejected \in LoopContext /\ Same(a, rejected)
  <2>1. "human_rejected" \in StopReason /\ "blocked" \in LoopStatus
    BY DEF StopReason, LoopStatus
  <2>2. rejected \in LoopContext
    BY <1>3, <2>1, Zenon DEF LoopContext
  <2>3. Same(a, rejected)
    BY <1>3 DEF LoopContext, Same
  <2> QED
    BY <2>2, <2>3
<1>10. revised \in LoopContext /\ Same(a, revised)
  <2>1. revised \in LoopContext
    BY <1>3, Zenon DEF LoopContext
  <2>2. Same(a, revised)
    BY <1>3 DEF LoopContext, Same
  <2> QED
    BY <2>1, <2>2
<1> HIDE DEF approved, rejected, revised
<1>11. AnsweredContext(c, r) \in {approved, rejected, revised}
  BY <1>1
<1>12. \A d \in {approved, rejected, revised} :
         d \in LoopContext /\ Continues(c, d) /\ d.total_attempts = c.total_attempts
  BY <1>4, <1>5, <1>8, <1>9, <1>10 DEF Same, Continues
<1> QED
  BY <1>11, <1>12

LEMMA CallerStepPreserves ==
  ASSUME IndInv, NEW p \in Procs, CallerStep(p)
  PROVE  IndInv' /\ Kept
<1>1. store \in LoopContext /\ store.total_attempts <= MaxAttempts /\ MaxAttempts \in Nat
  BY LoopAssumption DEF IndInv, TypeOK, BudgetOK, AttemptBudget
<1>2. ASSUME NEW request \in Requests, Run(p, request) PROVE IndInv' /\ Kept
  <2> DEFINE d == [NewContext(request) EXCEPT !.active = TRUE]
  <2>1. Call(p, d, "run_start") /\ ~Exists
    BY <1>2 DEF Run
  <2>2. store = Blank
    BY <1>1, <2>1, Fields DEF Exists, IndInv, FreshOK
  <2>3. d \in LoopContext /\ Continues(store, d) /\ d.total_attempts = 0
    BY <2>2, NewContextType
  <2> HIDE DEF d
  <2>4. "run_start" \in Entry
    BY DEF Entry
  <2> QED
    BY <1>1, <2>1, <2>3, <2>4, CallPreserves
<1>3. ASSUME NEW mode, Resume(p, mode) PROVE IndInv' /\ Kept
  <2> DEFINE m == EffectiveMode(store, mode)
             d == ResumedContext(store, m)
             l == IF m = "replan" THEN "resume_replan" ELSE "resume_continue"
  <2>1. Call(p, d, l)
    BY <1>3 DEF Resume
  <2> HIDE DEF m
  <2>2. d \in LoopContext /\ Same(store, d)
    BY <1>1, ResumedUpdate
  <2>3. l \in Entry
    BY DEF Entry
  <2> HIDE DEF d, l
  <2> QED
    BY <1>1, <2>1, <2>2, <2>3, SameContinues, CallPreserves
<1>4. CASE Recover(p)
  <2> DEFINE d == [store EXCEPT !.active = TRUE]
             l == IF InDoubt(store) THEN "recover_stop" ELSE "recover_save"
  <2>1. Call(p, d, l)
    BY <1>4 DEF Recover
  <2>2. d \in LoopContext
    BY <1>1, Zenon DEF LoopContext
  <2>3. Same(store, d)
    BY <1>1 DEF LoopContext, Same
  <2>4. l \in Entry
    BY DEF Entry
  <2> HIDE DEF d, l
  <2> QED
    BY <1>1, <2>1, <2>2, <2>3, <2>4, SameContinues, CallPreserves
<1>5. ASSUME NEW r \in Responses, SubmitHumanResponse(p, r) PROVE IndInv' /\ Kept
  <2>1. r \in HumanResponse
    BY <1>1, Fields DEF Responses, HumanResponse, Interaction
  <2>2. Call(p, AnsweredContext(store, r), "submit_save")
    BY <1>5 DEF SubmitHumanResponse
  <2>3. /\ AnsweredContext(store, r) \in LoopContext
        /\ Continues(store, AnsweredContext(store, r))
        /\ AnsweredContext(store, r).total_attempts = store.total_attempts
    BY <1>1, <2>1, AnsweredUpdate
  <2>4. "submit_save" \in Entry
    BY DEF Entry
  <2> QED
    BY <1>1, <2>2, <2>3, <2>4, CallPreserves
<1> QED
  BY <1>2, <1>3, <1>4, <1>5 DEF CallerStep

LEMMA CrashPreserves ==
  ASSUME IndInv, NEW i \in Instances, Crash(i)
  PROVE  IndInv' /\ Kept
<1>1. /\ store' = store /\ calls' = calls /\ unsettled' = unsettled /\ grants' = grants
      /\ Blank \in LoopContext /\ Blank.revision = 0 /\ Blank.total_attempts = 0
  BY BlankType DEF Crash
<1>2. \A p \in Procs : \/ pc'[p] = "idle" /\ ctx'[p] = Blank
                       \/ pc'[p] = pc[p] /\ ctx'[p] = ctx[p]
  BY DEF Crash
<1>3. TypeOK'
  <2>1. pc' \in [Procs -> Label] /\ ctx' \in [Procs -> LoopContext]
    BY <1>1 DEF Crash, IndInv, TypeOK, Label
  <2>2. cancelled' \in [Instances -> BOOLEAN]
    BY DEF Crash, IndInv, TypeOK
  <2>3. used' \in [calls : Nat, beats : Nat, faults : Nat]
    <3>1. used \in [calls : Nat, beats : Nat, faults : Nat]
      BY DEF IndInv, TypeOK
    <3>2. used.faults + 1 \in Nat
      BY <3>1
    <3> QED
      BY <3>1, <3>2, Zenon DEF Crash
  <2> QED
    BY <1>1, <2>1, <2>2, <2>3 DEF IndInv, TypeOK
<1>4. CursorOK'
  BY <1>2 DEF IndInv, CursorOK, InStep, StepsLeft
<1>5. FreshOK'
  <2>1. store.revision \in Nat
    BY Fields DEF IndInv, TypeOK
  <2> QED
    BY <1>1, <1>2, <2>1 DEF IndInv, FreshOK, Continues
<1>6. BudgetOK'
  BY <1>1, <1>2, LoopAssumption DEF IndInv, BudgetOK, AttemptBudget
<1> QED
  BY <1>1, <1>3, <1>4, <1>5, <1>6 DEF IndInv, Kept

-----------------------------------------------------------------------------
(* The theorems.                                                            *)

LEMMA InitIndInv == Init => IndInv
<1> SUFFICES ASSUME Init PROVE IndInv
  OBVIOUS
<1>1. Blank \in LoopContext /\ Blank.revision = 0 /\ Blank.total_attempts = 0
  BY BlankType
<1>2. /\ store = Blank /\ calls = <<>>
      /\ \A p \in Procs : ctx[p] = Blank /\ pc[p] = "idle"
  BY DEF Init
<1>3. TypeOK
  BY <1>1 DEF Init, TypeOK, Label
<1>4. CursorOK
  BY <1>2 DEF CursorOK, InStep
<1>5. FreshOK
  BY <1>1, <1>2 DEF FreshOK
<1>6. BudgetOK
  BY <1>1, <1>2, LoopAssumption DEF BudgetOK, AttemptBudget
<1> QED
  BY <1>3, <1>4, <1>5, <1>6 DEF IndInv

LEMMA NextPreserves == IndInv /\ [Next]_vars => IndInv' /\ Kept
<1> SUFFICES ASSUME IndInv, [Next]_vars PROVE IndInv' /\ Kept
  OBVIOUS
<1>1. ASSUME UNCHANGED vars PROVE IndInv' /\ Kept
  BY <1>1 DEF vars, IndInv, TypeOK, CursorOK, StepsLeft, FreshOK, Continues, Blank,
              BudgetOK, AttemptBudget, Kept
<1>2. ASSUME NEW p \in Procs, CallerStep(p) PROVE IndInv' /\ Kept
  BY <1>2, CallerStepPreserves
<1>3. ASSUME NEW p \in Procs, LoopStep(p) PROVE IndInv' /\ Kept
  BY <1>3, LoopStepPreserves
<1>4. ASSUME NEW i \in Instances, Cancel(i) PROVE IndInv' /\ Kept
  <2>1. cancelled' \in [Instances -> BOOLEAN]
    BY <1>4 DEF Cancel, IndInv, TypeOK
  <2> QED
    BY <1>4, <2>1 DEF Cancel, IndInv, TypeOK, CursorOK, StepsLeft, FreshOK, Continues, Blank,
                      BudgetOK, AttemptBudget, Kept
<1>5. ASSUME NEW i \in Instances, Crash(i) PROVE IndInv' /\ Kept
  BY <1>5, CrashPreserves
<1> QED
  BY <1>1, <1>2, <1>3, <1>4, <1>5 DEF Next, Quiet

\* The inductive invariant holds in every reachable state.
THEOREM Invariance == Spec => []IndInv
  BY InitIndInv, NextPreserves, PTL DEF Spec

\* Every variable keeps its type, whatever the callers, the components, the
\* store and the publisher of the controller do.
THEOREM TypeCorrect == Spec => []TypeOK
<1>1. IndInv => TypeOK
  BY DEF IndInv
<1> QED
  BY <1>1, Invariance, PTL

\* However many calls drive the run, crash and are repeated, the executor is
\* called at most max_attempts times: _execute counts a call in the checkpoint
\* before making it, and the CAS lets only one driver spend each attempt.
THEOREM AttemptsBounded == Spec => []AttemptBudget
<1>1. IndInv => AttemptBudget
  BY DEF IndInv, BudgetOK
<1> QED
  BY <1>1, Invariance, PTL

\* No save loses a record, a human response or a count that was committed, or
\* changes the request: a stale context never gets past the CAS of
\* CheckpointStore.save, and a level one only adds.
THEOREM CommittedKept == Spec => HistoryKept
<1>1. ASSUME IndInv, [Next]_vars
      PROVE  [Exists /\ store' # store =>
                /\ store'.request = store.request
                /\ store'.revision = store.revision + 1
                /\ store'.event_sequence > store.event_sequence
                /\ store'.cycle_count >= store.cycle_count
                /\ store'.total_attempts >= store.total_attempts
                /\ IsPrefix(store.records, store'.records)
                /\ IsPrefix(store.human_interactions, store'.human_interactions)]_vars
  BY <1>1, NextPreserves DEF Kept, Advances, Exists
<1> QED
  BY <1>1, Invariance, PTL DEF Spec, HistoryKept

-----------------------------------------------------------------------------
(* Second part: faults                                                     *)

\* Each call is made on an AgentLoop object of its own, or nobody calls cancel.
Separate == "cancel" \in Env => \A p, q \in Procs : InstanceOf[p] = InstanceOf[q] => p = q

\* The executor was called for operation op, as the n-th call of the run.
Called(op, n) == \E k \in DOMAIN calls : calls[k].ord = n /\ calls[k].op = op

\* The records of c are executor calls, each recorded once.
RecordsTraced(c) ==
  /\ \A i \in DOMAIN c.records :
       /\ Called(<<c.records[i].cycle, c.records[i].step.step_id>>, c.records[i].execution)
       /\ c.records[i].execution <= c.total_attempts
  /\ \A i, j \in DOMAIN c.records : i # j => c.records[i].execution # c.records[j].execution

\* The result c waits to have verified is a call that is not recorded yet, of
\* the operation c is at work on, if it still names one.
ResultTraced(c) ==
  c.pending_execution # 0 =>
    /\ c.pending_execution <= c.total_attempts
    /\ \A i \in DOMAIN c.records : c.records[i].execution # c.pending_execution
    /\ c.active_operation_id # NoOperation => Called(c.active_operation_id, c.pending_execution)

Traced(c) == RecordsTraced(c) /\ ResultTraced(c)

\* The responses of c answer different interactions under different keys; each
\* interaction was created at an earlier revision, and the one that is pending
\* has no answer yet.
AnsweredOnce(c) ==
  /\ \A i \in DOMAIN c.human_interactions :
       c.human_interactions[i].interaction_id < c.revision
  /\ \A i, j \in DOMAIN c.human_interactions :
       i # j => /\ c.human_interactions[i].interaction_id # c.human_interactions[j].interaction_id
                /\ c.human_interactions[i].key # c.human_interactions[j].key
  /\ c.pending_interaction # NoInteraction =>
       /\ c.pending_interaction.interaction_id <= c.revision
       /\ \A i \in DOMAIN c.human_interactions :
            c.human_interactions[i].interaction_id # c.pending_interaction.interaction_id

Honest(c) == Traced(c) /\ AnsweredOnce(c)

\* From BeginExecute to the record of its step a call works on one operation.
OnOperation == {"dispatch", "redispatch", "executor", "retry", "backoff", "verify", "verifier"}

\* What the label of a call says of its context.
Placed(l, c) ==
  /\ Honest(c)
  /\ l \in OnOperation => c.active_operation_id = Operation(c, CurrentStep(c))
  /\ l \in {"gate", "approved", "execute"} => c.pending_execution = 0
  /\ l \in {"verify", "verifier"} => c.pending_execution # 0
  /\ l = "executor" => /\ c.total_attempts # 0
                       /\ \A i \in DOMAIN c.records : c.records[i].execution < c.total_attempts

\* The executor that c waits for has been called.
Awaited(l, c) ==
  l = "executor" /\ c.status # "timed_out" => Called(c.active_operation_id, c.total_attempts)

StoreHonest ==
  /\ Honest(store)
  /\ store.pending_interaction # NoInteraction
       => store.pending_interaction.interaction_id < store.revision

WorkInv == StoreHonest /\ \A p \in Procs : Placed(pc[p], ctx[p]) /\ Awaited(pc[p], ctx[p])

\* Where a context whose run has ended may still be: on the way out, or, when
\* the save that ended it under supervision raised, in the hands of the retry
\* policy, out of time or with the cancellation mark still standing.
Leaving == {"idle", "exit", "failing", "broken", "cancelling", "submit_save"}
Ended(p, l, c) ==
  c.status \in Terminal =>
    \/ l \in Leaving
    \/ /\ l \in {"executor", "retry", "backoff", "redispatch"}
       /\ c.status = "timed_out" \/ (c.status = "cancelled" /\ cancelled[InstanceOf[p]])

EndInv ==
  /\ \A p \in Procs :
       /\ Ended(p, pc[p], ctx[p])
       /\ pc[p] \notin {"idle", "exit"} /\ ctx[p].revision = store.revision /\ store.status \in Terminal
            => ctx[p].status = store.status
  /\ \A i \in Instances : cancelled[i] => "cancel" \in Env

-----------------------------------------------------------------------------
(* A step of one call, save or not.                                         *)

\* d is at the same point of the same work as c.
SameWork(c, d) ==
  /\ d.records = c.records
  /\ d.current_plan = c.current_plan /\ d.current_step_index = c.current_step_index
  /\ d.cycle_count = c.cycle_count /\ d.total_attempts = c.total_attempts
  /\ d.active_operation_id = c.active_operation_id
  /\ d.pending_execution = c.pending_execution /\ d.pending_attempt = c.pending_attempt
  /\ d.pending_interaction = c.pending_interaction
  /\ d.human_interactions = c.human_interactions
  /\ d.approved_step_ids = c.approved_step_ids
  /\ d.completion_approved = c.completion_approved

\* d is c but for the numbers a save gives it.
Copy(c, d) ==
  /\ SameWork(c, d)
  /\ d.status = c.status /\ d.stop_reason = c.stop_reason /\ d.active = c.active

LEMMA CopySelf == \A c : Copy(c, c)
BY DEF Copy, SameWork

\* A save or the publication of its events may raise.
Faulty == "publish" \in Env \/ "storage" \in Env

\* Call p goes on with c, at next if c was saved, and otherwise at raised or
\* on its way out; a save that it does not learn of may have succeeded.
Went(p, c, next, raised) ==
  \E x \in LoopContext, l \in Label :
    /\ Land(p, x, l) /\ History(p) /\ cancelled' = cancelled
    /\ Copy(c, x) /\ x.revision \in {c.revision, c.revision + 1}
    /\ \/ store' = store
       \/ Fresh(c) /\ store' \in LoopContext /\ Copy(c, store') /\ store'.revision = c.revision + 1
    /\ x.revision = c.revision \/ (Fresh(c) /\ store' = x)
    /\ \/ l = next /\ Fresh(c) /\ store' = x /\ x.revision = c.revision + 1
       \/ l = raised /\ (next = raised \/ Faulty)
       \/ l = "cancelling" /\ pc[p] \in Driving
       \/ l \in {"exit", "idle"}

LEMMA GotoWent ==
  ASSUME NEW p, NEW c \in LoopContext, NEW l \in Label, Goto(p, c, l)
  PROVE  Went(p, c, l, l)
<1>1. Land(p, c, l) /\ History(p) /\ cancelled' = cancelled /\ store' = store
  BY DEF Goto
<1> QED BY <1>1, CopySelf DEF Went

LEMMA CommitWent ==
  ASSUME NEW p, NEW c \in LoopContext, NEW n \in Nat \ {0}, NEW next \in Label, NEW raised \in Label,
         CommitMany(p, c, n, next, raised)
  PROVE  Went(p, c, next, raised)
<1> DEFINE numbered == [c EXCEPT !.event_sequence = @ + n]
           saved    == [numbered EXCEPT !.revision = @ + 1]
<1>1. numbered \in LoopContext /\ numbered.revision = c.revision /\ c.revision \in Nat
  BY Numbered, Fields
<1>2. Copy(c, numbered)
  BY DEF Copy, SameWork, LoopContext
<1> HIDE DEF numbered
<1>3. saved \in LoopContext /\ saved.revision = c.revision + 1
  BY <1>1, Saved
<1>4. Copy(numbered, saved)
  BY <1>1 DEF Copy, SameWork, LoopContext
<1> HIDE DEF saved
<1>5. Copy(c, saved)
  BY <1>2, <1>4 DEF Copy, SameWork
<1>6. /\ cancelled' = cancelled
      /\ History(p)
      /\ \/ Fresh(c) /\ store' = saved /\ Land(p, saved, next)
         \/ Fresh(c) /\ store' = saved /\ Land(p, saved, raised) /\ Faulty
         \/ Faulty /\ Land(p, numbered, raised) /\ ((Fresh(c) /\ store' = saved) \/ store' = store)
         \/ /\ pc[p] \in Driving
            /\ Land(p, numbered, IF raised = "exit" THEN "exit" ELSE "cancelling")
            /\ (Fresh(c) /\ store' = saved) \/ store' = store
         \/ Land(p, c, IF pc[p] \in Driving THEN "exit" ELSE "idle") /\ store' = store
  BY Zenon DEF CommitMany, Faulty, numbered, saved
<1>7. {"exit", "idle", "cancelling"} \subseteq Label
  BY DEF Label, Driving
<1>8. CASE Fresh(c) /\ store' = saved /\ Land(p, saved, next)
  BY <1>3, <1>5, <1>6, <1>8 DEF Went
<1>9. CASE Fresh(c) /\ store' = saved /\ Land(p, saved, raised) /\ Faulty
  BY <1>3, <1>5, <1>6, <1>9 DEF Went
<1>10. CASE Faulty /\ Land(p, numbered, raised) /\ ((Fresh(c) /\ store' = saved) \/ store' = store)
  BY <1>1, <1>2, <1>3, <1>5, <1>6, <1>10 DEF Went
<1>11. CASE /\ pc[p] \in Driving
            /\ Land(p, numbered, IF raised = "exit" THEN "exit" ELSE "cancelling")
            /\ (Fresh(c) /\ store' = saved) \/ store' = store
  <2>1. PICK l \in {"exit", "cancelling"} : Land(p, numbered, l)
    BY <1>11
  <2> QED BY <1>1, <1>2, <1>3, <1>5, <1>6, <1>7, <1>11, <2>1 DEF Went
<1>12. CASE Land(p, c, IF pc[p] \in Driving THEN "exit" ELSE "idle") /\ store' = store
  <2>1. PICK l \in {"exit", "idle"} : Land(p, c, l)
    BY <1>12
  <2> QED BY <1>6, <1>7, <1>12, <2>1, CopySelf DEF Went
<1> QED BY <1>6, <1>8, <1>9, <1>10, <1>11, <1>12

LEMMA OneEventWent ==
  ASSUME NEW p, NEW c \in LoopContext, NEW next \in Label, NEW raised \in Label,
         Commit(p, c, next, raised)
  PROVE  Went(p, c, next, raised)
BY CommitWent DEF Commit

\* Call p goes on with the work of c, in state target if the table allows it.
Moved(p, c, target, next, raised) ==
  \E d \in LoopContext :
    /\ SameWork(c, d) /\ d.revision = c.revision
    /\ \/ /\ d.status = target /\ (c.status = target \/ target \in AllowedTransitions[c.status])
          /\ Went(p, d, next, raised)
       \/ /\ d.status = c.status /\ target \notin AllowedTransitions[c.status] /\ store' = store
          /\ \/ raised = "failing" /\ Went(p, d, "broken", "broken")
             \/ raised # "failing" /\ Went(p, d, raised, raised)

\* What a status is changed to.
LEMMA StatusWork ==
  ASSUME NEW c \in LoopContext, NEW target \in LoopStatus
  PROVE  LET d == [c EXCEPT !.status = target] IN
         d \in LoopContext /\ SameWork(c, d) /\ d.revision = c.revision /\ d.status = target
<1> DEFINE d == [c EXCEPT !.status = target]
<1>1. d \in LoopContext
  BY StatusUpdate
<1>2. SameWork(c, d) /\ d.revision = c.revision /\ d.status = target
  BY DEF LoopContext, SameWork
<1> QED BY <1>1, <1>2

LEMMA ReasonWork ==
  ASSUME NEW c \in LoopContext, NEW reason \in StopReason
  PROVE  LET d == [c EXCEPT !.active = FALSE, !.stop_reason = reason] IN
         d \in LoopContext /\ SameWork(c, d) /\ d.revision = c.revision /\ d.status = c.status
<1> DEFINE d == [c EXCEPT !.active = FALSE, !.stop_reason = reason]
<1>1. d \in LoopContext
  BY ReasonUpdate
<1>2. SameWork(c, d) /\ d.revision = c.revision /\ d.status = c.status
  BY DEF LoopContext, SameWork
<1> QED BY <1>1, <1>2

LEMMA SameWorkTrans ==
  ASSUME NEW c, NEW d, NEW e, SameWork(c, d), SameWork(d, e)
  PROVE  SameWork(c, e)
BY DEF SameWork

LEMMA TransitionMoved ==
  ASSUME NEW p, NEW c \in LoopContext, NEW target \in LoopStatus, NEW next \in Label, NEW raised \in Label,
         Transition(p, c, target, next, raised)
  PROVE  Moved(p, c, target, next, raised)
<1> DEFINE d == [c EXCEPT !.status = target]
<1>1. d \in LoopContext /\ SameWork(c, d) /\ d.revision = c.revision /\ d.status = target
  BY StatusWork
<1> HIDE DEF d
<1>2. CASE target \in AllowedTransitions[c.status]
  <2>1. Went(p, d, next, raised)
    BY <1>1, <1>2, OneEventWent DEF Transition, d
  <2> QED BY <1>1, <1>2, <2>1 DEF Moved
<1>3. CASE target \notin AllowedTransitions[c.status]
  <2>1. SameWork(c, c)
    BY DEF SameWork
  <2>2. CASE raised = "failing"
    <3>1. "broken" \in Label /\ Goto(p, c, "broken")
      BY <1>3, <2>2 DEF Transition, Label, Driving
    <3>2. Went(p, c, "broken", "broken")
      BY <3>1, GotoWent
    <3>3. store' = store
      BY <3>1 DEF Goto
    <3> QED BY <1>3, <2>1, <2>2, <3>2, <3>3 DEF Moved
  <2>3. CASE raised # "failing"
    <3>1. Goto(p, c, raised)
      BY <1>3, <2>3 DEF Transition
    <3>2. Went(p, c, raised, raised)
      BY <3>1, GotoWent
    <3>3. store' = store
      BY <3>1 DEF Goto
    <3> QED BY <1>3, <2>1, <2>3, <3>2, <3>3 DEF Moved
  <2> QED BY <2>2, <2>3
<1> QED BY <1>2, <1>3

\* _stop clears the clock and gives the reason first.
LEMMA StopMoved ==
  ASSUME NEW p, NEW c \in LoopContext, NEW status \in LoopStatus, NEW reason \in StopReason,
         NEW next \in Label, NEW raised \in Label,
         Stop(p, c, status, reason, next, raised)
  PROVE  Moved(p, c, status, next, raised)
<1> DEFINE d == [c EXCEPT !.active = FALSE, !.stop_reason = reason]
<1>1. d \in LoopContext /\ SameWork(c, d) /\ d.revision = c.revision /\ d.status = c.status
  BY ReasonWork
<1>2. \/ c.status = status /\ Commit(p, d, next, raised)
      \/ c.status # status /\ Transition(p, d, status, next, raised)
  BY DEF Stop
<1> HIDE DEF d
<1>3. CASE c.status = status /\ Commit(p, d, next, raised)
  <2>1. Went(p, d, next, raised)
    BY <1>1, <1>3, OneEventWent
  <2> QED BY <1>1, <1>3, <2>1 DEF Moved
<1>4. CASE c.status # status /\ Transition(p, d, status, next, raised)
  <2>1. Moved(p, d, status, next, raised)
    BY <1>1, <1>4, TransitionMoved
  <2> QED BY <1>1, <2>1, SameWorkTrans DEF Moved
<1> QED BY <1>2, <1>3, <1>4

\* if context.status is not target; the other way no state is saved.
LEMMA EnterMoved ==
  ASSUME NEW p, NEW c \in LoopContext, NEW target \in LoopStatus, NEW next \in Label, NEW raised \in Label,
         Enter(p, c, target, next, raised)
  PROVE  \/ c.status = target /\ Went(p, c, next, next)
         \/ Moved(p, c, target, next, raised)
<1>1. CASE c.status = target
  BY <1>1, GotoWent DEF Enter
<1>2. CASE c.status # target
  BY <1>2, TransitionMoved DEF Enter
<1> QED BY <1>1, <1>2

-----------------------------------------------------------------------------
(* What a step has to keep.                                                 *)

LEMMA CallsGrow ==
  ASSUME TypeOK, NEW p \in Procs, History(p)
  PROVE  \A o, n : Called(o, n) => Called(o, n)'
<1> DEFINE record == [op      |-> ctx'[p].active_operation_id,
                      ord     |-> ctx'[p].total_attempts,
                      granted |-> CurrentStep(ctx'[p]).requires_approval => ctx'[p].active_operation_id \in grants,
                      blind   |-> ctx'[p].active_operation_id \in unsettled]
<1>1. calls \in Seq(CallRecord)
  BY DEF TypeOK
<1>2. calls' = IF Dispatches(p) THEN Append(calls, record) ELSE calls
  BY DEF History
<1> HIDE DEF record
<1>3. \A k \in DOMAIN calls : k \in DOMAIN calls' /\ calls'[k] = calls[k]
  <2>1. CASE Dispatches(p)
    <3>1. calls' = Append(calls, record)
      BY <1>2, <2>1
    <3>2. DOMAIN calls = 1 .. Len(calls) /\ Len(calls) \in Nat
      BY <1>1
    <3>3. DOMAIN Append(calls, record) = 1 .. Len(calls) + 1
          /\ \A k \in 1 .. Len(calls) : Append(calls, record)[k] = calls[k]
      BY <1>1
    <3> QED BY <3>1, <3>2, <3>3
  <2>2. CASE ~Dispatches(p)
    BY <1>2, <2>2
  <2> QED BY <2>1, <2>2
<1> QED BY <1>3 DEF Called

\* A call that is counted is in the list.
LEMMA CallAdded ==
  ASSUME TypeOK, NEW p \in Procs, NEW c, ctx'[p] = c, History(p), Dispatches(p)
  PROVE  Called(c.active_operation_id, c.total_attempts)'
<1> DEFINE record == [op      |-> c.active_operation_id,
                      ord     |-> c.total_attempts,
                      granted |-> CurrentStep(c).requires_approval => c.active_operation_id \in grants,
                      blind   |-> c.active_operation_id \in unsettled]
<1>1. calls \in Seq(CallRecord)
  BY DEF TypeOK
<1>2. calls' = Append(calls, record)
  BY DEF History
<1>3. record.op = c.active_operation_id /\ record.ord = c.total_attempts
  OBVIOUS
<1> HIDE DEF record
<1>4. Len(calls) + 1 \in DOMAIN calls' /\ calls'[Len(calls) + 1] = record
  BY <1>1, <1>2
<1> QED BY <1>3, <1>4 DEF Called

LEMMA HonestCopy ==
  ASSUME NEW c \in LoopContext, NEW d \in LoopContext, SameWork(c, d), Honest(c),
         d.revision >= c.revision
  PROVE  Honest(d)
<1>1. Traced(d)
  BY DEF SameWork, Honest, Traced, RecordsTraced, ResultTraced
<1>2. AnsweredOnce(d)
  <2>1. /\ d.human_interactions = c.human_interactions
        /\ d.pending_interaction = c.pending_interaction
        /\ d.revision \in Nat /\ c.revision \in Nat
        /\ c.pending_interaction.interaction_id \in Nat
        /\ \A i \in DOMAIN c.human_interactions : c.human_interactions[i].interaction_id \in Nat
    <3>1. c.pending_interaction \in Interaction /\ c.human_interactions \in Seq(HumanResponse)
      BY Fields
    <3>2. \A i \in DOMAIN c.human_interactions : c.human_interactions[i] \in HumanResponse
      BY <3>1
    <3>3. \A i \in DOMAIN c.human_interactions : c.human_interactions[i].interaction_id \in Nat
      BY <3>2 DEF HumanResponse
    <3>4. c.pending_interaction.interaction_id \in Nat
      BY <3>1 DEF Interaction
    <3>5. d.human_interactions = c.human_interactions /\ d.pending_interaction = c.pending_interaction
      BY DEF SameWork
    <3> QED BY <3>3, <3>4, <3>5, Fields
  <2> QED BY <2>1 DEF Honest, AnsweredOnce
<1> QED BY <1>1, <1>2 DEF Honest

LEMMA PlacedCopy ==
  ASSUME NEW c \in LoopContext, NEW d \in LoopContext, SameWork(c, d), NEW l, Placed(l, c),
         d.revision >= c.revision
  PROVE  Placed(l, d)
<1>1. Honest(d)
  BY HonestCopy DEF Placed
<1>2. Operation(d, CurrentStep(d)) = Operation(c, CurrentStep(c))
  BY DEF SameWork, Operation, CurrentStep
<1> QED BY <1>1, <1>2 DEF Placed, SameWork

\* Outside the body of _execute_plan's loop the label says nothing.
LEMMA PlacedOutside ==
  ASSUME NEW c, Honest(c), NEW l, l \notin InStep
  PROVE  Placed(l, c)
BY DEF Placed, InStep, OnOperation

LEMMA CallsKept ==
  ASSUME \A o, n : Called(o, n) => Called(o, n)', NEW c
  PROVE  /\ Honest(c) => Honest(c)'
         /\ \A l : Placed(l, c) => Placed(l, c)'
         /\ \A l : Awaited(l, c) => Awaited(l, c)'
<1>1. ASSUME Honest(c) PROVE Honest(c)'
  <2>1. Traced(c)'
    BY <1>1 DEF Honest, Traced, RecordsTraced, ResultTraced
  <2> QED BY <1>1, <2>1 DEF Honest, AnsweredOnce
<1>2. ASSUME NEW l, Placed(l, c) PROVE Placed(l, c)'
  <2>1. Honest(c)'
    BY <1>1, <1>2 DEF Placed
  <2> QED BY <1>2, <2>1 DEF Placed
<1> QED BY <1>1, <1>2 DEF Awaited

LEMMA BlankPlaced ==
  /\ Honest(Blank) /\ Blank.status = "created" /\ Blank.pending_interaction = NoInteraction
  /\ Placed("idle", Blank) /\ Placed("exit", Blank)
<1>1. Honest(Blank) /\ Blank.status = "created" /\ Blank.pending_interaction = NoInteraction
  BY DEF Blank, NewContext, Honest, Traced, RecordsTraced, ResultTraced, AnsweredOnce
<1> QED BY <1>1, PlacedOutside DEF InStep
-----------------------------------------------------------------------------
(* What keeps the invariants.                                               *)

StaysEnded == store.status \in Terminal => store'.status = store.status /\ calls' = calls

WorkKept == WorkInv' /\ (EndInv /\ Separate => EndInv' /\ StaysEnded)

\* c is what call p has made of its context since its last save.
Level(p, c) ==
  /\ c \in LoopContext /\ c.revision = ctx[p].revision
  /\ c.status = ctx[p].status \/ ctx[p].status \notin Terminal

\* Call p may go on with c at l: into the executor only from the save before it.
Ready(p, l, c) ==
  /\ Placed(l, c)
  /\ \/ Awaited(l, c)
     \/ pc[p] \in {"dispatch", "redispatch"} /\ ~cancelled[InstanceOf[p]]

\* What a call other than p sees of a step of p.
LEMMA OthersKeep ==
  ASSUME IndInv, WorkInv, NEW p \in Procs, History(p), NEW q \in Procs,
         pc'[q] = pc[q], ctx'[q] = ctx[q]
  PROVE  Placed(pc[q], ctx[q])' /\ Awaited(pc[q], ctx[q])'
<1>1. \A o, n : Called(o, n) => Called(o, n)'
  BY CallsGrow DEF IndInv
<1>2. PICK l, c : l = pc[q] /\ c = ctx[q]
  OBVIOUS
<1>3. Placed(l, c) /\ Awaited(l, c)
  BY <1>2 DEF WorkInv
<1>4. Placed(l, c)' /\ Awaited(l, c)'
  BY <1>1, <1>3, CallsKept
<1>5. pc'[q] = l /\ ctx'[q] = c
  BY <1>2
<1> QED BY ZenonT(30), <1>4, <1>5 DEF Placed, Awaited, Honest, Traced, RecordsTraced, ResultTraced,
                          AnsweredOnce, Called, Operation, CurrentStep

\* A step of call p, which arrives at l with x.
LEMMA Arrives ==
  ASSUME IndInv, WorkInv, NEW p \in Procs, NEW x \in LoopContext, NEW l \in Label,
         Land(p, x, l), History(p), Placed(l, x),
         Awaited(l, x) \/ Dispatches(p), NEW s \in LoopContext, store' = s, Honest(s),
         s.pending_interaction # NoInteraction => s.pending_interaction.interaction_id < s.revision
  PROVE  WorkInv'
<1>1. \A o, n : Called(o, n) => Called(o, n)'
  BY CallsGrow DEF IndInv
<1>2. PICK y : y = (IF l \in {"idle", "exit"} THEN Blank ELSE x)
  OBVIOUS
<1>3. /\ pc'[p] = l /\ ctx'[p] = y
      /\ \A q \in Procs : q # p => pc'[q] = pc[q] /\ ctx'[q] = ctx[q]
  BY <1>2 DEF Land, IndInv, TypeOK
<1>4. Placed(l, y)' /\ Awaited(l, y)'
  <2>1. CASE l \in {"idle", "exit"}
    <3>1. Placed(l, Blank) /\ Awaited(l, Blank)
      BY <2>1, BlankPlaced DEF Awaited
    <3> QED BY <1>1, <1>2, <2>1, <3>1, CallsKept
  <2>2. CASE l \notin {"idle", "exit"}
    <3>1. y = x
      BY <1>2, <2>2
    <3>2. Placed(l, y)'
      BY <1>1, <3>1, CallsKept
    <3>3. CASE Awaited(l, x)
      BY <1>1, <3>1, <3>2, <3>3, CallsKept
    <3>4. CASE Dispatches(p)
      <4>1. Called(y.active_operation_id, y.total_attempts)'
        BY <1>3, <3>4, CallAdded DEF IndInv
      <4> QED BY <3>2, <4>1 DEF Awaited
    <3> QED BY <3>3, <3>4
  <2> QED BY <2>1, <2>2
<1>5. StoreHonest'
  <2>1. Honest(s)'
    BY <1>1, CallsKept
  <2> QED BY ZenonT(30), <2>1 DEF StoreHonest, Honest, Traced, RecordsTraced, ResultTraced, AnsweredOnce, Called
<1>6. ASSUME NEW q \in Procs PROVE Placed(pc[q], ctx[q])' /\ Awaited(pc[q], ctx[q])'
  <2>1. CASE q = p
    <3>1. pc'[q] = l /\ ctx'[q] = y
      BY <1>3, <2>1
    <3> QED BY ZenonT(30), <1>4, <3>1 DEF Placed, Awaited, Honest, Traced, RecordsTraced, ResultTraced,
                              AnsweredOnce, Called, Operation, CurrentStep
  <2>2. CASE q # p
    <3>1. /\ pc'[q] = pc[q] /\ ctx'[q] = ctx[q]
      BY <1>3, <2>2
    <3> QED BY <3>1, OthersKeep
  <2> QED BY <2>1, <2>2
<1> QED BY <1>5, <1>6 DEF WorkInv

\* A step of call p that may have saved keeps both invariants.
LEMMA WentKeeps ==
  ASSUME IndInv, WorkInv, NEW p \in Procs, NEW c, Level(p, c),
         NEW next \in Label, NEW raised \in Label, raised # "executor",
         pc[p] \notin {"idle", "exit"}, Ready(p, next, c), Placed(raised, c),
         EndInv => Ended(p, next, c) /\ Ended(p, raised, c),
         Went(p, c, next, raised)
  PROVE  WorkKept
<1>1. PICK x \in LoopContext, l \in Label :
        /\ Land(p, x, l) /\ History(p) /\ cancelled' = cancelled
        /\ Copy(c, x) /\ x.revision \in {c.revision, c.revision + 1}
        /\ \/ store' = store
           \/ Fresh(c) /\ store' \in LoopContext /\ Copy(c, store') /\ store'.revision = c.revision + 1
        /\ x.revision = c.revision \/ store' = x
        /\ \/ l = next /\ Fresh(c) /\ store' = x /\ x.revision = c.revision + 1
           \/ l = raised
           \/ l \in {"cancelling", "exit", "idle"}
  BY DEF Went
<1>2. /\ c \in LoopContext /\ store \in LoopContext
      /\ c.revision \in Nat /\ store.revision \in Nat /\ ctx[p] \in LoopContext
      /\ c.revision = ctx[p].revision
  BY Fields DEF Level, IndInv, TypeOK
<1>3. /\ pc'[p] = l
      /\ l \notin {"idle", "exit"} => ctx'[p] = x
      /\ \A q \in Procs : q # p => pc'[q] = pc[q] /\ ctx'[q] = ctx[q]
  BY <1>1 DEF Land, IndInv, TypeOK
<1>4. Honest(c)
  BY DEF Placed
<1>5. SameWork(c, x) /\ x.status = c.status /\ x.revision >= c.revision
  BY <1>1, <1>2 DEF Copy
<1>6. Placed(l, x)
  <2>1. CASE l = next \/ l = raised
    BY <1>2, <1>5, <2>1, PlacedCopy DEF Ready
  <2>2. CASE l \in {"cancelling", "exit", "idle"}
    <3>1. Honest(x)
      BY <1>2, <1>4, <1>5, HonestCopy
    <3> QED BY <2>2, <3>1, PlacedOutside DEF InStep
  <2> QED BY <1>1, <2>1, <2>2
<1>7. Awaited(l, x) \/ Dispatches(p)
  <2>1. CASE l # "executor" \/ x.status = "timed_out"
    BY <2>1 DEF Awaited
  <2>2. CASE l = "executor" /\ x.status # "timed_out"
    <3>1. l = next
      BY <1>1, <2>2
    <3>2. CASE Awaited(next, c)
      BY <1>5, <3>1, <3>2 DEF Awaited, SameWork
    <3>3. CASE pc[p] \in {"dispatch", "redispatch"} /\ ~cancelled[InstanceOf[p]]
      BY <1>3, <2>2, <3>3 DEF Dispatches
    <3> QED BY <3>2, <3>3 DEF Ready
  <2> QED BY <2>1, <2>2
<1>8. PICK s \in LoopContext : s = store'
  BY <1>1, <1>2
<1>9. /\ Honest(s)
      /\ s.pending_interaction # NoInteraction => s.pending_interaction.interaction_id < s.revision
  <2>1. CASE store' = store
    BY <1>8, <2>1 DEF WorkInv, StoreHonest
  <2>2. CASE Copy(c, s) /\ s.revision = c.revision + 1
    <3>1. SameWork(c, s) /\ s.revision >= c.revision
      BY <1>2, <2>2 DEF Copy
    <3>2. Honest(s)
      BY <1>2, <1>4, <3>1, HonestCopy
    <3>3. s.pending_interaction = c.pending_interaction /\ c.pending_interaction.interaction_id \in Nat
      BY <1>2, <3>1, Fields DEF SameWork, Interaction
    <3>4. c.pending_interaction # NoInteraction => c.pending_interaction.interaction_id <= c.revision
      BY <1>4 DEF Honest, AnsweredOnce
    <3> QED BY <1>2, <2>2, <3>2, <3>3, <3>4
  <2> QED BY <1>1, <1>8, <2>1, <2>2
<1>10. WorkInv'
  BY <1>1, <1>6, <1>7, <1>8, <1>9, Arrives
<1>11. ASSUME EndInv PROVE EndInv' /\ StaysEnded
  <2>1. Ended(p, l, x)
    BY <1>1, <1>5, <1>11 DEF Ended, Leaving
  <2>2. ASSUME NEW q \in Procs PROVE Ended(q, pc[q], ctx[q])'
    <3>1. CASE q = p
      <4>1. CASE l \in {"idle", "exit"}
        BY <1>3, <3>1, <4>1 DEF Ended, Leaving
      <4>2. CASE l \notin {"idle", "exit"}
        BY <1>1, <1>3, <2>1, <3>1, <4>2 DEF Ended
      <4> QED BY <4>1, <4>2
    <3>2. CASE q # p
      BY <1>1, <1>3, <1>11, <3>2 DEF EndInv, Ended
    <3> QED BY <3>1, <3>2
  <2>3. ASSUME store.status \in Terminal, c.revision = store.revision PROVE c.status = store.status
    BY <1>2, <1>11, <2>3 DEF EndInv, Level
  <2>4. ASSUME NEW q \in Procs, pc'[q] \notin {"idle", "exit"}, ctx'[q].revision = store'.revision,
               store'.status \in Terminal
        PROVE  ctx'[q].status = store'.status
    <3>1. CASE q = p
      <4>1. ctx'[q] = x
        BY <1>3, <2>4, <3>1
      <4>2. CASE store' = x
        BY <4>1, <4>2
      <4>3. CASE x.revision = c.revision
        <5>1. store' = store
          BY <1>1, <1>2, <2>4, <4>1, <4>3
        <5> QED BY <1>5, <2>3, <2>4, <4>1, <4>3, <5>1
      <4> QED BY <1>1, <4>2, <4>3
    <3>2. CASE q # p
      <4>1. ctx'[q] = ctx[q] /\ pc'[q] = pc[q] /\ ctx[q].revision <= store.revision
            /\ ctx[q].revision \in Nat
        BY <1>3, <3>2, Fields DEF IndInv, TypeOK, FreshOK
      <4>2. store' = store
        BY <1>1, <1>2, <2>4, <4>1 DEF Fresh
      <4> QED BY <1>11, <2>4, <4>1, <4>2 DEF EndInv
    <3> QED BY <3>1, <3>2
  <2>5. EndInv'
    BY <1>1, <1>11, <2>2, <2>4 DEF EndInv
  <2>6. ASSUME store.status \in Terminal PROVE store'.status = store.status /\ calls' = calls
    <3>1. store'.status = store.status
      <4>1. CASE store' = store
        BY <4>1
      <4>2. CASE Fresh(c) /\ Copy(c, store')
        BY <2>3, <2>6, <4>2 DEF Fresh, Copy
      <4> QED BY <1>1, <4>1, <4>2
    <3>2. ~Dispatches(p)
      <4> SUFFICES ASSUME Dispatches(p) PROVE FALSE
        OBVIOUS
      <4>1. l = "executor" /\ pc[p] \in {"dispatch", "redispatch"} /\ ~cancelled[InstanceOf[p]]
            /\ ctx'[p].status # "timed_out"
        BY <1>3 DEF Dispatches
      <4>2. x.status # "timed_out"
        BY <1>3, <4>1
      <4>3. l = next /\ Fresh(c)
        BY <1>1, <4>1
      <4>4. c.status = store.status
        BY <2>3, <2>6, <4>3 DEF Fresh
      <4> QED BY <1>5, <2>1, <2>6, <4>1, <4>2, <4>4 DEF Ended, Leaving
    <3>3. calls' = calls
      BY <1>1, <3>2 DEF History
    <3> QED BY <3>1, <3>3
  <2> QED BY <2>5, <2>6 DEF StaysEnded
<1> QED BY <1>10, <1>11 DEF WorkKept
-----------------------------------------------------------------------------
(* The steps a call is made of.                                             *)

LEMMA ReadyPlaced ==
  ASSUME NEW p, NEW c, NEW l, l # "executor", Placed(l, c)
  PROVE  Ready(p, l, c)
BY DEF Ready, Awaited

LEMMA GotoKeeps ==
  ASSUME IndInv, WorkInv, NEW p \in Procs, NEW c, Level(p, c), NEW l \in Label, l # "executor",
         pc[p] \notin {"idle", "exit"}, Placed(l, c), EndInv => Ended(p, l, c), Goto(p, c, l)
  PROVE  WorkKept
<1>1. Went(p, c, l, l)
  BY GotoWent DEF Level
<1> QED BY <1>1, WentKeeps, ReadyPlaced

LEMMA CommitKeeps ==
  ASSUME IndInv, WorkInv, NEW p \in Procs, NEW c, Level(p, c),
         NEW next \in Label, NEW raised \in Label, raised # "executor",
         pc[p] \notin {"idle", "exit"}, Ready(p, next, c), Placed(raised, c),
         EndInv => Ended(p, next, c) /\ Ended(p, raised, c), Commit(p, c, next, raised)
  PROVE  WorkKept
<1>1. Went(p, c, next, raised)
  BY OneEventWent DEF Level
<1> QED BY <1>1, WentKeeps

\* A save that ends the run under supervision may raise into the retry policy.
Raises(p, target, raised) ==
  target \in Terminal => \/ raised \in Leaving
                         \/ raised = "retry" /\ target = "timed_out"
                         \/ raised = "retry" /\ target = "cancelled" /\ cancelled[InstanceOf[p]]

LEMMA MoveKeeps ==
  ASSUME IndInv, WorkInv, NEW p \in Procs, NEW c, Level(p, c), NEW target \in LoopStatus,
         NEW next \in Label, next # "executor", NEW raised \in Label, raised # "executor",
         pc[p] \notin {"idle", "exit"}, Placed(next, c), Placed(raised, c),
         EndInv => Ended(p, raised, c),
         target \in Terminal => next \in Leaving, Raises(p, target, raised),
         Moved(p, c, target, next, raised)
  PROVE  WorkKept
<1>1. PICK d \in LoopContext :
        /\ SameWork(c, d) /\ d.revision = c.revision
        /\ \/ /\ d.status = target /\ (c.status = target \/ target \in AllowedTransitions[c.status])
              /\ Went(p, d, next, raised)
           \/ /\ d.status = c.status /\ target \notin AllowedTransitions[c.status]
              /\ \/ raised = "failing" /\ Went(p, d, "broken", "broken")
                 \/ raised # "failing" /\ Went(p, d, raised, raised)
  BY DEF Moved
<1>2. c \in LoopContext /\ c.revision \in Nat
  BY Fields DEF Level
<1>3. Placed(next, d) /\ Placed(raised, d)
  BY <1>1, <1>2, PlacedCopy
<1>4. ASSUME c.status \in Terminal PROVE AllowedTransitions[c.status] = {}
  BY <1>4 DEF Terminal, AllowedTransitions
<1>5. ASSUME d.status = target, c.status = target \/ target \in AllowedTransitions[c.status],
             Went(p, d, next, raised)
      PROVE  WorkKept
  <2>1. Level(p, d)
    BY <1>1, <1>4, <1>5 DEF Level
  <2>2. Ended(p, next, d) /\ Ended(p, raised, d)
    BY <1>5 DEF Ended, Raises
  <2> QED BY <1>3, <1>5, <2>1, <2>2, ReadyPlaced, WentKeeps
<1>6. ASSUME d.status = c.status PROVE Level(p, d)
  BY <1>1, <1>6 DEF Level
<1>7. ASSUME d.status = c.status, Went(p, d, "broken", "broken") PROVE WorkKept
  <2>1. "broken" \in Label /\ "broken" \notin InStep /\ "broken" # "executor" /\ "broken" \in Leaving
    BY DEF Label, Driving, InStep, Leaving
  <2>2. Placed("broken", d)
    BY <1>3, <2>1, PlacedOutside DEF Placed
  <2>3. Ended(p, "broken", d)
    BY <2>1 DEF Ended
  <2> QED BY <1>6, <1>7, <2>1, <2>2, <2>3, ReadyPlaced, WentKeeps
<1>8. ASSUME d.status = c.status, Went(p, d, raised, raised) PROVE WorkKept
  <2>1. EndInv => Ended(p, raised, d)
    BY <1>8 DEF Ended
  <2> QED BY <1>3, <1>6, <1>8, <2>1, ReadyPlaced, WentKeeps
<1> QED BY <1>1, <1>5, <1>7, <1>8

LEMMA TransitionKeeps ==
  ASSUME IndInv, WorkInv, NEW p \in Procs, NEW c, Level(p, c), NEW target \in LoopStatus,
         NEW next \in Label, next # "executor", NEW raised \in Leaving \cap Label,
         pc[p] \notin {"idle", "exit"}, Placed(next, c), Placed(raised, c),
         target \in Terminal => next \in Leaving,
         Transition(p, c, target, next, raised)
  PROVE  WorkKept
<1>1. Moved(p, c, target, next, raised)
  BY TransitionMoved DEF Level
<1>2. raised # "executor" /\ Raises(p, target, raised) /\ Ended(p, raised, c)
  BY DEF Leaving, Raises, Ended
<1> QED BY <1>1, <1>2, MoveKeeps

LEMMA StopKeeps ==
  ASSUME IndInv, WorkInv, NEW p \in Procs, NEW c, Level(p, c), NEW status \in LoopStatus,
         NEW reason \in StopReason, NEW next \in {"exit", "idle"},
         NEW raised \in Label, raised # "executor",
         pc[p] \notin {"idle", "exit"}, Placed(raised, c),
         EndInv => Ended(p, raised, c), Raises(p, status, raised),
         Stop(p, c, status, reason, next, raised)
  PROVE  WorkKept
<1>1. next \in Label /\ next # "executor" /\ next \in Leaving /\ next \notin InStep
  BY DEF Label, Driving, Leaving, InStep
<1>2. Moved(p, c, status, next, raised)
  BY <1>1, StopMoved DEF Level
<1>3. Placed(next, c)
  BY <1>1, PlacedOutside DEF Placed
<1> QED BY <1>1, <1>2, <1>3, MoveKeeps

LEMMA BlockKeeps ==
  ASSUME IndInv, WorkInv, NEW p \in Procs, NEW c, Level(p, c), Honest(c),
         NEW reason \in StopReason, pc[p] \notin {"idle", "exit"}, Block(p, c, reason)
  PROVE  WorkKept
<1>1. /\ "failing" \in Label /\ "failing" # "executor" /\ "failing" \notin InStep
      /\ "blocked" \in LoopStatus /\ "blocked" \notin Terminal
      /\ Ended(p, "failing", c) /\ Raises(p, "blocked", "failing")
  BY DEF Label, Driving, InStep, LoopStatus, Terminal, Ended, Leaving, Raises
<1>2. Placed("failing", c)
  BY <1>1, PlacedOutside
<1> QED BY <1>1, <1>2, StopKeeps DEF Block

LEMMA EnterKeeps ==
  ASSUME IndInv, WorkInv, NEW p \in Procs, NEW c, Level(p, c), NEW target \in LoopStatus \ Terminal,
         NEW next \in Label, next # "executor", NEW raised \in Leaving \cap Label,
         pc[p] \notin {"idle", "exit"}, Placed(next, c), Placed(raised, c),
         Enter(p, c, target, next, raised)
  PROVE  WorkKept
<1>1. CASE c.status = target
  <2>1. Goto(p, c, next) /\ Ended(p, next, c)
    BY <1>1 DEF Enter, Ended
  <2> QED BY <2>1, GotoKeeps
<1>2. CASE c.status # target
  <2>1. Transition(p, c, target, next, raised)
    BY <1>2 DEF Enter
  <2> QED BY <2>1, TransitionKeeps
<1> QED BY <1>1, <1>2
-----------------------------------------------------------------------------
(* The updates the controller makes to a context.                           *)

\* d differs from c in nothing that the invariants speak of, except that it may
\* have forgotten its operation.
Rearranged(c, d) ==
  /\ d \in LoopContext
  /\ d.status = c.status /\ d.revision = c.revision
  /\ d.records = c.records /\ d.total_attempts = c.total_attempts
  /\ d.pending_execution = c.pending_execution
  /\ d.active_operation_id \in {c.active_operation_id, NoOperation}
  /\ d.human_interactions = c.human_interactions
  /\ d.pending_interaction = c.pending_interaction

LEMMA RearrangedHonest ==
  ASSUME NEW c, NEW d, Honest(c), Rearranged(c, d)
  PROVE  Honest(d) /\ \A p : Level(p, c) => Level(p, d)
<1>1. \A p : Level(p, c) => Level(p, d)
  BY DEF Level, Rearranged
<1>2. Traced(d)
  BY DEF Rearranged, Honest, Traced, RecordsTraced, ResultTraced
<1>3. AnsweredOnce(d)
  BY DEF Rearranged, Honest, AnsweredOnce
<1> QED BY <1>1, <1>2, <1>3 DEF Honest

LEMMA RearrangedTrans ==
  ASSUME NEW c, NEW d, NEW e, Rearranged(c, d), Rearranged(d, e)
  PROVE  Rearranged(c, e)
BY DEF Rearranged

LEMMA CycleWork ==
  ASSUME NEW c \in LoopContext
  PROVE  Rearranged(c, [c EXCEPT !.cycle_count = @ + 1])
<1> DEFINE d == [c EXCEPT !.cycle_count = @ + 1]
<1>1. c.cycle_count + 1 \in Nat
  BY Fields
<1>2. d \in LoopContext
  BY <1>1, Zenon DEF LoopContext
<1> QED BY <1>2 DEF LoopContext, Rearranged

LEMMA PlanWork ==
  ASSUME NEW c \in LoopContext, NEW plan \in Seq(PlanStep)
  PROVE  Rearranged(c, [c EXCEPT !.current_plan = plan, !.current_step_index = 0])
<1>1. [c EXCEPT !.current_plan = plan, !.current_step_index = 0] \in LoopContext
  BY PlanUpdate
<1> QED BY <1>1 DEF LoopContext, Rearranged

LEMMA DropPlanWork ==
  ASSUME NEW c \in LoopContext
  PROVE  Rearranged(c, DropPlan(c))
<1>1. DropPlan(c) \in LoopContext
  BY DropPlanUpdate
<1> QED BY <1>1 DEF LoopContext, Rearranged, DropPlan

LEMMA ForgetWork ==
  ASSUME NEW c \in LoopContext
  PROVE  Rearranged(c, [c EXCEPT !.active_operation_id = NoOperation, !.pending_attempt = 0])
<1>1. [c EXCEPT !.active_operation_id = NoOperation, !.pending_attempt = 0] \in LoopContext
  BY ForgetUpdate
<1> QED BY <1>1 DEF LoopContext, Rearranged

LEMMA CompletionWork ==
  ASSUME NEW c \in LoopContext
  PROVE  Rearranged(c, [c EXCEPT !.completion_approved = FALSE])
<1>1. [c EXCEPT !.completion_approved = FALSE] \in LoopContext
  BY CompletionUpdate
<1> QED BY <1>1 DEF LoopContext, Rearranged

LEMMA FailureWork ==
  ASSUME NEW c \in LoopContext, NEW reason \in StopReason
  PROVE  Rearranged(c, [c EXCEPT !.active = FALSE, !.stop_reason = reason])
<1>1. [c EXCEPT !.active = FALSE, !.stop_reason = reason] \in LoopContext
  BY ReasonUpdate
<1> QED BY <1>1 DEF LoopContext, Rearranged

\* BeginExecute names the operation before there is a result.
LEMMA OperationWork ==
  ASSUME NEW p, NEW c, Level(p, c), Honest(c), c.pending_execution = 0, StepsLeft(c)
  PROVE  LET d == [c EXCEPT !.active_operation_id = Operation(c, CurrentStep(c))] IN
         Level(p, d) /\ Placed("dispatch", d) /\ d.status = c.status
<1> DEFINE op == Operation(c, CurrentStep(c))
           d == [c EXCEPT !.active_operation_id = op]
<1>1. op \in OperationId \cup {NoOperation}
  BY OperationType DEF Level
<1>2. c \in LoopContext
  BY DEF Level
<1> HIDE DEF op
<1>3. d \in LoopContext
  BY <1>1, <1>2, OperationUpdate
<1>4. /\ d.status = c.status /\ d.revision = c.revision
      /\ d.records = c.records /\ d.total_attempts = c.total_attempts
      /\ d.pending_execution = 0 /\ d.active_operation_id = op
      /\ d.human_interactions = c.human_interactions
      /\ d.pending_interaction = c.pending_interaction
      /\ d.cycle_count = c.cycle_count /\ d.current_plan = c.current_plan
      /\ d.current_step_index = c.current_step_index
  BY <1>2 DEF LoopContext
<1> HIDE DEF d
<1>5. Level(p, d)
  BY <1>3, <1>4 DEF Level
<1>6. Traced(d)
  BY <1>4 DEF Honest, Traced, RecordsTraced, ResultTraced
<1>7. AnsweredOnce(d)
  BY <1>4 DEF Honest, AnsweredOnce
<1>8. Operation(d, CurrentStep(d)) = op
  BY <1>4 DEF Operation, CurrentStep, op
<1>9. Placed("dispatch", d)
  BY <1>4, <1>6, <1>7, <1>8 DEF Placed, Honest, OnOperation
<1> QED BY <1>4, <1>5, <1>9 DEF d, op

\* The executor's result is the call that was counted last.
LEMMA ResultWork ==
  ASSUME NEW p, NEW c, Level(p, c), Placed("executor", c), Awaited("executor", c),
         c.status # "timed_out"
  PROVE  LET d == [c EXCEPT !.pending_execution = c.total_attempts] IN
         Level(p, d) /\ Placed("verify", d) /\ Placed("retry", d) /\ d.status = c.status
<1> DEFINE d == [c EXCEPT !.pending_execution = c.total_attempts]
<1>1. c \in LoopContext /\ d \in LoopContext /\ c.total_attempts \in Nat
  BY ResultUpdate, Fields DEF Level
<1>2. /\ d.status = c.status /\ d.revision = c.revision
      /\ d.records = c.records /\ d.total_attempts = c.total_attempts
      /\ d.pending_execution = c.total_attempts /\ d.active_operation_id = c.active_operation_id
      /\ d.human_interactions = c.human_interactions
      /\ d.pending_interaction = c.pending_interaction
      /\ d.cycle_count = c.cycle_count /\ d.current_plan = c.current_plan
      /\ d.current_step_index = c.current_step_index
  BY <1>1 DEF LoopContext
<1> HIDE DEF d
<1>3. Level(p, d)
  BY <1>1, <1>2 DEF Level
<1>4. \A i \in DOMAIN c.records : c.records[i].execution # c.total_attempts
  <2> SUFFICES ASSUME NEW i \in DOMAIN c.records PROVE c.records[i].execution # c.total_attempts
    OBVIOUS
  <2>1. c.records[i] \in IterationRecord
    BY <1>1, Fields
  <2>2. c.records[i].execution \in Nat /\ c.records[i].execution < c.total_attempts
    BY <2>1 DEF IterationRecord, Placed
  <2> QED BY <1>1, <2>2
<1>5. Traced(d)
  BY <1>1, <1>2, <1>4 DEF Placed, Awaited, Honest, Traced, RecordsTraced, ResultTraced
<1>6. AnsweredOnce(d)
  BY <1>2 DEF Placed, Honest, AnsweredOnce
<1>7. Operation(d, CurrentStep(d)) = Operation(c, CurrentStep(c))
  BY <1>2 DEF Operation, CurrentStep
<1>8. Placed("verify", d) /\ Placed("retry", d)
  BY <1>2, <1>5, <1>6, <1>7 DEF Placed, Honest, OnOperation
<1> QED BY <1>2, <1>3, <1>8 DEF d

\* An attempt is counted before its call.
LEMMA AttemptWork ==
  ASSUME NEW p, NEW c, Level(p, c), Honest(c), NEW k \in Nat,
         c.active_operation_id = Operation(c, CurrentStep(c))
  PROVE  LET d == [c EXCEPT !.total_attempts = @ + 1, !.pending_attempt = k] IN
         Level(p, d) /\ Placed("executor", d) /\ d.status = c.status
<1> DEFINE d == [c EXCEPT !.total_attempts = @ + 1, !.pending_attempt = k]
<1>1. c \in LoopContext /\ c.total_attempts \in Nat /\ c.total_attempts + 1 \in Nat
      /\ c.pending_execution \in Nat
  BY Fields DEF Level
<1>2. d \in LoopContext
  BY <1>1, Zenon DEF LoopContext
<1>3. /\ d.status = c.status /\ d.revision = c.revision
      /\ d.records = c.records /\ d.total_attempts = c.total_attempts + 1
      /\ d.pending_execution = c.pending_execution
      /\ d.active_operation_id = c.active_operation_id
      /\ d.human_interactions = c.human_interactions
      /\ d.pending_interaction = c.pending_interaction
      /\ d.cycle_count = c.cycle_count /\ d.current_plan = c.current_plan
      /\ d.current_step_index = c.current_step_index
  BY <1>1 DEF LoopContext
<1> HIDE DEF d
<1>4. Level(p, d)
  BY <1>2, <1>3 DEF Level
<1>5. \A i \in DOMAIN d.records : d.records[i].execution < d.total_attempts
                                  /\ d.records[i].execution <= d.total_attempts
  <2> SUFFICES ASSUME NEW i \in DOMAIN c.records
               PROVE  c.records[i].execution < c.total_attempts + 1
                      /\ c.records[i].execution <= c.total_attempts + 1
    BY <1>3
  <2>1. c.records[i] \in IterationRecord
    BY <1>1, Fields
  <2>2. c.records[i].execution \in Nat /\ c.records[i].execution <= c.total_attempts
    BY <2>1 DEF IterationRecord, Honest, Traced, RecordsTraced
  <2> QED BY <1>1, <2>2
<1>6. RecordsTraced(d)
  BY <1>3, <1>5 DEF Honest, Traced, RecordsTraced
<1>7. ResultTraced(d)
  BY <1>1, <1>3 DEF Honest, Traced, ResultTraced
<1>8. AnsweredOnce(d)
  BY <1>3 DEF Honest, AnsweredOnce
<1>9. Operation(d, CurrentStep(d)) = Operation(c, CurrentStep(c))
  BY <1>3 DEF Operation, CurrentStep
<1>10. Placed("executor", d)
  BY <1>1, <1>3, <1>5, <1>6, <1>7, <1>8, <1>9 DEF Placed, Honest, Traced, OnOperation
<1> QED BY <1>3, <1>4, <1>10 DEF d

\* The verifier's verdict is recorded for the call whose result it has seen.
LEMMA VerifiedWork ==
  ASSUME NEW p, NEW c, Level(p, c), Placed("verifier", c), StepsLeft(c), NEW passed \in BOOLEAN,
         VerifiedContext(c, passed) \in LoopContext
  PROVE  Level(p, VerifiedContext(c, passed)) /\ Honest(VerifiedContext(c, passed))
         /\ VerifiedContext(c, passed).status = c.status
<1> DEFINE record == [cycle      |-> c.cycle_count,
                      step_index |-> c.current_step_index,
                      step       |-> CurrentStep(c),
                      execution  |-> c.pending_execution,
                      passed     |-> passed,
                      attempt    |-> c.pending_attempt]
           d == VerifiedContext(c, passed)
<1>1. /\ c \in LoopContext /\ c.records \in Seq(IterationRecord)
      /\ c.total_attempts \in Nat /\ c.pending_execution \in Nat
  BY Fields DEF Level
<1>2. /\ d.status = c.status /\ d.revision = c.revision
      /\ d.records = Append(c.records, record) /\ d.total_attempts = c.total_attempts
      /\ d.pending_execution = 0
      /\ d.human_interactions = c.human_interactions
      /\ d.pending_interaction = c.pending_interaction
  BY <1>1 DEF VerifiedContext, LoopContext
<1>3. record.cycle = c.cycle_count /\ record.step = CurrentStep(c) /\ record.execution = c.pending_execution
  OBVIOUS
<1> HIDE DEF record
<1>4. Operation(c, CurrentStep(c)) = <<record.cycle, record.step.step_id>>
      /\ Operation(c, CurrentStep(c)) # NoOperation
  BY <1>3 DEF Operation, NoOperation
<1>5. /\ Called(<<record.cycle, record.step.step_id>>, record.execution)
      /\ record.execution <= c.total_attempts
      /\ \A i \in DOMAIN c.records : c.records[i].execution # record.execution
  BY <1>3, <1>4 DEF Placed, Honest, Traced, ResultTraced, OnOperation
<1>6. /\ DOMAIN c.records = 1 .. Len(c.records) /\ Len(c.records) \in Nat
      /\ DOMAIN d.records = 1 .. Len(c.records) + 1
      /\ d.records[Len(c.records) + 1] = record
      /\ \A i \in 1 .. Len(c.records) : d.records[i] = c.records[i]
  BY <1>1, <1>2
<1> HIDE DEF d
<1>7. ASSUME NEW i \in DOMAIN d.records
      PROVE  /\ Called(<<d.records[i].cycle, d.records[i].step.step_id>>, d.records[i].execution)
             /\ d.records[i].execution <= d.total_attempts
  <2>1. CASE i \in DOMAIN c.records
    <3>1. d.records[i] = c.records[i]
      BY <1>6, <2>1
    <3>2. /\ Called(<<c.records[i].cycle, c.records[i].step.step_id>>, c.records[i].execution)
          /\ c.records[i].execution <= c.total_attempts
      BY <2>1 DEF Placed, Honest, Traced, RecordsTraced
    <3> QED BY <1>2, <3>1, <3>2
  <2>2. CASE i = Len(c.records) + 1
    <3>1. d.records[i] = record
      BY <1>6, <2>2
    <3> QED BY <1>2, <1>5, <3>1
  <2> QED BY <1>6, <2>1, <2>2
<1>8. ASSUME NEW i \in DOMAIN d.records, NEW j \in DOMAIN d.records, i # j
      PROVE  d.records[i].execution # d.records[j].execution
  <2>1. CASE i \in DOMAIN c.records /\ j \in DOMAIN c.records
    BY <1>6, <1>8, <2>1 DEF Placed, Honest, Traced, RecordsTraced
  <2>2. CASE i \in DOMAIN c.records /\ j = Len(c.records) + 1
    BY <1>5, <1>6, <2>2
  <2>3. CASE i = Len(c.records) + 1 /\ j \in DOMAIN c.records
    BY <1>5, <1>6, <2>3
  <2> QED BY <1>6, <1>8, <2>1, <2>2, <2>3
<1>9. RecordsTraced(d)
  BY <1>7, <1>8 DEF RecordsTraced
<1>10. ResultTraced(d)
  BY <1>2 DEF ResultTraced
<1>11. AnsweredOnce(d)
  BY <1>2 DEF Placed, Honest, AnsweredOnce
<1>12. Level(p, d)
  BY <1>2 DEF Level, d
<1> QED BY <1>2, <1>9, <1>10, <1>11, <1>12 DEF Honest, Traced, d

\* What _request_human_interaction makes of c.
Asking(c, i, reason) ==
  [c EXCEPT !.pending_interaction = i, !.stop_reason = reason, !.active = FALSE]

\* A question is identified by the revision it is asked at.
LEMMA AskWork ==
  ASSUME NEW p, NEW c, Level(p, c), Honest(c), c.pending_interaction = NoInteraction,
         NEW i \in Interaction, i.interaction_id = c.revision, NEW reason \in StopReason
  PROVE  LET d == Asking(c, i, reason) IN Level(p, d) /\ Honest(d) /\ d.status = c.status
<1> DEFINE d == [c EXCEPT !.pending_interaction = i, !.stop_reason = reason, !.active = FALSE]
<1>1. c \in LoopContext /\ d \in LoopContext /\ c.revision \in Nat
      /\ c.human_interactions \in Seq(HumanResponse)
  BY AskUpdate, Fields DEF Level
<1>2. /\ d.status = c.status /\ d.revision = c.revision
      /\ d.records = c.records /\ d.total_attempts = c.total_attempts
      /\ d.pending_execution = c.pending_execution
      /\ d.active_operation_id = c.active_operation_id
      /\ d.human_interactions = c.human_interactions /\ d.pending_interaction = i
  BY <1>1 DEF LoopContext
<1> HIDE DEF d
<1>3. Level(p, d)
  BY <1>1, <1>2 DEF Level
<1>4. Traced(d)
  BY <1>2 DEF Honest, Traced, RecordsTraced, ResultTraced
<1>5. \A k \in DOMAIN c.human_interactions :
        c.human_interactions[k].interaction_id # c.revision
  <2> SUFFICES ASSUME NEW k \in DOMAIN c.human_interactions
               PROVE  c.human_interactions[k].interaction_id # c.revision
    OBVIOUS
  <2>1. c.human_interactions[k] \in HumanResponse
    BY <1>1
  <2>2. c.human_interactions[k].interaction_id \in Nat
        /\ c.human_interactions[k].interaction_id < c.revision
    BY <2>1 DEF HumanResponse, Honest, AnsweredOnce
  <2> QED BY <1>1, <2>2
<1>6. AnsweredOnce(d)
  BY <1>1, <1>2, <1>5 DEF Honest, AnsweredOnce
<1>7. d = Asking(c, i, reason)
  BY DEF Asking, d
<1> QED BY <1>2, <1>3, <1>4, <1>6, <1>7 DEF Honest

LEMMA RequestHumanKeeps ==
  ASSUME IndInv, WorkInv, NEW p \in Procs, Honest(ctx[p]), NEW kind, NEW step, NEW reason \in StopReason,
         [interaction_id |-> ctx[p].revision, kind |-> kind, step |-> step] \in Interaction,
         pc[p] \notin {"idle", "exit"}, RequestHuman(p, kind, step, reason)
  PROVE  WorkKept
<1> DEFINE i == [interaction_id |-> ctx[p].revision, kind |-> kind, step |-> step]
           d == [ctx[p] EXCEPT !.pending_interaction = i, !.stop_reason = reason,
                               !.active = FALSE]
<1>1. ctx[p] \in LoopContext /\ Level(p, ctx[p])
  BY DEF IndInv, TypeOK, Level
<1>2. \/ ctx[p].pending_interaction = NoInteraction /\ ctx[p].status = "paused"
           /\ Commit(p, d, "pausing", "failing")
      \/ ctx[p].pending_interaction = NoInteraction /\ Transition(p, d, "paused", "pausing", "failing")
      \/ Goto(p, ctx[p], "broken")
  BY DEF RequestHuman
<1>3. i \in Interaction /\ i.interaction_id = ctx[p].revision
  OBVIOUS
<1> HIDE DEF i
<1>4. ASSUME ctx[p].pending_interaction = NoInteraction
      PROVE  Level(p, d) /\ Honest(d) /\ d.status = ctx[p].status
  <2>1. PICK c : c = ctx[p]
    OBVIOUS
  <2>2. Level(p, c) /\ Honest(c) /\ c.pending_interaction = NoInteraction
    BY <1>1, <1>4, <2>1
  <2>3. i \in Interaction /\ i.interaction_id = c.revision
    BY <1>3, <2>1
  <2>4. Level(p, Asking(c, i, reason)) /\ Honest(Asking(c, i, reason))
        /\ Asking(c, i, reason).status = c.status
    BY <2>2, <2>3, AskWork
  <2>5. d = Asking(c, i, reason)
    BY <2>1 DEF Asking
  <2> HIDE DEF d
  <2> QED BY <2>1, <2>4, <2>5
<1> HIDE DEF d
<1>5. /\ {"pausing", "failing", "broken"} \subseteq Label \ InStep
      /\ "executor" \notin {"pausing", "failing", "broken"}
      /\ {"failing", "broken"} \subseteq Leaving
      /\ "paused" \in LoopStatus /\ "paused" \notin Terminal
  BY DEF Label, Driving, InStep, LoopStatus, Leaving, Terminal
<1>6. \A l \in {"pausing", "failing", "broken"} : \A c : Honest(c) => Placed(l, c)
  BY <1>5, PlacedOutside
<1>7. CASE ctx[p].pending_interaction = NoInteraction /\ ctx[p].status = "paused"
           /\ Commit(p, d, "pausing", "failing")
  <2>1. Level(p, d) /\ Honest(d) /\ d.status = "paused"
    BY <1>4, <1>7
  <2>2. Ended(p, "pausing", d) /\ Ended(p, "failing", d)
    BY <1>5, <2>1 DEF Ended
  <2>3. Ready(p, "pausing", d) /\ Placed("failing", d)
    BY <1>5, <1>6, <2>1, ReadyPlaced
  <2> QED BY <1>5, <1>7, <2>1, <2>2, <2>3, CommitKeeps
<1>8. CASE ctx[p].pending_interaction = NoInteraction /\ Transition(p, d, "paused", "pausing", "failing")
  <2>1. Level(p, d) /\ Honest(d)
    BY <1>4, <1>8
  <2>2. Placed("pausing", d) /\ Placed("failing", d)
    BY <1>6, <2>1
  <2> QED BY <1>5, <1>8, <2>1, <2>2, TransitionKeeps
<1>9. CASE Goto(p, ctx[p], "broken")
  <2>1. Placed("broken", ctx[p]) /\ Ended(p, "broken", ctx[p])
    BY <1>5, <1>6 DEF Ended
  <2> QED BY <1>1, <1>5, <1>9, <2>1, GotoKeeps
<1> QED BY <1>2, <1>7, <1>8, <1>9

\* The end of a call on an object of its own clears no other call's mark.
LEMMA ExitKeeps ==
  ASSUME IndInv, WorkInv, NEW p \in Procs, Exit(p)
  PROVE  WorkKept
<1>1. /\ pc[p] = "exit" /\ Land(p, ctx[p], "idle") /\ History(p) /\ store' = store
      /\ cancelled' = [cancelled EXCEPT ![InstanceOf[p]] = FALSE]
  BY DEF Exit
<1>2. /\ ctx[p] \in LoopContext /\ store \in LoopContext /\ "idle" \in Label
      /\ InstanceOf \in [Procs -> Instances]
  BY LoopAssumption DEF IndInv, TypeOK, Label
<1>3. /\ pc'[p] = "idle" /\ ctx'[p] = Blank
      /\ \A q \in Procs : q # p => pc'[q] = pc[q] /\ ctx'[q] = ctx[q]
  BY <1>1 DEF Land, IndInv, TypeOK
<1>4. WorkInv'
  <2>1. Placed("idle", ctx[p])
    <3>1. Honest(ctx[p])
      BY DEF WorkInv, Placed
    <3> QED BY <3>1, PlacedOutside DEF InStep
  <2>2. Awaited("idle", ctx[p])
    BY DEF Awaited
  <2>3. Honest(store) /\ (store.pending_interaction # NoInteraction
                            => store.pending_interaction.interaction_id < store.revision)
    BY DEF WorkInv, StoreHonest
  <2> QED BY <1>1, <1>2, <2>1, <2>2, <2>3, Arrives
<1>5. calls' = calls
  BY <1>1 DEF History, Dispatches
<1>6. ASSUME EndInv, Separate PROVE EndInv'
  <2>1. \A i \in Instances : cancelled'[i] => cancelled[i]
    BY <1>1 DEF IndInv, TypeOK
  <2>2. ASSUME NEW q \in Procs, q # p, cancelled[InstanceOf[q]] PROVE cancelled'[InstanceOf[q]]
    <3>1. InstanceOf[q] \in Instances /\ InstanceOf[p] \in Instances
      BY <1>2
    <3>2. "cancel" \in Env
      BY <1>6, <2>2, <3>1 DEF EndInv
    <3>3. InstanceOf[q] # InstanceOf[p]
      BY <1>6, <2>2, <3>2 DEF Separate
    <3> QED BY <1>1, <2>2, <3>1, <3>3 DEF IndInv, TypeOK
  <2>3. ASSUME NEW q \in Procs PROVE Ended(q, pc[q], ctx[q])'
    <3>1. CASE q = p
      BY <1>3, <3>1 DEF Ended, Leaving
    <3>2. CASE q # p
      BY <1>3, <1>6, <2>2, <3>2 DEF EndInv, Ended
    <3> QED BY <3>1, <3>2
  <2>4. ASSUME NEW q \in Procs, pc'[q] \notin {"idle", "exit"}, ctx'[q].revision = store'.revision,
               store'.status \in Terminal
        PROVE  ctx'[q].status = store'.status
    BY <1>1, <1>3, <1>6, <2>4 DEF EndInv
  <2> QED BY <1>6, <2>1, <2>3, <2>4 DEF EndInv
<1> QED BY <1>1, <1>4, <1>5, <1>6 DEF WorkKept, StaysEnded

-----------------------------------------------------------------------------
(* One step of the call on p.                                               *)

LEMMA LoopStepKeeps ==
  ASSUME IndInv, WorkInv, NEW p \in Procs, LoopStep(p)
  PROVE  WorkKept
<1> DEFINE c == ctx[p]
           Outer == Label \ InStep
<1>c. /\ c \in LoopContext /\ Level(p, c) /\ Placed(pc[p], c) /\ Awaited(pc[p], c)
      /\ Honest(c) /\ c = ctx[p]
  BY DEF IndInv, TypeOK, Level, WorkInv, Placed
<1>s. pc[p] \in InStep => StepsLeft(c)
  BY DEF IndInv, CursorOK
<1>b. pc[p] = "step" /\ AtBoundary(p) => StepsLeft(c)
  BY DEF AtBoundary
<1>l. /\ {"idle", "exit", "cycle", "step", "begin", "planner", "pausing", "rejected",
          "replanned", "failing", "broken", "cancelling", "evaluator"}
           \subseteq Outer
      /\ CompletionAction \subseteq Outer
      /\ "resume_planning" \in Outer
      /\ InStep \subseteq Label
      /\ Outer \subseteq Label
      /\ "executor" \notin Outer
      /\ Awaiting \subseteq Label
      /\ {"idle", "exit", "failing", "broken", "cancelling"} \subseteq Leaving \cap Label
  BY DEF Label, Driving, Awaiting, Entry, CompletionAction, InStep, Leaving
<1>t. /\ {"planning", "executing", "verifying", "waiting_approval", "blocked"}
           \subseteq LoopStatus \ Terminal
      /\ {"completed", "cancelled", "timed_out", "failed"} \subseteq LoopStatus
      /\ {"policy_rejected", "approval_rejected", "approval_deferred", "cycle_limit",
          "attempt_limit", "step_limit", "cancelled", "timed_out", "completed",
          "human_input_required", "completion_rejected", "component_error",
          "budget_exhausted", "recovery_required"} \subseteq StopReason
  BY DEF LoopStatus, StopReason, Terminal
<1>w. {"gate", "approved", "execute", "dispatch", "redispatch", "executor",
       "retry", "backoff", "verify", "verifier"} = InStep
  BY DEF InStep
<1>o. \A l \in Outer : \A d : Honest(d) => Placed(l, d)
  BY PlacedOutside
<1>r. \A l \in Outer : \A d : Honest(d) => Ready(p, l, d)
  BY <1>l, <1>o, ReadyPlaced
<1>f. \A l \in {"idle", "exit", "failing", "broken", "cancelling"} : \A d : Ended(p, l, d)
  BY <1>l DEF Ended
<1>n. ASSUME pc[p] \notin Leaving \cup {"executor", "retry", "backoff", "redispatch"}
      PROVE  EndInv => \A l, d : d.status = c.status => Ended(p, l, d)
  BY <1>n, <1>c DEF EndInv, Ended
<1>m. ASSUME pc[p] \in {"executor", "retry", "backoff", "redispatch"}
      PROVE  EndInv => \A l \in {"executor", "retry", "backoff", "redispatch"} : \A d :
                         d.status = c.status => Ended(p, l, d)
  BY <1>m, <1>c DEF EndInv, Ended, Leaving
<1>z. \A target, raised : (target \notin Terminal \/ raised \in Leaving) => Raises(p, target, raised)
  BY DEF Raises
<1>h. \A d : Rearranged(c, d) => Level(p, d) /\ Honest(d) /\ d.status = c.status
  BY <1>c, RearrangedHonest DEF Rearranged
<1> HIDE DEF c, Outer
<1>1. CASE RunStart(p)
  BY <1>1, <1>c, <1>l, <1>o, <1>r, <1>f, <1>n, CommitKeeps DEF RunStart, Leaving
<1>2. CASE ResumeContinue(p)
  BY <1>2, <1>c, <1>l, <1>o, <1>r, <1>f, <1>n, CommitKeeps DEF ResumeContinue, Leaving
<1>3. CASE ResumeReplan(p)
  BY <1>3, <1>c, <1>l, <1>o, <1>t, TransitionKeeps DEF ResumeReplan
<1>4. CASE ResumePlanning(p)
  BY <1>4, <1>c, <1>l, <1>o, <1>r, <1>f, <1>n, CommitKeeps DEF ResumePlanning, Leaving
<1>5. CASE RecoverStop(p)
  BY <1>5, <1>c, <1>l, <1>o, <1>t, <1>f, <1>z, StopKeeps DEF RecoverStop
<1>6. CASE RecoverSave(p)
  <2>1. PICK l \in {"step", "cycle"} : Commit(p, c, l, "idle")
    BY <1>6, <1>c DEF RecoverSave
  <2>2. pc[p] = "recover_save"
    BY <1>6 DEF RecoverSave
  <2> QED BY <2>1, <2>2, <1>c, <1>l, <1>o, <1>r, <1>f, <1>n, CommitKeeps DEF Leaving
<1>7. CASE SubmitSave(p)
  <2>1. PICK n \in Nat \ {0} : CommitMany(p, c, n, "idle", "idle")
    BY <1>7, <1>c DEF SubmitSave
  <2>2. pc[p] = "submit_save" /\ Went(p, c, "idle", "idle")
    BY <1>7, <1>c, <1>l, <2>1, CommitWent DEF SubmitSave
  <2> QED BY <1>c, <1>l, <1>o, <1>r, <1>f, <2>2, WentKeeps
<1>8. CASE StopCancelled(p)
  BY <1>8, <1>c, <1>l, <1>o, <1>t, <1>f, <1>z, StopKeeps DEF StopCancelled, AtBoundary, SafeBoundary
<1>9. CASE StopRejected(p)
  BY <1>9, <1>c, <1>t, BlockKeeps DEF StopRejected, AtBoundary, SafeBoundary
<1>10. CASE CycleLimit(p)
  BY <1>10, <1>c, <1>t, BlockKeeps DEF CycleLimit
<1>11. CASE StartPlanning(p)
  BY <1>11, <1>c, <1>l, <1>o, <1>t, EnterKeeps DEF StartPlanning
<1>12. CASE BeginCycle(p)
  <2> DEFINE d == [c EXCEPT !.cycle_count = @ + 1]
  <2>1. Rearranged(c, d)
    BY <1>c, CycleWork
  <2>2. pc[p] = "begin" /\ Goto(p, d, "planner")
    BY <1>12, <1>c DEF BeginCycle
  <2> HIDE DEF d
  <2>3. EndInv => Ended(p, "planner", d)
    BY <1>n, <1>h, <2>1, <2>2 DEF Leaving
  <2> QED BY <1>l, <1>o, <1>h, <2>1, <2>2, <2>3, GotoKeeps
<1>13. CASE \E plan \in Plans : PlanCreated(p, plan)
  <2>1. PICK plan \in Plans : PlanCreated(p, plan)
    BY <1>13
  <2>2. plan \in Seq(PlanStep)
    BY LoopAssumption
  <2> DEFINE d == [c EXCEPT !.current_plan = plan, !.current_step_index = 0]
  <2>3. Rearranged(c, d)
    BY <1>c, <2>2, PlanWork, Zenon
  <2>4. pc[p] = "planner"
    BY <2>1 DEF PlanCreated, Returns
  <2>5. \/ Goto(p, c, "failing")
        \/ Block(p, DropPlan(c), "step_limit")
        \/ Commit(p, d, "step", "failing")
    BY <2>1, <1>c DEF PlanCreated
  <2> HIDE DEF d
  <2>6. Rearranged(c, DropPlan(c))
    BY <1>c, DropPlanWork
  <2>7. CASE Goto(p, c, "failing")
    BY <1>c, <1>l, <1>o, <1>f, <2>4, <2>7, GotoKeeps
  <2>8. CASE Block(p, DropPlan(c), "step_limit")
    BY <1>t, <1>h, <2>4, <2>6, <2>8, BlockKeeps
  <2>9. CASE Commit(p, d, "step", "failing")
    <3>1. EndInv => Ended(p, "step", d)
      BY <1>n, <1>h, <2>3, <2>4 DEF Leaving
    <3> QED BY <1>l, <1>o, <1>r, <1>f, <1>h, <2>3, <2>4, <2>9, <3>1, CommitKeeps
  <2> QED BY <2>5, <2>7, <2>8, <2>9
<1>14. CASE VerifyPending(p)
  <2>1. pc[p] = "step" /\ c.pending_execution # 0
    BY <1>14, <1>c DEF VerifyPending, NextStep
  <2>2. \/ c.active_operation_id = Operation(c, CurrentStep(c))
             /\ Enter(p, c, "verifying", "verifier", "failing")
        \/ Goto(p, c, "broken")
    BY <1>14, <1>c DEF VerifyPending
  <2>3. CASE c.active_operation_id = Operation(c, CurrentStep(c))
             /\ Enter(p, c, "verifying", "verifier", "failing")
    <3>1. Placed("verifier", c)
      BY <1>c, <2>1, <2>3 DEF Placed
    <3>2. "verifier" \in Label /\ "verifier" # "executor"
      BY <1>l, <1>w
    <3> QED BY <1>c, <1>l, <1>o, <1>t, <2>1, <2>3, <3>1, <3>2, EnterKeeps
  <2>4. CASE Goto(p, c, "broken")
    BY <1>c, <1>l, <1>o, <1>f, <2>1, <2>4, GotoKeeps
  <2> QED BY <2>2, <2>3, <2>4
<1>15. CASE StartStep(p)
  <2>1. pc[p] = "step" /\ c.pending_execution = 0 /\ Enter(p, c, "executing", "execute", "failing")
    BY <1>15, <1>c DEF StartStep, NextStep
  <2>2. Placed("execute", c) /\ "execute" \in Label
    BY <1>c, <1>l, <1>w, <2>1 DEF Placed, OnOperation
  <2> QED BY <1>c, <1>l, <1>o, <1>t, <2>1, <2>2, EnterKeeps
<1>16. CASE UseApproval(p)
  <2>1. pc[p] = "step" /\ c.pending_execution = 0 /\ Commit(p, c, "approved", "failing")
    BY <1>16, <1>c DEF UseApproval, NextStep
  <2>2. Placed("approved", c) /\ "approved" \in Label
    BY <1>c, <1>l, <1>w, <2>1 DEF Placed, OnOperation
  <2>3. Ready(p, "approved", c)
    BY <2>2, ReadyPlaced
  <2> QED BY <1>c, <1>l, <1>o, <1>f, <1>n, <2>1, <2>2, <2>3, CommitKeeps DEF Leaving
<1>17. CASE AskGate(p)
  <2>1. pc[p] = "step" /\ c.pending_execution = 0
        /\ Transition(p, c, "waiting_approval", "gate", "failing")
    BY <1>17, <1>c DEF AskGate, NextStep
  <2>2. Placed("gate", c) /\ "gate" \in Label
    BY <1>c, <1>l, <1>w, <2>1 DEF Placed, OnOperation
  <2> QED BY <1>c, <1>l, <1>o, <1>t, <2>1, <2>2, TransitionKeeps
<1>18. CASE GateApproves(p)
  <2>1. pc[p] = "gate" /\ Commit(p, c, "approved", "failing")
    BY <1>18, <1>c DEF GateApproves, Returns
  <2>2. Placed("approved", c) /\ "approved" \in Label
    BY <1>c, <1>l, <1>w, <2>1 DEF Placed, OnOperation
  <2>3. Ready(p, "approved", c)
    BY <2>2, ReadyPlaced
  <2> QED BY <1>c, <1>l, <1>o, <1>f, <1>n, <2>1, <2>2, <2>3, CommitKeeps DEF Leaving
<1>19. CASE GateRejects(p)
  BY <1>19, <1>c, <1>t, BlockKeeps DEF GateRejects, Returns
<1>20. CASE GateDefers(p)
  <2>1. pc[p] = "gate" /\ RequestHuman(p, "approval", CurrentStep(c).step_id, "approval_deferred")
    BY <1>20, <1>c DEF GateDefers, Returns
  <2>2. CurrentStep(c).step_id \in StepIds /\ c.revision \in Nat
    BY <1>c, <1>s, <1>w, <2>1, CurrentStepType, Fields
  <2>3. [interaction_id |-> ctx[p].revision, kind |-> "approval", step |-> CurrentStep(c).step_id]
          \in Interaction
    BY <1>c, <2>2 DEF Interaction
  <2> QED BY <1>c, <1>t, <2>1, <2>3, RequestHumanKeeps
<1>21. CASE Paused(p)
  BY <1>21, <1>c, <1>l, <1>o, <1>r, <1>f, CommitKeeps DEF Paused
<1>22. CASE Approved(p)
  <2>1. pc[p] = "approved" /\ Transition(p, c, "executing", "execute", "failing")
    BY <1>22, <1>c DEF Approved
  <2>2. Placed("execute", c) /\ "execute" \in Label
    BY <1>c, <1>l, <1>w, <2>1 DEF Placed, OnOperation
  <2> QED BY <1>c, <1>l, <1>o, <1>t, <2>1, <2>2, TransitionKeeps
<1>23. CASE BeginExecute(p)
  <2> DEFINE d == [c EXCEPT !.active_operation_id = Operation(c, CurrentStep(c))]
  <2>1. pc[p] = "execute" /\ StepsLeft(c)
    BY <1>23, <1>s, <1>w DEF BeginExecute
  <2>2. Goto(p, d, "dispatch") \/ Goto(p, c, "broken")
    BY <1>23, <1>c DEF BeginExecute
  <2>3. c.pending_execution = 0
    BY <1>c, <2>1 DEF Placed
  <2>4. Level(p, d) /\ Placed("dispatch", d) /\ d.status = c.status
    BY <1>c, <2>1, <2>3, OperationWork
  <2> HIDE DEF d
  <2>5. CASE Goto(p, d, "dispatch")
    <3>1. EndInv => Ended(p, "dispatch", d)
      BY <1>n, <2>1, <2>4 DEF Leaving
    <3>2. "dispatch" \in Label /\ "dispatch" # "executor"
      BY <1>l, <1>w
    <3> QED BY <2>1, <2>4, <2>5, <3>1, <3>2, GotoKeeps
  <2>6. CASE Goto(p, c, "broken")
    BY <1>c, <1>l, <1>o, <1>f, <2>1, <2>6, GotoKeeps
  <2> QED BY <2>2, <2>5, <2>6
<1>24. CASE AttemptLimit(p)
  BY <1>24, <1>c, <1>t, BlockKeeps DEF AttemptLimit
<1>25. CASE Dispatch(p)
  <2> DEFINE k == IF pc[p] = "dispatch" THEN 1 ELSE c.pending_attempt + 1
             d == [c EXCEPT !.total_attempts = @ + 1, !.pending_attempt = k]
  <2>1. /\ pc[p] \in {"dispatch", "redispatch"} /\ ~cancelled[InstanceOf[p]]
    BY <1>25 DEF Dispatch, PassesBoundary, IsCancelled
  <2>2. k \in Nat
    BY <1>c, Fields
  <2>3. Commit(p, d, "executor", "failing")
    BY <1>25, <1>c, Zenon DEF Dispatch
  <2> HIDE DEF k
  <2>4. c.active_operation_id = Operation(c, CurrentStep(c))
    BY <1>c, <2>1 DEF Placed, OnOperation
  <2>5. Level(p, d) /\ Placed("executor", d) /\ d.status = c.status
    BY ZenonT(30), <1>c, <2>2, <2>4, AttemptWork
  <2> HIDE DEF d
  <2>6. Ready(p, "executor", d) /\ Placed("failing", d)
    BY <1>l, <1>o, <2>1, <2>5 DEF Ready, Placed
  <2>7. EndInv => Ended(p, "executor", d) /\ Ended(p, "failing", d)
    BY <1>f, <1>n, <1>m, <2>1, <2>5 DEF Leaving
  <2>8. "executor" \in Label /\ "failing" \in Label /\ "failing" # "executor"
    BY <1>l, <1>w
  <2> QED BY <2>1, <2>3, <2>5, <2>6, <2>7, <2>8, CommitKeeps
<1>26. CASE ExecutorReturns(p)
  <2> DEFINE d == [c EXCEPT !.pending_execution = c.total_attempts]
  <2>1. /\ pc[p] = "executor" /\ ~cancelled[InstanceOf[p]] /\ c.status # "timed_out"
        /\ Commit(p, d, "verify", "retry")
    BY <1>26, <1>c DEF ExecutorReturns, Returns, IsCancelled
  <2>2. Level(p, d) /\ Placed("verify", d) /\ Placed("retry", d) /\ d.status = c.status
    BY <1>c, <2>1, ResultWork
  <2> HIDE DEF d
  <2>3. EndInv => Ended(p, "verify", d) /\ Ended(p, "retry", d)
    <3>1. EndInv => c.status \notin Terminal
      BY <1>c, <2>1 DEF EndInv, Ended, Leaving
    <3> QED BY <2>2, <3>1 DEF Ended
  <2>4. "verify" \in Label /\ "retry" \in Label /\ "verify" # "executor" /\ "retry" # "executor"
    BY <1>l, <1>w
  <2>5. Ready(p, "verify", d)
    BY <2>2, <2>4, ReadyPlaced
  <2> QED BY <2>1, <2>2, <2>3, <2>4, <2>5, CommitKeeps
<1>i. ASSUME pc[p] \in {"executor", "retry", "backoff"}
      PROVE  \A l \in {"retry", "backoff", "redispatch"} :
               Placed(l, c) /\ Ready(p, l, c) /\ l \in Label /\ l # "executor"
  <2>1. \A l \in {"retry", "backoff", "redispatch"} : Placed(l, c)
    BY <1>c, <1>i DEF Placed, OnOperation
  <2> QED BY <1>l, <1>w, <2>1, ReadyPlaced
<1>27. CASE ExecutorRaises(p)
  <2>1. pc[p] = "executor" /\ Goto(p, c, "retry")
    BY <1>27, <1>c DEF ExecutorRaises, Returns
  <2>2. EndInv => Ended(p, "retry", c)
    BY <1>m, <2>1
  <2> QED BY <1>c, <1>i, <2>1, <2>2, GotoKeeps
<1>28. CASE ExecutorOverBudget(p)
  <2> DEFINE d == [c EXCEPT !.active_operation_id = NoOperation, !.pending_attempt = 0]
  <2>1. pc[p] = "executor" /\ Block(p, d, "budget_exhausted")
    BY <1>28, <1>c DEF ExecutorOverBudget, Returns
  <2>2. Rearranged(c, d)
    BY <1>c, ForgetWork
  <2> HIDE DEF d
  <2> QED BY <1>t, <1>h, <2>1, <2>2, BlockKeeps
<1>29. CASE RetryFails(p)
  BY <1>29, <1>c, <1>l, <1>o, <1>f, GotoKeeps DEF RetryFails
<1>30. CASE RetryReplans(p)
  <2> DEFINE e == DropPlan(c)
             d == [e EXCEPT !.active_operation_id = NoOperation, !.pending_attempt = 0]
  <2>1. pc[p] = "retry" /\ Transition(p, d, "planning", "cycle", "failing")
    BY <1>30, <1>c DEF RetryReplans
  <2>2. Rearranged(c, e)
    BY <1>c, DropPlanWork
  <2> HIDE DEF e
  <2>3. Rearranged(e, d)
    BY <2>2, ForgetWork DEF Rearranged
  <2> HIDE DEF d
  <2>4. Rearranged(c, d)
    BY <2>2, <2>3, RearrangedTrans
  <2> QED BY <1>l, <1>o, <1>t, <1>h, <2>1, <2>4, TransitionKeeps
<1>31. CASE RetryRetries(p)
  <2>1. PICK l \in {"backoff", "redispatch"} : Commit(p, c, l, "failing")
    BY <1>31, <1>c DEF RetryRetries
  <2>2. pc[p] = "retry"
    BY <1>31 DEF RetryRetries
  <2>3. EndInv => Ended(p, l, c)
    BY <1>m, <2>2
  <2> QED BY <1>c, <1>l, <1>o, <1>f, <1>i, <2>1, <2>2, <2>3, CommitKeeps
<1>32. CASE BackoffEnds(p)
  <2>1. pc[p] = "backoff" /\ Goto(p, c, "redispatch")
    BY <1>32, <1>c DEF BackoffEnds, Returns
  <2>2. EndInv => Ended(p, "redispatch", c)
    BY <1>m, <2>1
  <2> QED BY <1>c, <1>i, <2>1, <2>2, GotoKeeps
<1>33. CASE StartVerification(p)
  <2>1. pc[p] = "verify" /\ Enter(p, c, "verifying", "verifier", "failing")
    BY <1>33, <1>c DEF StartVerification
  <2>2. Placed("verifier", c)
    BY <1>c, <2>1 DEF Placed, OnOperation
  <2>3. "verifier" \in Label /\ "verifier" # "executor"
    BY <1>l, <1>w
  <2> QED BY <1>c, <1>l, <1>o, <1>t, <2>1, <2>2, <2>3, EnterKeeps
<1>34. CASE \E passed \in BOOLEAN : VerifierReturns(p, passed)
  <2>1. PICK passed \in BOOLEAN : VerifierReturns(p, passed)
    BY <1>34
  <2>2. PICK l \in {"step", "rejected"} : Commit(p, VerifiedContext(c, passed), l, "failing")
    BY <2>1, <1>c DEF VerifierReturns
  <2>3. pc[p] = "verifier"
    BY <2>1 DEF VerifierReturns, Returns
  <2>4. VerifiedContext(c, passed) \in LoopContext
    BY <1>c, <1>s, <1>w, <2>3, GoodSelf, VerifiedUpdate DEF Good
  <2> DEFINE d == VerifiedContext(c, passed)
  <2>5. Level(p, d) /\ Honest(d) /\ d.status = c.status
    BY <1>c, <1>s, <1>w, <2>3, <2>4, VerifiedWork
  <2> HIDE DEF d
  <2>6. EndInv => Ended(p, l, d)
    BY <1>n, <2>3, <2>5 DEF Leaving
  <2>7. Commit(p, d, l, "failing")
    BY <2>2 DEF d
  <2> QED BY <1>l, <1>o, <1>r, <1>f, <2>3, <2>5, <2>6, <2>7, CommitKeeps
<1>35. CASE ReplanRejected(p)
  <2>1. Rearranged(c, DropPlan(c))
    BY <1>c, DropPlanWork
  <2>2. pc[p] = "rejected" /\ Transition(p, DropPlan(c), "planning", "cycle", "failing")
    BY <1>35, <1>c DEF ReplanRejected
  <2> QED BY <1>l, <1>o, <1>t, <1>h, <2>1, <2>2, TransitionKeeps
<1>36. CASE FinishApproved(p)
  <2> DEFINE d == [c EXCEPT !.completion_approved = FALSE]
  <2>1. pc[p] = "step" /\ Stop(p, d, "completed", "completed", "exit", "failing")
    BY <1>36, <1>c DEF FinishApproved, PlanDone, Complete
  <2>2. Rearranged(c, d)
    BY <1>c, CompletionWork
  <2> HIDE DEF d
  <2> QED BY <1>l, <1>o, <1>t, <1>f, <1>z, <1>h, <2>1, <2>2, StopKeeps
<1>37. CASE FinishUnevaluated(p)
  BY <1>37, <1>c, <1>l, <1>o, <1>t, <1>f, <1>z, StopKeeps DEF FinishUnevaluated, PlanDone, Complete
<1>38. CASE StartEvaluation(p)
  BY <1>38, <1>c, <1>l, <1>o, <1>r, <1>f, <1>n, CommitKeeps DEF StartEvaluation, PlanDone, Leaving
<1>39. CASE \E decision \in CompletionAction : EvaluatorDecides(p, decision)
  <2>1. PICK decision \in CompletionAction : Commit(p, c, decision, "failing")
    BY <1>39, <1>c DEF EvaluatorDecides
  <2>2. pc[p] = "evaluator"
    BY <1>39 DEF EvaluatorDecides, Returns
  <2>3. EndInv => Ended(p, decision, c)
    BY <1>n, <2>2 DEF Leaving
  <2>4. decision \in Outer
    BY <1>l
  <2> QED BY <1>c, <1>l, <1>o, <1>r, <1>f, <2>1, <2>2, <2>3, <2>4, CommitKeeps
<1>40. CASE EvaluationAccepted(p)
  BY <1>40, <1>c, <1>l, <1>o, <1>t, <1>f, <1>z, StopKeeps DEF EvaluationAccepted, Complete
<1>41. CASE EvaluationStops(p)
  BY <1>41, <1>c, <1>t, BlockKeeps DEF EvaluationStops
<1>42. CASE EvaluationAsksHuman(p)
  <2>1. PICK kind \in {"input", "completion_review"} :
          RequestHuman(p, kind, "none", "human_input_required")
    BY <1>42 DEF EvaluationAsksHuman
  <2>2. pc[p] = "request_human"
    BY <1>42 DEF EvaluationAsksHuman
  <2>3. [interaction_id |-> ctx[p].revision, kind |-> kind, step |-> "none"] \in Interaction
    BY <1>c, Fields DEF Interaction
  <2> QED BY <1>c, <1>t, <2>1, <2>2, <2>3, RequestHumanKeeps
<1>43. CASE EvaluationReplans(p)
  <2>1. Rearranged(c, DropPlan(c))
    BY <1>c, DropPlanWork
  <2>2. pc[p] = "replan" /\ Commit(p, DropPlan(c), "replanned", "failing")
    BY <1>43, <1>c DEF EvaluationReplans
  <2>3. EndInv => Ended(p, "replanned", DropPlan(c))
    BY <1>n, <1>h, <2>1, <2>2 DEF Leaving
  <2> QED BY <1>l, <1>o, <1>r, <1>f, <1>h, <2>1, <2>2, <2>3, CommitKeeps
<1>44. CASE StartReplanning(p)
  BY <1>44, <1>c, <1>l, <1>o, <1>t, TransitionKeeps DEF StartReplanning
<1>v. \A r : r = SupervisionRaises(p) /\ pc[p] \in Awaiting =>
        /\ r \in Label /\ r # "executor" /\ Placed(r, c) /\ (EndInv => Ended(p, r, c))
        /\ r = "failing" \/ (r = "retry" /\ pc[p] = "executor")
  BY <1>c, <1>l, <1>o, <1>f, <1>i, <1>m DEF SupervisionRaises
<1>45. CASE Heartbeat(p)
  <2>1. PICK r : r = SupervisionRaises(p)
    OBVIOUS
  <2>2. pc[p] \in Awaiting /\ Commit(p, c, pc[p], r)
    BY <1>45, <1>c, <2>1 DEF Heartbeat
  <2>3. Ready(p, pc[p], c) /\ (EndInv => Ended(p, pc[p], c))
    BY <1>c DEF Ready, EndInv
  <2>4. pc[p] \in Label /\ pc[p] \notin {"idle", "exit"}
    BY <1>l, <2>2 DEF Awaiting
  <2> QED BY <1>c, <1>v, <2>1, <2>2, <2>3, <2>4, CommitKeeps
<1>46. CASE SupervisedCancel(p)
  <2>1. PICK r : r = SupervisionRaises(p)
    OBVIOUS
  <2>2. /\ pc[p] \in Awaiting /\ cancelled[InstanceOf[p]]
        /\ Stop(p, c, "cancelled", "cancelled", "exit", r)
    BY <1>46, <1>c, <2>1 DEF SupervisedCancel, IsCancelled
  <2>3. Raises(p, "cancelled", r)
    BY <1>v, <2>1, <2>2 DEF Raises, Leaving
  <2>4. pc[p] \notin {"idle", "exit"}
    BY <2>2 DEF Awaiting
  <2> QED BY <1>c, <1>t, <1>v, <2>1, <2>2, <2>3, <2>4, StopKeeps
<1>47. CASE SupervisedTimeout(p)
  <2>1. PICK r : r = SupervisionRaises(p)
    OBVIOUS
  <2>2. pc[p] \in Awaiting /\ Stop(p, c, "timed_out", "timed_out", "exit", r)
    BY <1>47, <1>c, <2>1 DEF SupervisedTimeout
  <2>3. Raises(p, "timed_out", r)
    BY <1>v, <2>1, <2>2 DEF Raises, Leaving
  <2>4. pc[p] \notin {"idle", "exit"}
    BY <2>2 DEF Awaiting
  <2> QED BY <1>c, <1>t, <1>v, <2>1, <2>2, <2>3, <2>4, StopKeeps
<1>48. CASE ComponentRaises(p)
  BY <1>48, <1>c, <1>l, <1>o, <1>f, GotoKeeps DEF ComponentRaises, Awaiting
<1>49. CASE ComponentOverBudget(p)
  BY <1>49, <1>c, <1>l, <1>o, <1>t, <1>f, <1>z, StopKeeps DEF ComponentOverBudget, Awaiting
<1>50. CASE Fail(p)
  <2> DEFINE d == [c EXCEPT !.active = FALSE, !.stop_reason = "component_error"]
  <2>1. \/ Goto(p, c, "exit")
        \/ Transition(p, d, "failed", "exit", "exit")
    BY <1>50, <1>c DEF Fail
  <2>2. pc[p] \notin {"idle", "exit"}
    BY <1>50 DEF Fail
  <2>3. Rearranged(c, d)
    BY <1>c, <1>t, FailureWork
  <2> HIDE DEF d
  <2>4. CASE Goto(p, c, "exit")
    BY <1>c, <1>l, <1>o, <1>f, <2>2, <2>4, GotoKeeps
  <2>5. CASE Transition(p, d, "failed", "exit", "exit")
    BY <1>l, <1>o, <1>t, <1>h, <2>2, <2>3, <2>5, TransitionKeeps
  <2> QED BY <2>1, <2>4, <2>5
<1>51. CASE TaskCancelled(p)
  BY <1>51, <1>c, <1>l, <1>o, <1>f, GotoKeeps DEF TaskCancelled, Awaiting
<1>52. CASE StopCancelledTask(p)
  <2>1. /\ pc[p] = "cancelling"
        /\ Goto(p, c, "exit") \/ Stop(p, c, "cancelled", "cancelled", "exit", "exit")
    BY <1>52, <1>c DEF StopCancelledTask
  <2>2. CASE Goto(p, c, "exit")
    BY <1>c, <1>l, <1>o, <1>f, <2>1, <2>2, GotoKeeps
  <2>3. CASE Stop(p, c, "cancelled", "cancelled", "exit", "exit")
    BY <1>c, <1>l, <1>o, <1>t, <1>f, <1>z, <2>1, <2>3, StopKeeps
  <2> QED BY <2>1, <2>2, <2>3
<1>53. CASE Exit(p)
  BY <1>53, ExitKeeps
<1> QED
  BY <1>1, <1>2, <1>3, <1>4, <1>5, <1>6, <1>7, <1>8, <1>9, <1>10, <1>11, <1>12,
     <1>13, <1>14, <1>15, <1>16, <1>17, <1>18, <1>19, <1>20, <1>21, <1>22,
     <1>23, <1>24, <1>25, <1>26, <1>27, <1>28, <1>29, <1>30, <1>31, <1>32,
     <1>33, <1>34, <1>35, <1>36, <1>37, <1>38, <1>39, <1>40, <1>41, <1>42,
     <1>43, <1>44, <1>45, <1>46, <1>47, <1>48, <1>49, <1>50, <1>51, <1>52, <1>53
     DEF LoopStep

-----------------------------------------------------------------------------
(* The callers and the environment.                                         *)

LEMMA CallKeeps ==
  ASSUME IndInv, WorkInv, NEW p \in Procs, NEW c \in LoopContext, NEW l \in Entry, Honest(c),
         c.status \notin Terminal \/ l = "submit_save",
         store.status \in Terminal => c.status = store.status,
         Call(p, c, l)
  PROVE  WorkKept
<1>1. /\ pc[p] = "idle" /\ Land(p, c, l) /\ History(p) /\ store' = store /\ cancelled' = cancelled
  BY DEF Call
<1>2. l \in Label /\ l \notin InStep /\ l \notin {"idle", "exit", "executor"}
  BY DEF Label, Entry, InStep
<1>3. /\ pc'[p] = l /\ ctx'[p] = c
      /\ \A q \in Procs : q # p => pc'[q] = pc[q] /\ ctx'[q] = ctx[q]
  BY <1>1, <1>2 DEF Land, IndInv, TypeOK
<1>4. WorkInv'
  <2>1. Placed(l, c) /\ Awaited(l, c)
    BY <1>2, PlacedOutside DEF Awaited
  <2>2. /\ store \in LoopContext /\ Honest(store)
        /\ store.pending_interaction # NoInteraction
             => store.pending_interaction.interaction_id < store.revision
    BY DEF IndInv, TypeOK, WorkInv, StoreHonest
  <2> QED BY <1>1, <1>2, <2>1, <2>2, Arrives
<1>5. calls' = calls
  BY <1>1 DEF History, Dispatches
<1>6. ASSUME EndInv PROVE EndInv'
  <2>1. ASSUME NEW q \in Procs PROVE Ended(q, pc[q], ctx[q])'
    <3>1. CASE q = p
      BY <1>3, <3>1 DEF Ended, Leaving
    <3>2. CASE q # p
      BY <1>1, <1>3, <1>6, <3>2 DEF EndInv, Ended
    <3> QED BY <3>1, <3>2
  <2>2. ASSUME NEW q \in Procs, pc'[q] \notin {"idle", "exit"}, ctx'[q].revision = store'.revision,
               store'.status \in Terminal
        PROVE  ctx'[q].status = store'.status
    <3>1. CASE q = p
      BY <1>1, <1>3, <2>2, <3>1
    <3>2. CASE q # p
      BY <1>1, <1>3, <1>6, <2>2, <3>2 DEF EndInv
    <3> QED BY <3>1, <3>2
  <2> QED BY <1>1, <1>6, <2>1, <2>2 DEF EndInv
<1> QED BY <1>1, <1>4, <1>5, <1>6 DEF WorkKept, StaysEnded

LEMMA RunWork ==
  ASSUME NEW request \in Requests
  PROVE  LET d == [NewContext(request) EXCEPT !.active = TRUE] IN
         d \in LoopContext /\ Honest(d) /\ d.status = "created"
<1> DEFINE e == NewContext(request)
           d == [e EXCEPT !.active = TRUE]
<1>1. e \in LoopContext
  BY DEF NewContext, LoopContext, LoopStatus, StopReason, NoInteraction, Interaction,
         NoOperation
<1>2. /\ e.status = "created" /\ e.records = <<>> /\ e.pending_execution = 0
      /\ e.human_interactions = <<>> /\ e.pending_interaction = NoInteraction
  BY DEF NewContext
<1> HIDE DEF e
<1>3. d \in LoopContext
  BY <1>1, Zenon DEF LoopContext
<1>4. /\ d.status = "created" /\ d.records = <<>> /\ d.pending_execution = 0
      /\ d.human_interactions = <<>> /\ d.pending_interaction = NoInteraction
  BY <1>1, <1>2 DEF LoopContext
<1> HIDE DEF d
<1>5. Honest(d)
  BY <1>4 DEF Honest, Traced, RecordsTraced, ResultTraced, AnsweredOnce
<1> QED BY <1>3, <1>4, <1>5 DEF d, e

LEMMA ResumedWork ==
  ASSUME NEW c \in LoopContext, NEW mode
  PROVE  Rearranged(c, ResumedContext(c, mode))
<1> DEFINE s == [c EXCEPT !.stop_reason = "none", !.active = TRUE]
           e == DropPlan(s)
           d == [e EXCEPT !.approved_step_ids = {}, !.completion_approved = FALSE,
                          !.replan_required = FALSE]
<1>1. ResumedContext(c, mode) = IF mode = "replan" THEN d ELSE s
  BY DEF ResumedContext
<1>2. s \in LoopContext
  <2>1. "none" \in StopReason
    BY DEF StopReason
  <2> QED BY <2>1, Zenon DEF LoopContext
<1>3. Rearranged(c, s)
  BY <1>2 DEF LoopContext, Rearranged
<1> HIDE DEF s
<1>4. Rearranged(s, e) /\ e \in LoopContext
  BY <1>2, DropPlanWork DEF Rearranged
<1> HIDE DEF e
<1>5. d \in LoopContext
  <2>1. {} \in SUBSET StepIds
    OBVIOUS
  <2> QED BY <1>4, <2>1, Zenon DEF LoopContext
<1>6. Rearranged(e, d)
  BY <1>4, <1>5 DEF LoopContext, Rearranged
<1> HIDE DEF d
<1> QED BY <1>1, <1>3, <1>4, <1>6, RearrangedTrans

\* A response is added for the interaction that is pending, which had none.
LEMMA AnsweredWork ==
  ASSUME NEW c \in LoopContext, Honest(c), NEW r \in HumanResponse, Acceptable(c, r),
         c.pending_interaction.interaction_id < c.revision
  PROVE  LET d == AnsweredContext(c, r) IN
         /\ Honest(d)
         /\ d.status = c.status \/ (r.action = "reject" /\ d.status = "blocked")
<1> DEFINE a == [c EXCEPT !.human_interactions = Append(@, r),
                          !.pending_interaction = NoInteraction]
           pending == c.pending_interaction
           steps == IF pending.kind = "approval" THEN a.approved_step_ids \cup {pending.step}
                                                 ELSE a.approved_step_ids
           done == a.completion_approved \/ pending.kind = "completion_review"
                     \/ (c.current_plan # <<>> /\ ~StepsLeft(c))
           approved == [a EXCEPT !.approved_step_ids = steps, !.completion_approved = done]
           rejected == [a EXCEPT !.active = FALSE, !.stop_reason = "human_rejected",
                                 !.status = "blocked"]
           revised  == [a EXCEPT !.replan_required = TRUE]
           d == AnsweredContext(c, r)
<1>1. d = CASE r.action = "approve" -> approved
            [] r.action = "reject" -> rejected
            [] OTHER -> revised
  BY Zenon DEF AnsweredContext
<1>2. /\ c.human_interactions \in Seq(HumanResponse)
      /\ Append(c.human_interactions, r) \in Seq(HumanResponse)
      /\ NoInteraction \in Interaction
  BY Fields DEF NoInteraction, Interaction
<1>3. a \in LoopContext
  BY <1>2, Zenon DEF LoopContext
<1>4. /\ a.status = c.status /\ a.revision = c.revision
      /\ a.records = c.records /\ a.total_attempts = c.total_attempts
      /\ a.pending_execution = c.pending_execution
      /\ a.active_operation_id = c.active_operation_id
      /\ a.human_interactions = Append(c.human_interactions, r)
      /\ a.pending_interaction = NoInteraction
  BY DEF LoopContext
<1> HIDE DEF a, steps, done
<1> DEFINE Like(e) == /\ e.revision = a.revision
                      /\ e.records = a.records /\ e.total_attempts = a.total_attempts
                      /\ e.pending_execution = a.pending_execution
                      /\ e.active_operation_id = a.active_operation_id
                      /\ e.human_interactions = a.human_interactions
                      /\ e.pending_interaction = a.pending_interaction
<1>5. Like(approved) /\ approved.status = a.status
  BY <1>3 DEF LoopContext
<1>6. Like(rejected) /\ rejected.status = "blocked"
  BY <1>3 DEF LoopContext
<1>7. Like(revised) /\ revised.status = a.status
  BY <1>3 DEF LoopContext
<1> HIDE DEF approved, rejected, revised, d
<1>8. Like(d) /\ (d.status = a.status \/ (r.action = "reject" /\ d.status = "blocked"))
  BY <1>1, <1>5, <1>6, <1>7
<1>9. Traced(d)
  BY <1>4, <1>8 DEF Honest, Traced, RecordsTraced, ResultTraced
<1>10. /\ DOMAIN c.human_interactions = 1 .. Len(c.human_interactions)
       /\ Len(c.human_interactions) \in Nat
       /\ DOMAIN d.human_interactions = 1 .. Len(c.human_interactions) + 1
       /\ d.human_interactions[Len(c.human_interactions) + 1] = r
       /\ \A i \in 1 .. Len(c.human_interactions) :
            d.human_interactions[i] = c.human_interactions[i]
  BY <1>2, <1>4, <1>8
<1>11. /\ r.interaction_id = pending.interaction_id /\ pending # NoInteraction
       /\ \A i \in DOMAIN c.human_interactions : c.human_interactions[i].key # r.key
       /\ \A i \in DOMAIN c.human_interactions :
            c.human_interactions[i].interaction_id # r.interaction_id
  BY DEF Acceptable, Honest, AnsweredOnce
<1>12. AnsweredOnce(d)
  <2>1. ASSUME NEW i \in DOMAIN d.human_interactions
        PROVE  d.human_interactions[i].interaction_id < d.revision
    <3>1. CASE i \in DOMAIN c.human_interactions
      BY <1>4, <1>8, <1>10, <3>1 DEF Honest, AnsweredOnce
    <3>2. CASE i = Len(c.human_interactions) + 1
      BY <1>4, <1>8, <1>10, <1>11, <3>2
    <3> QED BY <1>10, <2>1, <3>1, <3>2
  <2>2. ASSUME NEW i \in DOMAIN d.human_interactions, NEW j \in DOMAIN d.human_interactions, i # j
        PROVE  /\ d.human_interactions[i].interaction_id # d.human_interactions[j].interaction_id
               /\ d.human_interactions[i].key # d.human_interactions[j].key
    <3>1. CASE i \in DOMAIN c.human_interactions /\ j \in DOMAIN c.human_interactions
      BY <1>10, <2>2, <3>1 DEF Honest, AnsweredOnce
    <3>2. CASE i \in DOMAIN c.human_interactions /\ j = Len(c.human_interactions) + 1
      BY <1>10, <1>11, <3>2
    <3>3. CASE i = Len(c.human_interactions) + 1 /\ j \in DOMAIN c.human_interactions
      BY <1>10, <1>11, <3>3
    <3> QED BY <1>10, <2>2, <3>1, <3>2, <3>3
  <2>3. d.pending_interaction = NoInteraction
    BY <1>4, <1>8
  <2> HIDE DEF Like
  <2> QED BY <2>1, <2>2, <2>3 DEF AnsweredOnce
<1> QED BY <1>4, <1>8, <1>9, <1>12 DEF Honest, d

LEMMA CallerStepKeeps ==
  ASSUME IndInv, WorkInv, NEW p \in Procs, CallerStep(p)
  PROVE  WorkKept
<1>1. /\ store \in LoopContext /\ Honest(store)
      /\ store.pending_interaction # NoInteraction
           => store.pending_interaction.interaction_id < store.revision
  BY DEF IndInv, TypeOK, WorkInv, StoreHonest
<1>2. ASSUME NEW request \in Requests, Run(p, request) PROVE WorkKept
  <2> DEFINE d == [NewContext(request) EXCEPT !.active = TRUE]
  <2>1. Call(p, d, "run_start") /\ ~Exists
    BY <1>2 DEF Run
  <2>2. d \in LoopContext /\ Honest(d) /\ d.status = "created"
    BY RunWork
  <2> HIDE DEF d
  <2>3. store = Blank
    BY <1>1, <2>1, Fields DEF Exists, IndInv, FreshOK
  <2>4. "run_start" \in Entry /\ "created" \notin Terminal
    BY DEF Entry, Terminal
  <2> QED BY <2>1, <2>2, <2>3, <2>4, BlankPlaced, CallKeeps
<1>3. ASSUME NEW mode, Resume(p, mode) PROVE WorkKept
  <2> DEFINE m == EffectiveMode(store, mode)
             d == ResumedContext(store, m)
             l == IF m = "replan" THEN "resume_replan" ELSE "resume_continue"
  <2>1. Call(p, d, l) /\ store.status \notin Terminal
    BY <1>3 DEF Resume, Resumable, Stable, Terminal
  <2> HIDE DEF m
  <2>2. Rearranged(store, d)
    BY <1>1, ResumedWork
  <2>3. l \in Entry
    BY DEF Entry
  <2> HIDE DEF d, l
  <2>4. Honest(d) /\ d \in LoopContext /\ d.status = store.status
    BY <1>1, <2>2, RearrangedHonest DEF Rearranged
  <2> QED BY <2>1, <2>3, <2>4, CallKeeps
<1>4. CASE Recover(p)
  <2> DEFINE d == [store EXCEPT !.active = TRUE]
             l == IF InDoubt(store) THEN "recover_stop" ELSE "recover_save"
  <2>1. Call(p, d, l) /\ store.status \notin Terminal
    BY <1>4 DEF Recover
  <2>2. d \in LoopContext
    BY <1>1, Zenon DEF LoopContext
  <2>3. Rearranged(store, d)
    BY <1>1, <2>2 DEF LoopContext, Rearranged
  <2>4. l \in Entry
    BY DEF Entry
  <2> HIDE DEF d, l
  <2>5. Honest(d) /\ d.status = store.status
    BY <1>1, <2>3, RearrangedHonest DEF Rearranged
  <2> QED BY <2>1, <2>2, <2>4, <2>5, CallKeeps
<1>5. ASSUME NEW r \in Responses, SubmitHumanResponse(p, r) PROVE WorkKept
  <2> DEFINE d == AnsweredContext(store, r)
  <2>1. r \in HumanResponse
    BY <1>1, Fields DEF Responses, HumanResponse, Interaction
  <2>2. /\ Call(p, d, "submit_save") /\ Acceptable(store, r)
        /\ r.action = "reject" => \/ store.status = "blocked"
                                  \/ "blocked" \in AllowedTransitions[store.status]
    BY <1>5 DEF SubmitHumanResponse
  <2>3. store.pending_interaction.interaction_id < store.revision
    BY <1>1, <2>2 DEF Acceptable
  <2>4. /\ d \in LoopContext /\ Honest(d)
        /\ d.status = store.status \/ (r.action = "reject" /\ d.status = "blocked")
    BY <1>1, <2>1, <2>2, <2>3, AnsweredUpdate, AnsweredWork
  <2> HIDE DEF d
  <2>5. store.status \in Terminal => d.status = store.status
    <3>1. ASSUME store.status \in Terminal PROVE "blocked" \notin AllowedTransitions[store.status]
      BY <3>1 DEF Terminal, AllowedTransitions
    <3> QED BY <2>2, <2>4, <3>1 DEF Terminal
  <2>6. "submit_save" \in Entry
    BY DEF Entry
  <2> QED BY <2>2, <2>4, <2>5, <2>6, CallKeeps
<1> QED BY <1>2, <1>3, <1>4, <1>5 DEF CallerStep

\* A step that leaves the store, the calls and the list of calls alone, and
\* stops some calls in their tracks.
LEMMA QuietKeeps ==
  ASSUME WorkInv, store' = store, calls' = calls,
         \A p \in Procs : \/ pc'[p] = "idle" /\ ctx'[p] = Blank
                          \/ pc'[p] = pc[p] /\ ctx'[p] = ctx[p]
  PROVE  WorkInv'
<1>1. \A o, n : Called(o, n) => Called(o, n)'
  BY DEF Called
<1>2. ASSUME NEW p \in Procs PROVE Placed(pc[p], ctx[p])' /\ Awaited(pc[p], ctx[p])'
  <2>1. CASE pc'[p] = "idle" /\ ctx'[p] = Blank
    <3>1. PICK b : b = Blank
      OBVIOUS
    <3>2. Placed("idle", b) /\ Awaited("idle", b)
      BY <3>1, BlankPlaced DEF Awaited
    <3>3. Placed("idle", b)' /\ Awaited("idle", b)'
      BY <1>1, <3>2, CallsKept
    <3>4. pc'[p] = "idle" /\ ctx'[p] = b
      BY <2>1, <3>1
    <3> QED BY ZenonT(30), <3>3, <3>4 DEF Placed, Awaited, Honest, Traced, RecordsTraced, ResultTraced,
                              AnsweredOnce, Called, Operation, CurrentStep
  <2>2. CASE pc'[p] = pc[p] /\ ctx'[p] = ctx[p]
    <3>1. PICK l, c : l = pc[p] /\ c = ctx[p]
      OBVIOUS
    <3>2. Placed(l, c) /\ Awaited(l, c)
      BY <3>1 DEF WorkInv
    <3>3. Placed(l, c)' /\ Awaited(l, c)'
      BY <1>1, <3>2, CallsKept
    <3>4. pc'[p] = l /\ ctx'[p] = c
      BY <2>2, <3>1
    <3> QED BY ZenonT(30), <3>3, <3>4 DEF Placed, Awaited, Honest, Traced, RecordsTraced, ResultTraced,
                              AnsweredOnce, Called, Operation, CurrentStep
  <2> QED BY <2>1, <2>2
<1>3. StoreHonest'
  <2>1. Honest(store)
    BY DEF WorkInv, StoreHonest
  <2>2. Honest(store)'
    <3>1. RecordsTraced(store)'
      BY <2>1 DEF Honest, Traced, RecordsTraced, Called
    <3>2. ResultTraced(store)'
      BY <2>1 DEF Honest, Traced, ResultTraced, Called
    <3>3. AnsweredOnce(store)'
      BY <2>1 DEF Honest, AnsweredOnce
    <3> QED BY <3>1, <3>2, <3>3 DEF Honest, Traced
  <2> QED BY <2>2 DEF WorkInv, StoreHonest
<1> QED BY <1>2, <1>3 DEF WorkInv

LEMMA CrashKeeps ==
  ASSUME IndInv, WorkInv, NEW i \in Instances, Crash(i)
  PROVE  WorkKept
<1>1. /\ store' = store /\ calls' = calls
      /\ cancelled' = [cancelled EXCEPT ![i] = FALSE]
  BY DEF Crash
<1>2. \A p \in Procs : \/ pc'[p] = "idle" /\ ctx'[p] = Blank
                       \/ pc'[p] = pc[p] /\ ctx'[p] = ctx[p] /\ InstanceOf[p] # i
  BY DEF Crash
<1>3. WorkInv'
  BY <1>1, <1>2, QuietKeeps
<1>4. \A j \in Instances : j # i => cancelled'[j] = cancelled[j]
  BY <1>1 DEF IndInv, TypeOK
<1>5. \A j \in Instances : cancelled'[j] => cancelled[j]
  BY <1>1 DEF IndInv, TypeOK
<1>6. ASSUME EndInv PROVE EndInv'
  <2>1. ASSUME NEW p \in Procs PROVE Ended(p, pc[p], ctx[p])'
    <3>1. CASE pc'[p] = "idle"
      BY <3>1 DEF Ended, Leaving
    <3>2. CASE pc'[p] = pc[p] /\ ctx'[p] = ctx[p] /\ InstanceOf[p] # i
      <4>1. cancelled'[InstanceOf[p]] = cancelled[InstanceOf[p]]
        BY <1>4, <3>2, LoopAssumption
      <4> QED BY <1>6, <3>2, <4>1 DEF EndInv, Ended
    <3> QED BY <1>2, <3>1, <3>2
  <2>2. ASSUME NEW p \in Procs, pc'[p] \notin {"idle", "exit"}, ctx'[p].revision = store'.revision,
               store'.status \in Terminal
        PROVE  ctx'[p].status = store'.status
    BY <1>1, <1>2, <1>6, <2>2 DEF EndInv
  <2> QED BY <1>5, <1>6, <2>1, <2>2 DEF EndInv
<1> QED BY <1>1, <1>3, <1>6 DEF WorkKept, StaysEnded

LEMMA CancelKeeps ==
  ASSUME IndInv, WorkInv, NEW i \in Instances, Cancel(i)
  PROVE  WorkKept
<1>1. /\ store' = store /\ calls' = calls /\ pc' = pc /\ ctx' = ctx /\ "cancel" \in Env
      /\ cancelled' = [cancelled EXCEPT ![i] = TRUE]
  BY DEF Cancel
<1>2. WorkInv'
  BY <1>1, QuietKeeps
<1>3. \A j \in Instances : cancelled[j] => cancelled'[j]
  BY <1>1 DEF IndInv, TypeOK
<1>4. ASSUME EndInv PROVE EndInv'
  <2>1. ASSUME NEW p \in Procs PROVE Ended(p, pc[p], ctx[p])'
    <3>1. cancelled[InstanceOf[p]] => cancelled'[InstanceOf[p]]
      BY <1>3, LoopAssumption
    <3> QED BY <1>1, <1>4, <3>1 DEF EndInv, Ended
  <2> QED BY <1>1, <1>4, <2>1 DEF EndInv
<1> QED BY <1>1, <1>2, <1>4 DEF WorkKept, StaysEnded

LEMMA StutterKeeps ==
  ASSUME IndInv, WorkInv, UNCHANGED vars
  PROVE  WorkKept
<1>1. store' = store /\ calls' = calls /\ pc' = pc /\ ctx' = ctx /\ cancelled' = cancelled
  BY DEF vars
<1>2. WorkInv'
  BY <1>1, QuietKeeps
<1> QED BY <1>1, <1>2 DEF WorkKept, StaysEnded, EndInv, Ended

-----------------------------------------------------------------------------
(* The theorems.                                                            *)

LEMMA InitWork == Init => WorkInv /\ EndInv
<1> SUFFICES ASSUME Init PROVE WorkInv /\ EndInv
  OBVIOUS
<1>1. /\ store = Blank /\ \A p \in Procs : ctx[p] = Blank /\ pc[p] = "idle"
      /\ \A i \in Instances : ~cancelled[i]
  BY DEF Init
<1>2. WorkInv
  BY <1>1, BlankPlaced DEF WorkInv, StoreHonest, Awaited
<1>3. EndInv
  BY <1>1 DEF EndInv, Ended, Leaving
<1> QED BY <1>2, <1>3

LEMMA NextKeeps == IndInv /\ WorkInv /\ [Next]_vars => WorkKept
<1> SUFFICES ASSUME IndInv, WorkInv, [Next]_vars PROVE WorkKept
  OBVIOUS
<1>1. CASE UNCHANGED vars
  BY <1>1, StutterKeeps
<1>2. ASSUME NEW p \in Procs, CallerStep(p) PROVE WorkKept
  BY <1>2, CallerStepKeeps
<1>3. ASSUME NEW p \in Procs, LoopStep(p) PROVE WorkKept
  BY <1>3, LoopStepKeeps
<1>4. ASSUME NEW i \in Instances, Cancel(i) PROVE WorkKept
  BY <1>4, CancelKeeps
<1>5. ASSUME NEW i \in Instances, Crash(i) PROVE WorkKept
  BY <1>5, CrashKeeps
<1> QED BY <1>1, <1>2, <1>3, <1>4, <1>5 DEF Next, Quiet

LEMMA WorkInvariance == Spec => []WorkInv
<1>1. Init => WorkInv
  BY InitWork
<1>2. IndInv /\ WorkInv /\ [Next]_vars => WorkInv'
  BY NextKeeps DEF WorkKept
<1> QED BY <1>1, <1>2, Invariance, PTL DEF Spec

LEMMA EndInvariance ==
  ASSUME Separate
  PROVE  Spec => []EndInv
<1>1. Init => EndInv
  BY InitWork
<1>2. IndInv /\ WorkInv /\ EndInv /\ [Next]_vars => EndInv'
  BY NextKeeps DEF WorkKept
<1> QED BY <1>1, <1>2, Invariance, WorkInvariance, PTL DEF Spec

\* Every record of the run is the verification of an executor call made for the
\* same step in the same cycle, and no call is recorded twice, whatever fails:
\* _execute persists the call before making it and the result before verifying
\* it, and pending_execution is cleared in the save that adds the record.
THEOREM RecordsKept == Spec => []RecordsTraceCalls
<1>1. IndInv /\ WorkInv => RecordsTraceCalls
  <2> SUFFICES ASSUME IndInv, WorkInv PROVE RecordsTraceCalls
    OBVIOUS
  <2>1. RecordsTraced(store) /\ store.records \in Seq(IterationRecord)
    BY Fields DEF WorkInv, StoreHonest, Honest, Traced, IndInv, TypeOK
  <2>2. \A i \in DOMAIN store.records : \A j \in 1 .. i - 1 : j \in DOMAIN store.records /\ j # i
    BY <2>1
  <2> QED BY <2>1, <2>2 DEF RecordsTraced, RecordsTraceCalls, Called
<1> QED BY <1>1, Invariance, WorkInvariance, PTL

\* Whoever submits, and however often, an interaction is answered once and an
\* idempotency key used once (submit_human_response): the answer and the end of
\* the question are one save, and a question's id is its revision.
THEOREM AnswersKept == Spec => []OneAnswer
<1>1. WorkInv => OneAnswer
  BY DEF WorkInv, StoreHonest, Honest, AnsweredOnce, OneAnswer
<1> QED BY <1>1, WorkInvariance, PTL

\* When each call has an AgentLoop object of its own, or nobody cancels, a run
\* that has ended stays ended: its status never changes and no late driver calls
\* the executor (ensure_transition, the CAS and the cancellation mark).
THEOREM EndedStayEnded ==
  ASSUME Separate
  PROVE  Spec => TerminalFinal
<1>1. IndInv /\ WorkInv /\ EndInv /\ [Next]_vars
        => [store.status \in Terminal => store'.status = store.status /\ calls' = calls]_vars
  BY NextKeeps DEF WorkKept, StaysEnded
<1> QED BY <1>1, Invariance, WorkInvariance, EndInvariance, PTL DEF Spec, TerminalFinal

\* All that the LoopFaults run asks of failing components, stores and publishers.
THEOREM FaultsKept ==
  ASSUME Separate
  PROVE  Spec => FaultsSurvived
  BY AttemptsBounded, RecordsKept, CommittedKept, EndedStayEnded, PTL DEF FaultsSurvived
=============================================================================
