----------------------------- MODULE PartProofs -----------------------------
(***************************************************************************)
(* The parts around the controllers, proved for all values of their        *)
(* constants. Each part has its inductive invariant:                       *)
(*                                                                         *)
(* Ledger: EffectOnce rests on who may still cause an effect. LedgerInv    *)
(* says that at most one caller is past mark_executing with a given        *)
(* record, that a record in front of it has no effect and no such caller,  *)
(* and that a caller whose executor has not come back has caused none.     *)
(*                                                                         *)
(* AgentDirectory: AbleLease and WithinLimit need what a snapshot still    *)
(* tells, because the policy runs outside the lock on an old one. DirInv:  *)
(* as long as the slot is the same object of the same generation, its spec *)
(* is the one that was seen and it is registered (ViewsAgree), and the     *)
(* agent that was chosen was able in the view (ChosenAble).                *)
(*                                                                         *)
(* EventStream: the stream has no gap behind what was trimmed, and the     *)
(* reader has everything up to its cursor that is not trimmed.             *)
(*                                                                         *)
(* ProcessSandbox: what both readers have kept and what is left make up    *)
(* the budget, and until it is exceeded they have kept all they have read. *)
(*                                                                         *)
(* TeamRuntime: who is queued is queued once and in front of any stop, and *)
(* a stop is queued only for a close whose task is over, behind the drain. *)
(*                                                                         *)
(* RedisCheckpoint: a context is made from the version whose revision it   *)
(* carries, as long as the key was never lost.                             *)
(*                                                                         *)
(* ContextManager: a snapshot the model is asked with is in the store      *)
(* under its revision until the answer is, and what a process owes its     *)
(* first context to waits for recovery until a call has taken it.          *)
(*                                                                         *)
(* PluginRegistry: a component is created for one name of one              *)
(* installation, and none is published before that one has all of them.    *)
(*                                                                         *)
(* AgentBus: the table of futures holds the calls that are under way, one  *)
(* for a correlation id, and a call that waits has no answer yet.          *)
(*                                                                         *)
(* ExportPipeline: what was exported, the batch and the queue follow one   *)
(* another in the order of the calls, and the worker leaves only a queue   *)
(* that nothing will be added to.                                          *)
(***************************************************************************)
EXTENDS Ledger, AgentDirectory, EventStream, ProcessSandbox, TeamRuntime, RedisCheckpoint,
        ContextManager, PluginRegistry, AgentBus, ExportPipeline,
        FiniteSetTheorems, SequenceTheorems, WellFoundedInduction, TLAPS

-----------------------------------------------------------------------------
(* The execution ledger                                                      *)

\* The stages in which a caller owns the execution of its record.
Owning == {"executing", "executed", "raised"}

\* Whoever is at work is at work on a record that exists.
OnARecord ==
  \A c \in Callers : caller[c].pc # "idle" =>
    caller[c].id \in Executions /\ status[caller[c].id] # "none"

\* One caller executes a record.
OneOwner ==
  \A c, d \in Callers :
    caller[c].pc \in Owning /\ caller[d].pc \in Owning /\ caller[c].id = caller[d].id => c = d

\* A record that nobody has marked executing has no owner and no effect.
Untouched ==
  \A e \in Executions : status[e] \in {"none", "PREPARED"} =>
    /\ ~Happened(e)
    /\ \A c \in Callers : caller[c].pc \in Owning => caller[c].id # e

\* An executor that is under way has had no effect yet, one that has returned
\* has had it.
EffectFollows ==
  \A c \in Callers :
    /\ caller[c].pc = "executing" => ~Happened(caller[c].id)
    /\ caller[c].pc = "executed" => Happened(caller[c].id)

\* No record is behind two effects.
Distinct == \A i, j \in DOMAIN effects : effects[i] = effects[j] => i = j

LedgerInv ==
  /\ LedgerTypeOK /\ SharedRecord /\ CommittedIsReal
  /\ OnARecord /\ OneOwner /\ Untouched /\ EffectFollows /\ Distinct

-----------------------------------------------------------------------------
\* The initial ledger is empty (InMemoryExecutionLedger.__init__).
LEMMA InitLedgerInv == LedgerInit => LedgerInv
BY LedgerAssumption DEF LedgerInit, LedgerInv, LedgerTypeOK, SharedRecord, CommittedIsReal,
   OnARecord, OneOwner, Untouched, EffectFollows, Distinct, Happened, Idle, Statuses,
   Stages, Pending, Decided, Owning

\* prepare creates the only record of its request (find_by_hash first).
LEMMA PrepareInv ==
  ASSUME LedgerInv, NEW c \in Callers, NEW r \in Requests, NEW staged \in BOOLEAN,
         NEW e \in Executions, Prepare(c, r, staged, e)
  PROVE  LedgerInv'
<1> USE DEF LedgerInv, LedgerTypeOK, Prepare
<1>1. LedgerTypeOK'
  BY DEF Statuses, Stages, Pending, Decided
<1>2. SharedRecord'
  <2> SUFFICES ASSUME NEW f \in Executions, NEW g \in Executions,
                      status'[f] # "none", status'[g] # "none",
                      Hash(request'[f]) = Hash(request'[g])
               PROVE  f = g
    BY DEF SharedRecord
  <2>1. \A x \in Executions : status[x] # "none" => Hash(request[x]) # Hash(r)
    BY DEF Known
  <2>2. CASE f = e \/ g = e
    BY <2>1, <2>2
  <2>3. CASE f # e /\ g # e
    BY <2>3 DEF SharedRecord
  <2> QED BY <2>2, <2>3
<1>3. CommittedIsReal'
  BY DEF CommittedIsReal, Happened, Statuses
<1>4. OnARecord'
  BY DEF OnARecord
<1>5. OneOwner'
  BY DEF OneOwner, Owning
<1>6. Untouched'
  BY DEF Untouched, Happened, Owning
<1>7. EffectFollows' /\ Distinct'
  BY DEF EffectFollows, Distinct, Happened
<1> QED BY <1>1, <1>2, <1>3, <1>4, <1>5, <1>6, <1>7

\* A known request changes nothing but where its caller is.
LEMMA PrepareKnownInv ==
  ASSUME LedgerInv, NEW c \in Callers, NEW r \in Requests, NEW staged \in BOOLEAN,
         NEW e \in Executions, PrepareKnown(c, r, staged, e)
  PROVE  LedgerInv'
<1> USE DEF LedgerInv, LedgerTypeOK, PrepareKnown
<1>0. status[e] # "none"
  BY DEF Known
<1>1. LedgerTypeOK'
  BY DEF Stages
<1>m. \A d \in Callers :
        \/ caller'[d] = caller[d]
        \/ caller'[d].pc \in {"reuse", "prepared"}
  OBVIOUS
<1>2. SharedRecord' /\ CommittedIsReal' /\ Distinct'
  BY DEF SharedRecord, CommittedIsReal, Distinct, Happened
<1>3. OnARecord'
  BY <1>0 DEF OnARecord
<1>4. OneOwner'
  BY <1>m DEF OneOwner, Owning
<1>5. Untouched'
  BY <1>m DEF Untouched, Happened, Owning
<1>6. EffectFollows'
  BY <1>m DEF EffectFollows, Happened
<1> QED BY <1>1, <1>2, <1>3, <1>4, <1>5, <1>6

\* mark_executing succeeds for one caller of a record.
LEMMA MarkExecutingInv ==
  ASSUME LedgerInv, NEW c \in Callers, MarkExecuting(c)
  PROVE  LedgerInv'
<1> DEFINE e == caller[c].id
<1> USE DEF LedgerInv, LedgerTypeOK, MarkExecuting, Become, Leave, Idle
<1>0. e \in Executions /\ status[e] # "none" /\ effects' = effects /\ request' = request /\ scan' = scan
  BY DEF OnARecord
<1>1. CASE Legal(status[e], "EXECUTING")
  <2>0. /\ status[e] = "PREPARED" /\ status' = [status EXCEPT ![e] = "EXECUTING"]
        /\ payload' = payload /\ caller' = [caller EXCEPT ![c] = [pc |-> "executing", id |-> e]]
    BY <1>0, <1>1 DEF Legal, Transition, Decided
  <2>1. LedgerTypeOK'
    BY <1>0, <2>0 DEF Statuses, Stages, Pending, Decided
  <2>2. SharedRecord' /\ Distinct'
    BY <1>0, <2>0 DEF SharedRecord, Distinct
  <2>3. CommittedIsReal'
    BY <1>0, <2>0 DEF CommittedIsReal, Happened
  <2>4. OnARecord'
    BY <1>0, <2>0 DEF OnARecord
  <2>5. OneOwner' /\ EffectFollows'
    BY <1>0, <2>0 DEF OneOwner, EffectFollows, Untouched, Owning, Happened
  <2>6. Untouched'
    BY <1>0, <2>0 DEF Untouched, Owning, Happened
  <2> QED BY <2>1, <2>2, <2>3, <2>4, <2>5, <2>6
<1>2. CASE ~Legal(status[e], "EXECUTING")
  <2>0. UNCHANGED <<status, payload>> /\ caller' = [caller EXCEPT ![c] = Idle]
    BY <1>2
  <2>1. LedgerTypeOK'
    BY <1>0, <2>0 DEF Stages
  <2>2. SharedRecord' /\ Distinct' /\ CommittedIsReal'
    BY <1>0, <2>0 DEF SharedRecord, Distinct, CommittedIsReal, Happened
  <2>3. OnARecord' /\ OneOwner' /\ Untouched' /\ EffectFollows'
    BY <1>0, <2>0 DEF OnARecord, OneOwner, Untouched, EffectFollows, Owning, Happened
  <2> QED BY <2>1, <2>2, <2>3
<1> QED BY <1>1, <1>2

\* The executor takes effect once, whether it returns or raises after it.
LEMMA EffectInv ==
  ASSUME LedgerInv, NEW c \in Callers, NEW pc \in {"executed", "raised"},
         caller[c].pc = "executing", Become(c, pc),
         effects' = Append(effects, caller[c].id),
         UNCHANGED <<status, request, payload, scan>>
  PROVE  LedgerInv'
<1> DEFINE e == caller[c].id
<1> USE DEF LedgerInv, LedgerTypeOK, Become
<1>0. e \in Executions /\ status[e] \notin {"none", "PREPARED"} /\ ~Happened(e)
  BY DEF OnARecord, Untouched, EffectFollows, Owning
<1>1. \A f : Happened(f)' <=> Happened(f) \/ f = e
  <2> TAKE f
  <2>0. /\ DOMAIN effects' = 1 .. Len(effects) + 1 /\ DOMAIN effects = 1 .. Len(effects)
        /\ Len(effects) \in Nat /\ effects'[Len(effects) + 1] = e
        /\ \A i \in DOMAIN effects : effects'[i] = effects[i]
    BY <1>0
  <2>1. ASSUME Happened(f)' PROVE Happened(f) \/ f = e
    <3>1. PICK i \in DOMAIN effects' : effects'[i] = f
      BY <2>1 DEF Happened
    <3> QED BY <2>0, <3>1 DEF Happened
  <2>2. ASSUME Happened(f) PROVE Happened(f)'
    <3>1. PICK i \in DOMAIN effects : effects[i] = f
      BY <2>2 DEF Happened
    <3> QED BY <2>0, <3>1 DEF Happened
  <2>3. ASSUME f = e PROVE Happened(f)'
    <3>1. Len(effects) + 1 \in DOMAIN effects' /\ effects'[Len(effects) + 1] = f
      BY <2>0, <2>3
    <3> QED BY <3>1 DEF Happened
  <2> QED BY <2>1, <2>2, <2>3
<1>2. Distinct'
  BY <1>0 DEF Distinct, Happened
<1>3. LedgerTypeOK'
  BY <1>0 DEF Stages
<1>4. SharedRecord' /\ CommittedIsReal'
  BY <1>1 DEF SharedRecord, CommittedIsReal
<1>5. OnARecord' /\ OneOwner'
  BY DEF OnARecord, OneOwner, Owning
<1>6. Untouched'
  BY <1>0, <1>1 DEF Untouched, Owning
<1>7. EffectFollows'
  BY <1>0, <1>1 DEF EffectFollows, OneOwner, Owning
<1> QED BY <1>2, <1>3, <1>4, <1>5, <1>6, <1>7

\* An executor that raises before its effect leaves the record in doubt.
LEMMA RaisedEarlyInv ==
  ASSUME LedgerInv, NEW c \in Callers, caller[c].pc = "executing", Become(c, "raised"),
         UNCHANGED <<status, request, payload, effects, scan>>
  PROVE  LedgerInv'
<1> USE DEF LedgerInv, LedgerTypeOK, Become
<1>1. LedgerTypeOK' /\ SharedRecord' /\ CommittedIsReal' /\ Distinct'
  BY DEF Stages, SharedRecord, CommittedIsReal, Distinct, Happened
<1>2. OnARecord' /\ OneOwner' /\ Untouched' /\ EffectFollows'
  BY DEF OnARecord, OneOwner, Untouched, EffectFollows, Owning, Happened
<1> QED BY <1>1, <1>2

\* A caller that leaves, by dying, returning or an error, takes nothing along.
LEMMA LeaveInv ==
  ASSUME LedgerInv, NEW c \in Callers, Leave(c),
         UNCHANGED <<status, request, payload, effects, scan>>
  PROVE  LedgerInv'
<1> USE DEF LedgerInv, LedgerTypeOK, Leave, Idle
<1>1. LedgerTypeOK' /\ SharedRecord' /\ CommittedIsReal' /\ Distinct'
  BY DEF Stages, SharedRecord, CommittedIsReal, Distinct, Happened
<1>2. OnARecord' /\ OneOwner' /\ Untouched' /\ EffectFollows'
  BY DEF OnARecord, OneOwner, Untouched, EffectFollows, Owning, Happened
<1> QED BY <1>1, <1>2

\* A record that is past PREPARED moves on: to COMMITTED with its own payload
\* if the effect happened, to FAILED or RECONCILIATION_REQUIRED without one.
LEMMA DecideInv ==
  ASSUME LedgerInv, NEW e \in Executions, NEW to \in {"COMMITTED", "FAILED", "RECONCILIATION_REQUIRED"},
         NEW result \in {None, e}, Transition(e, to, result),
         result = e <=> to = "COMMITTED", to = "COMMITTED" => Happened(e),
         UNCHANGED <<request, caller, effects>>, scan' \subseteq scan
  PROVE  LedgerInv'
<1> USE DEF LedgerInv, LedgerTypeOK, Transition, Legal, Decided
<1>0. /\ status[e] \in {"EXECUTING", "RECONCILIATION_REQUIRED"} /\ e # None
      /\ payload' = [payload EXCEPT ![e] = IF to = "COMMITTED" THEN e ELSE @]
      /\ status' = [status EXCEPT ![e] = to]
  BY LedgerAssumption
<1>1. LedgerTypeOK'
  BY <1>0 DEF Statuses, Pending
<1>2. SharedRecord' /\ Distinct'
  BY <1>0 DEF SharedRecord, Distinct
<1>3. CommittedIsReal'
  BY <1>0 DEF CommittedIsReal, Happened
<1>4. OnARecord' /\ OneOwner' /\ EffectFollows'
  BY <1>0 DEF OnARecord, OneOwner, EffectFollows, Happened
<1>5. Untouched'
  BY <1>0 DEF Untouched, Happened
<1> QED BY <1>1, <1>2, <1>3, <1>4, <1>5

\* The same with the caller that settled the record coming back or leaving.
LEMMA SettleInv ==
  ASSUME LedgerInv, NEW c \in Callers, NEW e \in Executions, NEW to \in Decided,
         NEW result \in {None, e}, Transition(e, to, result),
         result = e <=> to = "COMMITTED", to = "COMMITTED" => Happened(e),
         caller[c].id = e, caller[c].pc # "idle",
         Leave(c) \/ Become(c, "returned"),
         UNCHANGED <<request, effects, scan>>
  PROVE  LedgerInv'
<1> USE DEF LedgerInv, LedgerTypeOK, Transition, Legal, Decided, Leave, Become, Idle
<1>0. /\ status[e] \in {"EXECUTING", "RECONCILIATION_REQUIRED"} /\ e # None
      /\ payload' = [payload EXCEPT ![e] = IF to = "COMMITTED" THEN e ELSE @]
      /\ status' = [status EXCEPT ![e] = to]
  BY LedgerAssumption
<1>m. /\ \A d \in Callers : d # c => caller'[d] = caller[d]
      /\ \/ caller'[c].pc = "idle"
         \/ caller'[c].pc = "returned" /\ caller'[c].id = e
  <2>1. CASE Leave(c)
    BY <2>1
  <2>2. CASE Become(c, "returned")
    BY <2>2
  <2> QED BY <2>1, <2>2
<1>1. LedgerTypeOK'
  BY <1>0 DEF Statuses, Stages, Pending
<1>2. SharedRecord' /\ Distinct'
  BY <1>0 DEF SharedRecord, Distinct
<1>3. CommittedIsReal'
  BY <1>0 DEF CommittedIsReal, Happened
<1>4. OnARecord'
  <2> SUFFICES ASSUME NEW d \in Callers, caller'[d].pc # "idle"
               PROVE  caller'[d].id \in Executions /\ status'[caller'[d].id] # "none"
    BY DEF OnARecord
  <2>1. CASE d = c
    BY <1>0, <1>m, <2>1
  <2>2. CASE d # c
    <3>1. caller'[d] = caller[d] /\ caller[d].id \in Executions /\ status[caller[d].id] # "none"
      BY <1>m, <2>2 DEF OnARecord
    <3> QED BY <1>0, <3>1
  <2> QED BY <2>1, <2>2
<1>5. OneOwner'
  BY <1>m DEF OneOwner, Owning
<1>6. EffectFollows'
  BY <1>m DEF EffectFollows, Happened
<1>7. Untouched'
  BY <1>0, <1>m DEF Untouched, Happened, Owning
<1> QED BY <1>1, <1>2, <1>3, <1>4, <1>5, <1>6, <1>7

\* recover lists the pending records and changes none.
LEMMA RecoverInv ==
  ASSUME LedgerInv, UNCHANGED <<status, request, payload, caller, effects>>,
         scan' \subseteq [id : Executions, status : Pending]
  PROVE  LedgerInv'
BY DEF LedgerInv, LedgerTypeOK, SharedRecord, CommittedIsReal, OnARecord, OneOwner,
       Untouched, EffectFollows, Distinct, Happened

-----------------------------------------------------------------------------
\* Every operation of the ledger, its callers and the recovering host keeps
\* the invariant.
LEMMA StepLedgerInv == LedgerInv /\ [LedgerNext]_ledgerVars => LedgerInv'
<1> SUFFICES ASSUME LedgerInv, [LedgerNext]_ledgerVars PROVE LedgerInv'
  OBVIOUS
<1>1. ASSUME NEW c \in Callers, CallerStep(c) PROVE LedgerInv'
  <2> DEFINE e == caller[c].id
  <2>0. caller[c].pc # "idle" => e \in Executions
    BY DEF LedgerInv, OnARecord
  <2>1. CASE MarkExecuting(c)
    BY <2>1, MarkExecutingInv
  <2>2. CASE Effect(c)
    BY <2>2, EffectInv DEF Effect
  <2>3. CASE ExecutorRaises(c)
    BY <2>3, EffectInv, RaisedEarlyInv DEF ExecutorRaises
  <2>4. CASE Commit(c)
    <3>1. e \in Executions /\ Happened(e)
      BY <2>0, <2>4 DEF Commit, LedgerInv, EffectFollows
    <3>2. CASE Legal(status[e], "COMMITTED")
      <4>1. Transition(e, "COMMITTED", e) /\ Become(c, "returned")
        BY <2>4, <3>2 DEF Commit
      <4> QED BY <2>4, <3>1, <4>1, SettleInv DEF Commit, Decided
    <3>3. CASE ~Legal(status[e], "COMMITTED")
      BY <2>4, <3>3, LeaveInv DEF Commit
    <3> QED BY <3>2, <3>3
  <2>5. CASE Fail(c)
    <3>1. e \in Executions
      BY <2>0, <2>5 DEF Fail
    <3>2. CASE Legal(status[e], "FAILED")
      <4>1. Transition(e, "FAILED", None) /\ Leave(c)
        BY <2>5, <3>2 DEF Fail
      <4>2. None # e
        BY <3>1, LedgerAssumption
      <4> QED BY <2>5, <3>1, <4>1, <4>2, SettleInv DEF Fail, Decided
    <3>3. CASE ~Legal(status[e], "FAILED")
      BY <2>5, <3>3, LeaveInv DEF Fail
    <3> QED BY <3>2, <3>3
  <2>6. CASE Return(c)
    BY <2>6, LeaveInv DEF Return
  <2> QED BY <1>1, <2>1, <2>2, <2>3, <2>4, <2>5, <2>6 DEF CallerStep
<1>2. ASSUME NEW c \in Callers, Die(c) PROVE LedgerInv'
  BY <1>2, LeaveInv DEF Die
<1>3. ASSUME NEW c \in Callers, NEW r \in Requests, NEW staged \in BOOLEAN, NEW e \in Executions,
             Prepare(c, r, staged, e) \/ PrepareKnown(c, r, staged, e)
      PROVE  LedgerInv'
  BY <1>3, PrepareInv, PrepareKnownInv
<1>4. CASE Recover
  BY <1>4, RecoverInv DEF Recover
<1>5. ASSUME NEW x \in scan, RecoverOne(x) PROVE LedgerInv'
  <2>0. x.id \in Executions /\ scan \subseteq [id : Executions, status : Pending]
    BY DEF LedgerInv, LedgerTypeOK
  <2>1. CASE x.status # "PREPARED" /\ Legal(status[x.id], "RECONCILIATION_REQUIRED")
    <3>1. Transition(x.id, "RECONCILIATION_REQUIRED", None) /\ scan' \subseteq scan
      BY <1>5, <2>1 DEF RecoverOne
    <3>2. None # x.id
      BY <2>0, LedgerAssumption
    <3> QED BY <1>5, <2>0, <3>1, <3>2, DecideInv DEF RecoverOne
  <2>2. CASE ~(x.status # "PREPARED" /\ Legal(status[x.id], "RECONCILIATION_REQUIRED"))
    <3>1. UNCHANGED <<status, payload>> /\ scan' \subseteq scan
      BY <1>5, <2>2 DEF RecoverOne
    <3> QED BY <1>5, <2>0, <3>1, RecoverInv DEF RecoverOne
  <2> QED BY <2>1, <2>2
<1>6. ASSUME NEW e \in Executions, Reconcile(e) PROVE LedgerInv'
  <2>0. None # e
    BY LedgerAssumption
  <2>1. CASE Happened(e)
    BY <1>6, <2>0, <2>1, DecideInv DEF Reconcile
  <2>2. CASE ~Happened(e)
    BY <1>6, <2>0, <2>2, DecideInv DEF Reconcile
  <2> QED BY <2>1, <2>2
<1>7. CASE UNCHANGED ledgerVars
  BY <1>7, RecoverInv DEF ledgerVars, LedgerInv, LedgerTypeOK
<1> QED BY <1>1, <1>2, <1>3, <1>4, <1>5, <1>6, <1>7 DEF LedgerNext

\* Distinct records, each behind one effect, and one record for equal requests.
LEMMA InvEffectOnce == LedgerInv => EffectOnce
<1> SUFFICES ASSUME LedgerInv, NEW i \in DOMAIN effects, NEW j \in DOMAIN effects,
                    Hash(request[effects[i]]) = Hash(request[effects[j]])
             PROVE  i = j
  BY DEF EffectOnce
<1>1. \A k \in DOMAIN effects : effects[k] \in Executions /\ status[effects[k]] # "none"
  BY DEF LedgerInv, LedgerTypeOK, Untouched, Happened
<1>2. effects[i] = effects[j]
  BY <1>1 DEF LedgerInv, SharedRecord
<1> QED BY <1>2 DEF LedgerInv, Distinct

\* A decided record has no legal way on.
LEMMA StepDecided ==
  ASSUME LedgerInv, LedgerNext, NEW e \in Executions, status[e] \in Decided
  PROVE  status'[e] = status[e] /\ payload'[e] = payload[e]
<1> USE DEF LedgerInv, LedgerTypeOK, Decided
<1>0. ASSUME NEW f \in Executions, NEW to, NEW result, Transition(f, to, result)
      PROVE  status'[e] = status[e] /\ payload'[e] = payload[e]
  BY <1>0 DEF Transition, Legal
<1>1. ASSUME NEW c \in Callers, CallerStep(c)
      PROVE  status'[e] = status[e] /\ payload'[e] = payload[e]
  <2>1. caller[c].pc # "idle" => caller[c].id \in Executions
    BY DEF OnARecord
  <2> QED BY <1>0, <1>1, <2>1 DEF CallerStep, MarkExecuting, Effect, ExecutorRaises, Commit, Fail, Return
<1>2. ASSUME NEW c \in Callers, NEW r \in Requests, NEW staged \in BOOLEAN, NEW f \in Executions,
             Prepare(c, r, staged, f) \/ PrepareKnown(c, r, staged, f)
      PROVE  status'[e] = status[e] /\ payload'[e] = payload[e]
  BY <1>2 DEF Prepare, PrepareKnown
<1>3. ASSUME NEW x \in scan, RecoverOne(x)
      PROVE  status'[e] = status[e] /\ payload'[e] = payload[e]
  <2>1. x.id \in Executions
    OBVIOUS
  <2> QED BY <1>0, <1>3, <2>1 DEF RecoverOne
<1>4. ASSUME NEW f \in Executions, Reconcile(f)
      PROVE  status'[e] = status[e] /\ payload'[e] = payload[e]
  BY <1>0, <1>4 DEF Reconcile
<1>5. ASSUME (\E c \in Callers : Die(c)) \/ Recover
      PROVE  status'[e] = status[e] /\ payload'[e] = payload[e]
  BY <1>5 DEF Die, Recover
<1> QED BY <1>1, <1>2, <1>3, <1>4, <1>5 DEF LedgerNext

-----------------------------------------------------------------------------
\* The invariant holds in every reachable state of the ledger.
THEOREM LedgerInvariant == LedgerSpec => []LedgerInv
BY InitLedgerInv, StepLedgerInv, PTL DEF LedgerSpec

\* An external effect happens at most once for equal requests, equal requests
\* share one record, what is COMMITTED happened, and what is decided stays
\* decided: for any number of callers, executions and requests, over deaths,
\* recovery and reconciliation beside a live executor (IdempotentInvoker,
\* TransactionalExecutor).
THEOREM LedgerKeepsPromise == LedgerSpec => EffectsSettled
<1>1. LedgerInv => LedgerTypeOK /\ EffectOnce /\ CommittedIsReal /\ SharedRecord
  BY InvEffectOnce DEF LedgerInv
<1>2. LedgerInv /\ [LedgerNext]_ledgerVars =>
        [\A e \in Executions : status[e] \in Decided
           => status'[e] = status[e] /\ payload'[e] = payload[e]]_ledgerVars
  BY StepDecided
<1> QED BY <1>1, <1>2, LedgerInvariant, PTL DEF LedgerSpec, EffectsSettled, DecidedOnce

-----------------------------------------------------------------------------
(* The agent directory                                                       *)

\* A nonempty set of numbers has a least one.
LEMMA LeastNat ==
  ASSUME NEW T \in SUBSET Nat, T # {}
  PROVE  \E x \in T : \A y \in T : x <= y
<1>1. PICK R : IsWellFoundedOn(R, Nat) /\ \A x, y \in Nat : <<x, y>> \in R <=> x < y
  <2>1. \A x, y \in Nat : <<x, y>> \in OpToRel(<, Nat) <=> x < y
    BY DEF OpToRel
  <2> QED BY <2>1, NatLessThanWellFounded, Zenon
<1>2. PICK x \in T : \A y \in T : ~(<<y, x>> \in R)
  <2>1. IsWellFoundedOn(R, Nat) /\ T \subseteq Nat
    BY <1>1
  <2> QED BY <2>1, WFMin
<1>3. \A y \in T : ~(y < x)
  BY <1>1, <1>2, Zenon
<1> QED BY <1>3

-----------------------------------------------------------------------------
(* The directory                                                             *)

Slots == [object : Nat, spec : Specs \cup {NoSpec}, active : Nat,
          generation : Nat, registered : BOOLEAN]

Calls == [pc : {"away", "again", "select", "take", "lease"}, view : UNION {[S -> Slots] : S \in SUBSET AgentIds},
          agent : AgentIds \cup {0}, object : Nat, spec : Specs \cup {NoSpec}]

\* Types, and what the numbers and flags of a slot have to do with each other.
DirShape ==
  /\ slot \in [AgentIds -> Slots]
  /\ borrower \in [Borrowers -> Calls]
  /\ edits \in 0..MaxEdits
  /\ \A a \in AgentIds :
       /\ slot[a].object <= edits /\ slot[a].generation <= edits
       /\ Gone(a) => slot[a] = NoSlot
       /\ ~Gone(a) => slot[a].spec \in Specs
       /\ ~Gone(a) /\ ~slot[a].registered => slot[a].active > 0

\* What a call of acquire saw of a slot object is still so as long as its
\* generation is the same.
ViewsAgree ==
  \A b \in Borrowers : \A a \in DOMAIN borrower[b].view :
    LET seen == borrower[b].view[a] IN
    /\ seen.object \in 1..edits /\ seen.registered
    /\ slot[a].object = seen.object =>
         /\ seen.generation <= slot[a].generation
         /\ seen.generation = slot[a].generation =>
              slot[a].spec = seen.spec /\ slot[a].registered

\* The policy's choice is an agent that was able in the view.
ChosenAble ==
  \A b \in Borrowers : borrower[b].pc = "take" =>
    borrower[b].agent \in DOMAIN borrower[b].view /\ borrower[b].view[borrower[b].agent].spec.able

\* Who holds a lease holds one of an object.
LeaseShape ==
  \A b \in Borrowers : borrower[b].pc = "lease" => borrower[b].agent \in AgentIds /\ borrower[b].object # 0

\* The inductive invariant.
DirInv == DirShape /\ ViewsAgree /\ ChosenAble /\ LeaseShape /\ CountedLeases /\ AbleLease

LEMMA LeasesFinite ==
  \A a : IsFiniteSet(Leases(a)) /\ Cardinality(Leases(a)) \in 0..Cardinality(Borrowers)
BY DirectoryAssumption, FS_Subset, FS_CardinalityType DEF Leases

\* LeastBusyScheduler.select finds one whenever one is free.
LEMMA LeastBusyFree ==
  ASSUME NEW S \in SUBSET AgentIds, NEW view \in [S -> Slots], Free(view) # {}
  PROVE  LeastBusy(view) \in Free(view)
<1>0. Free(view) \subseteq Nat /\ \A a \in Free(view) : Busy(view, a) \in Nat
  BY DirectoryAssumption DEF Free, Busy, Slots
<1> DEFINE loads == {Busy(view, a) : a \in Free(view)}
<1>1. PICK m \in loads : \A y \in loads : m <= y
  <2>1. loads \in SUBSET Nat /\ loads # {}
    BY <1>0
  <2> HIDE DEF loads
  <2> QED BY <2>1, LeastNat
<1> DEFINE least == {a \in Free(view) : Busy(view, a) = m}
<1>2. PICK a \in least : \A y \in least : a <= y
  <2>1. least \in SUBSET Nat /\ least # {}
    BY <1>0, <1>1
  <2> HIDE DEF least
  <2> QED BY <2>1, LeastNat
<1>3. \A c \in Free(view) : Busy(view, a) < Busy(view, c) \/ (Busy(view, a) = Busy(view, c) /\ a <= c)
  BY <1>0, <1>1, <1>2
<1>4. a \in Free(view)
  BY <1>2
<1> QED BY <1>3, <1>4 DEF LeastBusy

LEMMA InitDirInv == DirInit => DirInv
<1> SUFFICES ASSUME DirInit PROVE DirInv
  OBVIOUS
<1> USE DirectoryAssumption DEF DirInit
<1>1. NoSlot \in Slots /\ <<>> \in [{} -> Slots]
  BY DEF NoSlot, Slots, NoSpec
<1>2. Away \in Calls
  BY <1>1 DEF Away, Calls
<1>3. DirShape
  BY <1>1, <1>2 DEF DirShape, NoSlot, Gone
<1>4. \A a \in AgentIds : Leases(a) = {}
  BY DEF Leases, Away
<1>5. CountedLeases
  BY <1>4, FS_EmptySet DEF CountedLeases, NoSlot
<1> QED BY <1>3, <1>5 DEF DirInv, ViewsAgree, ChosenAble, LeaseShape, AbleLease, Away

\* The slots that the operations of the registry leave behind.
LEMMA ReplacedSlot ==
  ASSUME NEW s \in Slots, NEW spec \in Specs
  PROVE  LET r == Replaced(s, spec) IN
         /\ r \in Slots /\ r.active = s.active /\ r.object = s.object
         /\ r.spec = spec /\ r.generation = s.generation + 1 /\ r.registered = s.registered
<1> DEFINE t == [s EXCEPT !.spec = spec]
           u == [t EXCEPT !.generation = s.generation + 1]
<1>1. Replaced(s, spec) = u
  BY Zenon DEF Replaced
<1>2. /\ t \in Slots /\ t.active = s.active /\ t.object = s.object
      /\ t.spec = spec /\ t.generation = s.generation /\ t.registered = s.registered
  BY DEF Slots
<1> HIDE DEF t
<1>3. /\ u \in Slots /\ u.active = t.active /\ u.object = t.object
      /\ u.spec = t.spec /\ u.generation = s.generation + 1 /\ u.registered = t.registered
  BY <1>2 DEF Slots
<1> HIDE DEF u
<1> QED BY <1>1, <1>2, <1>3

LEMMA RegisteredSlot ==
  ASSUME NEW s \in Slots, NEW spec \in Specs
  PROVE  LET r == [Replaced(s, spec) EXCEPT !.registered = TRUE] IN
         /\ r \in Slots /\ r.active = s.active /\ r.object = s.object
         /\ r.spec = spec /\ r.generation = s.generation + 1 /\ r.registered
<1> DEFINE r == Replaced(s, spec)
<1>1. /\ r \in Slots /\ r.active = s.active /\ r.object = s.object
      /\ r.spec = spec /\ r.generation = s.generation + 1
  BY ReplacedSlot
<1> HIDE DEF r
<1>2. LET u == [r EXCEPT !.registered = TRUE] IN
      /\ u \in Slots /\ u.active = r.active /\ u.object = r.object
      /\ u.spec = r.spec /\ u.generation = r.generation /\ u.registered
  BY <1>1 DEF Slots
<1> QED BY <1>1, <1>2, Zenon DEF r

LEMMA ClosedSlot ==
  ASSUME NEW s \in Slots
  PROVE  LET r == Unregistered(s) IN
         /\ r \in Slots /\ r.active = s.active /\ r.object = s.object
         /\ r.spec = s.spec /\ r.generation = s.generation + 1 /\ ~r.registered
<1> DEFINE t == [s EXCEPT !.registered = FALSE]
           u == [t EXCEPT !.generation = s.generation + 1]
<1>1. Unregistered(s) = u
  BY Zenon DEF Unregistered
<1>2. /\ t \in Slots /\ t.active = s.active /\ t.object = s.object
      /\ t.spec = s.spec /\ t.generation = s.generation /\ ~t.registered
  BY DEF Slots
<1> HIDE DEF t
<1>3. /\ u \in Slots /\ u.active = t.active /\ u.object = t.object
      /\ u.spec = t.spec /\ u.generation = s.generation + 1 /\ u.registered = t.registered
  BY <1>2 DEF Slots
<1> HIDE DEF u
<1> QED BY <1>1, <1>2, <1>3

LEMMA NewSlot ==
  ASSUME NEW n \in Nat, NEW spec \in Specs
  PROVE  [object |-> n, spec |-> spec, active |-> 0, generation |-> 0, registered |-> TRUE] \in Slots
BY DEF Slots

LEMMA SlotFields ==
  ASSUME NEW s \in Slots
  PROVE  /\ s.object \in Nat /\ s.active \in Nat /\ s.generation \in Nat
         /\ s.registered \in BOOLEAN /\ s.spec \in Specs \cup {NoSpec}
BY DEF Slots

\* What a call of acquire carries, field by field.
LEMMA CallFields ==
  ASSUME NEW c \in Calls
  PROVE  /\ c.agent \in AgentIds \cup {0} /\ c.object \in Nat
         /\ \E S \in SUBSET AgentIds : c.view \in [S -> Slots]
BY DEF Calls

LEMMA ViewSlots ==
  ASSUME NEW c \in Calls, NEW x \in DOMAIN c.view
  PROVE  x \in AgentIds /\ c.view[x] \in Slots
<1>1. PICK S \in SUBSET AgentIds : c.view \in [S -> Slots]
  BY CallFields
<1> QED BY <1>1

\* register, replace and unregister: the slot of one agent changes, its count of
\* leases does not, and its generation goes up or the object is another one.
LEMMA EditInv ==
  ASSUME DirInv, Edit, NEW a \in AgentIds, NEW s \in Slots,
         slot' = [slot EXCEPT ![a] = s],
         s.active = slot[a].active, s.object <= edits', s.generation <= edits',
         s.object = 0 => s = NoSlot,
         s.object # 0 => s.spec \in Specs,
         s.object # 0 /\ ~s.registered => s.active > 0,
         s.object = slot[a].object \/ (slot[a].active = 0 /\ s.object \notin 1..edits),
         s.object = slot[a].object => s.generation > slot[a].generation
  PROVE  DirInv'
<1> USE DirectoryAssumption DEF DirInv
<1>0. edits \in Nat /\ edits' = edits + 1 /\ edits' \in 0..MaxEdits /\ borrower' = borrower
  BY DEF DirShape, Edit
<1>a. slot \in [AgentIds -> Slots] /\ slot'[a] = s /\ \A x \in AgentIds : x # a => slot'[x] = slot[x]
  BY DEF DirShape
<1>1. DirShape'
  <2>1. slot' \in [AgentIds -> Slots] /\ borrower' \in [Borrowers -> Calls] /\ edits' \in 0..MaxEdits
    BY <1>0, <1>a DEF DirShape
  <2>2. ASSUME NEW x \in AgentIds
        PROVE  /\ slot'[x].object <= edits' /\ slot'[x].generation <= edits'
               /\ slot'[x].object = 0 => slot'[x] = NoSlot
               /\ slot'[x].object # 0 => slot'[x].spec \in Specs
               /\ slot'[x].object # 0 /\ ~slot'[x].registered => slot'[x].active > 0
    <3>1. CASE x = a
      BY <3>1, <1>a
    <3>2. CASE x # a
      <4>1. slot[x].object \in Nat /\ slot[x].generation \in Nat
        BY <1>a, SlotFields
      <4> QED BY <3>2, <4>1, <1>0, <1>a DEF DirShape, Gone
    <3> QED BY <3>1, <3>2
  <2> QED BY <2>1, <2>2 DEF DirShape, Gone
<1>2. ViewsAgree'
  <2> SUFFICES ASSUME NEW b \in Borrowers, NEW x \in DOMAIN borrower[b].view
               PROVE  LET seen == borrower[b].view[x] IN
                      /\ seen.object \in 1..edits' /\ seen.registered
                      /\ slot'[x].object = seen.object =>
                           /\ seen.generation <= slot'[x].generation
                           /\ seen.generation = slot'[x].generation =>
                                slot'[x].spec = seen.spec /\ slot'[x].registered
    BY <1>0 DEF ViewsAgree
  <2>1. x \in AgentIds /\ borrower[b].view[x] \in Slots
    BY ViewSlots DEF DirShape
  <2> DEFINE seen == borrower[b].view[x]
  <2>2. /\ seen.object \in 1..edits /\ seen.registered
        /\ slot[x].object = seen.object =>
             /\ seen.generation <= slot[x].generation
             /\ seen.generation = slot[x].generation => slot[x].spec = seen.spec /\ slot[x].registered
    BY DEF ViewsAgree
  <2>3. seen.generation \in Nat /\ s.generation \in Nat /\ slot[a].generation \in Nat
    BY <1>a, <2>1, SlotFields
  <2>4. CASE x # a
    BY <1>0, <1>a, <2>1, <2>2, <2>4
  <2>5. CASE x = a
    BY <1>0, <1>a, <2>1, <2>2, <2>3, <2>5
  <2> QED BY <2>4, <2>5
<1>3. \A x \in AgentIds : Leases(x)' = Leases(x)
  BY <1>0 DEF Leases
<1>4. slot[a].active = 0 => Leases(a) = {}
  BY LeasesFinite, FS_EmptySet DEF CountedLeases
<1>5. CountedLeases'
  BY <1>0, <1>a, <1>3, <1>4 DEF CountedLeases
<1> QED BY <1>0, <1>1, <1>2, <1>5 DEF ChosenAble, LeaseShape, AbleLease

LEMMA EditFacts ==
  ASSUME DirInv, Edit, NEW a \in AgentIds
  PROVE  /\ slot \in [AgentIds -> Slots] /\ slot[a] \in Slots /\ edits \in Nat /\ edits' = edits + 1
         /\ slot[a].object \in Nat /\ slot[a].generation \in Nat /\ slot[a].active \in Nat
         /\ slot[a].object <= edits /\ slot[a].generation <= edits
         /\ slot[a].object = 0 => slot[a] = NoSlot
         /\ slot[a].object # 0 => slot[a].spec \in Specs
BY DirectoryAssumption, SlotFields DEF DirInv, DirShape, Edit, Gone

LEMMA RegisterInv ==
  ASSUME DirInv, NEW a \in AgentIds, NEW spec \in Specs, NEW replacing \in BOOLEAN,
         RegisterEndpoint(a, spec, replacing)
  PROVE  DirInv'
<1>e. Edit
  BY DEF RegisterEndpoint
<1>1. CASE slot[a].object = 0
  <2> DEFINE s == [object |-> edits', spec |-> spec, active |-> 0, generation |-> 0, registered |-> TRUE]
  <2>1. slot' = [slot EXCEPT ![a] = s]
    BY <1>1 DEF RegisterEndpoint, Gone
  <2>2. slot[a] = NoSlot /\ edits \in Nat /\ edits' = edits + 1
    BY <1>1, <1>e, EditFacts
  <2>3. s \in Slots
    BY <2>2, NewSlot
  <2>4. s.active = slot[a].active /\ s.object = edits' /\ s.generation = 0 /\ s.spec = spec /\ s.registered
    BY <2>2 DEF NoSlot
  <2> HIDE DEF s
  <2>5. /\ s.active = slot[a].active /\ s.object <= edits' /\ s.generation <= edits'
        /\ s.object = 0 => s = NoSlot
        /\ s.object # 0 => s.spec \in Specs
        /\ s.object # 0 /\ ~s.registered => s.active > 0
        /\ s.object = slot[a].object \/ (slot[a].active = 0 /\ s.object \notin 1..edits)
        /\ s.object = slot[a].object => s.generation > slot[a].generation
    BY <1>1, <2>2, <2>4 DEF NoSlot
  <2> QED BY <1>e, <2>1, <2>3, <2>5, EditInv, Zenon
<1>2. CASE slot[a].object # 0
  <2> DEFINE s == [Replaced(slot[a], spec) EXCEPT !.registered = TRUE]
  <2>1. slot' = [slot EXCEPT ![a] = s]
    BY <1>2 DEF RegisterEndpoint, Gone
  <2>2. /\ s \in Slots /\ s.active = slot[a].active /\ s.object = slot[a].object
        /\ s.spec = spec /\ s.generation = slot[a].generation + 1 /\ s.registered
    BY <1>e, EditFacts, RegisteredSlot
  <2> HIDE DEF s
  <2>3. /\ s.active = slot[a].active /\ s.object <= edits' /\ s.generation <= edits'
        /\ s.object = 0 => s = NoSlot
        /\ s.object # 0 => s.spec \in Specs
        /\ s.object # 0 /\ ~s.registered => s.active > 0
        /\ s.object = slot[a].object \/ (slot[a].active = 0 /\ s.object \notin 1..edits)
        /\ s.object = slot[a].object => s.generation > slot[a].generation
    BY <1>2, <1>e, <2>2, EditFacts
  <2> QED BY <1>e, <2>1, <2>2, <2>3, EditInv, Zenon
<1> QED BY <1>1, <1>2

LEMMA ReplaceInv ==
  ASSUME DirInv, NEW a \in AgentIds, NEW spec \in Specs, ReplaceEndpoint(a, spec)
  PROVE  DirInv'
<1>1. Edit /\ slot[a].registered
  BY DEF ReplaceEndpoint
<1>2. slot[a].object # 0
  BY <1>1, EditFacts DEF NoSlot
<1> DEFINE s == Replaced(slot[a], spec)
<1>3. slot' = [slot EXCEPT ![a] = s]
  BY DEF ReplaceEndpoint
<1>4. /\ s \in Slots /\ s.active = slot[a].active /\ s.object = slot[a].object
      /\ s.spec = spec /\ s.generation = slot[a].generation + 1 /\ s.registered
  BY <1>1, EditFacts, ReplacedSlot
<1> HIDE DEF s
<1>5. /\ s.active = slot[a].active /\ s.object <= edits' /\ s.generation <= edits'
      /\ s.object = 0 => s = NoSlot
      /\ s.object # 0 => s.spec \in Specs
      /\ s.object # 0 /\ ~s.registered => s.active > 0
      /\ s.object = slot[a].object \/ (slot[a].active = 0 /\ s.object \notin 1..edits)
      /\ s.object = slot[a].object => s.generation > slot[a].generation
  BY <1>1, <1>2, <1>4, EditFacts
<1> QED BY <1>1, <1>3, <1>4, <1>5, EditInv, Zenon

LEMMA UnregisterInv ==
  ASSUME DirInv, NEW a \in AgentIds, UnregisterEndpoint(a)
  PROVE  DirInv'
<1>1. Edit /\ slot[a].registered
  BY DEF UnregisterEndpoint
<1>2. slot[a].object # 0
  BY <1>1, EditFacts DEF NoSlot
<1>3. CASE slot[a].active = 0
  <2>1. slot' = [slot EXCEPT ![a] = NoSlot]
    BY <1>3 DEF UnregisterEndpoint
  <2>2. NoSlot \in Slots /\ NoSlot.object = 0 /\ NoSlot.active = 0 /\ NoSlot.generation = 0
    BY DEF Slots, NoSlot
  <2>3. /\ NoSlot.active = slot[a].active /\ NoSlot.object <= edits' /\ NoSlot.generation <= edits'
        /\ NoSlot.object = 0 => NoSlot = NoSlot
        /\ NoSlot.object # 0 => NoSlot.spec \in Specs
        /\ NoSlot.object # 0 /\ ~NoSlot.registered => NoSlot.active > 0
        /\ NoSlot.object = slot[a].object \/ (slot[a].active = 0 /\ NoSlot.object \notin 1..edits)
        /\ NoSlot.object = slot[a].object => NoSlot.generation > slot[a].generation
    BY <1>1, <1>2, <1>3, <2>2, EditFacts
  <2> QED BY <1>1, <2>1, <2>2, <2>3, EditInv, Zenon
<1>4. CASE slot[a].active # 0
  <2> DEFINE s == Unregistered(slot[a])
  <2>1. slot' = [slot EXCEPT ![a] = s]
    BY <1>4 DEF UnregisterEndpoint
  <2>2. /\ s \in Slots /\ s.active = slot[a].active /\ s.object = slot[a].object
        /\ s.spec = slot[a].spec /\ s.generation = slot[a].generation + 1
    BY <1>1, EditFacts, ClosedSlot
  <2> HIDE DEF s
  <2>3. /\ s.active = slot[a].active /\ s.object <= edits' /\ s.generation <= edits'
        /\ s.object = 0 => s = NoSlot
        /\ s.object # 0 => s.spec \in Specs
        /\ s.object # 0 /\ ~s.registered => s.active > 0
        /\ s.object = slot[a].object \/ (slot[a].active = 0 /\ s.object \notin 1..edits)
        /\ s.object = slot[a].object => s.generation > slot[a].generation
    BY <1>1, <1>2, <1>4, <2>2, EditFacts
  <2> QED BY <1>1, <2>1, <2>2, <2>3, EditInv, Zenon
<1> QED BY <1>3, <1>4

LEMMA AwayCall ==
  /\ NoSlot \in Slots /\ Away \in Calls /\ DOMAIN Away.view = {}
  /\ [Away EXCEPT !.pc = "again"] \in Calls /\ DOMAIN [Away EXCEPT !.pc = "again"].view = {}
  /\ [Away EXCEPT !.pc = "again"].pc = "again" /\ Away.pc = "away"
<1>1. NoSlot \in Slots
  BY DirectoryAssumption DEF NoSlot, Slots, NoSpec
<1>2. <<>> \in [{} -> Slots] /\ {} \in SUBSET AgentIds /\ DOMAIN <<>> = {}
  OBVIOUS
<1>3. Away \in Calls
  BY <1>2 DEF Away, Calls
<1>4. [Away EXCEPT !.pc = "again"] \in Calls
  BY <1>2 DEF Away, Calls
<1> QED BY <1>1, <1>2, <1>3, <1>4 DEF Away

\* A step of a call of acquire that neither takes nor gives back a lease.
LEMMA CallInv ==
  ASSUME DirInv, NEW b \in Borrowers, NEW c \in Calls,
         borrower[b].pc # "lease", c.pc # "lease",
         borrower' = [borrower EXCEPT ![b] = c], slot' = slot, edits' = edits,
         \A x \in DOMAIN c.view :
            \/ c.view[x] = slot[x] /\ slot[x].registered
            \/ x \in DOMAIN borrower[b].view /\ c.view[x] = borrower[b].view[x],
         c.pc = "take" => c.agent \in DOMAIN c.view /\ c.view[c.agent].spec.able
  PROVE  DirInv'
<1> USE DirectoryAssumption DEF DirInv
<1>0. /\ borrower \in [Borrowers -> Calls] /\ slot \in [AgentIds -> Slots] /\ edits \in Nat
      /\ borrower'[b] = c /\ \A x \in Borrowers : x # b => borrower'[x] = borrower[x]
      /\ borrower' \in [Borrowers -> Calls]
  BY DEF DirShape
<1>1. DirShape'
  BY <1>0 DEF DirShape, Gone
<1>2. ViewsAgree'
  <2> SUFFICES ASSUME NEW d \in Borrowers, NEW x \in DOMAIN borrower'[d].view
               PROVE  LET seen == borrower'[d].view[x] IN
                      /\ seen.object \in 1..edits /\ seen.registered
                      /\ slot[x].object = seen.object =>
                           /\ seen.generation <= slot[x].generation
                           /\ seen.generation = slot[x].generation =>
                                slot[x].spec = seen.spec /\ slot[x].registered
    BY DEF ViewsAgree
  <2>1. CASE d # b
    BY <1>0, <2>1 DEF ViewsAgree
  <2>2. CASE d = b
    <3>1. x \in AgentIds
      BY <1>0, <2>2, ViewSlots
    <3>2. slot[x].object \in Nat /\ slot[x].generation \in Nat
      BY <1>0, <3>1, SlotFields
    <3>3. slot[x].registered => slot[x].object \in 1..edits
      BY <3>1, <3>2 DEF DirShape, Gone, NoSlot
    <3>4. CASE c.view[x] = slot[x] /\ slot[x].registered
      BY <1>0, <2>2, <3>2, <3>3, <3>4
    <3>5. CASE x \in DOMAIN borrower[b].view /\ c.view[x] = borrower[b].view[x]
      BY <1>0, <2>2, <3>5 DEF ViewsAgree
    <3> QED BY <1>0, <2>2, <3>4, <3>5
  <2> QED BY <2>1, <2>2
<1>3. \A x : Leases(x)' = Leases(x)
  BY <1>0 DEF Leases
<1>4. CountedLeases'
  <2> SUFFICES ASSUME NEW x \in AgentIds
               PROVE  /\ slot[x].active = Cardinality(Leases(x))
                      /\ \A d \in Leases(x) : borrower'[d].object = slot[x].object
    BY <1>3 DEF CountedLeases
  <2>1. b \notin Leases(x) /\ Leases(x) \subseteq Borrowers
    BY DEF Leases
  <2> QED BY <1>0, <2>1 DEF CountedLeases
<1>5. ChosenAble' /\ LeaseShape' /\ AbleLease'
  BY <1>0 DEF ChosenAble, LeaseShape, AbleLease
<1> QED BY <1>1, <1>2, <1>4, <1>5

LEMMA TakeViewInv ==
  ASSUME DirInv, NEW b \in Borrowers, TakeView(b)
  PROVE  DirInv'
<1> DEFINE here == {a \in AgentIds : slot[a].registered}
           view == [a \in here |-> slot[a]]
           v == [Away EXCEPT !.pc = "select"]
           c == [v EXCEPT !.view = view]
<1>1. borrower' = [borrower EXCEPT ![b] = IF here = {} THEN Away ELSE c]
  BY Zenon DEF TakeView, Goes
<1>2. borrower[b].pc # "lease" /\ slot' = slot /\ edits' = edits
  BY DEF TakeView
<1>3. CASE here = {}
  <2>1. borrower' = [borrower EXCEPT ![b] = Away]
    BY <1>1, <1>3
  <2> QED BY <1>2, <2>1, AwayCall, CallInv
<1>4. CASE here # {}
  <2>1. here \in SUBSET AgentIds /\ view \in [here -> Slots]
    BY DEF DirInv, DirShape
  <2>2. v \in Calls /\ v.pc = "select"
    BY AwayCall DEF Calls
  <2> HIDE DEF v
  <2>3. borrower' = [borrower EXCEPT ![b] = c]
    BY <1>1, <1>4
  <2>4. \A x \in DOMAIN view : view[x] = slot[x] /\ slot[x].registered
    OBVIOUS
  <2> HIDE DEF view, here
  <2>5. c.view = view /\ c.pc = "select" /\ c \in Calls
    BY <2>1, <2>2 DEF Calls
  <2> HIDE DEF c
  <2> QED BY <1>2, <2>3, <2>4, <2>5, CallInv
<1> QED BY <1>3, <1>4

LEMMA SelectAgentInv ==
  ASSUME DirInv, NEW b \in Borrowers, SelectAgent(b)
  PROVE  DirInv'
<1> DEFINE view == borrower[b].view
           v == [borrower[b] EXCEPT !.pc = "take"]
           c == [v EXCEPT !.agent = LeastBusy(view)]
<1>1. borrower' = [borrower EXCEPT ![b] = IF Free(view) = {} THEN Away ELSE c]
  BY Zenon DEF SelectAgent, Goes
<1>2. borrower[b].pc # "lease" /\ slot' = slot /\ edits' = edits
  BY DEF SelectAgent
<1>3. CASE Free(view) = {}
  <2>1. borrower' = [borrower EXCEPT ![b] = Away]
    BY <1>1, <1>3
  <2> QED BY <1>2, <2>1, AwayCall, CallInv
<1>4. CASE Free(view) # {}
  <2>0. borrower[b] \in Calls
    BY DEF DirInv, DirShape
  <2>1. PICK S \in SUBSET AgentIds : view \in [S -> Slots]
    BY <2>0, CallFields
  <2>2. v \in Calls /\ v.pc = "take" /\ v.view = view
    BY <2>0 DEF Calls
  <2>3. borrower' = [borrower EXCEPT ![b] = c]
    BY <1>1, <1>4
  <2> HIDE DEF v
  <2>4. LeastBusy(view) \in Free(view)
    BY <1>4, <2>1, LeastBusyFree
  <2>5. LeastBusy(view) \in DOMAIN view /\ view[LeastBusy(view)].spec.able /\ LeastBusy(view) \in AgentIds
    BY <2>1, <2>4 DEF Free
  <2>6. c.view = view /\ c.pc = "take" /\ c.agent = LeastBusy(view) /\ c \in Calls
    BY <2>2, <2>5 DEF Calls
  <2> HIDE DEF c
  <2> QED BY <1>2, <2>3, <2>5, <2>6, CallInv
<1> QED BY <1>3, <1>4

LEMMA CountedSlot ==
  ASSUME NEW s \in Slots, NEW n \in Nat
  PROVE  LET r == [s EXCEPT !.active = n] IN
         /\ r \in Slots /\ r.active = n /\ r.object = s.object
         /\ r.spec = s.spec /\ r.generation = s.generation /\ r.registered = s.registered
BY DEF Slots

\* The leases on an agent change by one call of acquire: the count of its slot
\* with it, and nothing else of the slot unless its last lease took it along.
LEMMA LeaseInv ==
  ASSUME DirInv, NEW b \in Borrowers, NEW c \in Calls, NEW a \in AgentIds, NEW s \in Slots,
         borrower' = [borrower EXCEPT ![b] = c], slot' = [slot EXCEPT ![a] = s], edits' = edits,
         DOMAIN c.view = {}, c.pc # "take",
         c.pc = "lease" => c.agent = a /\ c.object = slot[a].object /\ c.object # 0 /\ c.spec.able,
         \A x \in AgentIds : x # a => Leases(x)' = Leases(x) /\ b \notin Leases(x),
         s.active = Cardinality(Leases(a)'),
         \/ s = NoSlot /\ Leases(a)' = {}
         \/ /\ s.object = slot[a].object /\ s.spec = slot[a].spec /\ s.generation = slot[a].generation
            /\ s.registered = slot[a].registered /\ slot[a].object # 0
            /\ ~s.registered => s.active > 0
  PROVE  DirInv'
<1> USE DirectoryAssumption DEF DirInv
<1>0. /\ borrower \in [Borrowers -> Calls] /\ slot \in [AgentIds -> Slots] /\ edits \in Nat
      /\ borrower'[b] = c /\ \A x \in Borrowers : x # b => borrower'[x] = borrower[x]
      /\ slot'[a] = s /\ \A x \in AgentIds : x # a => slot'[x] = slot[x]
      /\ borrower' \in [Borrowers -> Calls] /\ slot' \in [AgentIds -> Slots]
  BY DEF DirShape
<1>n. NoSlot.object = 0 /\ NoSlot.generation = 0 /\ NoSlot.active = 0
  BY DEF NoSlot
<1>1. DirShape'
  <2>1. ASSUME NEW x \in AgentIds
        PROVE  /\ slot'[x].object <= edits /\ slot'[x].generation <= edits
               /\ slot'[x].object = 0 => slot'[x] = NoSlot
               /\ slot'[x].object # 0 => slot'[x].spec \in Specs
               /\ slot'[x].object # 0 /\ ~slot'[x].registered => slot'[x].active > 0
    <3>1. CASE x # a
      BY <1>0, <3>1 DEF DirShape, Gone
    <3>2. CASE x = a /\ s = NoSlot
      BY <1>0, <1>n, <3>2
    <3>3. CASE x = a /\ s # NoSlot
      BY <1>0, <3>3 DEF DirShape, Gone
    <3> QED BY <3>1, <3>2, <3>3
  <2> QED BY <1>0, <2>1 DEF DirShape, Gone
<1>2. ViewsAgree'
  <2> SUFFICES ASSUME NEW d \in Borrowers, NEW x \in DOMAIN borrower'[d].view
               PROVE  LET seen == borrower'[d].view[x] IN
                      /\ seen.object \in 1..edits /\ seen.registered
                      /\ slot'[x].object = seen.object =>
                           /\ seen.generation <= slot'[x].generation
                           /\ seen.generation = slot'[x].generation =>
                                slot'[x].spec = seen.spec /\ slot'[x].registered
    BY DEF ViewsAgree
  <2>1. d # b /\ borrower'[d] = borrower[d]
    BY <1>0
  <2>2. x \in AgentIds
    BY <1>0, <2>1, ViewSlots
  <2>3. LET seen == borrower[d].view[x] IN
        /\ seen.object \in 1..edits /\ seen.registered
        /\ slot[x].object = seen.object =>
             /\ seen.generation <= slot[x].generation
             /\ seen.generation = slot[x].generation =>
                  slot[x].spec = seen.spec /\ slot[x].registered
    BY <2>1 DEF ViewsAgree
  <2>4. CASE x # a
    BY <1>0, <2>1, <2>2, <2>3, <2>4
  <2>5. CASE x = a /\ s = NoSlot
    BY <1>0, <1>n, <2>1, <2>3, <2>5
  <2>6. CASE x = a /\ s # NoSlot
    BY <1>0, <2>1, <2>3, <2>6
  <2> QED BY <2>4, <2>5, <2>6
<1>3. CountedLeases'
  <2> SUFFICES ASSUME NEW x \in AgentIds
               PROVE  /\ slot'[x].active = Cardinality(Leases(x)')
                      /\ \A d \in Leases(x)' : borrower'[d].object = slot'[x].object
    BY DEF CountedLeases
  <2>1. CASE x # a
    <3>1. Leases(x)' = Leases(x) /\ b \notin Leases(x) /\ Leases(x) \subseteq Borrowers
      BY <2>1 DEF Leases
    <3> QED BY <1>0, <2>1, <3>1 DEF CountedLeases
  <2>2. CASE x = a
    <3>1. ASSUME NEW d \in Leases(a)', d # b
          PROVE  d \in Leases(a) /\ borrower'[d] = borrower[d]
      BY <1>0, <3>1 DEF Leases
    <3>2. ASSUME NEW d \in Leases(a)'
          PROVE  borrower'[d].object = slot'[a].object
      <4>1. s # NoSlot
        BY <3>2, <1>0, <1>n, FS_EmptySet
      <4>2. s.object = slot[a].object
        BY <4>1
      <4>3. CASE d = b
        <5>1. c.pc = "lease"
          BY <4>3, <3>2, <1>0 DEF Leases
        <5> QED BY <5>1, <4>2, <4>3, <1>0
      <4>4. CASE d # b
        BY <4>4, <3>1, <4>2, <1>0 DEF CountedLeases
      <4> QED BY <4>3, <4>4
    <3> QED BY <1>0, <2>2, <3>2
  <2> QED BY <2>1, <2>2
<1>4. ChosenAble' /\ LeaseShape' /\ AbleLease'
  BY <1>0 DEF ChosenAble, LeaseShape, AbleLease
<1> QED BY <1>1, <1>2, <1>3, <1>4

\* The slot a lease is about to be taken from.
LEMMA TakenFrom ==
  ASSUME DirInv, NEW b \in Borrowers, borrower[b].pc = "take",
         StillValid(slot[borrower[b].agent], borrower[b].view[borrower[b].agent])
  PROVE  LET a == borrower[b].agent IN
         /\ a \in AgentIds /\ slot[a] \in Slots /\ slot[a].object # 0
         /\ slot[a].registered /\ slot[a].spec.able /\ slot[a].active < slot[a].spec.limit
<1> DEFINE a == borrower[b].agent
<1>1. a \in DOMAIN borrower[b].view /\ borrower[b].view[a].spec.able
  BY DEF DirInv, ChosenAble
<1>2. borrower[b] \in Calls
  BY DEF DirInv, DirShape
<1>3. a \in AgentIds
  BY <1>1, <1>2, ViewSlots
<1>4. /\ slot[a].object = borrower[b].view[a].object
      /\ slot[a].generation = borrower[b].view[a].generation
      /\ slot[a].active < slot[a].spec.limit
  BY DEF StillValid
<1>5. slot[a].object \in 1..edits /\ slot[a].spec = borrower[b].view[a].spec /\ slot[a].registered
  BY <1>1, <1>4 DEF DirInv, ViewsAgree
<1>6. slot[a] \in Slots
  BY <1>3 DEF DirInv, DirShape
<1>7. slot[a].object # 0
  BY <1>5, DirectoryAssumption DEF DirInv, DirShape
<1> QED BY <1>1, <1>3, <1>4, <1>5, <1>6, <1>7

LEMMA TakeLeaseInv ==
  ASSUME DirInv, NEW b \in Borrowers, TakeLease(b)
  PROVE  DirInv'
<1>a. PICK a : a = borrower[b].agent
  OBVIOUS
<1> DEFINE c == [pc |-> "lease", view |-> <<>>, agent |-> a, object |-> slot[a].object, spec |-> slot[a].spec]
           s == [slot[a] EXCEPT !.active = slot[a].active + 1]
<1>0. borrower[b].pc = "take" /\ edits' = edits
  BY DEF TakeLease
<1>1. CASE StillValid(slot[a], borrower[b].view[a])
  <2>1. /\ a \in AgentIds /\ slot[a] \in Slots /\ slot[a].object # 0
        /\ slot[a].spec.able /\ slot[a].active \in Nat
    BY <1>a, <1>0, <1>1, TakenFrom, SlotFields
  <2>2. borrower' = [borrower EXCEPT ![b] = c] /\ slot' = [slot EXCEPT ![a] = s]
    BY <1>a, <1>1 DEF TakeLease, Goes
  <2>3. c \in Calls /\ DOMAIN c.view = {} /\ c.pc = "lease" /\ c.agent = a
        /\ c.object = slot[a].object /\ c.object # 0 /\ c.spec.able
    <3>1. <<>> \in [{} -> Slots] /\ {} \in SUBSET AgentIds /\ DOMAIN <<>> = {}
      OBVIOUS
    <3>2. slot[a].object \in Nat /\ slot[a].spec \in Specs \cup {NoSpec}
      BY <2>1, SlotFields
    <3>3. c \in Calls
      BY <2>1, <3>1, <3>2 DEF Calls
    <3> QED BY <2>1, <3>1, <3>3
  <2> HIDE DEF c
  <2>4. /\ s \in Slots /\ s.active = slot[a].active + 1 /\ s.object = slot[a].object
        /\ s.spec = slot[a].spec /\ s.generation = slot[a].generation /\ s.registered = slot[a].registered
    BY <2>1, CountedSlot
  <2> HIDE DEF s
  <2>5. /\ borrower'[b] = c /\ \A x \in Borrowers : x # b => borrower'[x] = borrower[x]
    BY <2>2 DEF DirInv, DirShape
  <2>6. \A x \in AgentIds : x # a => Leases(x)' = Leases(x) /\ b \notin Leases(x)
    BY <1>a, <1>0, <2>3, <2>5 DEF Leases
  <2>7. Leases(a)' = Leases(a) \cup {b} /\ b \notin Leases(a)
    BY <1>a, <1>0, <2>3, <2>5 DEF Leases
  <2>8. Cardinality(Leases(a)') = slot[a].active + 1
    <3>1. IsFiniteSet(Leases(a)) /\ slot[a].active = Cardinality(Leases(a))
      BY <2>1, LeasesFinite DEF DirInv, CountedLeases
    <3> QED BY <2>7, <3>1, FS_AddElement
  <2>9. s.active = Cardinality(Leases(a)') /\ s.active > 0
    BY <2>1, <2>4, <2>8
  <2> QED BY <1>0, <2>1, <2>2, <2>3, <2>4, <2>6, <2>9, LeaseInv, Zenon
<1>2. CASE ~StillValid(slot[a], borrower[b].view[a])
  <2>1. borrower' = [borrower EXCEPT ![b] = [Away EXCEPT !.pc = "again"]] /\ slot' = slot
    BY <1>a, <1>2, Zenon DEF TakeLease, Goes
  <2> QED BY <1>0, <2>1, AwayCall, CallInv
<1> QED BY <1>1, <1>2

\* The slot of a lease is still the one it was taken from.
LEMMA ReleaseLeaseInv ==
  ASSUME DirInv, NEW b \in Borrowers, ReleaseLease(b)
  PROVE  DirInv'
<1>a. PICK a : a = borrower[b].agent
  OBVIOUS
<1> DEFINE s == DropLease(slot[a])
<1>0. borrower[b].pc = "lease" /\ edits' = edits /\ borrower' = [borrower EXCEPT ![b] = Away]
  BY DEF ReleaseLease, Goes
<1>1. a \in AgentIds /\ borrower[b].object # 0
  BY <1>a, <1>0 DEF DirInv, LeaseShape
<1>2. b \in Leases(a)
  BY <1>a, <1>0 DEF Leases
<1>3. slot[a].object = borrower[b].object /\ slot[a].active = Cardinality(Leases(a))
  BY <1>1, <1>2 DEF DirInv, CountedLeases
<1>4. slot' = [slot EXCEPT ![a] = s]
  BY <1>a, <1>1, <1>3 DEF ReleaseLease
<1>5. slot[a] \in Slots /\ slot[a].active \in Nat
  BY <1>1, SlotFields DEF DirInv, DirShape
<1>6. /\ borrower'[b] = Away /\ \A x \in Borrowers : x # b => borrower'[x] = borrower[x]
  BY <1>0 DEF DirInv, DirShape
<1>7. \A x \in AgentIds : x # a => Leases(x)' = Leases(x) /\ b \notin Leases(x)
  BY <1>0, <1>6, <1>a, AwayCall DEF Leases
<1>8. Leases(a)' = Leases(a) \ {b}
  BY <1>0, <1>6, <1>a, AwayCall DEF Leases
<1>9. Cardinality(Leases(a)') = slot[a].active - 1 /\ IsFiniteSet(Leases(a)')
  BY <1>2, <1>3, <1>5, <1>8, LeasesFinite, FS_RemoveElement
<1>10. slot[a].active > 0
  BY <1>2, <1>3, <1>5, LeasesFinite, FS_EmptySet
<1>11. CASE ~slot[a].registered /\ slot[a].active = 1
  <2>1. s = NoSlot
    BY <1>11 DEF DropLease
  <2>2. Leases(a)' = {}
    BY <1>9, <1>11, FS_EmptySet
  <2>3. NoSlot.active = 0
    BY DEF NoSlot
  <2>4. s \in Slots /\ s.active = Cardinality(Leases(a)')
    BY <1>9, <1>11, <2>1, <2>3, AwayCall
  <2>5. Away.pc # "take" /\ Away.pc # "lease"
    BY AwayCall
  <2> HIDE DEF s
  <2> QED BY <1>0, <1>1, <1>4, <1>7, <2>1, <2>2, <2>4, <2>5, AwayCall, LeaseInv, Zenon
<1>12. CASE ~(~slot[a].registered /\ slot[a].active = 1)
  <2>1. s = [slot[a] EXCEPT !.active = slot[a].active - 1]
    BY <1>12 DEF DropLease
  <2>2. slot[a].active - 1 \in Nat
    BY <1>5, <1>10
  <2>3. /\ s \in Slots /\ s.active = slot[a].active - 1 /\ s.object = slot[a].object
        /\ s.spec = slot[a].spec /\ s.generation = slot[a].generation /\ s.registered = slot[a].registered
    BY <1>5, <2>1, <2>2, CountedSlot
  <2>4. s.active = Cardinality(Leases(a)')
    BY <1>9, <2>3
  <2>5. Away.pc # "take" /\ Away.pc # "lease"
    BY AwayCall
  <2>6. ~s.registered => s.active > 0
    BY <1>5, <1>10, <1>12, <2>3
  <2>7. slot[a].object # 0
    BY <1>1, <1>3
  <2> HIDE DEF s
  <2> QED BY <1>0, <1>1, <1>4, <1>7, <2>3, <2>4, <2>5, <2>6, <2>7, AwayCall, LeaseInv, Zenon
<1> QED BY <1>11, <1>12

LEMMA DirInvStep == DirInv /\ [DirNext]_dirVars => DirInv'
<1> SUFFICES ASSUME DirInv, [DirNext]_dirVars PROVE DirInv'
  OBVIOUS
<1>1. CASE UNCHANGED dirVars
  BY <1>1, ZenonT(30) DEF dirVars, DirInv, DirShape, ViewsAgree, ChosenAble, LeaseShape, CountedLeases,
              AbleLease, Gone, Leases
<1>2. CASE DirNext
  BY <1>2, RegisterInv, ReplaceInv, UnregisterInv, TakeViewInv, SelectAgentInv, TakeLeaseInv,
     ReleaseLeaseInv DEF DirNext
<1> QED BY <1>1, <1>2

LEMMA DirInvType == DirInv => DirTypeOK
<1> SUFFICES ASSUME DirInv PROVE DirTypeOK
  OBVIOUS
<1>1. slot \in [AgentIds -> Slots] /\ edits \in 0..MaxEdits
  BY DEF DirInv, DirShape
<1>2. ASSUME NEW a \in AgentIds
      PROVE  slot[a] \in [object : 0..MaxEdits, spec : Specs \cup {NoSpec},
                          active : 0..Cardinality(Borrowers),
                          generation : 0..MaxEdits, registered : BOOLEAN]
  <2>1. slot[a] \in Slots /\ slot[a].object \in Nat /\ slot[a].generation \in Nat
    BY <1>1, SlotFields
  <2>2. slot[a].object \in 0..MaxEdits /\ slot[a].generation \in 0..MaxEdits
    BY <1>1, <2>1, DirectoryAssumption DEF DirInv, DirShape
  <2>3. slot[a].active \in 0..Cardinality(Borrowers)
    BY LeasesFinite DEF DirInv, CountedLeases
  <2> QED BY <2>1, <2>2, <2>3 DEF Slots
<1>3. slot \in [AgentIds -> [object : 0..MaxEdits, spec : Specs \cup {NoSpec},
                             active : 0..Cardinality(Borrowers),
                             generation : 0..MaxEdits, registered : BOOLEAN]]
  BY <1>1, <1>2
<1>4. \A b \in Borrowers : borrower[b].pc \in {"away", "again", "select", "take", "lease"}
  BY DEF DirInv, DirShape, Calls
<1> QED BY <1>3, <1>4 DEF DirTypeOK, DirInv, DirShape

\* A lease is added by TakeLease alone, on an agent that is registered, and within its limit.
LEMMA LeaseAdded ==
  ASSUME DirInv, [DirNext]_dirVars, NEW a \in AgentIds, ~(Leases(a)' \subseteq Leases(a))
  PROVE  slot[a].registered /\ Cardinality(Leases(a)') <= slot'[a].spec.limit
<1>1. PICK b \in Borrowers : borrower'[b].pc = "lease" /\ borrower'[b].agent = a /\ b \notin Leases(a)
  BY DEF Leases
<1>2. borrower' # borrower
  BY <1>1 DEF Leases
<1>3. PICK d \in Borrowers : TakeView(d) \/ SelectAgent(d) \/ TakeLease(d) \/ ReleaseLease(d)
  BY <1>2 DEF DirNext, dirVars, RegisterEndpoint, ReplaceEndpoint, UnregisterEndpoint, Edit
<1>4. borrower \in [Borrowers -> Calls] /\ slot \in [AgentIds -> Slots]
  BY DEF DirInv, DirShape
<1>5. d = b
  <2> SUFFICES ASSUME d # b PROVE FALSE
    OBVIOUS
  <2>1. borrower'[b] = borrower[b]
    BY <1>3, <1>4 DEF TakeView, SelectAgent, TakeLease, ReleaseLease, Goes
  <2> QED BY <1>1, <2>1 DEF Leases
<1>6. TakeLease(b) /\ StillValid(slot[borrower[b].agent], borrower[b].view[borrower[b].agent])
  <2>1. ~TakeView(b)
    <3> SUFFICES ASSUME TakeView(b) PROVE FALSE
      OBVIOUS
    <3>1. PICK v : borrower'[b] = Away \/ borrower'[b] = [[Away EXCEPT !.pc = "select"] EXCEPT !.view = v]
      BY <1>4 DEF TakeView, Goes
    <3>2. Away.pc = "away" /\ [[Away EXCEPT !.pc = "select"] EXCEPT !.view = v].pc = "select"
      <4> DEFINE c == [Away EXCEPT !.pc = "select"]
      <4>1. c \in Calls /\ c.pc = "select"
        BY AwayCall DEF Calls
      <4> HIDE DEF c
      <4>2. [c EXCEPT !.view = v].pc = "select"
        BY <4>1 DEF Calls
      <4> QED BY <4>2, AwayCall DEF c
    <3>3. borrower'[b].pc # "lease"
      BY <3>1, <3>2
    <3> QED BY <1>1, <3>3
  <2>2. ~SelectAgent(b)
    <3> SUFFICES ASSUME SelectAgent(b) PROVE FALSE
      OBVIOUS
    <3>1. PICK x : borrower'[b] = Away \/ borrower'[b] = [[borrower[b] EXCEPT !.pc = "take"] EXCEPT !.agent = x]
      BY <1>4 DEF SelectAgent, Goes
    <3>2. Away.pc = "away" /\ [[borrower[b] EXCEPT !.pc = "take"] EXCEPT !.agent = x].pc = "take"
      <4> DEFINE c == [borrower[b] EXCEPT !.pc = "take"]
      <4>1. c \in Calls /\ c.pc = "take"
        BY <1>4 DEF Calls
      <4> HIDE DEF c
      <4>2. [c EXCEPT !.agent = x].pc = "take"
        BY <4>1 DEF Calls
      <4> QED BY <4>2, AwayCall DEF c
    <3>3. borrower'[b].pc # "lease"
      BY <3>1, <3>2
    <3> QED BY <1>1, <3>3
  <2>3. ~ReleaseLease(b)
    <3>1. ReleaseLease(b) => borrower'[b].pc = "away"
      BY <1>4, AwayCall DEF ReleaseLease, Goes
    <3> QED BY <1>1, <3>1
  <2>4. TakeLease(b)
    BY <1>3, <1>5, <2>1, <2>2, <2>3
  <2>5. ASSUME ~StillValid(slot[borrower[b].agent], borrower[b].view[borrower[b].agent])
        PROVE  FALSE
    <3>1. borrower'[b] = [Away EXCEPT !.pc = "again"]
      BY <1>4, <2>4, <2>5 DEF TakeLease, Goes
    <3> QED BY <1>1, <3>1, AwayCall
  <2> QED BY <2>4, <2>5
<1>7. borrower[b].agent = a /\ borrower[b].pc = "take"
  BY <1>1, <1>4, <1>6 DEF TakeLease, Goes
<1>8. /\ slot[a] \in Slots /\ slot[a].registered /\ slot[a].active < slot[a].spec.limit
  BY <1>6, <1>7, TakenFrom
<1>9. /\ slot'[a] = [slot[a] EXCEPT !.active = slot[a].active + 1]
      /\ \A x \in Borrowers : x # b => borrower'[x] = borrower[x]
  BY <1>4, <1>6, <1>7 DEF TakeLease, Goes
<1>10. Leases(a)' = Leases(a) \cup {b}
  BY <1>1, <1>9 DEF Leases
<1>11. slot[a].active \in Nat /\ slot[a].active = Cardinality(Leases(a)) /\ IsFiniteSet(Leases(a))
  BY <1>8, SlotFields, LeasesFinite DEF DirInv, CountedLeases
<1>12. Cardinality(Leases(a)') = slot[a].active + 1
  <2>1. Cardinality(Leases(a) \cup {b}) = Cardinality(Leases(a)) + 1
    BY <1>1, <1>11, FS_AddElement
  <2> QED BY <1>10, <1>11, <2>1
<1>13. slot'[a].spec = slot[a].spec
  BY <1>8, <1>9, <1>11, CountedSlot
<1>14. slot[a].spec.limit \in Nat
  BY <1>8, SlotFields, DirectoryAssumption DEF Specs, NoSpec
<1> QED BY <1>8, <1>11, <1>12, <1>13, <1>14

\* AgentDirectory keeps its books however registrations, replacements and
\* removals fall between the steps of the calls of acquire.
THEOREM DirectoryKept == DirSpec => DirectorySound
<1>1. DirInit => DirInv
  BY InitDirInv
<1>2. DirInv /\ [DirNext]_dirVars => DirInv'
  BY DirInvStep
<1>3. DirInv => DirTypeOK /\ CountedLeases /\ AbleLease
  BY DirInvType DEF DirInv
<1>4. DirInv /\ [DirNext]_dirVars =>
        [\A a \in AgentIds : Cardinality(Leases(a)') > Cardinality(Leases(a))
             => Cardinality(Leases(a)') <= slot'[a].spec.limit]_dirVars
  <2> SUFFICES ASSUME DirInv, [DirNext]_dirVars, NEW a \in AgentIds,
                      Cardinality(Leases(a)') > Cardinality(Leases(a))
               PROVE  Cardinality(Leases(a)') <= slot'[a].spec.limit
    OBVIOUS
  <2>1. CASE Leases(a)' \subseteq Leases(a)
    <3>1. Cardinality(Leases(a)') <= Cardinality(Leases(a))
      BY <2>1, LeasesFinite, FS_Subset
    <3>2. Cardinality(Leases(a)) \in Nat /\ Cardinality(Leases(a)') \in Nat
      BY <2>1, LeasesFinite, FS_Subset, FS_CardinalityType
    <3> QED BY <3>1, <3>2
  <2>2. CASE ~(Leases(a)' \subseteq Leases(a))
    BY <2>2, LeaseAdded
  <2> QED BY <2>1, <2>2
<1>5. DirInv /\ [DirNext]_dirVars =>
        [\A a \in AgentIds : ~slot[a].registered => Leases(a)' \subseteq Leases(a)]_dirVars
  BY LeaseAdded
<1> QED BY <1>1, <1>2, <1>3, <1>4, <1>5, PTL DEF DirSpec, DirectorySound, WithinLimit, RemovedNotLeased

-----------------------------------------------------------------------------
(* The event stream                                                          *)

\* The stream holds what was appended last, without a gap.
NoGap ==
  /\ trimmed \in Nat /\ stream \in Seq(Nat)
  /\ \A i \in 1..Len(stream) : stream[i] = trimmed + i

\* The reader has entries that were appended, in order, up to its cursor.
PageGrows ==
  /\ page \in Seq(Nat)
  /\ \A i \in 1..Len(page) : page[i] \in 1..StreamEnd
  /\ \A i, j \in 1..Len(page) : i < j => page[i] < page[j]

\* It has all of them but those that are gone from the stream.
NoneSkipped ==
  \A x \in 1..Cursor : x <= trimmed \/ \E i \in 1..Len(page) : page[i] = x

StreamInv ==
  /\ NoGap /\ PageGrows /\ NoneSkipped
  /\ damaged \subseteq 1..StreamEnd
  /\ \A i \in 1..Len(page) : page[i] \notin damaged

LEMMA InitStreamInv == StreamInit => StreamInv
BY DEF StreamInit, StreamInv, NoGap, PageGrows, NoneSkipped, Cursor, StreamEnd

\* The cursor is the greatest entry of the pages.
LEMMA CursorIsLast ==
  ASSUME StreamInv
  PROVE  /\ Cursor \in Nat /\ Cursor <= StreamEnd /\ StreamEnd \in Nat
         /\ \A i \in 1..Len(page) : page[i] <= Cursor
<1> USE DEF StreamInv, PageGrows, NoGap
<1>1. trimmed \in Nat /\ Len(stream) \in Nat /\ Len(page) \in Nat /\ StreamEnd = trimmed + Len(stream)
  BY DEF StreamEnd
<1>2. CASE page = <<>>
  BY <1>1, <1>2 DEF Cursor
<1>3. CASE page # <<>>
  <2>1. Len(page) \in 1..Len(page) /\ Cursor = page[Len(page)]
    BY <1>1, <1>3 DEF Cursor
  <2>2. ASSUME NEW i \in 1..Len(page) PROVE page[i] <= Cursor
    <3>1. CASE i = Len(page)
      BY <2>1, <3>1
    <3>2. CASE i # Len(page)
      <4>1. i < Len(page)
        BY <1>1, <3>2
      <4>2. page[i] < Cursor /\ page[i] \in Nat /\ Cursor \in Nat
        BY <1>1, <2>1, <4>1
      <4> QED BY <4>2
    <3> QED BY <3>1, <3>2, <1>1, <2>1
  <2> QED BY <1>1, <2>1, <2>2
<1> QED BY <1>2, <1>3

\* publish: the appended entry is new to the reader, and what the cap takes is
\* the oldest.
LEMMA AddToStreamInv ==
  ASSUME StreamInv, NEW drop \in 0..MaxEntries, NEW bad \in BOOLEAN, AddToStream(drop, bad)
  PROVE  StreamInv'
<1> DEFINE n == Len(stream)
           new == trimmed + n + 1
           stays == SubSeq(stream, drop + 1, n)
<1>1. /\ trimmed \in Nat /\ stream \in Seq(Nat) /\ n \in Nat /\ drop \in 0..n
      /\ \A i \in 1..n : stream[i] = trimmed + i
      /\ StreamEnd = trimmed + n /\ drop \in Nat
  BY DEF StreamInv, NoGap, AddToStream, StreamEnd
<1>2. /\ stream' = Append(stays, new) /\ trimmed' = trimmed + drop
      /\ page' = page /\ damaged' \subseteq damaged \cup {new}
  BY <1>1 DEF AddToStream
<1>3. /\ stays \in Seq(Nat) /\ Len(stays) = n - drop
      /\ \A i \in 1..(n - drop) : stays[i] = stream[drop + i]
  BY <1>1
<1>d. n = Len(stream) /\ new = trimmed + n + 1 /\ new \in Nat
  BY <1>1
<1> HIDE DEF n, new, stays
<1>4. /\ stream' \in Seq(Nat) /\ Len(stream') = n - drop + 1
      /\ stream'[n - drop + 1] = new /\ \A i \in 1..(n - drop) : stream'[i] = stays[i]
  BY <1>1, <1>2, <1>3, <1>d
<1>5. ASSUME NEW i \in 1..Len(stream') PROVE stream'[i] = trimmed' + i
  <2>1. CASE i <= n - drop
    <3>0. i \in 1..(n - drop) /\ drop + i \in 1..n /\ i \in Nat
      BY <1>1, <1>4, <2>1
    <3>1. stream'[i] = stream[drop + i]
      BY <1>3, <1>4, <3>0
    <3>2. stream'[i] = trimmed + (drop + i)
      BY <1>1, <3>0, <3>1
    <3> QED BY <1>1, <1>2, <3>0, <3>2
  <2>2. CASE ~(i <= n - drop)
    <3>1. i = n - drop + 1
      BY <1>1, <1>4, <2>2
    <3>2. stream'[i] = trimmed + n + 1
      BY <1>4, <1>d, <3>1
    <3> QED BY <1>1, <1>2, <3>1, <3>2
  <2> QED BY <2>1, <2>2
<1>6. StreamEnd' = StreamEnd + 1 /\ new = StreamEnd + 1
  <2>1. StreamEnd' = trimmed' + Len(stream')
    BY DEF StreamEnd
  <2>2. StreamEnd' = (trimmed + drop) + (n - drop + 1)
    BY <1>2, <1>4, <2>1
  <2> QED BY <1>1, <1>d, <2>2
<1>7. NoGap'
  <2>1. trimmed' \in Nat
    BY <1>1, <1>2
  <2> QED BY <1>4, <1>5, <2>1 DEF NoGap
<1>8. StreamEnd \in Nat /\ \A x \in 1..StreamEnd : x \in 1..StreamEnd'
  BY <1>1, <1>6
<1>9. PageGrows'
  BY <1>2, <1>8 DEF StreamInv, PageGrows
<1>10. NoneSkipped'
  <2>1. Cursor' = Cursor /\ Cursor \in Nat
    BY <1>2, CursorIsLast DEF Cursor
  <2>2. \A x \in Nat : x <= trimmed => x <= trimmed'
    BY <1>1, <1>2
  <2> QED BY <1>2, <2>1, <2>2 DEF StreamInv, NoneSkipped
<1>11. new \in 1..StreamEnd' /\ new \notin 1..StreamEnd
  BY <1>1, <1>6
<1>12. damaged' \subseteq 1..StreamEnd'
  BY <1>2, <1>8, <1>11 DEF StreamInv
<1>13. \A i \in 1..Len(page') : page'[i] \notin damaged'
  <2> QED BY <1>2, <1>11 DEF StreamInv, PageGrows
<1> QED BY <1>7, <1>9, <1>10, <1>12, <1>13 DEF StreamInv

\* xrange from the cursor: the first entry behind it, or the first that is left.
LEMMA FirstAfterCursor ==
  ASSUME StreamInv, NEW rest, rest = {i \in DOMAIN stream : AfterCursor(stream[i])}, rest # {}
  PROVE  /\ Min(rest) \in 1..Len(stream) /\ trimmed + Min(rest) > Cursor
         /\ \A x \in Nat : Cursor < x /\ x < trimmed + Min(rest) => x <= trimmed
<1> DEFINE m == IF Cursor <= trimmed THEN 1 ELSE Cursor - trimmed + 1
<1>1. /\ trimmed \in Nat /\ stream \in Seq(Nat) /\ Len(stream) \in Nat
      /\ \A i \in 1..Len(stream) : stream[i] = trimmed + i
  BY DEF StreamInv, NoGap
<1>2. Cursor \in Nat
  BY CursorIsLast
<1>3. rest = {i \in 1..Len(stream) : trimmed + i > Cursor}
  <2>1. DOMAIN stream = 1..Len(stream)
    BY <1>1
  <2>2. \A i \in 1..Len(stream) : AfterCursor(stream[i]) <=> trimmed + i > Cursor
    BY <1>1 DEF AfterCursor
  <2> QED BY <2>1, <2>2
<1>4. m \in rest
  <2>1. PICK i \in 1..Len(stream) : trimmed + i > Cursor
    BY <1>3
  <2>2. m \in 1..Len(stream) /\ trimmed + m > Cursor
    BY <1>1, <1>2, <2>1
  <2> HIDE DEF m
  <2> QED BY <1>3, <2>2
<1>5. \A i \in rest : m <= i
  BY <1>1, <1>2, <1>3
<1>6. rest \subseteq Nat
  BY <1>1, <1>3
<1> HIDE DEF m
<1>7. Min(rest) = m
  <2>1. Min(rest) \in rest /\ \A y \in rest : Min(rest) <= y
    BY <1>4, <1>5 DEF Min
  <2> QED BY <1>4, <1>5, <1>6, <2>1
<1>8. m \in 1..Len(stream) /\ trimmed + m > Cursor
  BY <1>3, <1>4
<1>9. \A x \in Nat : Cursor < x /\ x < trimmed + m => x <= trimmed
  BY <1>1, <1>2 DEF m
<1> QED BY <1>7, <1>8, <1>9

\* list_events: the page goes on where the last one ended.
LEMMA ListEventsInv ==
  ASSUME StreamInv, NEW limit \in 1..3, ListEvents(limit)
  PROVE  StreamInv'
<1> DEFINE rest == {i \in DOMAIN stream : AfterCursor(stream[i])}
           m == Min(rest)
           last == m + limit - 1
           e == IF last < Len(stream) THEN last ELSE Len(stream)
           got == SubSeq(stream, m, e)
<1>1. /\ trimmed \in Nat /\ stream \in Seq(Nat) /\ Len(stream) \in Nat
      /\ \A i \in 1..Len(stream) : stream[i] = trimmed + i
      /\ page \in Seq(Nat) /\ Len(page) \in Nat /\ StreamEnd = trimmed + Len(stream)
  BY DEF StreamInv, NoGap, PageGrows, StreamEnd
<1>2. rest # {} /\ stream' = stream /\ damaged' = damaged /\ trimmed' = trimmed
  BY DEF ListEvents
<1>3. StreamEnd' = StreamEnd /\ NoGap'
  BY <1>2 DEF StreamEnd, StreamInv, NoGap
<1>4. CASE page' = page
  BY <1>2, <1>3, <1>4 DEF StreamInv, PageGrows, NoneSkipped, Cursor
<1>5. CASE AcceptsPage(ToSet(got)) /\ page' = page \o got
  <2>1. /\ m \in 1..Len(stream) /\ trimmed + m > Cursor
        /\ \A x \in Nat : Cursor < x /\ x < trimmed + m => x <= trimmed
    <3> HIDE DEF rest
    <3>1. rest = {i \in DOMAIN stream : AfterCursor(stream[i])}
      BY DEF rest
    <3> QED BY <1>2, <3>1, FirstAfterCursor
  <2> HIDE DEF m
  <2>2. e \in 1..Len(stream) /\ m <= e
    BY <1>1, <2>1
  <2> HIDE DEF e
  <2>3. /\ got \in Seq(Nat) /\ Len(got) = e - m + 1
        /\ \A j \in 1..(e - m + 1) : got[j] = stream[m + j - 1]
    <3>1. m \in 1..(Len(stream) + 1) /\ e \in 0..Len(stream) /\ e >= m
      BY <1>1, <2>1, <2>2
    <3>2. stream \in Seq(Nat)
      BY <1>1
    <3>3. got = SubSeq(stream, m, e)
      OBVIOUS
    <3> HIDE DEF got
    <3>4. ASSUME NEW i \in m..e PROVE stream[i] \in Nat
      <4>1. Len(stream) \in Nat /\ m \in Nat /\ m >= 1 /\ e \in Nat /\ e <= Len(stream)
        BY <1>1, <2>1, <2>2
      <4>2. i \in 1..Len(stream)
        BY <4>1
      <4> QED BY <3>2, <4>2
    <3>5. m \in Int /\ e \in Int /\ m <= e
      BY <1>1, <2>1, <2>2
    <3> QED BY <3>3, <3>4, <3>5, SubSeqProperties
  <2>4. \A j \in 1..Len(got) : got[j] = trimmed + m + j - 1
    <3> SUFFICES ASSUME NEW j \in 1..Len(got) PROVE got[j] = trimmed + m + j - 1
      OBVIOUS
    <3>1. m + j - 1 \in 1..Len(stream) /\ j \in 1..(e - m + 1)
      BY <1>1, <2>1, <2>2, <2>3
    <3>2. got[j] = stream[m + j - 1] /\ stream[m + j - 1] = trimmed + (m + j - 1)
      BY <1>1, <2>3, <3>1
    <3> QED BY <1>1, <2>1, <3>1, <3>2
  <2>5. \A j \in 1..Len(got) : got[j] \notin damaged
    <3> HIDE DEF got
    <3>0. DOMAIN got = 1..Len(got)
      BY <2>3
    <3>1. \A j \in 1..Len(got) : got[j] \in ToSet(got)
      BY <3>0 DEF ToSet
    <3> QED BY <1>5, <3>1 DEF AcceptsPage
  <2> HIDE DEF got
  <2>6. Len(got) \in Nat /\ Len(got) >= 1
    BY <1>1, <2>1, <2>2, <2>3
  <2>7. /\ page' \in Seq(Nat) /\ Len(page') = Len(page) + Len(got)
        /\ \A i \in 1..Len(page) : page'[i] = page[i]
        /\ \A j \in 1..Len(got) : page'[Len(page) + j] = got[j]
    <3>1. got \in Seq(Nat) /\ page' = page \o got /\ page \in Seq(Nat)
      BY <1>1, <1>5, <2>3 DEF got
    <3>2. page' \in Seq(Nat) /\ Len(page') = Len(page) + Len(got)
      BY <3>1
    <3>3. \A i \in 1..Len(page) : page'[i] = page[i]
      BY <3>1
    <3>4. \A j \in 1..Len(got) : page'[Len(page) + j] = got[j]
      BY <1>1, <2>6, <3>1
    <3> QED BY <3>2, <3>3, <3>4
  <2>8. \A i \in 1..Len(page') : \/ i \in 1..Len(page)
                                 \/ \E j \in 1..Len(got) : i = Len(page) + j
    <3> SUFFICES ASSUME NEW i \in 1..Len(page'), i \notin 1..Len(page)
                 PROVE  \E j \in 1..Len(got) : i = Len(page) + j
      OBVIOUS
    <3>1. i - Len(page) \in 1..Len(got) /\ i = Len(page) + (i - Len(page))
      BY <1>1, <2>6, <2>7
    <3> QED BY <3>1
  <2>9. \A i \in 1..Len(page) : page[i] \in 1..StreamEnd /\ page[i] <= Cursor /\ page[i] \notin damaged
    BY CursorIsLast DEF StreamInv, PageGrows
  <2>10. Cursor \in Nat /\ StreamEnd \in Nat
    BY CursorIsLast
  <2>11. \A j \in 1..Len(got) : got[j] \in 1..StreamEnd /\ got[j] > Cursor
    <3> SUFFICES ASSUME NEW j \in 1..Len(got) PROVE got[j] \in 1..StreamEnd /\ got[j] > Cursor
      OBVIOUS
    <3>1. got[j] = trimmed + m + j - 1
      BY <2>4
    <3>2. j \in Nat /\ j >= 1 /\ j <= e - m + 1 /\ m \in Nat /\ m >= 1 /\ e \in Nat /\ e <= Len(stream)
      BY <1>1, <2>1, <2>2, <2>3
    <3>3. trimmed + m + j - 1 \in 1..(trimmed + Len(stream)) /\ trimmed + m + j - 1 > Cursor
      <4>1. trimmed \in Nat /\ Len(stream) \in Nat /\ trimmed + m > Cursor /\ Cursor \in Nat
        BY <1>1, <2>1, <2>10
      <4> QED BY <3>2, <4>1
    <3> QED BY <1>1, <3>1, <3>3
  <2>12. PageGrows'
    <3>1. \A i \in 1..Len(page') : page'[i] \in 1..StreamEnd'
      BY <1>3, <2>7, <2>8, <2>9, <2>11
    <3>2. ASSUME NEW i \in 1..Len(page'), NEW j \in 1..Len(page'), i < j
          PROVE  page'[i] < page'[j]
      <4>1. CASE j \in 1..Len(page)
        <5>1. i \in 1..Len(page)
          BY <1>1, <3>2, <4>1
        <5> QED BY <2>7, <3>2, <4>1, <5>1 DEF StreamInv, PageGrows
      <4>2. CASE i \in 1..Len(page) /\ j \notin 1..Len(page)
        <5>1. PICK y \in 1..Len(got) : j = Len(page) + y
          BY <2>8, <4>2
        <5>2. page'[i] = page[i] /\ page'[j] = got[y]
          BY <2>7, <4>2, <5>1
        <5>3. page[i] \in Nat /\ got[y] \in Nat /\ page[i] <= Cursor /\ got[y] > Cursor
          BY <2>9, <2>10, <2>11, <4>2, <5>1
        <5> QED BY <2>10, <5>2, <5>3
      <4>3. CASE i \notin 1..Len(page) /\ j \notin 1..Len(page)
        <5>1. PICK x \in 1..Len(got) : i = Len(page) + x
          BY <2>8, <4>3
        <5>2. PICK y \in 1..Len(got) : j = Len(page) + y
          BY <2>8, <4>3
        <5>3. page'[i] = trimmed + m + x - 1 /\ page'[j] = trimmed + m + y - 1
          BY <2>4, <2>7, <5>1, <5>2
        <5>4. x < y /\ x \in Nat /\ y \in Nat
          BY <1>1, <2>6, <3>2, <5>1, <5>2
        <5> QED BY <1>1, <2>1, <5>3, <5>4
      <4> QED BY <4>1, <4>2, <4>3
    <3> QED BY <2>7, <3>1, <3>2 DEF PageGrows
  <2>13. Cursor' = trimmed + e
    <3>1. page' # <<>> /\ Len(page') = Len(page) + Len(got) /\ Len(got) \in 1..Len(got)
      BY <1>1, <2>6, <2>7
    <3>2. Cursor' = got[Len(got)]
      BY <2>7, <3>1 DEF Cursor
    <3>3. Cursor' = trimmed + m + Len(got) - 1
      BY <2>4, <3>1, <3>2
    <3> QED BY <1>1, <2>1, <2>2, <2>3, <3>3
  <2>14. NoneSkipped'
    <3> SUFFICES ASSUME NEW x \in 1..(trimmed + e), ~(x <= trimmed)
                 PROVE  \E i \in 1..Len(page') : page'[i] = x
      BY <1>2, <2>13 DEF NoneSkipped
    <3>0. x \in Nat /\ x >= 1 /\ x <= trimmed + e
      BY <1>1, <2>2
    <3>1. CASE x <= Cursor
      <4>1. x \in 1..Cursor
        BY <2>10, <3>0, <3>1
      <4>2. PICK i \in 1..Len(page) : page[i] = x
        BY <4>1 DEF StreamInv, NoneSkipped
      <4>3. i \in 1..Len(page') /\ page'[i] = x
        <5>1. Len(page') = Len(page) + Len(got) /\ page'[i] = page[i]
          BY <2>7, <4>2
        <5>2. i \in 1..(Len(page) + Len(got))
          BY <1>1, <2>6, <4>2
        <5> QED BY <4>2, <5>1, <5>2
      <4> QED BY <4>3
    <3>2. CASE ~(x <= Cursor)
      <4>1. ~(x < trimmed + m)
        BY <2>1, <2>10, <3>0, <3>2
      <4> DEFINE j == x - trimmed - m + 1
      <4>2. j \in 1..Len(got) /\ trimmed + m + j - 1 = x
        BY <1>1, <2>1, <2>2, <2>3, <3>0, <4>1
      <4> HIDE DEF j
      <4>3. Len(page) + j \in 1..Len(page') /\ page'[Len(page) + j] = x
        BY <1>1, <2>4, <2>6, <2>7, <4>2
      <4> QED BY <4>3
    <3> QED BY <3>1, <3>2
  <2>15. \A i \in 1..Len(page') : page'[i] \notin damaged'
    BY <1>2, <2>5, <2>7, <2>8, <2>9
  <2>16. damaged' \subseteq 1..StreamEnd'
    BY <1>2, <1>3 DEF StreamInv
  <2> QED BY <1>3, <2>12, <2>14, <2>15, <2>16 DEF StreamInv
<1>6. \/ page' = page
      \/ AcceptsPage(ToSet(got)) /\ page' = page \o got
  BY DEF ListEvents
<1> QED BY <1>4, <1>5, <1>6

LEMMA StreamInvStep == StreamInv /\ [StreamNext]_streamVars => StreamInv'
<1> SUFFICES ASSUME StreamInv, [StreamNext]_streamVars
             PROVE  StreamInv'
  OBVIOUS
<1>1. CASE UNCHANGED streamVars
  BY <1>1 DEF streamVars, StreamInv, NoGap, PageGrows, NoneSkipped, Cursor, StreamEnd
<1> QED BY <1>1, AddToStreamInv, ListEventsInv DEF StreamNext

\* A reader that pages through the capped stream by cursor while it grows is
\* given each entry once, in order, skips none that is left, and is never
\* given a damaged one (RedisEventPublisher.list_events).
THEOREM StreamKept == StreamSpec => []PagingSound
<1>1. StreamInit => StreamInv
  BY InitStreamInv
<1>2. StreamInv /\ [StreamNext]_streamVars => StreamInv'
  BY StreamInvStep
<1>3. StreamInv => PagingSound
  <2> SUFFICES ASSUME StreamInv PROVE PagingSound
    OBVIOUS
  <2>0. page \in Seq(Nat) /\ trimmed \in Nat /\ Len(page) \in Nat /\ DOMAIN page = 1..Len(page)
    BY DEF StreamInv, NoGap, PageGrows
  <2>1. \A i, j \in DOMAIN page : i < j => page[i] < page[j]
    BY <2>0 DEF StreamInv, PageGrows
  <2>2. (1..Cursor) \ ToSet(page) \subseteq 1..trimmed
    <3> SUFFICES ASSUME NEW x \in 1..Cursor, x \notin ToSet(page) PROVE x \in 1..trimmed
      OBVIOUS
    <3>1. x <= trimmed
      BY <2>0 DEF StreamInv, NoneSkipped, ToSet
    <3> QED BY <2>0, <3>1, CursorIsLast
  <2>3. ToSet(page) \cap damaged = {}
    BY <2>0 DEF StreamInv, ToSet
  <2> QED BY <2>1, <2>2, <2>3 DEF PagingSound, PagedOnce, PagesClean
<1> QED BY <1>1, <1>2, <1>3, PTL DEF StreamSpec

-----------------------------------------------------------------------------
(* The process sandbox                                                       *)

\* The bytes a reader has kept of a stream.
KeptOf(s) == Cardinality(keptBytes[s])

SandboxTypeOK ==
  /\ child \in [state : {"none", "alive", "killed", "dead"}, code : Nat, reads : BOOLEAN]
  /\ written \in [Streams -> Nat] /\ taken \in [Streams -> Nat]
  /\ DOMAIN keptBytes = Streams
  /\ budget \in [remaining : Nat, truncated : BOOLEAN]
  /\ outcome \in [timedOut : BOOLEAN, code : Nat, error : BOOLEAN,
                  how : {"none", "refused", "returned", "cancelled", "cancelled feeding", "no process"}]

\* What is kept of a stream is its beginning, and was read from it.
BeginningKept ==
  \A s \in Streams :
    /\ KeptOf(s) \in Nat /\ keptBytes[s] = 1..KeptOf(s)
    /\ KeptOf(s) <= taken[s] /\ taken[s] <= written[s]

\* What both have kept and what is left make up the budget; until it is
\* exceeded, everything that was read is kept.
BudgetShared ==
  /\ KeptOf("stdout") + KeptOf("stderr") + budget.remaining = Keep
  /\ IF budget.truncated THEN budget.remaining = 0
     ELSE \A s \in Streams : KeptOf(s) = taken[s]

\* How far the process is, by the stage of the call.
ProcessFollows ==
  /\ command \in {"idle", "feeding", "waiting", "reaping", "cancelling", "gathering", "ended"}
  /\ command \notin {"idle", "ended"} => child.state # "none"
  /\ command \in {"reaping", "cancelling"} => child.state \in {"killed", "dead"}
  /\ command = "gathering" => child.state = "dead"
  /\ command # "ended" => outcome.how = "none"

\* What a result says of the process it is the result of.
ResultTells ==
  /\ outcome.how \in {"cancelled", "no process"} => child.state \in {"killed", "dead"}
  /\ outcome.how = "returned" =>
       /\ child.state = "dead" /\ ~holder /\ \A s \in Streams : taken[s] = written[s]
       /\ ~outcome.error => child.code = 0 /\ ~outcome.timedOut

SandboxInv == SandboxTypeOK /\ BeginningKept /\ BudgetShared /\ ProcessFollows /\ ResultTells

LEMMA InitSandboxInv == SandboxInit => SandboxInv
<1> SUFFICES ASSUME SandboxInit PROVE SandboxInv
  OBVIOUS
<1> USE DEF SandboxInit
<1>1. \A s \in Streams : KeptOf(s) = 0 /\ keptBytes[s] = 1..0
  BY FS_EmptySet DEF KeptOf
<1>2. SandboxTypeOK
  BY SandboxAssumption DEF SandboxTypeOK, NoOutcome
<1>3. BeginningKept
  BY <1>1 DEF BeginningKept
<1>4. BudgetShared
  BY <1>1, SandboxAssumption DEF BudgetShared, Streams
<1>5. ProcessFollows /\ ResultTells
  BY DEF ProcessFollows, ResultTells, NoOutcome
<1> QED BY <1>2, <1>3, <1>4, <1>5 DEF SandboxInv

\* The first position of a chunk.
LEMMA MinOfInterval ==
  ASSUME NEW a \in Nat, NEW b \in Nat, a <= b
  PROVE  Min(a..b) = a
BY DEF Min

\* _OutputBudget.keep: what is kept of a chunk is its beginning, as much of it
\* as the budget leaves.
LEMMA KeepChunkInv ==
  ASSUME SandboxInv, NEW s \in Streams, NEW n \in 1..ReadSize, ReadChunk(s, n)
  PROVE  BeginningKept' /\ BudgetShared' /\ budget' \in [remaining : Nat, truncated : BOOLEAN]
         /\ DOMAIN keptBytes' = Streams
<1> DEFINE k == KeptOf(s)
           t == taken[s]
           r == budget.remaining
           chunk == (t + 1)..(t + n)
           room == {b \in chunk : b < Min(chunk) + r}
           m == IF n <= r THEN n ELSE r
<1>1. n \in Nat /\ n >= 1
  BY SandboxAssumption
<1>2. /\ k \in Nat /\ keptBytes[s] = 1..k /\ k <= t /\ t \in Nat /\ r \in Nat
      /\ budget.truncated \in BOOLEAN /\ budget = [remaining |-> r, truncated |-> budget.truncated]
  BY DEF SandboxInv, SandboxTypeOK, BeginningKept
<1>3. Min(chunk) = t + 1
  <2>1. t + 1 \in Nat /\ t + n \in Nat /\ t + 1 <= t + n
    BY <1>1, <1>2
  <2> HIDE DEF t
  <2> QED BY <2>1, MinOfInterval
<1>4. m \in Nat /\ room = (t + 1)..(t + m)
  BY <1>1, <1>2, <1>3
<1>5. room = chunk <=> n <= r
  <2>1. CASE n <= r
    BY <1>4, <2>1
  <2>2. CASE ~(n <= r)
    <3>1. t + n \in chunk /\ t + n \notin room
      <4>1. m = r /\ t + n \in chunk
        BY <1>1, <1>2, <2>2
      <4>2. ~(t + n <= t + m)
        BY <1>1, <1>2, <2>2, <4>1
      <4> HIDE DEF chunk, m, t
      <4> QED BY <1>4, <4>1, <4>2
    <3> QED BY <2>2, <3>1
  <2> QED BY <2>1, <2>2
<1>6. Cardinality(chunk) = n
  <2>1. t + 1 \in Int /\ t + n \in Int /\ ~(t + 1 > t + n) /\ (t + n) - (t + 1) + 1 = n
    BY <1>1, <1>2
  <2>2. Cardinality((t + 1)..(t + n)) = IF t + 1 > t + n THEN 0 ELSE (t + n) - (t + 1) + 1
    <3> HIDE DEF t
    <3> QED BY <2>1, FS_Interval
  <2> HIDE DEF t
  <2> QED BY <2>1, <2>2
<1>7. /\ keptBytes' = [keptBytes EXCEPT ![s] = @ \cup room]
      /\ budget' = IF room = chunk THEN [budget EXCEPT !.remaining = @ - Cardinality(chunk)]
                   ELSE [remaining |-> 0, truncated |-> TRUE]
      /\ taken' = [taken EXCEPT ![s] = @ + n] /\ written' = written /\ t + n <= written[s]
  BY DEF ReadChunk, KeepChunk
<1>8. budget' = IF n <= r THEN [remaining |-> r - n, truncated |-> budget.truncated]
                ELSE [remaining |-> 0, truncated |-> TRUE]
  <2> HIDE DEF chunk, room
  <2>1. [budget EXCEPT !.remaining = @ - n] = [remaining |-> r - n, truncated |-> budget.truncated]
    BY <1>2
  <2> QED BY <1>5, <1>6, <1>7, <2>1
<1>9. DOMAIN keptBytes = Streams /\ taken \in [Streams -> Nat] /\ written \in [Streams -> Nat]
  BY DEF SandboxInv, SandboxTypeOK
<1>10. keptBytes'[s] = 1..(k + m)
  <2>1. keptBytes'[s] = (1..k) \cup room
    BY <1>2, <1>7, <1>9
  <2>2. m > 0 => k = t
    <3>1. m > 0 => r > 0
      BY <1>1, <1>2
    <3> QED BY <1>2, <3>1 DEF SandboxInv, BudgetShared
  <2>3. CASE m = 0
    BY <1>2, <1>4, <2>1, <2>3
  <2>4. CASE m > 0
    BY <1>2, <1>4, <2>1, <2>2, <2>4
  <2> QED BY <1>4, <2>3, <2>4
<1>11. KeptOf(s)' = k + m
  <2>1. k + m \in Nat
    BY <1>2, <1>4
  <2> HIDE DEF k, m
  <2>2. Cardinality(1..(k + m)) = IF 1 > k + m THEN 0 ELSE (k + m) - 1 + 1
    <3>1. 1 \in Int /\ k + m \in Int
      BY <2>1
    <3> QED BY <3>1, FS_Interval
  <2>3. Cardinality(1..(k + m)) = k + m
    BY <2>1, <2>2
  <2> QED BY <1>10, <2>3 DEF KeptOf
<1>12. \A x \in Streams : x # s => KeptOf(x)' = KeptOf(x) /\ keptBytes'[x] = keptBytes[x] /\ taken'[x] = taken[x]
  BY <1>7, <1>9 DEF KeptOf
<1>13. taken'[s] = t + n
  BY <1>7, <1>9
<1>14. m <= n /\ r - m \in Nat
  BY <1>1, <1>2
<1> HIDE DEF chunk, room, k, t, r, m
<1>a. m = IF n <= r THEN n ELSE r
  BY DEF m
<1>15. BeginningKept'
  <2> SUFFICES ASSUME NEW x \in Streams
               PROVE  /\ KeptOf(x)' \in Nat /\ keptBytes'[x] = 1..KeptOf(x)'
                      /\ KeptOf(x)' <= taken'[x] /\ taken'[x] <= written'[x]
    BY DEF BeginningKept
  <2>1. CASE x = s
    BY <1>1, <1>2, <1>4, <1>7, <1>10, <1>11, <1>13, <1>14, <2>1
  <2>2. CASE x # s
    BY <1>7, <1>12, <2>2 DEF SandboxInv, BeginningKept
  <2> QED BY <2>1, <2>2
<1>16. budget' = [remaining |-> r - m, truncated |-> IF n <= r THEN budget.truncated ELSE TRUE]
  <2>1. CASE n <= r
    BY <1>8, <1>a, <2>1
  <2>2. CASE ~(n <= r)
    <3>1. m = r /\ r - m = 0
      BY <1>2, <1>a, <2>2
    <3> QED BY <1>8, <2>2, <3>1
  <2> QED BY <2>1, <2>2
<1>17. KeptOf("stdout")' + KeptOf("stderr")' + budget'.remaining = Keep
  <2>0. /\ KeptOf("stdout") + KeptOf("stderr") + r = Keep
        /\ KeptOf("stdout") \in Nat /\ KeptOf("stderr") \in Nat /\ Keep \in Nat
        /\ budget'.remaining = r - m
    BY <1>16, SandboxAssumption DEF SandboxInv, BudgetShared, BeginningKept, Streams, r
  <2>1. CASE s = "stdout"
    <3>1. KeptOf("stdout")' = KeptOf("stdout") + m /\ KeptOf("stderr")' = KeptOf("stderr")
      BY <1>11, <1>12, <2>1 DEF k, Streams
    <3> QED BY <1>2, <1>4, <2>0, <3>1
  <2>2. CASE s = "stderr"
    <3>1. KeptOf("stderr")' = KeptOf("stderr") + m /\ KeptOf("stdout")' = KeptOf("stdout")
      BY <1>11, <1>12, <2>2 DEF k, Streams
    <3> QED BY <1>2, <1>4, <2>0, <3>1
  <2> QED BY <2>1, <2>2 DEF Streams
<1>18. BudgetShared'
  <2>1. CASE budget'.truncated
    <3>1. CASE n <= r
      <4>1. budget.truncated
        BY <1>16, <2>1, <3>1
      <4>2. r = 0
        BY <4>1 DEF SandboxInv, BudgetShared, r
      <4> QED BY <1>1, <3>1, <4>2
    <3>2. CASE ~(n <= r)
      <4>1. m = r
        BY <3>2 DEF m
      <4> QED BY <1>2, <1>16, <1>17, <2>1, <4>1 DEF BudgetShared
    <3> QED BY <3>1, <3>2
  <2>2. CASE ~budget'.truncated
    <3>1. n <= r /\ ~budget.truncated
      BY <1>16, <2>2
    <3>2. m = n
      BY <3>1 DEF m
    <3>3. \A x \in Streams : KeptOf(x)' = taken'[x]
      BY <1>11, <1>12, <1>13, <3>1, <3>2 DEF SandboxInv, BudgetShared, k, t
    <3> QED BY <1>17, <2>2, <3>3 DEF BudgetShared
  <2> QED BY <2>1, <2>2
<1>19. budget' \in [remaining : Nat, truncated : BOOLEAN]
  BY <1>2, <1>14, <1>16
<1>20. DOMAIN keptBytes' = Streams
  BY <1>7, <1>9
<1> QED BY <1>15, <1>18, <1>19, <1>20

\* A step that reads nothing leaves the bytes as they are.
LEMMA BytesStand ==
  ASSUME SandboxInv, UNCHANGED <<written, taken, keptBytes, budget>>
  PROVE  BeginningKept' /\ BudgetShared'
BY DEF SandboxInv, BeginningKept, BudgetShared, KeptOf

\* Every step of the call, of its readers and of the child keeps SandboxInv.
LEMMA SandboxInvStep == SandboxInv /\ [SandboxNext]_sandboxVars => SandboxInv'
<1> SUFFICES ASSUME SandboxInv, [SandboxNext]_sandboxVars
             PROVE  SandboxInv'
  OBVIOUS
<1> USE DEF SandboxInv
<1>t. SandboxTypeOK /\ ProcessFollows /\ ResultTells
  OBVIOUS
<1>w. written \in [Streams -> Nat] /\ taken \in [Streams -> Nat]
  BY <1>t DEF SandboxTypeOK
<1>1. ASSUME NEW c \in Commands \cup {"other"}, NEW t \in 0..(MaxTimeout + 1), RefuseCommand(c, t)
      PROVE  SandboxInv'
  BY <1>1, BytesStand DEF RefuseCommand, NoOutcome, SandboxTypeOK, ProcessFollows, ResultTells
<1>2. ASSUME NEW c \in Commands, NEW t \in 1..MaxTimeout, NEW i \in {"none", "large"}, StartCommand(c, t, i)
      PROVE  SandboxInv'
  BY <1>2, BytesStand DEF StartCommand, SandboxTypeOK, ProcessFollows, ResultTells
<1>3. CASE Fed
  BY <1>3, BytesStand DEF Fed, SandboxTypeOK, ProcessFollows, ResultTells
<1>4. CASE Waited
  BY <1>4, BytesStand DEF Waited, SandboxTypeOK, ProcessFollows, ResultTells
<1>5. CASE TimeIsUp
  BY <1>5, BytesStand DEF TimeIsUp, Kill, SandboxTypeOK, ProcessFollows, ResultTells
<1>5a. CASE KillFindsNone
  BY <1>5a, BytesStand DEF KillFindsNone, SandboxTypeOK, ProcessFollows, ResultTells
<1>6. CASE Reap
  BY <1>6, BytesStand DEF Reap, SandboxTypeOK, ProcessFollows, ResultTells
<1>7. CASE CancelCommand
  <2>1. CASE command = "waiting"
    <3>1. /\ command' = "cancelling" /\ Kill
          /\ UNCHANGED <<written, taken, keptBytes, budget, holder, outcome>>
      BY <1>7, <2>1 DEF CancelCommand
    <3> QED BY <2>1, <3>1, BytesStand DEF Kill, SandboxTypeOK, ProcessFollows, ResultTells
  <2>2. CASE command # "waiting"
    <3>1. /\ command' = "ended" /\ command \in {"feeding", "reaping", "gathering"}
          /\ UNCHANGED <<child, written, taken, keptBytes, budget, holder>>
          /\ outcome' = [outcome EXCEPT !.how =
               IF command = "feeding" THEN "cancelled feeding" ELSE "cancelled"]
      BY <1>7, <2>2 DEF CancelCommand
    <3>2. /\ SandboxTypeOK' /\ outcome'.how =
               IF command = "feeding" THEN "cancelled feeding" ELSE "cancelled"
      BY <3>1 DEF SandboxTypeOK
    <3>3. outcome'.how = "cancelled" => command # "feeding"
      BY <3>2
    <3>4. outcome'.how \notin {"returned", "no process"}
      BY <3>2
    <3>5. outcome'.how = "cancelled" => child'.state \in {"killed", "dead"}
      BY <1>t, <3>1, <3>3 DEF ProcessFollows
    <3>6. ProcessFollows' /\ ResultTells'
      BY <3>1, <3>4, <3>5 DEF ProcessFollows, ResultTells
    <3> QED BY <3>1, <3>2, <3>6, BytesStand
  <2> QED BY <2>1, <2>2
<1>8. ASSUME NEW s \in Streams, NEW n \in 1..ReadSize, ReadChunk(s, n)
      PROVE  SandboxInv'
  <2>1. BeginningKept' /\ BudgetShared' /\ budget' \in [remaining : Nat, truncated : BOOLEAN]
        /\ DOMAIN keptBytes' = Streams
    BY <1>8, KeepChunkInv
  <2>2. /\ taken' \in [Streams -> Nat] /\ UNCHANGED <<command, child, written, holder, outcome>>
        /\ command \notin {"idle", "ended"}
    <3>1. n \in Nat
      BY SandboxAssumption
    <3>2. /\ taken' = [taken EXCEPT ![s] = @ + n] /\ taken \in [Streams -> Nat]
          /\ UNCHANGED <<command, child, written, holder, outcome>>
          /\ command \notin {"idle", "ended"}
      BY <1>8, <1>t DEF ReadChunk, SandboxTypeOK
    <3>3. taken' \in [Streams -> Nat]
      BY <3>1, <3>2
    <3> QED BY <3>2, <3>3
  <2>3. SandboxTypeOK'
    BY <2>1, <2>2 DEF SandboxTypeOK
  <2>4. ProcessFollows' /\ ResultTells'
    BY <2>2 DEF ProcessFollows, ResultTells
  <2> QED BY <2>1, <2>3, <2>4
<1>9. CASE Collect
  <2> DEFINE coded == [outcome EXCEPT !.code = child.code]
             wrong == child.code # 0 \/ outcome.timedOut
             returned == [coded EXCEPT !.how = "returned"]
  <2>1. /\ outcome' = [returned EXCEPT !.error = wrong] /\ command' = "ended" /\ child.state = "dead"
        /\ ~holder /\ \A s \in Streams : taken[s] = written[s]
        /\ UNCHANGED <<child, written, taken, keptBytes, budget, holder>>
    BY <1>9 DEF Collect, AtEnd, Streams
  <2> DEFINE Outcomes == [timedOut : BOOLEAN, code : Nat, error : BOOLEAN,
                 how : {"none", "refused", "returned", "cancelled", "cancelled feeding", "no process"}]
  <2>2. outcome \in Outcomes /\ child.code \in Nat /\ wrong \in BOOLEAN
    BY DEF SandboxTypeOK
  <2>3. coded \in Outcomes /\ coded.timedOut = outcome.timedOut
    BY <2>2
  <2> HIDE DEF coded, wrong
  <2>4. returned \in Outcomes /\ returned.timedOut = outcome.timedOut /\ returned.how = "returned"
    BY <2>3
  <2> HIDE DEF returned
  <2>5. /\ outcome' \in Outcomes /\ outcome'.timedOut = outcome.timedOut
        /\ outcome'.how = "returned" /\ outcome'.error = wrong
    BY <2>1, <2>2, <2>4
  <2>6. ~outcome'.error => child.code = 0 /\ ~outcome'.timedOut
    BY <2>5 DEF wrong
  <2>7. SandboxTypeOK'
    BY <2>1, <2>5 DEF SandboxTypeOK
  <2>8. ProcessFollows' /\ ResultTells'
    BY <2>1, <2>5, <2>6 DEF ProcessFollows, ResultTells
  <2> QED BY <2>1, <2>7, <2>8, BytesStand
<1>10. ASSUME NEW s \in Streams, ChildWrites(s)
       PROVE  SandboxInv'
  <2>1. /\ written' = [written EXCEPT ![s] = @ + 1]
        /\ UNCHANGED <<command, child, taken, keptBytes, budget, holder, outcome>>
        /\ child.state = "alive" \/ holder
    BY <1>10 DEF ChildWrites
  <2>2. SandboxTypeOK'
    <3>1. written \in [Streams -> Nat] /\ written[s] + 1 \in Nat
      BY <1>w
    <3>2. written' \in [Streams -> Nat]
      BY <2>1, <3>1
    <3> QED BY <2>1, <3>2 DEF SandboxTypeOK
  <2>3. BeginningKept'
    <3>1. \A x \in Streams : written[x] <= written'[x]
      <4> SUFFICES ASSUME NEW x \in Streams PROVE written[x] <= written'[x]
        OBVIOUS
      <4>1. written \in [Streams -> Nat] /\ written[x] \in Nat
        BY <1>w
      <4>2. written'[x] = IF x = s THEN written[x] + 1 ELSE written[x]
        BY <2>1, <4>1
      <4> QED BY <4>1, <4>2
    <3>2. \A x \in Streams : written[x] \in Nat /\ written'[x] \in Nat /\ taken[x] \in Nat
      BY <2>2 DEF SandboxTypeOK
    <3> QED BY <2>1, <3>1, <3>2 DEF BeginningKept, KeptOf
  <2>4. BudgetShared'
    BY <2>1 DEF BudgetShared, KeptOf
  <2>5. ProcessFollows' /\ ResultTells'
    BY <2>1 DEF ProcessFollows, ResultTells
  <2> QED BY <2>2, <2>3, <2>4, <2>5
<1>11. CASE ChildReads
  BY <1>11, BytesStand DEF ChildReads, SandboxTypeOK, ProcessFollows, ResultTells
<1>12. CASE ChildForks
  BY <1>12, BytesStand DEF ChildForks, SandboxTypeOK, ProcessFollows, ResultTells
<1>13. CASE HolderEnds
  <2>1. holder /\ ~holder' /\ UNCHANGED <<command, child, written, taken, keptBytes, budget, outcome>>
    BY <1>13 DEF HolderEnds
  <2>2. SandboxTypeOK' /\ ProcessFollows'
    BY <1>t, <2>1 DEF SandboxTypeOK, ProcessFollows
  <2>3. ResultTells'
    BY <1>t, <2>1 DEF ResultTells
  <2> QED BY <2>1, <2>2, <2>3, BytesStand
<1>14. ASSUME NEW code \in 0..1, ChildExits(code)
       PROVE  SandboxInv'
  <2> DEFINE gone == [child EXCEPT !.state = "dead"]
             Children == [state : {"none", "alive", "killed", "dead"}, code : Nat, reads : BOOLEAN]
             c == IF child.state = "alive" THEN code ELSE 9
  <2>1. /\ child.state \in {"alive", "killed"} /\ child' = [gone EXCEPT !.code = c]
        /\ UNCHANGED <<command, written, taken, keptBytes, budget, holder, outcome>>
    BY <1>14 DEF ChildExits
  <2>2. gone \in Children /\ gone.state = "dead" /\ c \in Nat
    <3>1. child \in Children
      BY <1>t DEF SandboxTypeOK
    <3>2. gone \in Children /\ gone.state = "dead"
      BY <3>1
    <3>3. c \in Nat
      OBVIOUS
    <3> QED BY <3>2, <3>3
  <2> HIDE DEF gone, c
  <2>3. child' \in Children /\ child'.state = "dead"
    BY <2>1, <2>2
  <2>4. SandboxTypeOK'
    BY <2>1, <2>3 DEF SandboxTypeOK
  <2>5. ProcessFollows' /\ ResultTells'
    BY <2>1, <2>3 DEF ProcessFollows, ResultTells
  <2> QED BY <2>1, <2>4, <2>5, BytesStand
<1>15. CASE UNCHANGED sandboxVars
  <2>1. UNCHANGED <<command, child, written, taken, keptBytes, budget, holder, outcome>>
    BY <1>15 DEF sandboxVars
  <2>2. SandboxTypeOK' /\ ProcessFollows' /\ ResultTells'
    BY <1>t, <2>1 DEF SandboxTypeOK, ProcessFollows, ResultTells
  <2> QED BY <2>1, <2>2, BytesStand
<1> QED
  BY <1>1, <1>2, <1>3, <1>4, <1>5, <1>5a, <1>6, <1>7, <1>8, <1>9, <1>10, <1>11, <1>12,
     <1>13, <1>14, <1>15 DEF SandboxNext

\* A command's result tells what happened and its process does not outlive it,
\* whatever the bytes, the budget and the order of output, exit, timeout and
\* cancellation (LocalProcessSandbox.run, ShellTool.invoke).
THEOREM SandboxKept == SandboxSpec => []SandboxSound
<1>1. SandboxInit => SandboxInv
  BY InitSandboxInv
<1>2. SandboxInv /\ [SandboxNext]_sandboxVars => SandboxInv'
  BY SandboxInvStep
<1>3. SandboxInv => SandboxSound
  <2> SUFFICES ASSUME SandboxInv PROVE SandboxSound
    OBVIOUS
  <2>1. OutputHonest
    <3>1. \A s \in Streams : keptBytes[s] = 1..Cardinality(keptBytes[s])
      BY DEF SandboxInv, BeginningKept, KeptOf
    <3>2. ASSUME outcome.how = "returned", budget.truncated
          PROVE  Cardinality(keptBytes["stdout"]) + Cardinality(keptBytes["stderr"]) = Keep
      BY <3>2 DEF SandboxInv, BudgetShared, BeginningKept, KeptOf, Streams
    <3>3. ASSUME outcome.how = "returned", ~budget.truncated
          PROVE  \A s \in Streams : keptBytes[s] = 1..written[s]
      BY <3>1, <3>3 DEF SandboxInv, BudgetShared, ResultTells, KeptOf
    <3> QED BY <3>1, <3>2, <3>3 DEF OutputHonest
  <2>2. NoProcessLeft /\ SuccessMeansExit
    BY DEF SandboxInv, ResultTells, NoProcessLeft, SuccessMeansExit
  <2> QED BY <2>1, <2>2 DEF SandboxSound
<1> QED BY <1>1, <1>2, <1>3, PTL DEF SandboxSpec

-----------------------------------------------------------------------------
(* The team runtime                                                          *)

\* The clients whose operation is under way.
Running == {c \in Clients : client[c] = "running"}

\* The callbacks of the loop: who is queued is there once, and not behind a stop.
ReadyInOrder ==
  /\ ready \in Seq(Clients \cup RtCalls)
  /\ \A c \in Clients : client[c] = "queued" =>
       loop = "runs" /\ \E i \in 1..Len(ready) : ready[i] = c
  /\ \A i \in 1..Len(ready) : ready[i] \in Clients =>
       /\ client[ready[i]] = "queued"
       /\ \A j \in 1..Len(ready) : ready[j] = ready[i] => j = i
  /\ \A i, j \in 1..Len(ready) : i < j /\ ready[i] = "stop" => ready[j] \notin Clients

\* The loop is stopped for a close only, when the close task is over.
StopsForClose ==
  /\ localClosed \in BOOLEAN
  /\ \A i \in 1..Len(ready) : ready[i] \in {"stop", "acloseAndStop"} => localClosed
  /\ stopAfter => localClosed
  /\ \A k \in Stoppers : stopper[k] # "idle" => localClosed
  /\ \A i \in 1..Len(ready) : ready[i] = "stop" => closing = "done"
  /\ loop # "runs" => localClosed /\ closing = "done"

\* The close task drains what is under way before it closes the first resource.
DrainedFirst ==
  /\ closing # "none" => shut
  /\ closing \in {"close", "done"} => Running = {}
  /\ freed \in Seq(Nat) /\ left \in Nat
  /\ \A i \in 1..Len(freed) : freed[i] = Resources + 1 - i
  /\ CASE closing = "close" -> Len(freed) + left = Resources
       [] closing = "done" -> Len(freed) = Resources
       [] OTHER -> freed = <<>>

TeamRtInv == TeamRtTypeOK /\ NothingCut /\ ReadyInOrder /\ StopsForClose /\ DrainedFirst

LEMMA InitTeamRtInv == TeamRtInit => TeamRtInv
<1> SUFFICES ASSUME TeamRtInit PROVE TeamRtInv
  OBVIOUS
<1> USE TeamRuntimeAssumption DEF TeamRtInit
<1>1. Running = {} /\ Cardinality(Running) = 0
  BY FS_EmptySet DEF Running
<1>2. TeamRtTypeOK
  BY <1>1 DEF TeamRtTypeOK, Running
<1>3. NothingCut
  BY DEF NothingCut
<1>4. ReadyInOrder
  BY DEF ReadyInOrder
<1>5. StopsForClose
  <2>1. \A i \in 1..Len(ready) : FALSE
    OBVIOUS
  <2> QED BY <2>1 DEF StopsForClose
<1>6. DrainedFirst
  BY <1>1 DEF DrainedFirst
<1> QED BY <1>2, <1>3, <1>4, <1>5, <1>6 DEF TeamRtInv

\* Calls of the runtime and clients are told apart.
LEMMA CallIsNoClient == ASSUME NEW x \in RtCalls PROVE x \notin Clients
BY TeamRuntimeAssumption

\* The runtime's own calls go behind whoever is queued.
LEMMA AppendCall ==
  ASSUME ReadyInOrder, NEW x \in RtCalls, ready' = Append(ready, x), UNCHANGED <<client, loop>>
  PROVE  /\ ReadyInOrder'
         /\ \A i \in 1..Len(ready') : ready'[i] = x \/ (i \in 1..Len(ready) /\ ready'[i] = ready[i])
<1> USE DEF ReadyInOrder
<1>1. /\ ready' \in Seq(Clients \cup RtCalls) /\ Len(ready') = Len(ready) + 1 /\ Len(ready) \in Nat
      /\ \A i \in 1..Len(ready) : i \in 1..Len(ready') /\ ready'[i] = ready[i]
      /\ ready'[Len(ready) + 1] = x
  OBVIOUS
<1>2. \A i \in 1..Len(ready') : i = Len(ready) + 1 \/ i \in 1..Len(ready)
  BY <1>1
<1>3. x \notin Clients
  BY CallIsNoClient
<1>4. \A c \in Clients : client'[c] = "queued" =>
        loop' = "runs" /\ \E i \in 1..Len(ready') : ready'[i] = c
  BY <1>1
<1>5. ASSUME NEW i \in 1..Len(ready'), ready'[i] \in Clients
      PROVE  /\ client'[ready'[i]] = "queued"
             /\ \A j \in 1..Len(ready') : ready'[j] = ready'[i] => j = i
  BY <1>1, <1>2, <1>3, <1>5
<1>6. ASSUME NEW i \in 1..Len(ready'), NEW j \in 1..Len(ready'), i < j, ready'[i] = "stop"
      PROVE  ready'[j] \notin Clients
  <2>1. CASE j = Len(ready) + 1
    BY <1>1, <1>3, <2>1
  <2>2. CASE j \in 1..Len(ready)
    <3>1. i \in 1..Len(ready)
      BY <1>1, <1>6, <2>2
    <3> QED BY <1>1, <1>6, <2>2, <3>1
  <2> QED BY <1>2, <2>1, <2>2
<1>7. ReadyInOrder'
  <2>1. ready' \in Seq(Clients \cup RtCalls)
    BY <1>1
  <2> QED BY <2>1, <1>4, <1>5, <1>6
<1>8. \A i \in 1..Len(ready') : ready'[i] = x \/ (i \in 1..Len(ready) /\ ready'[i] = ready[i])
  BY <1>1, <1>2
<1> HIDE DEF ReadyInOrder
<1> QED BY <1>7, <1>8

\* The loop takes its callbacks from the front.
LEMMA TakeReady ==
  ASSUME ReadyInOrder, NextReady
  PROVE  /\ ready' \in Seq(Clients \cup RtCalls) /\ Head(ready) = ready[1] /\ 1 \in 1..Len(ready)
         /\ \A i \in 1..Len(ready') : i + 1 \in 1..Len(ready) /\ ready'[i] = ready[i + 1] /\ i + 1 # 1
         /\ \A i \in 1..Len(ready) : i # 1 => \E j \in 1..Len(ready') : i = j + 1
         /\ \A i, j \in 1..Len(ready') : (i < j => i + 1 < j + 1) /\ (i + 1 = j + 1 => i = j)
<1>1. ready \in Seq(Clients \cup RtCalls) /\ ready # <<>> /\ ready' = Tail(ready)
  BY DEF ReadyInOrder, NextReady
<1>2. /\ Len(ready) \in Nat /\ Len(ready) >= 1 /\ Len(ready') = Len(ready) - 1
      /\ ready' \in Seq(Clients \cup RtCalls) /\ Head(ready) = ready[1]
      /\ \A i \in 1..Len(ready') : ready'[i] = ready[i + 1]
  BY <1>1
<1>3. ASSUME NEW i \in 1..Len(ready), i # 1
      PROVE  \E j \in 1..Len(ready') : i = j + 1
  <2>1. i - 1 \in 1..Len(ready') /\ i = (i - 1) + 1
    BY <1>2, <1>3
  <2> QED BY <2>1
<1> QED BY <1>2, <1>3

\* When a callback that is no client's is taken, the queue keeps its order.
LEMMA TakeCall ==
  ASSUME ReadyInOrder, NextReady, Head(ready) \notin Clients, UNCHANGED <<client, loop>>
  PROVE  ReadyInOrder'
<1> USE TakeReady DEF ReadyInOrder
<1>1. ASSUME NEW c \in Clients, client'[c] = "queued"
      PROVE  loop' = "runs" /\ \E i \in 1..Len(ready') : ready'[i] = c
  <2>1. loop = "runs"
    BY <1>1
  <2>2. PICK i \in 1..Len(ready) : ready[i] = c
    BY <1>1
  <2>3. i # 1
    BY <2>2
  <2>4. PICK j \in 1..Len(ready') : i = j + 1
    BY <2>3
  <2> QED BY <2>1, <2>2, <2>4
<1>2. ASSUME NEW i \in 1..Len(ready'), ready'[i] \in Clients
      PROVE  /\ client'[ready'[i]] = "queued"
             /\ \A j \in 1..Len(ready') : ready'[j] = ready'[i] => j = i
  BY <1>2
<1>3. ASSUME NEW i \in 1..Len(ready'), NEW j \in 1..Len(ready'), i < j, ready'[i] = "stop"
      PROVE  ready'[j] \notin Clients
  <2>1. /\ i + 1 \in 1..Len(ready) /\ j + 1 \in 1..Len(ready) /\ i + 1 < j + 1
        /\ ready[i + 1] = "stop" /\ ready'[j] = ready[j + 1]
    BY <1>3
  <2> QED BY <2>1
<1>4. ready' \in Seq(Clients \cup RtCalls)
  OBVIOUS
<1> QED BY <1>1, <1>2, <1>3, <1>4

\* What is left of the queue still stops the loop for a close only.
LEMMA TakenStops ==
  ASSUME ReadyInOrder, StopsForClose, NextReady, UNCHANGED <<localClosed, stopper, loop>>,
         closing = "done" => closing' = "done",
         stopAfter' => stopAfter \/ Head(ready) = "acloseAndStop"
  PROVE  StopsForClose'
<1> USE TakeReady DEF StopsForClose
<1>1. \A i \in 1..Len(ready') : \E j \in 1..Len(ready) : ready'[i] = ready[j]
  OBVIOUS
<1>2. stopAfter' => localClosed'
  OBVIOUS
<1> QED BY <1>1, <1>2

\* A step of the loop that neither begins nor ends an operation.
LEMMA SameRunning ==
  ASSUME TeamRtTypeOK, UNCHANGED <<client, inFlight>>, UNCHANGED stopper,
         closing' \in {"none", "drain", "close", "done"}, left' \in 0..Resources
  PROVE  TeamRtTypeOK' /\ Running' = Running
BY DEF TeamRtTypeOK, Running

\* The running clients can be counted.
LEMMA RunningFinite ==
  /\ IsFiniteSet(Running) /\ Cardinality(Running) \in Nat
  /\ Cardinality(Running) = 0 <=> Running = {}
<1>1. Running \subseteq Clients
  BY DEF Running
<1>2. IsFiniteSet(Running)
  BY <1>1, TeamRuntimeAssumption, FS_Subset
<1> QED BY <1>2, FS_CardinalityType, FS_EmptySet

\* _submit: nobody is queued once the runtime is closed.
LEMMA SubmitInv ==
  ASSUME TeamRtInv, NEW c \in Clients, Submit(c)
  PROVE  TeamRtInv'
<1> USE DEF TeamRtInv
<1>0. /\ client[c] = "idle" /\ UNCHANGED <<stopper, localClosed, loop, shut, inFlight, closing, left, stopAfter, freed>>
      /\ client \in [Clients -> {"idle", "queued", "running", "answered", "refused", "cancelled"}]
  BY DEF Submit, AsyncSide, TeamRtTypeOK
<1>1. \E w \in {"refused", "queued"} : client' = [client EXCEPT ![c] = w]
  BY DEF Submit
<1>2. /\ client' \in [Clients -> {"idle", "queued", "running", "answered", "refused", "cancelled"}]
      /\ \A d \in Clients : d # c => client'[d] = client[d]
      /\ client'[c] \in {"refused", "queued"}
  BY <1>0, <1>1
<1>3. Running' = Running
  BY <1>0, <1>2 DEF Running
<1>4. TeamRtTypeOK'
  BY <1>0, <1>2, <1>3 DEF TeamRtTypeOK, Running
<1>5. NothingCut'
  BY <1>2 DEF NothingCut
<1>6. DrainedFirst'
  BY <1>0, <1>3 DEF DrainedFirst
<1>7. CASE localClosed
  <2>1. client'[c] = "refused" /\ ready' = ready
    BY <1>0, <1>7 DEF Submit
  <2>2. ReadyInOrder'
    BY <1>0, <1>2, <2>1 DEF ReadyInOrder
  <2>3. StopsForClose'
    BY <1>0, <2>1 DEF StopsForClose
  <2> QED BY <1>4, <1>5, <1>6, <2>2, <2>3
<1>8. CASE ~localClosed
  <2>0. loop = "runs" /\ \A i \in 1..Len(ready) : ready[i] # "stop" /\ ready[i] # "acloseAndStop"
    BY <1>8 DEF StopsForClose
  <2>1. client'[c] = "queued" /\ ready' = Append(ready, c) /\ ready \in Seq(Clients \cup RtCalls)
    BY <1>0, <1>8 DEF Submit, ReadyInOrder
  <2>2. /\ ready' \in Seq(Clients \cup RtCalls) /\ Len(ready) \in Nat /\ Len(ready') = Len(ready) + 1
        /\ \A i \in 1..Len(ready) : i \in 1..Len(ready') /\ ready'[i] = ready[i]
        /\ ready'[Len(ready) + 1] = c /\ Len(ready) + 1 \in 1..Len(ready')
    BY <2>1
  <2>3. \A i \in 1..Len(ready') : i = Len(ready) + 1 \/ i \in 1..Len(ready)
    BY <2>2
  <2>4. \A i \in 1..Len(ready) : ready[i] # c
    BY <1>0 DEF ReadyInOrder
  <2>5. c \notin RtCalls
    BY CallIsNoClient
  <2>6. ReadyInOrder'
    <3>1. \A d \in Clients : client'[d] = "queued" =>
            loop' = "runs" /\ \E i \in 1..Len(ready') : ready'[i] = d
      BY <1>0, <1>2, <2>0, <2>2 DEF ReadyInOrder
    <3>2. ASSUME NEW i \in 1..Len(ready'), ready'[i] \in Clients
          PROVE  /\ client'[ready'[i]] = "queued"
                 /\ \A j \in 1..Len(ready') : ready'[j] = ready'[i] => j = i
      <4>1. CASE i = Len(ready) + 1
        BY <2>1, <2>2, <2>3, <2>4, <4>1
      <4>2. CASE i \in 1..Len(ready)
        BY <1>2, <2>2, <2>3, <2>4, <3>2, <4>2 DEF ReadyInOrder
      <4> QED BY <2>3, <4>1, <4>2
    <3>3. \A i \in 1..Len(ready') : ready'[i] # "stop"
      BY <2>0, <2>2, <2>3, <2>5 DEF RtCalls
    <3> QED BY <2>2, <3>1, <3>2, <3>3 DEF ReadyInOrder
  <2>7. \A i \in 1..Len(ready') : ready'[i] \notin {"stop", "acloseAndStop"}
    BY <2>0, <2>2, <2>3, <2>5 DEF RtCalls
  <2>8. StopsForClose'
    BY <1>0, <2>7 DEF StopsForClose
  <2> QED BY <1>4, <1>5, <1>6, <2>6, <2>8
<1> QED BY <1>7, <1>8

\* _begin_operation: refused once the close task is there.
LEMMA BeginOperationInv ==
  ASSUME TeamRtInv, NEW c \in Clients, BeginOperation(c)
  PROVE  TeamRtInv'
<1> USE DEF TeamRtInv
<1>0. /\ NextReady /\ Head(ready) = c
      /\ UNCHANGED <<stopper, localClosed, loop, shut, closing, left, stopAfter, freed>>
      /\ client \in [Clients -> {"idle", "queued", "running", "answered", "refused", "cancelled"}]
      /\ client' = [client EXCEPT ![c] = IF shut THEN "refused" ELSE "running"]
  BY DEF BeginOperation, TeamRtTypeOK
<1>1. ready[1] = c /\ 1 \in 1..Len(ready) /\ client[c] = "queued"
  BY <1>0, TakeReady DEF ReadyInOrder
<1>2. /\ client' \in [Clients -> {"idle", "queued", "running", "answered", "refused", "cancelled"}]
      /\ \A d \in Clients : d # c => client'[d] = client[d]
      /\ client'[c] = IF shut THEN "refused" ELSE "running"
  BY <1>0
<1>3. ReadyInOrder'
  <2> USE TakeReady, <1>0, <1>1, <1>2 DEF ReadyInOrder
  <2>0. \A i \in 1..Len(ready') : ready'[i] # c
    OBVIOUS
  <2>1. ASSUME NEW d \in Clients, client'[d] = "queued"
        PROVE  loop' = "runs" /\ \E i \in 1..Len(ready') : ready'[i] = d
    <3>1. d # c /\ client[d] = "queued"
      BY <2>1
    <3>2. PICK i \in 1..Len(ready) : ready[i] = d
      BY <3>1
    <3>3. PICK j \in 1..Len(ready') : i = j + 1
      BY <3>1, <3>2
    <3> QED BY <3>1, <3>2, <3>3
  <2>2. ASSUME NEW i \in 1..Len(ready'), ready'[i] \in Clients
        PROVE  /\ client'[ready'[i]] = "queued"
               /\ \A j \in 1..Len(ready') : ready'[j] = ready'[i] => j = i
    BY <2>0, <2>2
  <2>3. ASSUME NEW i \in 1..Len(ready'), NEW j \in 1..Len(ready'), i < j, ready'[i] = "stop"
        PROVE  ready'[j] \notin Clients
    <3>1. /\ i + 1 \in 1..Len(ready) /\ j + 1 \in 1..Len(ready) /\ i + 1 < j + 1
          /\ ready[i + 1] = "stop" /\ ready'[j] = ready[j + 1]
      BY <2>3
    <3> QED BY <3>1
  <2>4. ready' \in Seq(Clients \cup RtCalls)
    OBVIOUS
  <2> HIDE TakeReady, <1>0, <1>1, <1>2
  <2> QED BY <2>1, <2>2, <2>3, <2>4
<1>4. StopsForClose'
  BY <1>0, TakenStops
<1>5. NothingCut'
  BY <1>2 DEF NothingCut
<1>6. TeamRtTypeOK' /\ DrainedFirst'
  <2>1. CASE shut
    <3>1. Running' = Running /\ inFlight' = inFlight
      BY <1>1, <1>2, <2>1 DEF Running, BeginOperation
    <3> QED BY <1>0, <1>2, <3>1 DEF TeamRtTypeOK, DrainedFirst, Running
  <2>2. CASE ~shut
    <3>1. Running' = Running \cup {c} /\ c \notin Running /\ inFlight' = inFlight + 1
      BY <1>1, <1>2, <2>2 DEF Running, BeginOperation
    <3>2. closing = "none" /\ closing' = "none"
      BY <1>0, <2>2 DEF DrainedFirst
    <3>3. Cardinality(Running') = Cardinality(Running) + 1
      BY <3>1, RunningFinite, FS_AddElement
    <3>4. inFlight' = Cardinality(Running')
      BY <3>1, <3>3 DEF TeamRtTypeOK, Running
    <3>5. TeamRtTypeOK'
      BY <1>0, <1>2, <3>4 DEF TeamRtTypeOK, Running
    <3> QED BY <1>0, <3>2, <3>5 DEF DrainedFirst
  <2> QED BY <2>1, <2>2
<1> QED BY <1>3, <1>4, <1>5, <1>6

\* _end_operation
LEMMA EndOperationInv ==
  ASSUME TeamRtInv, NEW c \in Clients, EndOperation(c)
  PROVE  TeamRtInv'
<1> USE DEF TeamRtInv
<1>0. /\ client[c] = "running" /\ inFlight' = inFlight - 1
      /\ UNCHANGED <<stopper, localClosed, ready, loop, shut, closing, left, stopAfter, freed>>
      /\ client \in [Clients -> {"idle", "queued", "running", "answered", "refused", "cancelled"}]
      /\ client' = [client EXCEPT ![c] = "answered"]
  BY DEF EndOperation, TeamRtTypeOK
<1>1. /\ client' \in [Clients -> {"idle", "queued", "running", "answered", "refused", "cancelled"}]
      /\ \A d \in Clients : d # c => client'[d] = client[d]
      /\ client'[c] = "answered"
  BY <1>0
<1>2. Running' = Running \ {c} /\ c \in Running
  BY <1>0, <1>1 DEF Running
<1>3. Cardinality(Running') = Cardinality(Running) - 1
  BY <1>2, RunningFinite, FS_RemoveElement
<1>4. TeamRtTypeOK'
  BY <1>0, <1>1, <1>3 DEF TeamRtTypeOK, Running
<1>5. NothingCut' /\ ReadyInOrder' /\ StopsForClose'
  BY <1>0, <1>1 DEF NothingCut, ReadyInOrder, StopsForClose
<1>6. DrainedFirst'
  BY <1>0, <1>2 DEF DrainedFirst
<1> QED BY <1>4, <1>5, <1>6

\* close, from the loop and from the threads.
LEMMA ClosersInv ==
  ASSUME TeamRtInv,
         \/ \E c \in Clients : CloseFromLoop(c)
         \/ \E k \in Stoppers : CloseLocal(k) \/ ScheduleClose(k) \/ StopLoop(k) \/ JoinLoop(k)
         \/ HostAclose \/ StopAfterClose
  PROVE  TeamRtInv'
<1> USE DEF TeamRtInv
<1>0. /\ UNCHANGED <<client, loop, shut, inFlight, closing, left, stopAfter, freed>>
      /\ localClosed => localClosed'
      /\ localClosed' \in BOOLEAN
  BY DEF CloseFromLoop, CloseLocal, ScheduleClose, StopLoop, JoinLoop, HostAclose, StopAfterClose,
         AsyncSide, StopsForClose
<1>1. \/ ready' = ready
      \/ ready' = Append(ready, "aclose")
      \/ ready' = Append(ready, "acloseAndStop") /\ localClosed'
      \/ ready' = Append(ready, "stop") /\ localClosed' /\ closing = "done"
  BY DEF CloseFromLoop, CloseLocal, ScheduleClose, StopLoop, JoinLoop, HostAclose, StopAfterClose,
         StopsForClose
<1>2. /\ stopper' \in [Stoppers -> {"idle", "schedule", "waits", "joins", "returned"}]
      /\ \A k \in Stoppers : stopper'[k] # "idle" => localClosed'
  <2>1. stopper \in [Stoppers -> {"idle", "schedule", "waits", "joins", "returned"}]
    BY DEF TeamRtTypeOK
  <2>2. \/ stopper' = stopper
        \/ \E k \in Stoppers, w \in {"schedule", "waits", "joins", "returned"} :
             stopper' = [stopper EXCEPT ![k] = w] /\ localClosed'
    <3>1. CASE stopper' = stopper
      BY <3>1
    <3>2. CASE \E k \in Stoppers : CloseLocal(k)
      BY <3>2 DEF CloseLocal
    <3>3. CASE \E k \in Stoppers : ScheduleClose(k) \/ StopLoop(k) \/ JoinLoop(k)
      BY <1>0, <3>3 DEF ScheduleClose, StopLoop, JoinLoop, StopsForClose
    <3> QED BY <3>1, <3>2, <3>3 DEF CloseFromLoop, HostAclose, StopAfterClose
  <2>3. CASE stopper' = stopper
    BY <1>0, <2>1, <2>3 DEF StopsForClose
  <2>4. ASSUME NEW k \in Stoppers, NEW w \in {"schedule", "waits", "joins", "returned"},
               stopper' = [stopper EXCEPT ![k] = w], localClosed'
        PROVE  /\ stopper' \in [Stoppers -> {"idle", "schedule", "waits", "joins", "returned"}]
               /\ \A x \in Stoppers : stopper'[x] # "idle" => localClosed'
    BY <2>1, <2>4
  <2> QED BY <2>2, <2>3, <2>4
<1>3. TeamRtTypeOK'
  BY <1>0, <1>2 DEF TeamRtTypeOK
<1>4. NothingCut' /\ DrainedFirst'
  BY <1>0 DEF NothingCut, DrainedFirst, Running
<1>5. CASE ready' = ready
  <2>1. ReadyInOrder'
    BY <1>0, <1>5 DEF ReadyInOrder
  <2>2. StopsForClose'
    BY <1>0, <1>2, <1>5 DEF StopsForClose
  <2> QED BY <1>3, <1>4, <2>1, <2>2
<1>6. ASSUME NEW x \in RtCalls, ready' = Append(ready, x),
             x \in {"stop", "acloseAndStop"} => localClosed', x = "stop" => closing = "done"
      PROVE  TeamRtInv'
  <2>1. /\ ReadyInOrder'
        /\ \A i \in 1..Len(ready') : ready'[i] = x \/ (i \in 1..Len(ready) /\ ready'[i] = ready[i])
    BY <1>0, <1>6, AppendCall
  <2>2. StopsForClose'
    BY <1>0, <1>2, <1>6, <2>1 DEF StopsForClose
  <2> QED BY <1>3, <1>4, <2>1, <2>2
<1>7. "aclose" \in RtCalls /\ "acloseAndStop" \in RtCalls /\ "stop" \in RtCalls
  BY DEF RtCalls
<1> QED BY <1>1, <1>5, <1>6, <1>7

\* aclose
LEMMA AcloseInv ==
  ASSUME TeamRtInv, Aclose
  PROVE  TeamRtInv'
<1> USE DEF TeamRtInv
<1>0. /\ NextReady /\ Head(ready) \in {"aclose", "acloseAndStop"} /\ shut' = TRUE
      /\ closing' = (IF closing = "none" THEN "drain" ELSE closing)
      /\ stopAfter' = (stopAfter \/ Head(ready) = "acloseAndStop")
      /\ UNCHANGED <<client, stopper, localClosed, loop, inFlight, left, freed>>
  BY DEF Aclose, CloseTask
<1>1. Head(ready) \notin Clients
  BY <1>0, CallIsNoClient DEF RtCalls
<1>2. ReadyInOrder'
  BY <1>0, <1>1, TakeCall
<1>3. StopsForClose'
  BY <1>0, TakenStops
<1>4. TeamRtTypeOK' /\ Running' = Running
  BY <1>0, SameRunning DEF TeamRtTypeOK
<1>5. NothingCut' /\ DrainedFirst'
  BY <1>0, <1>4 DEF NothingCut, DrainedFirst
<1> QED BY <1>2, <1>3, <1>4, <1>5

\* _close_resources and what follows it.
LEMMA ClosingInv ==
  ASSUME TeamRtInv, StartClosing \/ CloseResource \/ EndClosing
  PROVE  TeamRtInv'
<1> USE DEF TeamRtInv
<1>0. Resources \in Nat /\ left \in 0..Resources /\ freed \in Seq(Nat) /\ Len(freed) \in Nat
  BY TeamRuntimeAssumption DEF TeamRtTypeOK, DrainedFirst
<1>1. CASE StartClosing
  <2>1. /\ closing = "drain" /\ inFlight = 0 /\ closing' = "close" /\ left' = Resources
        /\ UNCHANGED <<client, stopper, localClosed, ready, loop, shut, inFlight, stopAfter, freed>>
    BY <1>1 DEF StartClosing, Drained
  <2>2. Running = {}
    BY <2>1, RunningFinite DEF TeamRtTypeOK, Running
  <2>3. TeamRtTypeOK' /\ Running' = {}
    BY <1>0, <2>1, <2>2, SameRunning
  <2>4. NothingCut' /\ ReadyInOrder' /\ StopsForClose'
    BY <2>1 DEF NothingCut, ReadyInOrder, StopsForClose
  <2>5. DrainedFirst'
    BY <1>0, <2>1, <2>3 DEF DrainedFirst
  <2> QED BY <2>3, <2>4, <2>5
<1>2. CASE CloseResource
  <2>1. /\ closing = "close" /\ left > 0 /\ freed' = Append(freed, left) /\ left' = left - 1
        /\ UNCHANGED <<client, stopper, localClosed, ready, loop, shut, inFlight, closing, stopAfter>>
    BY <1>2 DEF CloseResource
  <2>2. left' \in 0..Resources
    BY <1>0, <2>1
  <2>3. TeamRtTypeOK' /\ Running' = Running
    BY <2>1, <2>2, SameRunning DEF TeamRtTypeOK
  <2>4. NothingCut' /\ ReadyInOrder' /\ StopsForClose'
    BY <2>1 DEF NothingCut, ReadyInOrder, StopsForClose
  <2>5. /\ freed' \in Seq(Nat) /\ Len(freed') = Len(freed) + 1
        /\ Len(freed') + left' = Resources
        /\ \A i \in 1..Len(freed') : freed'[i] = Resources + 1 - i
    <3>1. Len(freed) + left = Resources /\ \A i \in 1..Len(freed) : freed[i] = Resources + 1 - i
      BY <2>1 DEF DrainedFirst
    <3>2. /\ freed' \in Seq(Nat) /\ Len(freed') = Len(freed) + 1 /\ freed'[Len(freed) + 1] = left
          /\ \A i \in 1..Len(freed) : freed'[i] = freed[i]
      BY <1>0, <2>1
    <3>3. left = Resources + 1 - (Len(freed) + 1)
      BY <1>0, <3>1
    <3>4. \A i \in 1..Len(freed') : i \in 1..Len(freed) \/ i = Len(freed) + 1
      BY <1>0, <3>2
    <3>5. Len(freed') + left' = Resources
      <4>1. left \in Int /\ Len(freed') = Len(freed) + 1 /\ left' = left - 1 /\ Len(freed) + left = Resources
        BY <1>0, <2>1, <3>1, <3>2
      <4>2. (Len(freed) + 1) + (left - 1) = Len(freed) + left
        BY <1>0, <4>1
      <4> QED BY <4>1, <4>2
    <3> QED BY <3>1, <3>2, <3>3, <3>4, <3>5
  <2>6. DrainedFirst'
    BY <2>1, <2>2, <2>3, <2>5 DEF DrainedFirst
  <2> QED BY <2>3, <2>4, <2>6
<1>3. CASE EndClosing
  <2>1. /\ loop = "runs" /\ closing = "close" /\ left = 0 /\ closing' = "done"
        /\ ready' = IF stopAfter THEN Append(ready, "stop") ELSE ready
        /\ UNCHANGED <<client, stopper, localClosed, loop, shut, inFlight, left, stopAfter, freed>>
    BY <1>3 DEF EndClosing
  <2>2. TeamRtTypeOK' /\ Running' = Running
    BY <1>0, <2>1, SameRunning
  <2>3. NothingCut'
    BY <2>1 DEF NothingCut
  <2>4. DrainedFirst'
    BY <1>0, <2>1, <2>2 DEF DrainedFirst
  <2>5. CASE stopAfter
    <3>1. ready' = Append(ready, "stop") /\ "stop" \in RtCalls
      BY <2>1, <2>5 DEF RtCalls
    <3>2. /\ ReadyInOrder'
          /\ \A i \in 1..Len(ready') : ready'[i] = "stop" \/ (i \in 1..Len(ready) /\ ready'[i] = ready[i])
      BY <2>1, <3>1, AppendCall
    <3>3. StopsForClose'
      BY <2>1, <2>5, <3>2 DEF StopsForClose
    <3> QED BY <2>2, <2>3, <2>4, <3>2, <3>3
  <2>6. CASE ~stopAfter
    <3>1. ready' = ready
      BY <2>1, <2>6
    <3>2. ReadyInOrder' /\ StopsForClose'
      BY <2>1, <3>1 DEF ReadyInOrder, StopsForClose
    <3> QED BY <2>2, <2>3, <2>4, <3>2
  <2> QED BY <2>5, <2>6
<1> QED BY <1>1, <1>2, <1>3

\* run_forever returns, and _serve finds nobody to cancel.
LEMMA StopInv ==
  ASSUME TeamRtInv, Stop \/ Serve
  PROVE  TeamRtInv'
<1> USE DEF TeamRtInv
<1>1. CASE Stop
  <2>1. /\ NextReady /\ Head(ready) = "stop" /\ loop' = "stopped"
        /\ UNCHANGED <<client, stopper, localClosed, shut, inFlight, closing, left, stopAfter, freed>>
    BY <1>1 DEF Stop, AsyncSide
  <2>2. ready[1] = "stop" /\ 1 \in 1..Len(ready) /\ "stop" \in RtCalls /\ "stop" \notin Clients
    BY <2>1, TakeReady, CallIsNoClient DEF RtCalls
  <2>3. localClosed /\ closing = "done"
    BY <2>2 DEF StopsForClose
  <2>4. \A i \in 1..Len(ready) : ready[i] \notin Clients
    <3> SUFFICES ASSUME NEW i \in 1..Len(ready) PROVE ready[i] \notin Clients
      OBVIOUS
    <3>1. i = 1 \/ 1 < i
      OBVIOUS
    <3> QED BY <2>2, <3>1 DEF ReadyInOrder
  <2>5. \A c \in Clients : client[c] # "queued"
    BY <2>4 DEF ReadyInOrder
  <2>6. \A i \in 1..Len(ready') : \E j \in 1..Len(ready) : ready'[i] = ready[j]
    BY <2>1, TakeReady
  <2>7. ReadyInOrder'
    <3>1. ready' \in Seq(Clients \cup RtCalls) /\ \A i \in 1..Len(ready') : ready'[i] \notin Clients
      BY <2>1, <2>4, <2>6, TakeReady
    <3> QED BY <2>1, <2>5, <3>1 DEF ReadyInOrder
  <2>8. StopsForClose'
    BY <2>1, <2>3 DEF StopsForClose
  <2>9. TeamRtTypeOK' /\ NothingCut' /\ DrainedFirst'
    BY <2>1 DEF TeamRtTypeOK, NothingCut, DrainedFirst, Running
  <2> QED BY <2>7, <2>8, <2>9
<1>2. CASE Serve
  <2>1. /\ loop = "stopped" /\ loop' = "over" /\ inFlight' = 0
        /\ client' = [c \in Clients |-> IF client[c] = "running" THEN "cancelled" ELSE client[c]]
        /\ UNCHANGED <<stopper, localClosed, ready, shut, closing, left, stopAfter, freed>>
    BY <1>2 DEF Serve
  <2>2. Running = {}
    BY <2>1 DEF StopsForClose, DrainedFirst
  <2>3. client' = client
    BY <2>1, <2>2 DEF Running, TeamRtTypeOK
  <2>4. inFlight = 0
    BY <2>2, FS_EmptySet DEF TeamRtTypeOK, Running
  <2>5. \A c \in Clients : client[c] # "queued"
    BY <2>1 DEF ReadyInOrder
  <2>6. TeamRtTypeOK' /\ NothingCut' /\ DrainedFirst'
    BY <2>1, <2>3, <2>4 DEF TeamRtTypeOK, NothingCut, DrainedFirst, Running
  <2>7. ReadyInOrder' /\ StopsForClose'
    BY <2>1, <2>3, <2>5 DEF ReadyInOrder, StopsForClose
  <2> QED BY <2>6, <2>7
<1> QED BY <1>1, <1>2

LEMMA TeamRtInvStep == TeamRtInv /\ [TeamRtNext]_teamRtVars => TeamRtInv'
<1> SUFFICES ASSUME TeamRtInv, [TeamRtNext]_teamRtVars
             PROVE  TeamRtInv'
  OBVIOUS
<1>1. CASE UNCHANGED teamRtVars
  BY <1>1 DEF teamRtVars, TeamRtInv, TeamRtTypeOK, NothingCut, ReadyInOrder, StopsForClose,
              DrainedFirst, Running
<1>2. CASE TeamRtNext
  BY <1>2, SubmitInv, BeginOperationInv, EndOperationInv, ClosersInv, AcloseInv, ClosingInv, StopInv
     DEF TeamRtNext
<1> QED BY <1>1, <1>2

\* From any number of threads that use and close a team runtime nobody hangs on
\* a loop that is gone, no operation is cut short, and a resource is closed only
\* when nobody can use it (AsyncTeamRuntime, LocalTeamRuntime).
THEOREM TeamRuntimeKept == TeamRtSpec => []CloseIsOrderly
<1>1. TeamRtInit => TeamRtInv
  BY InitTeamRtInv
<1>2. TeamRtInv /\ [TeamRtNext]_teamRtVars => TeamRtInv'
  BY TeamRtInvStep
<1>3. TeamRtInv => CloseIsOrderly
  <2> SUFFICES ASSUME TeamRtInv PROVE CloseIsOrderly
    BY DEF CloseIsOrderly
  <2>1. NobodyLeftWaiting
    BY DEF TeamRtInv, ReadyInOrder, StopsForClose, DrainedFirst, Running, NobodyLeftWaiting
  <2>2. ClosedIdle
    <3>1. freed # <<>> => Running = {}
      BY DEF TeamRtInv, DrainedFirst
    <3>2. freed \in Seq(Nat) /\ Len(freed) \in Nat /\ DOMAIN freed = 1..Len(freed)
      BY DEF TeamRtInv, DrainedFirst
    <3>3. Len(freed) <= Resources
      BY <3>2, TeamRuntimeAssumption DEF TeamRtInv, DrainedFirst
    <3> QED BY <3>1, <3>2, <3>3 DEF TeamRtInv, DrainedFirst, ClosedIdle, Running
  <2> QED BY <2>1, <2>2 DEF TeamRtInv, CloseIsOrderly
<1> QED BY <1>1, <1>2, <1>3, PTL DEF TeamRtSpec

-----------------------------------------------------------------------------
(* The checkpoint store                                                      *)

\* A stored context, and one in a process's hands.
SavedContexts == [id : Nat, parent : Nat, revision : Nat]

CkTypeOK ==
  /\ key \in SavedContexts \cup {Nil, Junk}
  /\ working \in [Savers -> SavedContexts \cup {Nil}]
  /\ saving \in [Savers -> {Nil, "sent", "stored", "conflict", "corrupt"}]
  /\ lineage \in Seq(SavedContexts) /\ contexts \in Nat /\ keyLost \in BOOLEAN

\* The key holds the last context of its lineage, whose revisions count up.
KeyIsLast ==
  /\ \A i \in 1..Len(lineage) : lineage[i].revision = i
  /\ IF key \in {Nil, Junk} THEN lineage = <<>>
     ELSE lineage # <<>> /\ key = lineage[Len(lineage)]

\* A call is on its way with a context.
SavesWhatItHolds == \A p \in Savers : saving[p] # Nil => working[p] # Nil

\* What a process works on was made from what its revision was stored as, as
\* long as the key was never lost.
MadeFromStored ==
  \A p \in Savers : working[p] # Nil =>
    /\ working[p].revision = 0 => working[p].parent = 0
    /\ working[p].revision > 0 /\ ~keyLost =>
         /\ working[p].revision <= Len(lineage)
         /\ lineage[working[p].revision].id = working[p].parent

\* A process that has the script's success has stored what it holds.
StoredIsThere ==
  \A p \in Savers : saving[p] = "stored" =>
    /\ working[p].id \in everStored
    /\ ~keyLost =>
         /\ working[p].revision + 1 <= Len(lineage)
         /\ lineage[working[p].revision + 1].id = working[p].id

CkInv ==
  /\ CkTypeOK /\ KeyIsLast /\ SavesWhatItHolds /\ MadeFromStored /\ StoredIsThere
  /\ SavesBuildOnSaves /\ ToldIsStored

\* Nil and Junk are no contexts, and no stages of a call.
LEMMA NoContexts ==
  Nil \notin SavedContexts /\ Junk \notin SavedContexts
BY CkAssumption DEF SavedContexts

\* A context under its next revision.
LEMMA NextRevision ==
  ASSUME NEW c \in SavedContexts, NEW n \in Nat
  PROVE  LET new == [c EXCEPT !.revision = n]
         IN new \in SavedContexts /\ new.id = c.id /\ new.parent = c.parent /\ new.revision = n
BY DEF SavedContexts

LEMMA InitCkInv == CkInit => CkInv
<1> SUFFICES ASSUME CkInit PROVE CkInv
  OBVIOUS
<1> USE DEF CkInit
<1>1. CkTypeOK
  <2>1. working \in [Savers -> SavedContexts \cup {Nil}]
    OBVIOUS
  <2>2. saving \in [Savers -> {Nil, "sent", "stored", "conflict", "corrupt"}]
    OBVIOUS
  <2>3. lineage = <<>> /\ contexts \in Nat /\ keyLost \in BOOLEAN
    OBVIOUS
  <2>5. lineage \in Seq(SavedContexts)
    BY <2>3
  <2>4. key \in SavedContexts \cup {Nil, Junk}
    OBVIOUS
  <2> HIDE DEF CkInit
  <2> QED BY <2>1, <2>2, <2>3, <2>4, <2>5 DEF CkTypeOK
<1>2. KeyIsLast /\ SavesWhatItHolds /\ MadeFromStored
  BY CkAssumption DEF KeyIsLast, SavesWhatItHolds, MadeFromStored
<1>3. StoredIsThere
  BY CkAssumption DEF StoredIsThere
<1>4. SavesBuildOnSaves /\ ToldIsStored
  BY DEF SavesBuildOnSaves, ToldIsStored
<1> QED BY <1>1, <1>2, <1>3, <1>4 DEF CkInv

\* A step of one process that does not touch what is stored.
LEMMA OwnStepInv ==
  ASSUME CkInv, NEW p \in Savers, NEW w \in SavedContexts \cup {Nil},
         NEW s \in {Nil, "sent", "stored", "conflict", "corrupt"},
         working' = [working EXCEPT ![p] = w], saving' = [saving EXCEPT ![p] = s],
         UNCHANGED <<key, lineage, everStored, keyLost>>, contexts' \in Nat,
         s # Nil => w # Nil,
         w # Nil => /\ w.revision = 0 => w.parent = 0
                    /\ w.revision > 0 /\ ~keyLost =>
                         /\ w.revision <= Len(lineage)
                         /\ lineage[w.revision].id = w.parent,
         s # "stored",
         told' \subseteq everStored
  PROVE  CkInv'
<1> USE DEF CkInv
<1>1. /\ working \in [Savers -> SavedContexts \cup {Nil}]
      /\ saving \in [Savers -> {Nil, "sent", "stored", "conflict", "corrupt"}]
  BY DEF CkTypeOK
<1>2. /\ working' \in [Savers -> SavedContexts \cup {Nil}]
      /\ saving' \in [Savers -> {Nil, "sent", "stored", "conflict", "corrupt"}]
      /\ working'[p] = w /\ saving'[p] = s
      /\ \A q \in Savers : q # p => working'[q] = working[q] /\ saving'[q] = saving[q]
  BY <1>1
<1>3. CkTypeOK'
  BY <1>2 DEF CkTypeOK
<1>4. KeyIsLast'
  BY DEF KeyIsLast
<1>5. SavesWhatItHolds'
  BY <1>2 DEF SavesWhatItHolds
<1>6. MadeFromStored'
  BY <1>2 DEF MadeFromStored
<1>7. StoredIsThere'
  BY <1>2 DEF StoredIsThere
<1>8. SavesBuildOnSaves' /\ ToldIsStored'
  BY DEF SavesBuildOnSaves, ToldIsStored
<1> QED BY <1>3, <1>4, <1>5, <1>6, <1>7, <1>8

\* The last of the lineage is what the key holds.
LEMMA KeyFields ==
  ASSUME CkInv, key \notin {Nil, Junk}
  PROVE  /\ key \in SavedContexts /\ key.revision = Len(lineage) /\ Len(lineage) > 0
         /\ Len(lineage) \in Nat /\ lineage[Len(lineage)].id = key.id
         /\ key.id \in Nat /\ key.revision \in Nat
<1>1. key \in SavedContexts /\ lineage \in Seq(SavedContexts) /\ lineage # <<>> /\ key = lineage[Len(lineage)]
  BY DEF CkInv, CkTypeOK, KeyIsLast
<1>2. Len(lineage) \in 1..Len(lineage)
  BY <1>1
<1>3. key.revision = Len(lineage)
  BY <1>1, <1>2 DEF CkInv, KeyIsLast
<1> QED BY <1>1, <1>2, <1>3 DEF SavedContexts

\* A context that is begun, loaded, sent, answered or given up.
LEMMA ProcessInv ==
  ASSUME CkInv, NEW p \in Savers,
         \/ BeginContext(p) \/ LoadContext(p) \/ SendSave(p) \/ HearAnswer(p)
         \/ \E again \in BOOLEAN : LoseAnswer(p, again)
  PROVE  CkInv'
<1>t. /\ working \in [Savers -> SavedContexts \cup {Nil}] /\ contexts \in Nat
      /\ saving \in [Savers -> {Nil, "sent", "stored", "conflict", "corrupt"}]
      /\ told \subseteq everStored
      /\ working[p] # Nil =>
           /\ working[p] \in SavedContexts
           /\ working[p].revision = 0 => working[p].parent = 0
           /\ working[p].revision > 0 /\ ~keyLost =>
                /\ working[p].revision <= Len(lineage)
                /\ lineage[working[p].revision].id = working[p].parent
  BY DEF CkInv, CkTypeOK, ToldIsStored, MadeFromStored
<1>0. /\ working' = [working EXCEPT ![p] = working[p]] <=> working' = working
      /\ saving' = [saving EXCEPT ![p] = saving[p]] <=> saving' = saving
  BY <1>t
<1>s. Nil \notin {"sent", "stored", "conflict", "corrupt"}
  BY CkAssumption
<1>1. CASE BeginContext(p)
  <2> DEFINE w == Context(contexts + 1, 0, 0)
  <2>1. w \in SavedContexts /\ w.revision = 0 /\ w.parent = 0
    BY <1>t DEF Context, SavedContexts
  <2>2. /\ working' = [working EXCEPT ![p] = w] /\ saving' = [saving EXCEPT ![p] = Nil]
        /\ UNCHANGED <<key, lineage, everStored, keyLost>> /\ contexts' \in Nat /\ told' = told
    BY <1>0, <1>1, <1>t DEF BeginContext
  <2> HIDE DEF w
  <2>3. w \in SavedContexts \cup {Nil} /\ w # Nil
    BY <2>1, NoContexts
  <2>4. /\ w.revision = 0 => w.parent = 0
        /\ w.revision > 0 /\ ~keyLost => w.revision <= Len(lineage) /\ lineage[w.revision].id = w.parent
    BY <2>1
  <2>5. told' \subseteq everStored
    BY <1>t, <2>2
  <2> QED BY <1>s, <2>2, <2>3, <2>4, <2>5, OwnStepInv
<1>2. CASE LoadContext(p)
  <2> DEFINE w == Context(contexts + 1, key.id, key.revision)
  <2>1. /\ key \notin {Nil, Junk} /\ working' = [working EXCEPT ![p] = w]
        /\ saving' = [saving EXCEPT ![p] = Nil]
        /\ UNCHANGED <<key, lineage, everStored, keyLost>> /\ contexts' \in Nat /\ told' = told
    BY <1>0, <1>2, <1>t DEF LoadContext
  <2>2. w \in SavedContexts /\ w.revision = key.revision /\ w.parent = key.id
    BY <1>t, <2>1, KeyFields DEF Context, SavedContexts
  <2> HIDE DEF w
  <2>3. /\ w.revision > 0 /\ w.revision <= Len(lineage) /\ lineage[w.revision].id = w.parent
    BY <2>1, <2>2, KeyFields
  <2>4. w.revision # 0
    BY <2>1, <2>2, KeyFields
  <2>5. /\ w.revision = 0 => w.parent = 0
        /\ w.revision > 0 /\ ~keyLost => w.revision <= Len(lineage) /\ lineage[w.revision].id = w.parent
    BY <2>3, <2>4
  <2>6. w \in SavedContexts \cup {Nil} /\ w # Nil
    BY <2>2, NoContexts
  <2> HIDE <1>t
  <2>7. told' \subseteq everStored
    BY <1>t, <2>1
  <2> QED BY <1>s, <2>1, <2>5, <2>6, <2>7, OwnStepInv
<1>3. CASE SendSave(p)
  <2>1. /\ working[p] # Nil /\ working' = [working EXCEPT ![p] = working[p]]
        /\ saving' = [saving EXCEPT ![p] = "sent"]
        /\ UNCHANGED <<key, lineage, everStored, keyLost>> /\ contexts' \in Nat /\ told' = told
    BY <1>0, <1>3, <1>t DEF SendSave
  <2> QED BY <1>t, <2>1, OwnStepInv
<1>4. CASE HearAnswer(p)
  <2>0. /\ saving[p] \in {"stored", "conflict", "corrupt"} /\ saving' = [saving EXCEPT ![p] = Nil]
        /\ UNCHANGED <<key, lineage, everStored, keyLost>> /\ working[p] # Nil
    BY <1>4, <1>s DEF HearAnswer, CkInv, SavesWhatItHolds
  <2>1. saving[p] = "stored" => /\ working[p].id \in everStored
                                /\ ~keyLost =>
                                     /\ working[p].revision + 1 <= Len(lineage)
                                     /\ lineage[working[p].revision + 1].id = working[p].id
    BY DEF CkInv, StoredIsThere
  <2>2. told' \subseteq everStored
    BY <1>4, <1>t, <2>1 DEF HearAnswer
  <2>3. CASE saving[p] = "stored" /\ contexts < MaxContexts
    <3> DEFINE w == Context(contexts + 1, working[p].id, working[p].revision + 1)
    <3>1. working' = [working EXCEPT ![p] = w] /\ contexts' \in Nat
      BY <1>4, <1>t, <2>3 DEF HearAnswer
    <3>2. /\ w \in SavedContexts /\ w.revision = working[p].revision + 1 /\ w.parent = working[p].id
          /\ w.revision # 0
      BY <1>t, <2>0 DEF Context, SavedContexts
    <3> HIDE DEF w
    <3> QED BY <1>s, <1>t, <2>0, <2>1, <2>2, <2>3, <3>1, <3>2, OwnStepInv
  <2>4. CASE ~(saving[p] = "stored" /\ contexts < MaxContexts)
    <3>1. working' = [working EXCEPT ![p] = Nil] /\ contexts' = contexts
      BY <1>4, <2>4 DEF HearAnswer
    <3> QED BY <1>s, <1>t, <2>0, <2>2, <3>1, OwnStepInv
  <2> QED BY <2>3, <2>4
<1>5. ASSUME NEW again \in BOOLEAN, LoseAnswer(p, again) PROVE CkInv'
  <2> DEFINE w == IF again THEN working[p] ELSE Nil
  <2>1. /\ working' = [working EXCEPT ![p] = w] /\ saving' = [saving EXCEPT ![p] = Nil]
        /\ UNCHANGED <<key, lineage, everStored, keyLost>> /\ contexts' \in Nat /\ told' = told
    BY <1>5, <1>t DEF LoseAnswer
  <2>2. w \in SavedContexts \cup {Nil} /\ (w # Nil => w = working[p])
    BY <1>t
  <2> HIDE DEF w
  <2> QED BY <1>s, <1>t, <2>1, <2>2, OwnStepInv
<1> QED BY <1>1, <1>2, <1>3, <1>4, <1>5

\* _SAVE_SCRIPT: it stores only what was made from what the key holds.
LEMMA RunScriptInv ==
  ASSUME CkInv, NEW p \in Savers, RunScript(p)
  PROVE  CkInv'
<1> DEFINE expected == working[p].revision
           result == SaveScript(key, expected)
           new == [working[p] EXCEPT !.revision = expected + 1]
<1>0. /\ saving[p] = "sent" /\ saving' = [saving EXCEPT ![p] = result]
      /\ UNCHANGED <<working, told, contexts, keyLost>>
      /\ IF result = "stored"
         THEN /\ key' = new /\ lineage' = Append(lineage, new)
              /\ everStored' = everStored \cup {new.id}
         ELSE UNCHANGED <<key, lineage, everStored>>
  BY DEF RunScript
<1>1. /\ working[p] # Nil /\ working[p] \in SavedContexts /\ expected \in Nat
      /\ saving \in [Savers -> {Nil, "sent", "stored", "conflict", "corrupt"}]
      /\ lineage \in Seq(SavedContexts) /\ Len(lineage) \in Nat
  BY <1>0, CkAssumption DEF CkInv, CkTypeOK, SavesWhatItHolds, SavedContexts
<1>2. /\ saving' \in [Savers -> {Nil, "sent", "stored", "conflict", "corrupt"}]
      /\ saving'[p] = result /\ \A q \in Savers : q # p => saving'[q] = saving[q]
      /\ result \in {"stored", "conflict", "corrupt"}
  <2>1. result \in {"stored", "conflict", "corrupt"}
    BY DEF SaveScript
  <2> HIDE DEF result
  <2> QED BY <1>0, <1>1, <2>1
<1>3. CASE result # "stored"
  <2>0. UNCHANGED <<key, lineage, everStored, working, told, contexts, keyLost>>
    BY <1>0, <1>3
  <2> HIDE DEF result
  <2>1. CkTypeOK' /\ KeyIsLast' /\ MadeFromStored'
    BY <1>2, <2>0 DEF CkInv, CkTypeOK, KeyIsLast, MadeFromStored
  <2>2. SavesWhatItHolds' /\ StoredIsThere'
    BY <1>1, <1>2, <1>3, <2>0 DEF CkInv, SavesWhatItHolds, StoredIsThere
  <2>3. SavesBuildOnSaves' /\ ToldIsStored'
    BY <2>0 DEF CkInv, SavesBuildOnSaves, ToldIsStored
  <2> QED BY <2>1, <2>2, <2>3 DEF CkInv
<1>4. CASE result = "stored"
  <2>0. /\ key' = new /\ lineage' = Append(lineage, new) /\ everStored' = everStored \cup {new.id}
        /\ UNCHANGED <<working, told, contexts, keyLost>>
    BY <1>0, <1>4
  <2>1. /\ new \in SavedContexts /\ new.id = working[p].id /\ new.parent = working[p].parent
        /\ new.revision = expected + 1
    <3>1. expected + 1 \in Nat
      BY <1>1
    <3> HIDE DEF expected
    <3> QED BY <1>1, <3>1, NextRevision
  <2>2. \/ key = Nil /\ expected = 0
        \/ key \notin {Nil, Junk} /\ key.revision = expected
    BY <1>4 DEF SaveScript
  <2>m. /\ expected = 0 => working[p].parent = 0
        /\ expected > 0 /\ ~keyLost => expected <= Len(lineage) /\ lineage[expected].id = working[p].parent
    BY <1>1 DEF CkInv, MadeFromStored
  <2>3. Len(lineage) = expected
    <3>1. CASE key = Nil
      BY <2>2, <3>1 DEF CkInv, KeyIsLast
    <3>2. CASE key \notin {Nil, Junk}
      BY <2>2, <3>2, KeyFields
    <3> QED BY <2>2, <3>1, <3>2
  <2> HIDE DEF new, expected, result
  <2>4. /\ lineage' \in Seq(SavedContexts) /\ Len(lineage') = expected + 1
        /\ lineage'[expected + 1] = new /\ \A i \in 1..expected : lineage'[i] = lineage[i]
        /\ lineage' # <<>>
    BY <1>1, <2>0, <2>1, <2>3
  <2>5. \A i \in 1..Len(lineage') : i \in 1..expected \/ i = expected + 1
    BY <1>1, <2>4
  <2>6. CkTypeOK'
    BY <1>2, <2>0, <2>1, <2>4 DEF CkInv, CkTypeOK
  <2>7. KeyIsLast'
    <3>1. \A i \in 1..Len(lineage') : lineage'[i].revision = i
      BY <2>1, <2>3, <2>4, <2>5 DEF CkInv, KeyIsLast
    <3>2. key' \notin {Nil, Junk}
      BY <2>0, <2>1, NoContexts
    <3> QED BY <2>0, <2>4, <3>1, <3>2 DEF KeyIsLast
  <2>8. SavesWhatItHolds'
    BY <1>1, <1>2, <2>0 DEF CkInv, SavesWhatItHolds
  <2>9. ASSUME NEW r \in Nat, r > 0, r <= Len(lineage)
        PROVE  r <= Len(lineage') /\ lineage'[r] = lineage[r]
    BY <1>1, <2>3, <2>4, <2>9
  <2>10. MadeFromStored'
    <3> SUFFICES ASSUME NEW q \in Savers, working[q] # Nil
                 PROVE  /\ working[q].revision = 0 => working[q].parent = 0
                        /\ working[q].revision > 0 /\ ~keyLost =>
                             /\ working[q].revision <= Len(lineage')
                             /\ lineage'[working[q].revision].id = working[q].parent
      BY <2>0 DEF MadeFromStored
    <3>1. working[q].revision \in Nat
      BY DEF CkInv, CkTypeOK, SavedContexts
    <3> QED BY <2>9, <3>1 DEF CkInv, MadeFromStored
  <2>11. StoredIsThere'
    <3> SUFFICES ASSUME NEW q \in Savers, saving'[q] = "stored"
                 PROVE  /\ working[q].id \in everStored'
                        /\ ~keyLost =>
                             /\ working[q].revision + 1 <= Len(lineage')
                             /\ lineage'[working[q].revision + 1].id = working[q].id
      BY <2>0 DEF StoredIsThere
    <3>1. CASE q = p
      BY <1>1, <2>0, <2>1, <2>4, <3>1 DEF expected
    <3>2. CASE q # p
      <4>1. saving[q] = "stored" /\ working[q] # Nil
        BY <1>2, <3>2, CkAssumption DEF CkInv, SavesWhatItHolds
      <4>2. working[q].revision \in Nat
        BY <4>1 DEF CkInv, CkTypeOK, SavedContexts
      <4>3. working[q].revision + 1 \in Nat /\ working[q].revision + 1 > 0
        BY <4>2
      <4> QED BY <2>0, <2>9, <4>1, <4>3 DEF CkInv, StoredIsThere
    <3> QED BY <3>1, <3>2
  <2>12. ToldIsStored'
    BY <2>0 DEF CkInv, ToldIsStored
  <2>13. SavesBuildOnSaves'
    <3> SUFFICES ASSUME NEW i \in 1..(expected + 1)
                 PROVE  /\ lineage'[i].revision = i
                        /\ i = 1 => lineage'[i].parent = 0
                        /\ i > 1 /\ ~keyLost => lineage'[i].parent = lineage'[i - 1].id
      <4>1. DOMAIN lineage' = 1..(expected + 1)
        BY <2>4
      <4> QED BY <2>0, <4>1 DEF SavesBuildOnSaves
    <3>1. CASE i \in 1..expected
      <4>1. i \in DOMAIN lineage /\ lineage'[i] = lineage[i]
        BY <1>1, <2>3, <2>4, <3>1
      <4>2. i > 1 => i - 1 \in 1..expected
        BY <1>1, <3>1
      <4>3. i > 1 => lineage'[i - 1] = lineage[i - 1]
        BY <2>4, <4>2
      <4> QED BY <4>1, <4>3 DEF CkInv, SavesBuildOnSaves
    <3>2. CASE i = expected + 1
      <4>1. lineage'[i].revision = i /\ lineage'[i].parent = working[p].parent
        BY <2>1, <2>4, <3>2
      <4>2. i = 1 => expected = 0
        BY <1>1, <3>2
      <4>3. i > 1 => expected > 0 /\ expected \in 1..expected /\ i - 1 = expected
        BY <1>1, <3>2
      <4>4. i > 1 => lineage'[i - 1] = lineage[expected]
        BY <2>4, <4>3
      <4> QED BY <2>m, <4>1, <4>2, <4>3, <4>4
    <3>3. i \in 1..expected \/ i = expected + 1
      BY <1>1
    <3> QED BY <3>1, <3>2, <3>3
  <2> QED BY <2>6, <2>7, <2>8, <2>10, <2>11, <2>12, <2>13 DEF CkInv
<1> QED BY <1>3, <1>4

\* Redis loses the key, or somebody else writes to it.
LEMMA LoseKeyInv ==
  ASSUME CkInv, NEW value \in {Nil, Junk}, LoseKey(value)
  PROVE  CkInv'
<1>0. /\ key' = value /\ lineage' = <<>> /\ keyLost' = TRUE
      /\ UNCHANGED <<working, saving, told, everStored, contexts>>
  BY DEF LoseKey
<1>1. CkTypeOK'
  BY <1>0 DEF CkInv, CkTypeOK
<1>2. KeyIsLast' /\ SavesWhatItHolds' /\ MadeFromStored' /\ StoredIsThere'
  BY <1>0 DEF CkInv, KeyIsLast, SavesWhatItHolds, MadeFromStored, StoredIsThere
<1>3. SavesBuildOnSaves' /\ ToldIsStored'
  BY <1>0 DEF CkInv, SavesBuildOnSaves, ToldIsStored
<1> QED BY <1>1, <1>2, <1>3 DEF CkInv

LEMMA CkInvStep == CkInv /\ [CkNext]_ckVars => CkInv'
<1> SUFFICES ASSUME CkInv, [CkNext]_ckVars PROVE CkInv'
  OBVIOUS
<1>1. CASE UNCHANGED ckVars
  BY <1>1 DEF ckVars, CkInv, CkTypeOK, KeyIsLast, SavesWhatItHolds, MadeFromStored,
              StoredIsThere, SavesBuildOnSaves, ToldIsStored
<1>2. CASE CkNext
  BY <1>2, ProcessInv, RunScriptInv, LoseKeyInv DEF CkNext
<1> QED BY <1>1, <1>2

\* Processes that save the checkpoint of one run never overwrite each other's
\* work, whatever answers get lost, and take nothing for saved that is not;
\* a lost key is not brought back by an old context (RedisCheckpointStore,
\* _SAVE_SCRIPT).
THEOREM SavesKept == CkSpec => [](SavesBuildOnSaves /\ ToldIsStored)
<1>1. CkInit => CkInv
  BY InitCkInv
<1>2. CkInv /\ [CkNext]_ckVars => CkInv'
  BY CkInvStep
<1>3. CkInv => SavesBuildOnSaves /\ ToldIsStored
  BY DEF CkInv
<1> QED BY <1>1, <1>2, <1>3, PTL DEF CkSpec

-----------------------------------------------------------------------------
(* The versions of a context                                                 *)

ProcFields == {"up", "known", "latest", "recovery", "open", "owed", "call"}

\* The exact version a reference names is in the store.
Resolves(ref) == ref.revision \in Revisions /\ versions[ref.revision].stamp = ref.checksum

\* Revisions are counted up to the pointer, and every process is a record.
LineShaped ==
  /\ latest \in Nat /\ expiries \in Nat /\ managed \in Nat
  /\ Revisions \subseteq 1..latest
  /\ DOMAIN proc = Procs
  /\ \A p \in Procs : DOMAIN proc[p] = ProcFields

\* A process is in a managed call or in none. The reference it owes its first
\* context to waits for recovery until a call has taken it, and that call
\* works on the version it names. A process whose call asks the model has
\* noted the version it asks with.
OwedFollowed ==
  \A p \in Procs :
    /\ proc[p].call.at \in {"loaded", "prepared"} \/ proc[p].call = Quiet
    /\ proc[p].call = Quiet => proc[p].owed = proc[p].recovery
    /\ proc[p].call.at \in {"loaded", "prepared"} =>
         proc[p].recovery = Absent /\ proc[p].call.n \in Nat
    /\ proc[p].call.at = "prepared" => proc[p].latest # Absent
    /\ proc[p].call.at = "loaded" /\ proc[p].owed # Absent =>
         \E base \in proc[p].call.existing : base.stamp = proc[p].owed.checksum

\* A snapshot the model is asked with is in the store under its revision.
AskedFromStore ==
  \A p \in Procs : proc[p].call.at = "prepared" =>
    /\ proc[p].call.rev \in Revisions
    /\ versions[proc[p].call.rev].stamp = <<proc[p].call.n, "prepared">>
    /\ "stamp" \in DOMAIN proc[p].call.snap

\* Every reference a process or the checkpoint holds resolves while no
\* version has expired.
ReferencesResolve ==
  expiries = 0 =>
    /\ ckpt.ref # Absent => Resolves(ckpt.ref)
    /\ \A p \in Procs : /\ proc[p].recovery # Absent => Resolves(proc[p].recovery)
                        /\ proc[p].latest # Absent => Resolves(proc[p].latest)

LineInv ==
  /\ LineShaped
  /\ OwedFollowed
  /\ AskedFromStore
  /\ ReferencesResolve
  /\ AnswerFollowsQuestion
  /\ ContinuesCheckpoint

\* Restore returns the version a reference resolves to, and no other.
LEMMA RestoreIsExact ==
  ASSUME NEW ref
  PROVE  /\ Restore(ref) # {} <=> Resolves(ref)
         /\ \A s \in Restore(ref) : s.stamp = ref.checksum
  BY DEF Restore, Resolves

LEMMA LineImplies == LineInv => AnswerFollowsQuestion /\ ContinuesCheckpoint /\ CheckpointResolves
  BY RestoreIsExact DEF LineInv, CheckpointResolves, ReferencesResolve

LEMMA LineInit == Init => LineInv
<1> SUFFICES ASSUME Init PROVE LineInv
  OBVIOUS
<1>0. \A p \in Procs : proc[p] = Down
  BY DEF Init
<1>1. Revisions = {}
  BY DEF Init, Revisions
<1>2. LineShaped
  BY <1>0, <1>1 DEF Init, LineShaped, Down, ProcFields
<1>3. OwedFollowed
  BY <1>0 DEF OwedFollowed, Down, Quiet
<1>4. AskedFromStore /\ ContinuesCheckpoint
  BY <1>0 DEF AskedFromStore, ContinuesCheckpoint, Down, Quiet
<1>5. ReferencesResolve
  BY <1>0 DEF ReferencesResolve, Init, Down
<1>6. AnswerFollowsQuestion
  BY <1>1 DEF AnswerFollowsQuestion
<1> QED BY <1>2, <1>3, <1>4, <1>5, <1>6 DEF LineInv

\* A step that leaves the store alone keeps what is said of the store alone.
LEMMA StoreUntouched ==
  ASSUME UNCHANGED versions
  PROVE  /\ Revisions' = Revisions
         /\ \A ref : Resolves(ref)' = Resolves(ref)
         /\ AnswerFollowsQuestion => AnswerFollowsQuestion'
  BY DEF Revisions, Resolves, AnswerFollowsQuestion

\* A new version is the latest one, and the ones before it stay.
LEMMA VersionAdded ==
  ASSUME LineShaped, NEW snap, SaveVersion(latest + 1, snap)
  PROVE  /\ Revisions' = Revisions \cup {latest + 1}
         /\ latest + 1 \notin Revisions
         /\ \A r \in Revisions : versions'[r] = versions[r]
         /\ versions'[latest + 1] = snap
         /\ latest' = latest + 1 /\ latest' \in Nat
         /\ Revisions' \subseteq 1..latest'
<1>1. latest + 1 \notin Revisions
  BY DEF LineShaped
<1>2. Revisions' = Revisions \cup {latest + 1}
  BY DEF SaveVersion, Revisions
<1>3. /\ \A r \in Revisions : versions'[r] = versions[r]
      /\ versions'[latest + 1] = snap
  BY <1>1 DEF SaveVersion
<1>4. /\ latest' = latest + 1 /\ latest' \in Nat
      /\ Revisions' \subseteq 1..latest'
  BY <1>2 DEF SaveVersion, LineShaped
<1> QED BY <1>1, <1>2, <1>3, <1>4

LEMMA StillResolves ==
  ASSUME LineShaped, NEW snap, SaveVersion(latest + 1, snap), NEW ref, Resolves(ref)
  PROVE  ref.revision \in Revisions' /\ versions'[ref.revision].stamp = ref.checksum
  BY VersionAdded DEF Resolves

\* A process that keeps its call, what it owes and its references keeps what
\* the invariant says of it.
LEMMA OthersKept ==
  ASSUME LineInv, UNCHANGED <<versions, latest, expiries>>, NEW p \in Procs,
         DOMAIN proc' = Procs, \A q \in Procs \ {p} : proc'[q] = proc[q],
         DOMAIN proc'[p] = ProcFields,
         proc'[p].call.at \in {"loaded", "prepared"} \/ proc'[p].call = Quiet,
         proc'[p].call = Quiet => proc'[p].owed = proc'[p].recovery,
         managed' \in Nat,
         proc'[p].call.at \in {"loaded", "prepared"} =>
           proc'[p].recovery = Absent /\ proc'[p].call.n \in Nat,
         proc'[p].call.at = "loaded" /\ proc'[p].owed # Absent =>
           \E base \in proc'[p].call.existing : base.stamp = proc'[p].owed.checksum,
         proc'[p].call.at # "prepared" \/ (/\ proc'[p].call = proc[p].call
                                            /\ proc'[p].owed = proc[p].owed
                                            /\ proc'[p].latest = proc[p].latest),
         expiries = 0 => /\ ckpt'.ref # Absent => Resolves(ckpt'.ref)
                         /\ proc'[p].recovery # Absent => Resolves(proc'[p].recovery)
                         /\ proc'[p].latest # Absent => Resolves(proc'[p].latest)
  PROVE  LineInv'
<1>1. LineShaped'
  BY StoreUntouched DEF LineInv, LineShaped
<1>2. OwedFollowed'
  <2> SUFFICES ASSUME NEW q \in Procs
               PROVE  /\ proc'[q].call.at \in {"loaded", "prepared"} \/ proc'[q].call = Quiet
                      /\ proc'[q].call = Quiet => proc'[q].owed = proc'[q].recovery
                      /\ proc'[q].call.at \in {"loaded", "prepared"} =>
                           proc'[q].recovery = Absent /\ proc'[q].call.n \in Nat
                      /\ proc'[q].call.at = "prepared" => proc'[q].latest # Absent
                      /\ proc'[q].call.at = "loaded" /\ proc'[q].owed # Absent =>
                           \E base \in proc'[q].call.existing : base.stamp = proc'[q].owed.checksum
    BY DEF OwedFollowed, Quiet
  <2>1. CASE q = p
    BY <2>1 DEF LineInv, OwedFollowed
  <2>2. CASE q # p
    BY <2>2 DEF LineInv, OwedFollowed
  <2> QED BY <2>1, <2>2
<1>3. AskedFromStore' /\ ContinuesCheckpoint'
  <2>1. ASSUME NEW q \in Procs, proc'[q].call.at = "prepared"
        PROVE  proc'[q].call = proc[q].call /\ proc'[q].owed = proc[q].owed
    BY <2>1
  <2>2. AskedFromStore'
    <3> SUFFICES ASSUME NEW q \in Procs, proc'[q].call.at = "prepared"
                 PROVE  /\ proc'[q].call.rev \in Revisions'
                        /\ versions'[proc'[q].call.rev].stamp = <<proc'[q].call.n, "prepared">>
                        /\ "stamp" \in DOMAIN proc'[q].call.snap
      BY DEF AskedFromStore
    <3> QED BY <2>1, StoreUntouched DEF LineInv, AskedFromStore
  <2>3. ContinuesCheckpoint'
    <3> SUFFICES ASSUME NEW q \in Procs, proc'[q].call.at = "prepared", proc'[q].owed # Absent
                 PROVE  \E base \in proc'[q].call.base : base.stamp = proc'[q].owed.checksum
      BY DEF ContinuesCheckpoint
    <3> QED BY <2>1 DEF LineInv, ContinuesCheckpoint
  <2> QED BY <2>2, <2>3
<1>4. ReferencesResolve'
  <2>1. ASSUME NEW ref PROVE Resolves(ref)' <=> Resolves(ref)
    BY StoreUntouched DEF Resolves
  <2> SUFFICES ASSUME expiries' = 0
               PROVE  /\ ckpt'.ref # Absent => Resolves(ckpt.ref)'
                      /\ \A q \in Procs : /\ proc'[q].recovery # Absent => Resolves(proc[q].recovery)'
                                          /\ proc'[q].latest # Absent => Resolves(proc[q].latest)'
    BY DEF ReferencesResolve
  <2>2. ckpt'.ref # Absent => Resolves(ckpt.ref)'
    BY StoreUntouched DEF Resolves
  <2>3. ASSUME NEW q \in Procs
        PROVE  /\ proc'[q].recovery # Absent => Resolves(proc[q].recovery)'
               /\ proc'[q].latest # Absent => Resolves(proc[q].latest)'
    <3>1. /\ proc'[q].recovery # Absent => Resolves(proc'[q].recovery)
          /\ proc'[q].latest # Absent => Resolves(proc'[q].latest)
      BY DEF LineInv, ReferencesResolve
    <3> QED BY <3>1, StoreUntouched DEF Resolves
  <2> QED BY <2>2, <2>3
<1>5. AnswerFollowsQuestion'
  BY StoreUntouched DEF LineInv
<1> QED BY <1>1, <1>2, <1>3, <1>4, <1>5 DEF LineInv

LEMMA StartKeeps ==
  ASSUME LineInv, NEW p \in Procs, Start(p)
  PROVE  LineInv'
<1>1. proc'[p] = [Down EXCEPT !.up = TRUE, !.known = ckpt.revision,
                              !.recovery = ckpt.ref, !.owed = ckpt.ref]
  BY DEF Start, LineInv, LineShaped
<1>2. /\ DOMAIN proc'[p] = ProcFields
      /\ proc'[p].call = Quiet /\ proc'[p].owed = ckpt.ref /\ proc'[p].recovery = ckpt.ref
      /\ proc'[p].latest = Absent
  BY <1>1 DEF Down, ProcFields
<1>3. DOMAIN proc' = Procs /\ \A q \in Procs \ {p} : proc'[q] = proc[q]
  BY DEF Start, LineInv, LineShaped
<1>4. UNCHANGED <<versions, latest, expiries>> /\ ckpt' = ckpt /\ managed' \in Nat
  BY DEF Start, LineInv, LineShaped
<1>5. Quiet.at = "idle"
  BY DEF Quiet
<1>6. /\ expiries = 0 /\ ckpt'.ref # Absent => Resolves(ckpt'.ref)
      /\ expiries = 0 /\ proc'[p].recovery # Absent => Resolves(proc'[p].recovery)
  BY <1>2, <1>4 DEF LineInv, ReferencesResolve, Resolves
<1> QED BY <1>2, <1>3, <1>4, <1>5, <1>6, OthersKept

LEMMA DiesKeeps ==
  ASSUME LineInv, NEW p \in Procs, ProcessDies(p)
  PROVE  LineInv'
<1>1. proc'[p] = Down
  BY DEF ProcessDies, LineInv, LineShaped
<1>2. /\ DOMAIN proc'[p] = ProcFields
      /\ proc'[p].call = Quiet /\ proc'[p].owed = Absent /\ proc'[p].recovery = Absent
      /\ proc'[p].latest = Absent
  BY <1>1 DEF Down, ProcFields
<1>3. DOMAIN proc' = Procs /\ \A q \in Procs \ {p} : proc'[q] = proc[q]
  BY DEF ProcessDies, LineInv, LineShaped
<1>4. UNCHANGED <<versions, latest, expiries>> /\ ckpt' = ckpt /\ managed' \in Nat
  BY DEF ProcessDies, LineInv, LineShaped
<1>5. Quiet.at = "idle"
  BY DEF Quiet
<1>6. expiries = 0 /\ ckpt'.ref # Absent => Resolves(ckpt'.ref)
  BY <1>4 DEF LineInv, ReferencesResolve, Resolves
<1> QED BY <1>2, <1>3, <1>4, <1>5, <1>6, OthersKept

LEMMA CheckpointKeeps ==
  ASSUME LineInv, NEW p \in Procs, Checkpoint(p)
  PROVE  LineInv'
<1>1. proc' = [proc EXCEPT ![p] = [proc[p] EXCEPT !.known = ckpt.revision + 1]]
  BY DEF Checkpoint
<1>2. DOMAIN proc = Procs /\ DOMAIN proc[p] = ProcFields
  BY DEF LineInv, LineShaped
<1>3. proc'[p] = [proc[p] EXCEPT !.known = ckpt.revision + 1]
  BY <1>1, <1>2
<1>4. /\ DOMAIN proc'[p] = ProcFields
      /\ proc'[p].call = proc[p].call /\ proc'[p].owed = proc[p].owed
      /\ proc'[p].recovery = proc[p].recovery /\ proc'[p].latest = proc[p].latest
  BY <1>2, <1>3 DEF ProcFields
<1>5. DOMAIN proc' = Procs /\ \A q \in Procs \ {p} : proc'[q] = proc[q]
  BY <1>1, <1>2
<1>6. UNCHANGED <<versions, latest, expiries>> /\ managed' \in Nat
  BY DEF Checkpoint, LineInv, LineShaped
<1>7. /\ proc'[p].call.at \in {"loaded", "prepared"} \/ proc'[p].call = Quiet
      /\ proc'[p].call = Quiet => proc'[p].owed = proc'[p].recovery
      /\ proc'[p].call.at \in {"loaded", "prepared"} =>
           proc'[p].recovery = Absent /\ proc'[p].call.n \in Nat
      /\ proc'[p].call.at = "loaded" /\ proc'[p].owed # Absent =>
           \E base \in proc'[p].call.existing : base.stamp = proc'[p].owed.checksum
  BY <1>4 DEF LineInv, OwedFollowed, Quiet
<1>8. /\ expiries = 0 /\ proc[p].recovery # Absent => Resolves(proc[p].recovery)
      /\ expiries = 0 /\ proc[p].latest # Absent => Resolves(proc[p].latest)
  BY DEF LineInv, ReferencesResolve
<1>9. ckpt'.ref = CurrentRef(p)
  BY DEF Checkpoint
<1>10. expiries = 0 /\ ckpt'.ref # Absent => Resolves(ckpt'.ref)
  BY <1>8, <1>9 DEF CurrentRef
<1> QED BY <1>4, <1>5, <1>6, <1>7, <1>8, <1>10, OthersKept

\* A call that fails owes nothing any more.
LEMMA FailsKeeps ==
  ASSUME LineInv, NEW p \in Procs, SaveFails(p) \/ RecordFails(p)
  PROVE  LineInv'
<1>1. proc' = [proc EXCEPT ![p] = [proc[p] EXCEPT !.call = Quiet, !.owed = Absent]]
  BY DEF SaveFails, RecordFails
<1>2. DOMAIN proc = Procs /\ DOMAIN proc[p] = ProcFields
  BY DEF LineInv, LineShaped
<1>3. proc'[p] = [proc[p] EXCEPT !.call = Quiet, !.owed = Absent]
  BY <1>1, <1>2
<1>4. /\ DOMAIN proc'[p] = ProcFields
      /\ proc'[p].call = Quiet /\ proc'[p].owed = Absent
      /\ proc'[p].recovery = proc[p].recovery /\ proc'[p].latest = proc[p].latest
  BY <1>2, <1>3 DEF ProcFields
<1>5. DOMAIN proc' = Procs /\ \A q \in Procs \ {p} : proc'[q] = proc[q]
  BY <1>1, <1>2
<1>6. UNCHANGED <<versions, latest, expiries>> /\ ckpt' = ckpt /\ managed' \in Nat
  BY DEF SaveFails, RecordFails, LineInv, LineShaped
<1>7. proc[p].recovery = Absent /\ Quiet.at = "idle"
  BY DEF SaveFails, RecordFails, LineInv, OwedFollowed, Quiet
<1>8. /\ expiries = 0 /\ proc'[p].latest # Absent => Resolves(proc'[p].latest)
      /\ expiries = 0 /\ ckpt'.ref # Absent => Resolves(ckpt'.ref)
  BY <1>4, <1>6 DEF LineInv, ReferencesResolve, Resolves
<1> QED BY <1>4, <1>5, <1>6, <1>7, <1>8, OthersKept

\* A call that starts takes the version it is to go on from, and drops what it
\* owes when that version is not there.
LEMMA LoadKeeps ==
  ASSUME LineInv, NEW p \in Procs, Load(p)
  PROVE  LineInv'
<1>0. /\ UNCHANGED <<versions, latest, expiries>> /\ ckpt' = ckpt /\ proc[p].call = Quiet
      /\ managed + 1 \in Nat /\ managed' \in Nat
  BY DEF Load, LineInv, LineShaped
<1> DEFINE ref == proc[p].recovery
           existing == IF ref # Absent THEN Restore(ref) ELSE Latest
           failed == ref # Absent /\ existing = {}
<1>1. PICK asked \in ModelRequests(p), model \in Models :
        proc' = [proc EXCEPT ![p] =
          [proc[p] EXCEPT !.recovery = Absent, !.open = {},
                    !.owed = IF failed THEN Absent ELSE proc[p].owed,
                    !.call = IF failed THEN Quiet
                             ELSE [at |-> "loaded", n |-> managed + 1, request |-> asked,
                                   model |-> model, existing |-> existing, expected |-> latest]]]
  BY DEF Load
<1> DEFINE call == IF failed THEN Quiet
                   ELSE [at |-> "loaded", n |-> managed + 1, request |-> asked,
                         model |-> model, existing |-> existing, expected |-> latest]
           owed == IF failed THEN Absent ELSE proc[p].owed
<1>2. DOMAIN proc = Procs /\ DOMAIN proc[p] = ProcFields
  BY DEF LineInv, LineShaped
<1>3. /\ failed => call = Quiet
      /\ ~failed => call.at = "loaded" /\ call.existing = existing /\ call.n = managed + 1
  OBVIOUS
<1>4. proc[p].owed = ref
  BY <1>0 DEF LineInv, OwedFollowed
<1>5. ~failed /\ owed # Absent => \E base \in existing : base.stamp = owed.checksum
  BY <1>4, RestoreIsExact
<1>6. /\ failed => owed = Absent
      /\ proc' = [proc EXCEPT ![p] = [proc[p] EXCEPT !.recovery = Absent, !.open = {},
                                                    !.owed = owed, !.call = call]]
  BY <1>1
<1> HIDE DEF ref, existing, failed, call, owed
<1>7. proc'[p] = [proc[p] EXCEPT !.recovery = Absent, !.open = {}, !.owed = owed, !.call = call]
  BY <1>2, <1>6
<1>8. /\ DOMAIN proc'[p] = ProcFields
      /\ proc'[p].call = call /\ proc'[p].owed = owed /\ proc'[p].recovery = Absent
      /\ proc'[p].latest = proc[p].latest
  BY <1>2, <1>7 DEF ProcFields
<1>9. DOMAIN proc' = Procs /\ \A q \in Procs \ {p} : proc'[q] = proc[q]
  BY <1>2, <1>6
<1>10. /\ expiries = 0 /\ proc'[p].latest # Absent => Resolves(proc'[p].latest)
       /\ expiries = 0 /\ ckpt'.ref # Absent => Resolves(ckpt'.ref)
  BY <1>8, <1>0 DEF LineInv, ReferencesResolve, Resolves
<1>11. Quiet.at = "idle"
  BY DEF Quiet
<1>12. /\ proc'[p].call = Quiet \/ (proc'[p].call.at = "loaded" /\ proc'[p].call.n \in Nat)
       /\ proc'[p].call = Quiet => proc'[p].owed = proc'[p].recovery
       /\ proc'[p].call.at = "loaded" /\ proc'[p].owed # Absent =>
            \E base \in proc'[p].call.existing : base.stamp = proc'[p].owed.checksum
  BY <1>0, <1>3, <1>5, <1>6, <1>8, <1>11
<1> QED BY <1>0, <1>8, <1>9, <1>10, <1>11, <1>12, OthersKept

\* Another process saves a version: its references move to it.
LEMMA SaveKeeps ==
  ASSUME LineInv, NEW p \in Procs, Save(p)
  PROVE  LineInv'
<1> DEFINE mine == proc[p].call
           rev == mine.expected + 1
<1>0. /\ proc[p].call.at = "loaded" /\ mine.expected = latest
      /\ UNCHANGED <<ckpt, expiries, managed>> /\ mine.n \in Nat
  BY DEF Save, CanSave, LineInv, OwedFollowed
<1>1. PICK snap \in Prepared(mine) :
        /\ SaveVersion(rev, snap)
        /\ proc' = [proc EXCEPT ![p] =
             [proc[p] EXCEPT !.latest = Ref(rev, snap),
                       !.call = [at |-> "prepared", n |-> mine.n, rev |-> rev, snap |-> snap,
                                 mode |-> mine.request.mode, base |-> mine.existing]]]
  BY DEF Save
<1>2. "stamp" \in DOMAIN snap /\ snap.stamp = <<mine.n, "prepared">>
  BY DEF Prepared
<1>3. /\ rev = latest + 1 /\ Revisions' = Revisions \cup {rev} /\ rev \notin Revisions
      /\ \A r \in Revisions : versions'[r] = versions[r]
      /\ versions'[rev] = snap
      /\ latest' = rev /\ latest' \in Nat /\ Revisions' \subseteq 1..latest'
  BY <1>0, <1>1, VersionAdded DEF LineInv
<1>4. DOMAIN proc = Procs /\ DOMAIN proc[p] = ProcFields
  BY DEF LineInv, LineShaped
<1> DEFINE called == [at |-> "prepared", n |-> mine.n, rev |-> rev, snap |-> snap,
                      mode |-> mine.request.mode, base |-> mine.existing]
           noted == Ref(rev, snap)
<1>5. /\ called.at = "prepared" /\ called.n = mine.n /\ called.rev = rev /\ called.snap = snap
      /\ called.base = mine.existing
  OBVIOUS
<1>6. noted.revision = rev /\ noted.checksum = snap.stamp
  BY DEF Ref
<1>10. noted # Absent
  BY <1>0, <1>2, <1>3, AbsentAssumption DEF Ref, LineInv, LineShaped
<1>7. proc' = [proc EXCEPT ![p] = [proc[p] EXCEPT !.latest = noted, !.call = called]]
  BY <1>1
<1> HIDE DEF rev, called, noted
<1>8. /\ DOMAIN proc'[p] = ProcFields
      /\ proc'[p].call = called /\ proc'[p].owed = proc[p].owed
      /\ proc'[p].recovery = proc[p].recovery /\ proc'[p].latest = noted
  BY <1>4, <1>7 DEF ProcFields
<1>9. DOMAIN proc' = Procs /\ \A q \in Procs \ {p} : proc'[q] = proc[q]
  BY <1>4, <1>7
<1>11. LineShaped'
  BY <1>0, <1>3, <1>8, <1>9 DEF LineInv, LineShaped
<1>12. OwedFollowed'
  <2> SUFFICES ASSUME NEW q \in Procs
               PROVE  /\ proc'[q].call.at \in {"loaded", "prepared"} \/ proc'[q].call = Quiet
                      /\ proc'[q].call = Quiet => proc'[q].owed = proc'[q].recovery
                      /\ proc'[q].call.at \in {"loaded", "prepared"} =>
                           proc'[q].recovery = Absent /\ proc'[q].call.n \in Nat
                      /\ proc'[q].call.at = "prepared" => proc'[q].latest # Absent
                      /\ proc'[q].call.at = "loaded" /\ proc'[q].owed # Absent =>
                           \E base \in proc'[q].call.existing : base.stamp = proc'[q].owed.checksum
    BY DEF OwedFollowed, Quiet
  <2>1. CASE q = p
    <3>1. Quiet.at = "idle"
      BY DEF Quiet
    <3>2. proc[p].recovery = Absent
      BY <1>0 DEF LineInv, OwedFollowed
    <3> QED BY <2>1, <3>1, <3>2, <1>0, <1>8, <1>5, <1>10
  <2>2. CASE q # p
    BY <2>2, <1>9 DEF LineInv, OwedFollowed
  <2> QED BY <2>1, <2>2
<1>13. AskedFromStore'
  <2> SUFFICES ASSUME NEW q \in Procs, proc'[q].call.at = "prepared"
               PROVE  /\ proc'[q].call.rev \in Revisions'
                      /\ versions'[proc'[q].call.rev].stamp = <<proc'[q].call.n, "prepared">>
                      /\ "stamp" \in DOMAIN proc'[q].call.snap
    BY DEF AskedFromStore
  <2>1. CASE q = p
    BY <2>1, <1>8, <1>5, <1>3, <1>2
  <2>2. CASE q # p
    BY <2>2, <1>9, <1>3 DEF LineInv, AskedFromStore
  <2> QED BY <2>1, <2>2
<1>14. ContinuesCheckpoint'
  <2> SUFFICES ASSUME NEW q \in Procs, proc'[q].call.at = "prepared", proc'[q].owed # Absent
               PROVE  \E base \in proc'[q].call.base : base.stamp = proc'[q].owed.checksum
    BY DEF ContinuesCheckpoint
  <2>1. CASE q = p
    BY <2>1, <1>8, <1>5, <1>0 DEF LineInv, OwedFollowed
  <2>2. CASE q # p
    BY <2>2, <1>9 DEF LineInv, ContinuesCheckpoint
  <2> QED BY <2>1, <2>2
<1>15. ReferencesResolve'
  <2>1. ASSUME NEW ref, Resolves(ref)
        PROVE  ref.revision \in Revisions' /\ versions'[ref.revision].stamp = ref.checksum
    BY <2>1, <1>3 DEF Resolves
  <2> SUFFICES ASSUME expiries' = 0
               PROVE  /\ ckpt'.ref # Absent => Resolves(ckpt.ref)'
                      /\ \A q \in Procs : /\ proc'[q].recovery # Absent => Resolves(proc[q].recovery)'
                                          /\ proc'[q].latest # Absent => Resolves(proc[q].latest)'
    BY DEF ReferencesResolve
  <2>2. ckpt'.ref # Absent => Resolves(ckpt.ref)'
    BY <2>1, <1>0 DEF LineInv, ReferencesResolve, Resolves
  <2>3. ASSUME NEW q \in Procs
        PROVE  proc'[q].recovery # Absent => Resolves(proc[q].recovery)'
    BY <2>1, <1>0, <1>8, <1>9 DEF LineInv, ReferencesResolve, Resolves
  <2>4. ASSUME NEW q \in Procs
        PROVE  proc'[q].latest # Absent => Resolves(proc[q].latest)'
    <3>1. CASE q = p
      BY <3>1, <1>8, <1>6, <1>3 DEF Resolves
    <3>2. CASE q # p
      BY <3>2, <2>1, <1>0, <1>9 DEF LineInv, ReferencesResolve, Resolves
    <3> QED BY <3>1, <3>2
  <2> QED BY <2>2, <2>3, <2>4
<1>16. AnswerFollowsQuestion'
  <2> SUFFICES ASSUME NEW r \in Revisions', versions'[r].stamp[2] = "answered", r - 1 \in Revisions'
               PROVE  versions'[r - 1].stamp = <<versions'[r].stamp[1], "prepared">>
    BY DEF AnswerFollowsQuestion
  <2>1. r # rev
    <3>1. <<mine.n, "prepared">>[2] = "prepared"
      OBVIOUS
    <3> QED BY <3>1, <1>3, <1>2
  <2>2. r \in Revisions /\ r - 1 \in Revisions
    BY <2>1, <1>3 DEF LineInv, LineShaped
  <2> QED BY <2>2, <1>3 DEF LineInv, AnswerFollowsQuestion
<1> QED BY <1>11, <1>12, <1>13, <1>14, <1>15, <1>16 DEF LineInv

\* The answer is saved directly after the snapshot the model was asked with.
LEMMA RecordKeeps ==
  ASSUME LineInv, NEW p \in Procs, Record(p)
  PROVE  LineInv'
<1> DEFINE mine == proc[p].call
           rev == mine.rev + 1
           snap(output) == [mine.snap EXCEPT
                             !.stamp = <<mine.n, "answered">>,
                             !.items = Release(@) \o output,
                             !.entered = @ \cup {it.id : it \in {x \in ToSet(output) : x.kind # "state"}}]
<1>0. /\ mine.at = "prepared" /\ mine.rev = latest
      /\ ckpt' = ckpt /\ expiries' = expiries /\ managed' = managed
  BY DEF Record, CanSave
<1>1. PICK output \in Outputs(mine.n, mine.snap.model) :
        /\ SaveVersion(rev, snap(output))
        /\ proc' = [proc EXCEPT ![p] =
             [proc[p] EXCEPT !.latest = Ref(rev, snap(output)), !.open = OpenCalls(output),
                             !.owed = Absent, !.call = Quiet]]
  BY DEF Record
<1>2. /\ mine.rev \in Revisions /\ versions[mine.rev].stamp = <<mine.n, "prepared">>
      /\ "stamp" \in DOMAIN mine.snap
  BY <1>0 DEF LineInv, AskedFromStore
<1> DEFINE answer == snap(output)
           noted == Ref(rev, answer)
           opened == OpenCalls(output)
<1>3. answer.stamp = <<mine.n, "answered">>
  BY <1>2
<1>4. proc' = [proc EXCEPT ![p] = [proc[p] EXCEPT !.latest = noted, !.open = opened,
                                                !.owed = Absent, !.call = Quiet]]
  BY <1>1
<1>5. noted.revision = rev /\ noted.checksum = answer.stamp
  BY DEF Ref
<1>6. SaveVersion(rev, answer)
  BY <1>1
<1> HIDE DEF answer, noted, opened
<1>7. /\ rev = latest + 1 /\ Revisions' = Revisions \cup {rev} /\ rev \notin Revisions
      /\ \A r \in Revisions : versions'[r] = versions[r]
      /\ versions'[rev] = answer
      /\ latest' = rev /\ latest' \in Nat /\ Revisions' \subseteq 1..latest'
  BY <1>0, <1>6, VersionAdded DEF LineInv
<1>8. DOMAIN proc = Procs /\ DOMAIN proc[p] = ProcFields
  BY DEF LineInv, LineShaped
<1>9. /\ DOMAIN proc'[p] = ProcFields
      /\ proc'[p].call = Quiet /\ proc'[p].owed = Absent
      /\ proc'[p].recovery = proc[p].recovery /\ proc'[p].latest = noted
  BY <1>4, <1>8 DEF ProcFields
<1>10. DOMAIN proc' = Procs /\ \A q \in Procs \ {p} : proc'[q] = proc[q]
  BY <1>4, <1>8
<1>11. /\ proc[p].recovery = Absent /\ Quiet.at = "idle"
       /\ latest \in Nat
  BY <1>0 DEF LineInv, OwedFollowed, Quiet, LineShaped
<1> HIDE DEF rev
<1>12. LineShaped'
  BY <1>0, <1>7, <1>9, <1>10 DEF LineInv, LineShaped
<1>13. OwedFollowed'
  <2> SUFFICES ASSUME NEW q \in Procs
               PROVE  /\ proc'[q].call.at \in {"loaded", "prepared"} \/ proc'[q].call = Quiet
                      /\ proc'[q].call = Quiet => proc'[q].owed = proc'[q].recovery
                      /\ proc'[q].call.at \in {"loaded", "prepared"} =>
                           proc'[q].recovery = Absent /\ proc'[q].call.n \in Nat
                      /\ proc'[q].call.at = "prepared" => proc'[q].latest # Absent
                      /\ proc'[q].call.at = "loaded" /\ proc'[q].owed # Absent =>
                           \E base \in proc'[q].call.existing : base.stamp = proc'[q].owed.checksum
    BY DEF OwedFollowed, Quiet
  <2>1. CASE q = p
    BY <2>1, <1>9, <1>11
  <2>2. CASE q # p
    BY <2>2, <1>10 DEF LineInv, OwedFollowed
  <2> QED BY <2>1, <2>2
<1>14. AskedFromStore'
  <2> SUFFICES ASSUME NEW q \in Procs, proc'[q].call.at = "prepared"
               PROVE  /\ proc'[q].call.rev \in Revisions'
                      /\ versions'[proc'[q].call.rev].stamp = <<proc'[q].call.n, "prepared">>
                      /\ "stamp" \in DOMAIN proc'[q].call.snap
    BY DEF AskedFromStore
  <2>1. q # p
    BY <1>9, <1>11
  <2> QED BY <2>1, <1>10, <1>7 DEF LineInv, AskedFromStore
<1>15. ContinuesCheckpoint'
  <2> SUFFICES ASSUME NEW q \in Procs, proc'[q].call.at = "prepared", proc'[q].owed # Absent
               PROVE  \E base \in proc'[q].call.base : base.stamp = proc'[q].owed.checksum
    BY DEF ContinuesCheckpoint
  <2>1. q # p
    BY <1>9, <1>11
  <2> QED BY <2>1, <1>10 DEF LineInv, ContinuesCheckpoint
<1>16. ReferencesResolve'
  <2>1. ASSUME NEW ref, Resolves(ref)
        PROVE  ref.revision \in Revisions' /\ versions'[ref.revision].stamp = ref.checksum
    BY <2>1, <1>7 DEF Resolves
  <2> SUFFICES ASSUME expiries' = 0
               PROVE  /\ ckpt'.ref # Absent => Resolves(ckpt.ref)'
                      /\ \A q \in Procs : /\ proc'[q].recovery # Absent => Resolves(proc[q].recovery)'
                                          /\ proc'[q].latest # Absent => Resolves(proc[q].latest)'
    BY DEF ReferencesResolve
  <2>2. ckpt'.ref # Absent => Resolves(ckpt.ref)'
    BY <2>1, <1>0 DEF LineInv, ReferencesResolve, Resolves
  <2>3. ASSUME NEW q \in Procs
        PROVE  proc'[q].recovery # Absent => Resolves(proc[q].recovery)'
    BY <2>1, <1>0, <1>9, <1>10 DEF LineInv, ReferencesResolve, Resolves
  <2>4. ASSUME NEW q \in Procs
        PROVE  proc'[q].latest # Absent => Resolves(proc[q].latest)'
    <3>1. CASE q = p
      BY <3>1, <1>9, <1>5, <1>7 DEF Resolves
    <3>2. CASE q # p
      BY <3>2, <2>1, <1>0, <1>10 DEF LineInv, ReferencesResolve, Resolves
    <3> QED BY <3>1, <3>2
  <2> QED BY <2>2, <2>3, <2>4
<1>17. AnswerFollowsQuestion'
  <2> SUFFICES ASSUME NEW r \in Revisions', versions'[r].stamp[2] = "answered", r - 1 \in Revisions'
               PROVE  versions'[r - 1].stamp = <<versions'[r].stamp[1], "prepared">>
    BY DEF AnswerFollowsQuestion
  <2>1. CASE r = rev
    <3>1. r - 1 = latest /\ latest = mine.rev
      BY <2>1, <1>7, <1>0, <1>11
    <3>2. versions'[r - 1].stamp = <<mine.n, "prepared">>
      BY <3>1, <1>2, <1>7
    <3>3. versions'[r].stamp[1] = mine.n
      BY <2>1, <1>7, <1>3
    <3> QED BY <3>2, <3>3
  <2>2. CASE r # rev
    <3>1. r \in Revisions /\ r - 1 \in Revisions
      BY <2>2, <1>7 DEF LineInv, LineShaped
    <3> QED BY <3>1, <1>7 DEF LineInv, AnswerFollowsQuestion
  <2> QED BY <2>1, <2>2
<1> QED BY <1>12, <1>13, <1>14, <1>15, <1>16, <1>17 DEF LineInv

\* Redis lets the oldest version go, the pointer with the last one.
LEMMA ExpireKeeps ==
  ASSUME LineInv, Expire
  PROVE  LineInv'
<1> DEFINE oldest == Min(Revisions)
<1>1. /\ \A p \in Procs : proc[p].call = Quiet
      /\ Revisions # {}
      /\ versions' = [r \in Revisions \ {oldest} |-> versions[r]]
      /\ latest' = IF Revisions = {latest} THEN 0 ELSE latest
      /\ expiries' = expiries + 1 /\ proc' = proc /\ ckpt' = ckpt /\ managed' = managed
  BY DEF Expire
<1>2. Revisions = {latest} => oldest = latest
  BY DEF Min
<1> HIDE DEF oldest
<1>3. /\ Revisions' = Revisions \ {oldest}
      /\ \A r \in Revisions' : versions'[r] = versions[r]
  BY <1>1 DEF Revisions
<1>4. Quiet.at = "idle"
  BY DEF Quiet
<1>5. LineShaped'
  <2>1. latest' \in Nat /\ expiries' \in Nat
    BY <1>1 DEF LineInv, LineShaped
  <2>2. Revisions' \subseteq 1..latest'
    <3>1. CASE Revisions = {latest}
      BY <3>1, <1>2, <1>3
    <3>2. CASE Revisions # {latest}
      BY <3>2, <1>1, <1>3 DEF LineInv, LineShaped
    <3> QED BY <3>1, <3>2
  <2> QED BY <2>1, <2>2, <1>1 DEF LineInv, LineShaped
<1>6. OwedFollowed'
  BY <1>1, <1>4 DEF LineInv, OwedFollowed, Quiet
<1>7. AskedFromStore' /\ ContinuesCheckpoint'
  BY <1>1, <1>4 DEF AskedFromStore, ContinuesCheckpoint
<1>8. ReferencesResolve'
  BY <1>1 DEF LineInv, LineShaped, ReferencesResolve
<1>9. AnswerFollowsQuestion'
  BY <1>3 DEF LineInv, AnswerFollowsQuestion
<1> QED BY <1>5, <1>6, <1>7, <1>8, <1>9 DEF LineInv

LEMMA LineKept == LineInv /\ [Next]_vars => LineInv'
<1> SUFFICES ASSUME LineInv, [Next]_vars PROVE LineInv'
  OBVIOUS
<1>1. CASE Next
  BY <1>1, StartKeeps, DiesKeeps, LoadKeeps, SaveKeeps, RecordKeeps, FailsKeeps, CheckpointKeeps,
     ExpireKeeps DEF Next
<1>2. CASE UNCHANGED vars
  <2>1. UNCHANGED <<versions, latest, ckpt, proc, expiries, managed>>
    BY <1>2 DEF vars
  <2> QED BY <2>1 DEF LineInv, LineShaped, OwedFollowed, AskedFromStore, ReferencesResolve, Resolves,
                      AnswerFollowsQuestion, ContinuesCheckpoint, Revisions, Quiet
<1> QED BY <1>1, <1>2

\* A process whose checkpoint names no version took its reference over and
\* has not saved a version yet: it is preparing, or its call has failed.
LEMMA ReferenceDropped ==
  ASSUME LineInv, [Next]_vars, ckpt.ref # Absent, ckpt'.ref = Absent
  PROVE  \E p \in Procs :
           /\ proc[p].up /\ proc[p].known = ckpt.revision
           /\ proc[p].recovery = Absent /\ proc[p].latest = Absent
           /\ proc[p].call.at = "loaded" \/ (proc[p].call = Quiet /\ proc[p].owed = Absent)
<1>1. ckpt' # ckpt
  OBVIOUS
<1>2. PICK p \in Procs : Checkpoint(p)
  BY <1>1 DEF Next, vars, Expire, Start, Load, Save, SaveFails, Record, RecordFails, ProcessDies
<1>3. proc[p].up /\ proc[p].known = ckpt.revision /\ CurrentRef(p) = Absent
  BY <1>2 DEF Checkpoint
<1>4. proc[p].recovery = Absent /\ proc[p].latest = Absent
  BY <1>3 DEF CurrentRef
<1>5. proc[p].call.at = "loaded" \/ (proc[p].call = Quiet /\ proc[p].owed = Absent)
  BY <1>4 DEF LineInv, OwedFollowed, Quiet
<1> QED BY <1>3, <1>4, <1>5

\* record_response and restore keep the versions of a context a line: an
\* answer follows the snapshot it was given for, the first context after a
\* restart continues the version the checkpoint names, and as long as nothing
\* expires that version is there. A checkpoint written at any await of a call
\* (prepare_checkpoint) stops naming a version only in the hands of a process
\* that took one over and has none of its own yet. All this with any number
\* of processes, calls, heartbeats and restarts.
THEOREM VersionsKept == Spec => VersionsFollow
<1>1. Init => LineInv
  BY LineInit
<1>2. LineInv /\ [Next]_vars => LineInv'
  BY LineKept
<1>3. LineInv => AnswerFollowsQuestion /\ ContinuesCheckpoint /\ CheckpointResolves
  BY LineImplies
<1>4. LineInv /\ [Next]_vars =>
        [ckpt.ref # Absent /\ ckpt'.ref = Absent =>
           \E p \in Procs :
             /\ proc[p].up /\ proc[p].known = ckpt.revision
             /\ proc[p].recovery = Absent /\ proc[p].latest = Absent
             /\ proc[p].call.at = "loaded" \/ (proc[p].call = Quiet /\ proc[p].owed = Absent)]_vars
  BY ReferenceDropped
<1> QED BY <1>1, <1>2, <1>3, <1>4, PTL DEF Spec, VersionsFollow, ReferenceKept

-----------------------------------------------------------------------------
(* The component registry                                                    *)

JobFields == {"stage", "todo", "own", "replace", "built"}

\* Components are numbered as they are created.
PartsShaped ==
  /\ created \in Nat
  /\ DOMAIN parts = PartNames
  /\ \A n \in PartNames : parts[n] # NoPart => parts[n] \in 1..created
  /\ DOMAIN job = Installers
  /\ \A i \in Installers :
       /\ DOMAIN job[i] = JobFields
       /\ DOMAIN job[i].built = PartNames
       /\ \A n \in PartNames : job[i].built[n] # NoPart => job[i].built[n] \in 1..created

\* Each component is created for one name of one installation.
MadeForOne ==
  \A i, j \in Installers : \A n, k \in PartNames :
    job[i].built[n] # NoPart /\ job[i].built[n] = job[j].built[k] => i = j

\* What an installation has created is not published before it is done.
HeldBack ==
  \A i \in Installers : job[i].stage \in {"making", "failed"} =>
    \A n, k \in PartNames : job[i].built[n] # NoPart => parts[k] # job[i].built[n]

PlugInv == PartsShaped /\ MadeForOne /\ HeldBack

\* An operation on the registry exchanges a component when it may.
Asked == \A n \in PartNames :
           parts[n] # NoPart /\ parts'[n] \notin {parts[n], NoPart} => overwrote'

LEMMA PlugImplies == PlugInv => FailedLeavesNothing
  BY DEF PlugInv, HeldBack, FailedLeavesNothing

LEMMA PlugStart == PlugInit => PlugInv
<1> SUFFICES ASSUME PlugInit PROVE PlugInv
  OBVIOUS
<1>1. \A i \in Installers : job[i] = NoJob
  BY DEF PlugInit
<1>2. /\ DOMAIN NoJob = JobFields
      /\ DOMAIN NoJob.built = PartNames
      /\ \A n \in PartNames : NoJob.built[n] = NoPart
  BY DEF NoJob, JobFields
<1> QED BY <1>1, <1>2 DEF PlugInit, PlugInv, PartsShaped, MadeForOne, HeldBack

\* The catalog says nothing about components.
LEMMA CatalogKeeps ==
  ASSUME PlugInv, UNCHANGED <<parts, job, created>>
  PROVE  PlugInv' /\ Asked
<1>1. PlugInv'
  BY DEF PlugInv, PartsShaped, MadeForOne, HeldBack
<1>2. Asked
  BY DEF Asked
<1> QED BY <1>1, <1>2

LEMMA RegisterKeeps ==
  ASSUME PlugInv, NEW n \in PartNames, NEW replace \in BOOLEAN, RegisterPart(n, replace)
  PROVE  PlugInv' /\ Asked
<1>1. /\ created' = created + 1 /\ job' = job /\ created \in Nat
      /\ parts' = [parts EXCEPT ![n] = created + 1]
      /\ parts[n] = NoPart \/ overwrote'
  BY DEF RegisterPart, PlugInv, PartsShaped
<1>2. DOMAIN parts = PartNames
  BY DEF PlugInv, PartsShaped
<1>3. \A k \in PartNames : parts'[k] = IF k = n THEN created + 1 ELSE parts[k]
  BY <1>1, <1>2
<1>4. PartsShaped'
  BY <1>1, <1>2, <1>3 DEF PlugInv, PartsShaped
<1>5. MadeForOne'
  BY <1>1 DEF PlugInv, MadeForOne
<1>6. HeldBack'
  BY <1>1, <1>3 DEF PlugInv, HeldBack, PartsShaped
<1>7. Asked
  BY <1>1, <1>3 DEF Asked
<1> QED BY <1>4, <1>5, <1>6, <1>7 DEF PlugInv

LEMMA UnregisterKeeps ==
  ASSUME PlugInv, NEW n \in PartNames, RemovePart(n)
  PROVE  PlugInv' /\ Asked
<1>1. created' = created /\ job' = job /\ parts' = [parts EXCEPT ![n] = NoPart]
  BY DEF RemovePart
<1>2. DOMAIN parts = PartNames
  BY DEF PlugInv, PartsShaped
<1>3. \A k \in PartNames : parts'[k] = IF k = n THEN NoPart ELSE parts[k]
  BY <1>1, <1>2
<1>4. PartsShaped'
  BY <1>1, <1>2, <1>3 DEF PlugInv, PartsShaped
<1>5. MadeForOne' /\ HeldBack'
  BY <1>1, <1>3 DEF PlugInv, MadeForOne, HeldBack
<1>6. Asked
  BY <1>3 DEF Asked
<1> QED BY <1>4, <1>5, <1>6 DEF PlugInv

\* An installation starts over with nothing created.
LEMMA BeginKeeps ==
  ASSUME PlugInv, NEW i \in Installers, UNCHANGED <<parts, created>>,
         DOMAIN job' = Installers, \A j \in Installers \ {i} : job'[j] = job[j],
         DOMAIN job'[i] = JobFields, job'[i].built = NoJob.built
  PROVE  PlugInv' /\ Asked
<1>1. DOMAIN NoJob.built = PartNames /\ \A n \in PartNames : NoJob.built[n] = NoPart
  BY DEF NoJob
<1>2. PartsShaped'
  BY <1>1 DEF PlugInv, PartsShaped
<1>3. MadeForOne' /\ HeldBack'
  BY <1>1 DEF PlugInv, MadeForOne, HeldBack
<1>4. Asked
  BY DEF Asked
<1> QED BY <1>2, <1>3, <1>4 DEF PlugInv

LEMMA InstallKeeps ==
  ASSUME PlugInv, NEW i \in Installers, NEW names, NEW replace \in BOOLEAN,
         BeginInstall(i, names, replace) \/ Discover(i, replace)
  PROVE  PlugInv' /\ Asked
<1>1. UNCHANGED <<parts, created>>
  BY DEF BeginInstall, Discover
<1>2. DOMAIN job = Installers
  BY DEF PlugInv, PartsShaped
<1>3. DOMAIN job'[i] = JobFields /\ job'[i].built = NoJob.built
  BY <1>2 DEF BeginInstall, Discover, NoJob, JobFields
<1>4. DOMAIN job' = Installers /\ \A j \in Installers \ {i} : job'[j] = job[j]
  BY <1>2 DEF BeginInstall, Discover
<1> QED BY <1>1, <1>3, <1>4, BeginKeeps

LEMMA CreateKeeps ==
  ASSUME PlugInv, NEW i \in Installers, NEW n \in PartNames, CreatePart(i, n)
  PROVE  PlugInv' /\ Asked
<1>1. parts' = parts /\ job[i].stage = "making" /\ created \in Nat
  BY DEF CreatePart, PlugInv, PartsShaped
<1>2. DOMAIN job = Installers /\ DOMAIN job[i] = JobFields /\ DOMAIN job[i].built = PartNames
  BY DEF PlugInv, PartsShaped
<1>3. Asked
  BY <1>1 DEF Asked
<1>4. CASE created' = created + 1
           /\ job' = [job EXCEPT ![i].todo = @ \ {n}, ![i].built[n] = created + 1]
  <2>1. /\ DOMAIN job' = Installers /\ \A j \in Installers \ {i} : job'[j] = job[j]
        /\ DOMAIN job'[i] = JobFields /\ job'[i].stage = "making"
        /\ job'[i].built = [job[i].built EXCEPT ![n] = created + 1]
    BY <1>1, <1>2, <1>4 DEF JobFields
  <2>2. /\ DOMAIN job'[i].built = PartNames
        /\ \A k \in PartNames : job'[i].built[k] = IF k = n THEN created + 1 ELSE job[i].built[k]
    BY <1>2, <2>1
  <2>3. PartsShaped'
    BY <1>1, <1>4, <2>1, <2>2 DEF PlugInv, PartsShaped
  <2>4. MadeForOne'
    <3> SUFFICES ASSUME NEW j \in Installers, NEW h \in Installers, NEW k \in PartNames,
                        NEW m \in PartNames, job'[j].built[k] # NoPart,
                        job'[j].built[k] = job'[h].built[m], j # h
                 PROVE  FALSE
      BY DEF MadeForOne
    <3>1. \A x \in Installers, y \in PartNames : job[x].built[y] # created + 1
      BY <1>1, PartAssumption DEF PlugInv, PartsShaped
    <3>2. CASE j = i
      BY <3>1, <3>2, <2>1, <2>2 DEF PlugInv, MadeForOne
    <3>3. CASE h = i
      BY <3>1, <3>3, <2>1, <2>2 DEF PlugInv, MadeForOne
    <3>4. CASE j # i /\ h # i
      BY <3>4, <2>1 DEF PlugInv, MadeForOne
    <3> QED BY <3>2, <3>3, <3>4
  <2>5. HeldBack'
    <3> SUFFICES ASSUME NEW j \in Installers, job'[j].stage \in {"making", "failed"},
                        NEW k \in PartNames, NEW m \in PartNames, job'[j].built[k] # NoPart
                 PROVE  parts[m] # job'[j].built[k]
      BY <1>1 DEF HeldBack
    <3>1. parts[m] # created + 1
      BY <1>1, PartAssumption DEF PlugInv, PartsShaped
    <3>2. CASE j = i
      BY <3>1, <3>2, <1>1, <2>2 DEF PlugInv, HeldBack
    <3>3. CASE j # i
      BY <3>3, <2>1 DEF PlugInv, HeldBack
    <3> QED BY <3>2, <3>3
  <2> QED BY <2>3, <2>4, <2>5, <1>3 DEF PlugInv
<1>5. CASE created' = created /\ job' = [job EXCEPT ![i].stage = "failed"]
  <2>1. /\ DOMAIN job' = Installers /\ \A j \in Installers \ {i} : job'[j] = job[j]
        /\ DOMAIN job'[i] = JobFields /\ job'[i].built = job[i].built
    BY <1>2, <1>5 DEF JobFields
  <2>2. \A j \in Installers : job'[j].built = job[j].built
    BY <2>1
  <2>3. PartsShaped'
    BY <1>1, <1>5, <2>1 DEF PlugInv, PartsShaped
  <2>4. MadeForOne'
    BY <2>2 DEF PlugInv, MadeForOne
  <2>5. HeldBack'
    BY <1>1, <2>1, <2>2 DEF PlugInv, HeldBack
  <2> QED BY <2>3, <2>4, <2>5, <1>3 DEF PlugInv
<1> QED BY <1>4, <1>5 DEF CreatePart

LEMMA PublishKeeps ==
  ASSUME PlugInv, NEW i \in Installers, PublishParts(i)
  PROVE  PlugInv' /\ Asked
<1>1. created' = created /\ job[i].stage = "making"
  BY DEF PublishParts
<1>2. DOMAIN job = Installers /\ DOMAIN job[i] = JobFields
  BY DEF PlugInv, PartsShaped
<1>3. ASSUME NEW stage, job' = [job EXCEPT ![i].stage = stage]
      PROVE  /\ DOMAIN job' = Installers
             /\ \A j \in Installers \ {i} : job'[j] = job[j]
             /\ \A j \in Installers : DOMAIN job'[j] = JobFields /\ job'[j].built = job[j].built
             /\ job'[i].stage = stage
  BY <1>2, <1>3 DEF JobFields, PlugInv, PartsShaped
<1>4. CASE /\ job[i].replace \/ Clashes(i) = {}
           /\ parts' = [n \in PartNames |->
                          IF job[i].built[n] # NoPart THEN job[i].built[n] ELSE parts[n]]
           /\ job' = [job EXCEPT ![i].stage = "done"]
           /\ overwrote' = job[i].replace
  <2>1. \A n \in PartNames :
          parts'[n] = IF job[i].built[n] # NoPart THEN job[i].built[n] ELSE parts[n]
    BY <1>4
  <2>2. /\ DOMAIN job' = Installers
        /\ \A j \in Installers \ {i} : job'[j] = job[j]
        /\ \A j \in Installers : DOMAIN job'[j] = JobFields /\ job'[j].built = job[j].built
        /\ job'[i].stage = "done"
    BY <1>3, <1>4
  <2>3. PartsShaped'
    BY <1>1, <1>4, <2>1, <2>2 DEF PlugInv, PartsShaped
  <2>4. MadeForOne'
    BY <2>2 DEF PlugInv, MadeForOne
  <2>5. HeldBack'
    <3> SUFFICES ASSUME NEW j \in Installers, job'[j].stage \in {"making", "failed"},
                        NEW k \in PartNames, NEW m \in PartNames, job'[j].built[k] # NoPart
                 PROVE  parts'[m] # job'[j].built[k]
      BY DEF HeldBack
    <3>1. j # i /\ job'[j] = job[j]
      BY <2>2
    <3>2. parts[m] # job[j].built[k]
      BY <3>1 DEF PlugInv, HeldBack
    <3>3. job[j].built[k] # job[i].built[m]
      BY <3>1 DEF PlugInv, MadeForOne
    <3> QED BY <3>1, <3>2, <3>3, <2>1
  <2>6. Asked
    BY <1>4, <2>1 DEF Asked, Clashes
  <2> QED BY <2>3, <2>4, <2>5, <2>6 DEF PlugInv
<1>5. CASE job' = [job EXCEPT ![i].stage = "failed"] /\ UNCHANGED <<parts, overwrote>>
  <2>1. /\ DOMAIN job' = Installers
        /\ \A j \in Installers \ {i} : job'[j] = job[j]
        /\ \A j \in Installers : DOMAIN job'[j] = JobFields /\ job'[j].built = job[j].built
    BY <1>3, <1>5
  <2>2. PartsShaped'
    BY <1>1, <1>5, <2>1 DEF PlugInv, PartsShaped
  <2>3. MadeForOne'
    BY <2>1 DEF PlugInv, MadeForOne
  <2>4. HeldBack'
    BY <1>1, <1>5, <2>1 DEF PlugInv, HeldBack
  <2>5. Asked
    BY <1>5 DEF Asked
  <2> QED BY <2>2, <2>3, <2>4, <2>5 DEF PlugInv
<1> QED BY <1>4, <1>5 DEF PublishParts

LEMMA PlugStep == PlugInv /\ [PlugNext]_plugVars => PlugInv' /\ Asked
<1> SUFFICES ASSUME PlugInv, [PlugNext]_plugVars PROVE PlugInv' /\ Asked
  OBVIOUS
<1>1. CASE \E names \in SUBSET PartNames \ {{}}, r \in BOOLEAN : AddPlugin(names, r)
  BY <1>1, CatalogKeeps DEF AddPlugin
<1>2. CASE \E n \in PartNames : RemoveSpec(n)
  BY <1>2, CatalogKeeps DEF RemoveSpec
<1>3. CASE UNCHANGED plugVars
  BY <1>3, CatalogKeeps DEF plugVars
<1> QED BY <1>1, <1>2, <1>3, RegisterKeeps, UnregisterKeeps, InstallKeeps, CreateKeeps, PublishKeeps
           DEF PlugNext

\* ComponentRegistry.install and register: an installation that fails leaves
\* none of its components in the registry, and nothing is exchanged by an
\* operation that was not told to replace; for any number of threads and names.
THEOREM PluginsKept == PlugSpec => InstallAtomic
<1>1. PlugInit => PlugInv
  BY PlugStart
<1>2. PlugInv /\ [PlugNext]_plugVars => PlugInv'
  BY PlugStep
<1>3. PlugInv => FailedLeavesNothing
  BY PlugImplies
<1>4. PlugInv /\ [PlugNext]_plugVars =>
        [\A n \in PartNames :
           parts[n] # NoPart /\ parts'[n] \notin {parts[n], NoPart} => overwrote']_plugVars
  BY PlugStep DEF Asked
<1> QED BY <1>1, <1>2, <1>3, <1>4, PTL DEF PlugSpec, InstallAtomic, NoSilentReplacement

-----------------------------------------------------------------------------
(* The message bus                                                           *)

RequestMessages == [n : Nat, kind : {"request"}, corr : Corrs]
BusMessages == RequestMessages \cup [n : Nat, kind : {"event", "broadcast"}, corr : {"none"}]

\* Inboxes are bounded queues, and what is held has been asked.
InboxInv ==
  /\ sentCount \in 0..MaxSends
  /\ inbox \in [BusAgents -> [on : BOOLEAN, q : Seq(BusMessages)]]
  /\ log \in [BusAgents -> Seq(BusMessages)]
  /\ \A a \in BusAgents : Len(inbox[a].q) <= InboxSize
  /\ topic \subseteq Registered
  /\ held \subseteq RequestMessages

Asks == [corr : Corrs, state : {"waits", "set", "done", "timeout", "failed"}, answer : Nat]

\* A call that waits has no answer, and the table holds the calls under way.
AsksInv ==
  /\ asks \in Seq(Asks)
  /\ waiting \in [Corrs -> 0..Len(asks)]
  /\ OneCallPerCorrelation
  /\ \A n \in DOMAIN asks : asks[n].state = "waits" => asks[n].answer = 0

BusInv == InboxInv /\ AsksInv

\* What an agent has received and will receive grows at its end.
InboxGrows ==
  \A a \in BusAgents : inbox[a].on /\ inbox'[a].on
    => IsPrefix(log[a] \o inbox[a].q, log'[a] \o inbox'[a].q)

AnswerStands == \A n \in DOMAIN asks : asks[n].answer # 0 => asks'[n].answer = asks[n].answer

LEMMA PrefixOfItself ==
  ASSUME NEW S, NEW s \in Seq(S)
  PROVE  IsPrefix(s, s)
  BY LenProperties DEF IsPrefix

LEMMA PrefixOfAppended ==
  ASSUME NEW S, NEW s \in Seq(S), NEW m \in S
  PROVE  IsPrefix(s, Append(s, m))
<1>1. /\ Append(s, m) \in Seq(S) /\ Len(Append(s, m)) = Len(s) + 1 /\ Len(s) \in Nat
      /\ \A i \in 1..Len(s) : Append(s, m)[i] = s[i]
  BY AppendProperties, LenProperties
<1>2. \A i \in 1..Len(s) : s[i] \in S
  BY ElementOfSeq
<1> DEFINE longer == Append(s, m)
<1> HIDE DEF longer
<1>3. /\ Len(longer) = Len(s) + 1 /\ \A i \in 1..Len(s) : longer[i] = s[i] /\ longer[i] \in S
  BY <1>1, <1>2 DEF longer
<1>4. 1 \in Int /\ Len(s) \in Int /\ Len(s) - 1 + 1 = Len(s) /\ (1 <= Len(s) \/ Len(s) = 0)
  BY <1>1
<1>5. /\ SubSeq(longer, 1, Len(s)) \in Seq(S) /\ SubSeq(s, 1, Len(s)) = s
      /\ Len(SubSeq(longer, 1, Len(s))) = Len(s)
      /\ \A i \in 1..Len(s) : SubSeq(longer, 1, Len(s))[i] = longer[1 + i - 1]
  BY <1>3, <1>4, SubSeqProperties, SubSeqFull
<1> DEFINE start == SubSeq(longer, 1, Len(s))
<1> HIDE DEF start
<1>6. start \in Seq(S) /\ Len(start) = Len(s) /\ \A i \in 1..Len(s) : start[i] = longer[1 + i - 1]
  BY <1>5 DEF start
<1>7. \A i \in 1..Len(s) : start[i] = s[i]
  BY <1>1, <1>3, <1>6
<1>8. start = s
  BY <1>6, <1>7, SeqEqual
<1> QED BY <1>3, <1>5, <1>8, <1>1 DEF start, longer, IsPrefix

LEMMA ConcatThenAppend ==
  ASSUME NEW S, NEW s \in Seq(S), NEW t \in Seq(S), NEW m \in S
  PROVE  s \o Append(t, m) = Append(s \o t, m)
<1> DEFINE one == <<m>>
<1>1. one \in Seq(S)
  OBVIOUS
<1>2. Append(t, m) = t \o one /\ s \o t \in Seq(S)
  BY AppendIsConcat, ConcatProperties
<1>3. Append(s \o t, m) = (s \o t) \o one
  BY <1>2, AppendIsConcat
<1> HIDE DEF one
<1>4. (s \o t) \o one = s \o (t \o one)
  BY <1>1, ConcatAssociative
<1> QED BY <1>2, <1>3, <1>4

LEMMA AppendThenConcat ==
  ASSUME NEW S, NEW s \in Seq(S), NEW t \in Seq(S), NEW m \in S
  PROVE  Append(s, m) \o t = s \o (<<m>> \o t)
<1> DEFINE one == <<m>>
<1>1. one \in Seq(S) /\ Append(s, m) = s \o one
  BY AppendIsConcat
<1> HIDE DEF one
<1>2. (s \o one) \o t = s \o (one \o t)
  BY <1>1, ConcatAssociative
<1> QED BY <1>1, <1>2 DEF one

LEMMA AskShape ==
  ASSUME asks \in Seq(Asks)
  PROVE  /\ Len(asks) \in Nat /\ DOMAIN asks = 1..Len(asks)
         /\ \A n \in 1..Len(asks) :
              /\ asks[n] \in Asks /\ asks[n].corr \in Corrs
              /\ asks[n].state \in {"waits", "set", "done", "timeout", "failed"}
<1>1. Len(asks) \in Nat /\ DOMAIN asks = 1..Len(asks)
  BY LenProperties
<1>2. \A n \in 1..Len(asks) : asks[n] \in Asks
  BY ElementOfSeq
<1>3. \A a \in Asks : a.corr \in Corrs /\ a.state \in {"waits", "set", "done", "timeout", "failed"}
  BY DEF Asks
<1> QED BY <1>1, <1>2, <1>3

LEMMA BusStart == BusInit => BusInv
<1> SUFFICES ASSUME BusInit PROVE BusInv
  OBVIOUS
<1>1. <<>> \in Seq(BusMessages) /\ <<>> \in Seq(Asks) /\ Len(<<>>) = 0
  BY EmptySeq
<1>2. NoInbox \in [on : BOOLEAN, q : Seq(BusMessages)] /\ Len(NoInbox.q) = 0
  BY <1>1 DEF NoInbox
<1>3. InboxInv
  BY <1>1, <1>2, BusAssumption DEF BusInit, InboxInv
<1>4. AsksInv
  BY <1>1 DEF BusInit, AsksInv, OneCallPerCorrelation
<1> QED BY <1>3, <1>4 DEF BusInv

\* Nothing happens to the inboxes.
LEMMA InboxesAlone ==
  ASSUME InboxInv, UNCHANGED <<inbox, log, topic, sentCount>>, held' \subseteq RequestMessages
  PROVE  InboxInv' /\ InboxGrows
<1>1. InboxInv'
  BY DEF InboxInv, Registered
<1>2. \A a \in BusAgents : log[a] \o inbox[a].q \in Seq(BusMessages)
  <2> SUFFICES ASSUME NEW a \in BusAgents PROVE log[a] \o inbox[a].q \in Seq(BusMessages)
    OBVIOUS
  <2>1. log[a] \in Seq(BusMessages) /\ inbox[a].q \in Seq(BusMessages)
    BY DEF InboxInv
  <2> QED BY <2>1, ConcatProperties
<1>3. InboxGrows
  BY <1>2, PrefixOfItself DEF InboxGrows
<1> QED BY <1>1, <1>3

\* Registering and leaving: a new inbox is empty, and who is not registered has
\* no topic.
LEMMA MembersKept ==
  ASSUME InboxInv, NEW a \in BusAgents, JoinBus(a) \/ LeaveBus(a) \/ Subscribe(a) \/ Unsubscribe(a)
  PROVE  InboxInv' /\ InboxGrows
<1>0. /\ inbox \in [BusAgents -> [on : BOOLEAN, q : Seq(BusMessages)]]
      /\ log \in [BusAgents -> Seq(BusMessages)]
      /\ topic \subseteq Registered /\ held \subseteq RequestMessages
      /\ \A b \in BusAgents : Len(inbox[b].q) <= InboxSize
  BY DEF InboxInv
<1>1. \A b \in BusAgents : IsPrefix(log[b] \o inbox[b].q, log[b] \o inbox[b].q)
  <2> SUFFICES ASSUME NEW b \in BusAgents PROVE IsPrefix(log[b] \o inbox[b].q, log[b] \o inbox[b].q)
    OBVIOUS
  <2>1. log[b] \in Seq(BusMessages) /\ inbox[b].q \in Seq(BusMessages)
    BY <1>0
  <2> QED BY <2>1, ConcatProperties, PrefixOfItself
<1>2. CASE JoinBus(a)
  <2>1. /\ ~inbox[a].on /\ inbox' = [inbox EXCEPT ![a].on = TRUE] /\ log' = [log EXCEPT ![a] = <<>>]
        /\ UNCHANGED <<topic, sentCount, held>>
    BY <1>2 DEF JoinBus
  <2>2. /\ inbox'[a].on = TRUE /\ inbox'[a].q = inbox[a].q
        /\ \A b \in BusAgents \ {a} : inbox'[b] = inbox[b] /\ log'[b] = log[b]
        /\ inbox' \in [BusAgents -> [on : BOOLEAN, q : Seq(BusMessages)]]
    BY <1>0, <2>1
  <2>3. log' \in [BusAgents -> Seq(BusMessages)]
    BY <1>0, <2>1, EmptySeq
  <2>4. topic' \subseteq Registered'
    BY <1>0, <2>1, <2>2 DEF Registered
  <2>5. InboxInv'
    BY <1>0, <2>1, <2>2, <2>3, <2>4 DEF InboxInv
  <2>6. InboxGrows
    BY <1>1, <2>1, <2>2 DEF InboxGrows
  <2> QED BY <2>5, <2>6
<1>3. CASE LeaveBus(a)
  <2>1. /\ inbox' = [inbox EXCEPT ![a] = NoInbox] /\ topic' = topic \ {a}
        /\ UNCHANGED <<log, sentCount, held>>
    BY <1>3 DEF LeaveBus
  <2>2. /\ NoInbox \in [on : BOOLEAN, q : Seq(BusMessages)] /\ Len(NoInbox.q) = 0 /\ ~NoInbox.on
    BY EmptySeq DEF NoInbox
  <2>3. /\ inbox'[a] = NoInbox
        /\ \A b \in BusAgents \ {a} : inbox'[b] = inbox[b]
        /\ inbox' \in [BusAgents -> [on : BOOLEAN, q : Seq(BusMessages)]]
    BY <1>0, <2>1, <2>2
  <2>4. topic' \subseteq Registered'
    BY <1>0, <2>1, <2>3 DEF Registered
  <2>5. InboxInv'
    BY <1>0, <2>1, <2>2, <2>3, <2>4, BusAssumption DEF InboxInv
  <2>6. InboxGrows
    BY <1>1, <2>1, <2>2, <2>3 DEF InboxGrows
  <2> QED BY <2>5, <2>6
<1>4. CASE Subscribe(a) \/ Unsubscribe(a)
  <2>1. UNCHANGED <<inbox, log, sentCount, held>> /\ topic' \subseteq Registered
    BY <1>0, <1>4 DEF Subscribe, Unsubscribe, Registered
  <2> QED BY <1>0, <1>1, <2>1 DEF InboxInv, InboxGrows, Registered
<1> QED BY <1>2, <1>3, <1>4

\* A message goes to the end of inboxes that have room for it.
LEMMA DeliveryKept ==
  ASSUME InboxInv, NEW to \in SUBSET BusAgents, NEW m \in BusMessages,
         \A a \in to : ~Full(a), sentCount < MaxSends, sentCount' = sentCount + 1,
         inbox' = Delivered(to, m), UNCHANGED <<topic, log, held>>
  PROVE  InboxInv' /\ InboxGrows
<1>0. /\ inbox \in [BusAgents -> [on : BOOLEAN, q : Seq(BusMessages)]]
      /\ log \in [BusAgents -> Seq(BusMessages)]
      /\ topic \subseteq Registered /\ held \subseteq RequestMessages
      /\ \A b \in BusAgents : Len(inbox[b].q) <= InboxSize
      /\ sentCount \in 0..MaxSends /\ InboxSize \in Nat /\ MaxSends \in Nat
  BY BusAssumption DEF InboxInv
<1>1. ASSUME NEW a \in BusAgents
      PROVE  /\ inbox'[a] \in [on : BOOLEAN, q : Seq(BusMessages)] /\ inbox'[a].on = inbox[a].on
             /\ Len(inbox'[a].q) <= InboxSize
             /\ IsPrefix(log[a] \o inbox[a].q, log[a] \o inbox'[a].q)
  <2>0. /\ log[a] \in Seq(BusMessages) /\ inbox[a].q \in Seq(BusMessages)
        /\ inbox[a] \in [on : BOOLEAN, q : Seq(BusMessages)]
        /\ Len(inbox[a].q) \in Nat /\ Len(inbox[a].q) <= InboxSize
    BY <1>0, LenProperties
  <2>00. log[a] \o inbox[a].q \in Seq(BusMessages)
    BY <2>0, ConcatProperties
  <2>1. CASE a \in to
    <3>1. inbox'[a] = [inbox[a] EXCEPT !.q = Append(inbox[a].q, m)]
      BY <2>1 DEF Delivered
    <3>2. /\ Append(inbox[a].q, m) \in Seq(BusMessages)
          /\ Len(Append(inbox[a].q, m)) = Len(inbox[a].q) + 1
      BY <2>0, AppendProperties
    <3>3. /\ inbox'[a] \in [on : BOOLEAN, q : Seq(BusMessages)] /\ inbox'[a].on = inbox[a].on
          /\ inbox'[a].q = Append(inbox[a].q, m)
      BY <2>0, <3>1, <3>2
    <3>4. Len(inbox'[a].q) <= InboxSize
      BY <1>0, <2>0, <2>1, <3>2, <3>3 DEF Full
    <3> DEFINE old == log[a]
               queue == inbox[a].q
    <3>a. old \in Seq(BusMessages) /\ queue \in Seq(BusMessages) /\ old \o queue \in Seq(BusMessages)
      BY <2>0, <2>00
    <3> HIDE DEF old, queue
    <3>5. old \o Append(queue, m) = Append(old \o queue, m)
      BY <3>a, ConcatThenAppend
    <3>b. IsPrefix(old \o queue, Append(old \o queue, m))
      BY <3>a, PrefixOfAppended
    <3>6. IsPrefix(old \o queue, old \o Append(queue, m))
      BY <3>5, <3>b
    <3> USE DEF old, queue
    <3> QED BY <3>3, <3>4, <3>6
  <2>2. CASE a \notin to
    <3>1. inbox'[a] = inbox[a]
      BY <2>2 DEF Delivered
    <3> QED BY <2>0, <2>00, <3>1, PrefixOfItself
  <2> QED BY <2>1, <2>2
<1>2. inbox' \in [BusAgents -> [on : BOOLEAN, q : Seq(BusMessages)]]
  <2>1. DOMAIN inbox' = BusAgents /\ inbox' = [a \in BusAgents |-> inbox'[a]]
    BY DEF Delivered
  <2> QED BY <2>1, <1>1
<1>3. topic' \subseteq Registered'
  BY <1>0, <1>1 DEF Registered
<1>4. InboxInv'
  BY <1>0, <1>1, <1>2, <1>3 DEF InboxInv
<1>5. InboxGrows
  BY <1>1 DEF InboxGrows
<1> QED BY <1>4, <1>5

\* receive moves the first message to what has been received.
LEMMA ReceiveKept ==
  ASSUME InboxInv, NEW a \in BusAgents, Receive(a)
  PROVE  InboxInv' /\ InboxGrows
<1> DEFINE m == Head(inbox[a].q)
<1>0. /\ inbox \in [BusAgents -> [on : BOOLEAN, q : Seq(BusMessages)]]
      /\ log \in [BusAgents -> Seq(BusMessages)]
      /\ topic \subseteq Registered /\ held \subseteq RequestMessages
      /\ \A b \in BusAgents : Len(inbox[b].q) <= InboxSize
      /\ sentCount \in 0..MaxSends /\ InboxSize \in Nat
  BY BusAssumption DEF InboxInv
<1>1. /\ inbox[a].q # <<>> /\ inbox' = [inbox EXCEPT ![a].q = Tail(inbox[a].q)]
      /\ log' = [log EXCEPT ![a] = Append(log[a], m)]
      /\ held' = IF m.kind = "request" THEN held \cup {m} ELSE held
      /\ UNCHANGED <<topic, sentCount>>
  BY DEF Receive
<1>2. /\ log[a] \in Seq(BusMessages) /\ inbox[a].q \in Seq(BusMessages)
  BY <1>0
<1>3. /\ m \in BusMessages /\ Tail(inbox[a].q) \in Seq(BusMessages)
      /\ Len(Tail(inbox[a].q)) = Len(inbox[a].q) - 1
  BY <1>1, <1>2, HeadTailProperties
<1>4. /\ Append(log[a], m) \in Seq(BusMessages) /\ Append(log[a], m) = log[a] \o <<m>>
  BY <1>2, <1>3, AppendProperties, AppendIsConcat
<1>5. inbox[a].q = <<m>> \o Tail(inbox[a].q)
  <2>1. Len(inbox[a].q) \in Nat /\ Len(inbox[a].q) >= 1
    BY <1>1, <1>2, EmptySeq, LenProperties
  <2>2. SubSeq(inbox[a].q, 1, Len(inbox[a].q))
          = <<inbox[a].q[1]>> \o SubSeq(inbox[a].q, 1 + 1, Len(inbox[a].q))
    BY <1>2, <2>1, SubSeqRecursiveFirst
  <2>3. SubSeq(inbox[a].q, 1, Len(inbox[a].q)) = inbox[a].q
    BY <1>2, SubSeqFull
  <2>4. Tail(inbox[a].q) = SubSeq(inbox[a].q, 2, Len(inbox[a].q))
    BY <1>1, <1>2, TailIsSubSeq
  <2>5. Head(inbox[a].q) = inbox[a].q[1] /\ 1 + 1 = 2
    BY <1>1, <1>2
  <2> QED BY <2>2, <2>3, <2>4, <2>5
<1> DEFINE before == log[a] \o inbox[a].q
           received == Append(log[a], m)
           rest == Tail(inbox[a].q)
<1>6. before = received \o rest /\ before \in Seq(BusMessages)
  <2>1. received \o rest = log[a] \o (<<m>> \o rest)
    <3> DEFINE old == log[a]
    <3>1. old \in Seq(BusMessages) /\ rest \in Seq(BusMessages) /\ m \in BusMessages
      BY <1>2, <1>3
    <3> HIDE DEF old, rest, m
    <3>2. Append(old, m) \o rest = old \o (<<m>> \o rest)
      BY <3>1, AppendThenConcat
    <3> QED BY <3>2 DEF old
  <2> QED BY <2>1, <1>2, <1>5, ConcatProperties
<1> HIDE DEF m, before, received, rest
<1>7. /\ inbox' = [inbox EXCEPT ![a].q = rest] /\ log' = [log EXCEPT ![a] = received]
      /\ received \in Seq(BusMessages) /\ rest \in Seq(BusMessages)
  BY <1>1, <1>3, <1>4 DEF received, rest
<1>8. /\ inbox'[a].q = rest /\ inbox'[a].on = inbox[a].on /\ log'[a] = received
      /\ \A b \in BusAgents \ {a} : inbox'[b] = inbox[b] /\ log'[b] = log[b]
      /\ inbox' \in [BusAgents -> [on : BOOLEAN, q : Seq(BusMessages)]]
      /\ log' \in [BusAgents -> Seq(BusMessages)]
  BY <1>0, <1>7
<1>9. Len(rest) <= InboxSize
  <2>1. Len(inbox[a].q) \in Nat /\ Len(inbox[a].q) <= InboxSize
    BY <1>0, <1>2, LenProperties
  <2> QED BY <2>1, <1>0, <1>3 DEF rest
<1>10. held' \subseteq RequestMessages
  BY <1>0, <1>1, <1>3 DEF BusMessages, RequestMessages
<1>11. topic' \subseteq Registered'
  BY <1>0, <1>1, <1>8 DEF Registered
<1>12. InboxInv'
  BY <1>0, <1>1, <1>8, <1>9, <1>10, <1>11 DEF InboxInv
<1>13. InboxGrows
  <2> SUFFICES ASSUME NEW b \in BusAgents
               PROVE  IsPrefix(log[b] \o inbox[b].q, log'[b] \o inbox'[b].q)
    BY DEF InboxGrows
  <2>1. CASE b = a
    BY <2>1, <1>6, <1>8, PrefixOfItself DEF before
  <2>2. CASE b # a
    <3>1. log[b] \in Seq(BusMessages) /\ inbox[b].q \in Seq(BusMessages)
      BY <1>0
    <3> QED BY <2>2, <3>1, <1>8, ConcatProperties, PrefixOfItself
  <2> QED BY <2>1, <2>2
<1> QED BY <1>12, <1>13

\* A request takes a free correlation id and gets the next number.
LEMMA AskKept ==
  ASSUME AsksInv, NEW c \in Corrs, NEW ok \in BOOLEAN, waiting[c] = 0,
         asks' = Append(asks, [corr |-> c, state |-> IF ok THEN "waits" ELSE "failed", answer |-> 0]),
         waiting' = [waiting EXCEPT ![c] = IF ok THEN Len(asks) + 1 ELSE 0]
  PROVE  AsksInv' /\ AnswerStands
<1> DEFINE new == [corr |-> c, state |-> IF ok THEN "waits" ELSE "failed", answer |-> 0]
<1>1. /\ asks \in Seq(Asks) /\ Len(asks) \in Nat /\ DOMAIN asks = 1..Len(asks)
      /\ waiting \in [Corrs -> 0..Len(asks)]
  BY LenProperties DEF AsksInv
<1>2. /\ new \in Asks /\ new.corr = c /\ new.answer = 0
      /\ new.state \in {"waits", "set"} <=> ok
  BY DEF Asks
<1> HIDE DEF new
<1>3. asks' = Append(asks, new)
  BY DEF new
<1>4. /\ asks' \in Seq(Asks) /\ Len(asks') = Len(asks) + 1 /\ DOMAIN asks' = 1..(Len(asks) + 1)
      /\ \A n \in 1..Len(asks) : asks'[n] = asks[n]
      /\ asks'[Len(asks) + 1] = new
  BY <1>1, <1>2, <1>3, AppendProperties, LenProperties
<1>5. /\ waiting'[c] = IF ok THEN Len(asks) + 1 ELSE 0
      /\ \A d \in Corrs \ {c} : waiting'[d] = waiting[d]
      /\ waiting' \in [Corrs -> 0..(Len(asks) + 1)]
  BY <1>1
<1>6. \A n \in 1..Len(asks) : asks[n] \in Asks /\ asks[n].corr \in Corrs
  BY <1>1, AskShape
<1>7. OneCallPerCorrelation'
  <2> SUFFICES ASSUME NEW n \in DOMAIN asks'
               PROVE  asks'[n].state \in {"waits", "set"} <=> waiting'[asks'[n].corr] = n
    BY DEF OneCallPerCorrelation
  <2>1. CASE n = Len(asks) + 1
    BY <2>1, <1>1, <1>2, <1>4, <1>5
  <2>2. CASE n \in 1..Len(asks)
    <3>1. asks'[n] = asks[n] /\ asks[n].corr \in Corrs /\ n \in DOMAIN asks
      BY <2>2, <1>1, <1>4, <1>6
    <3>2. asks[n].state \in {"waits", "set"} <=> waiting[asks[n].corr] = n
      BY <3>1 DEF AsksInv, OneCallPerCorrelation
    <3>3. CASE asks[n].corr = c
      BY <3>1, <3>2, <3>3, <2>2, <1>1, <1>5
    <3>4. CASE asks[n].corr # c
      BY <3>1, <3>2, <3>4, <1>5
    <3> QED BY <3>3, <3>4
  <2> QED BY <2>1, <2>2, <1>1, <1>4
<1>8. \A n \in DOMAIN asks' : asks'[n].state = "waits" => asks'[n].answer = 0
  BY <1>1, <1>2, <1>4 DEF AsksInv
<1>9. AnswerStands
  BY <1>1, <1>4 DEF AnswerStands
<1> QED BY <1>1, <1>4, <1>5, <1>7, <1>8, <1>9 DEF AsksInv

\* A call that times out or returns gives its correlation id back.
LEMMA PopKept ==
  ASSUME AsksInv, NEW n \in DOMAIN asks, TimeOut(n) \/ Answered(n)
  PROVE  AsksInv' /\ AnswerStands
<1>1. PICK state \in {"timeout", "done"} :
        /\ asks[n].state \in {"waits", "set"}
        /\ asks' = [asks EXCEPT ![n].state = state]
        /\ waiting' = [waiting EXCEPT ![asks[n].corr] = 0]
  BY DEF TimeOut, Answered
<1>2. /\ asks \in Seq(Asks) /\ Len(asks) \in Nat /\ DOMAIN asks = 1..Len(asks)
      /\ waiting \in [Corrs -> 0..Len(asks)]
  BY LenProperties DEF AsksInv
<1>3. \A k \in 1..Len(asks) : asks[k] \in Asks /\ asks[k].corr \in Corrs
  BY <1>2, AskShape
<1> DEFINE ended == [asks[n] EXCEPT !.state = state]
<1>4. ended \in Asks /\ ended.corr = asks[n].corr /\ ended.answer = asks[n].answer /\ ended.state = state
  BY <1>2, <1>3 DEF Asks
<1>5. asks' = [asks EXCEPT ![n] = ended]
  BY <1>1, <1>2
<1> HIDE DEF ended
<1>6. /\ asks' \in Seq(Asks) /\ Len(asks') = Len(asks) /\ DOMAIN asks' = 1..Len(asks)
      /\ asks'[n] = ended /\ \A k \in (1..Len(asks)) \ {n} : asks'[k] = asks[k]
  BY <1>2, <1>4, <1>5, ExceptSeq, LenProperties
<1>7. /\ waiting'[asks[n].corr] = 0
      /\ \A d \in Corrs \ {asks[n].corr} : waiting'[d] = waiting[d]
      /\ waiting' \in [Corrs -> 0..Len(asks)]
  BY <1>1, <1>2, <1>3
<1>8. waiting[asks[n].corr] = n
  BY <1>1 DEF AsksInv, OneCallPerCorrelation
<1>9. OneCallPerCorrelation'
  <2> SUFFICES ASSUME NEW k \in 1..Len(asks)
               PROVE  asks'[k].state \in {"waits", "set"} <=> waiting'[asks'[k].corr] = k
    BY <1>6 DEF OneCallPerCorrelation
  <2>0. k # 0
    BY <1>2
  <2>1. CASE k = n
    <3>1. asks'[k].state \notin {"waits", "set"} /\ asks'[k].corr = asks[n].corr
      BY <2>1, <1>1, <1>4, <1>6
    <3>2. waiting'[asks'[k].corr] = 0
      BY <3>1, <1>7
    <3> QED BY <2>0, <3>1, <3>2
  <2>2. CASE k # n
    <3>1. asks'[k] = asks[k] /\ asks[k].corr \in Corrs /\ k \in DOMAIN asks
      BY <2>2, <1>2, <1>3, <1>6
    <3>2. asks[k].state \in {"waits", "set"} <=> waiting[asks[k].corr] = k
      BY <3>1 DEF AsksInv, OneCallPerCorrelation
    <3>3. CASE asks[k].corr = asks[n].corr
      BY <3>1, <3>2, <3>3, <2>0, <2>2, <1>7, <1>8
    <3>4. CASE asks[k].corr # asks[n].corr
      BY <3>1, <3>2, <3>4, <1>7
    <3> QED BY <3>3, <3>4
  <2> QED BY <2>1, <2>2
<1>10. \A k \in DOMAIN asks' : asks'[k].state = "waits" => asks'[k].answer = 0
  BY <1>2, <1>1, <1>4, <1>6 DEF AsksInv
<1>11. AnswerStands
  BY <1>2, <1>4, <1>6 DEF AnswerStands
<1> QED BY <1>6, <1>7, <1>9, <1>10, <1>11 DEF AsksInv

\* A response reaches a call whose future is open, or nobody.
LEMMA RespondKept ==
  ASSUME BusInv, NEW m \in held, NEW again \in BOOLEAN, Respond(m, again)
  PROVE  AsksInv' /\ AnswerStands
<1> DEFINE n == waiting[m.corr]
<1>1. /\ m.corr \in Corrs /\ m.n \in Nat /\ waiting' = waiting
      /\ asks' = IF OpenFuture(n) THEN [asks EXCEPT ![n].state = "set", ![n].answer = m.n] ELSE asks
  BY DEF Respond, BusInv, InboxInv, RequestMessages
<1>2. /\ asks \in Seq(Asks) /\ Len(asks) \in Nat /\ DOMAIN asks = 1..Len(asks)
      /\ waiting \in [Corrs -> 0..Len(asks)]
  BY LenProperties DEF BusInv, AsksInv
<1>3. CASE ~OpenFuture(n)
  <2>1. asks' = asks
    BY <1>1, <1>3
  <2> QED BY <2>1, <1>1 DEF BusInv, AsksInv, OneCallPerCorrelation, AnswerStands
<1>4. CASE OpenFuture(n)
  <2>1. n \in 1..Len(asks) /\ asks[n].state = "waits" /\ asks[n].answer = 0 /\ asks[n] \in Asks
    <3>1. n \in 1..Len(asks) /\ asks[n].state = "waits"
      BY <1>1, <1>2, <1>4 DEF OpenFuture
    <3> QED BY <3>1, <1>2, ElementOfSeq DEF BusInv, AsksInv
  <2> DEFINE replied == [asks[n] EXCEPT !.state = "set", !.answer = m.n]
  <2>2. replied \in Asks /\ replied.corr = asks[n].corr /\ replied.state = "set"
    BY <2>1, <1>1 DEF Asks
  <2> HIDE DEF n
  <2>3. asks' = [asks EXCEPT ![n] = replied]
    BY <1>1, <1>2, <1>4, <2>1
  <2> HIDE DEF replied
  <2>4. /\ asks' \in Seq(Asks) /\ Len(asks') = Len(asks) /\ DOMAIN asks' = 1..Len(asks)
        /\ asks'[n] = replied /\ \A k \in (1..Len(asks)) \ {n} : asks'[k] = asks[k]
    BY <1>2, <2>1, <2>2, <2>3, ExceptSeq, LenProperties
  <2>5. OneCallPerCorrelation'
    <3> SUFFICES ASSUME NEW k \in 1..Len(asks)
                 PROVE  asks'[k].state \in {"waits", "set"} <=> waiting'[asks'[k].corr] = k
      BY <2>4 DEF OneCallPerCorrelation
    <3>1. asks[k].state \in {"waits", "set"} <=> waiting[asks[k].corr] = k
      BY <1>2 DEF BusInv, AsksInv, OneCallPerCorrelation
    <3>2. CASE k = n
      BY <3>1, <3>2, <1>1, <2>1, <2>2, <2>4
    <3>3. CASE k # n
      BY <3>1, <3>3, <1>1, <2>4
    <3> QED BY <3>2, <3>3
  <2>6. \A k \in DOMAIN asks' : asks'[k].state = "waits" => asks'[k].answer = 0
    BY <1>2, <2>2, <2>4 DEF BusInv, AsksInv
  <2>7. AnswerStands
    BY <1>2, <2>1, <2>4 DEF AnswerStands
  <2>8. waiting' \in [Corrs -> 0..Len(asks')]
    BY <1>1, <1>2, <2>4
  <2> QED BY <2>4, <2>5, <2>6, <2>7, <2>8 DEF AsksInv
<1> QED BY <1>3, <1>4

LEMMA AsksAlone ==
  ASSUME AsksInv, UNCHANGED <<asks, waiting>>
  PROVE  AsksInv' /\ AnswerStands
  BY DEF AsksInv, OneCallPerCorrelation, AnswerStands

\* send_request: an unknown recipient or a full inbox ends the call at once.
LEMMA SendKept ==
  ASSUME BusInv, NEW to \in BusAgents, NEW c \in Corrs, SendRequest(to, c)
  PROVE  BusInv' /\ InboxGrows /\ AnswerStands
<1> DEFINE ok == inbox[to].on /\ ~Full(to)
<1>1. /\ sentCount < MaxSends /\ waiting[c] = 0 /\ sentCount' = sentCount + 1
      /\ asks' = Append(asks, [corr |-> c, state |-> IF ok THEN "waits" ELSE "failed", answer |-> 0])
      /\ waiting' = [waiting EXCEPT ![c] = IF ok THEN Len(asks) + 1 ELSE 0]
      /\ inbox' = IF ok THEN Delivered({to}, Message("request", c)) ELSE inbox
      /\ UNCHANGED <<topic, held, log>>
  BY DEF SendRequest, Unused
<1>2. ok \in BOOLEAN
  BY DEF Full, BusInv, InboxInv
<1>3. AsksInv' /\ AnswerStands
  <2> HIDE DEF ok
  <2> QED BY <1>1, <1>2, AskKept DEF BusInv
<1>4. Message("request", c) \in BusMessages
  BY DEF BusInv, InboxInv, Message, BusMessages, RequestMessages
<1>5. InboxInv' /\ InboxGrows
  <2>1. CASE ok
    <3>1. /\ InboxInv /\ {to} \in SUBSET BusAgents /\ \A a \in {to} : ~Full(a)
          /\ inbox' = Delivered({to}, Message("request", c))
      BY <2>1, <1>1 DEF BusInv
    <3> HIDE DEF ok
    <3> QED BY <3>1, <1>1, <1>4, DeliveryKept
  <2>2. CASE ~ok
    <3>1. InboxInv /\ inbox' = inbox
      BY <2>2, <1>1 DEF BusInv
    <3>2. inbox' = Delivered({}, Message("request", c))
      BY <3>1 DEF InboxInv, Delivered
    <3>3. {} \in SUBSET BusAgents /\ \A a \in {} : ~Full(a)
      OBVIOUS
    <3> HIDE DEF ok
    <3> QED BY <3>1, <3>2, <3>3, <1>1, <1>4, DeliveryKept
  <2> QED BY <2>1, <2>2
<1> QED BY <1>3, <1>5 DEF BusInv

\* publish_event and broadcast stop at the first inbox that is full.
LEMMA SpreadKept ==
  ASSUME BusInv, NEW to \in SUBSET BusAgents, NEW kind \in {"event", "broadcast"},
         Spread(to, Message(kind, "none"))
  PROVE  BusInv' /\ InboxGrows /\ AnswerStands
<1>1. /\ sentCount < MaxSends /\ sentCount' = sentCount + 1
      /\ inbox' = Delivered(Reached(to), Message(kind, "none"))
      /\ UNCHANGED <<topic, waiting, asks, held, log>>
  BY DEF Spread
<1>2. Message(kind, "none") \in BusMessages
  BY DEF BusInv, InboxInv, Message, BusMessages
<1>3. Reached(to) \in SUBSET BusAgents /\ \A a \in Reached(to) : ~Full(a)
  <2> SUFFICES ASSUME NEW a \in Reached(to) PROVE a \in BusAgents /\ ~Full(a)
    OBVIOUS
  <2>1. a \in to /\ \A b \in to : b <= a => ~Full(b)
    BY DEF Reached
  <2>2. a \in Nat /\ a \in BusAgents
    BY <2>1, BusAssumption
  <2>3. a <= a
    BY <2>2
  <2> QED BY <2>1, <2>2, <2>3
<1>4. InboxInv' /\ InboxGrows
  BY <1>1, <1>2, <1>3, DeliveryKept DEF BusInv
<1>5. AsksInv' /\ AnswerStands
  BY <1>1, AsksAlone DEF BusInv
<1> QED BY <1>4, <1>5 DEF BusInv

LEMMA BusStep == BusInv /\ [BusNext]_busVars => BusInv' /\ InboxGrows /\ AnswerStands
<1> SUFFICES ASSUME BusInv, [BusNext]_busVars PROVE BusInv' /\ InboxGrows /\ AnswerStands
  OBVIOUS
<1>0. InboxInv /\ AsksInv /\ held \subseteq RequestMessages
  BY DEF BusInv, InboxInv
<1>1. ASSUME NEW a \in BusAgents, JoinBus(a) \/ LeaveBus(a) \/ Subscribe(a) \/ Unsubscribe(a)
      PROVE  BusInv' /\ InboxGrows /\ AnswerStands
  <2>1. UNCHANGED <<asks, waiting>>
    BY <1>1 DEF JoinBus, LeaveBus, Subscribe, Unsubscribe
  <2> QED BY <1>0, <1>1, <2>1, MembersKept, AsksAlone DEF BusInv
<1>2. ASSUME NEW a \in BusAgents, Receive(a)
      PROVE  BusInv' /\ InboxGrows /\ AnswerStands
  <2>1. UNCHANGED <<asks, waiting>>
    BY <1>2 DEF Receive
  <2> QED BY <1>0, <1>2, <2>1, ReceiveKept, AsksAlone DEF BusInv
<1>3. ASSUME NEW a \in BusAgents, Broadcast(a)
      PROVE  BusInv' /\ InboxGrows /\ AnswerStands
  <2>1. Registered \ {a} \in SUBSET BusAgents
    BY DEF Registered
  <2> QED BY <1>3, <2>1, SpreadKept DEF Broadcast
<1>4. CASE PublishEvent
  <2>1. topic \cap Registered \in SUBSET BusAgents
    BY DEF Registered
  <2> QED BY <1>4, <2>1, SpreadKept DEF PublishEvent
<1>5. ASSUME NEW n \in DOMAIN asks, TimeOut(n) \/ Answered(n)
      PROVE  BusInv' /\ InboxGrows /\ AnswerStands
  <2>1. UNCHANGED <<inbox, log, topic, sentCount>> /\ held' = held
    BY <1>5 DEF TimeOut, Answered
  <2> QED BY <1>0, <1>5, <2>1, PopKept, InboxesAlone DEF BusInv
<1>6. ASSUME NEW m \in held, NEW again \in BOOLEAN, Respond(m, again)
      PROVE  BusInv' /\ InboxGrows /\ AnswerStands
  <2>1. UNCHANGED <<inbox, log, topic, sentCount>> /\ held' \subseteq RequestMessages
    BY <1>0, <1>6 DEF Respond
  <2> QED BY <1>0, <1>6, <2>1, RespondKept, InboxesAlone DEF BusInv
<1>7. CASE UNCHANGED busVars
  <2>1. UNCHANGED <<inbox, log, topic, sentCount>> /\ held' = held /\ UNCHANGED <<asks, waiting>>
    BY <1>7 DEF busVars
  <2> QED BY <1>0, <2>1, InboxesAlone, AsksAlone DEF BusInv
<1> QED BY <1>1, <1>2, <1>3, <1>4, <1>5, <1>6, <1>7, SendKept DEF BusNext

LEMMA BusImplies == BusInv => BusTypeOK /\ OneCallPerCorrelation
<1> SUFFICES ASSUME BusInv PROVE BusTypeOK /\ OneCallPerCorrelation
  OBVIOUS
<1>1. \A n \in DOMAIN asks : asks[n].state \in {"waits", "set", "done", "timeout", "failed"}
  BY AskShape DEF BusInv, AsksInv
<1> QED BY <1>1 DEF BusInv, InboxInv, AsksInv, BusTypeOK

\* AgentMessageBus: a call gets its own answer and only one, through timeouts
\* and retries with the same correlation id, and no message that an inbox has
\* taken is dropped or overtaken; with any number of agents and messages.
THEOREM BusKept == BusSpec => BusSound
<1>1. BusInit => BusInv
  BY BusStart
<1>2. BusInv /\ [BusNext]_busVars => BusInv'
  BY BusStep
<1>3. BusInv => BusTypeOK /\ OneCallPerCorrelation
  BY BusImplies
<1>4. BusInv /\ [BusNext]_busVars =>
        [\A n \in DOMAIN asks : asks[n].answer # 0 => asks'[n].answer = asks[n].answer]_busVars
  BY BusStep DEF AnswerStands
<1>5. BusInv /\ [BusNext]_busVars =>
        [\A a \in BusAgents : inbox[a].on /\ inbox'[a].on
           => IsPrefix(log[a] \o inbox[a].q, log'[a] \o inbox'[a].q)]_busVars
  BY BusStep DEF InboxGrows
<1> QED BY <1>1, <1>2, <1>3, <1>4, <1>5, PTL DEF BusSpec, BusSound, FirstAnswerStands, NothingDropped

-----------------------------------------------------------------------------
(* The export pipeline                                                       *)

\* The items in a sequence are in the order of their enqueue() calls, and all
\* items of one set were enqueued before those of another.
InOrder(s) ==
  \A i, j \in DOMAIN s : i < j /\ s[i] # Sentinel /\ s[j] # Sentinel => s[i] < s[j]
Before(S, T) == \A x \in S \ {Sentinel}, y \in T \ {Sentinel} : x < y

\* What the exporter has, what the worker holds and what is queued follow one
\* another; everything else that was enqueued was dropped.
InLine ==
  /\ sunk \in Seq(Nat) /\ batch \in Seq(Nat) /\ fifo \in Seq(Nat)
  /\ InOrder(sunk) /\ InOrder(batch) /\ InOrder(fifo)
  /\ Before(ToSet(sunk), ToSet(batch)) /\ Before(ToSet(sunk), ToSet(fifo))
  /\ Before(ToSet(batch), ToSet(fifo))
  /\ Sentinel \notin ToSet(sunk) /\ Sentinel \notin ToSet(batch)
  /\ calls \in 0..MaxCalls /\ dropped \subseteq 1..calls
  /\ ToSet(sunk) \cap dropped = {} /\ ToSet(batch) \cap dropped = {} /\ ToSet(fifo) \cap dropped = {}
  /\ ToSet(sunk) \cup ToSet(batch) \cup (ToSet(fifo) \ {Sentinel}) \cup dropped = 1..calls

Exporting == {"exporting", "lastExport"}
Leaving == {"last", "lastExport", "exited"}

\* task_done() is owed for what is queued and for what the worker holds; an
\* export is counted while it runs; the worker leaves, and shutdown() returns,
\* when nothing but a sentinel is or will be queued.
PipeInv ==
  /\ InLine
  /\ unfinished = Len(fifo) + Len(batch)
  /\ Len(fifo) <= QueueCap /\ Len(batch) <= FlushAt
  /\ worker \in {"get", "fill", "check", "export", "exporting", "last", "lastExport", "exited"}
  /\ worker \in {"get", "check"} => Len(batch) < FlushAt
  /\ active = IF worker \in Exporting THEN 1 ELSE 0
  /\ closer \in [Closers -> {"idle", "signalled", "joining", "flushing", "drained", "closing", "done"}]
  /\ closeState \in {"open", "closing", "closed"}
  /\ closeState = "closed" => active = 0
  /\ stop => closed
  /\ worker \in Leaving => closed /\ ToSet(fifo) \subseteq {Sentinel}
  /\ worker = "exited" => batch = <<>>
  /\ \A c \in Closers : closer[c] \in {"joining", "flushing", "drained", "signalled"} => closed
  /\ \A c \in Closers : closer[c] = "drained" => batch = <<>> /\ ToSet(fifo) \subseteq {Sentinel}

LEMMA SeqShape ==
  ASSUME NEW s \in Seq(Nat)
  PROVE  /\ Len(s) \in Nat /\ DOMAIN s = 1..Len(s) /\ ToSet(s) \subseteq Nat
         /\ \A i \in 1..Len(s) : s[i] \in Nat /\ s[i] \in ToSet(s)
         /\ s = <<>> <=> ToSet(s) = {}
         /\ s = <<>> <=> Len(s) = 0
<1>1. Len(s) \in Nat /\ DOMAIN s = 1..Len(s)
  BY LenProperties
<1>2. \A i \in 1..Len(s) : s[i] \in Nat /\ s[i] \in ToSet(s)
  BY <1>1, ElementOfSeq DEF ToSet
<1>3. ToSet(s) \subseteq Nat
  BY <1>1, <1>2 DEF ToSet
<1>4. s = <<>> <=> Len(s) = 0
  BY EmptySeq
<1>5. s = <<>> <=> ToSet(s) = {}
  <2>1. CASE Len(s) = 0
    <3>1. DOMAIN s = {}
      BY <1>1, <2>1
    <3> QED BY <3>1, <2>1, <1>4 DEF ToSet
  <2>2. CASE Len(s) # 0
    <3>1. 1 \in 1..Len(s)
      BY <1>1, <2>2
    <3> QED BY <3>1, <2>2, <1>2, <1>4
  <2> QED BY <2>1, <2>2
<1> QED BY <1>1, <1>2, <1>3, <1>4, <1>5

LEMMA NoItems == <<>> \in Seq(Nat) /\ ToSet(<<>>) = {} /\ Len(<<>>) = 0 /\ InOrder(<<>>)
<1>1. <<>> \in Seq(Nat) /\ Len(<<>>) = 0
  BY EmptySeq
<1>2. DOMAIN <<>> = 1..0
  BY <1>1, LenProperties
<1> QED BY <1>1, <1>2 DEF ToSet, InOrder

LEMMA ItemAdded ==
  ASSUME NEW s \in Seq(Nat), NEW x \in Nat
  PROVE  /\ Append(s, x) \in Seq(Nat) /\ ToSet(Append(s, x)) = ToSet(s) \cup {x}
         /\ Len(Append(s, x)) = Len(s) + 1
         /\ InOrder(s) /\ Before(ToSet(s), {x}) => InOrder(Append(s, x))
<1> DEFINE longer == Append(s, x)
<1>1. /\ longer \in Seq(Nat) /\ Len(longer) = Len(s) + 1 /\ longer[Len(s) + 1] = x
      /\ \A i \in 1..Len(s) : longer[i] = s[i]
  BY AppendProperties
<1> HIDE DEF longer
<1>2. /\ Len(s) \in Nat /\ DOMAIN s = 1..Len(s) /\ DOMAIN longer = 1..(Len(s) + 1)
      /\ \A i \in 1..Len(s) : s[i] \in Nat /\ s[i] \in ToSet(s)
  BY <1>1, SeqShape
<1>3. ToSet(longer) = ToSet(s) \cup {x}
  <2>1. ToSet(longer) \subseteq ToSet(s) \cup {x}
    <3> SUFFICES ASSUME NEW i \in 1..(Len(s) + 1) PROVE longer[i] \in ToSet(s) \cup {x}
      BY <1>2 DEF ToSet
    <3>1. i \in 1..Len(s) \/ i = Len(s) + 1
      BY <1>2
    <3> QED BY <3>1, <1>1, <1>2
  <2>2. ToSet(s) \subseteq ToSet(longer)
    <3> SUFFICES ASSUME NEW i \in 1..Len(s) PROVE s[i] \in ToSet(longer)
      BY <1>2 DEF ToSet
    <3>1. i \in DOMAIN longer /\ longer[i] = s[i]
      BY <1>1, <1>2
    <3> QED BY <3>1 DEF ToSet
  <2>3. x \in ToSet(longer)
    <3>1. Len(s) + 1 \in DOMAIN longer
      BY <1>2
    <3> QED BY <3>1, <1>1 DEF ToSet
  <2> QED BY <2>1, <2>2, <2>3
<1>4. ASSUME InOrder(s), Before(ToSet(s), {x}) PROVE InOrder(longer)
  <2> SUFFICES ASSUME NEW i \in 1..(Len(s) + 1), NEW j \in 1..(Len(s) + 1), i < j,
                      longer[i] # Sentinel, longer[j] # Sentinel
               PROVE  longer[i] < longer[j]
    BY <1>2 DEF InOrder
  <2>1. i \in 1..Len(s) /\ longer[i] = s[i] /\ s[i] \in ToSet(s)
    BY <1>1, <1>2
  <2>2. CASE j = Len(s) + 1
    BY <2>1, <2>2, <1>1, <1>4 DEF Before
  <2>3. CASE j \in 1..Len(s)
    BY <2>1, <2>3, <1>1, <1>2, <1>4 DEF InOrder
  <2> QED BY <2>2, <2>3, <1>2
<1> QED BY <1>1, <1>3, <1>4 DEF longer

LEMMA FirstTaken ==
  ASSUME NEW s \in Seq(Nat), s # <<>>
  PROVE  /\ Head(s) \in Nat /\ Tail(s) \in Seq(Nat) /\ Len(Tail(s)) = Len(s) - 1
         /\ ToSet(s) = {Head(s)} \cup ToSet(Tail(s))
         /\ InOrder(s) => InOrder(Tail(s)) /\ Before({Head(s)}, ToSet(Tail(s)))
<1> DEFINE rest == Tail(s)
           first == Head(s)
<1>1. /\ first \in Nat /\ rest \in Seq(Nat) /\ Len(rest) = Len(s) - 1
      /\ \A i \in 1..Len(rest) : rest[i] = s[i + 1]
  BY HeadTailProperties
<1>2. first = s[1]
  OBVIOUS
<1> HIDE DEF rest, first
<1>3. /\ Len(s) \in Nat \ {0} /\ DOMAIN s = 1..Len(s) /\ DOMAIN rest = 1..(Len(s) - 1)
      /\ \A i \in 1..Len(s) : s[i] \in Nat /\ s[i] \in ToSet(s)
  BY <1>1, SeqShape
<1>4. \A i \in 1..(Len(s) - 1) : rest[i] = s[i + 1] /\ i + 1 \in 1..Len(s)
  BY <1>1, <1>3
<1>5. ToSet(s) = {first} \cup ToSet(rest)
  <2>1. ToSet(s) \subseteq {first} \cup ToSet(rest)
    <3> SUFFICES ASSUME NEW i \in 1..Len(s) PROVE s[i] \in {first} \cup ToSet(rest)
      BY <1>3 DEF ToSet
    <3>1. CASE i = 1
      BY <3>1, <1>2
    <3>2. CASE i # 1
      <4>1. i - 1 \in 1..(Len(s) - 1) /\ (i - 1) + 1 = i
        BY <3>2, <1>3
      <4>2. rest[i - 1] = s[i] /\ i - 1 \in DOMAIN rest
        BY <4>1, <1>3, <1>4
      <4> QED BY <4>2 DEF ToSet
    <3> QED BY <3>1, <3>2
  <2>2. ToSet(rest) \subseteq ToSet(s)
    <3> SUFFICES ASSUME NEW i \in 1..(Len(s) - 1) PROVE rest[i] \in ToSet(s)
      BY <1>3 DEF ToSet
    <3> QED BY <1>3, <1>4
  <2>3. first \in ToSet(s)
    <3>1. 1 \in 1..Len(s)
      BY <1>3
    <3> QED BY <3>1, <1>2, <1>3
  <2> QED BY <2>1, <2>2, <2>3
<1>6. ASSUME InOrder(s) PROVE InOrder(rest)
  <2> SUFFICES ASSUME NEW i \in 1..(Len(s) - 1), NEW j \in 1..(Len(s) - 1), i < j,
                      rest[i] # Sentinel, rest[j] # Sentinel
               PROVE  rest[i] < rest[j]
    BY <1>3 DEF InOrder
  <2>1. i + 1 < j + 1
    BY <1>3
  <2> QED BY <2>1, <1>3, <1>4, <1>6 DEF InOrder
<1>7. ASSUME InOrder(s) PROVE Before({first}, ToSet(rest))
  <2> SUFFICES ASSUME NEW i \in 1..(Len(s) - 1), first # Sentinel, rest[i] # Sentinel
               PROVE  first < rest[i]
    BY <1>3 DEF Before, ToSet
  <2>1. 1 \in 1..Len(s) /\ 1 < i + 1 /\ i + 1 \in 1..Len(s) /\ rest[i] = s[i + 1]
    BY <1>3, <1>4
  <2> QED BY <2>1, <1>2, <1>3, <1>7 DEF InOrder
<1> QED BY <1>1, <1>5, <1>6, <1>7 DEF rest, first

LEMMA ItemsJoined ==
  ASSUME NEW s \in Seq(Nat), NEW t \in Seq(Nat)
  PROVE  /\ s \o t \in Seq(Nat) /\ ToSet(s \o t) = ToSet(s) \cup ToSet(t)
         /\ InOrder(s) /\ InOrder(t) /\ Before(ToSet(s), ToSet(t)) => InOrder(s \o t)
<1> DEFINE line == s \o t
<1>1. /\ line \in Seq(Nat) /\ Len(line) = Len(s) + Len(t)
      /\ \A i \in 1..Len(s) : line[i] = s[i]
      /\ \A j \in 1..Len(t) : line[Len(s) + j] = t[j]
  BY ConcatProperties
<1> HIDE DEF line
<1>2. /\ Len(s) \in Nat /\ DOMAIN s = 1..Len(s) /\ \A i \in 1..Len(s) : s[i] \in Nat /\ s[i] \in ToSet(s)
      /\ Len(t) \in Nat /\ DOMAIN t = 1..Len(t) /\ \A i \in 1..Len(t) : t[i] \in Nat /\ t[i] \in ToSet(t)
  BY SeqShape
<1>3. DOMAIN line = 1..(Len(s) + Len(t))
  BY <1>1, SeqShape
<1>4. ASSUME NEW i \in 1..(Len(s) + Len(t)), i \notin 1..Len(s)
      PROVE  i - Len(s) \in 1..Len(t) /\ line[i] = t[i - Len(s)]
  <2>1. i - Len(s) \in 1..Len(t) /\ Len(s) + (i - Len(s)) = i
    BY <1>2, <1>4
  <2> QED BY <2>1, <1>1
<1>5. ToSet(line) = ToSet(s) \cup ToSet(t)
  <2>1. ToSet(line) \subseteq ToSet(s) \cup ToSet(t)
    <3> SUFFICES ASSUME NEW i \in 1..(Len(s) + Len(t)) PROVE line[i] \in ToSet(s) \cup ToSet(t)
      BY <1>3 DEF ToSet
    <3>1. CASE i \in 1..Len(s)
      BY <3>1, <1>1, <1>2
    <3>2. CASE i \notin 1..Len(s)
      BY <3>2, <1>2, <1>4
    <3> QED BY <3>1, <3>2
  <2>2. ToSet(s) \subseteq ToSet(line)
    <3> SUFFICES ASSUME NEW i \in 1..Len(s) PROVE s[i] \in ToSet(line)
      BY <1>2 DEF ToSet
    <3>1. i \in DOMAIN line /\ line[i] = s[i]
      BY <1>1, <1>2, <1>3
    <3> QED BY <3>1 DEF ToSet
  <2>3. ToSet(t) \subseteq ToSet(line)
    <3> SUFFICES ASSUME NEW i \in 1..Len(t) PROVE t[i] \in ToSet(line)
      BY <1>2 DEF ToSet
    <3>1. Len(s) + i \in DOMAIN line /\ line[Len(s) + i] = t[i]
      BY <1>1, <1>2, <1>3
    <3> QED BY <3>1 DEF ToSet
  <2> QED BY <2>1, <2>2, <2>3
<1>6. ASSUME InOrder(s), InOrder(t), Before(ToSet(s), ToSet(t)) PROVE InOrder(line)
  <2> SUFFICES ASSUME NEW i \in 1..(Len(s) + Len(t)), NEW j \in 1..(Len(s) + Len(t)), i < j,
                      line[i] # Sentinel, line[j] # Sentinel
               PROVE  line[i] < line[j]
    BY <1>3 DEF InOrder
  <2>1. CASE i \in 1..Len(s) /\ j \in 1..Len(s)
    BY <2>1, <1>1, <1>2, <1>6 DEF InOrder
  <2>2. CASE i \in 1..Len(s) /\ j \notin 1..Len(s)
    BY <2>2, <1>1, <1>2, <1>4, <1>6 DEF Before
  <2>3. CASE i \notin 1..Len(s)
    <3>1. j \notin 1..Len(s) /\ i - Len(s) < j - Len(s)
      BY <2>3, <1>2
    <3> QED BY <2>3, <3>1, <1>2, <1>4, <1>6 DEF InOrder
  <2> QED BY <2>1, <2>2, <2>3
<1> QED BY <1>1, <1>5, <1>6 DEF line

LEMMA PipeStart == PipeInit => PipeInv
<1> SUFFICES ASSUME PipeInit PROVE PipeInv
  OBVIOUS
<1>1. InLine
  BY NoItems, PipelineAssumption DEF PipeInit, InLine, Before
<1> QED BY <1>1, NoItems, PipelineAssumption DEF PipeInit, PipeInv, Exporting, Leaving

\* An item that is taken was in front of everything that stays queued.
LEMMA TakenKept ==
  ASSUME InLine, fifo # <<>>, Head(fifo) # Sentinel, batch' = Append(batch, Head(fifo)),
         fifo' = Tail(fifo), UNCHANGED <<calls, sunk, dropped>>
  PROVE  /\ InLine' /\ Len(fifo') = Len(fifo) - 1 /\ Len(batch') = Len(batch) + 1
         /\ Head(fifo) \in ToSet(fifo) /\ ToSet(fifo') \subseteq ToSet(fifo)
<1> DEFINE first == Head(fifo)
           rest == Tail(fifo)
           more == Append(batch, first)
<1>0. /\ sunk \in Seq(Nat) /\ batch \in Seq(Nat) /\ fifo \in Seq(Nat)
      /\ InOrder(sunk) /\ InOrder(batch) /\ InOrder(fifo)
      /\ Before(ToSet(sunk), ToSet(batch)) /\ Before(ToSet(sunk), ToSet(fifo))
      /\ Before(ToSet(batch), ToSet(fifo))
      /\ Sentinel \notin ToSet(sunk) /\ Sentinel \notin ToSet(batch)
      /\ ToSet(batch) \cap dropped = {} /\ ToSet(fifo) \cap dropped = {}
      /\ ToSet(sunk) \cup ToSet(batch) \cup (ToSet(fifo) \ {Sentinel}) \cup dropped = 1..calls
  BY DEF InLine
<1>1. /\ first \in Nat /\ rest \in Seq(Nat) /\ Len(rest) = Len(fifo) - 1
      /\ ToSet(fifo) = {first} \cup ToSet(rest)
      /\ InOrder(rest) /\ Before({first}, ToSet(rest))
  BY <1>0, FirstTaken
<1>2. first # Sentinel /\ fifo' = rest /\ batch' = more /\ UNCHANGED <<calls, sunk, dropped>>
  OBVIOUS
<1> HIDE DEF first, rest
<1>3. Before(ToSet(batch), {first})
  BY <1>0, <1>1 DEF Before
<1>4. /\ more \in Seq(Nat) /\ ToSet(more) = ToSet(batch) \cup {first} /\ Len(more) = Len(batch) + 1
      /\ InOrder(more)
  BY <1>0, <1>1, <1>3, ItemAdded
<1> HIDE DEF more
<1>5. Before(ToSet(sunk), ToSet(more)) /\ Before(ToSet(sunk), ToSet(rest)) /\ Before(ToSet(more), ToSet(rest))
  BY <1>0, <1>1, <1>4 DEF Before
<1>6. /\ Sentinel \notin ToSet(more) /\ ToSet(more) \cap dropped = {} /\ ToSet(rest) \cap dropped = {}
      /\ ToSet(sunk) \cup ToSet(more) \cup (ToSet(rest) \ {Sentinel}) \cup dropped = 1..calls
  BY <1>0, <1>1, <1>2, <1>4
<1>7. InLine'
  BY <1>0, <1>1, <1>2, <1>4, <1>5, <1>6 DEF InLine
<1>8. first \in ToSet(fifo) /\ ToSet(rest) \subseteq ToSet(fifo)
  BY <1>1
<1> QED BY <1>1, <1>2, <1>4, <1>7, <1>8 DEF first

\* A sentinel that is taken leaves the items where they are.
LEMMA SentinelTaken ==
  ASSUME InLine, fifo # <<>>, Head(fifo) = Sentinel, fifo' = Tail(fifo),
         UNCHANGED <<batch, calls, sunk, dropped>>
  PROVE  InLine' /\ Len(fifo') = Len(fifo) - 1 /\ ToSet(fifo') \subseteq ToSet(fifo)
<1> DEFINE rest == Tail(fifo)
<1>1. fifo \in Seq(Nat) /\ InOrder(fifo)
  BY DEF InLine
<1>2. /\ rest \in Seq(Nat) /\ Len(rest) = Len(fifo) - 1
      /\ ToSet(fifo) = {Sentinel} \cup ToSet(rest) /\ InOrder(rest)
  BY <1>1, FirstTaken
<1>3. fifo' = rest
  OBVIOUS
<1> HIDE DEF rest
<1>4. InLine'
  BY <1>2, <1>3 DEF InLine, Before
<1> QED BY <1>2, <1>3, <1>4

\* A batch is exported behind what was exported before, or dropped.
LEMMA BatchGone ==
  ASSUME InLine, batch' = <<>>, UNCHANGED <<fifo, calls>>,
         \/ sunk' = sunk \o batch /\ dropped' = dropped
         \/ sunk' = sunk /\ dropped' = dropped \cup ToSet(batch)
  PROVE  InLine'
<1>0. /\ sunk \in Seq(Nat) /\ batch \in Seq(Nat) /\ fifo \in Seq(Nat)
      /\ InOrder(sunk) /\ InOrder(batch) /\ InOrder(fifo)
      /\ Before(ToSet(sunk), ToSet(batch)) /\ Before(ToSet(sunk), ToSet(fifo))
      /\ Before(ToSet(batch), ToSet(fifo))
      /\ Sentinel \notin ToSet(sunk) /\ Sentinel \notin ToSet(batch)
      /\ calls \in 0..MaxCalls /\ dropped \subseteq 1..calls
      /\ ToSet(sunk) \cap dropped = {} /\ ToSet(batch) \cap dropped = {} /\ ToSet(fifo) \cap dropped = {}
      /\ ToSet(sunk) \cup ToSet(batch) \cup (ToSet(fifo) \ {Sentinel}) \cup dropped = 1..calls
      /\ ToSet(sunk) \subseteq Nat /\ ToSet(batch) \subseteq Nat /\ ToSet(fifo) \subseteq Nat
  BY SeqShape DEF InLine
<1>1. batch' \in Seq(Nat) /\ ToSet(batch') = {} /\ InOrder(batch') /\ fifo' = fifo /\ calls' = calls
  BY NoItems
<1>2. CASE sunk' = sunk \o batch /\ dropped' = dropped
  <2>1. sunk' \in Seq(Nat) /\ ToSet(sunk') = ToSet(sunk) \cup ToSet(batch) /\ InOrder(sunk')
    BY <1>0, <1>2, ItemsJoined
  <2>2. Before(ToSet(sunk'), ToSet(fifo))
    BY <1>0, <2>1 DEF Before
  <2>3. Before(ToSet(sunk'), {}) /\ Before({}, ToSet(fifo))
    BY DEF Before
  <2> QED BY <1>0, <1>1, <1>2, <2>1, <2>2, <2>3 DEF InLine
<1>3. CASE sunk' = sunk /\ dropped' = dropped \cup ToSet(batch)
  <2>1. \A x \in ToSet(batch) : x \notin ToSet(sunk) /\ x \notin ToSet(fifo)
    <3> SUFFICES ASSUME NEW x \in ToSet(batch) PROVE x \notin ToSet(sunk) /\ x \notin ToSet(fifo)
      OBVIOUS
    <3>1. x \in Nat /\ x # Sentinel /\ ~(x < x)
      BY <1>0
    <3> QED BY <3>1, <1>0 DEF Before
  <2>2. dropped' \subseteq 1..calls /\ ToSet(sunk) \cap dropped' = {} /\ ToSet(fifo) \cap dropped' = {}
    BY <1>0, <1>3, <2>1
  <2>3. Before(ToSet(sunk), {}) /\ Before({}, ToSet(fifo))
    BY DEF Before
  <2>4. ToSet(sunk) \cup {} \cup (ToSet(fifo) \ {Sentinel}) \cup dropped' = 1..calls
    BY <1>0, <1>3
  <2> QED BY <1>0, <1>1, <1>3, <2>2, <2>3, <2>4 DEF InLine
<1> QED BY <1>2, <1>3

\* A new item is behind all others, or dropped.
LEMMA ItemKept ==
  ASSUME InLine, calls < MaxCalls, calls' = calls + 1, UNCHANGED <<batch, sunk>>,
         \/ fifo' = fifo /\ dropped' = dropped \cup {calls + 1}
         \/ fifo' = Append(fifo, calls + 1) /\ dropped' = dropped
  PROVE  InLine'
<1>0. /\ sunk \in Seq(Nat) /\ batch \in Seq(Nat) /\ fifo \in Seq(Nat)
      /\ InOrder(sunk) /\ InOrder(batch) /\ InOrder(fifo)
      /\ Before(ToSet(sunk), ToSet(batch)) /\ Before(ToSet(sunk), ToSet(fifo))
      /\ Before(ToSet(batch), ToSet(fifo))
      /\ Sentinel \notin ToSet(sunk) /\ Sentinel \notin ToSet(batch)
      /\ calls \in 0..MaxCalls /\ dropped \subseteq 1..calls /\ calls \in Nat
      /\ ToSet(sunk) \cap dropped = {} /\ ToSet(batch) \cap dropped = {} /\ ToSet(fifo) \cap dropped = {}
      /\ ToSet(sunk) \cup ToSet(batch) \cup (ToSet(fifo) \ {Sentinel}) \cup dropped = 1..calls
  BY PipelineAssumption DEF InLine
<1> DEFINE x == calls + 1
<1>1. x \in Nat /\ x # Sentinel /\ x \in 1..MaxCalls /\ x \notin 1..calls /\ 1..x = (1..calls) \cup {x}
      /\ \A y \in 1..calls : y < x
  BY <1>0, PipelineAssumption DEF Sentinel
<1>2. calls' = x /\ UNCHANGED <<batch, sunk>>
  OBVIOUS
<1>3. /\ x \notin ToSet(sunk) /\ x \notin ToSet(batch) /\ x \notin ToSet(fifo) /\ x \notin dropped
      /\ Before(ToSet(sunk), {x}) /\ Before(ToSet(batch), {x}) /\ Before(ToSet(fifo), {x})
  <2>1. \A y \in ToSet(sunk) \cup ToSet(batch) \cup (ToSet(fifo) \ {Sentinel}) : y \in 1..calls
    BY <1>0
  <2> HIDE DEF x
  <2> QED BY <1>0, <1>1, <2>1 DEF Before
<1>4. CASE fifo' = fifo /\ dropped' = dropped \cup {calls + 1}
  <2>1. dropped' = dropped \cup {x} /\ fifo' = fifo
    BY <1>4
  <2> HIDE DEF x
  <2>2. calls' \in 0..MaxCalls /\ dropped' \subseteq 1..calls'
    BY <1>0, <1>1, <1>2, <2>1
  <2>3. ToSet(sunk) \cap dropped' = {} /\ ToSet(batch) \cap dropped' = {} /\ ToSet(fifo) \cap dropped' = {}
    BY <1>0, <1>3, <2>1
  <2>4. ToSet(sunk) \cup ToSet(batch) \cup (ToSet(fifo) \ {Sentinel}) \cup dropped' = 1..calls'
    BY <1>0, <1>1, <1>2, <2>1
  <2> QED BY <1>0, <1>2, <2>1, <2>2, <2>3, <2>4 DEF InLine
<1>5. CASE fifo' = Append(fifo, calls + 1) /\ dropped' = dropped
  <2>1. fifo' = Append(fifo, x) /\ dropped' = dropped
    BY <1>5
  <2> HIDE DEF x
  <2>2. fifo' \in Seq(Nat) /\ ToSet(fifo') = ToSet(fifo) \cup {x} /\ InOrder(fifo')
    BY <1>0, <1>1, <1>3, <2>1, ItemAdded
  <2>3. calls' \in 0..MaxCalls /\ dropped' \subseteq 1..calls'
    BY <1>0, <1>1, <1>2, <2>1
  <2>4. ToSet(fifo') \cap dropped' = {}
    BY <1>0, <1>3, <2>1, <2>2
  <2>5. ToSet(sunk) \cup ToSet(batch) \cup (ToSet(fifo') \ {Sentinel}) \cup dropped' = 1..calls'
    BY <1>0, <1>1, <1>2, <2>1, <2>2
  <2>6. Before(ToSet(sunk), ToSet(fifo')) /\ Before(ToSet(batch), ToSet(fifo'))
    BY <1>0, <1>3, <2>2 DEF Before
  <2> QED BY <1>0, <1>2, <2>1, <2>2, <2>3, <2>4, <2>5, <2>6 DEF InLine
<1> QED BY <1>4, <1>5

LEMMA SentinelKept ==
  ASSUME InLine, fifo' = Append(fifo, Sentinel), UNCHANGED <<batch, calls, sunk, dropped>>
  PROVE  InLine' /\ Len(fifo') = Len(fifo) + 1 /\ ToSet(fifo') = ToSet(fifo) \cup {Sentinel}
<1>1. fifo \in Seq(Nat) /\ InOrder(fifo) /\ dropped \subseteq 1..calls /\ calls \in Nat
  BY PipelineAssumption DEF InLine
<1>2. Sentinel \in Nat /\ Before(ToSet(fifo), {Sentinel}) /\ Sentinel \notin 1..calls
  BY <1>1 DEF Sentinel, Before
<1>3. /\ fifo' \in Seq(Nat) /\ ToSet(fifo') = ToSet(fifo) \cup {Sentinel} /\ InOrder(fifo')
      /\ Len(fifo') = Len(fifo) + 1
  BY <1>1, <1>2, ItemAdded
<1>4. InLine'
  <2>1. Before(ToSet(sunk), ToSet(fifo')) /\ Before(ToSet(batch), ToSet(fifo'))
    BY <1>3 DEF InLine, Before
  <2>2. ToSet(fifo') \cap dropped = {} /\ ToSet(fifo') \ {Sentinel} = ToSet(fifo) \ {Sentinel}
    BY <1>1, <1>2, <1>3 DEF InLine
  <2> QED BY <1>3, <2>1, <2>2 DEF InLine
<1> QED BY <1>3, <1>4

LEMMA LineAlone ==
  ASSUME InLine, UNCHANGED <<sunk, batch, fifo, calls, dropped>>
  PROVE  InLine'
  BY DEF InLine, InOrder, Before

PipeTypes ==
  /\ Len(fifo) \in Nat /\ Len(batch) \in Nat /\ FlushAt \in Nat \ {0} /\ QueueCap \in Nat \ {0}
  /\ fifo = <<>> <=> Len(fifo) = 0
  /\ fifo = <<>> <=> ToSet(fifo) = {}
  /\ batch = <<>> <=> Len(batch) = 0

LEMMA PipeShape == PipeInv => PipeTypes
  BY SeqShape, PipelineAssumption DEF PipeInv, InLine, PipeTypes

LEMMA EnqueueKept ==
  ASSUME PipeInv, EnqueueItem
  PROVE  PipeInv' /\ (closeState = "closed" => sunk' = sunk)
<1>0. InLine /\ PipeTypes
  BY PipeShape DEF PipeInv
<1>1. UNCHANGED <<batch, worker, stop, closed, closer, active, closeState, sunk>>
  BY DEF EnqueueItem
<1>2. CASE closed \/ Len(fifo) >= QueueCap
  <2>1. UNCHANGED <<fifo, unfinished>>
    BY <1>2 DEF EnqueueItem
  <2>2. InLine'
    BY <1>0, <1>2, ItemKept DEF EnqueueItem
  <2> QED BY <1>1, <2>1, <2>2 DEF PipeInv
<1>3. CASE ~(closed \/ Len(fifo) >= QueueCap)
  <2>1. fifo' = Append(fifo, calls + 1) /\ unfinished' = unfinished + 1 /\ ~closed
    BY <1>3 DEF EnqueueItem
  <2>2. InLine'
    BY <1>0, <1>3, ItemKept DEF EnqueueItem
  <2>3. Len(fifo') = Len(fifo) + 1
    <3>1. fifo \in Seq(Nat) /\ calls + 1 \in Nat
      BY PipelineAssumption DEF PipeInv, InLine
    <3> QED BY <3>1, <2>1, ItemAdded
  <2>4. unfinished' = Len(fifo') + Len(batch') /\ Len(fifo') <= QueueCap
    BY <1>0, <1>1, <1>3, <2>1, <2>3 DEF PipeInv, PipeTypes
  <2> QED BY <1>1, <2>1, <2>2, <2>4 DEF PipeInv
<1> QED BY <1>2, <1>3

\* The worker takes from the queue.
LEMMA TakeKept ==
  ASSUME PipeInv, WorkerGet \/ WorkerFill
  PROVE  PipeInv' /\ (closeState = "closed" => sunk' = sunk)
<1>0. InLine /\ PipeTypes
  BY PipeShape DEF PipeInv
<1>1. UNCHANGED <<active, sunk, dropped, calls, stop, closed, closer, closeState>> /\ worker \in {"get", "fill"}
  BY DEF WorkerGet, WorkerFill, WorkerKeeps
<1>2. CASE /\ fifo # <<>> /\ Head(fifo) = Sentinel /\ fifo' = Tail(fifo)
           /\ worker' \in {"export", "check"} /\ (worker' = "check" => batch = <<>>)
           /\ unfinished' = unfinished - 1 /\ UNCHANGED batch
  <2>1. InLine' /\ Len(fifo') = Len(fifo) - 1 /\ ToSet(fifo') \subseteq ToSet(fifo)
    BY <1>0, <1>1, <1>2, SentinelTaken
  <2>2. /\ unfinished' = Len(fifo') + Len(batch') /\ Len(fifo') <= QueueCap /\ Len(batch') <= FlushAt
        /\ worker' \in {"get", "check"} => Len(batch') < FlushAt
    BY <1>0, <1>2, <2>1 DEF PipeInv, PipeTypes
  <2>3. active' = IF worker' \in Exporting THEN 1 ELSE 0
    BY <1>1, <1>2 DEF PipeInv, Exporting
  <2>4. worker' \notin Leaving /\ worker' # "exited"
    BY <1>2 DEF Leaving
  <2> QED BY <1>1, <1>2, <2>1, <2>2, <2>3, <2>4 DEF PipeInv
<1>3. CASE /\ fifo # <<>> /\ Head(fifo) # Sentinel /\ fifo' = Tail(fifo) /\ worker' = "fill"
           /\ batch' = Append(batch, Head(fifo)) /\ Len(batch) < FlushAt /\ UNCHANGED unfinished
  <2>1. /\ InLine' /\ Len(fifo') = Len(fifo) - 1 /\ Len(batch') = Len(batch) + 1
        /\ Head(fifo) \in ToSet(fifo) /\ ToSet(fifo') \subseteq ToSet(fifo)
    BY <1>0, <1>1, <1>3, TakenKept
  <2>2. /\ unfinished' = Len(fifo') + Len(batch') /\ Len(fifo') <= QueueCap /\ Len(batch') <= FlushAt
    BY <1>0, <1>3, <2>1 DEF PipeInv, PipeTypes
  <2>3. active' = IF worker' \in Exporting THEN 1 ELSE 0
    BY <1>1, <1>3 DEF PipeInv, Exporting
  <2>4. worker' \notin Leaving /\ worker' # "exited" /\ worker' \notin {"get", "check"}
    BY <1>3 DEF Leaving
  <2>5. \A c \in Closers : closer[c] # "drained"
    BY <1>3, <2>1 DEF PipeInv
  <2> QED BY <1>1, <1>3, <2>1, <2>2, <2>3, <2>4, <2>5 DEF PipeInv
<1>4. CASE /\ worker' \in {"export", "check"} /\ (worker' = "check" => Len(batch) < FlushAt)
           /\ UNCHANGED <<fifo, batch, unfinished>>
  <2>1. InLine'
    BY <1>0, <1>1, <1>4, LineAlone
  <2>2. active' = IF worker' \in Exporting THEN 1 ELSE 0
    BY <1>1, <1>4 DEF PipeInv, Exporting
  <2>3. worker' \notin Leaving /\ worker' # "exited"
    BY <1>4 DEF Leaving
  <2> QED BY <1>1, <1>4, <2>1, <2>2, <2>3 DEF PipeInv
<1>5. CASE WorkerGet
  <2>1. worker = "get" /\ fifo # <<>> /\ fifo' = Tail(fifo) /\ Len(batch) < FlushAt
    BY <1>5 DEF WorkerGet, PipeInv
  <2>2. CASE Head(fifo) = Sentinel
    BY <1>2, <1>5, <2>1, <2>2 DEF WorkerGet, AfterEmpty
  <2>3. CASE Head(fifo) # Sentinel
    BY <1>3, <1>5, <2>1, <2>3 DEF WorkerGet
  <2> QED BY <2>2, <2>3
<1>6. CASE WorkerFill
  <2>1. CASE Len(batch) < FlushAt /\ fifo # <<>>
    <3>1. CASE Head(fifo) = Sentinel
      BY <1>2, <1>6, <2>1, <3>1 DEF WorkerFill
    <3>2. CASE Head(fifo) # Sentinel
      BY <1>3, <1>6, <2>1, <3>2 DEF WorkerFill
    <3> QED BY <3>1, <3>2
  <2>2. CASE ~(Len(batch) < FlushAt /\ fifo # <<>>)
    BY <1>0, <1>4, <1>6, <2>2 DEF WorkerFill, PipeTypes
  <2> QED BY <2>1, <2>2
<1> QED BY <1>5, <1>6

\* The worker waits, tests the stop event, or begins an export.
LEMMA WorkerMoves ==
  ASSUME PipeInv, WorkerIdle \/ WorkerCheck \/ ExportBegin
  PROVE  PipeInv' /\ (closeState = "closed" => sunk' = sunk)
<1>0. InLine /\ PipeTypes
  BY PipeShape DEF PipeInv
<1>1. UNCHANGED <<fifo, unfinished, batch, sunk, dropped, calls, stop, closed, closer, closeState>>
  BY DEF WorkerIdle, WorkerCheck, ExportBegin, WorkerKeeps
<1>2. InLine'
  BY <1>0, <1>1, LineAlone
<1>3. CASE WorkerIdle
  <2>1. /\ worker = "get" /\ worker' \in {"export", "check"} /\ (worker' = "check" => batch = <<>>)
        /\ active' = active
    BY <1>3 DEF WorkerIdle, AfterEmpty
  <2>2. worker' \in {"get", "check"} => Len(batch') < FlushAt
    BY <1>0, <1>1, <2>1 DEF PipeTypes
  <2> QED BY <1>1, <1>2, <2>1, <2>2 DEF PipeInv, Exporting, Leaving
<1>4. CASE WorkerCheck
  <2>1. /\ worker = "check" /\ active' = active
        /\ \/ worker' = "get"
           \/ worker' = "last" /\ stop /\ fifo = <<>>
           \/ worker' = "exited" /\ stop /\ fifo = <<>> /\ batch = <<>>
    BY <1>4 DEF WorkerCheck, MayExit, AfterLoop
  <2>2. worker' \in Leaving => closed' /\ ToSet(fifo') \subseteq {Sentinel}
    BY <1>0, <1>1, <2>1 DEF PipeInv, PipeTypes, Leaving
  <2>3. Len(batch) < FlushAt /\ worker' \notin Exporting /\ active = 0
    BY <2>1 DEF PipeInv, Exporting
  <2> QED BY <1>1, <1>2, <2>1, <2>2, <2>3 DEF PipeInv
<1>5. CASE ExportBegin
  <2>1. /\ closeState = "open" /\ active' = active + 1
        /\ \/ worker = "export" /\ worker' = "exporting"
           \/ worker = "last" /\ worker' = "lastExport"
    BY <1>5 DEF ExportBegin
  <2>2. active' = IF worker' \in Exporting THEN 1 ELSE 0
    BY <2>1 DEF PipeInv, Exporting
  <2>3. worker' \in Leaving => worker \in Leaving
    BY <2>1 DEF Leaving
  <2> QED BY <1>1, <1>2, <2>1, <2>2, <2>3 DEF PipeInv
<1> QED BY <1>3, <1>4, <1>5

\* A batch is done with.
LEMMA ExportKept ==
  ASSUME PipeInv, ExportRefused \/ ExportEnd
  PROVE  PipeInv' /\ (closeState = "closed" => sunk' = sunk)
<1>0. InLine /\ PipeTypes
  BY PipeShape DEF PipeInv
<1>1. /\ batch' = <<>> /\ unfinished' = unfinished - Len(batch)
      /\ UNCHANGED <<fifo, calls, stop, closed, closer, closeState>>
      /\ \/ worker \in {"export", "exporting"} /\ worker' = "check"
         \/ worker \in {"last", "lastExport"} /\ worker' = "exited"
  BY DEF ExportRefused, ExportEnd, BatchDone, WorkerKeeps
<1>2. InLine'
  BY <1>0, <1>1, BatchGone DEF ExportRefused, ExportEnd
<1>3. active' = 0 /\ (closeState = "closed" => sunk' = sunk)
  BY DEF ExportRefused, ExportEnd, PipeInv, Exporting
<1>4. Len(batch') = 0
  BY <1>1, NoItems
<1>5. /\ unfinished' = Len(fifo') + Len(batch') /\ Len(fifo') <= QueueCap /\ Len(batch') <= FlushAt
      /\ Len(batch') < FlushAt
  BY <1>0, <1>1, <1>4 DEF PipeInv, PipeTypes
<1>6. worker' \notin Exporting /\ (worker' \in Leaving => worker \in Leaving)
  BY <1>1 DEF Exporting, Leaving
<1> QED BY <1>1, <1>2, <1>3, <1>5, <1>6 DEF PipeInv

\* shutdown() and aclose().
LEMMA CloserKept ==
  ASSUME PipeInv, NEW c \in Closers, CloserStep(c)
  PROVE  PipeInv' /\ (closeState = "closed" => sunk' = sunk)
<1>0. InLine /\ PipeTypes
  BY PipeShape DEF PipeInv
<1>1. UNCHANGED <<calls, batch, worker, active, sunk, dropped>>
  BY DEF CloserStep, ShutdownSignal, ShutdownWake, ShutdownJoin, ShutdownFlush, CloseBegin, CloseEnd,
         CallerKeeps
<1>2. CASE ShutdownSignal(c)
  <2>1. /\ closer' = [closer EXCEPT ![c] = IF closed THEN "joining" ELSE "signalled"]
        /\ closed' /\ stop' /\ UNCHANGED <<fifo, unfinished, closeState>>
    BY <1>2 DEF ShutdownSignal, At
  <2>2. InLine'
    BY <1>0, <1>1, <2>1, LineAlone
  <2>3. /\ closer' \in [Closers -> {"idle", "signalled", "joining", "flushing", "drained", "closing", "done"}]
        /\ \A d \in Closers : closer'[d] = "drained" => closer[d] = "drained"
    BY <2>1 DEF PipeInv
  <2> QED BY <1>1, <2>1, <2>2, <2>3 DEF PipeInv
<1>3. CASE ShutdownWake(c)
  <2>1. /\ closer[c] = "signalled" /\ closer' = [closer EXCEPT ![c] = "joining"]
        /\ UNCHANGED <<stop, closed, closeState>>
        /\ \/ Len(fifo) < QueueCap /\ fifo' = Append(fifo, Sentinel) /\ unfinished' = unfinished + 1
           \/ UNCHANGED <<fifo, unfinished>>
    BY <1>3 DEF ShutdownWake, At
  <2>2. /\ closer' \in [Closers -> {"idle", "signalled", "joining", "flushing", "drained", "closing", "done"}]
        /\ \A d \in Closers : closer'[d] = closer[d] \/ (d = c /\ closer'[d] = "joining")
    BY <2>1 DEF PipeInv
  <2>3. \A d \in Closers : closer'[d] \in {"joining", "flushing", "drained", "signalled"} => closed'
    BY <2>1, <2>2 DEF PipeInv
  <2>4. CASE UNCHANGED <<fifo, unfinished>>
    <3>1. InLine'
      BY <1>0, <1>1, <2>4, LineAlone
    <3> QED BY <1>1, <2>1, <2>2, <2>3, <2>4, <3>1 DEF PipeInv
  <2>5. CASE Len(fifo) < QueueCap /\ fifo' = Append(fifo, Sentinel) /\ unfinished' = unfinished + 1
    <3>1. InLine' /\ Len(fifo') = Len(fifo) + 1 /\ ToSet(fifo') = ToSet(fifo) \cup {Sentinel}
      BY <1>0, <1>1, <2>5, SentinelKept
    <3>2. unfinished' = Len(fifo') + Len(batch') /\ Len(fifo') <= QueueCap
      BY <1>0, <1>1, <2>5, <3>1 DEF PipeInv, PipeTypes
    <3> QED BY <1>1, <2>1, <2>2, <2>3, <3>1, <3>2 DEF PipeInv
  <2> QED BY <2>1, <2>4, <2>5
<1>4. CASE ShutdownJoin(c)
  <2>1. /\ closer[c] = "joining" /\ closer' = [closer EXCEPT ![c] = "flushing"]
        /\ UNCHANGED <<fifo, unfinished, stop, closed, closeState>>
    BY <1>4 DEF ShutdownJoin, At
  <2>2. InLine'
    BY <1>0, <1>1, <2>1, LineAlone
  <2>3. /\ closer' \in [Closers -> {"idle", "signalled", "joining", "flushing", "drained", "closing", "done"}]
        /\ \A d \in Closers : closer'[d] = closer[d] \/ (d = c /\ closer'[d] = "flushing")
    BY <2>1 DEF PipeInv
  <2> QED BY <1>1, <2>1, <2>2, <2>3 DEF PipeInv
<1>5. CASE ShutdownFlush(c)
  <2>1. /\ unfinished = 0 /\ closer[c] = "flushing" /\ closer' = [closer EXCEPT ![c] = "drained"]
        /\ UNCHANGED <<fifo, unfinished, stop, closed, closeState>>
    BY <1>5 DEF ShutdownFlush, At
  <2>2. InLine'
    BY <1>0, <1>1, <2>1, LineAlone
  <2>3. batch = <<>> /\ ToSet(fifo) = {}
    BY <1>0, <2>1 DEF PipeInv, PipeTypes
  <2>4. /\ closer' \in [Closers -> {"idle", "signalled", "joining", "flushing", "drained", "closing", "done"}]
        /\ \A d \in Closers : closer'[d] = closer[d] \/ (d = c /\ closer'[d] = "drained")
    BY <2>1 DEF PipeInv
  <2> QED BY <1>1, <2>1, <2>2, <2>3, <2>4 DEF PipeInv
<1>6. CASE CloseBegin(c) \/ CloseEnd(c)
  <2>1. /\ UNCHANGED <<fifo, unfinished, stop, closed>>
        /\ closer' \in {[closer EXCEPT ![c] = "closing"], [closer EXCEPT ![c] = "done"]}
        /\ closeState' \in {"open", "closing", "closed"} /\ (closeState' = "closed" => active = 0)
    BY <1>6 DEF CloseBegin, CloseEnd, At, ExportsOver, PipeInv
  <2>2. InLine'
    BY <1>0, <1>1, <2>1, LineAlone
  <2>3. /\ closer' \in [Closers -> {"idle", "signalled", "joining", "flushing", "drained", "closing", "done"}]
        /\ \A d \in Closers : closer'[d] = closer[d] \/ closer'[d] \in {"closing", "done"}
    BY <2>1 DEF PipeInv
  <2> QED BY <1>1, <2>1, <2>2, <2>3 DEF PipeInv
<1> QED BY <1>2, <1>3, <1>4, <1>5, <1>6 DEF CloserStep

LEMMA PipeStep == PipeInv /\ [PipeNext]_pipeVars => PipeInv' /\ (closeState = "closed" => sunk' = sunk)
<1> SUFFICES ASSUME PipeInv, [PipeNext]_pipeVars
             PROVE  PipeInv' /\ (closeState = "closed" => sunk' = sunk)
  OBVIOUS
<1>1. CASE UNCHANGED pipeVars
  <2>1. InLine'
    BY <1>1, LineAlone DEF pipeVars, PipeInv
  <2> QED BY <1>1, <2>1 DEF pipeVars, PipeInv
<1> QED BY <1>1, EnqueueKept, TakeKept, WorkerMoves, ExportKept, CloserKept DEF PipeNext, WorkerStep

LEMMA LineIsOrdered == PipeInv => LossyFifo
<1> SUFFICES ASSUME PipeInv PROVE LossyFifo
  OBVIOUS
<1>0. /\ sunk \in Seq(Nat) /\ batch \in Seq(Nat) /\ fifo \in Seq(Nat)
      /\ InOrder(sunk) /\ InOrder(batch) /\ InOrder(fifo)
      /\ Before(ToSet(sunk), ToSet(batch)) /\ Before(ToSet(sunk), ToSet(fifo))
      /\ Before(ToSet(batch), ToSet(fifo))
      /\ Sentinel \notin ToSet(sunk) /\ Sentinel \notin ToSet(batch)
      /\ ToSet(sunk) \cap dropped = {} /\ ToSet(batch) \cap dropped = {} /\ ToSet(fifo) \cap dropped = {}
      /\ ToSet(sunk) \cup ToSet(batch) \cup (ToSet(fifo) \ {Sentinel}) \cup dropped = 1..calls
  BY DEF PipeInv, InLine
<1> DEFINE out == sunk \o batch
<1>1. out \in Seq(Nat) /\ ToSet(out) = ToSet(sunk) \cup ToSet(batch) /\ InOrder(out)
  BY <1>0, ItemsJoined
<1> HIDE DEF out
<1>2. Before(ToSet(out), ToSet(fifo))
  BY <1>0, <1>1 DEF Before
<1> DEFINE line == out \o fifo
<1>3. ToSet(line) = ToSet(out) \cup ToSet(fifo) /\ InOrder(line)
  BY <1>0, <1>1, <1>2, ItemsJoined
<1> HIDE DEF line
<1>4. /\ \A i, j \in DOMAIN line : i < j /\ line[i] # Sentinel /\ line[j] # Sentinel => line[i] < line[j]
      /\ Sentinel \notin ToSet(out)
      /\ (ToSet(line) \ {Sentinel}) \cap dropped = {}
      /\ (ToSet(line) \ {Sentinel}) \cup dropped = 1..calls
  BY <1>0, <1>1, <1>3 DEF InOrder
<1> QED BY <1>4 DEF line, out, LossyFifo

LEMMA PipeImplies == PipeInv => PipeTypeOK /\ LossyFifo /\ FlushDrains /\ ExitsEmpty
<1> SUFFICES ASSUME PipeInv PROVE PipeTypeOK /\ LossyFifo /\ FlushDrains /\ ExitsEmpty
  OBVIOUS
<1>1. PipeTypeOK
  <2>1. PipeTypes
    BY PipeShape
  <2>2. unfinished \in Nat /\ active \in 0..1
    BY <2>1 DEF PipeInv, PipeTypes
  <2> QED BY <2>2 DEF PipeInv, InLine, PipeTypeOK
<1>2. FlushDrains /\ ExitsEmpty
  BY DEF PipeInv, FlushDrains, ExitsEmpty, Leaving
<1> QED BY <1>1, <1>2, LineIsOrdered

\* BatchingPipeline and OtelExporter.aclose: what is enqueued is exported in
\* order and once, or dropped; shutdown() returns, and the worker exits, with
\* nothing left; and nothing is exported after the exporter is closed.
THEOREM PipelineKept == PipeSpec => PipelineContract
<1>1. PipeInit => PipeInv
  BY PipeStart
<1>2. PipeInv /\ [PipeNext]_pipeVars => PipeInv'
  BY PipeStep
<1>3. PipeInv => PipeTypeOK /\ LossyFifo /\ FlushDrains /\ ExitsEmpty
  BY PipeImplies
<1>4. PipeInv /\ [PipeNext]_pipeVars => [closeState = "closed" => sunk' = sunk]_pipeVars
  BY PipeStep
<1> QED BY <1>1, <1>2, <1>3, <1>4, PTL DEF PipeSpec, PipelineContract, NothingAfterClose

=============================================================================
