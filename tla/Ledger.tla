------------------------------- MODULE Ledger -------------------------------
(***************************************************************************)
(* The write-ahead execution ledger (matterloop_runtime/ledger.py), the    *)
(* IdempotentInvoker and the TransactionalExecutor over it.                *)
(*                                                                         *)
(* The ledger works under one lock, so each of its operations is a step.   *)
(* A caller runs invoke, or the three stages one by one; the effect on     *)
(* the outside world is a step of its own, and a caller may die anywhere.  *)
(* A host recovers and reconciles at any time, callers alive or not, and   *)
(* reconciles with what the outside world shows at that moment.            *)
(***************************************************************************)
EXTENDS Naturals, Sequences

CONSTANTS
  Callers,
  Executions,    \* execution_ids
  Requests,      \* [operation, arguments], arguments a sequence of pairs
  None           \* no caller, no request, no result

ASSUME LedgerAssumption == None \notin Requests \cup Executions

VARIABLES
  status,   \* status of each execution, "none" before prepare
  request,  \* the request each execution was prepared for (_by_hash, inverted)
  payload,  \* result_payload: None or the execution that took effect
  caller,   \* what each caller is doing
  effects,  \* the effects on the outside world, in order
  scan      \* the pending records recover listed and has still to decide about

ledgerVars == <<status, request, payload, caller, effects, scan>>

Pending == {"PREPARED", "EXECUTING"}
Decided == {"COMMITTED", "FAILED"}

\* canonical_request_hash: the order of the arguments does not matter.
Hash(r) == <<r.operation, {r.arguments[i] : i \in DOMAIN r.arguments}>>

Idle == [pc |-> "idle", id |-> None]

LedgerInit ==
  /\ status = [e \in Executions |-> "none"]
  /\ request = [e \in Executions |-> None]
  /\ payload = [e \in Executions |-> None]
  /\ caller = [c \in Callers |-> Idle]
  /\ effects = <<>>
  /\ scan = {}

-----------------------------------------------------------------------------
(* The ledger                                                               *)

\* Mutant: a failed execution may be started again.
LegalFromFailed(from, to) ==
  \/ to = "EXECUTING" /\ from \in {"PREPARED", "FAILED"}
  \/ to \in Decided /\ from \in {"EXECUTING", "RECONCILIATION_REQUIRED"}
  \/ to = "RECONCILIATION_REQUIRED" /\ from = "EXECUTING"

\* _LEGAL_TRANSITIONS
Legal(from, to) ==
  \/ to = "EXECUTING" /\ from = "PREPARED"
  \/ to \in Decided /\ from \in {"EXECUTING", "RECONCILIATION_REQUIRED"}
  \/ to = "RECONCILIATION_REQUIRED" /\ from = "EXECUTING"

\* _transition, which raises unless the move is legal
Transition(e, to, result) ==
  /\ Legal(status[e], to)
  /\ status' = [status EXCEPT ![e] = to]
  /\ payload' = [payload EXCEPT ![e] = IF result = None THEN @ ELSE result]

\* find_by_hash
Known(r) == {e \in Executions : status[e] # "none" /\ Hash(request[e]) = Hash(r)}

-----------------------------------------------------------------------------
(* IdempotentInvoker.invoke and the stages of TransactionalExecutor         *)

Become(c, pc) == caller' = [caller EXCEPT ![c] = [pc |-> pc, id |-> caller[c].id]]
Leave(c) == caller' = [caller EXCEPT ![c] = Idle]

\* prepare of a new request: the record comes before anything happens.
Prepare(c, r, staged, e) ==
  /\ caller[c].pc = "idle"
  /\ Known(r) = {} /\ status[e] = "none"
  /\ status' = [status EXCEPT ![e] = "PREPARED"]
  /\ request' = [request EXCEPT ![e] = r]
  /\ caller' = [caller EXCEPT ![c] = [pc |-> "prepared", id |-> e]]
  /\ UNCHANGED <<payload, effects, scan>>

\* A known request: a committed result is reused; invoke refuses any other
\* record, and a host that stages may go on with a PREPARED one.
PrepareKnown(c, r, staged, e) ==
  /\ caller[c].pc = "idle"
  /\ e \in Known(r)
  /\ IF status[e] = "COMMITTED"
       THEN caller' = [caller EXCEPT ![c] = [pc |-> "reuse", id |-> e]]
     ELSE IF status[e] = "PREPARED" /\ staged
       THEN caller' = [caller EXCEPT ![c] = [pc |-> "prepared", id |-> e]]
     ELSE UNCHANGED caller
  /\ UNCHANGED <<status, request, payload, effects, scan>>

\* mark_executing; a caller that lost the race to it leaves with an error.
MarkExecuting(c) ==
  LET e == caller[c].id IN
  /\ caller[c].pc = "prepared"
  /\ IF Legal(status[e], "EXECUTING")
       THEN Transition(e, "EXECUTING", None) /\ Become(c, "executing")
       ELSE Leave(c) /\ UNCHANGED <<status, payload>>
  /\ UNCHANGED <<request, effects, scan>>

\* The executor takes effect and returns.
Effect(c) ==
  /\ caller[c].pc = "executing"
  /\ effects' = Append(effects, caller[c].id)
  /\ Become(c, "executed")
  /\ UNCHANGED <<status, request, payload, scan>>

\* The executor raises, before its effect or after it.
ExecutorRaises(c) ==
  /\ caller[c].pc = "executing"
  /\ \/ UNCHANGED effects
     \/ effects' = Append(effects, caller[c].id)
  /\ Become(c, "raised")
  /\ UNCHANGED <<status, request, payload, scan>>

\* commit; it raises when the record was decided meanwhile.
Commit(c) ==
  LET e == caller[c].id IN
  /\ caller[c].pc = "executed"
  /\ IF Legal(status[e], "COMMITTED")
       THEN Transition(e, "COMMITTED", e) /\ Become(c, "returned")
       ELSE Leave(c) /\ UNCHANGED <<status, payload>>
  /\ UNCHANGED <<request, effects, scan>>

\* The reused record's payload is returned; the caller is done either way.
Return(c) ==
  /\ caller[c].pc \in {"reuse", "returned"}
  /\ Leave(c)
  /\ UNCHANGED <<status, request, payload, effects, scan>>

Fail(c) ==
  LET e == caller[c].id IN
  /\ caller[c].pc = "raised"
  /\ IF Legal(status[e], "FAILED") THEN Transition(e, "FAILED", None)
                                   ELSE UNCHANGED <<status, payload>>
  /\ Leave(c)
  /\ UNCHANGED <<request, effects, scan>>

\* The caller's process dies, or its task is cancelled (no Exception).
Die(c) ==
  /\ caller[c].pc # "idle"
  /\ Leave(c)
  /\ UNCHANGED <<status, request, payload, effects, scan>>

-----------------------------------------------------------------------------
(* TransactionalExecutor.recover and reconcile                              *)

\* pending_records
Recover ==
  /\ scan = {}
  /\ scan' = {x \in [id : Executions, status : Pending] : status[x.id] = x.status}
  /\ UNCHANGED <<status, request, payload, caller, effects>>

\* A record listed as PREPARED gets the decision RELEASE and is left as it is;
\* one listed as EXECUTING must be reconciled, and makes recover raise, and
\* end, if it has moved on since.
RecoverOne(x) ==
  /\ x \in scan
  /\ IF x.status = "PREPARED"
       THEN scan' = scan \ {x} /\ UNCHANGED <<status, payload>>
     ELSE IF Legal(status[x.id], "RECONCILIATION_REQUIRED")
       THEN /\ Transition(x.id, "RECONCILIATION_REQUIRED", None)
            /\ scan' = scan \ {x}
     ELSE scan' = {} /\ UNCHANGED <<status, payload>>
  /\ UNCHANGED <<request, caller, effects>>

Happened(e) == \E i \in DOMAIN effects : effects[i] = e

\* reconcile with the outcome the outside world shows. The host should wait for
\* RECONCILIATION_REQUIRED, but commit and fail only refuse what is not Legal: a
\* record under a live executor may be decided as well.
Reconcile(e) ==
  /\ IF Happened(e) THEN Transition(e, "COMMITTED", e) ELSE Transition(e, "FAILED", None)
  /\ UNCHANGED <<request, caller, effects, scan>>

-----------------------------------------------------------------------------

CallerStep(c) ==
  \/ MarkExecuting(c) \/ Effect(c) \/ ExecutorRaises(c) \/ Commit(c) \/ Fail(c) \/ Return(c)

LedgerNext ==
  \/ \E c \in Callers :
       \/ CallerStep(c)
       \/ Die(c)
       \/ \E r \in Requests, staged \in BOOLEAN, e \in Executions :
            Prepare(c, r, staged, e) \/ PrepareKnown(c, r, staged, e)
  \/ Recover
  \/ \E x \in scan : RecoverOne(x)
  \/ \E e \in Executions : Reconcile(e)

LedgerSpec == LedgerInit /\ [][LedgerNext]_ledgerVars

-----------------------------------------------------------------------------
(* Properties                                                               *)

Statuses == {"none", "RECONCILIATION_REQUIRED"} \cup Pending \cup Decided

Stages == {"idle", "prepared", "executing", "executed", "raised", "reuse", "returned"}

\* Every variable keeps its type, and only a COMMITTED record has a payload.
LedgerTypeOK ==
  /\ status \in [Executions -> Statuses]
  /\ request \in [Executions -> Requests \cup {None}]
  /\ payload \in [Executions -> Executions \cup {None}]
  /\ caller \in [Callers -> [pc : Stages, id : Executions \cup {None}]]
  /\ effects \in Seq(Executions)
  /\ scan \subseteq [id : Executions, status : Pending]
  /\ \A e \in Executions : payload[e] # None => status[e] = "COMMITTED"

\* An effect asked for by any number of equal requests, through invoke or in
\* stages, is never repeated: not after a crash, a failure, a recovery or a
\* reconciliation (IdempotentInvoker: external effects are not replayed).
EffectOnce ==
  \A i, j \in DOMAIN effects :
    Hash(request[effects[i]]) = Hash(request[effects[j]]) => i = j

\* A COMMITTED record stands for an effect that happened, and what is reused is
\* the result of that very effect (IdempotentInvoker.invoke, reconcile).
CommittedIsReal ==
  \A e \in Executions : status[e] = "COMMITTED" => payload[e] = e /\ Happened(e)

\* A committed or failed record is never decided again, although a live
\* executor and a reconciling host may both try (_LEGAL_TRANSITIONS).
DecidedOnce ==
  [][\A e \in Executions : status[e] \in Decided
       => status'[e] = status[e] /\ payload'[e] = payload[e]]_ledgerVars

\* Equal requests share one record: whoever is past prepare works on it.
SharedRecord ==
  \A e, f \in Executions :
    status[e] # "none" /\ status[f] # "none" /\ Hash(request[e]) = Hash(request[f]) => e = f

\* The ledger makes an external effect happen at most once, whoever asks for
\* it and however often, and what it says of it stays true, over crashes,
\* recovery and reconciliation (IdempotentInvoker, TransactionalExecutor).
EffectsSettled ==
  []LedgerTypeOK /\ []EffectOnce /\ []CommittedIsReal /\ []SharedRecord /\ DecidedOnce
=============================================================================
