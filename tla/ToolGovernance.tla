--------------------------- MODULE ToolGovernance ---------------------------
(***************************************************************************)
(* Callers of a tenant that spend its budget: metered model calls          *)
(* (BudgetedModelClient), executor attempts and agent tasks                *)
(* (BudgetedExecutor, BudgetedAgentEndpoint) and tool calls through        *)
(* McpGateway, ToolRegistry and BudgetedTool, over one UsageLedger per     *)
(* tenant, a QuotaTracker and an audit sink.                               *)
(*                                                                         *)
(* Ledger, quota and tenant registry have a lock each, so their operations *)
(* are steps. Every await of the gateway ends a step: the approval, the    *)
(* access decision, the tool and the audit record; a caller may be         *)
(* cancelled in each of them.                                              *)
(***************************************************************************)
EXTENDS UsageLedger, Sequences

CONSTANTS
  Tenants, Callers, Tools,
  Risky,       \* tools whose policy is APPROVAL_REQUIRED
  Rules,       \* access rules: [tenant, tools], a tenant of None fits every tenant
  Limits,      \* BudgetLimits of each scope
  Lowered,     \* what configure_scope may lower the limits of a scope to
  Tuned, Cleared, \* scopes the host reconfigures, scopes it clears
  Run,         \* the scope of the run; all scopes are charged together
  EstInput, EstOutput, \* tokens a model call is estimated to take at most
  Usages,      \* token usages a provider may report
  MaxPerRun,   \* max_calls_per_run of every tool
  MaxCalls,    \* max_calls of a principal's quota
  MaxToolCalls,\* max_calls of the principal's quota for each tool
  MaxOps       \* bound on the tool calls of all callers

\* BudgetLimits of a scope, and a number for each kind of token.
Caps == [Resources \cup {"concurrent"} -> Nat]
PerKind == [input : Nat, hit : Nat, miss : Nat, output : Nat, reasoning : Nat]

Decisions == {"allowed", "denied", "quota_exceeded", "error"}

ASSUME GovernanceAssumption ==
  /\ Run \in Scopes /\ Tuned \subseteq Scopes /\ Cleared \subseteq Scopes /\ Risky \subseteq Tools
  /\ {EstInput, EstOutput, MaxPerRun, MaxCalls, MaxToolCalls, MaxOps, Unit} \subseteq Nat \ {0}
  /\ Rates \in PerKind /\ Usages \subseteq PerKind
  /\ Limits \in [Scopes -> Caps] /\ Lowered \in Caps
  /\ IsFiniteSet(Callers) /\ "principal" \notin Tools
  /\ None \notin Tenants \cup Decisions \cup Entries

VARIABLES
  tenant,   \* the tenant registry: "absent", "active" or "inactive"
  ledger,   \* the ledger of each tenant
  limits,   \* the limits of each tenant's scopes
  excess,   \* scopes charged for a call that reported more than its estimate
  runCalls, \* _run_calls of the gateway: admitted calls of each tool
  quota,    \* the principal's bucket and its buckets by tool
  caller,   \* what each caller is doing
  calls     \* the tool calls made, with what became of each

vars == <<tenant, ledger, limits, excess, runCalls, quota, caller, calls>>

Idle == [at |-> "idle", tenant |-> None, amount |-> Zero, call |-> 0, verdict |-> None]

Principal == "principal"   \* the bucket of the principal itself
Buckets == Tools \cup {Principal}

Init ==
  /\ tenant = [t \in Tenants |-> "absent"]
  /\ ledger = [t \in Tenants |-> [s \in Scopes |-> None]]
  /\ limits = [t \in Tenants |-> Limits]
  /\ excess = [t \in Tenants |-> {}]
  /\ runCalls = [x \in Tools |-> 0]
  /\ quota = [b \in Buckets |-> 0]
  /\ caller = [c \in Callers |-> Idle]
  /\ calls = <<>>

Goto(c, at) == caller' = [caller EXCEPT ![c].at = at]

\* An operation is over; the caller keeps the ledger it has.
Ready(t) == [Idle EXCEPT !.at = "ready", !.tenant = t]
End(c) == caller' = [caller EXCEPT ![c] = Ready(caller[c].tenant)]

-----------------------------------------------------------------------------
(* Tenants and scopes                                                       *)

RegisterTenant(t) ==
  /\ tenant[t] = "absent"
  /\ tenant' = [tenant EXCEPT ![t] = "active"]
  /\ UNCHANGED <<ledger, limits, excess, runCalls, quota, caller, calls>>

Deactivate(t) ==
  /\ tenant[t] = "active"
  /\ tenant' = [tenant EXCEPT ![t] = "inactive"]
  /\ UNCHANGED <<ledger, limits, excess, runCalls, quota, caller, calls>>

\* TenantRegistry.get, as ledger_for asks it.
Open(t) == tenant[t] = "active"

\* The host builds a caller's wrappers with the ledger of its tenant, which
\* they keep for good: nothing they do asks the tenant registry again.
LedgerFor(c, t) ==
  /\ caller[c].at = "idle"
  /\ Open(t)
  /\ caller' = [caller EXCEPT ![c] = Ready(t)]
  /\ UNCHANGED <<tenant, ledger, limits, excess, runCalls, quota, calls>>

\* configure_scope: refused when what is in use exceeds the new limits.
Configure(t, s) ==
  /\ limits[t][s] # Lowered
  /\ WithinLimits(StateOf(ledger[t], s), Zero, Lowered)
  /\ limits' = [limits EXCEPT ![t][s] = Lowered]
  /\ UNCHANGED <<tenant, ledger, excess, runCalls, quota, caller, calls>>

\* The callers with a reservation in the tenant's ledger.
Holders(t) == {c \in Callers : caller[c].tenant = t /\ caller[c].amount # Zero}

\* clear: a scope without reservations is forgotten.
Clear(t, s) ==
  /\ ledger[t][s] # None
  /\ ledger[t][s].active = 0
  /\ Holders(t) = {}
  /\ ledger' = [ledger EXCEPT ![t][s] = None]
  /\ excess' = [excess EXCEPT ![t] = @ \ {s}]
  /\ UNCHANGED <<tenant, limits, runCalls, quota, caller, calls>>

-----------------------------------------------------------------------------
(* Metered work                                                             *)

\* A reservation for amount, or the error that ends the operation.
Take(c, amount, at) ==
  LET t == caller[c].tenant
  IN IF CanReserve(ledger[t], limits[t], Scopes, amount)
     THEN /\ ledger' = [ledger EXCEPT ![t] = Reserve(@, Scopes, amount)]
          /\ caller' = [caller EXCEPT ![c] = [@ EXCEPT !.amount = amount, !.at = at]]
     ELSE ledger' = ledger /\ End(c)

\* BudgetedModelClient.generate up to the provider's call.
Generate(c) ==
  /\ caller[c].at = "ready"
  /\ Take(c, ModelAmount(MaxCost(EstInput, EstOutput)), "model")
  /\ UNCHANGED <<tenant, limits, excess, runCalls, quota, calls>>

\* The loop asks its BudgetPolicy before a step; the answer may be stale when
\* the step is attempted.
Continue(c) ==
  /\ caller[c].at = "ready"
  /\ IF CanContinue(ledger[caller[c].tenant], limits[caller[c].tenant], Run)
     THEN Goto(c, "continue") ELSE End(c)
  /\ UNCHANGED <<tenant, ledger, limits, excess, runCalls, quota, calls>>

\* BudgetedExecutor.execute, which the loop asks its BudgetPolicy before, and
\* BudgetedAgentEndpoint.execute, before which nobody asks, up to the work.
Attempt(c) ==
  /\ caller[c].at \in {"ready", "continue"}
  /\ Take(c, Amount("attempts", 1), "attempt")
  /\ UNCHANGED <<tenant, limits, excess, runCalls, quota, calls>>

\* Settlement of actual for the reservation the caller holds.
Settle(c, actual) ==
  ledger' = [ledger EXCEPT ![caller[c].tenant] = Commit(@, Scopes, caller[c].amount, actual)]

Release(c) ==
  ledger' = [ledger EXCEPT ![caller[c].tenant] = Rollback(@, Scopes, caller[c].amount)]

\* The report of a provider that kept to what was estimated.
Estimated(usage) ==
  /\ usage.input <= EstInput /\ usage.output <= EstOutput
  /\ usage.hit + usage.miss <= usage.input

\* A response, or a parse error that reports its usage: settled as reported.
ModelAnswers(c) ==
  /\ caller[c].at = "model"
  /\ \E usage \in Usages :
       /\ Settle(c, ModelAmount(Cost(usage)))
       /\ excess' = [excess EXCEPT ![caller[c].tenant] = IF Estimated(usage) THEN @ ELSE Scopes]
  /\ End(c)
  /\ UNCHANGED <<tenant, limits, runCalls, quota, calls>>

AttemptEnds(c) ==
  /\ caller[c].at = "attempt"
  /\ Settle(c, caller[c].amount)
  /\ End(c)
  /\ UNCHANGED <<tenant, limits, excess, runCalls, quota, calls>>

\* An exception or a cancellation while the work is under way.
WorkFails(c) ==
  /\ caller[c].at \in {"model", "attempt"}
  /\ Release(c)
  /\ End(c)
  /\ UNCHANGED <<tenant, limits, excess, runCalls, quota, calls>>

-----------------------------------------------------------------------------
(* The gateway                                                              *)

Note(c, field, value) == [calls EXCEPT ![caller[c].call][field] = value]

\* invoke begins: classify finds the tool's policy.
Invoke(c, x) ==
  /\ caller[c].at = "ready"
  /\ Len(calls) < MaxOps
  /\ calls' = Append(calls, [tenant |-> caller[c].tenant, tool |-> x, ran |-> FALSE,
                             audit |-> None, cut |-> FALSE])
  /\ caller' = [caller EXCEPT ![c] =
       [@ EXCEPT !.call = Len(calls) + 1, !.at = IF x \in Risky THEN "approval" ELSE "access"]]
  /\ UNCHANGED <<tenant, ledger, limits, excess, runCalls, quota>>

\* A verdict is reached; the audit record is still to be written.
Verdict(c, verdict) ==
  caller' = [caller EXCEPT ![c] = [@ EXCEPT !.amount = Zero, !.verdict = verdict, !.at = "audit"]]

\* The approval callback lets the call go on, or rejects it (as a missing
\* callback does).
Approve(c) ==
  /\ caller[c].at = "approval"
  /\ Goto(c, "access")
  /\ UNCHANGED <<tenant, ledger, limits, excess, runCalls, quota, calls>>

Reject(c) ==
  /\ caller[c].at = "approval"
  /\ Verdict(c, "denied")
  /\ UNCHANGED <<tenant, ledger, limits, excess, runCalls, quota, calls>>

\* RuleBasedAccessController.authorize: some rule allows the call.
Authorized(t, x) == \E rule \in Rules : rule.tenant \in {None, t} /\ x \in rule.tools

Deny(c) ==
  /\ caller[c].at = "access"
  /\ ~Authorized(caller[c].tenant, calls[caller[c].call].tool)
  /\ Verdict(c, "denied")
  /\ UNCHANGED <<tenant, ledger, limits, excess, runCalls, quota, calls>>

\* _consume_run_call: the tool's calls in this run are used up.
RunExhausted(x) == runCalls[x] >= MaxPerRun

\* check_and_consume: one more call would exceed a bucket.
QuotaExhausted(x) == quota[Principal] + 1 > MaxCalls \/ quota[x] + 1 > MaxToolCalls

\* Access is granted; the run's limit, then the quota, without an await. A
\* call the quota refuses keeps its share of the run's limit.
Admit(c) ==
  /\ caller[c].at = "access"
  /\ LET x == calls[caller[c].call].tool
     IN /\ Authorized(caller[c].tenant, x)
        /\ runCalls' = IF RunExhausted(x) THEN runCalls ELSE [runCalls EXCEPT ![x] = @ + 1]
        /\ IF RunExhausted(x) \/ QuotaExhausted(x)
           THEN Verdict(c, "quota_exceeded") /\ UNCHANGED quota
           ELSE /\ quota' = [quota EXCEPT ![Principal] = @ + 1, ![x] = @ + 1]
                /\ Goto(c, "invoke")
  /\ UNCHANGED <<tenant, ledger, limits, excess, calls>>

\* ToolRegistry.invoke and BudgetedTool.invoke up to the tool.
StartTool(c) ==
  /\ caller[c].at = "invoke"
  /\ LET t == caller[c].tenant
         one == Amount("tool_calls", 1)
     IN /\ CanReserve(ledger[t], limits[t], Scopes, one)
        /\ ledger' = [ledger EXCEPT ![t] = Reserve(@, Scopes, one)]
        /\ caller' = [caller EXCEPT ![c] = [@ EXCEPT !.amount = one, !.at = "tool"]]
        /\ calls' = Note(c, "ran", TRUE)
  /\ UNCHANGED <<tenant, limits, excess, runCalls, quota>>

\* The registry refuses the call (closing, unknown tool, no permission) or the
\* ledger has no room.
RefuseTool(c) ==
  /\ caller[c].at = "invoke"
  /\ Verdict(c, "error")
  /\ UNCHANGED <<tenant, ledger, limits, excess, runCalls, quota, calls>>

\* The tool returns: settled; a violation found by the settlement is an error.
ToolReturns(c) ==
  /\ caller[c].at = "tool"
  /\ Settle(c, caller[c].amount)
  /\ Verdict(c, IF Violated(ledger'[caller[c].tenant], limits[caller[c].tenant], Scopes)
                THEN "error" ELSE "allowed")
  /\ UNCHANGED <<tenant, limits, excess, runCalls, quota, calls>>

ToolRaises(c) ==
  /\ caller[c].at = "tool"
  /\ Release(c)
  /\ Verdict(c, "error")
  /\ UNCHANGED <<tenant, limits, excess, runCalls, quota, calls>>

\* Mutant: a call is recorded by whether the tool has been admitted.
AuditAdmitted(c) ==
  /\ caller[c].at = "audit"
  /\ calls' = Note(c, "audit",
       IF runCalls[calls[caller[c].call].tool] > 0 THEN "allowed" ELSE caller[c].verdict)
  /\ End(c)
  /\ UNCHANGED <<tenant, ledger, limits, excess, runCalls, quota>>

\* The audit sink takes the record, and invoke returns or raises.
Audit(c) ==
  /\ caller[c].at = "audit"
  /\ calls' = Note(c, "audit", caller[c].verdict)
  /\ End(c)
  /\ UNCHANGED <<tenant, ledger, limits, excess, runCalls, quota>>

\* A cancellation at an await, or an error of the approval callback, the
\* access controller or the audit sink: no exit of invoke catches it, only
\* the reservation is given back.
Interrupt(c) ==
  /\ caller[c].at \in {"approval", "access", "invoke", "tool", "audit"}
  /\ IF caller[c].at = "tool" THEN Release(c) ELSE UNCHANGED ledger
  /\ calls' = Note(c, "cut", TRUE)
  /\ End(c)
  /\ UNCHANGED <<tenant, limits, excess, runCalls, quota>>

\* reset of one tool's bucket, or of all buckets of the principal.
ResetQuota(b) ==
  /\ quota[b] > 0
  /\ quota' = [x \in Buckets |-> IF b \in {Principal, x} THEN 0 ELSE quota[x]]
  /\ UNCHANGED <<tenant, ledger, limits, excess, runCalls, caller, calls>>

Next ==
  \/ \E t \in Tenants : RegisterTenant(t) \/ Deactivate(t)
  \/ \E t \in Tenants : (\E s \in Tuned : Configure(t, s)) \/ (\E s \in Cleared : Clear(t, s))
  \/ \E c \in Callers, t \in Tenants : LedgerFor(c, t)
  \/ \E c \in Callers, x \in Tools : Invoke(c, x)
  \/ \E c \in Callers :
       \/ Generate(c) \/ ModelAnswers(c) \/ Continue(c) \/ Attempt(c) \/ AttemptEnds(c)
       \/ WorkFails(c) \/ Approve(c) \/ Reject(c) \/ Deny(c) \/ Admit(c) \/ StartTool(c)
       \/ RefuseTool(c) \/ ToolReturns(c) \/ ToolRaises(c) \/ Audit(c) \/ Interrupt(c)
  \/ \E b \in Buckets : ResetQuota(b)

Spec == Init /\ [][Next]_vars

-----------------------------------------------------------------------------
(* Properties                                                               *)

\* The state is well formed; in particular no reservation and no count of
\* calls under way is ever negative.
TypeOK ==
  /\ tenant \in [Tenants -> {"absent", "active", "inactive"}]
  /\ \A t \in Tenants, s \in Scopes :
       \/ ledger[t][s] = None
       \/ /\ ledger[t][s].committed \in [Resources -> Nat]
          /\ ledger[t][s].reserved \in [Resources -> Nat]
          /\ ledger[t][s].active \in Nat
  /\ limits \in [Tenants -> [Scopes -> {Limits[s] : s \in Scopes} \cup {Lowered}]]
  /\ excess \in [Tenants -> SUBSET Scopes]
  /\ runCalls \in [Tools -> Nat] /\ quota \in [Buckets -> Nat]
  /\ \A i \in DOMAIN calls : calls[i].tool \in Tools /\ calls[i].audit \in Decisions \cup {None}
  /\ \A c \in Callers : caller[c].verdict \in Decisions \cup {None} /\ caller[c].call \in 0..Len(calls)

\* No overselling (the docstring of UsageLedger): what is spent and what is
\* reserved stays within the limits of every scope, however the callers
\* interleave and whatever the cached and reasoning tokens of an answer cost,
\* as long as no provider reports more tokens than the estimate.
NoOversell ==
  \A t \in Tenants, s \in Scopes :
    ledger[t][s] # None /\ s \notin excess[t] => WithinLimits(ledger[t][s], Zero, limits[t][s])

\* What one operation reserves of a resource, if it reserves any, and what the
\* callers hold of it together.
Share(r) == IF r = "cost" THEN MaxCost(EstInput, EstOutput) ELSE 1
Held(t, r) == Share(r) * Cardinality({c \in Holders(t) : caller[c].amount[r] # 0})

\* Every scope's reservations and its count of calls under way are exactly
\* those of the callers at work: none is lost by a clear or left behind by a
\* failure, a cancellation or a settlement.
ReservedBacked ==
  /\ \A c \in Callers, r \in Resources : caller[c].amount[r] \in {0, Share(r)}
  /\ \A t \in Tenants, s \in Scopes :
       LET state == StateOf(ledger[t], s)
       IN /\ state.active = Held(t, "model_calls")
          /\ \A r \in Resources : state.reserved[r] = Held(t, r)

\* A tool runs at most max_calls_per_run times in a run, whatever becomes of
\* its calls and however often the principal's quota is reset.
RunLimitHolds ==
  \A x \in Tools : Cardinality({i \in DOMAIN calls : calls[i].tool = x /\ calls[i].ran}) <= MaxPerRun

\* The audit trail tells the truth: a call recorded as denied or over quota
\* never ran its tool, one recorded as allowed did, and a call that left the
\* gateway has its record unless it was cut off.
AuditTellsTruth ==
  \A i \in DOMAIN calls :
    /\ calls[i].audit \in {"denied", "quota_exceeded"} => ~calls[i].ran
    /\ calls[i].audit = "allowed" => calls[i].ran
    /\ calls[i].audit = None => calls[i].cut \/ \E c \in Callers : caller[c].call = i

\* The trail and the ledger of a tenant agree on its tool calls: each one
\* recorded as allowed has been charged to every scope that is not cleared, by
\* the ledger its wrapper was built with, and nothing is charged for a call
\* that did not run, whether the tool returned, raised or was cut off.
ChargedTools(t, s) == StateOf(ledger[t], s).committed["tool_calls"]
TrailMatchesLedger ==
  \A t \in Tenants, s \in Scopes :
    LET mine == {i \in DOMAIN calls : calls[i].tenant = t}
    IN /\ s \notin Cleared =>
            Cardinality({i \in mine : calls[i].audit = "allowed"}) <= ChargedTools(t, s)
       /\ ChargedTools(t, s) <= Cardinality({i \in mine : calls[i].ran})

\* The books balance after any interleaving of reservations, settlements and
\* failures: nothing is oversold and nothing stays reserved (UsageLedger).
BooksBalance == TypeOK /\ NoOversell /\ ReservedBacked

\* Calls of tools are limited, audited as what they were and charged to the
\* tenant whose ledger their wrapper has, active or not (McpGateway, BudgetedTool).
CallsAccounted == RunLimitHolds /\ AuditTellsTruth /\ TrailMatchesLedger
=============================================================================
