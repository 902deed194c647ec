---------------------------- MODULE UsageLedger ----------------------------
(***************************************************************************)
(* UsageLedger of matterloop_policies/usage.py: reservations of resources  *)
(* over several scopes at once, their settlement and their rollback, and   *)
(* the TokenRateCard of metering.py that prices a model call. The ledger   *)
(* works under one lock, so an operation is a function of its state.       *)
(*                                                                         *)
(* A ledger maps a scope to [committed, reserved, active] or to None       *)
(* before its first use; an amount maps a resource to a number. The token  *)
(* kinds behave as cost does and agent tasks as attempts: one of each      *)
(* stands for all.                                                         *)
(***************************************************************************)
EXTENDS Integers, FiniteSetsExt

CONSTANTS
  Scopes,
  None,
  Rates,   \* price per unit of input, hit, miss, output and reasoning tokens
  Unit     \* _MICROS_PER_MILLION

Resources == {"model_calls", "cost", "tool_calls", "attempts"}

Zero == [r \in Resources |-> 0]
Amount(resource, n) == [Zero EXCEPT ![resource] = n]

-----------------------------------------------------------------------------
(* Prices                                                                   *)

CeilDiv(n, d) == (n + d - 1) \div d

\* calculate_cost: cached input, the rest of the input and both kinds of
\* output at their own rates, rounded up once.
Cost(usage) ==
  LET ordinary == Max({0, usage.input - (usage.hit + usage.miss)})
      reasoning == Min({usage.reasoning, usage.output})
  IN CeilDiv(ordinary * Rates.input + usage.hit * Rates.hit + usage.miss * Rates.miss
             + (usage.output - reasoning) * Rates.output + reasoning * Rates.reasoning, Unit)

\* Mutant: the reservation is made at the ordinary rates.
MaxCostOrdinary(input, output) ==
  CeilDiv(input * Rates.input + output * Rates.output, Unit)

\* estimate_max_cost: the highest rate of each side.
MaxCost(input, output) ==
  CeilDiv(input * Max({Rates.input, Rates.hit, Rates.miss})
          + output * Max({Rates.output, Rates.reasoning}), Unit)

\* One model call and what it costs or may cost.
ModelAmount(cost) == [Zero EXCEPT !["model_calls"] = 1, !["cost"] = cost]

-----------------------------------------------------------------------------
(* The ledger                                                               *)

Add(a, b) == [r \in Resources |-> a[r] + b[r]]
Subtract(a, b) == [r \in Resources |-> a[r] - b[r]]

\* What a ledger keeps of a scope.
Entries == [committed : [Resources -> Nat], reserved : [Resources -> Nat], active : Nat]

Fresh == [committed |-> Zero, reserved |-> Zero, active |-> 0]

StateOf(ledger, s) == IF ledger[s] = None THEN Fresh ELSE ledger[s]

\* _check_limits: what is committed, reserved and asked for stays within each
\* limit; model calls under way within the limit on concurrent ones.
WithinLimits(state, amount, limits) ==
  /\ \A r \in Resources : state.committed[r] + state.reserved[r] + amount[r] <= limits[r]
  /\ state.active + amount["model_calls"] <= limits.concurrent

\* reserve: every scope has room.
CanReserve(ledger, limits, scopes, amount) ==
  \A s \in scopes : WithinLimits(StateOf(ledger, s), amount, limits[s])

Reserve(ledger, scopes, amount) ==
  [s \in Scopes |->
     IF s \notin scopes THEN ledger[s]
     ELSE [StateOf(ledger, s) EXCEPT !.reserved = Add(@, amount),
                                     !.active = @ + amount["model_calls"]]]

Rollback(ledger, scopes, amount) ==
  [s \in Scopes |->
     IF s \notin scopes THEN ledger[s]
     ELSE [ledger[s] EXCEPT !.reserved = Subtract(@, amount),
                            !.active = @ - amount["model_calls"]]]

\* consume and the second half of commit: what was used is recorded.
Charge(ledger, scopes, amount) ==
  [s \in Scopes |->
     IF s \notin scopes THEN ledger[s]
     ELSE [StateOf(ledger, s) EXCEPT !.committed = Add(@, amount)]]

\* commit: the reservation is released and the actual use recorded, even
\* beyond the limits; the caller then gets the violation as an error.
Commit(ledger, scopes, amount, actual) ==
  Charge(Rollback(ledger, scopes, amount), scopes, actual)

Violated(ledger, limits, scopes) ==
  \E s \in scopes : ~WithinLimits(StateOf(ledger, s), Zero, limits[s])

\* BudgetPolicy.can_continue: every resource of the run is below its limit.
CanContinue(ledger, limits, s) ==
  LET state == StateOf(ledger, s)
  IN /\ \A r \in Resources : state.committed[r] + state.reserved[r] < limits[s][r]
     /\ state.active < limits[s].concurrent

=============================================================================
