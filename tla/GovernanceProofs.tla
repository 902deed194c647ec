-------------------------- MODULE GovernanceProofs --------------------------
(***************************************************************************)
(* The books of every tenant balance and every tool call is limited and    *)
(* audited as what it was, for any tenants, callers, tools, scopes, rates, *)
(* limits and reports of the providers: Spec => []BooksBalance and         *)
(* Spec => []CallsAccounted.                                               *)
(*                                                                         *)
(* NoOversell is not inductive: that a settlement stays within the limits  *)
(* rests on the reservation it replaces, so what a scope reserves has to   *)
(* be what the callers hold, and what a caller holds to be told by where   *)
(* it is (CallersFit). An answer within the estimate costs at most what    *)
(* was reserved, whatever the rates and the roundings (EstimateCovers).    *)
(* RunLimitHolds counts calls that ran; IInv counts those admitted too,    *)
(* and AuditTellsTruth needs what each stage says of its call (Tells).     *)
(* TrailMatchesLedger counts records that are written; TrailInv adds those *)
(* about to be (Paid), leaves out the calls still under way (Finished) and *)
(* puts what the ledger was charged between the two.                       *)
(***************************************************************************)
EXTENDS ToolGovernance, FiniteSetTheorems, TLAPS

Amounts == [Resources -> Nat]

\* The ledger of a tenant.
Ledgers == [Scopes -> Entries \cup {None}]

\* A tool call, and where a caller is inside the gateway with one.
Call == [tenant : Tenants, tool : Tools, ran : BOOLEAN, audit : Decisions \cup {None}, cut : BOOLEAN]
Gateway == {"approval", "access", "invoke", "tool", "audit"}
Stages == {"idle", "ready", "continue", "model", "attempt"} \cup Gateway

\* What a caller has reserved is told by where it is.
Load(at) ==
  IF at = "model" THEN ModelAmount(Share("cost"))
  ELSE IF at = "attempt" THEN Amount("attempts", 1)
  ELSE IF at = "tool" THEN Amount("tool_calls", 1) ELSE Zero

\* A caller when n calls have been made.
Fits(k, n) ==
  /\ k \in [at : Stages, tenant : Tenants \cup {None}, amount : Amounts, call : 0..n,
            verdict : Decisions \cup {None}]
  /\ k.amount = Load(k.at)
  /\ k.at = "idle" <=> k.tenant = None
  /\ k.call # 0 <=> k.at \in Gateway
  /\ k.verdict # None <=> k.at = "audit"

\* Every caller fits, and no two of them are at the same call.
CallersFit(k, n) ==
  /\ k = [c \in Callers |-> k[c]]
  /\ \A c \in Callers : Fits(k[c], n)
  /\ \A c, d \in Callers : k[c].call # 0 /\ k[c].call = k[d].call => c = d

\* The callers that hold some of a resource of a tenant.
Holding(k, t, r) == {c \in Callers : k[c].tenant = t /\ k[c].amount[r] # 0}
Count(k, t, r) == Cardinality(Holding(k, t, r))

\* A scope's reservations are those of the callers k.
Backed(l, k, t) ==
  \A s \in Scopes :
    /\ StateOf(l, s).active = Count(k, t, "model_calls")
    /\ \A r \in Resources : StateOf(l, s).reserved[r] = Share(r) * Count(k, t, r)

\* No scope of a tenant is oversold, unless it was charged for an excess.
Within(l, limit, over) ==
  \A s \in Scopes : l[s] # None /\ s \notin over => WithinLimits(l[s], Zero, limit[s])

\* What the stage of a caller tells of its call.
Tells(k, call) ==
  /\ call.audit = None
  /\ k.at \in {"approval", "access", "invoke"} => ~call.ran
  /\ k.at = "tool" => call.ran
  /\ k.verdict \in {"denied", "quota_exceeded"} => ~call.ran
  /\ k.verdict = "allowed" => call.ran

\* The record of a call that has left the gateway is true.
Truthful(call, present) ==
  /\ call.audit \in {"denied", "quota_exceeded"} => ~call.ran
  /\ call.audit = "allowed" => call.ran
  /\ call.audit = None => call.cut \/ present

CallsTold(k, h) ==
  /\ \A c \in Callers : k[c].call # 0 => Tells(k[c], h[k[c].call])
  /\ \A i \in DOMAIN h : Truthful(h[i], \E c \in Callers : k[c].call = i)

\* The calls of a tool that used up some of its limit: they ran or may yet.
Counted(k, h, x) ==
  {i \in DOMAIN h : h[i].tool = x /\ (h[i].ran \/ \E c \in Callers : k[c].call = i /\ k[c].at = "invoke")}

RunsCounted(k, h, n) ==
  \A x \in Tools : Cardinality(Counted(k, h, x)) <= n[x] /\ n[x] <= MaxPerRun

Shape ==
  /\ tenant \in [Tenants -> {"absent", "active", "inactive"}]
  /\ ledger \in [Tenants -> Ledgers]
  /\ limits \in [Tenants -> [Scopes -> {Limits[s] : s \in Scopes} \cup {Lowered}]]
  /\ excess \in [Tenants -> SUBSET Scopes]
  /\ runCalls \in [Tools -> Nat] /\ quota \in [Buckets -> Nat]
  /\ calls \in Seq(Call)

\* The books of every tenant.
BooksOf(l, k, limit, over) ==
  \A t \in Tenants : Backed(l[t], k, t) /\ Within(l[t], limit[t], over[t])

IInv ==
  /\ Shape
  /\ CallersFit(caller, Len(calls))
  /\ BooksOf(ledger, caller, limits, excess)
  /\ CallsTold(caller, calls)
  /\ RunsCounted(caller, calls, runCalls)

-----------------------------------------------------------------------------
(* Prices                                                                    *)

\* Rounding up keeps an order.
LEMMA CeilDivMonotone ==
  ASSUME NEW a \in Nat, NEW b \in Nat, a <= b
  PROVE  CeilDiv(a, Unit) \in Nat /\ CeilDiv(a, Unit) <= CeilDiv(b, Unit)
<1> DEFINE n == a + Unit - 1
           m == b + Unit - 1
<1>1. Unit \in Nat /\ Unit > 0
  BY GovernanceAssumption
<1>2. n \in Nat /\ m \in Nat /\ n <= m
  BY <1>1
<1>3. n \div Unit \in Int /\ 0 <= n \div Unit /\ n \div Unit <= m \div Unit
  <2> HIDE DEF n, m
  <2> QED BY <1>1, <1>2
<1> QED BY <1>3 DEF CeilDiv

LEMMA MaxOfThree ==
  ASSUME NEW a \in Int, NEW b \in Int, NEW c \in Int
  PROVE  /\ Max({a, b, c}) \in {a, b, c}
         /\ a <= Max({a, b, c}) /\ b <= Max({a, b, c}) /\ c <= Max({a, b, c})
<1>1. \E x \in {a, b, c} : \A y \in {a, b, c} : x >= y
  OBVIOUS
<1> QED BY <1>1 DEF Max

LEMMA MaxOfTwo ==
  ASSUME NEW a \in Int, NEW b \in Int
  PROVE  Max({a, b}) \in {a, b} /\ a <= Max({a, b}) /\ b <= Max({a, b})
<1>1. \E x \in {a, b} : \A y \in {a, b} : x >= y
  OBVIOUS
<1> QED BY <1>1 DEF Max

LEMMA MinOfTwo ==
  ASSUME NEW a \in Int, NEW b \in Int
  PROVE  Min({a, b}) \in {a, b} /\ Min({a, b}) <= a /\ Min({a, b}) <= b
<1>1. \E x \in {a, b} : \A y \in {a, b} : x <= y
  OBVIOUS
<1> QED BY <1>1 DEF Min

\* Multiplication keeps an order.
LEMMA TimesMonotone ==
  ASSUME NEW a \in Nat, NEW b \in Nat, NEW c \in Nat, NEW d \in Nat, a <= b, c <= d
  PROVE  a * c \in Nat /\ a * c <= b * d
<1>1. a * c \in Nat /\ a * d \in Nat /\ b * d \in Nat
  OBVIOUS
<1>2. a * c <= a * d
  OBVIOUS
<1>3. a * d <= b * d
  OBVIOUS
<1> QED BY <1>1, <1>2, <1>3

LEMMA TimesSum ==
  ASSUME NEW a \in Nat, NEW b \in Nat, NEW m \in Nat
  PROVE  a * m + b * m = (a + b) * m
OBVIOUS

\* An answer within the estimate costs at most what was reserved for it.
LEMMA EstimateCovers ==
  ASSUME NEW usage \in Usages, Estimated(usage)
  PROVE  Cost(usage) \in Nat /\ Cost(usage) <= MaxCost(EstInput, EstOutput)
<1> DEFINE ordinary == Max({0, usage.input - (usage.hit + usage.miss)})
           reasoning == Min({usage.reasoning, usage.output})
           top == Max({Rates.input, Rates.hit, Rates.miss})
           peak == Max({Rates.output, Rates.reasoning})
           answer == usage.output - reasoning
<1>1. /\ usage.input \in Nat /\ usage.hit \in Nat /\ usage.miss \in Nat
      /\ usage.output \in Nat /\ usage.reasoning \in Nat
  BY GovernanceAssumption DEF PerKind
<1>2. /\ Rates.input \in Nat /\ Rates.hit \in Nat /\ Rates.miss \in Nat
      /\ Rates.output \in Nat /\ Rates.reasoning \in Nat
  BY GovernanceAssumption DEF PerKind
<1>3. EstInput \in Nat /\ EstOutput \in Nat
  BY GovernanceAssumption
<1>4. /\ usage.input <= EstInput /\ usage.output <= EstOutput
      /\ usage.hit + usage.miss <= usage.input
  BY DEF Estimated
<1>5. ordinary \in Nat /\ ordinary + usage.hit + usage.miss = usage.input
  <2>1. ordinary \in {0, usage.input - (usage.hit + usage.miss)}
        /\ usage.input - (usage.hit + usage.miss) <= ordinary
    <3>1. 0 \in Int /\ usage.input - (usage.hit + usage.miss) \in Int
      BY <1>1
    <3> QED BY <3>1, MaxOfTwo, Zenon
  <2> QED BY <2>1, <1>1, <1>4
<1>6. reasoning \in Nat /\ answer \in Nat /\ answer + reasoning = usage.output
  <2>1. reasoning \in {usage.reasoning, usage.output} /\ reasoning <= usage.output
    <3>1. usage.reasoning \in Int /\ usage.output \in Int
      BY <1>1
    <3> QED BY <3>1, MinOfTwo, Zenon
  <2> QED BY <2>1, <1>1
<1>7. top \in Nat /\ Rates.input <= top /\ Rates.hit <= top /\ Rates.miss <= top
  <2>1. Rates.input \in Int /\ Rates.hit \in Int /\ Rates.miss \in Int
    BY <1>2
  <2>2. /\ top \in {Rates.input, Rates.hit, Rates.miss}
        /\ Rates.input <= top /\ Rates.hit <= top /\ Rates.miss <= top
    BY <2>1, MaxOfThree, Zenon
  <2> QED BY <1>2, <2>2
<1>8. peak \in Nat /\ Rates.output <= peak /\ Rates.reasoning <= peak
  <2>1. Rates.output \in Int /\ Rates.reasoning \in Int
    BY <1>2
  <2>2. peak \in {Rates.output, Rates.reasoning} /\ Rates.output <= peak /\ Rates.reasoning <= peak
    BY <2>1, MaxOfTwo, Zenon
  <2> QED BY <1>2, <2>2
<1> HIDE DEF ordinary, reasoning, top, peak, answer
<1>9. /\ ordinary * Rates.input \in Nat /\ ordinary * Rates.input <= ordinary * top
      /\ usage.hit * Rates.hit \in Nat /\ usage.hit * Rates.hit <= usage.hit * top
      /\ usage.miss * Rates.miss \in Nat /\ usage.miss * Rates.miss <= usage.miss * top
  BY <1>1, <1>2, <1>5, <1>7, TimesMonotone
<1>10. /\ answer * Rates.output \in Nat /\ answer * Rates.output <= answer * peak
       /\ reasoning * Rates.reasoning \in Nat /\ reasoning * Rates.reasoning <= reasoning * peak
  BY <1>2, <1>6, <1>8, TimesMonotone
<1>11. ordinary * top + usage.hit * top + usage.miss * top <= EstInput * top
  <2>1. ordinary * top + usage.hit * top = (ordinary + usage.hit) * top
    BY <1>1, <1>5, <1>7, TimesSum
  <2>2. (ordinary + usage.hit) * top + usage.miss * top = (ordinary + usage.hit + usage.miss) * top
    BY <1>1, <1>5, <1>7, TimesSum
  <2>3. usage.input * top <= EstInput * top
    BY <1>1, <1>3, <1>4, <1>7, TimesMonotone
  <2> QED BY <2>1, <2>2, <2>3, <1>5
<1>12. answer * peak + reasoning * peak <= EstOutput * peak
  <2>1. answer * peak + reasoning * peak = (answer + reasoning) * peak
    BY <1>6, <1>8, TimesSum
  <2>2. usage.output * peak <= EstOutput * peak
    BY <1>1, <1>3, <1>4, <1>8, TimesMonotone
  <2> QED BY <2>1, <2>2, <1>6
<1> DEFINE spent == ordinary * Rates.input + usage.hit * Rates.hit + usage.miss * Rates.miss
                    + answer * Rates.output + reasoning * Rates.reasoning
           most == EstInput * top + EstOutput * peak
<1>13. spent \in Nat /\ most \in Nat /\ spent <= most
  <2>1. EstInput * top \in Nat /\ EstOutput * peak \in Nat
    BY <1>3, <1>7, <1>8
  <2>2. /\ ordinary * top \in Nat /\ usage.hit * top \in Nat /\ usage.miss * top \in Nat
        /\ answer * peak \in Nat /\ reasoning * peak \in Nat
    BY <1>1, <1>5, <1>6, <1>7, <1>8
  <2> DEFINE a1 == ordinary * Rates.input
             a2 == usage.hit * Rates.hit
             a3 == usage.miss * Rates.miss
             a4 == answer * Rates.output
             a5 == reasoning * Rates.reasoning
             b1 == ordinary * top
             b2 == usage.hit * top
             b3 == usage.miss * top
             b4 == answer * peak
             b5 == reasoning * peak
             m1 == EstInput * top
             m2 == EstOutput * peak
  <2>3. /\ a1 \in Nat /\ a2 \in Nat /\ a3 \in Nat /\ a4 \in Nat /\ a5 \in Nat
        /\ b1 \in Nat /\ b2 \in Nat /\ b3 \in Nat /\ b4 \in Nat /\ b5 \in Nat
        /\ m1 \in Nat /\ m2 \in Nat
        /\ a1 <= b1 /\ a2 <= b2 /\ a3 <= b3 /\ a4 <= b4 /\ a5 <= b5
        /\ b1 + b2 + b3 <= m1 /\ b4 + b5 <= m2
    BY <1>9, <1>10, <1>11, <1>12, <2>1, <2>2
  <2> HIDE DEF a1, a2, a3, a4, a5, b1, b2, b3, b4, b5, m1, m2
  <2>4. /\ a1 + a2 + a3 + a4 + a5 \in Nat /\ m1 + m2 \in Nat
        /\ a1 + a2 + a3 + a4 + a5 <= m1 + m2
    BY <2>3
  <2> QED BY <2>4 DEF a1, a2, a3, a4, a5, m1, m2
<1>14. Cost(usage) = CeilDiv(spent, Unit)
  BY DEF Cost, ordinary, reasoning, answer
<1>15. MaxCost(EstInput, EstOutput) = CeilDiv(most, Unit)
  BY DEF MaxCost, top, peak
<1> HIDE DEF spent, most
<1> QED BY <1>13, <1>14, <1>15, CeilDivMonotone

-----------------------------------------------------------------------------
(* Operations of a ledger                                                    *)

LEMMA AmountTypes ==
  /\ Zero \in Amounts /\ Fresh \in Entries /\ None \notin Entries
  /\ Amount("attempts", 1) \in Amounts /\ Amount("tool_calls", 1) \in Amounts
  /\ \A n \in Nat : ModelAmount(n) \in Amounts
<1>1. Zero \in Amounts
  BY DEF Zero, Amounts
<1>2. Fresh \in Entries
  BY <1>1 DEF Fresh, Entries, Amounts
<1> QED BY <1>1, <1>2, GovernanceAssumption DEF Amount, ModelAmount, Amounts, Resources

LEMMA StateTyped ==
  ASSUME NEW l \in Ledgers, NEW s \in Scopes
  PROVE  /\ StateOf(l, s) \in Entries
         /\ l[s] # None => StateOf(l, s) = l[s]
  BY AmountTypes DEF StateOf, Ledgers

LEMMA ReserveEffect ==
  ASSUME NEW l \in Ledgers, NEW a \in Amounts
  PROVE  /\ Reserve(l, Scopes, a) \in Ledgers
         /\ \A s \in Scopes :
              /\ Reserve(l, Scopes, a)[s] \in Entries
              /\ Reserve(l, Scopes, a)[s].committed = StateOf(l, s).committed
              /\ Reserve(l, Scopes, a)[s].reserved = Add(StateOf(l, s).reserved, a)
              /\ Reserve(l, Scopes, a)[s].active = StateOf(l, s).active + a["model_calls"]
<1> DEFINE R == Reserve(l, Scopes, a)
<1>1. ASSUME NEW s \in Scopes
      PROVE  /\ R[s] \in Entries
             /\ R[s].committed = StateOf(l, s).committed
             /\ R[s].reserved = Add(StateOf(l, s).reserved, a)
             /\ R[s].active = StateOf(l, s).active + a["model_calls"]
  <2> DEFINE e == StateOf(l, s)
  <2>1. e \in Entries
    BY StateTyped
  <2>2. Add(e.reserved, a) \in Amounts
    BY <2>1 DEF Add, Entries, Amounts
  <2>3. e.active + a["model_calls"] \in Nat
    BY <2>1 DEF Entries, Amounts, Resources
  <2>4. R[s] = [e EXCEPT !.reserved = Add(e.reserved, a), !.active = e.active + a["model_calls"]]
    BY <2>1 DEF Reserve, Entries
  <2> DEFINE b == Add(e.reserved, a)
             n == e.active + a["model_calls"]
  <2> HIDE DEF R, e, b, n
  <2>5. R[s] = [e EXCEPT !.reserved = b, !.active = n]
    BY <2>4 DEF b, n
  <2>6. b \in Amounts /\ n \in Nat
    BY <2>2, <2>3 DEF b, n
  <2>7. /\ R[s] \in Entries /\ R[s].reserved = b /\ R[s].active = n /\ R[s].committed = e.committed
    BY <2>1, <2>5, <2>6 DEF Entries, Amounts
  <2> QED BY <2>7 DEF e, b, n
<1>2. R \in Ledgers
  <2>1. R = [s \in Scopes |-> R[s]]
    BY DEF Reserve
  <2> HIDE DEF R
  <2> QED BY <1>1, <2>1 DEF Ledgers
<1> QED BY <1>1, <1>2

LEMMA RollbackEffect ==
  ASSUME NEW l \in Ledgers, NEW a \in Amounts,
         \A s \in Scopes : /\ l[s] \in Entries /\ a["model_calls"] <= l[s].active
                           /\ \A r \in Resources : a[r] <= l[s].reserved[r]
  PROVE  /\ Rollback(l, Scopes, a) \in Ledgers
         /\ \A s \in Scopes :
              /\ Rollback(l, Scopes, a)[s] \in Entries
              /\ Rollback(l, Scopes, a)[s].committed = l[s].committed
              /\ Rollback(l, Scopes, a)[s].reserved = Subtract(l[s].reserved, a)
              /\ Rollback(l, Scopes, a)[s].active = l[s].active - a["model_calls"]
<1> DEFINE R == Rollback(l, Scopes, a)
<1>1. ASSUME NEW s \in Scopes
      PROVE  /\ R[s] \in Entries
             /\ R[s].committed = l[s].committed
             /\ R[s].reserved = Subtract(l[s].reserved, a)
             /\ R[s].active = l[s].active - a["model_calls"]
  <2> DEFINE e == l[s]
  <2>1. e \in Entries /\ a["model_calls"] <= e.active /\ \A r \in Resources : a[r] <= e.reserved[r]
    OBVIOUS
  <2>2. Subtract(e.reserved, a) \in Amounts
    BY <2>1 DEF Subtract, Entries, Amounts
  <2>3. e.active - a["model_calls"] \in Nat
    BY <2>1 DEF Entries, Amounts, Resources
  <2>4. R[s] = [e EXCEPT !.reserved = Subtract(e.reserved, a), !.active = e.active - a["model_calls"]]
    BY <2>1 DEF Rollback, Entries
  <2> DEFINE b == Subtract(e.reserved, a)
             n == e.active - a["model_calls"]
  <2> HIDE DEF R, e, b, n
  <2>5. R[s] = [e EXCEPT !.reserved = b, !.active = n]
    BY <2>4 DEF b, n
  <2>6. b \in Amounts /\ n \in Nat
    BY <2>2, <2>3 DEF b, n
  <2>7. /\ R[s] \in Entries /\ R[s].reserved = b /\ R[s].active = n /\ R[s].committed = e.committed
    BY <2>1, <2>5, <2>6 DEF Entries, Amounts
  <2> QED BY <2>7 DEF e, b, n
<1>2. R \in Ledgers
  <2>1. R = [s \in Scopes |-> R[s]]
    BY DEF Rollback
  <2> HIDE DEF R
  <2> QED BY <1>1, <2>1 DEF Ledgers
<1> QED BY <1>1, <1>2

LEMMA ChargeEffect ==
  ASSUME NEW l \in Ledgers, NEW a \in Amounts, \A s \in Scopes : l[s] \in Entries
  PROVE  /\ Charge(l, Scopes, a) \in Ledgers
         /\ \A s \in Scopes :
              /\ Charge(l, Scopes, a)[s] \in Entries
              /\ Charge(l, Scopes, a)[s].committed = Add(l[s].committed, a)
              /\ Charge(l, Scopes, a)[s].reserved = l[s].reserved
              /\ Charge(l, Scopes, a)[s].active = l[s].active
<1> DEFINE R == Charge(l, Scopes, a)
<1>1. ASSUME NEW s \in Scopes
      PROVE  /\ R[s] \in Entries
             /\ R[s].committed = Add(l[s].committed, a)
             /\ R[s].reserved = l[s].reserved
             /\ R[s].active = l[s].active
  <2> DEFINE e == l[s]
  <2>1. e \in Entries
    OBVIOUS
  <2>2. Add(e.committed, a) \in Amounts
    BY <2>1 DEF Add, Entries, Amounts
  <2>3. StateOf(l, s) = e
    BY <2>1, AmountTypes DEF StateOf
  <2>4. R[s] = [e EXCEPT !.committed = Add(e.committed, a)]
    BY <2>1, <2>3 DEF Charge, Entries
  <2> DEFINE b == Add(e.committed, a)
  <2> HIDE DEF R, e, b
  <2>5. R[s] = [e EXCEPT !.committed = b] /\ b \in Amounts /\ 0 \in Nat
    BY <2>2, <2>4 DEF b
  <2>6. /\ R[s] \in Entries /\ R[s].committed = b
        /\ R[s].reserved = e.reserved /\ R[s].active = e.active
    BY <2>1, <2>5 DEF Entries, Amounts
  <2> QED BY <2>6 DEF e, b
<1>2. R \in Ledgers
  <2>1. R = [s \in Scopes |-> R[s]]
    BY DEF Charge
  <2> HIDE DEF R
  <2> QED BY <1>1, <2>1 DEF Ledgers
<1> QED BY <1>1, <1>2

LEMMA CommitEffect ==
  ASSUME NEW l \in Ledgers, NEW a \in Amounts, NEW b \in Amounts,
         \A s \in Scopes : /\ l[s] \in Entries /\ a["model_calls"] <= l[s].active
                           /\ \A r \in Resources : a[r] <= l[s].reserved[r]
  PROVE  /\ Commit(l, Scopes, a, b) \in Ledgers
         /\ \A s \in Scopes :
              /\ Commit(l, Scopes, a, b)[s] \in Entries
              /\ Commit(l, Scopes, a, b)[s].committed = Add(l[s].committed, b)
              /\ Commit(l, Scopes, a, b)[s].reserved = Subtract(l[s].reserved, a)
              /\ Commit(l, Scopes, a, b)[s].active = l[s].active - a["model_calls"]
<1> DEFINE R == Rollback(l, Scopes, a)
<1>1. /\ R \in Ledgers
      /\ \A s \in Scopes : /\ R[s] \in Entries /\ R[s].committed = l[s].committed
                           /\ R[s].reserved = Subtract(l[s].reserved, a)
                           /\ R[s].active = l[s].active - a["model_calls"]
  BY RollbackEffect
<1> HIDE DEF R
<1> DEFINE C == Charge(R, Scopes, b)
<1>2. /\ C \in Ledgers
      /\ \A s \in Scopes : /\ C[s] \in Entries /\ C[s].committed = Add(R[s].committed, b)
                           /\ C[s].reserved = R[s].reserved /\ C[s].active = R[s].active
  BY <1>1, ChargeEffect
<1>3. Commit(l, Scopes, a, b) = C
  BY DEF Commit, R
<1> HIDE DEF C
<1> QED BY <1>1, <1>2, <1>3

-----------------------------------------------------------------------------
(* What the callers hold                                                     *)

\* An operation reserves nothing or its share of a resource.
LEMMA LoadShares ==
  /\ Share("cost") \in Nat /\ Share("model_calls") = 1
  /\ \A r \in Resources : Share(r) \in Nat
  /\ \A at \in Stages : /\ Load(at) \in Amounts
                        /\ \A r \in Resources : Load(at)[r] \in {0, Share(r)}
  /\ \A at \in {"model", "attempt", "tool"} : \E r \in Resources : Share(r) = 1 /\ Load(at)[r] = 1
<1>1. Share("cost") \in Nat
  <2>1. /\ Rates.input \in Int /\ Rates.hit \in Int /\ Rates.miss \in Int
        /\ Rates.output \in Int /\ Rates.reasoning \in Int
    BY GovernanceAssumption DEF PerKind
  <2> DEFINE top == Max({Rates.input, Rates.hit, Rates.miss})
             peak == Max({Rates.output, Rates.reasoning})
  <2>2. /\ top \in {Rates.input, Rates.hit, Rates.miss}
        /\ peak \in {Rates.output, Rates.reasoning}
    BY <2>1, MaxOfThree, MaxOfTwo, Zenon
  <2>3. top \in Nat /\ peak \in Nat
    BY <2>2, GovernanceAssumption DEF PerKind
  <2>4. EstInput \in Nat /\ EstOutput \in Nat
    BY GovernanceAssumption
  <2> DEFINE most == EstInput * top + EstOutput * peak
  <2>5. Share("cost") = CeilDiv(most, Unit)
    BY DEF Share, MaxCost
  <2> HIDE DEF top, peak
  <2>6. most \in Nat
    BY <2>3, <2>4
  <2> HIDE DEF most
  <2> QED BY <2>5, <2>6, CeilDivMonotone
<1>2. \A r \in Resources : Share(r) \in Nat /\ (r # "cost" => Share(r) = 1)
  BY <1>1 DEF Share
<1>3. /\ Load("model") = ModelAmount(Share("cost")) /\ Load("attempt") = Amount("attempts", 1)
      /\ Load("tool") = Amount("tool_calls", 1)
      /\ \A at \in Stages \ {"model", "attempt", "tool"} : Load(at) = Zero
  BY DEF Load
<1>4. \A at \in Stages : Load(at) \in Amounts
  BY <1>1, <1>3, AmountTypes
<1>5. \A at \in Stages, r \in Resources : Load(at)[r] \in {0, Share(r)}
  <2> SUFFICES ASSUME NEW at \in Stages, NEW r \in Resources PROVE Load(at)[r] \in {0, Share(r)}
    OBVIOUS
  <2>1. CASE at = "model"
    <3>1. ModelAmount(Share("cost"))[r] =
            IF r = "model_calls" THEN 1 ELSE IF r = "cost" THEN Share("cost") ELSE 0
      BY DEF ModelAmount, Zero
    <3> QED BY <2>1, <3>1, <1>2, <1>3
  <2>2. CASE at = "attempt"
    BY <2>2, <1>2, <1>3 DEF Amount, Zero
  <2>3. CASE at = "tool"
    BY <2>3, <1>2, <1>3 DEF Amount, Zero
  <2>4. CASE at \notin {"model", "attempt", "tool"}
    BY <2>4, <1>3 DEF Zero
  <2> QED BY <2>1, <2>2, <2>3, <2>4
<1>6. \A at \in {"model", "attempt", "tool"} : \E r \in Resources : Share(r) = 1 /\ Load(at)[r] = 1
  <2>1. Load("model")["model_calls"] = 1
    BY <1>3 DEF ModelAmount, Zero, Resources
  <2>2. Load("attempt")["attempts"] = 1
    BY <1>3 DEF Amount, Zero, Resources
  <2>3. Load("tool")["tool_calls"] = 1
    BY <1>3 DEF Amount, Zero, Resources
  <2> QED BY <2>1, <2>2, <2>3, <1>2 DEF Resources
<1>7. Share("model_calls") = 1
  BY DEF Share
<1> QED BY <1>1, <1>2, <1>4, <1>5, <1>6, <1>7

LEMMA CountNat ==
  ASSUME NEW k, NEW t, NEW r
  PROVE  IsFiniteSet(Holding(k, t, r)) /\ Count(k, t, r) \in Nat
<1>1. Holding(k, t, r) \in SUBSET Callers
  BY DEF Holding
<1>2. IsFiniteSet(Holding(k, t, r))
  BY <1>1, FS_Subset, GovernanceAssumption
<1> QED BY <1>2, FS_CardinalityType DEF Count

\* The holders when one caller changes what it holds.
LEMMA HoldingSet ==
  ASSUME NEW k, NEW c \in Callers, NEW z, NEW t, NEW r, k = [x \in Callers |-> k[x]]
  PROVE  Holding([k EXCEPT ![c] = z], t, r)
         = IF z.tenant = t /\ z.amount[r] # 0 THEN Holding(k, t, r) \cup {c} ELSE Holding(k, t, r) \ {c}
<1> DEFINE n == [k EXCEPT ![c] = z]
<1>1. n[c] = z /\ \A x \in Callers \ {c} : n[x] = k[x]
  OBVIOUS
<1> HIDE DEF n
<1>2. Holding(n, t, r)
      = IF z.tenant = t /\ z.amount[r] # 0 THEN Holding(k, t, r) \cup {c} ELSE Holding(k, t, r) \ {c}
  BY <1>1 DEF Holding
<1> QED BY <1>2 DEF n

LEMMA CountSet ==
  ASSUME NEW k, NEW c \in Callers, NEW z, NEW t, NEW r, k = [x \in Callers |-> k[x]]
  PROVE  LET n == [k EXCEPT ![c] = z]
             has(x) == x.tenant = t /\ x.amount[r] # 0
         IN /\ ~has(k[c]) /\ has(z) => Count(n, t, r) = Count(k, t, r) + 1
            /\ has(k[c]) /\ ~has(z) => Count(k, t, r) >= 1 /\ Count(n, t, r) = Count(k, t, r) - 1
            /\ (has(k[c]) <=> has(z)) => Count(n, t, r) = Count(k, t, r)
<1> DEFINE n == [k EXCEPT ![c] = z]
           had == k[c].tenant = t /\ k[c].amount[r] # 0
           has == z.tenant = t /\ z.amount[r] # 0
           H == Holding(k, t, r)
<1>1. Holding(n, t, r) = IF has THEN H \cup {c} ELSE H \ {c}
  BY HoldingSet
<1>2. c \in H <=> had
  BY DEF Holding
<1>3. IsFiniteSet(H) /\ Cardinality(H) \in Nat
  BY CountNat DEF Count
<1>4. /\ Cardinality(H \cup {c}) = IF c \in H THEN Cardinality(H) ELSE Cardinality(H) + 1
      /\ Cardinality(H \ {c}) = IF c \in H THEN Cardinality(H) - 1 ELSE Cardinality(H)
  BY <1>3, FS_AddElement, FS_RemoveElement
<1>5. c \in H => Cardinality(H) >= 1
  BY <1>3, FS_EmptySet
<1>6. Count(n, t, r) = Cardinality(IF has THEN H \cup {c} ELSE H \ {c}) /\ Count(k, t, r) = Cardinality(H)
  BY <1>1 DEF Count
<1> HIDE DEF n, H, had, has
<1>7. /\ ~had /\ has => Count(n, t, r) = Count(k, t, r) + 1
      /\ had /\ ~has => Count(k, t, r) >= 1 /\ Count(n, t, r) = Count(k, t, r) - 1
      /\ (had <=> has) => Count(n, t, r) = Count(k, t, r)
  BY <1>2, <1>3, <1>4, <1>5, <1>6
<1> QED BY <1>7 DEF n, had, has

-----------------------------------------------------------------------------
(* The books of a tenant                                                     *)

LEMMA StateShape ==
  ASSUME NEW e \in Entries
  PROVE  /\ e.active \in Nat
         /\ \A r \in Resources : e.committed[r] \in Nat /\ e.reserved[r] \in Nat
  BY DEF Entries

\* A caller that holds nothing reserves a.
LEMMA TakeBacked ==
  ASSUME NEW l \in Ledgers, NEW k, NEW c \in Callers, NEW z, NEW t, NEW a \in Amounts,
         k = [x \in Callers |-> k[x]], Backed(l, k, t),
         k[c].amount = Zero, z.tenant = t, z.amount = a,
         \A r \in Resources : a[r] \in {0, Share(r)}
  PROVE  Backed(Reserve(l, Scopes, a), [k EXCEPT ![c] = z], t)
<1> DEFINE m == Reserve(l, Scopes, a)
           n == [k EXCEPT ![c] = z]
<1>1. \A s \in Scopes : /\ m[s] \in Entries /\ StateOf(m, s) = m[s]
                        /\ m[s].reserved = Add(StateOf(l, s).reserved, a)
                        /\ m[s].active = StateOf(l, s).active + a["model_calls"]
  <2>1. m \in Ledgers /\ \A s \in Scopes : m[s] \in Entries
    BY ReserveEffect
  <2>2. \A s \in Scopes : StateOf(m, s) = m[s]
    BY <2>1, AmountTypes DEF StateOf
  <2> QED BY <2>1, <2>2, ReserveEffect
<1>2. \A r \in Resources :
        Count(n, t, r) = IF a[r] # 0 THEN Count(k, t, r) + 1 ELSE Count(k, t, r)
  <2> SUFFICES ASSUME NEW r \in Resources
               PROVE  Count(n, t, r) = IF a[r] # 0 THEN Count(k, t, r) + 1 ELSE Count(k, t, r)
    OBVIOUS
  <2>1. ~(k[c].tenant = t /\ k[c].amount[r] # 0)
    BY DEF Zero
  <2>2. (z.tenant = t /\ z.amount[r] # 0) <=> a[r] # 0
    OBVIOUS
  <2> QED BY <2>1, <2>2, CountSet
<1> HIDE DEF m, n
<1>3. ASSUME NEW s \in Scopes, NEW r \in Resources
      PROVE  StateOf(m, s).reserved[r] = Share(r) * Count(n, t, r)
  <2>1. StateOf(m, s).reserved[r] = StateOf(l, s).reserved[r] + a[r]
    <3>1. StateOf(m, s).reserved = Add(StateOf(l, s).reserved, a)
      BY <1>1
    <3> QED BY <3>1 DEF Add
  <2>2. StateOf(l, s).reserved[r] = Share(r) * Count(k, t, r)
    BY DEF Backed
  <2>3. Share(r) \in Nat /\ Count(k, t, r) \in Nat /\ a[r] \in {0, Share(r)}
    BY LoadShares, CountNat
  <2>4. CASE a[r] = 0
    BY <2>1, <2>2, <2>3, <2>4, <1>2
  <2>5. CASE a[r] # 0
    <3>1. Share(r) * (Count(k, t, r) + 1) = Share(r) * Count(k, t, r) + Share(r)
      BY <2>3
    <3> QED BY <2>1, <2>2, <2>3, <2>5, <3>1, <1>2
  <2> QED BY <2>4, <2>5
<1>4. ASSUME NEW s \in Scopes
      PROVE  StateOf(m, s).active = Count(n, t, "model_calls")
  <2>1. a["model_calls"] \in {0, 1} /\ "model_calls" \in Resources
    BY LoadShares DEF Resources
  <2>2. StateOf(m, s).active = StateOf(l, s).active + a["model_calls"]
    BY <1>1
  <2>3. StateOf(l, s).active = Count(k, t, "model_calls")
    BY DEF Backed
  <2>4. Count(k, t, "model_calls") \in Nat
    BY CountNat
  <2> QED BY <2>1, <2>2, <2>3, <2>4, <1>2
<1>5. Backed(m, n, t)
  BY <1>3, <1>4 DEF Backed
<1> QED BY <1>5 DEF m, n

LEMMA TakeWithin ==
  ASSUME NEW l \in Ledgers, NEW limit \in [Scopes -> Caps], NEW over, NEW a \in Amounts,
         CanReserve(l, limit, Scopes, a)
  PROVE  Within(Reserve(l, Scopes, a), limit, over)
<1> DEFINE m == Reserve(l, Scopes, a)
<1> SUFFICES ASSUME NEW s \in Scopes PROVE WithinLimits(m[s], Zero, limit[s])
  BY DEF Within
<1>1. WithinLimits(StateOf(l, s), a, limit[s])
  BY DEF CanReserve
<1>2. StateOf(l, s) \in Entries
  BY StateTyped
<1>3. /\ m[s].committed = StateOf(l, s).committed
      /\ m[s].reserved = Add(StateOf(l, s).reserved, a)
      /\ m[s].active = StateOf(l, s).active + a["model_calls"]
  BY ReserveEffect
<1> DEFINE e == StateOf(l, s)
           f == m[s]
           lim == limit[s]
<1> HIDE DEF m, e, f, lim
<1>4. /\ \A r \in Resources : f.committed[r] + f.reserved[r] + Zero[r] <= lim[r]
      /\ f.active + Zero["model_calls"] <= lim.concurrent
  <2>1. \A r \in Resources : e.committed[r] + e.reserved[r] + a[r] <= lim[r]
    BY <1>1 DEF WithinLimits, e, lim
  <2>2. e.active + a["model_calls"] <= lim.concurrent
    BY <1>1 DEF WithinLimits, e, lim
  <2>3. e.active \in Nat /\ \A r \in Resources : e.committed[r] \in Nat /\ e.reserved[r] \in Nat /\ a[r] \in Nat
    BY <1>2, StateShape DEF e, Amounts
  <2>4. f.active = e.active + a["model_calls"]
        /\ \A r \in Resources : f.committed[r] = e.committed[r] /\ f.reserved[r] = e.reserved[r] + a[r]
    BY <1>3 DEF e, f, Add
  <2>5. \A r \in Resources : Zero[r] = 0
    BY DEF Zero
  <2>6. "model_calls" \in Resources
    BY DEF Resources
  <2>7. ASSUME NEW r \in Resources PROVE f.committed[r] + f.reserved[r] + Zero[r] <= lim[r]
    <3>1. lim[r] \in Nat
      BY DEF lim, Caps
    <3> QED BY <2>1, <2>3, <2>4, <2>5, <3>1
  <2>8. f.active + Zero["model_calls"] <= lim.concurrent
    <3>1. a["model_calls"] \in Nat /\ Zero["model_calls"] = 0
      BY <2>3, <2>5, <2>6
    <3> QED BY <2>2, <2>3, <2>4, <3>1
  <2> QED BY <2>7, <2>8
<1> QED BY <1>4 DEF WithinLimits, f, lim

\* What a caller holds is there to be given back.
LEMMA HeldThere ==
  ASSUME NEW l \in Ledgers, NEW k, NEW c \in Callers, NEW t, NEW a \in Amounts,
         Backed(l, k, t), k[c].tenant = t, k[c].amount = a,
         \A r \in Resources : a[r] \in {0, Share(r)},
         \E r \in Resources : Share(r) = 1 /\ a[r] = 1
  PROVE  \A s \in Scopes : /\ l[s] \in Entries /\ a["model_calls"] <= l[s].active
                           /\ \A r \in Resources : a[r] <= l[s].reserved[r]
<1> SUFFICES ASSUME NEW s \in Scopes
             PROVE  /\ l[s] \in Entries /\ a["model_calls"] <= l[s].active
                    /\ \A r \in Resources : a[r] <= l[s].reserved[r]
  OBVIOUS
<1>1. \A r \in Resources : a[r] # 0 => Count(k, t, r) \in Nat \ {0}
  <2> SUFFICES ASSUME NEW r \in Resources, a[r] # 0 PROVE Count(k, t, r) \in Nat \ {0}
    OBVIOUS
  <2>1. c \in Holding(k, t, r)
    BY DEF Holding
  <2> QED BY <2>1, CountNat, FS_EmptySet DEF Count
<1>2. ASSUME NEW r \in Resources
      PROVE  StateOf(l, s).reserved[r] \in Nat /\ a[r] <= StateOf(l, s).reserved[r]
  <2>1. StateOf(l, s).reserved[r] = Share(r) * Count(k, t, r) /\ StateOf(l, s).reserved[r] \in Nat
    BY StateTyped, StateShape DEF Backed
  <2>2. Share(r) \in Nat /\ Count(k, t, r) \in Nat /\ a[r] \in {0, Share(r)}
    BY LoadShares, CountNat
  <2>3. CASE a[r] = 0
    BY <2>1, <2>3
  <2>4. CASE a[r] # 0
    <3>1. Count(k, t, r) >= 1 /\ a[r] = Share(r)
      BY <1>1, <2>2, <2>4
    <3>2. Share(r) * Count(k, t, r) >= Share(r) * 1
      BY <2>2, <3>1
    <3> QED BY <2>1, <2>2, <3>1, <3>2
  <2> QED BY <2>3, <2>4
<1>3. l[s] # None
  <2>1. PICK r \in Resources : Share(r) = 1 /\ a[r] = 1
    OBVIOUS
  <2>2. StateOf(l, s).reserved[r] # 0
    BY <1>2, <2>1
  <2> QED BY <2>2 DEF StateOf, Fresh, Zero
<1>4. l[s] \in Entries /\ StateOf(l, s) = l[s]
  BY <1>3, StateTyped
<1>5. a["model_calls"] <= l[s].active
  <2>1. a["model_calls"] \in {0, 1} /\ "model_calls" \in Resources
    BY LoadShares DEF Resources
  <2>2. StateOf(l, s).active = Count(k, t, "model_calls")
    BY DEF Backed
  <2> QED BY <1>1, <1>4, <2>1, <2>2, CountNat
<1> QED BY <1>2, <1>4, <1>5

\* A caller gives back what it holds.
LEMMA GiveBacked ==
  ASSUME NEW l \in Ledgers, NEW m \in Ledgers, NEW k, NEW c \in Callers, NEW z, NEW t, NEW a \in Amounts,
         k = [x \in Callers |-> k[x]], Backed(l, k, t), k[c].tenant = t, k[c].amount = a, z.amount = Zero,
         \A r \in Resources : a[r] \in {0, Share(r)},
         \A s \in Scopes : /\ l[s] \in Entries /\ m[s] \in Entries
                           /\ m[s].reserved = Subtract(l[s].reserved, a)
                           /\ m[s].active = l[s].active - a["model_calls"]
  PROVE  Backed(m, [k EXCEPT ![c] = z], t)
<1> DEFINE n == [k EXCEPT ![c] = z]
<1>1. \A s \in Scopes : StateOf(m, s) = m[s] /\ StateOf(l, s) = l[s]
  BY AmountTypes DEF StateOf
<1>2. \A r \in Resources :
        /\ Count(k, t, r) \in Nat
        /\ Count(n, t, r) = IF a[r] # 0 THEN Count(k, t, r) - 1 ELSE Count(k, t, r)
  <2> SUFFICES ASSUME NEW r \in Resources
               PROVE  Count(n, t, r) = IF a[r] # 0 THEN Count(k, t, r) - 1 ELSE Count(k, t, r)
    BY CountNat
  <2>1. ~(z.tenant = t /\ z.amount[r] # 0)
    BY DEF Zero
  <2>2. (k[c].tenant = t /\ k[c].amount[r] # 0) <=> a[r] # 0
    OBVIOUS
  <2> QED BY <2>1, <2>2, CountSet
<1> HIDE DEF n
<1>3. ASSUME NEW s \in Scopes, NEW r \in Resources
      PROVE  StateOf(m, s).reserved[r] = Share(r) * Count(n, t, r)
  <2>1. StateOf(m, s).reserved[r] = StateOf(l, s).reserved[r] - a[r]
    <3>1. StateOf(m, s).reserved = Subtract(StateOf(l, s).reserved, a)
      BY <1>1
    <3> QED BY <3>1 DEF Subtract
  <2>2. StateOf(l, s).reserved[r] = Share(r) * Count(k, t, r)
    BY DEF Backed
  <2>3. Share(r) \in Nat /\ Count(k, t, r) \in Nat /\ a[r] \in {0, Share(r)}
    BY LoadShares, CountNat
  <2>4. CASE a[r] = 0
    BY <2>1, <2>2, <2>3, <2>4, <1>2
  <2>5. CASE a[r] # 0
    <3>1. Share(r) * (Count(k, t, r) - 1) = Share(r) * Count(k, t, r) - Share(r)
      BY <2>3
    <3> QED BY <2>1, <2>2, <2>3, <2>5, <3>1, <1>2
  <2> QED BY <2>4, <2>5
<1>4. ASSUME NEW s \in Scopes
      PROVE  StateOf(m, s).active = Count(n, t, "model_calls")
  <2>1. a["model_calls"] \in {0, 1} /\ "model_calls" \in Resources
    BY LoadShares DEF Resources
  <2>2. StateOf(m, s).active = StateOf(l, s).active - a["model_calls"]
    BY <1>1
  <2>3. StateOf(l, s).active = Count(k, t, "model_calls")
    BY DEF Backed
  <2> QED BY <2>1, <2>2, <2>3, <1>2
<1>5. Backed(m, n, t)
  BY <1>3, <1>4 DEF Backed
<1> QED BY <1>5 DEF n

\* A ledger that reserves less for it may have recorded as much.
LEMMA GiveWithin ==
  ASSUME NEW l \in Ledgers, NEW m \in Ledgers, NEW limit \in [Scopes -> Caps], NEW over, NEW a \in Amounts,
         Within(l, limit, over),
         \A s \in Scopes : /\ l[s] \in Entries /\ m[s] \in Entries
                           /\ m[s].reserved = Subtract(l[s].reserved, a)
                           /\ m[s].active = l[s].active - a["model_calls"]
                           /\ \A r \in Resources : m[s].committed[r] <= l[s].committed[r] + a[r]
  PROVE  Within(m, limit, over)
<1> SUFFICES ASSUME NEW s \in Scopes, s \notin over PROVE WithinLimits(m[s], Zero, limit[s])
  BY DEF Within
<1> DEFINE e == l[s]
           f == m[s]
           lim == limit[s]
<1>1. /\ e \in Entries /\ f \in Entries /\ f.reserved = Subtract(e.reserved, a)
      /\ f.active = e.active - a["model_calls"]
      /\ \A r \in Resources : f.committed[r] <= e.committed[r] + a[r]
  OBVIOUS
<1>2. WithinLimits(e, Zero, lim)
  BY <1>1, AmountTypes DEF Within
<1>3. lim \in Caps
  OBVIOUS
<1> HIDE DEF e, f, lim
<1>4. \A r \in Resources : Zero[r] = 0 /\ lim[r] \in Nat /\ a[r] \in Nat
  BY <1>3 DEF Zero, Caps, Amounts
<1>5. ASSUME NEW r \in Resources PROVE f.committed[r] + f.reserved[r] + Zero[r] <= lim[r]
  <2>1. e.committed[r] + e.reserved[r] + Zero[r] <= lim[r]
    BY <1>2 DEF WithinLimits
  <2>2. f.reserved[r] = e.reserved[r] - a[r]
    BY <1>1 DEF Subtract
  <2>3. /\ e.committed[r] \in Nat /\ e.reserved[r] \in Nat
        /\ f.committed[r] \in Nat /\ f.committed[r] <= e.committed[r] + a[r]
    BY <1>1, StateShape
  <2> QED BY <2>1, <2>2, <2>3, <1>4
<1>6. f.active + Zero["model_calls"] <= lim.concurrent
  <2>1. "model_calls" \in Resources
    BY DEF Resources
  <2>2. e.active + Zero["model_calls"] <= lim.concurrent
    BY <1>2 DEF WithinLimits
  <2>3. e.active \in Nat /\ a["model_calls"] \in Nat /\ Zero["model_calls"] = 0
    BY <1>1, <1>4, <2>1, StateShape
  <2>4. lim.concurrent \in Nat
    BY <1>3 DEF Caps
  <2> QED BY <1>1, <2>2, <2>3, <2>4
<1>7. WithinLimits(f, Zero, lim)
  BY <1>5, <1>6 DEF WithinLimits
<1> QED BY <1>7 DEF f, lim

\* What a caller of another tenant, or one that never holds anything, does
\* leaves the books alone.
LEMMA AsideBacked ==
  ASSUME NEW l, NEW k, NEW c \in Callers, NEW z, NEW t,
         k = [x \in Callers |-> k[x]], Backed(l, k, t),
         k[c].tenant = t => k[c].amount = Zero,
         z.tenant = t => z.amount = Zero
  PROVE  Backed(l, [k EXCEPT ![c] = z], t)
<1> DEFINE n == [k EXCEPT ![c] = z]
<1>1. ASSUME NEW r \in Resources PROVE Count(n, t, r) = Count(k, t, r)
  <2>1. ~(k[c].tenant = t /\ k[c].amount[r] # 0) /\ ~(z.tenant = t /\ z.amount[r] # 0)
    BY DEF Zero
  <2> QED BY <2>1, CountSet
<1> HIDE DEF n
<1>2. "model_calls" \in Resources
  BY DEF Resources
<1>3. Backed(l, n, t)
  BY <1>1, <1>2 DEF Backed
<1> QED BY <1>3 DEF n

-----------------------------------------------------------------------------
(* The callers                                                               *)

LEMMA FitsMore ==
  ASSUME NEW k, NEW n \in Nat, NEW m \in Nat, Fits(k, n), n <= m
  PROVE  Fits(k, m)
<1>1. 0..n \subseteq 0..m
  OBVIOUS
<1> QED BY <1>1 DEF Fits

\* One caller moves on, and may begin the call that is the last one.
LEMMA CallerSet ==
  ASSUME NEW k, NEW n \in Nat, NEW m \in Nat, n <= m, NEW c \in Callers, NEW z,
         CallersFit(k, n), Fits(z, m), z.call \in {0, k[c].call} \/ z.call > n
  PROVE  CallersFit([k EXCEPT ![c] = z], m)
<1> DEFINE d == [k EXCEPT ![c] = z]
<1>1. k = [x \in Callers |-> k[x]] /\ \A x \in Callers : Fits(k[x], n)
  BY DEF CallersFit
<1>2. d = [x \in Callers |-> d[x]] /\ d[c] = z /\ \A x \in Callers \ {c} : d[x] = k[x]
  BY <1>1
<1> HIDE DEF d
<1>3. \A x \in Callers : Fits(d[x], m)
  BY <1>1, <1>2, FitsMore
<1>4. \A x \in Callers : k[x].call \in 0..n
  BY <1>1 DEF Fits
<1>5. \A x \in Callers \ {c} : d[x].call # 0 => d[x].call # z.call
  BY <1>2, <1>4 DEF CallersFit
<1>6. \A x, y \in Callers : d[x].call # 0 /\ d[x].call = d[y].call => x = y
  BY <1>2, <1>5 DEF CallersFit
<1>7. CallersFit(d, m)
  BY <1>2, <1>3, <1>6 DEF CallersFit
<1> QED BY <1>7 DEF d

LEMMA LoadCases ==
  /\ Load("model") = ModelAmount(Share("cost")) /\ Load("attempt") = Amount("attempts", 1)
  /\ Load("tool") = Amount("tool_calls", 1)
  /\ \A at \in Stages \ {"model", "attempt", "tool"} : Load(at) = Zero
  BY DEF Load

\* The moves a caller may make.
Going(k, at) == [k EXCEPT !.at = at]
Taking(k, a, at) == [k EXCEPT !.amount = a, !.at = at]
Judged(k, v) == [k EXCEPT !.amount = Zero, !.verdict = v, !.at = "audit"]
Calling(k, i, at) == [k EXCEPT !.call = i, !.at = at]

LEMMA IdleFits ==
  ASSUME NEW n \in Nat
  PROVE  /\ Fits(Idle, n) /\ Idle.at = "idle" /\ Idle.tenant = None /\ Idle.amount = Zero
         /\ Idle.call = 0 /\ Idle.verdict = None
  BY LoadCases, AmountTypes DEF Fits, Idle, Stages, Gateway

LEMMA ReadyFits ==
  ASSUME NEW n \in Nat, NEW t \in Tenants
  PROVE  LET z == Ready(t)
         IN /\ Fits(z, n) /\ z.at = "ready" /\ z.tenant = t /\ z.amount = Zero /\ z.call = 0
            /\ z.verdict = None
<1> DEFINE i == Idle
           z == [i EXCEPT !.at = "ready", !.tenant = t]
<1>1. /\ i \in [at : Stages, tenant : Tenants \cup {None}, amount : Amounts, call : 0..n,
                verdict : Decisions \cup {None}]
      /\ i.amount = Zero /\ i.call = 0 /\ i.verdict = None
  BY IdleFits DEF Fits
<1>2. t # None /\ Load("ready") = Zero /\ "ready" \in Stages \ Gateway
  BY GovernanceAssumption, LoadCases DEF Stages, Gateway
<1> HIDE DEF i
<1>3. /\ z.at = "ready" /\ z.tenant = t /\ z.amount = Zero /\ z.call = 0 /\ z.verdict = None
      /\ z \in [at : Stages, tenant : Tenants \cup {None}, amount : Amounts, call : 0..n,
                verdict : Decisions \cup {None}]
  BY <1>1, <1>2
<1> HIDE DEF z
<1>4. Fits(z, n)
  BY <1>2, <1>3 DEF Fits
<1> QED BY <1>3, <1>4 DEF i, z, Ready

LEMMA GotoFits ==
  ASSUME NEW n \in Nat, NEW k, Fits(k, n), NEW at \in Stages,
         \/ k.at = "ready" /\ at = "continue"
         \/ k.at = "approval" /\ at = "access"
         \/ k.at = "access" /\ at = "invoke"
  PROVE  LET z == Going(k, at)
         IN /\ Fits(z, n) /\ z.at = at /\ z.tenant = k.tenant /\ z.amount = Zero /\ k.amount = Zero
            /\ z.call = k.call /\ z.verdict = None
<1> DEFINE z == Going(k, at)
<1>1. k \in [at : Stages, tenant : Tenants \cup {None}, amount : Amounts, call : 0..n,
             verdict : Decisions \cup {None}]
  BY DEF Fits
<1>2. /\ z.at = at /\ z.tenant = k.tenant /\ z.amount = k.amount /\ z.call = k.call
      /\ z.verdict = k.verdict
      /\ z \in [at : Stages, tenant : Tenants \cup {None}, amount : Amounts, call : 0..n,
                verdict : Decisions \cup {None}]
  BY <1>1 DEF Going
<1>3. Load(k.at) = Zero /\ Load(at) = Zero
  BY LoadCases DEF Stages, Gateway
<1> HIDE DEF z
<1>4. Fits(z, n) /\ k.amount = Zero /\ z.verdict = None
  BY <1>2, <1>3 DEF Fits, Gateway
<1> QED BY <1>2, <1>3, <1>4 DEF z, Fits

LEMMA TakeFits ==
  ASSUME NEW n \in Nat, NEW k, Fits(k, n), NEW at \in Stages, NEW a,
         \/ k.at = "ready" /\ at = "model"
         \/ k.at \in {"ready", "continue"} /\ at = "attempt"
         \/ k.at = "invoke" /\ at = "tool",
         a = Load(at)
  PROVE  LET z == Taking(k, a, at)
         IN /\ Fits(z, n) /\ z.at = at /\ z.tenant = k.tenant /\ z.amount = a /\ k.amount = Zero
            /\ z.call = k.call /\ z.verdict = None
<1> DEFINE z == Taking(k, a, at)
<1>1. k \in [at : Stages, tenant : Tenants \cup {None}, amount : Amounts, call : 0..n,
             verdict : Decisions \cup {None}]
  BY DEF Fits
<1>2. a \in Amounts
  BY LoadShares
<1>3. /\ z.at = at /\ z.tenant = k.tenant /\ z.amount = a /\ z.call = k.call
      /\ z.verdict = k.verdict
      /\ z \in [at : Stages, tenant : Tenants \cup {None}, amount : Amounts, call : 0..n,
                verdict : Decisions \cup {None}]
  BY <1>1, <1>2 DEF Taking
<1>4. Load(k.at) = Zero
  BY LoadCases DEF Stages, Gateway
<1> HIDE DEF z
<1>5. Fits(z, n) /\ k.amount = Zero /\ z.verdict = None
  BY <1>3, <1>4 DEF Fits, Gateway
<1> QED BY <1>3, <1>5 DEF z

LEMMA VerdictFits ==
  ASSUME NEW n \in Nat, NEW k, Fits(k, n), k.at \in Gateway, NEW v \in Decisions
  PROVE  LET z == Judged(k, v)
         IN /\ Fits(z, n) /\ z.at = "audit" /\ z.tenant = k.tenant /\ z.amount = Zero
            /\ z.call = k.call /\ z.verdict = v
<1> DEFINE z == Judged(k, v)
<1>1. k \in [at : Stages, tenant : Tenants \cup {None}, amount : Amounts, call : 0..n,
             verdict : Decisions \cup {None}]
  BY DEF Fits
<1>2. "audit" \in Stages /\ "audit" \in Gateway /\ Zero \in Amounts /\ v # None
  BY AmountTypes, GovernanceAssumption DEF Stages, Gateway
<1>3. /\ z.at = "audit" /\ z.tenant = k.tenant /\ z.amount = Zero /\ z.call = k.call
      /\ z.verdict = v
      /\ z \in [at : Stages, tenant : Tenants \cup {None}, amount : Amounts, call : 0..n,
                verdict : Decisions \cup {None}]
  BY <1>1, <1>2 DEF Judged
<1>4. Load("audit") = Zero
  BY <1>2, LoadCases
<1> HIDE DEF z
<1>5. k.tenant # None /\ k.call # 0
  BY DEF Fits, Gateway
<1>6. Fits(z, n)
  BY <1>2, <1>3, <1>4, <1>5 DEF Fits
<1> QED BY <1>3, <1>6 DEF z

LEMMA InvokeFits ==
  ASSUME NEW n \in Nat, NEW k, Fits(k, n), k.at = "ready", NEW at \in {"approval", "access"}
  PROVE  LET z == Calling(k, n + 1, at)
         IN /\ Fits(z, n + 1) /\ z.at = at /\ z.tenant = k.tenant /\ z.amount = Zero /\ k.amount = Zero
            /\ z.call = n + 1 /\ z.verdict = None /\ k.call = 0
<1> DEFINE z == Calling(k, n + 1, at)
<1>1. k \in [at : Stages, tenant : Tenants \cup {None}, amount : Amounts, call : 0..n,
             verdict : Decisions \cup {None}]
  BY DEF Fits
<1>2. at \in Stages /\ at \in Gateway /\ n + 1 \in 0..(n + 1) /\ n + 1 # 0
  BY DEF Stages, Gateway
<1>3. /\ z.at = at /\ z.tenant = k.tenant /\ z.amount = k.amount /\ z.call = n + 1
      /\ z.verdict = k.verdict
      /\ z \in [at : Stages, tenant : Tenants \cup {None}, amount : Amounts, call : 0..(n + 1),
                verdict : Decisions \cup {None}]
  BY <1>1, <1>2 DEF Calling
<1>4. Load(k.at) = Zero /\ Load(at) = Zero
  BY LoadCases DEF Stages, Gateway
<1> HIDE DEF z
<1>5. k.tenant # None /\ k.call = 0 /\ k.amount = Zero /\ k.verdict = None
  BY <1>4 DEF Fits, Gateway
<1>6. Fits(z, n + 1)
  BY <1>2, <1>3, <1>4, <1>5 DEF Fits
<1> QED BY <1>3, <1>5, <1>6 DEF z

-----------------------------------------------------------------------------
(* The calls                                                                 *)

\* A caller moves on with its call, or leaves it.
LEMMA CallsStay ==
  ASSUME NEW k, NEW h \in Seq(Call), NEW g \in Seq(Call), NEW c \in Callers, NEW z,
         CallersFit(k, Len(h)), CallsTold(k, h), Len(g) = Len(h),
         \A j \in DOMAIN h : j # k[c].call => g[j] = h[j],
         z.call \in {0, k[c].call},
         z.call # 0 => Tells(z, g[z.call]),
         z.call = 0 /\ k[c].call # 0 => Truthful(g[k[c].call], FALSE)
  PROVE  CallsTold([k EXCEPT ![c] = z], g)
<1> DEFINE d == [k EXCEPT ![c] = z]
           i == k[c].call
<1>1. d[c] = z /\ \A x \in Callers \ {c} : d[x] = k[x]
  BY DEF CallersFit
<1>2. DOMAIN g = DOMAIN h /\ DOMAIN h = 1..Len(h) /\ Len(h) \in Nat
  OBVIOUS
<1>3. \A x \in Callers : k[x].call \in 0..Len(h)
  BY DEF CallersFit, Fits
<1>4. \A x \in Callers \ {c} : k[x].call # 0 => k[x].call # i /\ g[k[x].call] = h[k[x].call]
  BY <1>2, <1>3 DEF CallersFit
<1> HIDE DEF d
<1>5. ASSUME NEW x \in Callers, d[x].call # 0 PROVE Tells(d[x], g[d[x].call])
  <2>1. CASE x = c
    BY <1>1, <1>5, <2>1
  <2>2. CASE x # c
    <3>1. d[x] = k[x] /\ Tells(k[x], h[k[x].call]) /\ g[k[x].call] = h[k[x].call]
      BY <1>1, <1>4, <1>5, <2>2 DEF CallsTold
    <3> QED BY <3>1
  <2> QED BY <2>1, <2>2
<1>6. ASSUME NEW j \in DOMAIN g PROVE Truthful(g[j], \E x \in Callers : d[x].call = j)
  <2>1. CASE j # i
    <3>1. g[j] = h[j] /\ Truthful(h[j], \E x \in Callers : k[x].call = j)
      BY <1>2, <2>1 DEF CallsTold
    <3>2. (\E x \in Callers : k[x].call = j) => \E x \in Callers : d[x].call = j
      BY <1>1, <2>1
    <3> QED BY <3>1, <3>2 DEF Truthful
  <2>2. CASE j = i /\ z.call = i
    <3>1. i # 0
      BY <1>2, <2>2
    <3>2. Tells(z, g[i])
      BY <2>2, <3>1
    <3>3. g[i].audit = None /\ d[c].call = i
      BY <1>1, <2>2, <3>2 DEF Tells
    <3>4. None \notin Decisions
      BY GovernanceAssumption
    <3> QED BY <2>2, <3>3, <3>4 DEF Truthful, Decisions
  <2>3. CASE j = i /\ z.call = 0
    <3>1. i # 0
      BY <1>2, <2>3
    <3>2. Truthful(g[i], FALSE)
      BY <2>3, <3>1
    <3> QED BY <2>3, <3>2 DEF Truthful
  <2> QED BY <2>1, <2>2, <2>3
<1>7. CallsTold(d, g)
  BY <1>5, <1>6 DEF CallsTold
<1> QED BY <1>7 DEF d

LEMMA CountedFinite ==
  ASSUME NEW k, NEW h \in Seq(Call), NEW x
  PROVE  IsFiniteSet(Counted(k, h, x)) /\ Cardinality(Counted(k, h, x)) \in Nat
<1>1. Counted(k, h, x) \in SUBSET (1..Len(h)) /\ Len(h) \in Nat
  BY DEF Counted
<1>2. IsFiniteSet(1..Len(h))
  BY <1>1, FS_Interval
<1>3. IsFiniteSet(Counted(k, h, x))
  BY <1>1, <1>2, FS_Subset
<1> QED BY <1>3, FS_CardinalityType

\* Only the call at hand may begin to count, and not unless it is admitted.
LEMMA CountedStay ==
  ASSUME NEW k, NEW h \in Seq(Call), NEW g \in Seq(Call), NEW c \in Callers, NEW z, NEW x \in Tools,
         CallersFit(k, Len(h)), Len(g) = Len(h),
         \A j \in DOMAIN h : /\ g[j].tool = h[j].tool
                             /\ j # k[c].call => g[j] = h[j],
         z.call \in {0, k[c].call}
  PROVE  LET d == [k EXCEPT ![c] = z]
             i == k[c].call
         IN /\ Counted(d, g, x) \subseteq Counted(k, h, x) \cup {i}
            /\ \/ i = 0
               \/ g[i].tool # x
               \/ h[i].ran \/ k[c].at = "invoke"
               \/ ~g[i].ran /\ ~(z.call = i /\ z.at = "invoke")
               => Counted(d, g, x) \subseteq Counted(k, h, x)
<1> DEFINE d == [k EXCEPT ![c] = z]
           i == k[c].call
           old == h[i].ran \/ k[c].at = "invoke"
           new == g[i].ran \/ (z.call = i /\ z.at = "invoke")
<1>1. d[c] = z /\ \A y \in Callers \ {c} : d[y] = k[y]
  BY DEF CallersFit
<1>2. DOMAIN g = DOMAIN h /\ 0 \notin DOMAIN h
  OBVIOUS
<1> HIDE DEF d
<1>3. ASSUME NEW j \in Counted(d, g, x), j # i PROVE j \in Counted(k, h, x)
  <2>1. j \in DOMAIN h /\ h[j].tool = x /\ g[j] = h[j]
    BY <1>2, <1>3 DEF Counted
  <2>2. CASE h[j].ran
    BY <2>1, <2>2 DEF Counted
  <2>3. CASE ~h[j].ran
    <3>1. PICK y \in Callers : d[y].call = j /\ d[y].at = "invoke"
      BY <2>1, <2>3 DEF Counted
    <3>2. y # c
      BY <1>1, <1>2, <1>3, <2>1, <3>1
    <3> QED BY <1>1, <2>1, <3>1, <3>2 DEF Counted
  <2> QED BY <2>2, <2>3
<1>4. ASSUME i \in Counted(d, g, x) PROVE i # 0 /\ g[i].tool = x /\ new /\ (old => i \in Counted(k, h, x))
  <2>1. i \in DOMAIN h /\ h[i].tool = x /\ g[i].tool = x /\ i # 0
    BY <1>2, <1>4 DEF Counted
  <2>2. old => i \in Counted(k, h, x)
    BY <2>1 DEF Counted
  <2>3. CASE g[i].ran
    BY <2>1, <2>2, <2>3
  <2>4. CASE ~g[i].ran
    <3>1. PICK y \in Callers : d[y].call = i /\ d[y].at = "invoke"
      BY <1>4, <2>4 DEF Counted
    <3>2. y = c
      <4>1. ASSUME y # c PROVE FALSE
        BY <1>1, <2>1, <3>1, <4>1 DEF CallersFit
      <4> QED BY <4>1
    <3> QED BY <1>1, <2>1, <2>2, <3>1, <3>2
  <2> QED BY <2>3, <2>4
<1>5. Counted(d, g, x) \subseteq Counted(k, h, x) \cup {i}
  BY <1>3
<1>6. (i = 0 \/ g[i].tool # x \/ old \/ ~new) => Counted(d, g, x) \subseteq Counted(k, h, x)
  BY <1>3, <1>4
<1> QED BY <1>5, <1>6 DEF d

-----------------------------------------------------------------------------
(* What a step does to the books, the callers and the calls                  *)

LEMMA LimitsTyped ==
  ASSUME Shape, NEW t \in Tenants
  PROVE  ledger[t] \in Ledgers /\ limits[t] \in [Scopes -> Caps]
<1>1. {Limits[s] : s \in Scopes} \cup {Lowered} \subseteq Caps
  BY GovernanceAssumption
<1>2. ledger \in [Tenants -> Ledgers]
  BY DEF Shape
<1>3. limits \in [Tenants -> [Scopes -> {Limits[s] : s \in Scopes} \cup {Lowered}]]
  BY DEF Shape
<1>4. \A f \in [Scopes -> {Limits[s] : s \in Scopes} \cup {Lowered}] : f \in [Scopes -> Caps]
  BY <1>1
<1> QED BY <1>2, <1>3, <1>4

\* A caller at work has the ledger of a tenant.
LEMMA AtWork ==
  ASSUME IInv, NEW c \in Callers
  PROVE  /\ Fits(caller[c], Len(calls)) /\ Len(calls) \in Nat /\ calls \in Seq(Call)
         /\ caller = [x \in Callers |-> caller[x]]
         /\ caller[c].amount = Load(caller[c].at) /\ caller[c].at \in Stages
         /\ caller[c].at # "idle" => caller[c].tenant \in Tenants
         /\ caller[c].call # 0 <=> caller[c].at \in Gateway
         /\ caller[c].call \in 0..Len(calls)
<1>1. calls \in Seq(Call) /\ CallersFit(caller, Len(calls))
  BY DEF IInv, Shape
<1>2. Fits(caller[c], Len(calls)) /\ caller = [x \in Callers |-> caller[x]]
  BY <1>1 DEF CallersFit
<1> QED BY <1>1, <1>2 DEF Fits

\* A caller whose operation is over.
LEMMA ReadyAgain ==
  ASSUME IInv, NEW c \in Callers, caller[c].at # "idle"
  PROVE  LET z == Ready(caller[c].tenant)
         IN /\ Fits(z, Len(calls)) /\ z.at = "ready" /\ z.tenant = caller[c].tenant
            /\ z.amount = Zero /\ z.call = 0 /\ z.verdict = None
  BY AtWork, ReadyFits

\* The ledger stays, and so does what the caller holds: nothing.
LEMMA AsideBooks ==
  ASSUME IInv, NEW c \in Callers, NEW z, caller' = [caller EXCEPT ![c] = z],
         caller[c].amount = Zero, z.amount = Zero,
         UNCHANGED <<ledger, limits, excess>>
  PROVE  BooksOf(ledger', caller', limits', excess')
<1> SUFFICES ASSUME NEW t \in Tenants
             PROVE  Backed(ledger[t], caller', t) /\ Within(ledger[t], limits[t], excess[t])
  BY DEF BooksOf
<1>1. Backed(ledger[t], caller, t) /\ Within(ledger[t], limits[t], excess[t])
  BY DEF IInv, BooksOf
<1>2. Backed(ledger[t], [caller EXCEPT ![c] = z], t)
  BY <1>1, AtWork, AsideBacked
<1> QED BY <1>1, <1>2

LEMMA TakeBooks ==
  ASSUME IInv, NEW c \in Callers, NEW z, NEW t \in Tenants, NEW a \in Amounts,
         caller' = [caller EXCEPT ![c] = z],
         caller[c].tenant = t, caller[c].amount = Zero, z.tenant = t, z.amount = a,
         \A r \in Resources : a[r] \in {0, Share(r)},
         CanReserve(ledger[t], limits[t], Scopes, a),
         ledger' = [ledger EXCEPT ![t] = Reserve(@, Scopes, a)],
         UNCHANGED <<limits, excess>>
  PROVE  BooksOf(ledger', caller', limits', excess') /\ ledger' \in [Tenants -> Ledgers]
<1> DEFINE m == Reserve(ledger[t], Scopes, a)
<1>1. ledger[t] \in Ledgers /\ limits[t] \in [Scopes -> Caps] /\ ledger \in [Tenants -> Ledgers]
  BY LimitsTyped DEF IInv, Shape
<1>2. m \in Ledgers
  BY <1>1, ReserveEffect
<1>3. ledger'[t] = m /\ \A u \in Tenants \ {t} : ledger'[u] = ledger[u]
  BY <1>1
<1>4. ledger' \in [Tenants -> Ledgers]
  <2>1. ledger' = [ledger EXCEPT ![t] = m]
    OBVIOUS
  <2> HIDE DEF m
  <2> QED BY <1>1, <1>2, <2>1
<1>5. \A u \in Tenants : Backed(ledger[u], caller, u) /\ Within(ledger[u], limits[u], excess[u])
  BY DEF IInv, BooksOf
<1>6. caller = [x \in Callers |-> caller[x]]
  BY AtWork
<1>7. Backed(m, [caller EXCEPT ![c] = z], t)
  BY <1>1, <1>5, <1>6, TakeBacked
<1>8. Within(m, limits[t], excess[t])
  BY <1>1, TakeWithin
<1> HIDE DEF m
<1>9. ASSUME NEW u \in Tenants PROVE Backed(ledger'[u], caller', u) /\ Within(ledger'[u], limits'[u], excess'[u])
  <2>1. CASE u = t
    BY <1>3, <1>7, <1>8, <2>1
  <2>2. CASE u # t
    <3>1. Backed(ledger[u], [caller EXCEPT ![c] = z], u)
      <4>1. caller[c].tenant # u /\ z.tenant # u
        BY <2>2
      <4> QED BY <1>5, <1>6, <4>1, AsideBacked
    <3> QED BY <1>3, <1>5, <2>2, <3>1
  <2> QED BY <2>1, <2>2
<1>10. BooksOf(ledger', caller', limits', excess')
  BY <1>9 DEF BooksOf
<1> QED BY <1>4, <1>10

\* A caller gives back a, which is what it holds of the tenant t, and the ledger
\* of t becomes m.
GivesBack(c, z, t, a, m) ==
  /\ caller' = [caller EXCEPT ![c] = z]
  /\ caller[c].tenant = t /\ caller[c].amount = a /\ z.tenant \in {t, None} /\ z.amount = Zero
  /\ \A r \in Resources : a[r] \in {0, Share(r)}
  /\ \A s \in Scopes : /\ ledger[t][s] \in Entries /\ m[s] \in Entries
                       /\ m[s].reserved = Subtract(ledger[t][s].reserved, a)
                       /\ m[s].active = ledger[t][s].active - a["model_calls"]
  /\ ledger' = [ledger EXCEPT ![t] = m] /\ UNCHANGED limits
  /\ Within(m, limits[t], excess'[t]) /\ \A u \in Tenants \ {t} : excess'[u] = excess[u]

LEMMA GiveBooks ==
  ASSUME IInv, NEW c \in Callers, NEW z, NEW t \in Tenants, NEW a \in Amounts, NEW m \in Ledgers,
         GivesBack(c, z, t, a, m)
  PROVE  BooksOf(ledger', caller', limits', excess') /\ ledger' \in [Tenants -> Ledgers]
<1>0. /\ caller' = [caller EXCEPT ![c] = z]
      /\ caller[c].tenant = t /\ caller[c].amount = a /\ z.tenant \in {t, None} /\ z.amount = Zero
      /\ \A r \in Resources : a[r] \in {0, Share(r)}
      /\ \A s \in Scopes : /\ ledger[t][s] \in Entries /\ m[s] \in Entries
                           /\ m[s].reserved = Subtract(ledger[t][s].reserved, a)
                           /\ m[s].active = ledger[t][s].active - a["model_calls"]
      /\ ledger' = [ledger EXCEPT ![t] = m] /\ UNCHANGED limits
      /\ Within(m, limits[t], excess'[t]) /\ \A u \in Tenants \ {t} : excess'[u] = excess[u]
  BY DEF GivesBack
<1>1. ledger[t] \in Ledgers /\ ledger \in [Tenants -> Ledgers]
  BY LimitsTyped DEF IInv, Shape
<1>2. ledger'[t] = m /\ \A u \in Tenants \ {t} : ledger'[u] = ledger[u]
  BY <1>0, <1>1
<1>3. ledger' \in [Tenants -> Ledgers]
  BY <1>0, <1>1
<1>4. \A u \in Tenants : Backed(ledger[u], caller, u) /\ Within(ledger[u], limits[u], excess[u])
  BY DEF IInv, BooksOf
<1>5. caller = [x \in Callers |-> caller[x]]
  BY AtWork
<1>6. Backed(m, [caller EXCEPT ![c] = z], t)
  BY <1>0, <1>1, <1>4, <1>5, GiveBacked
<1>7. ASSUME NEW u \in Tenants PROVE Backed(ledger'[u], caller', u) /\ Within(ledger'[u], limits'[u], excess'[u])
  <2>1. CASE u = t
    BY <1>0, <1>2, <1>6, <2>1
  <2>2. CASE u # t
    <3>1. Backed(ledger[u], [caller EXCEPT ![c] = z], u)
      <4>1. caller[c].tenant # u /\ z.tenant # u
        BY <1>0, <2>2, GovernanceAssumption
      <4> QED BY <1>4, <1>5, <4>1, AsideBacked
    <3> QED BY <1>0, <1>2, <1>4, <2>2, <3>1
  <2> QED BY <2>1, <2>2
<1>8. BooksOf(ledger', caller', limits', excess')
  BY <1>7 DEF BooksOf
<1> QED BY <1>3, <1>8

\* Callers and calls when a caller moves on with its call, or leaves it.
LEMMA CallKept ==
  ASSUME IInv, NEW c \in Callers, NEW z, caller' = [caller EXCEPT ![c] = z],
         Fits(z, Len(calls)), z.call \in {0, caller[c].call},
         calls' \in Seq(Call), Len(calls') = Len(calls),
         \A j \in DOMAIN calls : j # caller[c].call => calls'[j] = calls[j],
         z.call # 0 => Tells(z, calls'[z.call]),
         z.call = 0 /\ caller[c].call # 0 => Truthful(calls'[caller[c].call], FALSE)
  PROVE  CallersFit(caller', Len(calls')) /\ CallsTold(caller', calls')
<1>1. /\ CallersFit(caller, Len(calls)) /\ CallsTold(caller, calls)
      /\ calls \in Seq(Call) /\ Len(calls) \in Nat
  BY AtWork DEF IInv
<1>2. CallersFit([caller EXCEPT ![c] = z], Len(calls))
  <2> DEFINE n == Len(calls)
  <2>1. n \in Nat /\ n <= n /\ CallersFit(caller, n) /\ Fits(z, n)
    BY <1>1
  <2> HIDE DEF n
  <2>2. CallersFit([caller EXCEPT ![c] = z], n)
    BY <2>1, CallerSet
  <2> QED BY <2>2 DEF n
<1>3. CallsTold([caller EXCEPT ![c] = z], calls')
  BY <1>1, CallsStay
<1> QED BY <1>2, <1>3

\* Nothing more is counted, and the counter of no tool is put back.
LEMMA RunsKept ==
  ASSUME IInv, NEW k, NEW h \in Seq(Call), NEW n \in [Tools -> Nat],
         \A x \in Tools : /\ Counted(k, h, x) \subseteq Counted(caller, calls, x)
                          /\ runCalls[x] <= n[x] /\ n[x] <= MaxPerRun
  PROVE  RunsCounted(k, h, n)
<1> SUFFICES ASSUME NEW x \in Tools
             PROVE  Cardinality(Counted(k, h, x)) <= n[x] /\ n[x] <= MaxPerRun
  BY DEF RunsCounted
<1>1. calls \in Seq(Call) /\ runCalls[x] \in Nat
  BY DEF IInv, Shape
<1>2. IsFiniteSet(Counted(caller, calls, x)) /\ Cardinality(Counted(caller, calls, x)) \in Nat
  BY <1>1, CountedFinite
<1>3. Cardinality(Counted(k, h, x)) <= Cardinality(Counted(caller, calls, x))
  BY <1>2, FS_Subset
<1>4. Cardinality(Counted(k, h, x)) \in Nat
  BY CountedFinite
<1>5. Cardinality(Counted(caller, calls, x)) <= runCalls[x]
  BY DEF IInv, RunsCounted
<1> QED BY <1>1, <1>2, <1>3, <1>4, <1>5

-----------------------------------------------------------------------------
(* The steps: tenants, scopes and buckets                                    *)

LEMMA InitOK == Init => IInv
<1> SUFFICES ASSUME Init PROVE IInv
  OBVIOUS
<1>1. Shape
  <2>1. [s \in Scopes |-> None] \in Ledgers
    BY DEF Ledgers
  <2>2. Limits \in [Scopes -> {Limits[s] : s \in Scopes} \cup {Lowered}]
    BY GovernanceAssumption
  <2>3. calls \in Seq(Call)
    BY DEF Init
  <2> QED BY <2>1, <2>2, <2>3 DEF Shape, Init
<1>2. Len(calls) = 0 /\ DOMAIN calls = {} /\ calls \in Seq(Call)
  BY DEF Init
<1>3. caller = [c \in Callers |-> caller[c]] /\ \A c \in Callers : caller[c] = Idle
  BY DEF Init
<1>4. CallersFit(caller, Len(calls))
  <2>1. Fits(Idle, 0) /\ Idle.call = 0
    BY IdleFits
  <2> QED BY <1>2, <1>3, <2>1 DEF CallersFit
<1>5. BooksOf(ledger, caller, limits, excess)
  <2> SUFFICES ASSUME NEW t \in Tenants
               PROVE  Backed(ledger[t], caller, t) /\ Within(ledger[t], limits[t], excess[t])
    BY DEF BooksOf
  <2>1. \A s \in Scopes : ledger[t][s] = None /\ StateOf(ledger[t], s) = Fresh
    BY DEF Init, StateOf
  <2>2. \A r \in Resources : Count(caller, t, r) = 0
    <3>1. \A r \in Resources : Holding(caller, t, r) = {}
      BY <1>3, IdleFits DEF Holding, Zero
    <3> QED BY <3>1, FS_EmptySet DEF Count
  <2>3. \A r \in Resources : Share(r) * 0 = 0 /\ Fresh.reserved[r] = 0 /\ Fresh.active = 0
    BY LoadShares DEF Fresh, Zero
  <2>4. "model_calls" \in Resources
    BY DEF Resources
  <2>5. Backed(ledger[t], caller, t)
    BY <2>1, <2>2, <2>3, <2>4 DEF Backed
  <2>6. Within(ledger[t], limits[t], excess[t])
    BY <2>1 DEF Within
  <2> QED BY <2>5, <2>6
<1>6. CallsTold(caller, calls)
  BY <1>2, <1>3, IdleFits DEF CallsTold
<1>7. RunsCounted(caller, calls, runCalls)
  <2>1. \A x \in Tools : Counted(caller, calls, x) = {} /\ runCalls[x] = 0
    BY <1>2 DEF Counted, Init
  <2>2. MaxPerRun \in Nat
    BY GovernanceAssumption
  <2> QED BY <2>1, <2>2, FS_EmptySet DEF RunsCounted
<1> QED BY <1>1, <1>4, <1>5, <1>6, <1>7 DEF IInv

\* Callers and calls stay.
LEMMA QuietStep ==
  ASSUME IInv, Shape', UNCHANGED <<caller, calls, runCalls>>,
         BooksOf(ledger', caller', limits', excess')
  PROVE  IInv'
  BY DEF IInv

LEMMA TenantStep ==
  ASSUME IInv, NEW t \in Tenants, RegisterTenant(t) \/ Deactivate(t)
  PROVE  IInv'
<1>1. UNCHANGED <<ledger, limits, excess, runCalls, quota, caller, calls>>
  BY DEF RegisterTenant, Deactivate
<1>2. Shape'
  BY <1>1 DEF IInv, Shape, RegisterTenant, Deactivate
<1>3. BooksOf(ledger', caller', limits', excess')
  BY <1>1 DEF IInv
<1> QED BY <1>1, <1>2, <1>3, QuietStep

LEMMA ResetQuotaStep ==
  ASSUME IInv, NEW b \in Buckets, ResetQuota(b)
  PROVE  IInv'
<1>1. UNCHANGED <<tenant, ledger, limits, excess, runCalls, caller, calls>>
  BY DEF ResetQuota
<1>2. quota' \in [Buckets -> Nat]
  BY DEF ResetQuota, IInv, Shape
<1>3. Shape'
  BY <1>1, <1>2 DEF IInv, Shape
<1>4. BooksOf(ledger', caller', limits', excess')
  BY <1>1 DEF IInv
<1> QED BY <1>1, <1>3, <1>4, QuietStep

LEMMA ConfigureStep ==
  ASSUME IInv, NEW t \in Tenants, NEW s \in Scopes, Configure(t, s)
  PROVE  IInv'
<1>1. /\ UNCHANGED <<tenant, ledger, excess, runCalls, quota, caller, calls>>
      /\ limits' = [limits EXCEPT ![t][s] = Lowered]
      /\ WithinLimits(StateOf(ledger[t], s), Zero, Lowered)
  BY DEF Configure
<1>2. limits \in [Tenants -> [Scopes -> {Limits[x] : x \in Scopes} \cup {Lowered}]]
  BY DEF IInv, Shape
<1>3. /\ limits' \in [Tenants -> [Scopes -> {Limits[x] : x \in Scopes} \cup {Lowered}]]
      /\ limits'[t][s] = Lowered
      /\ \A u \in Tenants, x \in Scopes : u # t \/ x # s => limits'[u][x] = limits[u][x]
  BY <1>1, <1>2
<1>4. Shape'
  BY <1>1, <1>3 DEF IInv, Shape
<1>5. ASSUME NEW u \in Tenants
      PROVE  Backed(ledger[u], caller, u) /\ Within(ledger[u], limits'[u], excess[u])
  <2>1. Backed(ledger[u], caller, u) /\ Within(ledger[u], limits[u], excess[u])
    BY DEF IInv, BooksOf
  <2>2. ASSUME NEW x \in Scopes, ledger[u][x] # None, x \notin excess[u]
        PROVE  WithinLimits(ledger[u][x], Zero, limits'[u][x])
    <3>1. CASE u = t /\ x = s
      BY <1>1, <1>3, <2>2, <3>1 DEF StateOf
    <3>2. CASE u # t \/ x # s
      BY <1>3, <2>1, <2>2, <3>2 DEF Within
    <3> QED BY <3>1, <3>2
  <2> QED BY <2>1, <2>2 DEF Within
<1>6. BooksOf(ledger', caller', limits', excess')
  BY <1>1, <1>5 DEF BooksOf
<1> QED BY <1>1, <1>4, <1>6, QuietStep

\* Nobody holds anything of a scope that is cleared, so a fresh one is right.
LEMMA ClearStep ==
  ASSUME IInv, NEW t \in Tenants, NEW s \in Scopes, Clear(t, s)
  PROVE  IInv'
<1>1. /\ UNCHANGED <<tenant, limits, runCalls, quota, caller, calls>>
      /\ ledger' = [ledger EXCEPT ![t][s] = None]
      /\ excess' = [excess EXCEPT ![t] = @ \ {s}]
      /\ Holders(t) = {}
  BY DEF Clear
<1>2. ledger \in [Tenants -> Ledgers] /\ excess \in [Tenants -> SUBSET Scopes]
  BY DEF IInv, Shape
<1>3. /\ ledger' \in [Tenants -> Ledgers]
      /\ ledger'[t][s] = None
      /\ \A u \in Tenants, x \in Scopes : u # t \/ x # s => ledger'[u][x] = ledger[u][x]
  BY <1>1, <1>2 DEF Ledgers
<1>4. /\ excess' \in [Tenants -> SUBSET Scopes]
      /\ \A u \in Tenants, x \in Scopes : u # t \/ x # s => (x \in excess'[u] <=> x \in excess[u])
  BY <1>1, <1>2
<1>5. Shape'
  BY <1>1, <1>3, <1>4 DEF IInv, Shape
<1>6. \A r \in Resources : Count(caller, t, r) = 0
  <2>1. \A r \in Resources : Holding(caller, t, r) = {}
    BY <1>1 DEF Holding, Holders, Zero
  <2> QED BY <2>1, FS_EmptySet DEF Count
<1>7. ASSUME NEW u \in Tenants
      PROVE  Backed(ledger'[u], caller, u) /\ Within(ledger'[u], limits[u], excess'[u])
  <2>1. Backed(ledger[u], caller, u) /\ Within(ledger[u], limits[u], excess[u])
    BY DEF IInv, BooksOf
  <2>2. ASSUME NEW x \in Scopes
        PROVE  /\ StateOf(ledger'[u], x).active = Count(caller, u, "model_calls")
               /\ \A r \in Resources : StateOf(ledger'[u], x).reserved[r] = Share(r) * Count(caller, u, r)
    <3>1. CASE u = t /\ x = s
      <4>1. StateOf(ledger'[u], x) = Fresh
        BY <1>3, <3>1 DEF StateOf
      <4>2. \A r \in Resources : Share(r) * 0 = 0 /\ Fresh.reserved[r] = 0
        BY LoadShares DEF Fresh, Zero
      <4>3. "model_calls" \in Resources /\ Fresh.active = 0
        BY DEF Resources, Fresh
      <4> QED BY <1>6, <3>1, <4>1, <4>2, <4>3
    <3>2. CASE u # t \/ x # s
      <4>1. StateOf(ledger'[u], x) = StateOf(ledger[u], x)
        BY <1>3, <3>2 DEF StateOf
      <4> QED BY <2>1, <4>1 DEF Backed
    <3> QED BY <3>1, <3>2
  <2>3. Backed(ledger'[u], caller, u)
    BY <2>2 DEF Backed
  <2>4. ASSUME NEW x \in Scopes, ledger'[u][x] # None, x \notin excess'[u]
        PROVE  WithinLimits(ledger'[u][x], Zero, limits[u][x])
    <3>1. u # t \/ x # s
      BY <1>3, <2>4
    <3> QED BY <1>3, <1>4, <2>1, <2>4, <3>1 DEF Within
  <2> QED BY <2>3, <2>4 DEF Within
<1>8. BooksOf(ledger', caller', limits', excess')
  BY <1>1, <1>7 DEF BooksOf
<1> QED BY <1>1, <1>5, <1>8, QuietStep

-----------------------------------------------------------------------------
(* The steps: one caller moves                                               *)

LEMMA CallerStep ==
  ASSUME IInv, Shape', NEW c \in Callers, NEW z, caller' = [caller EXCEPT ![c] = z],
         Fits(z, Len(calls)), z.call \in {0, caller[c].call},
         BooksOf(ledger', caller', limits', excess'), runCalls' = runCalls,
         Len(calls') = Len(calls),
         \A j \in DOMAIN calls : /\ calls'[j].tool = calls[j].tool
                                 /\ j # caller[c].call => calls'[j] = calls[j],
         z.call # 0 => Tells(z, calls'[z.call]),
         z.call = 0 /\ caller[c].call # 0 => Truthful(calls'[caller[c].call], FALSE),
         \/ caller[c].call = 0
         \/ calls[caller[c].call].ran \/ caller[c].at = "invoke"
         \/ ~calls'[caller[c].call].ran /\ ~(z.call = caller[c].call /\ z.at = "invoke")
  PROVE  IInv'
<1>1. calls \in Seq(Call) /\ calls' \in Seq(Call) /\ CallersFit(caller, Len(calls))
  BY DEF IInv, Shape
<1>2. CallersFit(caller', Len(calls')) /\ CallsTold(caller', calls')
  BY <1>1, CallKept
<1>3. \A x \in Tools : Counted([caller EXCEPT ![c] = z], calls', x) \subseteq Counted(caller, calls, x)
  BY <1>1, CountedStay
<1>4. runCalls \in [Tools -> Nat] /\ MaxPerRun \in Nat
      /\ \A x \in Tools : runCalls[x] <= runCalls[x] /\ runCalls[x] <= MaxPerRun
  BY GovernanceAssumption DEF IInv, Shape, RunsCounted
<1>5. RunsCounted(caller', calls', runCalls')
  BY <1>1, <1>3, <1>4, RunsKept
<1> QED BY <1>2, <1>5 DEF IInv

\* A caller that is not inside the gateway, before and after.
LEMMA OutsideStep ==
  ASSUME IInv, Shape', NEW c \in Callers, NEW z, caller' = [caller EXCEPT ![c] = z],
         Fits(z, Len(calls)), z.call = 0, caller[c].call = 0,
         BooksOf(ledger', caller', limits', excess'), UNCHANGED <<runCalls, calls>>
  PROVE  IInv'
  BY CallerStep

\* A caller goes on with its call, whose record stays as it is.
LEMMA InsideStep ==
  ASSUME IInv, Shape', NEW c \in Callers, NEW z, caller' = [caller EXCEPT ![c] = z],
         Fits(z, Len(calls)), z.call = caller[c].call, caller[c].at \in Gateway,
         BooksOf(ledger', caller', limits', excess'), UNCHANGED <<runCalls, calls>>,
         Tells(z, calls[z.call]),
         z.at # "invoke"
  PROVE  IInv'
<1>1. caller[c].call # 0
  BY AtWork
<1>2. Tells(caller[c], calls[caller[c].call])
  BY <1>1 DEF IInv, CallsTold
<1>3. calls[caller[c].call].ran \/ ~calls[caller[c].call].ran
  OBVIOUS
<1>4. \/ calls[caller[c].call].ran
      \/ ~calls'[caller[c].call].ran /\ ~(z.call = caller[c].call /\ z.at = "invoke")
  BY <1>3
<1> QED BY <1>1, <1>4, CallerStep

\* Nothing changes but the caller.
LEMMA ShapeKept ==
  ASSUME IInv, UNCHANGED <<tenant, limits, quota, runCalls, calls>>,
         excess' = excess \/ excess' \in [Tenants -> SUBSET Scopes],
         ledger' = ledger \/ ledger' \in [Tenants -> Ledgers]
  PROVE  Shape'
  BY DEF IInv, Shape

LEMMA LedgerForStep ==
  ASSUME IInv, NEW c \in Callers, NEW t \in Tenants, LedgerFor(c, t)
  PROVE  IInv'
<1> DEFINE z == Ready(t)
<1>1. /\ caller[c].at = "idle" /\ caller' = [caller EXCEPT ![c] = z]
      /\ UNCHANGED <<tenant, ledger, limits, excess, runCalls, quota, calls>>
  BY DEF LedgerFor
<1>2. Fits(z, Len(calls)) /\ z.at = "ready" /\ z.tenant = t /\ z.amount = Zero /\ z.call = 0
  BY AtWork, ReadyFits
<1> HIDE DEF z
<1>3. caller[c].amount = Zero /\ caller[c].call = 0
  BY <1>1, AtWork, LoadCases DEF Stages, Gateway
<1>4. Shape'
  BY <1>1, ShapeKept
<1>5. BooksOf(ledger', caller', limits', excess')
  BY <1>1, <1>2, <1>3, AsideBooks
<1> QED BY <1>1, <1>2, <1>3, <1>4, <1>5, OutsideStep

\* An operation ends without a reservation.
LEMMA EndStep ==
  ASSUME IInv, NEW c \in Callers, caller[c].at # "idle", End(c), caller[c].amount = Zero, caller[c].call = 0,
         UNCHANGED <<tenant, ledger, limits, excess, runCalls, quota, calls>>
  PROVE  IInv'
<1> DEFINE z == Ready(caller[c].tenant)
<1>1. caller' = [caller EXCEPT ![c] = z]
  BY DEF End
<1>2. Fits(z, Len(calls)) /\ z.amount = Zero /\ z.call = 0
  BY ReadyAgain
<1> HIDE DEF z
<1>3. Shape'
  BY ShapeKept
<1>4. BooksOf(ledger', caller', limits', excess')
  BY <1>1, <1>2, AsideBooks
<1> QED BY <1>1, <1>2, <1>3, <1>4, OutsideStep

LEMMA ContinueStep ==
  ASSUME IInv, NEW c \in Callers, Continue(c)
  PROVE  IInv'
<1>1. /\ caller[c].at = "ready"
      /\ Goto(c, "continue") \/ End(c)
      /\ UNCHANGED <<tenant, ledger, limits, excess, runCalls, quota, calls>>
  BY DEF Continue
<1>2. caller[c].amount = Zero /\ caller[c].call = 0
  BY <1>1, AtWork, LoadCases DEF Stages, Gateway
<1>3. CASE End(c)
  BY <1>1, <1>2, <1>3, EndStep
<1>4. CASE Goto(c, "continue")
  <2> DEFINE z == Going(caller[c], "continue")
  <2>1. caller' = [caller EXCEPT ![c] = z]
    BY <1>4 DEF Goto, Going
  <2>2. Fits(z, Len(calls)) /\ z.amount = Zero /\ z.call = caller[c].call
    <3>1. "continue" \in Stages
      BY DEF Stages
    <3>2. Fits(caller[c], Len(calls)) /\ Len(calls) \in Nat
      BY AtWork
    <3> QED BY <1>1, <3>1, <3>2, GotoFits
  <2> HIDE DEF z
  <2>3. Shape'
    BY <1>1, ShapeKept
  <2>4. BooksOf(ledger', caller', limits', excess')
    BY <1>1, <1>2, <2>1, <2>2, AsideBooks
  <2> QED BY <1>1, <1>2, <2>1, <2>2, <2>3, <2>4, OutsideStep
<1> QED BY <1>1, <1>3, <1>4

-----------------------------------------------------------------------------
(* The steps: reservations                                                   *)

\* A reservation is made, or the operation ends.
LEMMA TakeStep ==
  ASSUME IInv, NEW c \in Callers, NEW a, NEW at \in Stages, Take(c, a, at), a = Load(at),
         \/ caller[c].at = "ready" /\ at = "model"
         \/ caller[c].at \in {"ready", "continue"} /\ at = "attempt",
         UNCHANGED <<tenant, limits, excess, runCalls, quota, calls>>
  PROVE  IInv'
<1> DEFINE t == caller[c].tenant
           z == Taking(caller[c], a, at)
<1>1. t \in Tenants /\ caller[c].call = 0 /\ Fits(caller[c], Len(calls)) /\ Len(calls) \in Nat
  BY AtWork DEF Gateway
<1>2. Fits(z, Len(calls)) /\ z.tenant = t /\ z.amount = a /\ caller[c].amount = Zero /\ z.call = 0
  <2>1. Fits(z, Len(calls)) /\ z.tenant = t /\ z.amount = a /\ caller[c].amount = Zero /\ z.call = caller[c].call
    BY <1>1, TakeFits
  <2> QED BY <1>1, <2>1
<1>3. CASE ~CanReserve(ledger[t], limits[t], Scopes, a)
  <2>1. ledger' = ledger /\ End(c)
    BY <1>3 DEF Take
  <2> QED BY <1>1, <1>2, <2>1, EndStep
<1>4. CASE CanReserve(ledger[t], limits[t], Scopes, a)
  <2>1. /\ ledger' = [ledger EXCEPT ![t] = Reserve(@, Scopes, a)]
        /\ caller' = [caller EXCEPT ![c] = z]
    BY <1>4 DEF Take, Taking
  <2>2. a \in Amounts /\ \A r \in Resources : a[r] \in {0, Share(r)}
    BY LoadShares
  <2> HIDE DEF z
  <2>3. BooksOf(ledger', caller', limits', excess') /\ ledger' \in [Tenants -> Ledgers]
    BY <1>1, <1>2, <1>4, <2>1, <2>2, TakeBooks
  <2>4. Shape'
    BY <2>3, ShapeKept
  <2> QED BY <1>1, <1>2, <2>1, <2>3, <2>4, OutsideStep
<1> QED BY <1>3, <1>4

LEMMA GenerateStep ==
  ASSUME IInv, NEW c \in Callers, Generate(c)
  PROVE  IInv'
<1> DEFINE a == ModelAmount(MaxCost(EstInput, EstOutput))
<1>1. /\ caller[c].at = "ready" /\ Take(c, a, "model")
      /\ UNCHANGED <<tenant, limits, excess, runCalls, quota, calls>>
  BY DEF Generate
<1>2. a = Load("model") /\ "model" \in Stages
  BY LoadCases DEF Share, Stages
<1> HIDE DEF a
<1> QED BY <1>1, <1>2, TakeStep

LEMMA AttemptStep ==
  ASSUME IInv, NEW c \in Callers, Attempt(c)
  PROVE  IInv'
<1> DEFINE a == Amount("attempts", 1)
<1>1. /\ caller[c].at \in {"ready", "continue"} /\ Take(c, a, "attempt")
      /\ UNCHANGED <<tenant, limits, excess, runCalls, quota, calls>>
  BY DEF Attempt
<1>2. a = Load("attempt") /\ "attempt" \in Stages
  BY LoadCases DEF Stages
<1> HIDE DEF a
<1> QED BY <1>1, <1>2, TakeStep

-----------------------------------------------------------------------------
(* The steps: settlements and releases                                       *)

Working == {"model", "attempt", "tool"}

LEMMA HoldsIt ==
  ASSUME IInv, NEW c \in Callers, caller[c].at \in Working
  PROVE  LET t == caller[c].tenant
             a == caller[c].amount
         IN /\ t \in Tenants /\ a \in Amounts /\ ledger[t] \in Ledgers
            /\ \A r \in Resources : a[r] \in {0, Share(r)}
            /\ \A s \in Scopes : /\ ledger[t][s] \in Entries /\ a["model_calls"] <= ledger[t][s].active
                                 /\ \A r \in Resources : a[r] <= ledger[t][s].reserved[r]
<1> DEFINE t == caller[c].tenant
           a == caller[c].amount
           at == caller[c].at
<1>1. t \in Tenants /\ a = Load(at) /\ at \in Stages
  BY AtWork DEF Working
<1>2. ledger[t] \in Ledgers /\ Backed(ledger[t], caller, t)
  BY <1>1, LimitsTyped DEF IInv, BooksOf
<1>3. a \in Amounts /\ \A r \in Resources : a[r] \in {0, Share(r)}
  BY <1>1, LoadShares
<1>4. \E r \in Resources : Share(r) = 1 /\ a[r] = 1
  BY <1>1, LoadShares DEF Working
<1>5. \A s \in Scopes : /\ ledger[t][s] \in Entries /\ a["model_calls"] <= ledger[t][s].active
                        /\ \A r \in Resources : a[r] <= ledger[t][s].reserved[r]
  BY <1>2, <1>3, <1>4, HeldThere
<1> QED BY <1>1, <1>2, <1>3, <1>5

LEMMA ReleaseBooks ==
  ASSUME IInv, NEW c \in Callers, caller[c].at \in Working, Release(c),
         NEW z, caller' = [caller EXCEPT ![c] = z], z.amount = Zero, z.tenant \in {caller[c].tenant, None},
         UNCHANGED <<limits, excess>>
  PROVE  BooksOf(ledger', caller', limits', excess') /\ ledger' \in [Tenants -> Ledgers]
<1> DEFINE t == caller[c].tenant
           a == caller[c].amount
           l == ledger[t]
           m == Rollback(l, Scopes, a)
<1>1. /\ t \in Tenants /\ a \in Amounts /\ l \in Ledgers
      /\ \A r \in Resources : a[r] \in {0, Share(r)}
      /\ \A s \in Scopes : /\ l[s] \in Entries /\ a["model_calls"] <= l[s].active
                           /\ \A r \in Resources : a[r] <= l[s].reserved[r]
  BY HoldsIt
<1>2. ledger' = [ledger EXCEPT ![t] = m]
  BY DEF Release
<1>3. limits[t] \in [Scopes -> Caps] /\ Within(l, limits[t], excess[t])
  BY <1>1, LimitsTyped DEF IInv, BooksOf
<1> HIDE DEF l
<1>4. /\ m \in Ledgers
      /\ \A s \in Scopes : /\ m[s] \in Entries /\ m[s].committed = l[s].committed
                           /\ m[s].reserved = Subtract(l[s].reserved, a)
                           /\ m[s].active = l[s].active - a["model_calls"]
  BY <1>1, RollbackEffect
<1> HIDE DEF m, t, a
<1>5. \A s \in Scopes, r \in Resources : m[s].committed[r] <= l[s].committed[r] + a[r]
  <2> SUFFICES ASSUME NEW s \in Scopes, NEW r \in Resources
               PROVE  m[s].committed[r] <= l[s].committed[r] + a[r]
    OBVIOUS
  <2>1. l[s].committed[r] \in Nat /\ a[r] \in Nat
    BY <1>1, StateShape DEF Amounts
  <2> QED BY <1>4, <2>1
<1>6. Within(m, limits[t], excess[t])
  BY <1>1, <1>3, <1>4, <1>5, GiveWithin
<1>7. \A s \in Scopes : /\ ledger[t][s] \in Entries /\ m[s] \in Entries
                        /\ m[s].reserved = Subtract(ledger[t][s].reserved, a)
                        /\ m[s].active = ledger[t][s].active - a["model_calls"]
  BY <1>1, <1>4 DEF l
<1>8. caller[c].tenant = t /\ caller[c].amount = a /\ z.tenant \in {t, None}
  BY DEF t, a
<1>9. GivesBack(c, z, t, a, m)
  BY <1>1, <1>2, <1>6, <1>7, <1>8 DEF GivesBack
<1> QED BY <1>1, <1>4, <1>9, GiveBooks

LEMMA SettleBooks ==
  ASSUME IInv, NEW c \in Callers, caller[c].at \in Working, NEW b \in Amounts, Settle(c, b),
         NEW z, caller' = [caller EXCEPT ![c] = z], z.amount = Zero, z.tenant \in {caller[c].tenant, None},
         UNCHANGED limits,
         \/ excess' = excess /\ \A r \in Resources : b[r] <= caller[c].amount[r]
         \/ excess' = [excess EXCEPT ![caller[c].tenant] = Scopes]
  PROVE  BooksOf(ledger', caller', limits', excess') /\ ledger' \in [Tenants -> Ledgers]
<1> DEFINE t == caller[c].tenant
           a == caller[c].amount
           l == ledger[t]
           m == Commit(l, Scopes, a, b)
<1>1. /\ t \in Tenants /\ a \in Amounts /\ l \in Ledgers
      /\ \A r \in Resources : a[r] \in {0, Share(r)}
      /\ \A s \in Scopes : /\ l[s] \in Entries /\ a["model_calls"] <= l[s].active
                           /\ \A r \in Resources : a[r] <= l[s].reserved[r]
  BY HoldsIt
<1>2. ledger' = [ledger EXCEPT ![t] = m]
  BY DEF Settle
<1>3. limits[t] \in [Scopes -> Caps] /\ Within(l, limits[t], excess[t])
  BY <1>1, LimitsTyped DEF IInv, BooksOf
<1>4. excess \in [Tenants -> SUBSET Scopes]
  BY DEF IInv, Shape
<1>5. /\ \A u \in Tenants \ {t} : excess'[u] = excess[u]
      /\ \/ excess'[t] = excess[t] /\ \A r \in Resources : b[r] <= a[r]
         \/ excess'[t] = Scopes
  BY <1>1, <1>4
<1> HIDE DEF l
<1>6. /\ m \in Ledgers
      /\ \A s \in Scopes : /\ m[s] \in Entries /\ m[s].committed = Add(l[s].committed, b)
                           /\ m[s].reserved = Subtract(l[s].reserved, a)
                           /\ m[s].active = l[s].active - a["model_calls"]
  BY <1>1, CommitEffect
<1> HIDE DEF m, t, a
<1>7. Within(m, limits[t], excess'[t])
  <2>1. CASE excess'[t] = Scopes
    BY <2>1 DEF Within
  <2>2. CASE excess'[t] = excess[t] /\ \A r \in Resources : b[r] <= a[r]
    <3>1. ASSUME NEW s \in Scopes, NEW r \in Resources
          PROVE  m[s].committed[r] <= l[s].committed[r] + a[r]
      <4>1. l[s].committed[r] \in Nat /\ a[r] \in Nat /\ b[r] \in Nat /\ b[r] <= a[r]
        BY <1>1, <2>2, StateShape DEF Amounts
      <4>2. m[s].committed[r] = l[s].committed[r] + b[r]
        <5>1. m[s].committed = Add(l[s].committed, b)
          BY <1>6
        <5> QED BY <5>1 DEF Add
      <4> QED BY <4>1, <4>2
    <3>2. Within(m, limits[t], excess[t])
      BY <1>1, <1>3, <1>6, <3>1, GiveWithin
    <3> QED BY <2>2, <3>2
  <2> QED BY <1>5, <2>1, <2>2
<1>8. \A s \in Scopes : /\ ledger[t][s] \in Entries /\ m[s] \in Entries
                        /\ m[s].reserved = Subtract(ledger[t][s].reserved, a)
                        /\ m[s].active = ledger[t][s].active - a["model_calls"]
  BY <1>1, <1>6 DEF l
<1>9. caller[c].tenant = t /\ caller[c].amount = a /\ z.tenant \in {t, None}
  BY DEF t, a
<1>10. m \in Ledgers /\ t \in Tenants /\ a \in Amounts /\ \A r \in Resources : a[r] \in {0, Share(r)}
  BY <1>1, <1>6
<1>11. \A u \in Tenants \ {t} : excess'[u] = excess[u]
  BY <1>5
<1>12. GivesBack(c, z, t, a, m)
  BY <1>2, <1>7, <1>8, <1>9, <1>10, <1>11 DEF GivesBack
<1> QED BY <1>10, <1>12, GiveBooks

\* What an answer costs is a number, whatever it reports.
LEMMA CostNat ==
  ASSUME NEW usage \in Usages
  PROVE  Cost(usage) \in Nat
<1> DEFINE ordinary == Max({0, usage.input - (usage.hit + usage.miss)})
           reasoning == Min({usage.reasoning, usage.output})
           answer == usage.output - reasoning
           spent == ordinary * Rates.input + usage.hit * Rates.hit + usage.miss * Rates.miss
                    + answer * Rates.output + reasoning * Rates.reasoning
<1>1. /\ usage.input \in Nat /\ usage.hit \in Nat /\ usage.miss \in Nat
      /\ usage.output \in Nat /\ usage.reasoning \in Nat
  BY GovernanceAssumption DEF PerKind
<1>2. /\ Rates.input \in Nat /\ Rates.hit \in Nat /\ Rates.miss \in Nat
      /\ Rates.output \in Nat /\ Rates.reasoning \in Nat
  BY GovernanceAssumption DEF PerKind
<1>3. ordinary \in Nat
  <2>1. 0 \in Int /\ usage.input - (usage.hit + usage.miss) \in Int
    BY <1>1
  <2>2. ordinary \in {0, usage.input - (usage.hit + usage.miss)} /\ 0 <= ordinary
    BY <2>1, MaxOfTwo, Zenon
  <2> QED BY <2>1, <2>2
<1>4. reasoning \in Nat /\ answer \in Nat
  <2>1. usage.reasoning \in Int /\ usage.output \in Int
    BY <1>1
  <2>2. reasoning \in {usage.reasoning, usage.output} /\ reasoning <= usage.output
    BY <2>1, MinOfTwo, Zenon
  <2> QED BY <1>1, <2>2
<1>5. Cost(usage) = CeilDiv(spent, Unit)
  BY DEF Cost
<1> HIDE DEF ordinary, reasoning, answer
<1>6. /\ ordinary * Rates.input \in Nat /\ usage.hit * Rates.hit \in Nat /\ usage.miss * Rates.miss \in Nat
      /\ answer * Rates.output \in Nat /\ reasoning * Rates.reasoning \in Nat
  BY <1>1, <1>2, <1>3, <1>4
<1>7. spent \in Nat
  BY <1>6
<1> HIDE DEF spent
<1> QED BY <1>5, <1>7, CeilDivMonotone

\* A caller outside the gateway ends its work.
LEMMA ModelAnswersStep ==
  ASSUME IInv, NEW c \in Callers, ModelAnswers(c)
  PROVE  IInv'
<1> DEFINE z == Ready(caller[c].tenant)
<1> DEFINE t == caller[c].tenant
<1>1. PICK usage \in Usages :
        /\ Settle(c, ModelAmount(Cost(usage)))
        /\ excess' = [excess EXCEPT ![t] = IF Estimated(usage) THEN @ ELSE Scopes]
  BY DEF ModelAnswers
<1> DEFINE b == ModelAmount(Cost(usage))
<1>2. /\ caller[c].at = "model" /\ caller' = [caller EXCEPT ![c] = z]
      /\ UNCHANGED <<tenant, limits, runCalls, quota, calls>>
  BY DEF ModelAnswers, End
<1>3. caller[c].at \in Working /\ caller[c].call = 0 /\ caller[c].amount = ModelAmount(Share("cost"))
  BY <1>2, AtWork, LoadCases DEF Working, Gateway
<1>4. Fits(z, Len(calls)) /\ z.amount = Zero /\ z.tenant = caller[c].tenant /\ z.call = 0
  BY <1>2, ReadyAgain
<1> HIDE DEF z
<1>5. b \in Amounts
  BY CostNat, AmountTypes
<1>6. excess \in [Tenants -> SUBSET Scopes] /\ t \in Tenants
  BY <1>2, AtWork DEF IInv, Shape
<1>7. \/ excess' = excess /\ \A r \in Resources : b[r] <= caller[c].amount[r]
      \/ excess' = [excess EXCEPT ![t] = Scopes]
  <2>1. CASE Estimated(usage)
    <3>1. excess' = excess
      BY <1>1, <1>6, <2>1
    <3>2. Cost(usage) \in Nat /\ Cost(usage) <= Share("cost") /\ Share("cost") \in Nat
      BY <2>1, EstimateCovers, LoadShares DEF Share
    <3> DEFINE mine == Cost(usage)
               most == Share("cost")
    <3>3. mine \in Nat /\ most \in Nat /\ mine <= most
      BY <3>2
    <3> HIDE DEF mine, most
    <3>4. \A r \in Resources : ModelAmount(mine)[r] <= ModelAmount(most)[r]
      BY <3>3 DEF ModelAmount, Zero
    <3> QED BY <1>3, <3>1, <3>4 DEF mine, most
  <2>2. CASE ~Estimated(usage)
    BY <1>1, <2>2
  <2> QED BY <2>1, <2>2
<1> HIDE DEF b
<1>8. Settle(c, b)
  BY <1>1 DEF b
<1>9. BooksOf(ledger', caller', limits', excess') /\ ledger' \in [Tenants -> Ledgers]
  BY <1>2, <1>3, <1>4, <1>5, <1>7, <1>8, SettleBooks
<1>10. excess' \in [Tenants -> SUBSET Scopes]
  BY <1>6, <1>7
<1>11. Shape'
  BY <1>2, <1>9, <1>10, ShapeKept
<1> QED BY <1>2, <1>3, <1>4, <1>9, <1>11, OutsideStep

LEMMA AttemptEndsStep ==
  ASSUME IInv, NEW c \in Callers, AttemptEnds(c)
  PROVE  IInv'
<1> DEFINE z == Ready(caller[c].tenant)
<1> DEFINE b == caller[c].amount
<1>1. /\ caller[c].at = "attempt" /\ caller' = [caller EXCEPT ![c] = z] /\ Settle(c, b)
      /\ UNCHANGED <<tenant, limits, excess, runCalls, quota, calls>>
  BY DEF AttemptEnds, End
<1>2. caller[c].at \in Working /\ caller[c].call = 0
  BY <1>1, AtWork DEF Working, Gateway
<1>3. Fits(z, Len(calls)) /\ z.amount = Zero /\ z.tenant = caller[c].tenant /\ z.call = 0
  BY <1>1, ReadyAgain
<1> HIDE DEF z
<1>4. b \in Amounts /\ \A r \in Resources : b[r] <= caller[c].amount[r]
  BY <1>2, HoldsIt DEF Amounts
<1>5. BooksOf(ledger', caller', limits', excess') /\ ledger' \in [Tenants -> Ledgers]
  BY <1>1, <1>2, <1>3, <1>4, SettleBooks
<1>6. Shape'
  BY <1>1, <1>5, ShapeKept
<1> QED BY <1>1, <1>2, <1>3, <1>5, <1>6, OutsideStep

LEMMA WorkFailsStep ==
  ASSUME IInv, NEW c \in Callers, WorkFails(c)
  PROVE  IInv'
<1> DEFINE z == Ready(caller[c].tenant)
<1>1. /\ caller[c].at \in {"model", "attempt"} /\ caller' = [caller EXCEPT ![c] = z] /\ Release(c)
      /\ UNCHANGED <<tenant, limits, excess, runCalls, quota, calls>>
  BY DEF WorkFails, End
<1>2. caller[c].at \in Working /\ caller[c].call = 0
  BY <1>1, AtWork DEF Working, Gateway
<1>3. Fits(z, Len(calls)) /\ z.amount = Zero /\ z.tenant = caller[c].tenant /\ z.call = 0
  BY <1>1, ReadyAgain
<1> HIDE DEF z
<1>4. BooksOf(ledger', caller', limits', excess') /\ ledger' \in [Tenants -> Ledgers]
  BY <1>1, <1>2, <1>3, ReleaseBooks
<1>5. Shape'
  BY <1>1, <1>4, ShapeKept
<1> QED BY <1>1, <1>2, <1>3, <1>4, <1>5, OutsideStep

-----------------------------------------------------------------------------
(* The steps: the gateway                                                    *)

\* A caller inside the gateway and its call.
LEMMA Inside ==
  ASSUME IInv, NEW c \in Callers, caller[c].at \in Gateway
  PROVE  LET i == caller[c].call
         IN /\ i \in DOMAIN calls /\ i # 0 /\ calls[i] \in Call
            /\ Tells(caller[c], calls[i])
            /\ caller[c].tenant \in Tenants
            /\ caller[c].at # "audit" => caller[c].verdict = None
<1> DEFINE i == caller[c].call
<1>1. calls \in Seq(Call) /\ i \in 0..Len(calls) /\ i # 0 /\ Len(calls) \in Nat
  BY AtWork
<1>2. i \in DOMAIN calls /\ calls[i] \in Call
  BY <1>1
<1>3. Tells(caller[c], calls[i])
  BY <1>1 DEF IInv, CallsTold
<1>4. Fits(caller[c], Len(calls)) /\ caller[c].tenant \in Tenants
  BY AtWork DEF Gateway
<1>5. caller[c].at # "audit" => caller[c].verdict = None
  BY <1>4 DEF Fits
<1> QED BY <1>1, <1>2, <1>3, <1>4, <1>5

LEMMA ApproveStep ==
  ASSUME IInv, NEW c \in Callers, Approve(c)
  PROVE  IInv'
<1> DEFINE z == Going(caller[c], "access")
<1>1. /\ caller[c].at = "approval" /\ caller' = [caller EXCEPT ![c] = z]
      /\ UNCHANGED <<tenant, ledger, limits, excess, runCalls, quota, calls>>
  BY DEF Approve, Goto, Going
<1>2. caller[c].at \in Gateway /\ "access" \in Stages
  BY <1>1 DEF Gateway, Stages
<1>3. /\ Fits(z, Len(calls)) /\ z.at = "access" /\ z.amount = Zero /\ caller[c].amount = Zero
      /\ z.call = caller[c].call /\ z.verdict = None
  BY <1>1, <1>2, AtWork, GotoFits
<1> HIDE DEF z
<1>4. Tells(z, calls[z.call])
  <2>1. Tells(caller[c], calls[caller[c].call]) /\ None \notin Decisions
    BY <1>2, Inside, GovernanceAssumption
  <2> QED BY <1>1, <1>3, <2>1 DEF Tells, Decisions
<1>5. Shape'
  BY <1>1, ShapeKept
<1>6. BooksOf(ledger', caller', limits', excess')
  BY <1>1, <1>3, AsideBooks
<1>7. z.at # "invoke"
  BY <1>3
<1> QED BY <1>1, <1>2, <1>3, <1>4, <1>5, <1>6, <1>7, InsideStep

\* A verdict that the stage allows, with nothing reserved before or after.
LEMMA VerdictStep ==
  ASSUME IInv, NEW c \in Callers, NEW v \in Decisions, Verdict(c, v),
         caller[c].at \in {"approval", "access", "invoke"}, v # "allowed",
         UNCHANGED <<tenant, ledger, limits, excess, runCalls, quota, calls>>
  PROVE  IInv'
<1> DEFINE z == Judged(caller[c], v)
<1>1. caller' = [caller EXCEPT ![c] = z]
  BY DEF Verdict, Judged
<1>2. caller[c].at \in Gateway /\ caller[c].amount = Zero
  BY AtWork, LoadCases DEF Gateway, Stages
<1>3. /\ Fits(z, Len(calls)) /\ z.at = "audit" /\ z.amount = Zero
      /\ z.call = caller[c].call /\ z.verdict = v
  BY <1>2, AtWork, VerdictFits
<1> HIDE DEF z
<1>4. Tells(z, calls[z.call])
  <2>1. Tells(caller[c], calls[caller[c].call])
    BY <1>2, Inside
  <2> QED BY <1>3, <2>1 DEF Tells
<1>5. Shape'
  BY ShapeKept
<1>6. BooksOf(ledger', caller', limits', excess')
  BY <1>1, <1>2, <1>3, AsideBooks
<1>7. z.at # "invoke"
  BY <1>3
<1> QED BY <1>1, <1>2, <1>3, <1>4, <1>5, <1>6, <1>7, InsideStep

LEMMA RejectStep ==
  ASSUME IInv, NEW c \in Callers, Reject(c) \/ Deny(c) \/ RefuseTool(c)
  PROVE  IInv'
<1>1. /\ caller[c].at \in {"approval", "access", "invoke"}
      /\ Verdict(c, "denied") \/ Verdict(c, "error")
      /\ UNCHANGED <<tenant, ledger, limits, excess, runCalls, quota, calls>>
  BY DEF Reject, Deny, RefuseTool
<1>2. "denied" \in Decisions /\ "error" \in Decisions
  BY DEF Decisions
<1> QED BY <1>1, <1>2, VerdictStep

\* A field of the record of a call is written.
LEMMA Noted ==
  ASSUME NEW h \in Seq(Call), NEW i \in DOMAIN h, NEW y \in Call, NEW g, g = [h EXCEPT ![i] = y],
         y.tool = h[i].tool
  PROVE  /\ g \in Seq(Call) /\ Len(g) = Len(h) /\ g[i] = y
         /\ \A j \in DOMAIN h : /\ g[j].tool = h[j].tool
                                /\ j # i => g[j] = h[j]
<1>1. g \in Seq(Call) /\ Len(g) = Len(h) /\ g[i] = y /\ \A j \in DOMAIN h : j # i => g[j] = h[j]
  OBVIOUS
<1> QED BY <1>1

LEMMA RecordOf ==
  ASSUME NEW y \in Call
  PROVE  /\ [y EXCEPT !.ran = TRUE] \in Call /\ [y EXCEPT !.ran = TRUE].ran
         /\ [y EXCEPT !.ran = TRUE].tool = y.tool /\ [y EXCEPT !.ran = TRUE].audit = y.audit
         /\ [y EXCEPT !.cut = TRUE] \in Call /\ [y EXCEPT !.cut = TRUE].cut
         /\ [y EXCEPT !.cut = TRUE].tool = y.tool /\ [y EXCEPT !.cut = TRUE].audit = y.audit
         /\ [y EXCEPT !.cut = TRUE].ran = y.ran
         /\ \A v \in Decisions : /\ [y EXCEPT !.audit = v] \in Call /\ [y EXCEPT !.audit = v].audit = v
                                 /\ [y EXCEPT !.audit = v].tool = y.tool
                                 /\ [y EXCEPT !.audit = v].ran = y.ran
  BY DEF Call

\* What is written to a record is not whose call it is.
LEMMA TenantOf ==
  ASSUME NEW y \in Call
  PROVE  /\ [y EXCEPT !.ran = TRUE].tenant = y.tenant /\ [y EXCEPT !.cut = TRUE].tenant = y.tenant
         /\ \A v : [y EXCEPT !.audit = v].tenant = y.tenant
  BY DEF Call

\* The tool is admitted: from here on the call counts.
LEMMA AdmitStep ==
  ASSUME IInv, NEW c \in Callers, Admit(c)
  PROVE  IInv'
<1> DEFINE i == caller[c].call
           x == calls[i].tool
<1>1. /\ caller[c].at = "access" /\ UNCHANGED <<tenant, ledger, limits, excess, calls>>
      /\ runCalls' = IF RunExhausted(x) THEN runCalls ELSE [runCalls EXCEPT ![x] = @ + 1]
      /\ IF RunExhausted(x) \/ QuotaExhausted(x)
         THEN Verdict(c, "quota_exceeded") /\ UNCHANGED quota
         ELSE /\ quota' = [quota EXCEPT ![Principal] = @ + 1, ![x] = @ + 1]
              /\ Goto(c, "invoke")
  BY DEF Admit
<1>2. caller[c].at \in Gateway
  BY <1>1 DEF Gateway
<1>3. /\ i \in DOMAIN calls /\ i # 0 /\ calls[i] \in Call /\ x \in Tools
      /\ Tells(caller[c], calls[i]) /\ ~calls[i].ran
  <2>1. i \in DOMAIN calls /\ i # 0 /\ calls[i] \in Call /\ Tells(caller[c], calls[i])
    BY <1>2, Inside
  <2> QED BY <1>1, <2>1 DEF Tells, Call
<1>4. /\ calls \in Seq(Call) /\ runCalls \in [Tools -> Nat] /\ quota \in [Buckets -> Nat]
      /\ Len(calls) \in Nat /\ Fits(caller[c], Len(calls)) /\ MaxPerRun \in Nat
      /\ CallersFit(caller, Len(calls))
  BY AtWork, GovernanceAssumption DEF IInv, Shape
<1>5. caller[c].amount = Zero
  BY <1>1, AtWork, LoadCases DEF Stages, Gateway
<1>6. \A u \in Tools : Cardinality(Counted(caller, calls, u)) <= runCalls[u] /\ runCalls[u] <= MaxPerRun
  BY DEF IInv, RunsCounted
<1>7. /\ runCalls' \in [Tools -> Nat]
      /\ \A u \in Tools : /\ runCalls[u] <= runCalls'[u] /\ runCalls'[u] <= MaxPerRun
                          /\ u # x => runCalls'[u] = runCalls[u]
      /\ ~RunExhausted(x) => runCalls'[x] = runCalls[x] + 1
  <2>1. CASE RunExhausted(x)
    BY <1>1, <1>4, <1>6, <2>1
  <2>2. CASE ~RunExhausted(x)
    <3>1. runCalls[x] < MaxPerRun
      BY <1>3, <1>4, <2>2 DEF RunExhausted
    <3> QED BY <1>1, <1>3, <1>4, <1>6, <2>2, <3>1
  <2> QED BY <2>1, <2>2
<1>8. CASE RunExhausted(x) \/ QuotaExhausted(x)
  <2> DEFINE z == Judged(caller[c], "quota_exceeded")
  <2>1. caller' = [caller EXCEPT ![c] = z] /\ quota' = quota
    BY <1>1, <1>8 DEF Verdict, Judged
  <2>2. /\ Fits(z, Len(calls)) /\ z.at = "audit" /\ z.amount = Zero
        /\ z.call = i /\ z.verdict = "quota_exceeded"
    <3>1. "quota_exceeded" \in Decisions
      BY DEF Decisions
    <3> QED BY <1>2, <1>4, <3>1, VerdictFits
  <2> HIDE DEF z
  <2>3. Tells(z, calls[i])
    BY <1>3, <2>2 DEF Tells
  <2>4. BooksOf(ledger', caller', limits', excess')
    BY <1>1, <1>5, <2>1, <2>2, AsideBooks
  <2>5. CallersFit(caller', Len(calls')) /\ CallsTold(caller', calls')
    BY <1>1, <1>3, <1>4, <2>1, <2>2, <2>3, CallKept
  <2>6. \A u \in Tools : Counted([caller EXCEPT ![c] = z], calls, u) \subseteq Counted(caller, calls, u)
    <3>1. ~calls[i].ran /\ ~(z.call = i /\ z.at = "invoke")
      BY <1>3, <2>2
    <3> QED BY <1>4, <2>2, <3>1, CountedStay
  <2>7. RunsCounted(caller', calls', runCalls')
    BY <1>1, <1>4, <1>7, <2>1, <2>6, RunsKept
  <2>8. Shape'
    BY <1>1, <1>7, <2>1 DEF IInv, Shape
  <2> QED BY <2>4, <2>5, <2>7, <2>8 DEF IInv
<1>9. CASE ~RunExhausted(x) /\ ~QuotaExhausted(x)
  <2> DEFINE z == Going(caller[c], "invoke")
  <2>1. /\ caller' = [caller EXCEPT ![c] = z]
        /\ quota' = [quota EXCEPT ![Principal] = @ + 1, ![x] = @ + 1]
    BY <1>1, <1>9 DEF Goto, Going
  <2>2. /\ Fits(z, Len(calls)) /\ z.at = "invoke" /\ z.amount = Zero
        /\ z.call = i /\ z.verdict = None
    <3>1. "invoke" \in Stages
      BY DEF Stages, Gateway
    <3> QED BY <1>1, <1>4, <3>1, GotoFits
  <2> HIDE DEF z
  <2>3. Tells(z, calls[i])
    <3>1. None \notin Decisions
      BY GovernanceAssumption
    <3> QED BY <1>3, <2>2, <3>1 DEF Tells, Decisions
  <2>4. BooksOf(ledger', caller', limits', excess')
    BY <1>1, <1>5, <2>1, <2>2, AsideBooks
  <2>5. CallersFit(caller', Len(calls')) /\ CallsTold(caller', calls')
    BY <1>1, <1>3, <1>4, <2>1, <2>2, <2>3, CallKept
  <2>6. ASSUME NEW u \in Tools
        PROVE  Cardinality(Counted(caller', calls', u)) <= runCalls'[u] /\ runCalls'[u] <= MaxPerRun
    <3> DEFINE A == Counted(caller, calls, u)
               B == Counted(caller', calls', u)
    <3>1. IsFiniteSet(A) /\ Cardinality(A) \in Nat /\ Cardinality(A) <= runCalls[u]
      BY <1>4, <1>6, CountedFinite
    <3>2. B \subseteq A \cup {i} /\ (u # x => B \subseteq A)
      BY <1>1, <1>4, <2>1, <2>2, CountedStay
    <3>3. IsFiniteSet(A \cup {i}) /\ Cardinality(A \cup {i}) <= Cardinality(A) + 1
          /\ Cardinality(A \cup {i}) \in Nat
      <4> HIDE DEF A, i
      <4>1. /\ IsFiniteSet(A \cup {i})
            /\ Cardinality(A \cup {i}) = IF i \in A THEN Cardinality(A) ELSE Cardinality(A) + 1
        BY <3>1, FS_AddElement
      <4> QED BY <3>1, <4>1
    <3>4. Cardinality(B) <= Cardinality(A \cup {i}) /\ (u # x => Cardinality(B) <= Cardinality(A))
      BY <3>1, <3>2, <3>3, FS_Subset
    <3>5. Cardinality(B) \in Nat
      <4>1. IsFiniteSet(B)
        BY <3>2, <3>3, FS_Subset
      <4> QED BY <4>1, FS_CardinalityType
    <3> HIDE DEF A, B
    <3>6. Cardinality(B) <= runCalls'[u]
      <4>1. CASE u = x
        <5>1. runCalls'[u] = runCalls[u] + 1 /\ runCalls[u] \in Nat
          BY <1>4, <1>7, <1>9, <4>1
        <5>2. Cardinality(B) <= Cardinality(A) + 1
          BY <3>1, <3>3, <3>4, <3>5
        <5> QED BY <3>1, <3>5, <5>1, <5>2
      <4>2. CASE u # x
        BY <1>4, <1>7, <3>1, <3>4, <3>5, <4>2
      <4> QED BY <4>1, <4>2
    <3> QED BY <1>7, <3>6 DEF B
  <2>7. RunsCounted(caller', calls', runCalls')
    BY <2>6 DEF RunsCounted
  <2>8. quota' \in [Buckets -> Nat]
    BY <1>3, <1>4, <2>1 DEF Buckets, Principal
  <2>9. Shape'
    BY <1>1, <1>7, <2>8 DEF IInv, Shape
  <2> QED BY <2>4, <2>5, <2>7, <2>9 DEF IInv
<1> QED BY <1>8, <1>9

\* The reservation is made and the tool runs.
LEMMA StartToolStep ==
  ASSUME IInv, NEW c \in Callers, StartTool(c)
  PROVE  IInv'
<1> DEFINE t == caller[c].tenant
           one == Amount("tool_calls", 1)
           z == Taking(caller[c], one, "tool")
           i == caller[c].call
           y == [calls[i] EXCEPT !.ran = TRUE]
<1>1. /\ caller[c].at = "invoke" /\ CanReserve(ledger[t], limits[t], Scopes, one)
      /\ ledger' = [ledger EXCEPT ![t] = Reserve(@, Scopes, one)]
      /\ caller' = [caller EXCEPT ![c] = z] /\ calls' = [calls EXCEPT ![i] = y]
      /\ UNCHANGED <<tenant, limits, excess, runCalls, quota>>
  BY DEF StartTool, Taking, Note
<1>2. caller[c].at \in Gateway
  BY <1>1 DEF Gateway
<1>3. i \in DOMAIN calls /\ i # 0 /\ calls[i] \in Call /\ Tells(caller[c], calls[i]) /\ t \in Tenants
      /\ calls \in Seq(Call) /\ Fits(caller[c], Len(calls)) /\ Len(calls) \in Nat
  BY <1>2, Inside, AtWork
<1>4. /\ Fits(z, Len(calls)) /\ z.at = "tool" /\ z.tenant = t /\ z.amount = one
      /\ caller[c].amount = Zero /\ z.call = i /\ z.verdict = None
  <2>1. one = Load("tool") /\ "tool" \in Stages
    BY LoadCases DEF Stages, Gateway
  <2> HIDE DEF one
  <2> QED BY <1>1, <1>3, <2>1, TakeFits
<1>5. y \in Call /\ y.ran /\ y.tool = calls[i].tool /\ y.audit = calls[i].audit
  BY <1>3, RecordOf
<1>6. one \in Amounts /\ \A r \in Resources : one[r] \in {0, Share(r)}
  BY LoadShares, LoadCases DEF Stages, Gateway
<1> HIDE DEF one, z, y
<1>7. /\ calls' \in Seq(Call) /\ Len(calls') = Len(calls) /\ calls'[i] = y
      /\ \A j \in DOMAIN calls : calls'[j].tool = calls[j].tool /\ (j # i => calls'[j] = calls[j])
  BY <1>1, <1>3, <1>5, Noted
<1>8. BooksOf(ledger', caller', limits', excess') /\ ledger' \in [Tenants -> Ledgers]
  BY <1>1, <1>3, <1>4, <1>6, TakeBooks
<1>9. Shape'
  BY <1>1, <1>7, <1>8 DEF IInv, Shape
<1>10. Tells(z, calls'[z.call])
  <2>1. None \notin Decisions
    BY GovernanceAssumption
  <2> QED BY <1>3, <1>4, <1>5, <1>7, <2>1 DEF Tells, Decisions
<1> QED BY <1>1, <1>3, <1>4, <1>7, <1>8, <1>9, <1>10, CallerStep

\* The tool has come back and its reservation is gone.
LEMMA BackStep ==
  ASSUME IInv, NEW c \in Callers, NEW v \in {"allowed", "error"}, Verdict(c, v), caller[c].at = "tool",
         Settle(c, caller[c].amount) \/ Release(c),
         UNCHANGED <<tenant, limits, excess, runCalls, quota, calls>>
  PROVE  IInv'
<1> DEFINE z == Judged(caller[c], v)
<1>1. caller' = [caller EXCEPT ![c] = z]
  BY DEF Verdict, Judged
<1>2. caller[c].at \in Gateway /\ caller[c].at \in Working /\ v \in Decisions
  BY DEF Gateway, Working, Decisions
<1>3. /\ Fits(z, Len(calls)) /\ z.at = "audit" /\ z.amount = Zero /\ z.tenant = caller[c].tenant
      /\ z.call = caller[c].call /\ z.verdict = v
  BY <1>2, AtWork, VerdictFits
<1> HIDE DEF z
<1>4. Tells(z, calls[z.call])
  <2>1. Tells(caller[c], calls[caller[c].call])
    BY <1>2, Inside
  <2> QED BY <1>3, <2>1 DEF Tells
<1>5. BooksOf(ledger', caller', limits', excess') /\ ledger' \in [Tenants -> Ledgers]
  <2>1. CASE Release(c)
    BY <1>1, <1>2, <1>3, <2>1, ReleaseBooks
  <2>2. CASE Settle(c, caller[c].amount)
    <3>1. caller[c].amount \in Amounts /\ \A r \in Resources : caller[c].amount[r] <= caller[c].amount[r]
      BY <1>2, HoldsIt DEF Amounts
    <3> QED BY <1>1, <1>2, <1>3, <2>2, <3>1, SettleBooks
  <2> QED BY <2>1, <2>2
<1>6. Shape'
  BY <1>5, ShapeKept
<1>7. z.at # "invoke"
  BY <1>3
<1> QED BY <1>1, <1>2, <1>3, <1>4, <1>5, <1>6, <1>7, InsideStep

LEMMA ToolReturnsStep ==
  ASSUME IInv, NEW c \in Callers, ToolReturns(c) \/ ToolRaises(c)
  PROVE  IInv'
<1>1. /\ caller[c].at = "tool" /\ UNCHANGED <<tenant, limits, excess, runCalls, quota, calls>>
      /\ Settle(c, caller[c].amount) \/ Release(c)
  BY DEF ToolReturns, ToolRaises
<1>2. Verdict(c, "allowed") \/ Verdict(c, "error")
  BY DEF ToolReturns, ToolRaises
<1> QED BY <1>1, <1>2, BackStep

LEMMA AuditStep ==
  ASSUME IInv, NEW c \in Callers, Audit(c)
  PROVE  IInv'
<1> DEFINE z == Ready(caller[c].tenant)
<1> DEFINE i == caller[c].call
           v == caller[c].verdict
           y == [calls[i] EXCEPT !.audit = v]
<1>1. /\ caller[c].at = "audit" /\ caller' = [caller EXCEPT ![c] = z]
      /\ calls' = [calls EXCEPT ![i] = y]
      /\ UNCHANGED <<tenant, ledger, limits, excess, runCalls, quota>>
  BY DEF Audit, End, Note
<1>2. caller[c].at \in Gateway
  BY <1>1 DEF Gateway
<1>3. i \in DOMAIN calls /\ i # 0 /\ calls[i] \in Call /\ Tells(caller[c], calls[i])
      /\ calls \in Seq(Call) /\ Fits(caller[c], Len(calls)) /\ Len(calls) \in Nat
  BY <1>2, Inside, AtWork
<1>4. v \in Decisions /\ caller[c].amount = Zero
  BY <1>1, <1>3, LoadCases DEF Fits, Stages, Gateway
<1>5. y \in Call /\ y.audit = v /\ y.tool = calls[i].tool /\ y.ran = calls[i].ran
  BY <1>3, <1>4, RecordOf
<1>6. Fits(z, Len(calls)) /\ z.amount = Zero /\ z.call = 0 /\ z.at = "ready"
  BY <1>1, ReadyAgain
<1> HIDE DEF z
<1> HIDE DEF y
<1>7. /\ calls' \in Seq(Call) /\ Len(calls') = Len(calls) /\ calls'[i] = y
      /\ \A j \in DOMAIN calls : calls'[j].tool = calls[j].tool /\ (j # i => calls'[j] = calls[j])
  BY <1>1, <1>3, <1>5, Noted
<1>8. Truthful(calls'[i], FALSE)
  <2>1. None \notin Decisions
    BY GovernanceAssumption
  <2> QED BY <1>3, <1>4, <1>5, <1>7, <2>1 DEF Truthful, Tells
<1>9. BooksOf(ledger', caller', limits', excess')
  BY <1>1, <1>4, <1>6, AsideBooks
<1>10. Shape'
  BY <1>1, <1>7 DEF IInv, Shape
<1>11. calls[i].ran \/ (~calls'[i].ran /\ ~(z.call = i /\ z.at = "invoke"))
  BY <1>5, <1>6, <1>7
<1> QED BY <1>1, <1>3, <1>6, <1>7, <1>8, <1>9, <1>10, <1>11, CallerStep

LEMMA InterruptStep ==
  ASSUME IInv, NEW c \in Callers, Interrupt(c)
  PROVE  IInv'
<1> DEFINE z == Ready(caller[c].tenant)
<1> DEFINE i == caller[c].call
           y == [calls[i] EXCEPT !.cut = TRUE]
<1>1. /\ caller[c].at \in {"approval", "access", "invoke", "tool", "audit"}
      /\ IF caller[c].at = "tool" THEN Release(c) ELSE UNCHANGED ledger
      /\ caller' = [caller EXCEPT ![c] = z]
      /\ calls' = [calls EXCEPT ![i] = y]
      /\ UNCHANGED <<tenant, limits, excess, runCalls, quota>>
  BY DEF Interrupt, End, Note
<1>2. caller[c].at \in Gateway
  BY <1>1 DEF Gateway
<1>3. i \in DOMAIN calls /\ i # 0 /\ calls[i] \in Call /\ Tells(caller[c], calls[i])
      /\ calls \in Seq(Call) /\ Fits(caller[c], Len(calls)) /\ Len(calls) \in Nat
  BY <1>2, Inside, AtWork
<1>4. /\ y \in Call /\ y.cut /\ y.tool = calls[i].tool /\ y.ran = calls[i].ran
      /\ y.audit = calls[i].audit
  BY <1>3, RecordOf
<1>5. Fits(z, Len(calls)) /\ z.amount = Zero /\ z.call = 0 /\ z.at = "ready" /\ z.tenant = caller[c].tenant
  BY <1>1, ReadyAgain
<1> HIDE DEF z
<1> HIDE DEF y
<1>6. /\ calls' \in Seq(Call) /\ Len(calls') = Len(calls) /\ calls'[i] = y
      /\ \A j \in DOMAIN calls : calls'[j].tool = calls[j].tool /\ (j # i => calls'[j] = calls[j])
  BY <1>1, <1>3, <1>4, Noted
<1>7. Truthful(calls'[i], FALSE)
  <2>1. None \notin Decisions
    BY GovernanceAssumption
  <2> QED BY <1>3, <1>4, <1>6, <2>1 DEF Truthful, Tells, Decisions
<1>8. BooksOf(ledger', caller', limits', excess') /\ (ledger' = ledger \/ ledger' \in [Tenants -> Ledgers])
  <2>1. CASE caller[c].at = "tool"
    <3>1. caller[c].at \in Working /\ Release(c)
      BY <1>1, <2>1 DEF Working
    <3> QED BY <1>1, <1>5, <3>1, ReleaseBooks
  <2>2. CASE caller[c].at # "tool"
    <3>1. caller[c].amount = Zero
      BY <1>1, <2>2, AtWork, LoadCases DEF Stages, Gateway
    <3> QED BY <1>1, <1>5, <2>2, <3>1, AsideBooks
  <2> QED BY <2>1, <2>2
<1>9. Shape'
  BY <1>1, <1>6, <1>8 DEF IInv, Shape
<1>10. calls[i].ran \/ (~calls'[i].ran /\ ~(z.call = i /\ z.at = "invoke"))
  BY <1>4, <1>5, <1>6
<1> QED BY <1>1, <1>3, <1>5, <1>6, <1>7, <1>8, <1>9, <1>10, CallerStep

\* A call begins; it is the last one.
LEMMA InvokeStep ==
  ASSUME IInv, NEW c \in Callers, NEW x \in Tools, Invoke(c, x)
  PROVE  IInv'
<1> DEFINE n == Len(calls)
           at == IF x \in Risky THEN "approval" ELSE "access"
           z == Calling(caller[c], n + 1, at)
           y == [tenant |-> caller[c].tenant, tool |-> x, ran |-> FALSE, audit |-> None, cut |-> FALSE]
<1>1. /\ caller[c].at = "ready" /\ calls' = Append(calls, y)
      /\ caller' = [caller EXCEPT ![c] = z]
      /\ UNCHANGED <<tenant, ledger, limits, excess, runCalls, quota>>
  BY DEF Invoke, Calling
<1>2. calls \in Seq(Call) /\ Fits(caller[c], n) /\ n \in Nat /\ CallersFit(caller, n) /\ CallsTold(caller, calls)
  BY AtWork DEF IInv
<1>3. /\ Fits(z, n + 1) /\ z.at = at /\ z.tenant = caller[c].tenant /\ z.amount = Zero
      /\ caller[c].amount = Zero /\ z.call = n + 1 /\ z.verdict = None /\ caller[c].call = 0
  BY <1>1, <1>2, InvokeFits
<1>4. y \in Call /\ y.tool = x /\ ~y.ran /\ y.audit = None
  <2>1. caller[c].tenant \in Tenants
    BY <1>1, AtWork
  <2> QED BY <2>1 DEF Call
<1>5. at \in {"approval", "access"} /\ None \notin Decisions
  BY GovernanceAssumption
<1> HIDE DEF z, y, at
<1>6. /\ calls' \in Seq(Call) /\ Len(calls') = n + 1 /\ calls'[n + 1] = y
      /\ DOMAIN calls = 1..n /\ DOMAIN calls' = 1..(n + 1)
      /\ \A j \in 1..n : calls'[j] = calls[j]
  BY <1>1, <1>2, <1>4
<1> HIDE DEF n
<1>7. CallersFit(caller', n + 1)
  <2> DEFINE m == n + 1
  <2>1. m \in Nat /\ n <= m /\ z.call > n /\ Fits(z, m)
    BY <1>2, <1>3
  <2> HIDE DEF m
  <2>2. CallersFit([caller EXCEPT ![c] = z], m)
    BY <1>2, <2>1, CallerSet
  <2> QED BY <1>1, <2>2 DEF m
<1>8. caller'[c] = z /\ \A d \in Callers \ {c} : caller'[d] = caller[d]
  BY <1>1, <1>2 DEF CallersFit
<1>9. \A d \in Callers : caller[d].call \in 0..n
  BY <1>2 DEF CallersFit, Fits
<1>10. CallsTold(caller', calls')
  <2>1. ASSUME NEW d \in Callers, caller'[d].call # 0
        PROVE  Tells(caller'[d], calls'[caller'[d].call])
    <3>1. CASE d = c
      <4>1. caller'[d] = z /\ calls'[z.call] = y
        BY <1>3, <1>6, <1>8, <3>1
      <4>2. Tells(z, y)
        BY <1>3, <1>4, <1>5 DEF Tells, Decisions
      <4> QED BY <4>1, <4>2
    <3>2. CASE d # c
      <4>1. caller'[d] = caller[d] /\ caller[d].call \in 1..n
        BY <1>2, <1>8, <1>9, <2>1, <3>2
      <4>2. Tells(caller[d], calls[caller[d].call])
        BY <1>2, <4>1 DEF CallsTold
      <4> QED BY <1>6, <4>1, <4>2
    <3> QED BY <3>1, <3>2
  <2>2. ASSUME NEW j \in DOMAIN calls'
        PROVE  Truthful(calls'[j], \E d \in Callers : caller'[d].call = j)
    <3>1. CASE j = n + 1
      <4>1. calls'[j] = y /\ caller'[c].call = j
        BY <1>3, <1>6, <1>8, <3>1
      <4> QED BY <1>4, <1>5, <4>1 DEF Truthful, Decisions
    <3>2. CASE j # n + 1
      <4>1. j \in 1..n /\ calls'[j] = calls[j] /\ j # 0
        BY <1>2, <1>6, <2>2, <3>2
      <4>2. Truthful(calls[j], \E d \in Callers : caller[d].call = j)
        BY <1>2, <1>6, <4>1 DEF CallsTold
      <4>3. (\E d \in Callers : caller[d].call = j) => \E d \in Callers : caller'[d].call = j
        BY <1>3, <1>8, <4>1
      <4> QED BY <4>1, <4>2, <4>3 DEF Truthful
    <3> QED BY <3>1, <3>2
  <2> QED BY <2>1, <2>2 DEF CallsTold
<1>11. \A u \in Tools : Counted(caller', calls', u) \subseteq Counted(caller, calls, u)
  <2> SUFFICES ASSUME NEW u \in Tools, NEW j \in Counted(caller', calls', u)
               PROVE  j \in Counted(caller, calls, u)
    OBVIOUS
  <2>1. /\ j \in 1..(n + 1) /\ calls'[j].tool = u
        /\ calls'[j].ran \/ \E d \in Callers : caller'[d].call = j /\ caller'[d].at = "invoke"
    BY <1>6 DEF Counted
  <2>2. (\E d \in Callers : caller'[d].call = j /\ caller'[d].at = "invoke")
        => \E d \in Callers : caller[d].call = j /\ caller[d].at = "invoke"
    BY <1>3, <1>5, <1>8
  <2>3. j # n + 1
    <3>1. ~ \E d \in Callers : caller[d].call = n + 1
      BY <1>2, <1>9
    <3>2. ~calls'[n + 1].ran
      BY <1>4, <1>6
    <3> QED BY <2>1, <2>2, <3>1, <3>2
  <2>4. j \in DOMAIN calls /\ calls'[j] = calls[j]
    BY <1>2, <1>6, <2>1, <2>3
  <2> QED BY <2>1, <2>2, <2>4 DEF Counted
<1>12. runCalls \in [Tools -> Nat] /\ MaxPerRun \in Nat
       /\ \A u \in Tools : runCalls[u] <= runCalls[u] /\ runCalls[u] <= MaxPerRun
  BY GovernanceAssumption DEF IInv, Shape, RunsCounted
<1>13. RunsCounted(caller', calls', runCalls')
  BY <1>1, <1>6, <1>11, <1>12, RunsKept
<1>14. BooksOf(ledger', caller', limits', excess')
  BY <1>1, <1>3, AsideBooks
<1>15. Shape'
  BY <1>1, <1>6 DEF IInv, Shape
<1> QED BY <1>6, <1>7, <1>10, <1>13, <1>14, <1>15 DEF IInv

-----------------------------------------------------------------------------
(* The trail and the ledger                                                  *)

\* What a scope of a ledger was charged for tool calls.
Charged(l, s) == StateOf(l, s).committed["tool_calls"]

\* A caller's call is of the tenant whose ledger it has.
Owned(k, h) == \A c \in Callers : k[c].call # 0 => h[k[c].call].tenant = k[c].tenant

\* The calls of a tenant that are recorded as allowed or about to be, and
\* those that ran and are over.
Paid(k, h, t) ==
  {i \in DOMAIN h : h[i].tenant = t /\ (h[i].audit = "allowed"
                      \/ \E c \in Callers : k[c].call = i /\ k[c].verdict = "allowed")}
Finished(k, h, t) ==
  {i \in DOMAIN h : h[i].tenant = t /\ h[i].ran /\ \A c \in Callers : k[c].call = i => k[c].at # "tool"}

\* Between the two stands what the ledger of the tenant was charged.
Matches(k, h, l) ==
  \A t \in Tenants, s \in Scopes :
    /\ s \notin Cleared => Cardinality(Paid(k, h, t)) <= Charged(l[t], s)
    /\ Charged(l[t], s) <= Cardinality(Finished(k, h, t))

TrailInv == IInv /\ Owned(caller, calls) /\ Matches(caller, calls, ledger)

LEMMA TrailFinite ==
  ASSUME NEW k, NEW h \in Seq(Call), NEW t
  PROVE  /\ IsFiniteSet(Paid(k, h, t)) /\ Cardinality(Paid(k, h, t)) \in Nat
         /\ IsFiniteSet(Finished(k, h, t)) /\ Cardinality(Finished(k, h, t)) \in Nat
<1>1. /\ Paid(k, h, t) \in SUBSET (1..Len(h)) /\ Finished(k, h, t) \in SUBSET (1..Len(h))
      /\ Len(h) \in Nat
  BY DEF Paid, Finished
<1>2. IsFiniteSet(1..Len(h))
  BY <1>1, FS_Interval
<1>3. IsFiniteSet(Paid(k, h, t)) /\ IsFiniteSet(Finished(k, h, t))
  BY <1>1, <1>2, FS_Subset
<1> QED BY <1>3, FS_CardinalityType

LEMMA ChargedNat ==
  ASSUME IInv, NEW t \in Tenants, NEW s \in Scopes
  PROVE  Charged(ledger[t], s) \in Nat
<1>1. ledger[t] \in Ledgers /\ "tool_calls" \in Resources
  BY DEF IInv, Shape, Resources
<1>2. StateOf(ledger[t], s) = Fresh \/ StateOf(ledger[t], s) \in Entries
  BY <1>1 DEF StateOf, Ledgers
<1>3. Fresh.committed["tool_calls"] = 0
  BY <1>1 DEF Fresh, Zero
<1> QED BY <1>1, <1>2, <1>3, StateShape DEF Charged

\* What a move of one caller does to the two sets.
LEMMA SetsMove ==
  ASSUME NEW k, NEW h \in Seq(Call), NEW g \in Seq(Call), NEW c \in Callers, NEW z,
         CallersFit(k, Len(h)), Owned(k, h), Len(g) = Len(h),
         \A j \in DOMAIN h : /\ g[j].tenant = h[j].tenant
                             /\ j # k[c].call => g[j] = h[j],
         z.call \in {0, k[c].call}, z.call # 0 => z.tenant = k[c].tenant, NEW t
  PROVE  LET d == [k EXCEPT ![c] = z]
             i == k[c].call
         IN /\ Owned(d, g)
            /\ Paid(d, g, t) \subseteq Paid(k, h, t) \cup {i}
            /\ \/ i = 0
               \/ h[i].tenant # t
               \/ h[i].audit = "allowed" \/ k[c].verdict = "allowed"
               \/ g[i].audit # "allowed" /\ ~(z.call = i /\ z.verdict = "allowed")
               => Paid(d, g, t) \subseteq Paid(k, h, t)
            /\ \/ i = 0
               \/ ~h[i].ran \/ k[c].at = "tool"
               \/ g[i].ran /\ ~(z.call = i /\ z.at = "tool")
               => Finished(k, h, t) \subseteq Finished(d, g, t)
<1> DEFINE d == [k EXCEPT ![c] = z]
           i == k[c].call
<1>1. d[c] = z /\ \A y \in Callers \ {c} : d[y] = k[y]
  BY DEF CallersFit
<1>2. DOMAIN g = DOMAIN h /\ 0 \notin DOMAIN h /\ DOMAIN h = 1..Len(h) /\ Len(h) \in Nat
  OBVIOUS
<1>3. \A y \in Callers : /\ k[y].call \in 0..Len(h)
                         /\ y # c /\ k[y].call # 0 => k[y].call # i
  BY DEF CallersFit, Fits
<1> HIDE DEF d
<1>4. Owned(d, g)
  <2> SUFFICES ASSUME NEW y \in Callers, d[y].call # 0 PROVE g[d[y].call].tenant = d[y].tenant
    BY DEF Owned
  <2>1. CASE y = c
    <3>1. z.call = i /\ i # 0 /\ i \in DOMAIN h /\ z.tenant = k[c].tenant
      BY <1>1, <1>2, <1>3, <2>1
    <3>2. h[i].tenant = k[c].tenant
      BY <3>1 DEF Owned
    <3> QED BY <1>1, <2>1, <3>1, <3>2
  <2>2. CASE y # c
    <3>1. d[y] = k[y] /\ k[y].call \in DOMAIN h
      BY <1>1, <1>2, <1>3, <2>2
    <3> QED BY <3>1 DEF Owned
  <2> QED BY <2>1, <2>2
<1>5. ASSUME NEW j \in Paid(d, g, t), j # i PROVE j \in Paid(k, h, t)
  <2>1. j \in DOMAIN h /\ g[j] = h[j] /\ h[j].tenant = t /\ j # 0
    BY <1>2, <1>5 DEF Paid
  <2>2. CASE h[j].audit = "allowed"
    BY <2>1, <2>2 DEF Paid
  <2>3. CASE h[j].audit # "allowed"
    <3>1. PICK y \in Callers : d[y].call = j /\ d[y].verdict = "allowed"
      BY <1>5, <2>1, <2>3 DEF Paid
    <3>2. y # c
      BY <1>1, <1>5, <2>1, <3>1
    <3> QED BY <1>1, <2>1, <3>1, <3>2 DEF Paid
  <2> QED BY <2>2, <2>3
<1>6. ASSUME i \in Paid(d, g, t)
      PROVE  /\ i # 0 /\ h[i].tenant = t
             /\ g[i].audit = "allowed" \/ (z.call = i /\ z.verdict = "allowed")
             /\ h[i].audit = "allowed" \/ k[c].verdict = "allowed" => i \in Paid(k, h, t)
  <2>1. i \in DOMAIN h /\ h[i].tenant = t /\ i # 0
    BY <1>2, <1>6 DEF Paid
  <2>2. h[i].audit = "allowed" \/ k[c].verdict = "allowed" => i \in Paid(k, h, t)
    BY <2>1 DEF Paid
  <2>3. CASE g[i].audit = "allowed"
    BY <2>1, <2>2, <2>3
  <2>4. CASE g[i].audit # "allowed"
    <3>1. PICK y \in Callers : d[y].call = i /\ d[y].verdict = "allowed"
      BY <1>6, <2>4 DEF Paid
    <3>2. y = c
      BY <1>1, <1>3, <2>1, <3>1
    <3> QED BY <1>1, <2>1, <2>2, <3>1, <3>2
  <2> QED BY <2>3, <2>4
<1>7. ASSUME NEW j \in Finished(k, h, t),
             \/ i = 0
             \/ ~h[i].ran \/ k[c].at = "tool"
             \/ g[i].ran /\ ~(z.call = i /\ z.at = "tool")
      PROVE  j \in Finished(d, g, t)
  <2>1. j \in DOMAIN h /\ h[j].tenant = t /\ h[j].ran /\ j # 0 /\ g[j].tenant = t
        /\ \A y \in Callers : k[y].call = j => k[y].at # "tool"
    BY <1>2 DEF Finished
  <2>2. g[j].ran /\ ~(z.call = j /\ z.at = "tool")
    <3>1. CASE j # i
      BY <2>1, <3>1
    <3>2. CASE j = i
      BY <1>7, <2>1, <3>2
    <3> QED BY <3>1, <3>2
  <2>3. \A y \in Callers : d[y].call = j => d[y].at # "tool"
    BY <1>1, <2>1, <2>2
  <2> QED BY <1>2, <2>1, <2>2, <2>3 DEF Finished
<1>8. Paid(d, g, t) \subseteq Paid(k, h, t) \cup {i}
  BY <1>5
<1>9. (\/ i = 0
       \/ h[i].tenant # t
       \/ h[i].audit = "allowed" \/ k[c].verdict = "allowed"
       \/ g[i].audit # "allowed" /\ ~(z.call = i /\ z.verdict = "allowed"))
      => Paid(d, g, t) \subseteq Paid(k, h, t)
  BY <1>5, <1>6
<1>10. (\/ i = 0
        \/ ~h[i].ran \/ k[c].at = "tool"
        \/ g[i].ran /\ ~(z.call = i /\ z.at = "tool"))
       => Finished(k, h, t) \subseteq Finished(d, g, t)
  BY <1>7
<1> QED BY <1>4, <1>8, <1>9, <1>10 DEF d

\* Fewer calls paid and more finished match what was charged before.
LEMMA StillMatches ==
  ASSUME NEW k, NEW h \in Seq(Call), NEW d, NEW g \in Seq(Call), NEW t, NEW n \in Nat,
         Paid(d, g, t) \subseteq Paid(k, h, t), Finished(k, h, t) \subseteq Finished(d, g, t)
  PROVE  /\ Cardinality(Paid(k, h, t)) <= n => Cardinality(Paid(d, g, t)) <= n
         /\ n <= Cardinality(Finished(k, h, t)) => n <= Cardinality(Finished(d, g, t))
<1> DEFINE a == Paid(k, h, t)
           b == Paid(d, g, t)
           e == Finished(k, h, t)
           f == Finished(d, g, t)
<1>1. /\ IsFiniteSet(a) /\ Cardinality(a) \in Nat /\ IsFiniteSet(e) /\ Cardinality(e) \in Nat
      /\ IsFiniteSet(b) /\ Cardinality(b) \in Nat /\ IsFiniteSet(f) /\ Cardinality(f) \in Nat
      /\ b \subseteq a /\ e \subseteq f
  BY TrailFinite
<1> HIDE DEF a, b, e, f
<1>2. Cardinality(b) <= Cardinality(a) /\ Cardinality(e) <= Cardinality(f)
  BY <1>1, FS_Subset
<1>3. /\ Cardinality(a) <= n => Cardinality(b) <= n
      /\ n <= Cardinality(e) => n <= Cardinality(f)
  BY <1>1, <1>2
<1> QED BY <1>3 DEF a, b, e, f

\* One caller moves, and no tool call is charged.
LEMMA UnchargedMove ==
  ASSUME TrailInv, IInv', NEW c \in Callers, NEW z, caller' = [caller EXCEPT ![c] = z],
         Len(calls') = Len(calls),
         \A j \in DOMAIN calls : /\ calls'[j].tenant = calls[j].tenant
                                 /\ j # caller[c].call => calls'[j] = calls[j],
         z.call \in {0, caller[c].call}, z.call # 0 => z.tenant = caller[c].tenant,
         \A t \in Tenants, s \in Scopes : Charged(ledger'[t], s) = Charged(ledger[t], s),
         \/ caller[c].call = 0
         \/ calls[caller[c].call].audit = "allowed" \/ caller[c].verdict = "allowed"
         \/ calls'[caller[c].call].audit # "allowed" /\ ~(z.call = caller[c].call /\ z.verdict = "allowed"),
         \/ caller[c].call = 0
         \/ ~calls[caller[c].call].ran \/ caller[c].at = "tool"
         \/ calls'[caller[c].call].ran /\ ~(z.call = caller[c].call /\ z.at = "tool")
  PROVE  TrailInv'
<1>1. calls \in Seq(Call) /\ calls' \in Seq(Call) /\ CallersFit(caller, Len(calls)) /\ Owned(caller, calls)
  BY DEF TrailInv, IInv, Shape
<1>2. Owned(caller', calls')
  BY <1>1, SetsMove
<1>3. ASSUME NEW t \in Tenants, NEW s \in Scopes
      PROVE  /\ s \notin Cleared => Cardinality(Paid(caller', calls', t)) <= Charged(ledger'[t], s)
             /\ Charged(ledger'[t], s) <= Cardinality(Finished(caller', calls', t))
  <2>1. /\ Paid(caller', calls', t) \subseteq Paid(caller, calls, t)
        /\ Finished(caller, calls, t) \subseteq Finished(caller', calls', t)
    BY <1>1, SetsMove
  <2>2. Charged(ledger'[t], s) = Charged(ledger[t], s) /\ Charged(ledger[t], s) \in Nat
    BY ChargedNat DEF TrailInv
  <2>3. /\ s \notin Cleared => Cardinality(Paid(caller, calls, t)) <= Charged(ledger[t], s)
        /\ Charged(ledger[t], s) <= Cardinality(Finished(caller, calls, t))
    BY DEF TrailInv, Matches
  <2> QED BY <1>1, <2>1, <2>2, <2>3, StillMatches
<1>4. Matches(caller', calls', ledger')
  BY <1>3 DEF Matches
<1> QED BY <1>2, <1>4 DEF TrailInv

\* Reserving and giving back charge nothing; a settlement charges its amount.
LEMMA ReserveUncharged ==
  ASSUME IInv, NEW t \in Tenants, NEW a \in Amounts, ledger' = [ledger EXCEPT ![t] = Reserve(@, Scopes, a)]
  PROVE  \A u \in Tenants, s \in Scopes : Charged(ledger'[u], s) = Charged(ledger[u], s)
<1> DEFINE l == ledger[t]
           m == Reserve(l, Scopes, a)
<1>1. l \in Ledgers /\ ledger \in [Tenants -> Ledgers] /\ None \notin Entries
  BY GovernanceAssumption DEF IInv, Shape
<1>2. ledger' = [ledger EXCEPT ![t] = m]
  OBVIOUS
<1> HIDE DEF l
<1>3. \A s \in Scopes : m[s] \in Entries /\ m[s].committed = StateOf(l, s).committed
  BY <1>1, ReserveEffect
<1> HIDE DEF m
<1>4. ASSUME NEW s \in Scopes PROVE Charged(m, s) = Charged(l, s)
  <2>1. m[s] # None /\ m[s].committed = StateOf(l, s).committed
    BY <1>1, <1>3
  <2>2. StateOf(m, s) = m[s]
    BY <2>1 DEF StateOf
  <2> QED BY <2>1, <2>2 DEF Charged
<1>5. ledger'[t] = m /\ \A u \in Tenants \ {t} : ledger'[u] = ledger[u]
  BY <1>1, <1>2
<1> QED BY <1>4, <1>5 DEF l

LEMMA SettleCharges ==
  ASSUME IInv, NEW c \in Callers, caller[c].at \in Working,
         NEW b \in Amounts, Settle(c, b) \/ (Release(c) /\ b = Zero)
  PROVE  \A u \in Tenants, s \in Scopes :
           Charged(ledger'[u], s) =
             Charged(ledger[u], s) + IF u = caller[c].tenant THEN b["tool_calls"] ELSE 0
<1> DEFINE t == caller[c].tenant
           a == caller[c].amount
           l == ledger[t]
           m == IF Release(c) THEN Rollback(l, Scopes, a) ELSE Commit(l, Scopes, a, b)
<1>1. /\ t \in Tenants /\ a \in Amounts /\ l \in Ledgers
      /\ \A s \in Scopes : /\ l[s] \in Entries /\ a["model_calls"] <= l[s].active
                           /\ \A r \in Resources : a[r] <= l[s].reserved[r]
  BY HoldsIt
<1>2. ledger \in [Tenants -> Ledgers] /\ None \notin Entries /\ "tool_calls" \in Resources
  BY GovernanceAssumption DEF IInv, Shape, Resources
<1>3. ledger' = [ledger EXCEPT ![t] = m]
  BY DEF Settle, Release
<1>4. ledger'[t] = m /\ \A u \in Tenants \ {t} : ledger'[u] = ledger[u]
  BY <1>1, <1>2, <1>3
<1>5. ASSUME NEW s \in Scopes PROVE m[s] \in Entries /\ m[s].committed["tool_calls"] = l[s].committed["tool_calls"] + b["tool_calls"]
  <2>1. CASE Release(c)
    <3>1. m = Rollback(l, Scopes, a)
      BY <2>1
    <3>2. Rollback(l, Scopes, a)[s] \in Entries /\ Rollback(l, Scopes, a)[s].committed = l[s].committed
      BY <1>1, RollbackEffect
    <3> HIDE DEF m, a, l
    <3>3. m[s] \in Entries /\ m[s].committed = l[s].committed
      BY <3>1, <3>2
    <3>4. l[s].committed["tool_calls"] \in Nat
      BY <1>1, <1>2, StateShape
    <3>5. CASE Settle(c, b) /\ b # Zero
      <4>1. ledger' = [ledger EXCEPT ![t] = Commit(l, Scopes, a, b)]
        BY <3>5 DEF Settle, l, a
      <4>2. Commit(l, Scopes, a, b)[s].committed = Add(l[s].committed, b)
        BY <1>1, CommitEffect
      <4>3. m = Commit(l, Scopes, a, b)
        BY <1>1, <1>2, <1>4, <4>1
      <4>4. m[s].committed["tool_calls"] = l[s].committed["tool_calls"] + b["tool_calls"]
        BY <1>2, <4>2, <4>3 DEF Add
      <4> QED BY <3>3, <4>4
    <3>6. CASE b = Zero
      <4>1. b["tool_calls"] = 0
        BY <1>2, <3>6 DEF Zero
      <4> QED BY <3>3, <3>4, <4>1
    <3> QED BY <3>5, <3>6
  <2>2. CASE ~Release(c)
    <3>1. m = Commit(l, Scopes, a, b)
      BY <2>2
    <3>2. Commit(l, Scopes, a, b)[s] \in Entries /\ Commit(l, Scopes, a, b)[s].committed = Add(l[s].committed, b)
      BY <1>1, CommitEffect
    <3> HIDE DEF m, a, l
    <3> QED BY <1>2, <3>1, <3>2 DEF Add
  <2> QED BY <2>1, <2>2
<1> HIDE DEF m, a
<1>6. ASSUME NEW s \in Scopes PROVE Charged(m, s) = Charged(l, s) + b["tool_calls"]
  <2>1. StateOf(m, s) = m[s] /\ StateOf(l, s) = l[s]
    BY <1>1, <1>2, <1>5 DEF StateOf
  <2> QED BY <1>5, <2>1 DEF Charged
<1>7. \A u \in Tenants, s \in Scopes : Charged(ledger[u], s) \in Nat
  BY ChargedNat
<1>8. ASSUME NEW u \in Tenants, NEW s \in Scopes
      PROVE  Charged(ledger'[u], s) = Charged(ledger[u], s) + IF u = t THEN b["tool_calls"] ELSE 0
  <2>1. CASE u = t
    BY <1>4, <1>6, <2>1
  <2>2. CASE u # t
    BY <1>4, <1>7, <2>2
  <2> QED BY <2>1, <2>2
<1> QED BY <1>8

\* What the work outside the gateway costs is no tool call.
LEMMA OtherAmounts ==
  /\ Zero["tool_calls"] = 0 /\ Zero \in Amounts
  /\ \A n \in Nat : ModelAmount(n) \in Amounts /\ ModelAmount(n)["tool_calls"] = 0
  /\ Load("attempt")["tool_calls"] = 0 /\ Load("tool")["tool_calls"] = 1
<1>1. "tool_calls" \in Resources
  BY DEF Resources
<1>2. Zero["tool_calls"] = 0 /\ Zero \in Amounts /\ DOMAIN Zero = Resources
  BY <1>1, AmountTypes DEF Zero
<1>3. ASSUME NEW n \in Nat PROVE ModelAmount(n)["tool_calls"] = 0 /\ ModelAmount(n) \in Amounts
  BY <1>1, <1>2, AmountTypes DEF ModelAmount, Zero
<1>4. Load("attempt")["tool_calls"] = 0 /\ Load("tool")["tool_calls"] = 1
  BY <1>1, <1>2, LoadCases DEF Amount, Zero
<1> QED BY <1>2, <1>3, <1>4

-----------------------------------------------------------------------------
(* The steps: the trail and the ledger                                       *)

\* Neither the callers, nor the calls, nor the ledgers change.
LEMMA QuietTrail ==
  ASSUME TrailInv, IInv', UNCHANGED <<caller, calls, ledger>>
  PROVE  TrailInv'
  BY DEF TrailInv

\* A caller outside the gateway, before and after, is charged no tool call.
LEMMA OutsideTrail ==
  ASSUME TrailInv, IInv', NEW c \in Callers, caller[c].at \notin Gateway,
         NEW z, z.call = 0, caller' = [caller EXCEPT ![c] = z], UNCHANGED calls,
         \A t \in Tenants, s \in Scopes : Charged(ledger'[t], s) = Charged(ledger[t], s)
  PROVE  TrailInv'
<1>1. caller[c].call = 0
  BY AtWork DEF TrailInv
<1> QED BY <1>1, UnchargedMove

\* A caller inside the gateway goes on with its call, whose record stays; a
\* verdict that allows it and a start of the tool are other steps.
LEMMA InsideTrail ==
  ASSUME TrailInv, IInv', NEW c \in Callers, caller[c].at \in Gateway,
         NEW z, z.call = caller[c].call, z.tenant = caller[c].tenant,
         z.verdict # "allowed", z.at # "tool",
         caller' = [caller EXCEPT ![c] = z], UNCHANGED calls,
         \A t \in Tenants, s \in Scopes : Charged(ledger'[t], s) = Charged(ledger[t], s)
  PROVE  TrailInv'
<1> DEFINE i == caller[c].call
<1>1. calls[i].audit = None /\ None # "allowed"
  BY Inside, GovernanceAssumption DEF TrailInv, Tells, Decisions
<1>2. calls'[i].audit # "allowed" /\ ~(z.call = i /\ z.verdict = "allowed")
  BY <1>1
<1>3. \/ ~calls[i].ran \/ caller[c].at = "tool"
      \/ calls'[i].ran /\ ~(z.call = i /\ z.at = "tool")
  OBVIOUS
<1> QED BY <1>2, <1>3, UnchargedMove

\* A reservation, or the end of the operation.
LEMMA TakeTrail ==
  ASSUME TrailInv, IInv', NEW c \in Callers, NEW a \in Amounts, NEW at, Take(c, a, at),
         caller[c].at \in {"ready", "continue"}, UNCHANGED calls
  PROVE  TrailInv'
<1> DEFINE t == caller[c].tenant
           z == Taking(caller[c], a, at)
           e == Ready(t)
<1>1. /\ IInv /\ caller[c].at \notin Gateway /\ t \in Tenants /\ caller[c].call = 0
      /\ Fits(caller[c], Len(calls))
  BY AtWork DEF TrailInv, Gateway
<1>2. z.call = 0 /\ e.call = 0
  BY <1>1, ReadyAgain DEF Taking, Fits
<1>3. \/ ledger' = [ledger EXCEPT ![t] = Reserve(@, Scopes, a)] /\ caller' = [caller EXCEPT ![c] = z]
      \/ ledger' = ledger /\ caller' = [caller EXCEPT ![c] = e]
  BY DEF Take, End, Taking
<1> HIDE DEF z, e
<1>4. CASE ledger' = ledger /\ caller' = [caller EXCEPT ![c] = e]
  BY <1>1, <1>2, <1>4, OutsideTrail
<1>5. CASE ledger' = [ledger EXCEPT ![t] = Reserve(@, Scopes, a)] /\ caller' = [caller EXCEPT ![c] = z]
  <2>1. \A u \in Tenants, s \in Scopes : Charged(ledger'[u], s) = Charged(ledger[u], s)
    BY <1>1, <1>5, ReserveUncharged
  <2> QED BY <1>1, <1>2, <1>5, <2>1, OutsideTrail
<1> QED BY <1>3, <1>4, <1>5

\* A settlement without tool calls, or a release, charges none.
LEMMA GiveUncharged ==
  ASSUME IInv, NEW c \in Callers, caller[c].at \in Working,
         Release(c) \/ \E b \in Amounts : Settle(c, b) /\ b["tool_calls"] = 0
  PROVE  \A u \in Tenants, s \in Scopes : Charged(ledger'[u], s) = Charged(ledger[u], s)
<1>1. \E b \in Amounts : (Settle(c, b) \/ (Release(c) /\ b = Zero)) /\ b["tool_calls"] = 0
  BY OtherAmounts
<1>2. PICK b \in Amounts : (Settle(c, b) \/ (Release(c) /\ b = Zero)) /\ b["tool_calls"] = 0
  BY <1>1
<1>3. ASSUME NEW u \in Tenants, NEW s \in Scopes PROVE Charged(ledger'[u], s) = Charged(ledger[u], s)
  <2>1. Charged(ledger'[u], s) = Charged(ledger[u], s) + IF u = caller[c].tenant THEN b["tool_calls"] ELSE 0
    BY <1>2, SettleCharges
  <2>2. Charged(ledger[u], s) \in Nat
    BY ChargedNat
  <2> QED BY <1>2, <2>1, <2>2
<1> QED BY <1>3

LEMMA WorkTrail ==
  ASSUME TrailInv, IInv', NEW c \in Callers,
         \/ Generate(c) \/ ModelAnswers(c) \/ Continue(c) \/ Attempt(c) \/ AttemptEnds(c) \/ WorkFails(c)
  PROVE  TrailInv'
<1>1. IInv
  BY DEF TrailInv
<1>2. CASE Generate(c)
  <2> DEFINE a == ModelAmount(MaxCost(EstInput, EstOutput))
  <2>1. caller[c].at = "ready" /\ Take(c, a, "model") /\ UNCHANGED calls
    BY <1>2 DEF Generate
  <2>2. a \in Amounts
    <3>1. Share("cost") \in Nat /\ a = ModelAmount(Share("cost"))
      BY LoadShares DEF Share
    <3> QED BY <3>1, OtherAmounts
  <2> HIDE DEF a
  <2> QED BY <2>1, <2>2, TakeTrail
<1>3. CASE Attempt(c)
  <2> DEFINE a == Amount("attempts", 1)
  <2>1. caller[c].at \in {"ready", "continue"} /\ Take(c, a, "attempt") /\ UNCHANGED calls
    BY <1>3 DEF Attempt
  <2>2. a \in Amounts
    BY LoadShares, LoadCases DEF Stages
  <2> HIDE DEF a
  <2> QED BY <2>1, <2>2, TakeTrail
<1>4. CASE Continue(c)
  <2>1. /\ caller[c].at = "ready" /\ UNCHANGED <<ledger, calls>>
        /\ Goto(c, "continue") \/ End(c)
    BY <1>4 DEF Continue
  <2>2. caller[c].at \notin Gateway /\ caller[c].call = 0 /\ Fits(caller[c], Len(calls))
    BY <1>1, <2>1, AtWork DEF Gateway
  <2> DEFINE z == Going(caller[c], "continue")
             e == Ready(caller[c].tenant)
  <2>3. z.call = 0 /\ e.call = 0
    BY <1>1, <2>1, <2>2, ReadyAgain DEF Going, Fits
  <2>4. caller' = [caller EXCEPT ![c] = z] \/ caller' = [caller EXCEPT ![c] = e]
    BY <2>1 DEF Goto, Going, End
  <2> HIDE DEF z, e
  <2> QED BY <2>1, <2>2, <2>3, <2>4, OutsideTrail
<1>5. CASE ModelAnswers(c) \/ AttemptEnds(c) \/ WorkFails(c)
  <2> DEFINE e == Ready(caller[c].tenant)
  <2>1. /\ caller[c].at \in {"model", "attempt"} /\ UNCHANGED calls
        /\ caller' = [caller EXCEPT ![c] = e]
    BY <1>5 DEF ModelAnswers, AttemptEnds, WorkFails, End
  <2>2. caller[c].at \in Working /\ caller[c].at \notin Gateway
    BY <2>1 DEF Working, Gateway
  <2>3. e.call = 0
    BY <1>1, <2>1, ReadyAgain
  <2> HIDE DEF e
  <2>4. Release(c) \/ \E b \in Amounts : Settle(c, b) /\ b["tool_calls"] = 0
    <3>1. CASE WorkFails(c)
      BY <3>1 DEF WorkFails
    <3>2. CASE AttemptEnds(c)
      <4>1. Settle(c, caller[c].amount) /\ caller[c].amount = Load("attempt") /\ "attempt" \in Stages
        BY <1>1, <3>2, AtWork DEF AttemptEnds, Stages
      <4>2. Load("attempt") \in Amounts /\ Load("attempt")["tool_calls"] = 0
        BY <4>1, LoadShares, OtherAmounts
      <4> QED BY <4>1, <4>2
    <3>3. CASE ModelAnswers(c)
      <4>1. PICK usage \in Usages : Settle(c, ModelAmount(Cost(usage)))
        BY <3>3 DEF ModelAnswers
      <4>2. ModelAmount(Cost(usage)) \in Amounts /\ ModelAmount(Cost(usage))["tool_calls"] = 0
        BY CostNat, OtherAmounts
      <4> QED BY <4>1, <4>2
    <3> QED BY <1>5, <3>1, <3>2, <3>3
  <2>5. \A u \in Tenants, s \in Scopes : Charged(ledger'[u], s) = Charged(ledger[u], s)
    BY <1>1, <2>2, <2>4, GiveUncharged
  <2> QED BY <2>1, <2>2, <2>3, <2>5, OutsideTrail
<1> QED BY <1>2, <1>3, <1>4, <1>5

LEMMA LedgerForTrail ==
  ASSUME TrailInv, IInv', NEW c \in Callers, NEW t \in Tenants, LedgerFor(c, t)
  PROVE  TrailInv'
<1> DEFINE z == Ready(t)
<1>1. caller[c].at = "idle" /\ caller' = [caller EXCEPT ![c] = z] /\ UNCHANGED <<ledger, calls>>
  BY DEF LedgerFor
<1>2. z.call = 0
  BY AtWork, ReadyFits DEF TrailInv
<1>3. caller[c].at \notin Gateway
  BY <1>1 DEF Gateway
<1> HIDE DEF z
<1> QED BY <1>1, <1>2, <1>3, OutsideTrail

\* Approval, access and limits, and every verdict that does not allow the call.
LEMMA GateTrail ==
  ASSUME TrailInv, IInv', NEW c \in Callers,
         Approve(c) \/ Reject(c) \/ Deny(c) \/ Admit(c) \/ RefuseTool(c) \/ ToolRaises(c)
  PROVE  TrailInv'
<1>1. IInv
  BY DEF TrailInv
<1>2. /\ caller[c].at \in Gateway \ {"audit"} /\ UNCHANGED calls
      /\ \/ Goto(c, "access") \/ Goto(c, "invoke")
         \/ Verdict(c, "denied") \/ Verdict(c, "error") \/ Verdict(c, "quota_exceeded")
      /\ ledger' = ledger \/ (caller[c].at = "tool" /\ Release(c))
  BY DEF Approve, Reject, Deny, Admit, RefuseTool, ToolRaises, Gateway
<1>3. Fits(caller[c], Len(calls)) /\ caller[c].verdict = None /\ None # "allowed"
  BY <1>1, <1>2, AtWork, GovernanceAssumption DEF Fits, Decisions
<1>4. \E z : /\ z.call = caller[c].call /\ z.tenant = caller[c].tenant
             /\ z.verdict # "allowed" /\ z.at # "tool" /\ caller' = [caller EXCEPT ![c] = z]
  <2>1. ASSUME NEW at \in {"access", "invoke"}, Goto(c, at)
        PROVE  LET z == Going(caller[c], at)
               IN /\ z.call = caller[c].call /\ z.tenant = caller[c].tenant
                  /\ z.verdict # "allowed" /\ z.at # "tool" /\ caller' = [caller EXCEPT ![c] = z]
    BY <1>3, <2>1 DEF Goto, Going, Fits
  <2>2. ASSUME NEW v \in {"denied", "error", "quota_exceeded"}, Verdict(c, v)
        PROVE  LET z == Judged(caller[c], v)
               IN /\ z.call = caller[c].call /\ z.tenant = caller[c].tenant
                  /\ z.verdict # "allowed" /\ z.at # "tool" /\ caller' = [caller EXCEPT ![c] = z]
    BY <1>3, <2>2 DEF Verdict, Judged, Fits
  <2>3. CASE Goto(c, "access") \/ Goto(c, "invoke")
    <3>1. PICK at \in {"access", "invoke"} : Goto(c, at)
      BY <2>3
    <3> QED BY <2>1, <3>1
  <2>4. CASE Verdict(c, "denied") \/ Verdict(c, "error") \/ Verdict(c, "quota_exceeded")
    <3>1. PICK v \in {"denied", "error", "quota_exceeded"} : Verdict(c, v)
      BY <2>4
    <3> QED BY <2>2, <3>1
  <2> QED BY <1>2, <2>3, <2>4
<1>5. \A u \in Tenants, s \in Scopes : Charged(ledger'[u], s) = Charged(ledger[u], s)
  <2>1. CASE ledger' = ledger
    BY <2>1
  <2>2. CASE caller[c].at = "tool" /\ Release(c)
    <3>1. caller[c].at \in Working
      BY <2>2 DEF Working
    <3> QED BY <1>1, <2>2, <3>1, GiveUncharged
  <2> QED BY <1>2, <2>1, <2>2
<1>6. PICK z : /\ z.call = caller[c].call /\ z.tenant = caller[c].tenant
               /\ z.verdict # "allowed" /\ z.at # "tool" /\ caller' = [caller EXCEPT ![c] = z]
  BY <1>4
<1> QED BY <1>2, <1>5, <1>6, InsideTrail

LEMMA StartToolTrail ==
  ASSUME TrailInv, IInv', NEW c \in Callers, StartTool(c)
  PROVE  TrailInv'
<1> DEFINE t == caller[c].tenant
           one == Amount("tool_calls", 1)
           z == Taking(caller[c], one, "tool")
           i == caller[c].call
           y == [calls[i] EXCEPT !.ran = TRUE]
<1>1. /\ caller[c].at = "invoke" /\ ledger' = [ledger EXCEPT ![t] = Reserve(@, Scopes, one)]
      /\ caller' = [caller EXCEPT ![c] = z] /\ calls' = [calls EXCEPT ![i] = y]
  BY DEF StartTool, Taking, Note
<1>2. IInv /\ caller[c].at \in Gateway
  BY <1>1 DEF TrailInv, Gateway
<1>3. /\ i \in DOMAIN calls /\ i # 0 /\ calls[i] \in Call /\ Tells(caller[c], calls[i]) /\ t \in Tenants
      /\ calls \in Seq(Call) /\ Fits(caller[c], Len(calls)) /\ None # "allowed"
  BY <1>2, Inside, AtWork, GovernanceAssumption DEF Decisions
<1>4. z.call = i /\ z.tenant = t /\ z.verdict # "allowed"
  <2>1. caller[c].verdict = None
    BY <1>1, <1>3 DEF Fits
  <2> QED BY <1>3, <2>1 DEF Taking, Fits
<1>5. /\ y \in Call /\ y.ran /\ y.tool = calls[i].tool /\ y.audit = calls[i].audit
      /\ y.tenant = calls[i].tenant
  BY <1>3, RecordOf, TenantOf
<1>6. one \in Amounts
  BY LoadShares, LoadCases DEF Stages, Gateway
<1> HIDE DEF one, z, y
<1>7. /\ Len(calls') = Len(calls) /\ calls'[i] = y
      /\ \A j \in DOMAIN calls : j # i => calls'[j] = calls[j]
  BY <1>1, <1>3, <1>5, Noted
<1>8. \A j \in DOMAIN calls : calls'[j].tenant = calls[j].tenant /\ (j # i => calls'[j] = calls[j])
  BY <1>5, <1>7
<1>9. \A u \in Tenants, s \in Scopes : Charged(ledger'[u], s) = Charged(ledger[u], s)
  BY <1>1, <1>2, <1>3, <1>6, ReserveUncharged
<1>10. ~calls[i].ran /\ calls'[i].audit # "allowed"
  BY <1>1, <1>3, <1>5, <1>7 DEF Tells
<1> QED BY <1>1, <1>4, <1>7, <1>8, <1>9, <1>10, UnchargedMove

\* The record is written, or the caller is cut off.
LEMMA LeaveTrail ==
  ASSUME TrailInv, IInv', NEW c \in Callers, Audit(c) \/ Interrupt(c)
  PROVE  TrailInv'
<1> DEFINE t == caller[c].tenant
           z == Ready(t)
           i == caller[c].call
           v == caller[c].verdict
<1>1. /\ caller[c].at \in Gateway /\ caller' = [caller EXCEPT ![c] = z]
      /\ \/ caller[c].at = "audit" /\ calls' = [calls EXCEPT ![i] = [calls[i] EXCEPT !.audit = v]]
         \/ calls' = [calls EXCEPT ![i] = [calls[i] EXCEPT !.cut = TRUE]]
      /\ ledger' = ledger \/ (caller[c].at = "tool" /\ Release(c))
  BY DEF Audit, Interrupt, End, Note, Gateway
<1>2. IInv /\ caller[c].at # "idle"
  BY <1>1 DEF TrailInv, Gateway
<1>3. /\ i \in DOMAIN calls /\ i # 0 /\ calls[i] \in Call /\ Tells(caller[c], calls[i])
      /\ calls \in Seq(Call) /\ Fits(caller[c], Len(calls)) /\ None # "allowed"
  BY <1>1, <1>2, Inside, AtWork, GovernanceAssumption DEF Decisions
<1>4. z.call = 0
  BY <1>2, ReadyAgain
<1> HIDE DEF z
<1>5. PICK y : /\ y \in Call /\ calls' = [calls EXCEPT ![i] = y]
               /\ y.tool = calls[i].tool /\ y.tenant = calls[i].tenant /\ y.ran = calls[i].ran
               /\ y.audit = calls[i].audit \/ y.audit = v
  <2>1. CASE caller[c].at = "audit" /\ calls' = [calls EXCEPT ![i] = [calls[i] EXCEPT !.audit = v]]
    <3>1. v \in Decisions
      BY <1>3, <2>1 DEF Fits
    <3> DEFINE y == [calls[i] EXCEPT !.audit = v]
    <3>2. /\ y \in Call /\ y.tool = calls[i].tool /\ y.tenant = calls[i].tenant /\ y.ran = calls[i].ran
          /\ y.audit = v
      BY <1>3, <3>1, RecordOf, TenantOf
    <3> QED BY <2>1, <3>2
  <2>2. CASE calls' = [calls EXCEPT ![i] = [calls[i] EXCEPT !.cut = TRUE]]
    <3> DEFINE y == [calls[i] EXCEPT !.cut = TRUE]
    <3>1. /\ y \in Call /\ y.tool = calls[i].tool /\ y.tenant = calls[i].tenant /\ y.ran = calls[i].ran
          /\ y.audit = calls[i].audit
      BY <1>3, RecordOf, TenantOf
    <3> QED BY <2>2, <3>1
  <2> QED BY <1>1, <2>1, <2>2
<1>6. /\ Len(calls') = Len(calls) /\ calls'[i] = y
      /\ \A j \in DOMAIN calls : j # i => calls'[j] = calls[j]
  BY <1>3, <1>5, Noted
<1>7. \A j \in DOMAIN calls : calls'[j].tenant = calls[j].tenant /\ (j # i => calls'[j] = calls[j])
  BY <1>5, <1>6
<1>8. \/ v = "allowed"
      \/ calls'[i].audit # "allowed" /\ ~(z.call = i /\ z.verdict = "allowed")
  <2>1. calls[i].audit = None
    BY <1>3 DEF Tells
  <2> QED BY <1>3, <1>4, <1>5, <1>6, <2>1
<1>9. \/ ~calls[i].ran
      \/ calls'[i].ran /\ ~(z.call = i /\ z.at = "tool")
  BY <1>3, <1>4, <1>5, <1>6
<1>10. \A u \in Tenants, s \in Scopes : Charged(ledger'[u], s) = Charged(ledger[u], s)
  <2>1. CASE ledger' = ledger
    BY <2>1
  <2>2. CASE caller[c].at = "tool" /\ Release(c)
    <3>1. caller[c].at \in Working
      BY <2>2 DEF Working
    <3> QED BY <1>2, <2>2, <3>1, GiveUncharged
  <2> QED BY <1>1, <2>1, <2>2
<1> QED BY <1>1, <1>4, <1>6, <1>7, <1>8, <1>9, <1>10, UnchargedMove

\* The tool has returned: one more call is finished and charged, and it may
\* be paid.
LEMMA ReturnTrail ==
  ASSUME TrailInv, IInv', NEW c \in Callers, ToolReturns(c)
  PROVE  TrailInv'
<1> DEFINE o == caller[c].tenant
           i == caller[c].call
<1>1. PICK v \in {"allowed", "error"} : caller' = [caller EXCEPT ![c] = Judged(caller[c], v)]
  BY DEF ToolReturns, Verdict, Judged
<1> DEFINE z == Judged(caller[c], v)
<1>2. /\ caller[c].at = "tool" /\ calls' = calls /\ Settle(c, caller[c].amount)
  BY DEF ToolReturns
<1>3. IInv /\ caller[c].at \in Gateway /\ caller[c].at \in Working
  BY <1>2 DEF TrailInv, Gateway, Working
<1>4. /\ i \in DOMAIN calls /\ i # 0 /\ Tells(caller[c], calls[i]) /\ calls \in Seq(Call)
      /\ Fits(caller[c], Len(calls)) /\ CallersFit(caller, Len(calls)) /\ Owned(caller, calls)
      /\ o \in Tenants /\ v \in Decisions
  BY <1>3, Inside, AtWork DEF TrailInv, IInv, Decisions
<1>5. z.at = "audit" /\ z.tenant = o /\ z.call = i
  BY <1>3, <1>4, AtWork, VerdictFits
<1> HIDE DEF z
<1>6. caller' = [caller EXCEPT ![c] = z]
  BY <1>1 DEF z
<1>7. calls[i].ran /\ calls[i].tenant = o
  BY <1>2, <1>4 DEF Tells, Owned
<1>8. \A u \in Tenants, s \in Scopes :
        Charged(ledger'[u], s) = Charged(ledger[u], s) + IF u = o THEN 1 ELSE 0
  <2>1. caller[c].amount = Load("tool") /\ "tool" \in Stages
    BY <1>2, <1>3, AtWork DEF Stages, Gateway
  <2>2. caller[c].amount \in Amounts /\ caller[c].amount["tool_calls"] = 1
    BY <2>1, LoadShares, OtherAmounts
  <2> QED BY <1>2, <1>3, <2>2, SettleCharges
<1>9. Owned(caller', calls')
  BY <1>2, <1>4, <1>5, <1>6, SetsMove
<1>10. ASSUME NEW t \in Tenants
       PROVE  /\ Paid(caller', calls', t) \subseteq Paid(caller, calls, t) \cup {i}
              /\ t # o => Paid(caller', calls', t) \subseteq Paid(caller, calls, t)
              /\ Finished(caller, calls, t) \subseteq Finished(caller', calls', t)
  BY <1>2, <1>4, <1>5, <1>6, <1>7, SetsMove
<1>11. i \in Finished(caller', calls', o) /\ i \notin Finished(caller, calls, o)
  <2>1. i \notin Finished(caller, calls, o)
    BY <1>2 DEF Finished
  <2>2. ASSUME NEW d \in Callers, caller'[d].call = i PROVE caller'[d].at # "tool"
    <3>1. CASE d = c
      BY <1>3, <1>5, <1>6, <3>1, AtWork
    <3>2. CASE d # c
      <4>1. caller'[d] = caller[d]
        BY <1>3, <1>6, <3>2, AtWork
      <4> QED BY <1>4, <2>2, <3>2, <4>1 DEF CallersFit
    <3> QED BY <3>1, <3>2
  <2> QED BY <1>2, <1>4, <1>7, <2>1, <2>2 DEF Finished
<1>12. ASSUME NEW t \in Tenants, NEW s \in Scopes
       PROVE  /\ s \notin Cleared => Cardinality(Paid(caller', calls', t)) <= Charged(ledger'[t], s)
              /\ Charged(ledger'[t], s) <= Cardinality(Finished(caller', calls', t))
  <2> DEFINE p == Paid(caller, calls, t)
             f == Finished(caller, calls, t)
             q == Paid(caller', calls', t)
             g == Finished(caller', calls', t)
             n == Charged(ledger[t], s)
  <2>1. /\ IsFiniteSet(p) /\ Cardinality(p) \in Nat /\ IsFiniteSet(f) /\ Cardinality(f) \in Nat
        /\ IsFiniteSet(q) /\ Cardinality(q) \in Nat /\ IsFiniteSet(g) /\ Cardinality(g) \in Nat
    BY <1>2, <1>4, TrailFinite
  <2>2. n \in Nat
    BY <1>3, ChargedNat
  <2>3. (s \notin Cleared => Cardinality(p) <= n) /\ n <= Cardinality(f)
    BY DEF TrailInv, Matches
  <2>4. Charged(ledger'[t], s) = n + IF t = o THEN 1 ELSE 0
    BY <1>8
  <2>5. q \subseteq p \cup {i} /\ (t # o => q \subseteq p) /\ f \subseteq g
    BY <1>10
  <2>6. t = o => i \in g /\ i \notin f
    BY <1>11
  <2> HIDE DEF p, f, q, g, n
  <2>7. CASE t # o
    <3>1. Cardinality(q) <= Cardinality(p) /\ Cardinality(f) <= Cardinality(g)
      BY <2>1, <2>5, <2>7, FS_Subset
    <3>2. (s \notin Cleared => Cardinality(q) <= n) /\ n <= Cardinality(g) /\ Charged(ledger'[t], s) = n
      BY <2>1, <2>2, <2>3, <2>4, <2>7, <3>1
    <3> QED BY <3>2 DEF q, g
  <2>8. CASE t = o
    <3>1. IsFiniteSet(p \cup {i}) /\ Cardinality(p \cup {i}) \in {Cardinality(p), Cardinality(p) + 1}
      BY <2>1, FS_AddElement
    <3>2. Cardinality(q) <= Cardinality(p \cup {i})
      BY <2>5, <3>1, FS_Subset
    <3>3. IsFiniteSet(f \cup {i}) /\ Cardinality(f \cup {i}) = Cardinality(f) + 1
      BY <2>1, <2>6, <2>8, FS_AddElement
    <3>4. f \cup {i} \subseteq g
      BY <2>5, <2>6, <2>8
    <3>5. Cardinality(f \cup {i}) <= Cardinality(g)
      BY <2>1, <3>4, FS_Subset
    <3>6. (s \notin Cleared => Cardinality(q) <= n + 1) /\ n + 1 <= Cardinality(g)
          /\ Charged(ledger'[t], s) = n + 1
      BY <2>1, <2>2, <2>3, <2>4, <2>8, <3>1, <3>2, <3>3, <3>5
    <3> QED BY <3>6 DEF q, g
  <2> QED BY <2>7, <2>8
<1>13. Matches(caller', calls', ledger')
  BY <1>12 DEF Matches
<1> QED BY <1>9, <1>13 DEF TrailInv

\* A new call is neither paid nor finished.
LEMMA InvokeTrail ==
  ASSUME TrailInv, IInv', NEW c \in Callers, NEW x \in Tools, Invoke(c, x)
  PROVE  TrailInv'
<1> DEFINE n == Len(calls)
           at == IF x \in Risky THEN "approval" ELSE "access"
           z == Calling(caller[c], n + 1, at)
           y == [tenant |-> caller[c].tenant, tool |-> x, ran |-> FALSE, audit |-> None, cut |-> FALSE]
<1>1. /\ caller[c].at = "ready" /\ calls' = Append(calls, y) /\ ledger' = ledger
      /\ caller' = [caller EXCEPT ![c] = z]
  BY DEF Invoke, Calling
<1>2. /\ IInv /\ calls \in Seq(Call) /\ Fits(caller[c], n) /\ n \in Nat /\ CallersFit(caller, n)
      /\ Owned(caller, calls)
  BY AtWork DEF IInv, TrailInv
<1>3. /\ z.tenant = caller[c].tenant /\ z.call = n + 1 /\ z.verdict = None /\ caller[c].call = 0
      /\ z.at # "tool"
  BY <1>1, <1>2, InvokeFits
<1>4. y \in Call /\ y.tenant = caller[c].tenant /\ ~y.ran /\ y.audit # "allowed" /\ None # "allowed"
  <2>1. caller[c].tenant \in Tenants
    BY <1>1, <1>2, AtWork
  <2> QED BY <2>1, GovernanceAssumption DEF Call, Decisions
<1> HIDE DEF z, y, at
<1>5. /\ calls' \in Seq(Call) /\ calls'[n + 1] = y
      /\ DOMAIN calls = 1..n /\ DOMAIN calls' = 1..(n + 1)
      /\ \A j \in 1..n : calls'[j] = calls[j]
  BY <1>1, <1>2, <1>4
<1> HIDE DEF n
<1>6. caller'[c] = z /\ \A d \in Callers \ {c} : caller'[d] = caller[d]
  BY <1>1, <1>2 DEF CallersFit
<1>7. \A d \in Callers : caller[d].call \in 0..n
  BY <1>2 DEF CallersFit, Fits
<1>8. Owned(caller', calls')
  <2> SUFFICES ASSUME NEW d \in Callers, caller'[d].call # 0
               PROVE  calls'[caller'[d].call].tenant = caller'[d].tenant
    BY DEF Owned
  <2>1. CASE d = c
    BY <1>3, <1>4, <1>5, <1>6, <2>1
  <2>2. CASE d # c
    <3>1. caller'[d] = caller[d] /\ caller[d].call \in 1..n
      BY <1>2, <1>6, <1>7, <2>2
    <3>2. calls[caller[d].call].tenant = caller[d].tenant
      BY <1>2, <3>1 DEF Owned
    <3> QED BY <1>5, <3>1, <3>2
  <2> QED BY <2>1, <2>2
<1>9. ASSUME NEW t \in Tenants
      PROVE  /\ Paid(caller', calls', t) \subseteq Paid(caller, calls, t)
             /\ Finished(caller, calls, t) \subseteq Finished(caller', calls', t)
  <2>1. ASSUME NEW j \in Paid(caller', calls', t) PROVE j \in Paid(caller, calls, t)
    <3>1. /\ j \in 1..(n + 1) /\ calls'[j].tenant = t
          /\ calls'[j].audit = "allowed" \/ \E d \in Callers : caller'[d].call = j /\ caller'[d].verdict = "allowed"
      BY <1>5 DEF Paid
    <3>2. (\E d \in Callers : caller'[d].call = j /\ caller'[d].verdict = "allowed")
          => \E d \in Callers : caller[d].call = j /\ caller[d].verdict = "allowed"
      BY <1>3, <1>4, <1>6
    <3>3. j # n + 1
      <4>1. ~ \E d \in Callers : caller[d].call = n + 1
        BY <1>2, <1>7
      <4> QED BY <1>4, <1>5, <3>1, <3>2, <4>1
    <3>4. j \in DOMAIN calls /\ calls'[j] = calls[j]
      BY <1>2, <1>5, <3>1, <3>3
    <3> QED BY <3>1, <3>2, <3>4 DEF Paid
  <2>2. ASSUME NEW j \in Finished(caller, calls, t) PROVE j \in Finished(caller', calls', t)
    <3>1. /\ j \in 1..n /\ calls[j].tenant = t /\ calls[j].ran
          /\ \A d \in Callers : caller[d].call = j => caller[d].at # "tool"
      BY <1>5 DEF Finished
    <3>2. j \in DOMAIN calls' /\ calls'[j] = calls[j]
      BY <1>2, <1>5, <3>1
    <3>3. \A d \in Callers : caller'[d].call = j => caller'[d].at # "tool"
      BY <1>3, <1>6, <3>1
    <3> QED BY <3>1, <3>2, <3>3 DEF Finished
  <2> QED BY <2>1, <2>2
<1>10. ASSUME NEW t \in Tenants, NEW s \in Scopes
       PROVE  /\ s \notin Cleared => Cardinality(Paid(caller', calls', t)) <= Charged(ledger[t], s)
              /\ Charged(ledger[t], s) <= Cardinality(Finished(caller', calls', t))
  <2>1. Charged(ledger[t], s) \in Nat
    BY <1>2, ChargedNat
  <2>2. /\ s \notin Cleared => Cardinality(Paid(caller, calls, t)) <= Charged(ledger[t], s)
        /\ Charged(ledger[t], s) <= Cardinality(Finished(caller, calls, t))
    BY DEF TrailInv, Matches
  <2> QED BY <1>2, <1>5, <1>9, <2>1, <2>2, StillMatches
<1>11. Matches(caller', calls', ledger')
  BY <1>1, <1>10 DEF Matches
<1> QED BY <1>8, <1>11 DEF TrailInv

\* A scope that is cleared has been charged nothing.
LEMMA ClearTrail ==
  ASSUME TrailInv, IInv', NEW t \in Tenants, NEW s \in Cleared, Clear(t, s)
  PROVE  TrailInv'
<1>1. /\ UNCHANGED <<caller, calls>> /\ ledger' = [ledger EXCEPT ![t][s] = None]
      /\ ledger \in [Tenants -> Ledgers] /\ s \in Scopes /\ calls \in Seq(Call)
  BY GovernanceAssumption DEF Clear, TrailInv, IInv, Shape
<1>2. /\ ledger'[t][s] = None
      /\ \A u \in Tenants, x \in Scopes : u # t \/ x # s => ledger'[u][x] = ledger[u][x]
  BY <1>1 DEF Ledgers
<1>3. ASSUME NEW u \in Tenants, NEW x \in Scopes
      PROVE  /\ x \notin Cleared => Cardinality(Paid(caller, calls, u)) <= Charged(ledger'[u], x)
             /\ Charged(ledger'[u], x) <= Cardinality(Finished(caller, calls, u))
  <2>1. CASE u = t /\ x = s
    <3>1. Charged(ledger'[u], x) = 0
      <4>1. StateOf(ledger'[u], x) = Fresh /\ "tool_calls" \in Resources
        BY <1>2, <2>1 DEF StateOf, Resources
      <4> QED BY <4>1 DEF Charged, Fresh, Zero
    <3>2. Cardinality(Finished(caller, calls, u)) \in Nat
      BY <1>1, TrailFinite
    <3> QED BY <2>1, <3>1, <3>2
  <2>2. CASE u # t \/ x # s
    <3>1. Charged(ledger'[u], x) = Charged(ledger[u], x)
      BY <1>2, <2>2 DEF Charged, StateOf
    <3> QED BY <3>1 DEF TrailInv, Matches
  <2> QED BY <2>1, <2>2
<1>4. Matches(caller', calls', ledger')
  BY <1>1, <1>3 DEF Matches
<1> QED BY <1>1, <1>4 DEF TrailInv

-----------------------------------------------------------------------------
(* The theorems                                                              *)

LEMMA NextOK == IInv /\ [Next]_vars => IInv'
<1> SUFFICES ASSUME IInv, [Next]_vars PROVE IInv'
  OBVIOUS
<1>1. CASE UNCHANGED vars
  BY <1>1 DEF vars, IInv, Shape
<1>2. ASSUME NEW t \in Tenants, RegisterTenant(t) \/ Deactivate(t) PROVE IInv'
  BY <1>2, TenantStep
<1>3. ASSUME NEW t \in Tenants, NEW s \in Tuned, Configure(t, s) PROVE IInv'
  BY <1>3, ConfigureStep, GovernanceAssumption
<1>4. ASSUME NEW t \in Tenants, NEW s \in Cleared, Clear(t, s) PROVE IInv'
  BY <1>4, ClearStep, GovernanceAssumption
<1>5. ASSUME NEW c \in Callers, NEW t \in Tenants, LedgerFor(c, t) PROVE IInv'
  BY <1>5, LedgerForStep
<1>6. ASSUME NEW c \in Callers, NEW x \in Tools, Invoke(c, x) PROVE IInv'
  BY <1>6, InvokeStep
<1>7. ASSUME NEW c \in Callers, Generate(c) \/ ModelAnswers(c) \/ Continue(c) \/ Attempt(c) \/ AttemptEnds(c)
      PROVE  IInv'
  BY <1>7, GenerateStep, ModelAnswersStep, ContinueStep, AttemptStep, AttemptEndsStep
<1>8. ASSUME NEW c \in Callers, WorkFails(c) \/ Approve(c) \/ Reject(c) \/ Deny(c) \/ Admit(c) \/ StartTool(c)
      PROVE  IInv'
  BY <1>8, WorkFailsStep, ApproveStep, RejectStep, AdmitStep, StartToolStep
<1>9. ASSUME NEW c \in Callers, RefuseTool(c) \/ ToolReturns(c) \/ ToolRaises(c) \/ Audit(c) \/ Interrupt(c)
      PROVE  IInv'
  BY <1>9, RejectStep, ToolReturnsStep, AuditStep, InterruptStep
<1>10. ASSUME NEW b \in Buckets, ResetQuota(b) PROVE IInv'
  BY <1>10, ResetQuotaStep
<1> QED
  BY <1>1, <1>2, <1>3, <1>4, <1>5, <1>6, <1>7, <1>8, <1>9, <1>10 DEF Next

LEMMA InvBooks == IInv => BooksBalance
<1> SUFFICES ASSUME IInv PROVE BooksBalance
  OBVIOUS
<1>1. TypeOK
  <2>1. \A t \in Tenants, s \in Scopes :
          \/ ledger[t][s] = None
          \/ /\ ledger[t][s].committed \in [Resources -> Nat]
             /\ ledger[t][s].reserved \in [Resources -> Nat]
             /\ ledger[t][s].active \in Nat
    BY DEF IInv, Shape, Ledgers, Entries
  <2>2. \A i \in DOMAIN calls : calls[i].tool \in Tools /\ calls[i].audit \in Decisions \cup {None}
    <3>1. \A i \in DOMAIN calls : calls[i] \in Call
      BY DEF IInv, Shape
    <3> QED BY <3>1 DEF Call
  <2>3. \A c \in Callers : caller[c].verdict \in Decisions \cup {None} /\ caller[c].call \in 0..Len(calls)
    BY DEF IInv, CallersFit, Fits
  <2> QED BY <2>1, <2>2, <2>3 DEF TypeOK, IInv, Shape
<1>2. NoOversell
  BY DEF IInv, BooksOf, Within, NoOversell
<1>3. \A c \in Callers, r \in Resources : caller[c].amount[r] \in {0, Share(r)}
  BY AtWork, LoadShares
<1>4. ASSUME NEW t \in Tenants, NEW r \in Resources PROVE Held(t, r) = Share(r) * Count(caller, t, r)
  <2>1. {c \in Holders(t) : caller[c].amount[r] # 0} = Holding(caller, t, r)
    BY DEF Holders, Holding, Zero
  <2> QED BY <2>1 DEF Held, Count
<1>5. \A t \in Tenants : Held(t, "model_calls") = Count(caller, t, "model_calls")
  <2>1. "model_calls" \in Resources /\ Share("model_calls") = 1
    BY LoadShares DEF Resources
  <2>2. \A t \in Tenants : Count(caller, t, "model_calls") \in Nat
    BY CountNat
  <2> QED BY <1>4, <2>1, <2>2
<1>6. \A t \in Tenants, s \in Scopes :
        /\ StateOf(ledger[t], s).active = Held(t, "model_calls")
        /\ \A r \in Resources : StateOf(ledger[t], s).reserved[r] = Held(t, r)
  BY <1>4, <1>5 DEF IInv, BooksOf, Backed
<1>7. ReservedBacked
  BY <1>3, <1>6 DEF ReservedBacked
<1> QED BY <1>1, <1>2, <1>7 DEF BooksBalance

LEMMA InvCalls == IInv => RunLimitHolds /\ AuditTellsTruth
<1> SUFFICES ASSUME IInv PROVE RunLimitHolds /\ AuditTellsTruth
  OBVIOUS
<1>1. ASSUME NEW x \in Tools
      PROVE  Cardinality({i \in DOMAIN calls : calls[i].tool = x /\ calls[i].ran}) <= MaxPerRun
  <2> DEFINE R == {i \in DOMAIN calls : calls[i].tool = x /\ calls[i].ran}
             A == Counted(caller, calls, x)
  <2>1. R \subseteq A
    BY DEF Counted
  <2>2. calls \in Seq(Call) /\ runCalls[x] \in Nat /\ MaxPerRun \in Nat
    BY GovernanceAssumption DEF IInv, Shape
  <2>3. IsFiniteSet(A) /\ Cardinality(A) \in Nat
    BY <2>2, CountedFinite
  <2>4. Cardinality(R) <= Cardinality(A) /\ IsFiniteSet(R)
    BY <2>1, <2>3, FS_Subset
  <2>5. Cardinality(R) \in Nat
    BY <2>4, FS_CardinalityType
  <2>6. Cardinality(A) <= runCalls[x] /\ runCalls[x] <= MaxPerRun
    BY DEF IInv, RunsCounted
  <2> QED BY <2>2, <2>3, <2>4, <2>5, <2>6
<1>2. RunLimitHolds
  BY <1>1 DEF RunLimitHolds
<1>3. AuditTellsTruth
  BY DEF IInv, CallsTold, Truthful, AuditTellsTruth
<1> QED BY <1>2, <1>3

LEMMA InvKept == Spec => []IInv
<1> QED BY InitOK, NextOK, PTL DEF Spec

\* The books balance (UsageLedger and all that reserves from it): whatever
\* callers reserve, settle, lose or clear, in any order, no scope of a tenant
\* is oversold, and what is reserved of it is what the callers at work hold.
THEOREM BooksKept == Spec => []BooksBalance
<1> QED BY InvKept, InvBooks, PTL

LEMMA TrailInit == Init => TrailInv
<1> SUFFICES ASSUME Init PROVE TrailInv
  OBVIOUS
<1>1. IInv /\ calls = <<>> /\ \A c \in Callers : caller[c] = Idle
  BY InitOK DEF Init
<1>2. Owned(caller, calls)
  BY <1>1, IdleFits DEF Owned
<1>3. ASSUME NEW t \in Tenants, NEW s \in Scopes
      PROVE  /\ Cardinality(Paid(caller, calls, t)) = 0 /\ Cardinality(Finished(caller, calls, t)) = 0
             /\ Charged(ledger[t], s) = 0
  <2>1. Paid(caller, calls, t) = {} /\ Finished(caller, calls, t) = {}
    BY <1>1 DEF Paid, Finished
  <2>2. StateOf(ledger[t], s) = Fresh /\ "tool_calls" \in Resources
    BY DEF Init, StateOf, Resources
  <2> QED BY <2>1, <2>2, FS_EmptySet DEF Charged, Fresh, Zero
<1>4. Matches(caller, calls, ledger)
  BY <1>3 DEF Matches
<1> QED BY <1>1, <1>2, <1>4 DEF TrailInv

LEMMA TrailNext == TrailInv /\ [Next]_vars => TrailInv'
<1> SUFFICES ASSUME TrailInv, [Next]_vars PROVE TrailInv'
  OBVIOUS
<1>1. IInv'
  BY NextOK DEF TrailInv
<1>2. CASE UNCHANGED vars
  BY <1>1, <1>2, QuietTrail DEF vars
<1>3. ASSUME NEW t \in Tenants, RegisterTenant(t) \/ Deactivate(t) PROVE TrailInv'
  BY <1>1, <1>3, QuietTrail DEF RegisterTenant, Deactivate
<1>4. ASSUME NEW t \in Tenants, NEW s \in Tuned, Configure(t, s) PROVE TrailInv'
  BY <1>1, <1>4, QuietTrail DEF Configure
<1>5. ASSUME NEW b \in Buckets, ResetQuota(b) PROVE TrailInv'
  BY <1>1, <1>5, QuietTrail DEF ResetQuota
<1>6. ASSUME NEW t \in Tenants, NEW s \in Cleared, Clear(t, s) PROVE TrailInv'
  BY <1>1, <1>6, ClearTrail
<1>7. ASSUME NEW c \in Callers, NEW t \in Tenants, LedgerFor(c, t) PROVE TrailInv'
  BY <1>1, <1>7, LedgerForTrail
<1>8. ASSUME NEW c \in Callers, NEW x \in Tools, Invoke(c, x) PROVE TrailInv'
  BY <1>1, <1>8, InvokeTrail
<1>9. ASSUME NEW c \in Callers,
             \/ Generate(c) \/ ModelAnswers(c) \/ Continue(c) \/ Attempt(c) \/ AttemptEnds(c) \/ WorkFails(c)
      PROVE  TrailInv'
  BY <1>1, <1>9, WorkTrail
<1>10. ASSUME NEW c \in Callers,
              Approve(c) \/ Reject(c) \/ Deny(c) \/ Admit(c) \/ RefuseTool(c) \/ ToolRaises(c)
       PROVE  TrailInv'
  BY <1>1, <1>10, GateTrail
<1>11. ASSUME NEW c \in Callers, StartTool(c) \/ ToolReturns(c) \/ Audit(c) \/ Interrupt(c)
       PROVE  TrailInv'
  BY <1>1, <1>11, StartToolTrail, ReturnTrail, LeaveTrail
<1> QED
  BY <1>2, <1>3, <1>4, <1>5, <1>6, <1>7, <1>8, <1>9, <1>10, <1>11 DEF Next

LEMMA InvTrail == TrailInv => TrailMatchesLedger
<1> SUFFICES ASSUME TrailInv, NEW t \in Tenants, NEW s \in Scopes
             PROVE  LET mine == {i \in DOMAIN calls : calls[i].tenant = t}
                    IN /\ s \notin Cleared =>
                            Cardinality({i \in mine : calls[i].audit = "allowed"}) <= Charged(ledger[t], s)
                       /\ Charged(ledger[t], s) <= Cardinality({i \in mine : calls[i].ran})
  BY DEF TrailMatchesLedger, ChargedTools, Charged
<1> DEFINE mine == {i \in DOMAIN calls : calls[i].tenant = t}
           A == {i \in mine : calls[i].audit = "allowed"}
           R == {i \in mine : calls[i].ran}
           P == Paid(caller, calls, t)
           F == Finished(caller, calls, t)
           n == Charged(ledger[t], s)
<1>1. IInv /\ calls \in Seq(Call) /\ DOMAIN calls = 1..Len(calls) /\ Len(calls) \in Nat
  BY DEF TrailInv, IInv, Shape
<1>2. A \subseteq P /\ F \subseteq R
  BY DEF Paid, Finished
<1>3. IsFiniteSet(R)
  <2>1. R \in SUBSET (1..Len(calls))
    BY <1>1
  <2>2. IsFiniteSet(1..Len(calls))
    BY <1>1, FS_Interval
  <2> QED BY <2>1, <2>2, FS_Subset
<1>4. IsFiniteSet(P) /\ Cardinality(P) \in Nat /\ Cardinality(F) \in Nat /\ n \in Nat
  BY <1>1, TrailFinite, ChargedNat
<1>5. (s \notin Cleared => Cardinality(P) <= n) /\ n <= Cardinality(F)
  BY DEF TrailInv, Matches
<1> HIDE DEF A, R, P, F, n
<1>6. IsFiniteSet(A) /\ Cardinality(A) <= Cardinality(P) /\ Cardinality(F) <= Cardinality(R)
  BY <1>2, <1>3, <1>4, FS_Subset
<1>7. Cardinality(A) \in Nat /\ Cardinality(R) \in Nat
  BY <1>3, <1>6, FS_CardinalityType
<1>8. (s \notin Cleared => Cardinality(A) <= n) /\ n <= Cardinality(R)
  BY <1>4, <1>5, <1>6, <1>7
<1> QED BY <1>8 DEF A, R, n

\* Calls are accounted for (McpGateway, BudgetedTool): a tool runs at most
\* max_calls_per_run times, the trail tells what became of each call, and the
\* ledger a call's wrapper was built with was charged for every call the trail
\* has as allowed and for none that did not run, whatever is cancelled, cleared
\* or deactivated in between.
THEOREM CallsKept == Spec => []CallsAccounted
<1>1. TrailInv => CallsAccounted
  BY InvCalls, InvTrail DEF TrailInv, CallsAccounted
<1> QED BY <1>1, TrailInit, TrailNext, PTL DEF Spec

=============================================================================
