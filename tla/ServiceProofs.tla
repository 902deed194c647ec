---------------------------- MODULE ServiceProofs ----------------------------
(***************************************************************************)
(* The queued service, for all sets of runs, clients and workers and all   *)
(* bounds.                                                                 *)
(*                                                                         *)
(* First each Lua script: under QueueInv (a command is in one place, leases *)
(* and run-leases name each other) what it does to the keys is what one    *)
(* operation of LeaseQueue does to the command, and to no other.  Then     *)
(* IInv, the inductive invariant of the service: what a call or a worker   *)
(* has read is either what is stored or older (ClientOK, WorkerOK), claims *)
(* of one run are apart (ClaimsApart), and a QUEUED record is awaited by a *)
(* call, a command in hand, or a message that is not revoked (WokenOK).    *)
(* Last the theorems.                                                      *)
(***************************************************************************)
EXTENDS RunService, FiniteSetTheorems, SequenceTheorems, TLAPS

\* The k-th smallest elements of a finite set of numbers are its elements,
\* each once (Nth, which Without and Descending are made of).
LEMMA NthIsOneToOne ==
  ASSUME NEW S \in SUBSET Nat, IsFiniteSet(S)
  PROVE  /\ Cardinality(S) \in Nat
         /\ \A k \in 1 .. Cardinality(S) : Nth(S, k) \in S
         /\ \A j, k \in 1 .. Cardinality(S) : Nth(S, j) = Nth(S, k) => j = k
         /\ \A i \in S : \E k \in 1 .. Cardinality(S) : Nth(S, k) = i
<1> DEFINE n == Cardinality(S)
           Upto(i) == {j \in S : j =< i}
           rank == [i \in S |-> Cardinality(Upto(i))]
<1>1. n \in Nat
  BY FS_CardinalityType
<1>2. \A i \in S : /\ IsFiniteSet(Upto(i)) /\ Cardinality(Upto(i)) \in 1 .. n
  <2> TAKE i \in S
  <2>1. Upto(i) \in SUBSET S
    OBVIOUS
  <2>2. IsFiniteSet(Upto(i)) /\ Cardinality(Upto(i)) =< n
    BY <2>1, FS_Subset
  <2>3. i \in Upto(i)
    OBVIOUS
  <2>4. Cardinality(Upto(i)) \in Nat /\ Cardinality(Upto(i)) # 0
    BY <2>2, <2>3, FS_CardinalityType, FS_EmptySet
  <2> QED
    BY <1>1, <2>2, <2>4
<1>3. \A i, j \in S : i < j => rank[i] # rank[j]
  <2> SUFFICES ASSUME NEW i \in S, NEW j \in S, i < j
               PROVE  Cardinality(Upto(i)) # Cardinality(Upto(j))
    <3> HIDE DEF Upto
    <3>1. \A x \in S : rank[x] = Cardinality(Upto(x))
      OBVIOUS
    <3> HIDE DEF rank
    <3> QED
      BY <3>1
  <2>0. S \subseteq Nat
    OBVIOUS
  <2>1. Upto(i) \in SUBSET Upto(j)
    <3>1. \A x \in S : x =< i => x =< j
      BY <2>0
    <3> QED
      BY <3>1
  <2>2. j \in Upto(j) /\ j \notin Upto(i)
    OBVIOUS
  <2> QED
    BY <1>2, <2>1, <2>2, FS_Subset
<1>4. rank \in Injection(S, 1 .. n)
  <2>1. rank \in [S -> 1 .. n]
    BY <1>2
  <2>2. \A i, j \in S : rank[i] = rank[j] => i = j
    BY <1>3
  <2> QED
    BY <2>1, <2>2 DEF Injection, IsInjective
<1>5. rank \in Surjection(S, 1 .. n)
  <2>1. IsFiniteSet(1 .. n) /\ Cardinality(1 .. n) = n
    BY <1>1, FS_Interval
  <2> QED
    BY <1>4, <2>1, FS_Injection
<1>6. \A k \in 1 .. n : Nth(S, k) \in S /\ Cardinality(Upto(Nth(S, k))) = k
  <2> TAKE k \in 1 .. n
  <2>1. \E i \in S : rank[i] = k
    BY <1>5 DEF Surjection
  <2>2. \E i \in S : Cardinality({j \in S : j =< i}) = k
    BY <2>1
  <2> QED
    BY <2>2 DEF Nth
<1>7. \A i \in S : Nth(S, Cardinality(Upto(i))) = i
  <2> TAKE i \in S
  <2> DEFINE m == Nth(S, Cardinality(Upto(i)))
  <2>1. m \in S /\ rank[m] = rank[i]
    BY <1>2, <1>6
  <2> QED
    BY <1>4, <2>1 DEF Injection, IsInjective
<1> QED
  BY <1>1, <1>2, <1>6, <1>7

\* LREM removes the run from the list and nothing else; what had no duplicates
\* still has none (CancelScript).
LEMMA WithoutIsRemoval ==
  ASSUME NEW T, NEW s \in Seq(T), NEW r
  PROVE  /\ Without(s, r) \in Seq(T)
         /\ ToSet(Without(s, r)) = ToSet(s) \ {r}
         /\ (\A i, j \in DOMAIN s : s[i] = s[j] => i = j)
              => \A i, j \in DOMAIN Without(s, r) :
                   Without(s, r)[i] = Without(s, r)[j] => i = j
<1> DEFINE kept == {i \in DOMAIN s : s[i] # r}
           n == Cardinality(kept)
           w == [k \in 1 .. n |-> s[Nth(kept, k)]]
<1>1. DOMAIN s = 1 .. Len(s) /\ Len(s) \in Nat
  OBVIOUS
<1>2. kept \in SUBSET Nat /\ IsFiniteSet(kept)
  <2>1. IsFiniteSet(1 .. Len(s))
    BY <1>1, FS_Interval
  <2>2. kept \in SUBSET (1 .. Len(s))
    BY <1>1
  <2> QED
    BY <1>1, <2>1, <2>2, FS_Subset
<1>3. /\ n \in Nat
      /\ \A k \in 1 .. n : Nth(kept, k) \in kept
      /\ \A j, k \in 1 .. n : Nth(kept, j) = Nth(kept, k) => j = k
      /\ \A i \in kept : \E k \in 1 .. n : Nth(kept, k) = i
  BY <1>2, NthIsOneToOne
<1>4. Without(s, r) = w
  BY DEF Without
<1> HIDE DEF n, w
<1>5. w \in [1 .. n -> T] /\ DOMAIN w = 1 .. n
  BY <1>3 DEF w
<1>6. w \in Seq(T)
  BY <1>3, <1>5
<1>7. ToSet(w) = ToSet(s) \ {r}
  <2>1. \A k \in 1 .. n : w[k] \in ToSet(s) \ {r}
    <3> TAKE k \in 1 .. n
    <3>1. Nth(kept, k) \in kept
      BY <1>3
    <3> QED
      BY <3>1 DEF ToSet, w
  <2>2. \A i \in DOMAIN s : s[i] # r => \E k \in 1 .. n : w[k] = s[i]
    BY <1>3 DEF w
  <2> QED
    BY <1>5, <2>1, <2>2 DEF ToSet
<1>8. (\A i, j \in DOMAIN s : s[i] = s[j] => i = j)
        => \A i, j \in DOMAIN w : w[i] = w[j] => i = j
  BY <1>1, <1>3, <1>5 DEF w
<1> QED
  BY <1>4, <1>6, <1>7, <1>8

\* The leases of a set in the order of LPUSH: each once (Returning).
LEMMA DescendingIsOneToOne ==
  ASSUME NEW S \in SUBSET Nat, IsFiniteSet(S)
  PROVE  /\ Descending(S) \in Seq(S)
         /\ ToSet(Descending(S)) = S
         /\ \A i, j \in DOMAIN Descending(S) : Descending(S)[i] = Descending(S)[j] => i = j
<1> DEFINE n == Cardinality(S)
           d == [k \in 1 .. n |-> Nth(S, n + 1 - k)]
<1>1. /\ n \in Nat
      /\ \A k \in 1 .. n : Nth(S, k) \in S
      /\ \A j, k \in 1 .. n : Nth(S, j) = Nth(S, k) => j = k
      /\ \A i \in S : \E k \in 1 .. n : Nth(S, k) = i
  BY NthIsOneToOne
<1>2. Descending(S) = d
  BY DEF Descending
<1> HIDE DEF n
<1>3. \A k \in 1 .. n : n + 1 - k \in 1 .. n
  BY <1>1
<1>4. d \in [1 .. n -> S] /\ DOMAIN d = 1 .. n
  BY <1>1, <1>3
<1>5. \A i \in S : \E k \in 1 .. n : d[k] = i
  <2> TAKE i \in S
  <2>1. PICK k \in 1 .. n : Nth(S, k) = i
    BY <1>1
  <2>2. n + 1 - k \in 1 .. n /\ n + 1 - (n + 1 - k) = k
    BY <1>1
  <2>3. d[n + 1 - k] = i
    BY <2>1, <2>2
  <2> QED
    BY <2>2, <2>3
<1>6. \A i, j \in 1 .. n : d[i] = d[j] => i = j
  BY <1>1, <1>3
<1> HIDE DEF d
<1>7. d \in Seq(S)
  BY <1>1, <1>4
<1>8. ToSet(d) = S
  BY <1>4, <1>5 DEF ToSet
<1> QED
  BY <1>2, <1>4, <1>6, <1>7, <1>8

\* A finite set as a sequence, in some order (Ready).
LEMMA SetToSeqIsOneToOne ==
  ASSUME NEW S, IsFiniteSet(S)
  PROVE  /\ SetToSeq(S) \in Seq(S)
         /\ ToSet(SetToSeq(S)) = S
         /\ \A i, j \in DOMAIN SetToSeq(S) : SetToSeq(S)[i] = SetToSeq(S)[j] => i = j
<1> DEFINE n == Cardinality(S)
           s == SetToSeq(S)
<1>1. n \in Nat /\ ExistsBijection(1 .. n, S)
  BY FS_CardinalityType
<1>2. PICK b : b \in Bijection(1 .. n, S)
  BY <1>1 DEF ExistsBijection
<1>3. b \in [1 .. n -> S] /\ IsInjective(b)
  BY <1>2 DEF Bijection, Injection, IsInjective
<1>4. s \in [1 .. n -> S] /\ IsInjective(s)
  BY <1>3 DEF SetToSeq
<1>5. IsFiniteSet(1 .. n) /\ Cardinality(1 .. n) = n
  BY <1>1, FS_Interval
<1>6. s \in Injection(1 .. n, S)
  BY <1>4 DEF Injection, IsInjective
<1>7. s \in Surjection(1 .. n, S)
  BY <1>5, <1>6, FS_Injection
<1> HIDE DEF n, s
<1>8. s \in Seq(S)
  BY <1>1, <1>4
<1>9. ToSet(s) = S
  BY <1>4, <1>7 DEF ToSet, Surjection
<1> QED
  BY <1>4, <1>8, <1>9 DEF s, IsInjective

-----------------------------------------------------------------------------
(* The keys of the Redis queue, whatever sequence of scripts ran            *)

Keys == {"pending", "delayed", "jobs", "attempts", "leases", "runLeases", "cancelled", "issued"}

Distinct(s) == \A i, j \in DOMAIN s : s[i] = s[j] => i = j

KeysTyped(k) ==
  /\ DOMAIN k = Keys
  /\ k.pending \in Seq(Runs) /\ Distinct(k.pending)
  /\ IsFiniteSet(k.delayed) /\ k.issued \in Nat
  /\ DOMAIN k.jobs \subseteq Runs /\ DOMAIN k.attempts = DOMAIN k.jobs
  /\ \A r \in DOMAIN k.attempts : k.attempts[r] \in Nat

\* A command is in one place: the list, the delayed set, or under a lease.
OnePlace(k) ==
  /\ DOMAIN k.jobs = ToSet(k.pending) \cup k.delayed \cup DOMAIN k.runLeases
  /\ ToSet(k.pending) \cap k.delayed = {}
  /\ ToSet(k.pending) \cap DOMAIN k.runLeases = {}
  /\ k.delayed \cap DOMAIN k.runLeases = {}
  /\ k.cancelled \subseteq DOMAIN k.runLeases

\* leases and run-leases name each other, and no lease_id is from the future.
LeasesPaired(k) ==
  /\ \A r \in DOMAIN k.runLeases : Held(k, k.runLeases[r], r)
  /\ \A l \in DOMAIN k.leases : /\ l \in Nat \ {0} /\ l =< k.issued
                                /\ k.leases[l] \in DOMAIN k.runLeases
                                /\ k.runLeases[k.leases[l]] = l

QueueInv(k) == KeysTyped(k) /\ OnePlace(k) /\ LeasesPaired(k)

\* The command of every other run is as it was.
OthersKept(k, s, R) == \A x \in Runs \ R : Command(s, x) = Command(k, x)

\* s is k with a command of r that waits.
Enqueued(k, r, s) ==
  /\ QueueInv(s)
  /\ DOMAIN s.jobs = DOMAIN k.jobs \cup {r}
  /\ s.cancelled = k.cancelled /\ s.leases = k.leases /\ s.issued = k.issued
  /\ Command(k, r) = Queue!Absent /\ Command(s, r) = Queue!Waiting(1)
  /\ OthersKept(k, s, {r})

\* ENQUEUE puts one command at the end of the list (_ENQUEUE_SCRIPT).
LEMMA EnqueueEffect ==
  ASSUME NEW k, QueueInv(k), NEW r \in Runs, NEW a, EnqueueAccepts(k, r)
  PROVE  Enqueued(k, r, EnqueueScript(k, r, a))
<1> DEFINE s == EnqueueScript(k, r, a)
<1>1. /\ DOMAIN s = Keys
      /\ s.pending = Append(k.pending, r) /\ s.delayed = k.delayed
      /\ s.jobs = Put(k.jobs, r, a) /\ s.attempts = Put(k.attempts, r, 1)
      /\ s.leases = k.leases /\ s.runLeases = k.runLeases
      /\ s.cancelled = k.cancelled \ {r} /\ s.issued = k.issued
  BY DEF EnqueueScript, QueueInv, KeysTyped, Keys
<1> HIDE DEF s
<1>2. r \notin DOMAIN k.jobs
  BY DEF EnqueueAccepts
<1>3. /\ DOMAIN s.jobs = DOMAIN k.jobs \cup {r} /\ DOMAIN s.attempts = DOMAIN k.attempts \cup {r}
      /\ \A x \in DOMAIN s.attempts : s.attempts[x] = IF x = r THEN 1 ELSE k.attempts[x]
  BY <1>1 DEF Put
<1>4. /\ k.pending \in Seq(Runs) /\ DOMAIN k.pending = 1 .. Len(k.pending)
      /\ Distinct(k.pending) /\ r \notin ToSet(k.pending)
  BY <1>2 DEF QueueInv, KeysTyped, OnePlace
<1>5. /\ s.pending \in Seq(Runs) /\ Distinct(s.pending)
      /\ ToSet(s.pending) = ToSet(k.pending) \cup {r}
  <2>1. /\ s.pending \in Seq(Runs) /\ DOMAIN s.pending = 1 .. Len(k.pending) + 1
        /\ \A i \in 1 .. Len(k.pending) : s.pending[i] = k.pending[i]
        /\ s.pending[Len(k.pending) + 1] = r
    BY <1>1, <1>4, AppendProperties
  <2>2. Len(k.pending) \in Nat
    BY <1>4
  <2>3. \A i \in 1 .. Len(k.pending) : k.pending[i] # r
    BY <1>4 DEF ToSet
  <2>4. Distinct(s.pending)
    BY <1>4, <2>1, <2>2, <2>3, SMTT(30) DEF Distinct
  <2>5. ToSet(s.pending) = ToSet(k.pending) \cup {r}
    BY <1>4, <2>1, <2>2, SMTT(30) DEF ToSet
  <2> QED
    BY <2>1, <2>4, <2>5
<1>6. s.cancelled = k.cancelled /\ r \notin DOMAIN k.runLeases
  BY <1>1, <1>2 DEF QueueInv, OnePlace
<1>7. KeysTyped(s)
  BY <1>1, <1>3, <1>5 DEF QueueInv, KeysTyped
<1>8. OnePlace(s)
  BY <1>1, <1>2, <1>3, <1>5, <1>6 DEF QueueInv, OnePlace
<1>9. LeasesPaired(s)
  BY <1>1 DEF QueueInv, LeasesPaired, Held
<1>10. Command(k, r) = Queue!Absent /\ Command(s, r) = Queue!Waiting(1)
  BY <1>1, <1>2, <1>3, <1>6 DEF Command, Queue!Absent, Queue!Waiting
<1>11. OthersKept(k, s, {r})
  <2> SUFFICES ASSUME NEW x \in Runs, x # r  PROVE Command(s, x) = Command(k, x)
    BY DEF OthersKept
  <2>1. x \in DOMAIN s.jobs <=> x \in DOMAIN k.jobs
    BY <1>3
  <2>2. x \in DOMAIN k.jobs => s.attempts[x] = k.attempts[x]
    BY <1>3 DEF QueueInv, KeysTyped
  <2> QED
    BY <1>1, <1>6, <2>1, <2>2 DEF Command
<1>12. Enqueued(k, r, s)
  BY <1>1, <1>3, <1>6, <1>7, <1>8, <1>9, <1>10, <1>11 DEF QueueInv, Enqueued
<1> QED
  BY <1>12 DEF s

\* s is k with the command of r gone, or to go when its lease ends.
Withdrawn(k, r, s) ==
  /\ QueueInv(s)
  /\ s.leases = k.leases /\ s.runLeases = k.runLeases /\ s.issued = k.issued
  /\ r \in DOMAIN k.runLeases =>
       /\ DOMAIN s.jobs = DOMAIN k.jobs /\ s.cancelled = k.cancelled \cup {r}
       /\ Command(k, r).phase = IF r \in k.cancelled THEN "doomed" ELSE "held"
       /\ Command(s, r) = [Command(k, r) EXCEPT !.phase = "doomed"]
  /\ r \notin DOMAIN k.runLeases =>
       /\ DOMAIN s.jobs = DOMAIN k.jobs \ {r} /\ s.cancelled = k.cancelled
       /\ Command(k, r).phase = "waiting" /\ Command(s, r) = Queue!Absent
  /\ OthersKept(k, s, {r})

\* CANCEL removes a waiting command and marks a leased one (_CANCEL_SCRIPT).
LEMMA CancelEffect ==
  ASSUME NEW k, QueueInv(k), NEW r \in Runs, CancelAccepts(k, r)
  PROVE  Withdrawn(k, r, CancelScript(k, r))
<1> DEFINE s == CancelScript(k, r)
           leased == r \in DOMAIN k.runLeases
<1>1. /\ DOMAIN s = Keys
      /\ s.pending = Without(k.pending, r) /\ s.delayed = k.delayed \ {r}
      /\ s.jobs = IF leased THEN k.jobs ELSE Del(k.jobs, {r})
      /\ s.attempts = IF leased THEN k.attempts ELSE Del(k.attempts, {r})
      /\ s.leases = k.leases /\ s.runLeases = k.runLeases
      /\ s.cancelled = IF leased THEN k.cancelled \cup {r} ELSE (k.cancelled \cup {r}) \ {r}
      /\ s.issued = k.issued
  BY DEF CancelScript, Forget, QueueInv, KeysTyped, Keys
<1> HIDE DEF s
<1>2. r \in DOMAIN k.jobs
  BY DEF CancelAccepts
<1>3. /\ DOMAIN s.jobs = DOMAIN k.jobs \ (IF leased THEN {} ELSE {r})
      /\ DOMAIN s.attempts = DOMAIN k.attempts \ (IF leased THEN {} ELSE {r})
      /\ \A x \in DOMAIN s.attempts : s.attempts[x] = k.attempts[x]
  BY <1>1 DEF Del, Restrict
<1>4. k.pending \in Seq(Runs) /\ Distinct(k.pending)
  BY DEF QueueInv, KeysTyped
<1>5. /\ s.pending \in Seq(Runs) /\ Distinct(s.pending)
      /\ ToSet(s.pending) = ToSet(k.pending) \ {r}
  BY <1>1, <1>4, WithoutIsRemoval DEF Distinct
<1>6. leased => s.cancelled = k.cancelled \cup {r}
  BY <1>1
<1>7. ~leased => s.cancelled = k.cancelled /\ r \notin k.cancelled
  BY <1>1 DEF QueueInv, OnePlace
<1>8. IsFiniteSet(s.delayed)
  <2>1. IsFiniteSet(k.delayed)
    BY DEF QueueInv, KeysTyped
  <2>2. IsFiniteSet(k.delayed \ {r})
    BY <2>1, FS_RemoveElement
  <2> QED
    BY <1>1, <2>2
<1>9. KeysTyped(s)
  BY <1>1, <1>3, <1>5, <1>8 DEF QueueInv, KeysTyped
<1>10. OnePlace(s)
  <2>1. OnePlace(k)
    BY DEF QueueInv
  <2>2. CASE leased
    <3>1. /\ DOMAIN s.jobs = DOMAIN k.jobs /\ s.delayed = k.delayed \ {r} /\ s.runLeases = k.runLeases
          /\ s.cancelled = k.cancelled \cup {r}
      BY <1>1, <1>3, <2>2
    <3>2. r \notin ToSet(k.pending) /\ r \notin k.delayed
      BY <2>1, <2>2 DEF OnePlace
    <3> QED
      BY <1>5, <2>1, <2>2, <3>1, <3>2 DEF OnePlace
  <2>3. CASE ~leased
    <3>1. /\ DOMAIN s.jobs = DOMAIN k.jobs \ {r} /\ s.delayed = k.delayed \ {r} /\ s.runLeases = k.runLeases
          /\ s.cancelled = k.cancelled
      BY <1>1, <1>3, <1>7, <2>3
    <3> QED
      BY <1>5, <2>1, <2>3, <3>1 DEF OnePlace
  <2> QED
    BY <2>2, <2>3
<1>11. LeasesPaired(s)
  BY <1>1 DEF QueueInv, LeasesPaired, Held
<1>12. leased => /\ Command(k, r).phase = IF r \in k.cancelled THEN "doomed" ELSE "held"
                 /\ Command(s, r) = [Command(k, r) EXCEPT !.phase = "doomed"]
  <2> SUFFICES ASSUME leased PROVE /\ Command(k, r).phase = IF r \in k.cancelled THEN "doomed" ELSE "held"
                                   /\ Command(s, r) = [Command(k, r) EXCEPT !.phase = "doomed"]
    OBVIOUS
  <2>1. r \in DOMAIN s.jobs /\ r \in DOMAIN s.runLeases /\ r \in s.cancelled
    BY <1>1, <1>2, <1>3, <1>6
  <2>2. s.attempts[r] = k.attempts[r] /\ s.runLeases[r] = k.runLeases[r]
    BY <1>1
  <2>3. Command(s, r) = [phase |-> "doomed", lease |-> k.runLeases[r], attempt |-> k.attempts[r]]
    BY <2>1, <2>2 DEF Command
  <2>4. Command(k, r) = [phase |-> IF r \in k.cancelled THEN "doomed" ELSE "held",
                         lease |-> k.runLeases[r], attempt |-> k.attempts[r]]
    BY <1>2 DEF Command
  <2> QED
    BY <2>3, <2>4
<1>13. ~leased => Command(k, r).phase = "waiting" /\ Command(s, r) = Queue!Absent
  BY <1>2, <1>3 DEF Command, Queue!Absent
<1>14. OthersKept(k, s, {r})
  <2> SUFFICES ASSUME NEW x \in Runs, x # r  PROVE Command(s, x) = Command(k, x)
    BY DEF OthersKept
  <2>1. x \in DOMAIN s.jobs <=> x \in DOMAIN k.jobs
    BY <1>3
  <2>2. x \in DOMAIN k.jobs => s.attempts[x] = k.attempts[x]
    BY <1>3 DEF QueueInv, KeysTyped
  <2>3. x \in s.cancelled <=> x \in k.cancelled
    BY <1>6, <1>7
  <2> QED
    BY <1>1, <2>1, <2>2, <2>3 DEF Command
<1>15. Withdrawn(k, r, s)
  BY <1>1, <1>3, <1>6, <1>7, <1>9, <1>10, <1>11, <1>12, <1>13, <1>14 DEF QueueInv, Withdrawn
<1> QED
  BY <1>15 DEF s

\* The lease that a holder gives up is the one run-leases names.
LEMMA HeldIsLeased ==
  ASSUME NEW k, QueueInv(k), NEW l, NEW r, Held(k, l, r)
  PROVE  /\ r \in Runs /\ r \in DOMAIN k.runLeases /\ k.runLeases[r] = l
         /\ l \in DOMAIN k.leases /\ k.leases[l] = r /\ r \in DOMAIN k.jobs
         /\ r \notin ToSet(k.pending) /\ r \notin k.delayed
         /\ Command(k, r) = [phase |-> IF r \in k.cancelled THEN "doomed" ELSE "held",
                             lease |-> l, attempt |-> k.attempts[r]]
<1>1. /\ r \in DOMAIN k.runLeases /\ k.runLeases[r] = l
      /\ l \in DOMAIN k.leases /\ k.leases[l] = r
  BY DEF QueueInv, LeasesPaired, Held
<1>2. r \in DOMAIN k.jobs /\ r \notin ToSet(k.pending) /\ r \notin k.delayed
  BY <1>1 DEF QueueInv, OnePlace
<1>3. r \in Runs
  BY <1>2 DEF QueueInv, KeysTyped
<1> QED
  BY <1>1, <1>2, <1>3 DEF Command

\* A lease that ends with its command (_ACKNOWLEDGE_SCRIPT, _RELEASE_SCRIPT).
LEMMA DropEffect ==
  ASSUME NEW k, QueueInv(k), NEW l, NEW r, Held(k, l, r)
  PROVE  LET s == Forget(Unleased(k, l, r), {r}) IN
         /\ QueueInv(s)
         /\ DOMAIN s.jobs = DOMAIN k.jobs \ {r} /\ s.cancelled = k.cancelled \ {r}
         /\ s.leases = Del(k.leases, {l}) /\ s.issued = k.issued
         /\ Command(s, r) = Queue!Absent
         /\ OthersKept(k, s, {r})
<1> DEFINE s == Forget(Unleased(k, l, r), {r})
<1>1. /\ DOMAIN s = Keys
      /\ s.pending = k.pending /\ s.delayed = k.delayed
      /\ s.jobs = Del(k.jobs, {r}) /\ s.attempts = Del(k.attempts, {r})
      /\ s.leases = Del(k.leases, {l}) /\ s.runLeases = Del(k.runLeases, {r})
      /\ s.cancelled = k.cancelled \ {r} /\ s.issued = k.issued
  BY DEF Forget, Unleased, QueueInv, KeysTyped, Keys
<1> HIDE DEF s
<1>2. /\ r \in Runs /\ r \in DOMAIN k.runLeases /\ k.runLeases[r] = l
      /\ l \in DOMAIN k.leases /\ k.leases[l] = r /\ r \in DOMAIN k.jobs
      /\ r \notin ToSet(k.pending) /\ r \notin k.delayed
  BY HeldIsLeased
<1>3. /\ DOMAIN s.jobs = DOMAIN k.jobs \ {r} /\ DOMAIN s.attempts = DOMAIN k.attempts \ {r}
      /\ \A x \in DOMAIN s.attempts : s.attempts[x] = k.attempts[x]
      /\ DOMAIN s.leases = DOMAIN k.leases \ {l} /\ DOMAIN s.runLeases = DOMAIN k.runLeases \ {r}
      /\ \A x \in DOMAIN s.leases : s.leases[x] = k.leases[x]
      /\ \A x \in DOMAIN s.runLeases : s.runLeases[x] = k.runLeases[x]
  BY <1>1 DEF Del, Restrict
<1>4. KeysTyped(s)
  BY <1>1, <1>3 DEF QueueInv, KeysTyped
<1>5. OnePlace(s)
  <2>1. OnePlace(k)
    BY DEF QueueInv
  <2>2. /\ DOMAIN s.jobs = DOMAIN k.jobs \ {r} /\ s.delayed = k.delayed /\ s.pending = k.pending
        /\ DOMAIN s.runLeases = DOMAIN k.runLeases \ {r} /\ s.cancelled = k.cancelled \ {r}
    BY <1>1, <1>3
  <2> HIDE DEF Keys
  <2> QED
    BY <1>2, <2>1, <2>2 DEF OnePlace
<1>6. LeasesPaired(s)
  <2>1. \A x \in DOMAIN s.runLeases : Held(s, s.runLeases[x], x)
    <3> SUFFICES ASSUME NEW x \in DOMAIN s.runLeases PROVE Held(s, s.runLeases[x], x)
      OBVIOUS
    <3>1. x \in DOMAIN k.runLeases /\ x # r /\ s.runLeases[x] = k.runLeases[x]
      BY <1>3
    <3>2. k.runLeases[x] \in DOMAIN k.leases /\ k.leases[k.runLeases[x]] = x
      BY <3>1 DEF QueueInv, LeasesPaired, Held
    <3>3. k.runLeases[x] # l
      BY <1>2, <3>1, <3>2
    <3> QED
      BY <1>3, <3>1, <3>2, <3>3 DEF Held
  <2>2. \A x \in DOMAIN s.leases : /\ x \in Nat \ {0} /\ x =< s.issued
                                   /\ s.leases[x] \in DOMAIN s.runLeases
                                   /\ s.runLeases[s.leases[x]] = x
    <3> SUFFICES ASSUME NEW x \in DOMAIN s.leases
                 PROVE  /\ x \in Nat \ {0} /\ x =< s.issued
                        /\ s.leases[x] \in DOMAIN s.runLeases
                        /\ s.runLeases[s.leases[x]] = x
      OBVIOUS
    <3>1. x \in DOMAIN k.leases /\ x # l /\ s.leases[x] = k.leases[x]
      BY <1>3
    <3>2. /\ x \in Nat \ {0} /\ x =< k.issued /\ k.leases[x] \in DOMAIN k.runLeases
          /\ k.runLeases[k.leases[x]] = x
      BY <3>1 DEF QueueInv, LeasesPaired
    <3>3. k.leases[x] # r
      BY <1>2, <3>1, <3>2
    <3> QED
      BY ZenonT(30), <1>1, <1>3, <3>1, <3>2, <3>3
  <2> QED
    BY <2>1, <2>2 DEF LeasesPaired
<1>7. Command(s, r) = Queue!Absent
  BY <1>3 DEF Command, Queue!Absent
<1>8. OthersKept(k, s, {r})
  <2> SUFFICES ASSUME NEW x \in Runs, x # r  PROVE Command(s, x) = Command(k, x)
    BY DEF OthersKept
  <2>1. x \in DOMAIN s.jobs <=> x \in DOMAIN k.jobs
    BY <1>3
  <2>2. x \in DOMAIN k.jobs => s.attempts[x] = k.attempts[x]
    BY <1>3 DEF QueueInv, KeysTyped
  <2>3. x \in DOMAIN s.runLeases <=> x \in DOMAIN k.runLeases
    BY <1>3
  <2>4. x \in DOMAIN k.runLeases => s.runLeases[x] = k.runLeases[x]
    BY <1>3
  <2>5. x \in s.cancelled <=> x \in k.cancelled
    BY <1>1
  <2> QED
    BY <2>1, <2>2, <2>3, <2>4, <2>5 DEF Command
<1> QED
  BY <1>1, <1>3, <1>4, <1>5, <1>6, <1>7, <1>8 DEF QueueInv, s

\* s is k with the command of r given back.
Returned(k, l, r, s) ==
  /\ QueueInv(s)
  /\ DOMAIN s.jobs = DOMAIN k.jobs /\ s.cancelled = k.cancelled
  /\ s.leases = Del(k.leases, {l}) /\ s.issued = k.issued
  /\ Command(s, r) = Queue!Waiting(k.attempts[r] + 1)
  /\ OthersKept(k, s, {r})

\* A released command waits again, with one more delivery (_RELEASE_SCRIPT).
LEMMA ReturnEffect ==
  ASSUME NEW k, QueueInv(k), NEW l, NEW r, Held(k, l, r), r \notin k.cancelled, NEW delay \in BOOLEAN
  PROVE  Returned(k, l, r, ReleaseScript(k, l, r, delay))
<1> DEFINE s == ReleaseScript(k, l, r, delay)
<1>1. /\ DOMAIN s = Keys
      /\ s.pending = (IF delay THEN k.pending ELSE Append(k.pending, r))
      /\ s.delayed = (IF delay THEN k.delayed \cup {r} ELSE k.delayed)
      /\ s.jobs = k.jobs /\ s.attempts = [k.attempts EXCEPT ![r] = @ + 1]
      /\ s.leases = Del(k.leases, {l}) /\ s.runLeases = Del(k.runLeases, {r})
      /\ s.cancelled = k.cancelled /\ s.issued = k.issued
  BY DEF ReleaseScript, Unleased, QueueInv, KeysTyped, Keys
<1> HIDE DEF s
<1>2. /\ r \in Runs /\ r \in DOMAIN k.runLeases /\ k.runLeases[r] = l
      /\ l \in DOMAIN k.leases /\ k.leases[l] = r /\ r \in DOMAIN k.jobs
      /\ r \notin ToSet(k.pending) /\ r \notin k.delayed
  BY HeldIsLeased
<1>3. /\ DOMAIN s.attempts = DOMAIN k.attempts /\ s.attempts[r] = k.attempts[r] + 1
      /\ \A x \in DOMAIN s.attempts : x # r => s.attempts[x] = k.attempts[x]
      /\ DOMAIN s.leases = DOMAIN k.leases \ {l} /\ DOMAIN s.runLeases = DOMAIN k.runLeases \ {r}
      /\ \A x \in DOMAIN s.leases : s.leases[x] = k.leases[x]
      /\ \A x \in DOMAIN s.runLeases : s.runLeases[x] = k.runLeases[x]
  BY <1>1, <1>2 DEF Del, Restrict, QueueInv, KeysTyped
<1>4. /\ s.pending \in Seq(Runs) /\ Distinct(s.pending)
      /\ ToSet(s.pending) = ToSet(k.pending) \cup (IF delay THEN {} ELSE {r})
  <2>1. k.pending \in Seq(Runs) /\ Distinct(k.pending)
    BY DEF QueueInv, KeysTyped
  <2>2. CASE delay
    BY <1>1, <2>1, <2>2
  <2>3. CASE ~delay
    <3>1. s.pending = Append(k.pending, r)
      BY <1>1, <2>3
    <3>2. DOMAIN k.pending = 1 .. Len(k.pending) /\ Len(k.pending) \in Nat
      BY <2>1
    <3>3. /\ s.pending \in Seq(Runs) /\ DOMAIN s.pending = 1 .. Len(k.pending) + 1
          /\ \A i \in 1 .. Len(k.pending) : s.pending[i] = k.pending[i]
          /\ s.pending[Len(k.pending) + 1] = r
      BY <1>2, <2>1, <3>1, AppendProperties
    <3>4. \A i \in 1 .. Len(k.pending) : k.pending[i] # r
      BY <1>2, <3>2 DEF ToSet
    <3>5. Distinct(s.pending)
      BY <2>1, <3>2, <3>3, <3>4, SMTT(30) DEF Distinct
    <3>6. ToSet(s.pending) = ToSet(k.pending) \cup {r}
      BY <3>2, <3>3, SMTT(30) DEF ToSet
    <3> QED
      BY <2>3, <3>3, <3>5, <3>6
  <2> QED
    BY <2>2, <2>3
<1>5. IsFiniteSet(s.delayed)
  <2>1. IsFiniteSet(k.delayed)
    BY DEF QueueInv, KeysTyped
  <2>2. IsFiniteSet(k.delayed \cup {r})
    BY <2>1, FS_AddElement
  <2> QED
    BY <1>1, <2>1, <2>2
<1>6. \A x \in DOMAIN s.attempts : s.attempts[x] \in Nat
  BY <1>2, <1>3 DEF QueueInv, KeysTyped
<1>7. KeysTyped(s)
  BY <1>1, <1>3, <1>4, <1>5, <1>6 DEF QueueInv, KeysTyped
<1>8. OnePlace(s)
  <2>1. OnePlace(k)
    BY DEF QueueInv
  <2>2. /\ DOMAIN s.jobs = DOMAIN k.jobs /\ s.cancelled = k.cancelled
        /\ DOMAIN s.runLeases = DOMAIN k.runLeases \ {r}
    BY <1>1, <1>3
  <2>3. CASE delay
    <3>1. s.delayed = k.delayed \cup {r} /\ ToSet(s.pending) = ToSet(k.pending)
      BY <1>1, <1>4, <2>3
    <3> QED
      BY <1>2, <2>1, <2>2, <3>1 DEF OnePlace
  <2>4. CASE ~delay
    <3>1. s.delayed = k.delayed /\ ToSet(s.pending) = ToSet(k.pending) \cup {r}
      BY <1>1, <1>4, <2>4
    <3> QED
      BY <1>2, <2>1, <2>2, <3>1 DEF OnePlace
  <2> QED
    BY <2>3, <2>4
<1>9. LeasesPaired(s)
  <2>1. \A x \in DOMAIN s.runLeases : Held(s, s.runLeases[x], x)
    <3> SUFFICES ASSUME NEW x \in DOMAIN s.runLeases PROVE Held(s, s.runLeases[x], x)
      OBVIOUS
    <3>1. x \in DOMAIN k.runLeases /\ x # r /\ s.runLeases[x] = k.runLeases[x]
      BY <1>3
    <3>2. k.runLeases[x] \in DOMAIN k.leases /\ k.leases[k.runLeases[x]] = x
      BY <3>1 DEF QueueInv, LeasesPaired, Held
    <3>3. k.runLeases[x] # l
      BY <1>2, <3>1, <3>2
    <3> QED
      BY <1>3, <3>1, <3>2, <3>3 DEF Held
  <2>2. \A x \in DOMAIN s.leases : /\ x \in Nat \ {0} /\ x =< s.issued
                                   /\ s.leases[x] \in DOMAIN s.runLeases
                                   /\ s.runLeases[s.leases[x]] = x
    <3> SUFFICES ASSUME NEW x \in DOMAIN s.leases
                 PROVE  /\ x \in Nat \ {0} /\ x =< s.issued
                        /\ s.leases[x] \in DOMAIN s.runLeases
                        /\ s.runLeases[s.leases[x]] = x
      OBVIOUS
    <3>1. x \in DOMAIN k.leases /\ x # l /\ s.leases[x] = k.leases[x]
      BY <1>3
    <3>2. /\ x \in Nat \ {0} /\ x =< k.issued /\ k.leases[x] \in DOMAIN k.runLeases
          /\ k.runLeases[k.leases[x]] = x
      BY <3>1 DEF QueueInv, LeasesPaired
    <3>3. k.leases[x] # r
      BY <1>2, <3>1, <3>2
    <3> QED
      BY <1>1, <1>3, <3>1, <3>2, <3>3, ZenonT(30)
  <2> QED
    BY <2>1, <2>2 DEF LeasesPaired
<1>10. Command(s, r) = Queue!Waiting(k.attempts[r] + 1)
  BY <1>1, <1>2, <1>3 DEF Command, Queue!Waiting
<1>11. OthersKept(k, s, {r})
  <2> SUFFICES ASSUME NEW x \in Runs, x # r  PROVE Command(s, x) = Command(k, x)
    BY DEF OthersKept
  <2>1. x \in DOMAIN k.jobs => s.attempts[x] = k.attempts[x]
    BY <1>3 DEF QueueInv, KeysTyped
  <2>2. x \in DOMAIN s.runLeases <=> x \in DOMAIN k.runLeases
    BY <1>3
  <2>3. x \in DOMAIN k.runLeases => s.runLeases[x] = k.runLeases[x]
    BY <1>3
  <2> QED
    BY <1>1, <2>1, <2>2, <2>3 DEF Command
<1>12. Returned(k, l, r, s)
  BY <1>1, <1>7, <1>8, <1>9, <1>10, <1>11 DEF QueueInv, Returned
<1> QED
  BY <1>12 DEF s

\* Two lists without duplicates and nothing in common, one after the other.
LEMMA ConcatIsUnion ==
  ASSUME NEW T, NEW s \in Seq(T), NEW t \in Seq(T), Distinct(s), Distinct(t),
         ToSet(s) \cap ToSet(t) = {}
  PROVE  /\ s \o t \in Seq(T) /\ Distinct(s \o t)
         /\ ToSet(s \o t) = ToSet(s) \cup ToSet(t)
<1> DEFINE u == s \o t
<1>1. /\ u \in Seq(T) /\ DOMAIN u = 1 .. Len(s) + Len(t)
      /\ \A i \in 1 .. Len(s) + Len(t) : u[i] = IF i =< Len(s) THEN s[i] ELSE t[i - Len(s)]
  BY ConcatProperties
<1> HIDE DEF u
<1>2. /\ Len(s) \in Nat /\ Len(t) \in Nat
      /\ DOMAIN s = 1 .. Len(s) /\ DOMAIN t = 1 .. Len(t)
  OBVIOUS
<1>3. \A i \in 1 .. Len(s), j \in 1 .. Len(t) : s[i] # t[j]
  BY <1>2 DEF ToSet
<1>4. \A i \in 1 .. Len(s) : i \in DOMAIN u /\ u[i] = s[i]
  BY <1>1, <1>2
<1>5. \A i \in DOMAIN u : ~ (i =< Len(s)) => i - Len(s) \in 1 .. Len(t) /\ u[i] = t[i - Len(s)]
  BY <1>1, <1>2
<1>6. Distinct(u)
  <2> SUFFICES ASSUME NEW i \in DOMAIN u, NEW j \in DOMAIN u, u[i] = u[j]  PROVE i = j
    BY DEF Distinct
  <2>0. i \in Nat \ {0} /\ j \in Nat \ {0}
    BY <1>1, <1>2
  <2>1. CASE i =< Len(s) /\ j =< Len(s)
    BY <1>2, <1>4, <2>0, <2>1 DEF Distinct
  <2>2. CASE ~ (i =< Len(s)) /\ ~ (j =< Len(s))
    <3>1. i - Len(s) = j - Len(s)
      BY <1>2, <1>5, <2>2 DEF Distinct
    <3> QED
      BY <1>2, <2>0, <3>1
  <2>3. CASE i =< Len(s) /\ ~ (j =< Len(s))
    BY <1>2, <1>3, <1>4, <1>5, <2>0, <2>3
  <2>4. CASE ~ (i =< Len(s)) /\ j =< Len(s)
    BY <1>2, <1>3, <1>4, <1>5, <2>0, <2>4
  <2> QED
    BY <2>1, <2>2, <2>3, <2>4
<1>7. ToSet(u) \subseteq ToSet(s) \cup ToSet(t)
  <2> SUFFICES ASSUME NEW i \in DOMAIN u PROVE u[i] \in ToSet(s) \cup ToSet(t)
    BY DEF ToSet
  <2>1. CASE i =< Len(s)
    BY <1>1, <1>2, <1>4, <2>1 DEF ToSet
  <2>2. CASE ~ (i =< Len(s))
    BY <1>2, <1>5, <2>2 DEF ToSet
  <2> QED
    BY <2>1, <2>2
<1>8. ToSet(s) \subseteq ToSet(u)
  BY <1>2, <1>4 DEF ToSet
<1>9. ToSet(t) \subseteq ToSet(u)
  <2> SUFFICES ASSUME NEW j \in 1 .. Len(t) PROVE \E i \in DOMAIN u : u[i] = t[j]
    BY <1>2 DEF ToSet
  <2>1. Len(s) + j \in DOMAIN u /\ u[Len(s) + j] = t[j]
    BY <1>1, <1>2
  <2> QED
    BY <2>1
<1> QED
  BY <1>1, <1>6, <1>7, <1>8, <1>9 DEF u

\* The due commands move from the delayed set to the list; nobody sees a change.
Ripened(k, ripe) == [k EXCEPT !.delayed = @ \ ripe, !.pending = @ \o SetToSeq(ripe)]

LEMMA RipenEffect ==
  ASSUME NEW k, QueueInv(k), NEW ripe \in SUBSET k.delayed
  PROVE  LET s == Ripened(k, ripe) IN
         /\ QueueInv(s)
         /\ s.jobs = k.jobs /\ s.attempts = k.attempts /\ s.cancelled = k.cancelled
         /\ s.leases = k.leases /\ s.runLeases = k.runLeases /\ s.issued = k.issued
         /\ OthersKept(k, s, {})
<1> DEFINE s == Ripened(k, ripe)
           due == SetToSeq(ripe)
<1>1. /\ DOMAIN s = Keys
      /\ s.pending = k.pending \o due /\ s.delayed = k.delayed \ ripe
      /\ s.jobs = k.jobs /\ s.attempts = k.attempts /\ s.cancelled = k.cancelled
      /\ s.leases = k.leases /\ s.runLeases = k.runLeases /\ s.issued = k.issued
  BY DEF Ripened, QueueInv, KeysTyped, Keys
<1> HIDE DEF s
<1>2. IsFiniteSet(k.delayed) /\ k.delayed \subseteq Runs /\ ToSet(k.pending) \cap k.delayed = {}
  BY DEF QueueInv, KeysTyped, OnePlace
<1>3. IsFiniteSet(ripe) /\ IsFiniteSet(k.delayed \ ripe)
  <2>1. ripe \in SUBSET k.delayed /\ k.delayed \ ripe \in SUBSET k.delayed
    OBVIOUS
  <2> QED
    BY <1>2, <2>1, FS_Subset
<1>4. due \in Seq(ripe) /\ ToSet(due) = ripe /\ Distinct(due)
  BY <1>3, SetToSeqIsOneToOne DEF Distinct
<1> HIDE DEF due
<1>5. due \in Seq(Runs)
  BY <1>2, <1>4, SeqMonotonic
<1>6. k.pending \in Seq(Runs) /\ Distinct(k.pending)
  BY DEF QueueInv, KeysTyped
<1>7. /\ s.pending \in Seq(Runs) /\ Distinct(s.pending)
      /\ ToSet(s.pending) = ToSet(k.pending) \cup ripe
  BY <1>1, <1>2, <1>4, <1>5, <1>6, ConcatIsUnion
<1>8. KeysTyped(s)
  BY <1>1, <1>3, <1>7 DEF QueueInv, KeysTyped
<1>9. OnePlace(s)
  BY <1>1, <1>7 DEF QueueInv, OnePlace
<1>10. LeasesPaired(s)
  BY <1>1 DEF QueueInv, LeasesPaired, Held
<1>11. OthersKept(k, s, {})
  BY <1>1 DEF OthersKept, Command
<1> QED
  BY <1>1, <1>8, <1>9, <1>10, <1>11 DEF QueueInv, s

\* The commands of expired leases come back with one more delivery, those
\* asked to be cancelled go (_LEASE_SCRIPT).
LEMMA ReclaimEffect ==
  ASSUME NEW k, QueueInv(k), NEW late \in SUBSET DOMAIN k.leases
  PROVE  LET s == Reclaim(k, late)
             R == RunsOf(k, late)
         IN
         /\ QueueInv(s)
         /\ R \subseteq Runs
         /\ DOMAIN s.jobs = DOMAIN k.jobs \ (R \cap k.cancelled)
         /\ s.cancelled = k.cancelled \ R
         /\ s.leases = Del(k.leases, late) /\ s.issued = k.issued
         /\ \A r \in R : /\ Command(k, r).phase = IF r \in k.cancelled THEN "doomed" ELSE "held"
                         /\ Command(s, r) = IF r \in k.cancelled THEN Queue!Absent
                                            ELSE Queue!Waiting(Command(k, r).attempt + 1)
         /\ OthersKept(k, s, R)
<1> DEFINE s == Reclaim(k, late)
           R == RunsOf(k, late)
           C == R \cap k.cancelled
           live == {l \in late : k.leases[l] \notin k.cancelled}
           ids == Descending(live)
           back == Returning(k, late)
<1>1. /\ DOMAIN s = Keys
      /\ s.pending = back \o k.pending /\ s.delayed = k.delayed
      /\ s.jobs = Del(k.jobs, C)
      /\ s.attempts = [r \in DOMAIN Del(k.attempts, C) |->
                         IF r \in ToSet(back) THEN Del(k.attempts, C)[r] + 1 ELSE Del(k.attempts, C)[r]]
      /\ s.leases = Del(k.leases, late) /\ s.runLeases = Del(k.runLeases, R)
      /\ s.cancelled = k.cancelled \ C /\ s.issued = k.issued
  BY DEF Reclaim, Forget, QueueInv, KeysTyped, Keys
<1>2. back = [i \in DOMAIN ids |-> k.leases[ids[i]]]
  BY DEF Returning
<1> HIDE DEF s, back
<1>3. \A l \in DOMAIN k.leases :
        /\ l \in Nat \ {0} /\ l =< k.issued /\ k.leases[l] \in DOMAIN k.runLeases
        /\ k.runLeases[k.leases[l]] = l
  BY DEF QueueInv, LeasesPaired
<1>4. /\ OnePlace(k) /\ k.issued \in Nat /\ DOMAIN k.jobs \subseteq Runs /\ DOMAIN k.attempts = DOMAIN k.jobs
      /\ k.pending \in Seq(Runs) /\ Distinct(k.pending)
      /\ \A r \in DOMAIN k.attempts : k.attempts[r] \in Nat
  BY DEF QueueInv, KeysTyped
<1>5. DOMAIN k.runLeases \subseteq Runs
  BY <1>4 DEF OnePlace
<1>6. live \in SUBSET Nat /\ IsFiniteSet(live)
  <2>1. live \in SUBSET Nat
    BY <1>3
  <2>2. \A l \in live : l =< k.issued
    BY <1>3
  <2> QED
    BY <1>4, <2>1, <2>2, FS_BoundedSetOfNaturals
<1>7. ids \in Seq(live) /\ ToSet(ids) = live /\ Distinct(ids)
  BY <1>6, DescendingIsOneToOne DEF Distinct
<1> HIDE DEF ids
<1>8. DOMAIN ids = 1 .. Len(ids) /\ Len(ids) \in Nat /\ \A i \in DOMAIN ids : ids[i] \in live
  BY <1>7 DEF ToSet
<1>9. /\ R \subseteq DOMAIN k.runLeases /\ R \subseteq Runs
      /\ \A r \in R : k.runLeases[r] \in late
      /\ \A r \in DOMAIN k.runLeases \ R : k.runLeases[r] \notin late
  <2>1. R \subseteq DOMAIN k.runLeases
    BY <1>3 DEF RunsOf
  <2>2. \A r \in R : k.runLeases[r] \in late
    BY <1>3 DEF RunsOf
  <2>3. \A r \in DOMAIN k.runLeases \ R : k.runLeases[r] \notin late
    <3> SUFFICES ASSUME NEW r \in DOMAIN k.runLeases, k.runLeases[r] \in late PROVE r \in R
      OBVIOUS
    <3>1. k.leases[k.runLeases[r]] = r
      BY DEF QueueInv, LeasesPaired, Held
    <3> QED
      BY <3>1 DEF RunsOf
  <2> QED
    BY <1>5, <2>1, <2>2, <2>3
<1>10. /\ back \in Seq(Runs) /\ Distinct(back) /\ ToSet(back) = R \ k.cancelled
  <2>1. DOMAIN back = 1 .. Len(ids) /\ \A i \in 1 .. Len(ids) : back[i] = k.leases[ids[i]]
    BY <1>2, <1>8
  <2>2. \A i \in 1 .. Len(ids) : back[i] \in R \ k.cancelled
    BY <1>8, <2>1 DEF RunsOf
  <2>3. back \in Seq(Runs)
    <3>1. back \in [1 .. Len(ids) -> Runs]
      <4>1. back = [i \in 1 .. Len(ids) |-> k.leases[ids[i]]]
        BY <1>2, <1>8
      <4>2. \A i \in 1 .. Len(ids) : k.leases[ids[i]] \in Runs
        BY <1>9, <2>1, <2>2
      <4> QED
        BY <4>1, <4>2
    <3> QED
      BY <1>8, <3>1
  <2>4. Distinct(back)
    <3> SUFFICES ASSUME NEW i \in 1 .. Len(ids), NEW j \in 1 .. Len(ids), back[i] = back[j]  PROVE i = j
      BY <2>1 DEF Distinct
    <3>1. ids[i] \in DOMAIN k.leases /\ ids[j] \in DOMAIN k.leases /\ k.leases[ids[i]] = k.leases[ids[j]]
      BY <1>8, <2>1
    <3>2. ids[i] = ids[j]
      BY <1>3, <3>1
    <3> QED
      BY <1>7, <1>8, <3>2 DEF Distinct
  <2>5. R \ k.cancelled \subseteq ToSet(back)
    <3> SUFFICES ASSUME NEW l \in live PROVE \E i \in DOMAIN back : back[i] = k.leases[l]
      BY DEF RunsOf, ToSet
    <3>1. PICK i \in DOMAIN ids : ids[i] = l
      BY <1>7 DEF ToSet
    <3> QED
      BY <1>8, <2>1, <3>1
  <2>6. ToSet(back) \subseteq R \ k.cancelled
    BY <2>1, <2>2 DEF ToSet
  <2> QED
    BY <2>3, <2>4, <2>5, <2>6
<1> HIDE DEF R, live
<1>11. /\ s.pending \in Seq(Runs) /\ Distinct(s.pending)
       /\ ToSet(s.pending) = (R \ k.cancelled) \cup ToSet(k.pending)
  <2>1. ToSet(back) \cap ToSet(k.pending) = {}
    BY <1>4, <1>9, <1>10 DEF OnePlace
  <2> QED
    BY <1>1, <1>4, <1>10, <2>1, ConcatIsUnion
<1>12. /\ DOMAIN s.jobs = DOMAIN k.jobs \ C /\ DOMAIN s.attempts = DOMAIN k.attempts \ C
       /\ \A x \in DOMAIN s.attempts :
            s.attempts[x] = IF x \in R \ k.cancelled THEN k.attempts[x] + 1 ELSE k.attempts[x]
       /\ DOMAIN s.leases = DOMAIN k.leases \ late /\ DOMAIN s.runLeases = DOMAIN k.runLeases \ R
       /\ \A x \in DOMAIN s.leases : s.leases[x] = k.leases[x]
       /\ \A x \in DOMAIN s.runLeases : s.runLeases[x] = k.runLeases[x]
       /\ s.cancelled = k.cancelled \ R
  BY <1>1, <1>10 DEF Del, Restrict
<1>13. KeysTyped(s)
  <2>1. \A x \in DOMAIN s.attempts : s.attempts[x] \in Nat
    BY <1>4, <1>12
  <2>2. DOMAIN s.jobs \subseteq Runs /\ DOMAIN s.attempts = DOMAIN s.jobs
    BY <1>4, <1>12
  <2>3. IsFiniteSet(s.delayed) /\ s.issued \in Nat
    BY <1>1 DEF QueueInv, KeysTyped
  <2> QED
    BY <1>1, <1>11, <2>1, <2>2, <2>3 DEF KeysTyped
<1>14. OnePlace(s)
  <2>1. s.delayed = k.delayed
    BY <1>1
  <2>2. k.cancelled \cap ToSet(k.pending) = {} /\ k.cancelled \cap k.delayed = {}
    BY <1>4 DEF OnePlace
  <2> QED
    BY <1>4, <1>9, <1>11, <1>12, <2>1, <2>2 DEF OnePlace
<1>15. LeasesPaired(s)
  <2>1. \A x \in DOMAIN s.runLeases : Held(s, s.runLeases[x], x)
    <3> SUFFICES ASSUME NEW x \in DOMAIN s.runLeases PROVE Held(s, s.runLeases[x], x)
      OBVIOUS
    <3>1. x \in DOMAIN k.runLeases /\ x \notin R /\ s.runLeases[x] = k.runLeases[x]
      BY <1>12
    <3>2. k.runLeases[x] \in DOMAIN k.leases /\ k.leases[k.runLeases[x]] = x
      BY <3>1 DEF QueueInv, LeasesPaired, Held
    <3>3. k.runLeases[x] \notin late
      BY <1>9, <3>1
    <3> QED
      BY <1>12, <3>1, <3>2, <3>3 DEF Held
  <2>2. \A x \in DOMAIN s.leases : /\ x \in Nat \ {0} /\ x =< s.issued
                                   /\ s.leases[x] \in DOMAIN s.runLeases
                                   /\ s.runLeases[s.leases[x]] = x
    <3> SUFFICES ASSUME NEW x \in DOMAIN s.leases
                 PROVE  /\ x \in Nat \ {0} /\ x =< s.issued
                        /\ s.leases[x] \in DOMAIN s.runLeases
                        /\ s.runLeases[s.leases[x]] = x
      OBVIOUS
    <3>1. x \in DOMAIN k.leases /\ x \notin late /\ s.leases[x] = k.leases[x]
      BY <1>12
    <3>2. k.leases[x] \notin R
      BY <1>3, <1>9, <3>1
    <3> QED
      BY <1>1, <1>3, <1>12, <3>1, <3>2
  <2> QED
    BY <2>1, <2>2 DEF LeasesPaired
<1>16. ASSUME NEW r \in R
       PROVE  /\ Command(k, r).phase = IF r \in k.cancelled THEN "doomed" ELSE "held"
              /\ Command(s, r) = IF r \in k.cancelled THEN Queue!Absent
                                 ELSE Queue!Waiting(Command(k, r).attempt + 1)
  <2>1. r \in DOMAIN k.runLeases /\ r \in DOMAIN k.jobs
    BY <1>4, <1>9, <1>16 DEF OnePlace
  <2>2. Command(k, r) = [phase |-> IF r \in k.cancelled THEN "doomed" ELSE "held",
                         lease |-> k.runLeases[r], attempt |-> k.attempts[r]]
    BY <2>1 DEF Command
  <2>3. CASE r \in k.cancelled
    BY <1>12, <1>16, <2>2, <2>3 DEF Command, Queue!Absent
  <2>4. CASE r \notin k.cancelled
    <3>1. r \in DOMAIN s.jobs /\ r \notin DOMAIN s.runLeases /\ s.attempts[r] = k.attempts[r] + 1
      BY <1>4, <1>12, <1>16, <2>1, <2>4
    <3>2. Command(s, r) = Queue!Waiting(k.attempts[r] + 1)
      BY <3>1 DEF Command, Queue!Waiting
    <3> QED
      BY <2>2, <2>4, <3>2
  <2> QED
    BY <2>3, <2>4
<1>17. OthersKept(k, s, R)
  <2> SUFFICES ASSUME NEW x \in Runs, x \notin R  PROVE Command(s, x) = Command(k, x)
    BY DEF OthersKept
  <2>1. x \in DOMAIN s.jobs <=> x \in DOMAIN k.jobs
    BY <1>12
  <2>2. x \in DOMAIN k.jobs => s.attempts[x] = k.attempts[x]
    BY <1>4, <1>12
  <2>3. x \in DOMAIN s.runLeases <=> x \in DOMAIN k.runLeases
    BY <1>12
  <2>4. x \in DOMAIN k.runLeases => s.runLeases[x] = k.runLeases[x]
    BY <1>12
  <2>5. x \in s.cancelled <=> x \in k.cancelled
    BY <1>12
  <2> QED
    BY <2>1, <2>2, <2>3, <2>4, <2>5 DEF Command
<1> QED
  BY <1>1, <1>9, <1>12, <1>13, <1>14, <1>15, <1>16, <1>17 DEF QueueInv, s, R

\* Every command of the list can be taken, so LEASE skips none.
LEMMA NothingSkipped ==
  ASSUME NEW k, QueueInv(k)
  PROVE  /\ DOMAIN Popped(k) = Keys
         /\ Popped(k).pending = k.pending /\ Popped(k).delayed = k.delayed
         /\ DOMAIN Popped(k).jobs = DOMAIN k.jobs /\ DOMAIN Popped(k).attempts = DOMAIN k.attempts
         /\ \A x \in DOMAIN k.attempts : Popped(k).attempts[x] = k.attempts[x]
         /\ Popped(k).leases = k.leases /\ Popped(k).runLeases = k.runLeases
         /\ Popped(k).cancelled = k.cancelled /\ Popped(k).issued = k.issued
<1> DEFINE fit(i) == k.pending[i] \in DOMAIN k.jobs \ k.cancelled
           n == Cardinality({i \in DOMAIN k.pending : \A j \in 1 .. i : ~fit(j)})
           skipped == {k.pending[i] : i \in 1 .. n}
           gone == skipped \cap k.cancelled
<1>1. k.pending \in Seq(Runs) /\ DOMAIN k.pending = 1 .. Len(k.pending) /\ Len(k.pending) \in Nat
  BY DEF QueueInv, KeysTyped
<1>2. \A i \in DOMAIN k.pending : fit(i)
  BY DEF QueueInv, OnePlace, ToSet
<1>3. {i \in DOMAIN k.pending : \A j \in 1 .. i : ~fit(j)} = {}
  <2> SUFFICES ASSUME NEW i \in DOMAIN k.pending, \A j \in 1 .. i : ~fit(j)  PROVE FALSE
    OBVIOUS
  <2>1. i \in 1 .. i
    BY <1>1
  <2> QED
    BY <1>2, <2>1
<1>4. n = 0
  BY <1>3, FS_EmptySet
<1>5. gone = {}
  <2>1. 1 .. n = {}
    BY <1>4, SMTT(30)
  <2> QED
    BY <2>1
<1> DEFINE s == Popped(k)
<1>6. /\ DOMAIN s = Keys
      /\ s.pending = SubSeq(k.pending, n + 1, Len(k.pending)) /\ s.delayed = k.delayed
      /\ s.jobs = Del(k.jobs, gone) /\ s.attempts = Del(k.attempts, gone)
      /\ s.leases = k.leases /\ s.runLeases = k.runLeases
      /\ s.cancelled = k.cancelled \ gone /\ s.issued = k.issued
  BY DEF Popped, Forget, QueueInv, KeysTyped, Keys
<1> HIDE DEF s, n, gone
<1>7. SubSeq(k.pending, 1, Len(k.pending)) = k.pending
  BY <1>1, SubSeqFull
<1>8. s.pending = k.pending
  BY <1>4, <1>6, <1>7
<1>9. /\ DOMAIN s.jobs = DOMAIN k.jobs /\ DOMAIN s.attempts = DOMAIN k.attempts
      /\ \A x \in DOMAIN k.attempts : s.attempts[x] = k.attempts[x]
  BY <1>5, <1>6 DEF Del, Restrict
<1> QED
  BY <1>5, <1>6, <1>8, <1>9 DEF s

\* What an expired lease leaves of a command: nothing if it is to be
\* cancelled, else one that waits for another delivery.
Given(k, R, x) ==
  IF x \notin R THEN Command(k, x)
  ELSE IF x \in k.cancelled THEN Queue!Absent
  ELSE Queue!Waiting(Command(k, x).attempt + 1)

\* What LEASE has to hand out from: p is what is left of k.
Reclaimed(k, late, p) ==
  LET R == RunsOf(k, late) IN
  /\ QueueInv(p)
  /\ R \subseteq Runs
  /\ DOMAIN p.jobs = DOMAIN k.jobs \ (R \cap k.cancelled)
  /\ p.cancelled = k.cancelled \ R
  /\ p.leases = Del(k.leases, late) /\ p.issued = k.issued
  /\ \A r \in R : Command(k, r).phase = IF r \in k.cancelled THEN "doomed" ELSE "held"
  /\ \A x \in Runs : Command(p, x) = Given(k, R, x)

LEMMA ReadyEffect ==
  ASSUME NEW k, QueueInv(k), NEW ripe \in SUBSET k.delayed, NEW late \in SUBSET DOMAIN k.leases
  PROVE  Reclaimed(k, late, Popped(Ready(k, ripe, late)))
<1> DEFINE m == Ripened(k, ripe)
           s == Reclaim(m, late)
           p == Popped(s)
           R == RunsOf(k, late)
<1>1. Ready(k, ripe, late) = s
  BY DEF Ready, Ripened
<1> HIDE DEF m
<1>2. /\ QueueInv(m)
      /\ m.jobs = k.jobs /\ m.attempts = k.attempts /\ m.cancelled = k.cancelled
      /\ m.leases = k.leases /\ m.runLeases = k.runLeases /\ m.issued = k.issued
      /\ \A x \in Runs : Command(m, x) = Command(k, x)
  BY RipenEffect DEF m, OthersKept
<1>3. RunsOf(m, late) = R
  BY <1>2 DEF RunsOf
<1>4. late \in SUBSET DOMAIN m.leases
  BY <1>2
<1> HIDE DEF s, R
<1>5. /\ QueueInv(s)
      /\ R \subseteq Runs
      /\ DOMAIN s.jobs = DOMAIN m.jobs \ (R \cap m.cancelled)
      /\ s.cancelled = m.cancelled \ R
      /\ s.leases = Del(m.leases, late) /\ s.issued = m.issued
      /\ \A r \in R : /\ Command(m, r).phase = IF r \in m.cancelled THEN "doomed" ELSE "held"
                      /\ Command(s, r) = IF r \in m.cancelled THEN Queue!Absent
                                         ELSE Queue!Waiting(Command(m, r).attempt + 1)
      /\ OthersKept(m, s, R)
  BY <1>2, <1>3, <1>4, ReclaimEffect DEF s
<1>6. \A x \in Runs : Command(s, x) = Given(k, R, x)
  BY <1>2, <1>5 DEF OthersKept, Given
<1> HIDE DEF p
<1>7. /\ DOMAIN p = Keys
      /\ p.pending = s.pending /\ p.delayed = s.delayed
      /\ DOMAIN p.jobs = DOMAIN s.jobs /\ DOMAIN p.attempts = DOMAIN s.attempts
      /\ \A x \in DOMAIN s.attempts : p.attempts[x] = s.attempts[x]
      /\ p.leases = s.leases /\ p.runLeases = s.runLeases
      /\ p.cancelled = s.cancelled /\ p.issued = s.issued
  BY <1>5, NothingSkipped DEF p
<1>8. KeysTyped(p)
  BY <1>5, <1>7 DEF QueueInv, KeysTyped
<1>9. OnePlace(p)
  BY <1>5, <1>7 DEF QueueInv, OnePlace
<1>10. LeasesPaired(p)
  BY <1>5, <1>7 DEF QueueInv, LeasesPaired, Held
<1>11. \A x \in Runs : Command(p, x) = Command(s, x)
  <2> SUFFICES ASSUME NEW x \in Runs PROVE Command(p, x) = Command(s, x)
    OBVIOUS
  <2>1. x \in DOMAIN s.jobs => p.attempts[x] = s.attempts[x]
    BY <1>5, <1>7 DEF QueueInv, KeysTyped
  <2> QED
    BY <1>7, <2>1 DEF Command
<1>12. p = Popped(Ready(k, ripe, late))
  BY <1>1 DEF p
<1>13. /\ DOMAIN p.jobs = DOMAIN k.jobs \ (R \cap k.cancelled) /\ p.cancelled = k.cancelled \ R
       /\ p.leases = Del(k.leases, late) /\ p.issued = k.issued
       /\ \A r \in R : Command(k, r).phase = IF r \in k.cancelled THEN "doomed" ELSE "held"
  <2>1. \A r \in R : Command(m, r) = Command(k, r)
    BY <1>2, <1>5
  <2> QED
    BY <1>2, <1>5, <1>7, <2>1
<1> QED
  BY <1>5, <1>6, <1>8, <1>9, <1>10, <1>11, <1>12, <1>13 DEF QueueInv, Reclaimed, R

\* s is k after LEASE: what late left, and perhaps a new lease.
LeasedOut(k, late, s) ==
  LET R == RunsOf(k, late) IN
  /\ QueueInv(s)
  /\ R \subseteq Runs
  /\ DOMAIN s.jobs = DOMAIN k.jobs \ (R \cap k.cancelled)
  /\ s.cancelled = k.cancelled \ R
  /\ \A r \in R : Command(k, r).phase = IF r \in k.cancelled THEN "doomed" ELSE "held"
  /\ \/ /\ s.issued = k.issued /\ s.leases = Del(k.leases, late)
        /\ \A x \in Runs : Command(s, x) = Given(k, R, x)
     \/ \E h \in Runs :
          /\ s.issued = k.issued + 1
          /\ s.leases = Put(Del(k.leases, late), k.issued + 1, h)
          /\ h \in DOMAIN s.jobs
          /\ Given(k, R, h).phase = "waiting"
          /\ Command(s, h) = [phase |-> "held", lease |-> k.issued + 1,
                              attempt |-> Given(k, R, h).attempt]
          /\ \A x \in Runs \ {h} : Command(s, x) = Given(k, R, x)

\* LEASE takes back what is late and hands out the first command of the list
\* under a lease_id nobody has (_LEASE_SCRIPT).
LEMMA LeaseEffect ==
  ASSUME NEW k, QueueInv(k), NEW ripe \in SUBSET k.delayed, NEW late \in SUBSET DOMAIN k.leases
  PROVE  LeasedOut(k, late, LeaseScript(k, ripe, late))
<1> DEFINE p == Popped(Ready(k, ripe, late))
           s == LeaseScript(k, ripe, late)
           R == RunsOf(k, late)
<1>1. s = IF p.pending = <<>> THEN p
          ELSE [p EXCEPT !.pending = Tail(@), !.issued = @ + 1,
                         !.leases = Put(@, p.issued + 1, Head(p.pending)),
                         !.runLeases = Put(@, Head(p.pending), p.issued + 1)]
  BY DEF LeaseScript
<1> HIDE DEF p, R
<1>2. /\ QueueInv(p)
      /\ R \subseteq Runs
      /\ DOMAIN p.jobs = DOMAIN k.jobs \ (R \cap k.cancelled)
      /\ p.cancelled = k.cancelled \ R
      /\ p.leases = Del(k.leases, late) /\ p.issued = k.issued
      /\ \A r \in R : Command(k, r).phase = IF r \in k.cancelled THEN "doomed" ELSE "held"
      /\ \A x \in Runs : Command(p, x) = Given(k, R, x)
  <2>1. Reclaimed(k, late, p)
    BY ReadyEffect DEF p
  <2> QED
    BY <2>1 DEF Reclaimed, R
<1> HIDE DEF s
<1>3. ASSUME p.pending = <<>> PROVE LeasedOut(k, late, s)
  <2>1. s = p
    BY <1>1, <1>3
  <2> QED
    BY <1>2, <2>1 DEF LeasedOut, R
<1>4. ASSUME p.pending # <<>> PROVE LeasedOut(k, late, s)
  <2> DEFINE h == Head(p.pending)
             n == k.issued + 1
  <2>1. /\ DOMAIN s = Keys
        /\ s.pending = Tail(p.pending) /\ s.delayed = p.delayed
        /\ s.jobs = p.jobs /\ s.attempts = p.attempts
        /\ s.leases = Put(p.leases, n, h) /\ s.runLeases = Put(p.runLeases, h, n)
        /\ s.cancelled = p.cancelled /\ s.issued = n
    BY <1>1, <1>2, <1>4 DEF QueueInv, KeysTyped, Keys
  <2>2. p.pending \in Seq(Runs) /\ Distinct(p.pending) /\ DOMAIN p.pending = 1 .. Len(p.pending)
    BY <1>2 DEF QueueInv, KeysTyped
  <2>3. Len(p.pending) \in Nat \ {0} /\ h = p.pending[1]
    BY <1>4, <2>2
  <2>4. /\ s.pending \in Seq(Runs) /\ DOMAIN s.pending = 1 .. Len(p.pending) - 1
        /\ \A i \in 1 .. Len(p.pending) - 1 : s.pending[i] = p.pending[i + 1]
    BY <1>4, <2>1, <2>2, HeadTailProperties
  <2> HIDE DEF h, n
  <2>5. h \in ToSet(p.pending) /\ h \in Runs
    BY <2>2, <2>3 DEF ToSet
  <2>6. Distinct(s.pending) /\ ToSet(s.pending) = ToSet(p.pending) \ {h}
    <3>1. \A i \in 1 .. Len(p.pending) - 1 : i + 1 \in DOMAIN p.pending /\ i + 1 # 1
      BY <2>2, <2>3
    <3>2. Distinct(s.pending)
      <4> SUFFICES ASSUME NEW i \in 1 .. Len(p.pending) - 1, NEW j \in 1 .. Len(p.pending) - 1,
                          s.pending[i] = s.pending[j]
                   PROVE  i = j
        BY <2>4 DEF Distinct
      <4>1. i + 1 = j + 1
        BY <2>2, <2>4, <3>1 DEF Distinct
      <4> QED
        BY <2>3, <4>1
    <3>0. 1 \in DOMAIN p.pending
      BY <2>2, <2>3
    <3>3. \A i \in 1 .. Len(p.pending) - 1 : s.pending[i] # h
      <4> TAKE i \in 1 .. Len(p.pending) - 1
      <4>1. p.pending[i + 1] # p.pending[1]
        BY <2>2, <3>0, <3>1 DEF Distinct
      <4> QED
        BY <2>3, <2>4, <4>1
    <3>4. ToSet(s.pending) \subseteq ToSet(p.pending) \ {h}
      BY <2>4, <3>1, <3>3 DEF ToSet
    <3>5. ToSet(p.pending) \ {h} \subseteq ToSet(s.pending)
      <4> SUFFICES ASSUME NEW i \in 1 .. Len(p.pending), i # 1
                   PROVE  \E j \in 1 .. Len(p.pending) - 1 : s.pending[j] = p.pending[i]
        <5>1. ToSet(p.pending) = {p.pending[i] : i \in 1 .. Len(p.pending)}
          BY <2>2 DEF ToSet
        <5>2. ToSet(s.pending) = {s.pending[i] : i \in 1 .. Len(p.pending) - 1}
          BY <2>4 DEF ToSet
        <5> QED
          BY <2>3, <5>1, <5>2, ZenonT(30)
      <4>1. i - 1 \in 1 .. Len(p.pending) - 1 /\ (i - 1) + 1 = i
        BY <2>3
      <4> QED
        BY <2>4, <4>1
    <3> QED
      BY <3>2, <3>4, <3>5
  <2>7. /\ h \in DOMAIN p.jobs /\ h \notin DOMAIN p.runLeases /\ h \notin p.cancelled /\ h \notin p.delayed
    BY <1>2, <2>5 DEF QueueInv, OnePlace
  <2>8. p.issued \in Nat /\ n = p.issued + 1 /\ n \notin DOMAIN p.leases
    BY <1>2 DEF QueueInv, KeysTyped, LeasesPaired, n
  <2>9. /\ DOMAIN s.leases = DOMAIN p.leases \cup {n} /\ DOMAIN s.runLeases = DOMAIN p.runLeases \cup {h}
        /\ s.leases[n] = h /\ s.runLeases[h] = n
        /\ \A x \in DOMAIN p.leases : s.leases[x] = p.leases[x]
        /\ \A x \in DOMAIN p.runLeases : s.runLeases[x] = p.runLeases[x]
    BY <2>1, <2>7, <2>8 DEF Put
  <2>10. KeysTyped(s)
    <3>1. s.issued \in Nat
      BY <2>1, <2>8
    <3>2. DOMAIN s.jobs = DOMAIN p.jobs /\ DOMAIN s.attempts = DOMAIN p.attempts /\ s.attempts = p.attempts
      BY <2>1
    <3> QED
      BY <1>2, <2>1, <2>4, <2>6, <3>1, <3>2 DEF QueueInv, KeysTyped
  <2>11. OnePlace(s)
    <3>1. OnePlace(p)
      BY <1>2 DEF QueueInv
    <3> QED
      BY <2>1, <2>5, <2>6, <2>7, <2>9, <3>1 DEF OnePlace
  <2>12. LeasesPaired(s)
    <3>1. \A x \in DOMAIN s.runLeases : Held(s, s.runLeases[x], x)
      BY <1>2, <2>9 DEF QueueInv, LeasesPaired, Held
    <3>2. \A x \in DOMAIN s.leases : /\ x \in Nat \ {0} /\ x =< s.issued
                                     /\ s.leases[x] \in DOMAIN s.runLeases
                                     /\ s.runLeases[s.leases[x]] = x
      BY <1>2, <2>1, <2>8, <2>9 DEF QueueInv, LeasesPaired
    <3> QED
      BY <3>1, <3>2 DEF LeasesPaired
  <2>13. Command(p, h) = [phase |-> "waiting", lease |-> 0, attempt |-> p.attempts[h]]
    BY <2>7 DEF Command
  <2>14. Command(s, h) = [phase |-> "held", lease |-> n, attempt |-> p.attempts[h]]
    BY <2>1, <2>7, <2>9 DEF Command
  <2>15. \A x \in Runs \ {h} : Command(s, x) = Command(p, x)
    BY <2>1, <2>9 DEF Command
  <2>16. /\ s.issued = k.issued + 1 /\ s.leases = Put(Del(k.leases, late), k.issued + 1, h)
         /\ h \in DOMAIN s.jobs /\ DOMAIN s.jobs = DOMAIN p.jobs /\ s.cancelled = p.cancelled
         /\ Given(k, R, h).phase = "waiting"
         /\ Command(s, h) = [phase |-> "held", lease |-> k.issued + 1, attempt |-> Given(k, R, h).attempt]
         /\ \A x \in Runs \ {h} : Command(s, x) = Given(k, R, x)
    BY <1>2, <2>1, <2>5, <2>7, <2>13, <2>14, <2>15 DEF n
  <2> QED
    BY <1>2, <2>5, <2>10, <2>11, <2>12, <2>16 DEF QueueInv, LeasedOut, R
<1>5. LeasedOut(k, late, s)
  BY <1>3, <1>4
<1> QED
  BY <1>5 DEF s

-----------------------------------------------------------------------------
(* The inductive invariant                                                  *)

Record == [status : Status, version : Nat, result : Nat]

ClientState ==
  [op : {"none", "submit", "cancel", "resume"},
   pc : {"idle", "enqueue", "revoke", "read", "write"},
   run : Runs \cup {"none"}, seen : Record, goal : Status, read : Nat, tries : Nat]

Message == [id : Nat, run : Runs, action : {"START", "RESUME"}]

WorkerState ==
  [pc : {"idle", "get", "claim", "run", "settle", "failed", "ack", "release"},
   run : Runs \cup {"none"}, ticket : Nat \cup Message \cup {<<>>}, read : Record,
   outcome : Status]

HasRecord(r) == record[r].status # "none"

Counted(u) ==
  /\ DOMAIN u = {"ops", "faults", "messages", "conflicts"}
  /\ u.messages \in Nat /\ u.conflicts \in Nat

\* A record was claimed before it is anything but QUEUED.
StoreOK ==
  /\ backend \in Backends
  /\ record \in [Runs -> Record]
  /\ \A r \in Runs : record[r].status = "none" => record[r] = NoRecord
  /\ \A r \in Runs : record[r].version = 0 => record[r].status \in {"none", "QUEUED"}
  /\ Counted(used)

\* What a call carries from one await to the next: its purpose, and a version
\* that is either the stored one, under a status it may write over, or gone.
ClientOK(c) ==
  LET me == client[c] IN
  /\ me.pc # "idle" => me.run \in Runs /\ HasRecord(me.run)
  /\ me.pc # "idle" =>
       \/ /\ me.op = "submit" /\ me.goal = "FAILED" /\ me.seen.status = "none"
          /\ me.pc \in {"enqueue", "read", "write"}
       \/ /\ me.op = "cancel" /\ me.goal = "CANCELLED" /\ me.seen.status # "CANCELLED"
          /\ me.pc \in {"revoke", "read", "write"}
       \/ /\ me.op = "resume" /\ me.seen.status \in {"PAUSED", "BLOCKED"}
          /\ me.goal \in {"QUEUED", me.seen.status}
          /\ me.pc \in {"enqueue", "read", "write"}
          /\ me.pc = "enqueue" => me.goal = "QUEUED"
  /\ me.pc = "write" =>
       /\ me.read =< record[me.run].version
       /\ record[me.run].version = me.read => record[me.run].status \in Expected(c)

ClientsOK == client \in [Clients -> ClientState] /\ \A c \in Clients : ClientOK(c)

HasClaim(w) == worker[w].pc \in {"run", "settle", "failed"}

\* What a worker carries: the record as stored, or as it was at a version
\* that is gone; a claim that is the record's, or was overwritten.
WorkerOK(w) ==
  LET me == worker[w] IN
  /\ me.pc # "idle" => me.run \in Runs /\ HasRecord(me.run)
  /\ me.pc = "claim" =>
       /\ me.read.version =< record[me.run].version
       /\ record[me.run].version = me.read.version => record[me.run] = me.read
  /\ HasClaim(w) =>
       /\ me.read.version =< record[me.run].version
       /\ record[me.run].version = me.read.version
            => record[me.run].status = "RUNNING" /\ record[me.run].result = me.read.result
  /\ me.pc = "settle" => me.outcome \in {"PAUSED", "COMPLETED"}
  /\ me.pc # "idle" /\ backend = "celery" => me.ticket \in Message /\ me.ticket.run = me.run
  /\ me.pc # "idle" /\ backend = "redis" => me.ticket \in Nat \ {0} /\ me.ticket =< q.issued

WorkersOK == worker \in [Workers -> WorkerState] /\ \A w \in Workers : WorkerOK(w)

\* Whatever waits somewhere belongs to a run that has a record.
QueueOK ==
  /\ QueueInv(q)
  /\ asked \cap DOMAIN q.jobs = q.cancelled
  /\ \A r \in DOMAIN q.jobs : HasRecord(r)
  /\ broker \subseteq Message
  /\ \A m \in broker : HasRecord(m.run)

\* Of two Celery claims of a run one had run out when the other was made; a
\* claim that is no longer the record's had run out, or the run is over.
ClaimsApart ==
  backend = "celery" =>
    /\ \A v, w \in Workers :
         v # w /\ HasClaim(v) /\ HasClaim(w) /\ worker[v].run = worker[w].run
           => Overtaken(v, w) \/ Overtaken(w, v)
    /\ \A v \in Workers : HasClaim(v) =>
         \/ worker[v].read.version = record[worker[v].run].version
         \/ <<worker[v].run, worker[v].read.version>> \in lapsed
         \/ record[worker[v].run].status \in Terminal

Cancelling(r) ==
  \E c \in Clients :
    client[c].run = r /\ client[c].op = "cancel" /\ client[c].pc \in {"read", "write"}

\* A call that will yet enqueue the run or write over QUEUED.
Calling(r) ==
  \E c \in Clients :
    /\ client[c].run = r
    /\ \/ client[c].pc = "enqueue"
       \/ client[c].pc \in {"read", "write"} /\ client[c].goal # "QUEUED"

\* A Redis command that no worker is about to acknowledge.
InHand(r) ==
  /\ r \in DOMAIN q.jobs \ q.cancelled
  /\ \A w \in Workers : worker[w].pc = "ack" /\ worker[w].run = r => ~Held(q, worker[w].ticket, r)

\* A Celery message, or the worker that holds it and will claim the record.
Underway(r) ==
  \/ \E m \in broker : m.run = r
  \/ \E w \in Workers : /\ worker[w].run = r
                        /\ \/ worker[w].pc = "get"
                           \/ worker[w].pc = "claim" /\ worker[w].read = record[r]

NotRevoked(r) == \A a \in {"START", "RESUME"} : <<a, r>> \notin revoked

Awaited(r) ==
  \/ Calling(r)
  \/ backend = "redis" /\ InHand(r)
  \/ backend = "celery" /\ Underway(r) /\ NotRevoked(r)

\* Unless a call gave up: a queued record is awaited, and a revoked run is
\* over or about to be.
WokenOK ==
  used.conflicts = 0 =>
    /\ \A r \in Runs : Queued(r) => Awaited(r)
    /\ backend = "celery" =>
         \A r \in Runs : NotRevoked(r) \/ record[r].status \in Terminal \/ Cancelling(r)

IInv == StoreOK /\ ClientsOK /\ WorkersOK /\ QueueOK /\ ClaimsApart /\ WokenOK

-----------------------------------------------------------------------------
(* The run repository                                                       *)

Written(r, status, result) ==
  record'[r] = [status |-> status, version |-> record[r].version + 1, result |-> result]

\* The writes of the repository: which call or worker makes them, and over what.
ByClient(r) ==
  \E c \in Clients :
    /\ client[c].pc = "write" /\ client[c].run = r /\ client[c].read = record[r].version
    /\ Written(r, client[c].goal,
               IF client[c].goal = client[c].seen.status THEN client[c].seen.result ELSE 0)

ByClaim(r) ==
  \E w \in Workers :
    /\ worker[w].pc = "claim" /\ worker[w].run = r /\ worker[w].read.version = record[r].version
    /\ backend = "celery" => worker[w].read.status \in {"QUEUED", "RUNNING"}
    /\ Written(r, "RUNNING", worker[w].read.result)

BySettle(r) ==
  \E w \in Workers :
    /\ worker[w].pc = "settle" /\ worker[w].run = r /\ worker[w].read.version = record[r].version
    /\ Written(r, worker[w].outcome, record[r].version)

ByFailure(r) ==
  \E w \in Workers :
    /\ worker[w].pc = "failed" /\ worker[w].run = r /\ worker[w].read.version = record[r].version
    /\ Written(r, "FAILED", worker[w].read.result)

Created(r) ==
  record[r] = NoRecord /\ record'[r] = [status |-> "QUEUED", version |-> 0, result |-> 0]

RecordMove(r) ==
  \/ record'[r] = record[r] \/ Created(r)
  \/ ByClient(r) \/ ByClaim(r) \/ BySettle(r) \/ ByFailure(r)

\* compare_and_set touches one record.
LEMMA WriteEffect ==
  ASSUME record \in [Runs -> Record], NEW r, NEW v \in Nat, NEW status \in Status, NEW result \in Nat,
         Write(r, v, status, result)
  PROVE  /\ record' \in [Runs -> Record]
         /\ \A x \in Runs : x # r => record'[x] = record[x]
         /\ r \in Runs => record'[r] = [status |-> status, version |-> v + 1, result |-> result]
<1> DEFINE new == [status |-> status, version |-> v + 1, result |-> result]
<1>1. new \in Record
  BY DEF Record
<1>2. record' = [record EXCEPT ![r] = new]
  BY DEF Write
<1> HIDE DEF new
<1>3. record' \in [Runs -> Record]
  BY <1>1, <1>2
<1>4. \A x \in Runs : x # r => record'[x] = record[x]
  BY <1>2
<1>5. r \in Runs => record'[r] = new
  BY <1>2
<1> QED
  BY <1>3, <1>4, <1>5 DEF new

LEMMA StatusNames ==
  /\ Status = {"none", "QUEUED", "RUNNING", "COMPLETED", "FAILED", "CANCELLED", "TIMED_OUT", "PAUSED", "BLOCKED"}
  /\ Terminal = {"COMPLETED", "FAILED", "CANCELLED", "TIMED_OUT"}
  /\ Settled = {"COMPLETED", "FAILED", "CANCELLED", "TIMED_OUT", "PAUSED", "BLOCKED"}
  /\ NoRecord \in Record
BY DEF Status, Settled, Terminal, NoRecord, Record

\* Every step moves each record in one of these ways (create, compare_and_set).
LEMMA RecordSteps ==
  ASSUME IInv, [Next]_vars
  PROVE  record' \in [Runs -> Record] /\ \A r \in Runs : RecordMove(r)
<1>0. /\ record \in [Runs -> Record] /\ client \in [Clients -> ClientState]
      /\ worker \in [Workers -> WorkerState]
  BY DEF IInv, StoreOK, ClientsOK, WorkersOK
<1> DEFINE Done == record' \in [Runs -> Record] /\ \A r \in Runs : RecordMove(r)
<1>1. ASSUME record' = record PROVE Done
  BY <1>0, <1>1 DEF RecordMove
<1>2. ASSUME NEW c \in Clients, NEW r \in Runs, Submit(c, r) PROVE Done
  <2>1. CASE record[r] = NoRecord
    <3> DEFINE new == [NoRecord EXCEPT !.status = "QUEUED"]
    <3>1. new = [status |-> "QUEUED", version |-> 0, result |-> 0]
      BY DEF NoRecord
    <3>2. record' = [record EXCEPT ![r] = new]
      BY <1>2, <2>1 DEF Submit, Create
    <3>3. new \in Record
      BY <3>1, StatusNames DEF Record
    <3> HIDE DEF new
    <3>4. record' \in [Runs -> Record]
      BY <1>0, <3>2, <3>3
    <3>5. \A x \in Runs : x # r => record'[x] = record[x]
      BY <1>0, <3>2
    <3>6. record'[r] = new
      BY <1>0, <3>2
    <3> QED
      BY <2>1, <3>1, <3>4, <3>5, <3>6 DEF RecordMove, Created
  <2>2. CASE record[r] # NoRecord
    BY <1>1, <1>2, <2>2 DEF Submit
  <2> QED
    BY <2>1, <2>2
<1>3. ASSUME NEW c \in Clients, UpdateWrite(c) PROVE Done
  <2> DEFINE me == client[c]
             result == IF me.goal = me.seen.status THEN me.seen.result ELSE 0
  <2>1. CASE Cas(me.run, me.read)
    <3>1. Write(me.run, me.read, me.goal, result) /\ me.pc = "write"
      BY <1>3, <2>1 DEF UpdateWrite
    <3>2. me.read \in Nat /\ me.goal \in Status /\ result \in Nat
      BY <1>0 DEF ClientState, Record
    <3>3. me.read = record[me.run].version
      BY <2>1 DEF Cas
    <3> HIDE DEF result, me
    <3>4. /\ record' \in [Runs -> Record]
          /\ \A x \in Runs : x # me.run => record'[x] = record[x]
          /\ me.run \in Runs => record'[me.run] = [status |-> me.goal, version |-> me.read + 1, result |-> result]
      BY <1>0, <3>1, <3>2, WriteEffect
    <3>5. me.run \in Runs => ByClient(me.run)
      BY <3>1, <3>3, <3>4 DEF ByClient, Written, me, result
    <3> QED
      BY <3>4, <3>5 DEF RecordMove
  <2>2. CASE ~Cas(me.run, me.read)
    BY <1>1, <1>3, <2>2 DEF UpdateWrite
  <2> QED
    BY <2>1, <2>2
<1>4. ASSUME NEW w \in Workers, NEW refused, Claim(w, refused), worker[w].pc = "claim",
             backend = "celery" => worker[w].read.status \in {"QUEUED", "RUNNING"}
      PROVE  Done
  <2> DEFINE me == worker[w]
  <2>1. CASE Cas(me.run, me.read.version)
    <3>1. Write(me.run, me.read.version, "RUNNING", me.read.result)
      BY <1>4, <2>1 DEF Claim
    <3>2. me.read.version \in Nat /\ me.read.result \in Nat /\ "RUNNING" \in Status
      BY <1>0, StatusNames DEF WorkerState, Record
    <3>3. me.read.version = record[me.run].version
      BY <2>1 DEF Cas
    <3> HIDE DEF me
    <3>4. /\ record' \in [Runs -> Record]
          /\ \A x \in Runs : x # me.run => record'[x] = record[x]
          /\ me.run \in Runs => record'[me.run] =
               [status |-> "RUNNING", version |-> me.read.version + 1, result |-> me.read.result]
      <4> DEFINE v == me.read.version
                 result == me.read.result
      <4>1. Write(me.run, v, "RUNNING", result) /\ v \in Nat /\ result \in Nat
        BY <3>1, <3>2
      <4> HIDE DEF v, result
      <4>2. /\ record' \in [Runs -> Record]
            /\ \A x \in Runs : x # me.run => record'[x] = record[x]
            /\ me.run \in Runs => record'[me.run] =
                 [status |-> "RUNNING", version |-> v + 1, result |-> result]
        BY <1>0, <3>2, <4>1, WriteEffect
      <4> QED BY <4>2 DEF v, result
    <3>5. me.run \in Runs => ByClaim(me.run)
      BY <1>4, <3>3, <3>4 DEF ByClaim, Written, me
    <3> QED
      BY <3>4, <3>5 DEF RecordMove
  <2>2. CASE ~Cas(me.run, me.read.version)
    BY <1>1, <1>4, <2>2 DEF Claim
  <2> QED
    BY <2>1, <2>2
<1>5. ASSUME NEW w \in Workers, PullClaim(w) PROVE Done
  BY <1>4, <1>5 DEF PullClaim
<1>6. ASSUME NEW w \in Workers, NEW expired \in BOOLEAN, TaskClaim(w, expired) PROVE Done
  <2>1. worker[w].pc = "claim" /\ Claim(w, "ack") /\ worker[w].read.status \in {"QUEUED", "RUNNING"}
    BY <1>6 DEF TaskClaim, Claimable
  <2> QED
    BY <1>4, <2>1
<1>7. ASSUME NEW w \in Workers, Settle(w) PROVE Done
  <2> DEFINE me == worker[w]
  <2>1. CASE Cas(me.run, me.read.version)
    <3>1. Write(me.run, me.read.version, me.outcome, me.read.version) /\ me.pc = "settle"
      BY <1>7, <2>1 DEF Settle
    <3>2. me.read.version \in Nat /\ me.outcome \in Status
      BY <1>0 DEF WorkerState, Record
    <3>3. me.read.version = record[me.run].version
      BY <2>1 DEF Cas
    <3> HIDE DEF me
    <3>4. /\ record' \in [Runs -> Record]
          /\ \A x \in Runs : x # me.run => record'[x] = record[x]
          /\ me.run \in Runs => record'[me.run] =
               [status |-> me.outcome, version |-> me.read.version + 1, result |-> me.read.version]
      BY <1>0, <3>1, <3>2, WriteEffect
    <3>5. me.run \in Runs => BySettle(me.run)
      BY <3>1, <3>3, <3>4 DEF BySettle, Written, me
    <3> QED
      BY <3>4, <3>5 DEF RecordMove
  <2>2. CASE ~Cas(me.run, me.read.version)
    BY <1>1, <1>7, <2>2 DEF Settle
  <2> QED
    BY <2>1, <2>2
<1>8. ASSUME NEW w \in Workers, TaskMarkFailed(w) PROVE Done
  <2> DEFINE me == worker[w]
  <2>1. CASE Cas(me.run, me.read.version)
    <3>1. Write(me.run, me.read.version, "FAILED", me.read.result) /\ me.pc = "failed"
      BY <1>8, <2>1 DEF TaskMarkFailed
    <3>2. me.read.version \in Nat /\ me.read.result \in Nat /\ "FAILED" \in Status
      BY <1>0, StatusNames DEF WorkerState, Record
    <3>3. me.read.version = record[me.run].version
      BY <2>1 DEF Cas
    <3> HIDE DEF me
    <3>4. /\ record' \in [Runs -> Record]
          /\ \A x \in Runs : x # me.run => record'[x] = record[x]
          /\ me.run \in Runs => record'[me.run] =
               [status |-> "FAILED", version |-> me.read.version + 1, result |-> me.read.result]
      BY <1>0, <3>1, <3>2, WriteEffect
    <3>5. me.run \in Runs => ByFailure(me.run)
      BY <3>1, <3>3, <3>4 DEF ByFailure, Written, me
    <3> QED
      BY <3>4, <3>5 DEF RecordMove
  <2>2. CASE ~Cas(me.run, me.read.version)
    BY <1>1, <1>8, <2>2 DEF TaskMarkFailed
  <2> QED
    BY <2>1, <2>2
<1>9. ASSUME NEW c \in Clients, ClientCall(c) \/ ClientStep(c) \/ ClientFault(c) PROVE Done
  <2>1. (\E r \in Runs : Submit(c, r)) \/ UpdateWrite(c) \/ record' = record
    BY <1>9 DEF ClientCall, ClientStep, ClientFault, Cancel, Resume, UpdateRead, Enqueue, EnqueueRefused,
                Revoke, EnqueueFails, EnqueueAnswerLost
  <2> QED
    BY <1>1, <1>2, <1>3, <2>1
<1>10. ASSUME NEW w \in Workers, WorkerStep(w) \/ WorkerFault(w) \/ Take(w) PROVE Done
  <2>1. \/ PullClaim(w) \/ Settle(w) \/ TaskMarkFailed(w) \/ TaskClaim(w, TRUE) \/ TaskClaim(w, FALSE)
        \/ record' = record
    BY <1>10 DEF WorkerStep, WorkerFault, Take, ReadRecord, LoopReturns, PullAcknowledge, PullRelease,
                 TaskDuplicate, TaskAcknowledge, TaskRaises, LoopReturnsUnsettled, LoopRaises, Die, PullLease, Deliver
  <2> QED
    BY <1>1, <1>5, <1>6, <1>7, <1>8, <2>1
<1>11. ASSUME NEW m, Discard(m) PROVE Done
  BY <1>1, <1>11 DEF Discard
<1> QED
  BY <1>1, <1>9, <1>10, <1>11 DEF Next, vars

\* What holds of every such move: no record goes away, a version is used once,
\* a terminal record of the Celery deployment is final, and a result is stored
\* over the claim it belongs to.
Progress(r) ==
  /\ HasRecord(r) => record'[r].status # "none"
  /\ record[r].version =< record'[r].version
  /\ record'[r].version = record[r].version => record'[r] = record[r] \/ ~HasRecord(r)
  /\ record'[r].status = "none" => record'[r] = NoRecord
  /\ record'[r].version = 0 => record'[r].status \in {"none", "QUEUED"}
  /\ ~HasRecord(r) => record'[r] = record[r] \/ record'[r].status = "QUEUED"

Final(r) == backend = "celery" /\ record[r].status \in Terminal => record'[r] = record[r]

OfItsClaim(r) ==
  record'[r] # record[r] /\ record'[r].status \in Settled /\ record[r].status # "QUEUED"
    => /\ record'[r].result \in {0, record[r].result, record[r].version}
       /\ record'[r].result = record[r].version => record[r].status = "RUNNING"
       /\ record'[r].version = record[r].version + 1

LEMMA MovesAreSound ==
  ASSUME IInv, NEW r \in Runs, RecordMove(r)
  PROVE  Progress(r) /\ Final(r) /\ OfItsClaim(r)
<1> DEFINE old == record[r]
           new == record'[r]
           Sound == Progress(r) /\ Final(r) /\ OfItsClaim(r)
<1>0. /\ old.version \in Nat /\ old.result \in Nat /\ old.status \in Status
      /\ old.status = "none" => old = NoRecord
      /\ old.version = 0 => old.status \in {"none", "QUEUED"}
  BY DEF IInv, StoreOK, Record
<1>w. ASSUME NEW status, NEW result, Written(r, status, result)
      PROVE  new.status = status /\ new.result = result /\ new.version = old.version + 1
  BY <1>w DEF Written
<1>1. CASE new = old
  BY <1>0, <1>1 DEF Progress, Final, OfItsClaim, HasRecord
<1>2. CASE Created(r)
  <2>1. old.status = "none" /\ old.version = 0 /\ new.status = "QUEUED" /\ new.version = 0
    BY <1>2 DEF Created, NoRecord
  <2> HIDE DEF old, new
  <2>2. "QUEUED" \notin Settled /\ "none" \notin Terminal
    BY StatusNames
  <2> QED
    BY <2>1, <2>2 DEF Progress, Final, OfItsClaim, HasRecord, old, new
<1>3. CASE ByClient(r)
  <2>1. PICK c \in Clients :
          /\ client[c].pc = "write" /\ client[c].run = r /\ client[c].read = old.version
          /\ Written(r, client[c].goal,
                     IF client[c].goal = client[c].seen.status THEN client[c].seen.result ELSE 0)
    BY <1>3 DEF ByClient
  <2> DEFINE me == client[c]
  <2>2. /\ new.status = me.goal /\ new.version = old.version + 1
        /\ new.result = IF me.goal = me.seen.status THEN me.seen.result ELSE 0
    BY <1>w, <2>1
  <2>3. /\ old.status \in Expected(c) /\ old.status # "none"
        /\ \/ me.op = "submit" /\ me.goal = "FAILED" /\ me.seen.status = "none"
           \/ me.op = "cancel" /\ me.goal = "CANCELLED" /\ me.seen.status # "CANCELLED"
           \/ /\ me.op = "resume" /\ me.seen.status \in {"PAUSED", "BLOCKED"}
              /\ me.goal \in {"QUEUED", me.seen.status}
    BY <2>1 DEF IInv, ClientsOK, ClientOK, HasRecord
  <2>4. old.status \in {"QUEUED", "RUNNING", "PAUSED", "BLOCKED"}
    BY <2>3 DEF Expected
  <2>5. new.status # "none"
    BY <2>2, <2>3
  <2>6. Progress(r)
    BY <1>0, <2>2, <2>3, <2>5 DEF Progress, HasRecord
  <2>7. Final(r)
    BY <2>4, StatusNames DEF Final
  <2>8. OfItsClaim(r)
    <3>1. CASE me.goal = me.seen.status
      <4>1. me.op = "resume" /\ me.goal # "QUEUED"
        BY <2>3, <3>1
      <4>2. old.status = "QUEUED"
        BY <2>3, <4>1 DEF Expected
      <4> QED
        BY <4>2 DEF OfItsClaim
    <3>2. CASE me.goal # me.seen.status
      BY <1>0, <2>2, <2>4, <3>2 DEF OfItsClaim
    <3> QED
      BY <3>1, <3>2
  <2> QED
    BY <2>6, <2>7, <2>8
<1>4. CASE ByClaim(r)
  <2>1. PICK w \in Workers :
          /\ worker[w].pc = "claim" /\ worker[w].run = r /\ worker[w].read.version = old.version
          /\ backend = "celery" => worker[w].read.status \in {"QUEUED", "RUNNING"}
          /\ Written(r, "RUNNING", worker[w].read.result)
    BY <1>4 DEF ByClaim
  <2>2. new.status = "RUNNING" /\ new.version = old.version + 1
    BY <1>w, <2>1
  <2>3. old = worker[w].read /\ old.status # "none"
    BY <2>1 DEF IInv, WorkersOK, WorkerOK, HasRecord
  <2>4. Progress(r)
    BY <1>0, <2>2, <2>3 DEF Progress, HasRecord
  <2>5. Final(r)
    BY <2>1, <2>3, StatusNames DEF Final
  <2>6. OfItsClaim(r)
    BY <2>2, StatusNames DEF OfItsClaim
  <2> QED
    BY <2>4, <2>5, <2>6
<1>5. CASE BySettle(r)
  <2>1. PICK w \in Workers :
          /\ worker[w].pc = "settle" /\ worker[w].run = r /\ worker[w].read.version = old.version
          /\ Written(r, worker[w].outcome, old.version)
    BY <1>5 DEF BySettle
  <2>2. new.status = worker[w].outcome /\ new.result = old.version /\ new.version = old.version + 1
    BY <1>w, <2>1
  <2>3. old.status = "RUNNING" /\ worker[w].outcome \in {"PAUSED", "COMPLETED"}
    BY <2>1 DEF IInv, WorkersOK, WorkerOK, HasClaim
  <2>4. Progress(r)
    BY <1>0, <2>2, <2>3 DEF Progress, HasRecord
  <2>5. Final(r)
    BY <2>3, StatusNames DEF Final
  <2>6. OfItsClaim(r)
    BY <2>2, <2>3 DEF OfItsClaim
  <2> QED
    BY <2>4, <2>5, <2>6
<1>6. CASE ByFailure(r)
  <2>1. PICK w \in Workers :
          /\ worker[w].pc = "failed" /\ worker[w].run = r /\ worker[w].read.version = old.version
          /\ Written(r, "FAILED", worker[w].read.result)
    BY <1>6 DEF ByFailure
  <2>2. new.status = "FAILED" /\ new.result = worker[w].read.result /\ new.version = old.version + 1
    BY <1>w, <2>1
  <2>3. old.status = "RUNNING" /\ old.result = worker[w].read.result
    BY <2>1 DEF IInv, WorkersOK, WorkerOK, HasClaim
  <2>4. Progress(r)
    BY <1>0, <2>2, <2>3 DEF Progress, HasRecord
  <2>5. Final(r)
    BY <2>3, StatusNames DEF Final
  <2>6. OfItsClaim(r)
    BY <2>2, <2>3 DEF OfItsClaim
  <2> QED
    BY <2>4, <2>5, <2>6
<1> QED
  BY <1>1, <1>2, <1>3, <1>4, <1>5, <1>6 DEF RecordMove

\* No step takes a message number or a conflict back.
LEMMA CountersKept ==
  ASSUME IInv, [Next]_vars
  PROVE  /\ Counted(used')
         /\ used'.messages >= used.messages
         /\ used'.conflicts >= used.conflicts
<1> DEFINE Done == /\ Counted(used')
                   /\ used'.messages >= used.messages
                   /\ used'.conflicts >= used.conflicts
<1>0. Counted(used)
  BY DEF IInv, StoreOK
<1>1. ASSUME used' = used PROVE Done
  BY <1>0, <1>1 DEF Counted
<1>2. ASSUME NEW n, \/ used' = [used EXCEPT !.ops = n]
                    \/ used' = [used EXCEPT !.faults = n]
      PROVE  Done
  BY <1>0, <1>2 DEF Counted
<1>3. ASSUME NEW n, \/ used' = [used EXCEPT !.messages = used.messages + 1]
                    \/ used' = [used EXCEPT !.conflicts = used.conflicts + 1]
                    \/ used' = [used EXCEPT !.faults = n,
                                          !.messages = IF backend = "redis" THEN used.messages ELSE used.messages + 1]
      PROVE  Done
  <2>1. CASE used' = [used EXCEPT !.messages = used.messages + 1]
    BY <1>0, <2>1 DEF Counted
  <2>2. CASE used' = [used EXCEPT !.conflicts = used.conflicts + 1]
    BY <1>0, <2>2 DEF Counted
  <2>3. CASE used' = [used EXCEPT !.faults = n,
                               !.messages = IF backend = "redis" THEN used.messages ELSE used.messages + 1]
    <3> DEFINE sent == IF backend = "redis" THEN used.messages ELSE used.messages + 1
    <3>1. sent \in Nat /\ sent >= used.messages
      BY <1>0 DEF Counted
    <3> HIDE DEF sent
    <3>2. used' = [used EXCEPT !.faults = n, !.messages = sent]
      BY <2>3 DEF sent
    <3>3. DOMAIN used' = DOMAIN used /\ used'.messages = sent /\ used'.conflicts = used.conflicts
      BY <1>0, <3>2 DEF Counted
    <3> QED
      BY <1>0, <3>1, <3>3 DEF Counted
  <2> QED
    BY <1>3, <2>1, <2>2, <2>3
<1>4. ASSUME NEW c \in Clients, ClientCall(c) PROVE Done
  BY <1>2, <1>4 DEF ClientCall, Submit, Cancel, Resume, Begin
<1>5. ASSUME NEW c \in Clients, UpdateWrite(c) PROVE Done
  BY <1>1, <1>3, <1>5 DEF UpdateWrite
<1>6. ASSUME NEW c \in Clients, Enqueue(c) PROVE Done
  BY <1>1, <1>3, <1>6 DEF Enqueue, Sent
<1>7. ASSUME NEW c \in Clients, ClientFault(c) PROVE Done
  BY <1>2, <1>3, <1>7 DEF ClientFault, EnqueueFails, EnqueueAnswerLost
<1>8. ASSUME NEW c \in Clients, ClientCall(c) \/ ClientStep(c) \/ ClientFault(c) PROVE Done
  BY <1>1, <1>4, <1>5, <1>6, <1>7, <1>8 DEF ClientStep, UpdateRead, EnqueueRefused, Revoke
<1>9. ASSUME NEW w \in Workers, WorkerStep(w) \/ WorkerFault(w) \/ Take(w) PROVE Done
  <2>1. TaskRaises(w) \/ used' = used \/ \E n : used' = [used EXCEPT !.faults = n]
    BY <1>9 DEF WorkerStep, WorkerFault, Take, ReadRecord, LoopReturns, Settle, PullClaim, PullAcknowledge,
                PullRelease, TaskClaim, TaskDuplicate, TaskMarkFailed, TaskAcknowledge,
                LoopReturnsUnsettled, LoopRaises, Die, PullLease, Deliver
  <2>2. CASE TaskRaises(w)
    <3> DEFINE given == IF worker[w].pc \in {"get", "claim"} THEN used.conflicts + 1 ELSE used.conflicts
    <3>1. given \in Nat /\ given >= used.conflicts
      BY <1>0 DEF Counted
    <3>2. used' = [used EXCEPT !.faults = used.faults + 1, !.conflicts = given]
      BY <2>2 DEF TaskRaises
    <3> HIDE DEF given
    <3>3. DOMAIN used' = DOMAIN used /\ used'.messages = used.messages /\ used'.conflicts = given
      BY <1>0, <3>2 DEF Counted
    <3> QED
      BY <1>0, <3>1, <3>3 DEF Counted
  <2> QED
    BY <1>1, <1>2, <2>1, <2>2
<1> QED
  BY <1>1, <1>8, <1>9 DEF Next, vars, Discard

\* The store stays as a repository of versioned records.
LEMMA StoreKept ==
  ASSUME IInv, [Next]_vars
  PROVE  StoreOK' /\ backend' = backend /\ \A r \in Runs : Progress(r) /\ Final(r) /\ OfItsClaim(r)
<1>1. record' \in [Runs -> Record] /\ \A r \in Runs : Progress(r) /\ Final(r) /\ OfItsClaim(r)
  BY RecordSteps, MovesAreSound
<1>2. backend' = backend
  <2>1. ASSUME NEW c \in Clients, ClientCall(c) \/ ClientStep(c) \/ ClientFault(c) PROVE backend' = backend
    BY <2>1 DEF ClientCall, ClientStep, ClientFault, Submit, Cancel, Resume, UpdateRead, UpdateWrite, Enqueue,
                EnqueueRefused, Revoke, EnqueueFails, EnqueueAnswerLost
  <2>2. ASSUME NEW w \in Workers, WorkerStep(w) \/ WorkerFault(w) \/ Take(w) PROVE backend' = backend
    BY <2>2 DEF WorkerStep, WorkerFault, Take, ReadRecord, LoopReturns, Settle, PullClaim, PullAcknowledge,
                PullRelease, TaskClaim, TaskDuplicate, TaskMarkFailed, TaskAcknowledge, TaskRaises, LoopReturnsUnsettled,
                LoopRaises, Die, PullLease, Deliver
  <2> QED
    BY <2>1, <2>2 DEF Next, vars, Discard
<1>3. Counted(used')
  BY CountersKept
<1>4. StoreOK'
  BY <1>1, <1>2, <1>3 DEF IInv, StoreOK, Progress
<1> QED
  BY <1>1, <1>2, <1>4

-----------------------------------------------------------------------------
(* What a step does to the caller or the worker that takes it               *)

OneClient(c) ==
  /\ client' \in [Clients -> ClientState]
  /\ \A d \in Clients \ {c} : client'[d] = client[d]

OneWorker(w) ==
  /\ worker' \in [Workers -> WorkerState]
  /\ \A v \in Workers \ {w} : worker'[v] = worker[v]

\* A call that goes on keeps what it is for.
SamePurpose(c) ==
  /\ client'[c].op = client[c].op /\ client'[c].run = client[c].run
  /\ client'[c].seen = client[c].seen

LEMMA ClientPut ==
  ASSUME client \in [Clients -> ClientState], NEW c \in Clients, NEW new \in ClientState,
         client' = [client EXCEPT ![c] = new]
  PROVE  OneClient(c) /\ client'[c] = new
BY DEF OneClient

LEMMA IdleClientTyped == IdleClient \in ClientState /\ IdleClient.pc = "idle" /\ IdleClient.run = "none"
<1>1. NoRecord \in Record /\ "none" \in Status
  BY StatusNames
<1> QED
  BY <1>1 DEF IdleClient, ClientState

LEMMA ReturnEffectOnClient ==
  ASSUME client \in [Clients -> ClientState], NEW c \in Clients, Return(c)
  PROVE  OneClient(c) /\ client'[c].pc = "idle" /\ client'[c].run = "none"
BY IdleClientTyped, ClientPut DEF Return

LEMMA GotoEffect ==
  ASSUME client \in [Clients -> ClientState], NEW c \in Clients, NEW pc \in {"enqueue", "read"}, Goto(c, pc)
  PROVE  /\ OneClient(c) /\ SamePurpose(c) /\ client'[c].pc = pc
         /\ client'[c].goal = client[c].goal /\ client'[c].read = client[c].read
<1> DEFINE new == [client[c] EXCEPT !.pc = pc]
<1>1. new \in ClientState
  BY DEF ClientState
<1>2. client' = [client EXCEPT ![c] = new]
  BY DEF Goto
<1>3. /\ new.op = client[c].op /\ new.run = client[c].run /\ new.seen = client[c].seen
      /\ new.pc = pc /\ new.goal = client[c].goal /\ new.read = client[c].read
  BY DEF ClientState
<1> HIDE DEF new
<1> QED
  BY <1>1, <1>2, <1>3, ClientPut DEF SamePurpose

LEMMA UndoEffect ==
  ASSUME client \in [Clients -> ClientState], NEW c \in Clients, Undo(c)
  PROVE  /\ OneClient(c) /\ SamePurpose(c) /\ client'[c].pc = "read"
         /\ client'[c].goal = IF client[c].op = "submit" THEN "FAILED" ELSE client[c].seen.status
<1> DEFINE goal == IF client[c].op = "submit" THEN "FAILED" ELSE client[c].seen.status
           new == [client[c] EXCEPT !.pc = "read", !.tries = 0, !.goal = goal]
<1>1. goal \in Status
  BY StatusNames DEF ClientState, Record
<1> HIDE DEF goal
<1>2. new \in ClientState
  BY <1>1, Zenon DEF ClientState
<1>3. client' = [client EXCEPT ![c] = new]
  BY DEF Undo, goal
<1>4. /\ new.op = client[c].op /\ new.run = client[c].run /\ new.seen = client[c].seen
      /\ new.pc = "read" /\ new.goal = goal
  BY DEF ClientState
<1> HIDE DEF new
<1> QED
  BY <1>2, <1>3, <1>4, ClientPut DEF SamePurpose, goal

\* _update ends, or has read a status it may write over.
LEMMA UpdateReadEffect ==
  ASSUME IInv, NEW c \in Clients, UpdateRead(c)
  PROVE  /\ OneClient(c) /\ client[c].run \in Runs
         /\ \/ /\ SamePurpose(c) /\ client'[c].pc = "write" /\ client'[c].goal = client[c].goal
               /\ client'[c].read = record[client[c].run].version
               /\ record[client[c].run].status \in Expected(c)
            \/ client'[c].pc = "idle" /\ record[client[c].run].status \notin Expected(c)
<1>0. client \in [Clients -> ClientState] /\ record \in [Runs -> Record]
  BY DEF IInv, ClientsOK, StoreOK
<1>1. client[c].run \in Runs
  BY DEF UpdateRead, IInv, ClientsOK, ClientOK
<1>2. CASE record[client[c].run].status \in Expected(c)
  <2> DEFINE v == record[client[c].run].version
             new == [client[c] EXCEPT !.pc = "write", !.read = v]
  <2>1. v \in Nat
    BY <1>0, <1>1 DEF Record
  <2>2. client' = [client EXCEPT ![c].pc = "write", ![c].read = v]
    BY <1>2 DEF UpdateRead
  <2> HIDE DEF v
  <2>3. new \in ClientState
    BY <1>0, <2>1, Zenon DEF ClientState
  <2>4. client' = [client EXCEPT ![c] = new]
    BY <1>0, <2>2
  <2>5. /\ new.op = client[c].op /\ new.run = client[c].run /\ new.seen = client[c].seen
        /\ new.pc = "write" /\ new.goal = client[c].goal /\ new.read = v
    BY <1>0 DEF ClientState
  <2> HIDE DEF new
  <2>6. OneClient(c) /\ client'[c] = new
    BY <1>0, <2>3, <2>4, ClientPut
  <2> QED
    BY <1>1, <1>2, <2>5, <2>6 DEF SamePurpose, v
<1>3. CASE record[client[c].run].status \notin Expected(c)
  BY <1>0, <1>1, <1>3, ReturnEffectOnClient DEF UpdateRead, AfterUpdate
<1> QED
  BY <1>2, <1>3

\* The CAS of _update: written, to be tried again, or given up.
LEMMA UpdateWriteEffect ==
  ASSUME IInv, NEW c \in Clients, UpdateWrite(c)
  PROVE  /\ OneClient(c) /\ client[c].run \in Runs
         /\ \/ /\ record'[client[c].run].status = client[c].goal
               /\ record'[client[c].run].version = record[client[c].run].version + 1
               /\ \/ client[c].goal # "QUEUED" /\ client'[c].pc = "idle"
                  \/ /\ client[c].goal = "QUEUED" /\ SamePurpose(c) /\ client'[c].pc = "enqueue"
                     /\ client'[c].goal = "QUEUED"
            \/ /\ record' = record /\ SamePurpose(c)
               /\ client'[c].pc = "read" /\ client'[c].goal = client[c].goal
            \/ record' = record /\ client'[c].pc = "idle" /\ used'.conflicts # 0
<1>0. client \in [Clients -> ClientState] /\ record \in [Runs -> Record] /\ Counted(used)
  BY DEF IInv, ClientsOK, StoreOK
<1> DEFINE me == client[c]
           result == IF me.goal = me.seen.status THEN me.seen.result ELSE 0
<1>1. me.run \in Runs
  BY DEF UpdateWrite, IInv, ClientsOK, ClientOK
<1>2. CASE Cas(me.run, me.read)
  <2>1. Write(me.run, me.read, me.goal, result) /\ AfterUpdate(c, TRUE)
    BY <1>2 DEF UpdateWrite
  <2>2. me.read \in Nat /\ me.goal \in Status /\ result \in Nat
    BY <1>0 DEF ClientState, Record
  <2>3. me.read = record[me.run].version
    BY <1>2 DEF Cas
  <2> HIDE DEF result
  <2>4. record'[me.run] = [status |-> me.goal, version |-> me.read + 1, result |-> result]
    BY <1>0, <1>1, <2>1, <2>2, WriteEffect
  <2>5. record'[me.run].status = me.goal /\ record'[me.run].version = record[me.run].version + 1
    BY <2>3, <2>4
  <2>6. CASE me.goal = "QUEUED"
    <3>1. Goto(c, "enqueue")
      BY <2>1, <2>6 DEF AfterUpdate
    <3> QED
      BY <1>0, <1>1, <2>5, <2>6, <3>1, GotoEffect
  <2>7. CASE me.goal # "QUEUED"
    <3>1. Return(c)
      BY <2>1, <2>7 DEF AfterUpdate
    <3> QED
      BY <1>0, <1>1, <2>5, <2>7, <3>1, ReturnEffectOnClient
  <2> QED
    BY <2>6, <2>7
<1>3. CASE ~Cas(me.run, me.read) /\ me.tries + 1 < MaxAttempts
  <2> DEFINE n == me.tries + 1
             new == [me EXCEPT !.pc = "read", !.tries = n]
  <2>1. n \in Nat
    BY <1>0 DEF ClientState
  <2>2. client' = [client EXCEPT ![c].pc = "read", ![c].tries = @ + 1] /\ record' = record
    BY <1>3 DEF UpdateWrite
  <2>3. client' = [client EXCEPT ![c] = new]
    BY <1>0, <2>2
  <2> HIDE DEF n
  <2>4. new \in ClientState
    BY <1>0, <2>1, Zenon DEF ClientState
  <2>5. /\ new.op = me.op /\ new.run = me.run /\ new.seen = me.seen
        /\ new.pc = "read" /\ new.goal = me.goal
    BY <1>0 DEF ClientState
  <2> HIDE DEF new
  <2>6. OneClient(c) /\ client'[c] = new
    BY <1>0, <2>3, <2>4, ClientPut
  <2> QED
    BY <1>1, <2>2, <2>5, <2>6 DEF SamePurpose
<1>4. CASE ~Cas(me.run, me.read) /\ ~(me.tries + 1 < MaxAttempts)
  <2>1. Return(c) /\ record' = record /\ used' = [used EXCEPT !.conflicts = @ + 1]
    BY <1>4 DEF UpdateWrite
  <2>2. used'.conflicts # 0
    BY <1>0, <2>1 DEF Counted
  <2> QED
    BY <1>0, <1>1, <2>1, <2>2, ReturnEffectOnClient
<1> QED
  BY <1>2, <1>3, <1>4

\* submit creates the record and goes on to enqueue, or changes nothing.
LEMMA SubmitEffect ==
  ASSUME IInv, NEW c \in Clients, NEW r \in Runs, Submit(c, r)
  PROVE  \/ client' = client /\ record' = record
         \/ /\ OneClient(c) /\ client[c].pc = "idle"
            /\ client'[c].op = "submit" /\ client'[c].pc = "enqueue" /\ client'[c].run = r
            /\ client'[c].goal = "FAILED" /\ client'[c].seen.status = "none"
            /\ record'[r].status = "QUEUED"
<1>0. client \in [Clients -> ClientState] /\ record \in [Runs -> Record] /\ client[c].pc = "idle"
  BY DEF IInv, ClientsOK, StoreOK, Submit, Begin
<1>1. CASE record[r] # NoRecord
  BY <1>1 DEF Submit
<1>2. CASE record[r] = NoRecord
  <2> DEFINE new == [IdleClient EXCEPT !.op = "submit", !.pc = "enqueue", !.run = r, !.goal = "FAILED"]
  <2>1. "FAILED" \in Status
    BY StatusNames
  <2>2. new \in ClientState
    BY IdleClientTyped, <2>1, Zenon DEF ClientState
  <2>3. client' = [client EXCEPT ![c] = new] /\ Create(r)
    BY <1>2 DEF Submit
  <2>4. /\ new.op = "submit" /\ new.pc = "enqueue" /\ new.run = r /\ new.goal = "FAILED"
        /\ new.seen = NoRecord
    BY DEF IdleClient
  <2> HIDE DEF new
  <2>5. record'[r].status = "QUEUED" /\ NoRecord.status = "none"
    BY <1>0, <2>3 DEF Create, NoRecord
  <2>6. OneClient(c) /\ client'[c] = new
    BY <1>0, <2>2, <2>3, ClientPut
  <2> QED
    BY <1>0, <2>4, <2>5, <2>6
<1> QED
  BY <1>1, <1>2

LEMMA CancelCallEffect ==
  ASSUME IInv, NEW c \in Clients, NEW r \in Runs, Cancel(c, r)
  PROVE  /\ record' = record
         /\ \/ client' = client
            \/ /\ OneClient(c) /\ client[c].pc = "idle"
               /\ client'[c].op = "cancel" /\ client'[c].pc \in {"read", "revoke"} /\ client'[c].run = r
               /\ client'[c].goal = "CANCELLED" /\ client'[c].seen.status # "CANCELLED"
               /\ HasRecord(r)
<1> DEFINE rec == record[r]
<1>0. client \in [Clients -> ClientState] /\ rec \in Record /\ client[c].pc = "idle"
      /\ (rec.status = "none" => rec = NoRecord)
  BY DEF IInv, ClientsOK, StoreOK, Cancel, Begin
<1>1. CASE rec = NoRecord \/ rec.status \in Terminal
  BY <1>1 DEF Cancel
<1>2. CASE ~(rec = NoRecord \/ rec.status \in Terminal)
  <2> DEFINE pc == IF rec.status \in {"PAUSED", "BLOCKED"} THEN "read" ELSE "revoke"
             new == [IdleClient EXCEPT !.op = "cancel", !.run = r, !.seen = rec,
                                       !.goal = "CANCELLED", !.pc = pc]
  <2>1. "CANCELLED" \in Status /\ rec.status # "CANCELLED" /\ rec.status # "none"
    BY <1>0, <1>2, StatusNames
  <2>2. pc \in {"read", "revoke"}
    OBVIOUS
  <2>3. client' = [client EXCEPT ![c] = new]
    BY <1>2 DEF Cancel
  <2> HIDE DEF pc, rec
  <2>4. new \in ClientState
    BY IdleClientTyped, <1>0, <2>1, <2>2, Zenon DEF ClientState
  <2>5. /\ new.op = "cancel" /\ new.pc = pc /\ new.run = r /\ new.goal = "CANCELLED"
        /\ new.seen = rec
    BY DEF IdleClient
  <2> HIDE DEF new
  <2>6. OneClient(c) /\ client'[c] = new
    BY <1>0, <2>3, <2>4, ClientPut
  <2>7. record' = record
    BY DEF Cancel
  <2> QED
    BY <1>0, <2>1, <2>2, <2>5, <2>6, <2>7 DEF HasRecord, rec
<1> QED
  BY <1>1, <1>2 DEF Cancel

LEMMA ResumeCallEffect ==
  ASSUME IInv, NEW c \in Clients, NEW r \in Runs, Resume(c, r)
  PROVE  /\ record' = record
         /\ \/ client' = client
            \/ /\ OneClient(c) /\ client[c].pc = "idle"
               /\ client'[c].op = "resume" /\ client'[c].pc = "read" /\ client'[c].run = r
               /\ client'[c].goal = "QUEUED" /\ client'[c].seen.status \in {"PAUSED", "BLOCKED"}
               /\ HasRecord(r)
<1> DEFINE rec == record[r]
<1>0. client \in [Clients -> ClientState] /\ rec \in Record /\ client[c].pc = "idle"
  BY DEF IInv, ClientsOK, StoreOK, Resume, Begin
<1>1. CASE rec.status \notin {"PAUSED", "BLOCKED"}
  BY <1>1 DEF Resume
<1>2. CASE rec.status \in {"PAUSED", "BLOCKED"}
  <2> DEFINE new == [IdleClient EXCEPT !.op = "resume", !.run = r, !.seen = rec,
                                       !.goal = "QUEUED", !.pc = "read"]
  <2>1. "QUEUED" \in Status
    BY StatusNames
  <2>3. client' = [client EXCEPT ![c] = new]
    BY <1>2 DEF Resume
  <2> HIDE DEF rec
  <2>4. new \in ClientState
    BY IdleClientTyped, <1>0, <2>1, Zenon DEF ClientState
  <2>5. /\ new.op = "resume" /\ new.pc = "read" /\ new.run = r /\ new.goal = "QUEUED"
        /\ new.seen = rec
    BY DEF IdleClient
  <2> HIDE DEF new
  <2>6. OneClient(c) /\ client'[c] = new
    BY <1>0, <2>3, <2>4, ClientPut
  <2>7. record' = record
    BY DEF Resume
  <2> QED
    BY <1>0, <1>2, <2>5, <2>6, <2>7 DEF HasRecord, rec
<1> QED
  BY <1>1, <1>2 DEF Resume

LEMMA RevokeEffect ==
  ASSUME IInv, NEW c \in Clients, Revoke(c)
  PROVE  /\ OneClient(c) /\ record' = record /\ client[c].run \in Runs /\ client[c].op = "cancel"
         /\ client[c].goal = "CANCELLED" /\ client[c].pc = "revoke"
         /\ \/ /\ SamePurpose(c) /\ client'[c].pc = "read" /\ client'[c].goal = client[c].goal
               /\ \/ /\ backend = "celery" /\ q' = q /\ asked' = asked
                     /\ revoked' = revoked \cup ({"START", "RESUME"} \X {client[c].run})
                  \/ /\ backend # "celery" /\ CancelAccepts(q, client[c].run) /\ revoked' = revoked
                     /\ q' = CancelScript(q, client[c].run) /\ asked' = asked \cup {client[c].run}
            \/ client'[c].pc = "idle" /\ q' = q /\ asked' = asked /\ revoked' = revoked
<1>0. client \in [Clients -> ClientState] /\ client[c].run \in Runs /\ record' = record
      /\ client[c].op = "cancel" /\ client[c].goal = "CANCELLED" /\ client[c].pc = "revoke"
  BY DEF IInv, ClientsOK, ClientOK, Revoke
<1>1. CASE Goto(c, "read")
  <2>1. /\ OneClient(c) /\ SamePurpose(c) /\ client'[c].pc = "read"
        /\ client'[c].goal = client[c].goal
    BY <1>0, <1>1, GotoEffect
  <2>2. \/ /\ backend = "celery" /\ q' = q /\ asked' = asked
           /\ revoked' = revoked \cup ({"START", "RESUME"} \X {client[c].run})
        \/ /\ backend # "celery" /\ CancelAccepts(q, client[c].run) /\ revoked' = revoked
           /\ q' = CancelScript(q, client[c].run) /\ asked' = asked \cup {client[c].run}
        \/ Return(c) /\ q' = q /\ asked' = asked /\ revoked' = revoked
    BY DEF Revoke
  <2>3. ~Return(c)
    BY <1>0, <2>1, ReturnEffectOnClient
  <2> QED
    BY <1>0, <2>1, <2>2, <2>3
<1>2. CASE Return(c)
  <2>1. OneClient(c) /\ client'[c].pc = "idle"
    BY <1>0, <1>2, ReturnEffectOnClient
  <2>2. ~Goto(c, "read")
    BY <1>0, <2>1, GotoEffect
  <2>3. q' = q /\ asked' = asked /\ revoked' = revoked
    BY <2>2 DEF Revoke
  <2> QED
    BY <1>0, <2>1, <2>3
<1> QED
  BY <1>1, <1>2 DEF Revoke

\* A call that does nothing meanwhile carries on: what it read is the record,
\* or a version that is gone.
LEMMA ClientUntouched ==
  ASSUME IInv, record' \in [Runs -> Record], \A r \in Runs : Progress(r),
         NEW c \in Clients, client'[c] = client[c]
  PROVE  ClientOK(c)'
<1> DEFINE me == client[c]
<1>0. ClientOK(c) /\ me \in ClientState /\ record \in [Runs -> Record]
  BY DEF IInv, ClientsOK, StoreOK
<1>1. me.pc # "idle" => me.run \in Runs /\ HasRecord(me.run) /\ record'[me.run].status # "none"
  BY <1>0 DEF ClientOK, Progress
<1>2. ASSUME me.pc = "write"
      PROVE  /\ me.read =< record'[me.run].version
             /\ record'[me.run].version = me.read => record'[me.run].status \in Expected(c)
  <2>1. me.run \in Runs /\ HasRecord(me.run) /\ Progress(me.run)
    BY <1>1, <1>2
  <2>2. /\ me.read \in Nat /\ record[me.run].version \in Nat /\ record'[me.run].version \in Nat
    BY <1>0, <2>1 DEF ClientState, Record
  <2>3. /\ me.read =< record[me.run].version
        /\ record[me.run].version = me.read => record[me.run].status \in Expected(c)
    BY <1>0, <1>2 DEF ClientOK
  <2>4. /\ record[me.run].version =< record'[me.run].version
        /\ record'[me.run].version = record[me.run].version => record'[me.run] = record[me.run]
    BY <2>1 DEF Progress
  <2>5. me.read =< record'[me.run].version
    BY <2>2, <2>3, <2>4
  <2>6. record'[me.run].version = me.read => record'[me.run].version = record[me.run].version
    BY <2>2, <2>3, <2>4
  <2> QED
    BY <2>3, <2>4, <2>5, <2>6
<1>3. Expected(c)' = Expected(c)
  BY DEF Expected
<1> QED
  BY <1>0, <1>1, <1>2, <1>3 DEF ClientOK, HasRecord

LEMMA ClientsKept ==
  ASSUME IInv, [Next]_vars
  PROVE  ClientsOK'
<1>0. /\ client \in [Clients -> ClientState] /\ record \in [Runs -> Record]
      /\ record' \in [Runs -> Record] /\ \A r \in Runs : Progress(r)
  BY StoreKept DEF IInv, ClientsOK, StoreOK
<1>1. ASSUME client' = client PROVE ClientsOK'
  BY <1>0, <1>1, ClientUntouched DEF ClientsOK
<1>2. ASSUME NEW c \in Clients, OneClient(c), ClientOK(c)' PROVE ClientsOK'
  <2>1. \A d \in Clients \ {c} : ClientOK(d)'
    BY <1>0, <1>2, ClientUntouched DEF OneClient
  <2> QED
    BY <1>2, <2>1 DEF OneClient, ClientsOK
<1>3. ASSUME NEW c \in Clients, client'[c].pc = "idle" PROVE ClientOK(c)'
  BY <1>3 DEF ClientOK
\* A call that goes on with its purpose.
<1>4. ASSUME NEW c \in Clients, client[c].pc # "idle", SamePurpose(c), client'[c].pc # "idle"
      PROVE  /\ client'[c].run \in Runs /\ record'[client'[c].run].status # "none"
             /\ client'[c].run = client[c].run
             /\ client'[c].op = client[c].op /\ client'[c].seen = client[c].seen
  <2>1. client[c].run \in Runs /\ HasRecord(client[c].run)
    BY <1>4 DEF IInv, ClientsOK, ClientOK
  <2> QED
    BY <1>0, <1>4, <2>1 DEF SamePurpose, Progress, HasRecord
<1>5. ASSUME NEW c \in Clients, NEW r \in Runs, Submit(c, r) PROVE ClientsOK'
  <2>1. CASE /\ OneClient(c) /\ client[c].pc = "idle"
             /\ client'[c].op = "submit" /\ client'[c].pc = "enqueue" /\ client'[c].run = r
             /\ client'[c].goal = "FAILED" /\ client'[c].seen.status = "none"
             /\ record'[r].status = "QUEUED"
    <3>1. ClientOK(c)'
      BY <2>1 DEF ClientOK, HasRecord
    <3> QED
      BY <1>2, <2>1, <3>1
  <2> QED
    BY <1>1, <1>5, <2>1, SubmitEffect
<1>6. ASSUME NEW c \in Clients, NEW r \in Runs, Cancel(c, r) PROVE ClientsOK'
  <2>0. record' = record
    BY <1>6, CancelCallEffect
  <2>1. CASE /\ OneClient(c) /\ client[c].pc = "idle"
             /\ client'[c].op = "cancel" /\ client'[c].pc \in {"read", "revoke"} /\ client'[c].run = r
             /\ client'[c].goal = "CANCELLED" /\ client'[c].seen.status # "CANCELLED"
             /\ HasRecord(r)
    <3>1. ClientOK(c)'
      BY <2>0, <2>1 DEF ClientOK, HasRecord
    <3> QED
      BY <1>2, <2>1, <3>1
  <2> QED
    BY <1>1, <1>6, <2>1, CancelCallEffect
<1>7. ASSUME NEW c \in Clients, NEW r \in Runs, Resume(c, r) PROVE ClientsOK'
  <2>0. record' = record
    BY <1>7, ResumeCallEffect
  <2>1. CASE /\ OneClient(c) /\ client[c].pc = "idle"
             /\ client'[c].op = "resume" /\ client'[c].pc = "read" /\ client'[c].run = r
             /\ client'[c].goal = "QUEUED" /\ client'[c].seen.status \in {"PAUSED", "BLOCKED"}
             /\ HasRecord(r)
    <3>1. ClientOK(c)'
      BY <2>0, <2>1 DEF ClientOK, HasRecord
    <3> QED
      BY <1>2, <2>1, <3>1
  <2> QED
    BY <1>1, <1>7, <2>1, ResumeCallEffect
<1>8. ASSUME NEW c \in Clients, UpdateRead(c) PROVE ClientsOK'
  <2>0. OneClient(c) /\ ClientOK(c) /\ client[c].pc = "read" /\ record' = record
    BY <1>8, UpdateReadEffect DEF IInv, ClientsOK, UpdateRead
  <2>1. CASE /\ SamePurpose(c) /\ client'[c].pc = "write" /\ client'[c].goal = client[c].goal
             /\ client'[c].read = record[client[c].run].version
             /\ record[client[c].run].status \in Expected(c)
    <3>1. Expected(c)' = Expected(c)
      BY <2>1 DEF Expected, SamePurpose
    <3>2. client'[c].run = client[c].run /\ client[c].run \in Runs
      BY <2>0, <2>1 DEF SamePurpose, ClientOK
    <3>3. record[client[c].run].version \in Nat
      BY <1>0, <3>2 DEF Record
    <3>4. ClientOK(c)'
      BY <2>0, <2>1, <3>1, <3>2, <3>3 DEF ClientOK, HasRecord, SamePurpose
    <3> QED
      BY <1>2, <2>0, <3>4
  <2> QED
    BY <1>2, <1>3, <1>8, <2>0, <2>1, UpdateReadEffect
<1>9. ASSUME NEW c \in Clients, UpdateWrite(c) PROVE ClientsOK'
  <2>0. OneClient(c) /\ ClientOK(c) /\ client[c].pc = "write"
    BY <1>9, UpdateWriteEffect DEF IInv, ClientsOK, UpdateWrite
  <2>1. CASE /\ client[c].goal = "QUEUED" /\ SamePurpose(c) /\ client'[c].pc = "enqueue"
             /\ client'[c].goal = "QUEUED"
    <3>1. /\ client'[c].run \in Runs /\ record'[client'[c].run].status # "none"
          /\ client'[c].op = client[c].op /\ client'[c].seen = client[c].seen
      BY <1>4, <2>0, <2>1
    <3>2. client[c].op = "resume" /\ client[c].seen.status \in {"PAUSED", "BLOCKED"}
      BY <2>0, <2>1 DEF ClientOK, HasRecord
    <3>3. ClientOK(c)'
      BY <2>1, <3>1, <3>2 DEF ClientOK, HasRecord
    <3> QED
      BY <1>2, <2>0, <3>3
  <2>2. CASE SamePurpose(c) /\ client'[c].pc = "read" /\ client'[c].goal = client[c].goal
    <3>1. /\ client'[c].run \in Runs /\ record'[client'[c].run].status # "none"
          /\ client'[c].op = client[c].op /\ client'[c].seen = client[c].seen
      BY <1>4, <2>0, <2>2
    <3>3. ClientOK(c)'
      BY <2>0, <2>2, <3>1 DEF ClientOK, HasRecord
    <3> QED
      BY <1>2, <2>0, <3>3
  <2>3. CASE client'[c].pc = "idle"
    BY <1>2, <1>3, <2>0, <2>3
  <2> QED
    BY <1>9, <2>1, <2>2, <2>3, UpdateWriteEffect
<1>10. ASSUME NEW c \in Clients, Return(c) PROVE ClientsOK'
  BY <1>0, <1>2, <1>3, <1>10, ReturnEffectOnClient
<1>11. ASSUME NEW c \in Clients, Undo(c), client[c].pc = "enqueue" PROVE ClientsOK'
  <2>0. /\ OneClient(c) /\ ClientOK(c) /\ SamePurpose(c) /\ client'[c].pc = "read"
        /\ client'[c].goal = IF client[c].op = "submit" THEN "FAILED" ELSE client[c].seen.status
    BY <1>0, <1>11, UndoEffect DEF IInv, ClientsOK
  <2>1. /\ client'[c].run \in Runs /\ record'[client'[c].run].status # "none"
        /\ client'[c].op = client[c].op /\ client'[c].seen = client[c].seen
    BY <1>4, <1>11, <2>0
  <2>2. \/ client[c].op = "submit" /\ client[c].seen.status = "none"
        \/ client[c].op = "resume" /\ client[c].seen.status \in {"PAUSED", "BLOCKED"}
    BY <1>11, <2>0 DEF ClientOK, HasRecord
  <2>3. ClientOK(c)'
    BY <2>0, <2>1, <2>2 DEF ClientOK, HasRecord
  <2> QED
    BY <1>2, <2>0, <2>3
<1>12. ASSUME NEW c \in Clients, Revoke(c) PROVE ClientsOK'
  <2>0. /\ OneClient(c) /\ ClientOK(c) /\ client[c].pc = "revoke" /\ client[c].op = "cancel"
        /\ client[c].goal = "CANCELLED"
        /\ \/ SamePurpose(c) /\ client'[c].pc = "read" /\ client'[c].goal = client[c].goal
           \/ client'[c].pc = "idle"
    BY <1>12, RevokeEffect DEF IInv, ClientsOK
  <2>1. CASE SamePurpose(c) /\ client'[c].pc = "read" /\ client'[c].goal = client[c].goal
    <3>1. /\ client'[c].run \in Runs /\ record'[client'[c].run].status # "none"
          /\ client'[c].op = client[c].op /\ client'[c].seen = client[c].seen
      BY <1>4, <2>0, <2>1
    <3>3. ClientOK(c)'
      BY <2>0, <2>1, <3>1 DEF ClientOK, HasRecord
    <3> QED
      BY <1>2, <2>0, <3>3
  <2> QED
    BY <1>2, <1>3, <2>0, <2>1
<1>13. ASSUME NEW c \in Clients, ClientCall(c) \/ ClientStep(c) \/ ClientFault(c) PROVE ClientsOK'
  <2>1. ClientCall(c) => ClientsOK'
    BY <1>5, <1>6, <1>7 DEF ClientCall
  <2>2. ClientStep(c) => UpdateRead(c) \/ UpdateWrite(c) \/ Return(c) \/ Revoke(c)
                         \/ (Undo(c) /\ client[c].pc = "enqueue")
    BY DEF ClientStep, Enqueue, EnqueueRefused
  <2>3. ClientFault(c) => Undo(c) /\ client[c].pc = "enqueue"
    BY DEF ClientFault, EnqueueFails, EnqueueAnswerLost
  <2> QED
    BY <1>8, <1>9, <1>10, <1>11, <1>12, <1>13, <2>1, <2>2, <2>3
<1>14. ASSUME NEW w \in Workers, WorkerStep(w) \/ WorkerFault(w) \/ Take(w) PROVE ClientsOK'
  <2>1. client' = client
    BY <1>14 DEF WorkerStep, WorkerFault, Take, ReadRecord, LoopReturns, Settle, PullClaim, PullAcknowledge,
                 PullRelease, TaskClaim, TaskDuplicate, TaskMarkFailed, TaskAcknowledge, TaskRaises, LoopReturnsUnsettled,
                 LoopRaises, Die, PullLease, Deliver
  <2> QED
    BY <1>1, <2>1
<1> QED
  BY <1>1, <1>13, <1>14 DEF Next, vars, Discard

SameJob(w) == worker'[w].run = worker[w].run /\ worker'[w].ticket = worker[w].ticket

LEMMA WorkerPut ==
  ASSUME worker \in [Workers -> WorkerState], NEW w \in Workers, NEW new \in WorkerState,
         worker' = [worker EXCEPT ![w] = new]
  PROVE  OneWorker(w) /\ worker'[w] = new
BY DEF OneWorker

LEMMA LeaveEffect ==
  ASSUME worker \in [Workers -> WorkerState], NEW w \in Workers, Leave(w)
  PROVE  OneWorker(w) /\ worker'[w].pc = "idle"
<1>1. IdleWorker \in WorkerState
  BY StatusNames DEF IdleWorker, WorkerState
<1>2. IdleWorker.pc = "idle"
  BY DEF IdleWorker
<1> QED
  BY <1>1, <1>2, WorkerPut DEF Leave

LEMMA SetEffect ==
  ASSUME worker \in [Workers -> WorkerState], NEW w \in Workers,
         NEW pc \in {"failed", "ack", "release"}, Set(w, pc)
  PROVE  /\ OneWorker(w) /\ SameJob(w) /\ worker'[w].pc = pc /\ worker'[w].read = worker[w].read
<1> DEFINE new == [worker[w] EXCEPT !.pc = pc]
<1>1. new \in WorkerState
  BY Zenon DEF WorkerState
<1>2. worker' = [worker EXCEPT ![w] = new]
  BY DEF Set
<1>3. /\ new.pc = pc /\ new.run = worker[w].run /\ new.ticket = worker[w].ticket
      /\ new.read = worker[w].read
  BY DEF WorkerState
<1> HIDE DEF new
<1> QED
  BY <1>1, <1>2, <1>3, WorkerPut DEF SameJob

LEMMA ReadRecordEffect ==
  ASSUME IInv, NEW w \in Workers, ReadRecord(w)
  PROVE  /\ OneWorker(w) /\ SameJob(w) /\ worker[w].pc = "get" /\ worker[w].run \in Runs
         /\ worker'[w].pc = "claim" /\ worker'[w].read = record[worker[w].run]
<1>0. /\ worker \in [Workers -> WorkerState] /\ record \in [Runs -> Record]
      /\ worker[w].pc = "get" /\ worker[w].run \in Runs
  BY DEF IInv, WorkersOK, WorkerOK, StoreOK, ReadRecord
<1> DEFINE rec == record[worker[w].run]
           new == [worker[w] EXCEPT !.pc = "claim", !.read = rec]
<1>1. rec \in Record
  BY <1>0
<1>2. worker' = [worker EXCEPT ![w].pc = "claim", ![w].read = rec]
  BY DEF ReadRecord
<1> HIDE DEF rec
<1>3. new \in WorkerState
  BY <1>0, <1>1, Zenon DEF WorkerState
<1>4. worker' = [worker EXCEPT ![w] = new]
  BY <1>0, <1>2
<1>5. /\ new.pc = "claim" /\ new.run = worker[w].run /\ new.ticket = worker[w].ticket
      /\ new.read = rec
  BY <1>0 DEF WorkerState
<1> HIDE DEF new
<1> QED
  BY <1>0, <1>3, <1>4, <1>5, WorkerPut DEF SameJob, rec

LEMMA LoopReturnsEffect ==
  ASSUME worker \in [Workers -> WorkerState], NEW w \in Workers, NEW s \in {"PAUSED", "COMPLETED"},
         LoopReturns(w, s)
  PROVE  /\ OneWorker(w) /\ SameJob(w) /\ worker[w].pc = "run"
         /\ worker'[w].pc = "settle" /\ worker'[w].read = worker[w].read /\ worker'[w].outcome = s
<1> DEFINE new == [worker[w] EXCEPT !.pc = "settle", !.outcome = s]
<1>1. worker' = [worker EXCEPT ![w].pc = "settle", ![w].outcome = s] /\ worker[w].pc = "run"
  BY DEF LoopReturns
<1>2. s \in Status
  BY StatusNames
<1>3. new \in WorkerState
  BY <1>2, Zenon DEF WorkerState
<1>4. worker' = [worker EXCEPT ![w] = new]
  BY <1>1
<1>5. /\ new.pc = "settle" /\ new.run = worker[w].run /\ new.ticket = worker[w].ticket
      /\ new.read = worker[w].read /\ new.outcome = s
  BY DEF WorkerState
<1> HIDE DEF new
<1> QED
  BY <1>1, <1>3, <1>4, <1>5, WorkerPut DEF SameJob

\* The claim is made over the record that was read, or it is refused.
LEMMA ClaimEffect ==
  ASSUME IInv, NEW w \in Workers, NEW refused \in {"release", "ack"}, Claim(w, refused),
         worker[w].pc = "claim"
  PROVE  /\ OneWorker(w) /\ SameJob(w) /\ worker[w].run \in Runs
         /\ \/ /\ worker[w].read = record[worker[w].run]
               /\ worker'[w].pc = "run"
               /\ worker'[w].read.version = worker[w].read.version + 1
               /\ worker'[w].read.result = worker[w].read.result
               /\ record'[worker[w].run] = [status |-> "RUNNING", version |-> worker[w].read.version + 1,
                                            result |-> worker[w].read.result]
               /\ \A x \in Runs : x # worker[w].run => record'[x] = record[x]
            \/ /\ worker[w].read # record[worker[w].run] /\ record' = record
               /\ worker'[w].pc = refused /\ worker'[w].read = worker[w].read
<1> DEFINE me == worker[w]
<1>0. /\ worker \in [Workers -> WorkerState] /\ record \in [Runs -> Record] /\ me.run \in Runs
      /\ record[me.run].version = me.read.version => record[me.run] = me.read
  BY DEF IInv, WorkersOK, WorkerOK, StoreOK
<1>1. CASE Cas(me.run, me.read.version)
  <2>1. /\ Write(me.run, me.read.version, "RUNNING", me.read.result)
        /\ worker' = [worker EXCEPT ![w].pc = "run", ![w].read.version = @ + 1]
    BY <1>1 DEF Claim
  <2>2. me.read \in Record /\ me.read.version \in Nat /\ me.read.result \in Nat /\ "RUNNING" \in Status
    BY <1>0, StatusNames DEF WorkerState, Record
  <2> DEFINE v == me.read.version + 1
             read == [me.read EXCEPT !.version = v]
             new == [me EXCEPT !.pc = "run", !.read = read]
  <2>3. v \in Nat
    BY <2>2
  <2>4. read \in Record /\ read.version = v /\ read.result = me.read.result
    BY <2>2, <2>3 DEF Record
  <2>5. worker' = [worker EXCEPT ![w] = new]
    BY <1>0, <2>1, <2>2
  <2>6. me.read = record[me.run]
    BY <1>0, <1>1 DEF Cas
  <2>7. /\ record'[me.run] = [status |-> "RUNNING", version |-> v, result |-> me.read.result]
        /\ \A x \in Runs : x # me.run => record'[x] = record[x]
    BY <1>0, <2>1, <2>2, WriteEffect
  <2> HIDE DEF v, read
  <2>8. new \in WorkerState
    BY <1>0, <2>4, Zenon DEF WorkerState
  <2>9. /\ new.pc = "run" /\ new.run = me.run /\ new.ticket = me.ticket /\ new.read = read
    BY <1>0 DEF WorkerState
  <2> HIDE DEF new
  <2>10. OneWorker(w) /\ worker'[w] = new
    BY <1>0, <2>5, <2>8, WorkerPut
  <2> QED
    BY <1>0, <2>4, <2>6, <2>7, <2>9, <2>10 DEF SameJob, v
<1>2. CASE ~Cas(me.run, me.read.version)
  <2>1. Set(w, refused) /\ record' = record
    BY <1>2 DEF Claim
  <2>2. me.read # record[me.run]
    BY <1>2 DEF Cas
  <2>3. OneWorker(w) /\ SameJob(w) /\ worker'[w].pc = refused /\ worker'[w].read = worker[w].read
    BY <1>0, <2>1, SetEffect
  <2> QED
    BY <1>0, <2>1, <2>2, <2>3
<1> QED
  BY <1>1, <1>2

\* A delivery: the message or lease, and the run it is about.
LEMMA DeliverEffect ==
  ASSUME IInv, NEW w \in Workers, NEW m, Deliver(w, m)
  PROVE  /\ OneWorker(w) /\ worker[w].pc = "idle" /\ m \in Message /\ HasRecord(m.run)
         /\ worker'[w].pc = "get" /\ worker'[w].run = m.run /\ worker'[w].ticket = m
<1>0. /\ worker \in [Workers -> WorkerState] /\ m \in Message /\ m.run \in Runs /\ HasRecord(m.run)
      /\ worker[w].pc = "idle"
  BY DEF IInv, WorkersOK, QueueOK, Message, Deliver
<1> DEFINE new == [IdleWorker EXCEPT !.pc = "get", !.run = m.run, !.ticket = m]
<1>1. worker' = [worker EXCEPT ![w] = new]
  BY DEF Deliver
<1>2. IdleWorker \in WorkerState
  BY StatusNames DEF IdleWorker, WorkerState
<1>3. new \in WorkerState
  BY <1>0, <1>2, Zenon DEF WorkerState
<1>4. new.pc = "get" /\ new.run = m.run /\ new.ticket = m
  BY DEF IdleWorker
<1> HIDE DEF new
<1> QED
  BY <1>0, <1>1, <1>3, <1>4, WorkerPut

LEMMA PullLeaseEffect ==
  ASSUME IInv, NEW w \in Workers, NEW ripe \in SUBSET q.delayed, NEW late \in SUBSET DOMAIN q.leases,
         PullLease(w, ripe, late)
  PROVE  \/ worker' = worker
         \/ /\ OneWorker(w) /\ worker[w].pc = "idle" /\ q'.issued = q.issued + 1
            /\ worker'[w].pc = "get" /\ worker'[w].run \in DOMAIN q.jobs
            /\ worker'[w].run \in Runs /\ worker'[w].ticket = q'.issued
<1> DEFINE after == LeaseScript(q, ripe, late)
           R == RunsOf(q, late)
<1>0. /\ worker \in [Workers -> WorkerState] /\ worker[w].pc = "idle" /\ QueueInv(q) /\ q' = after
      /\ worker' = IF after.issued = q.issued \/ after.jobs[after.leases[after.issued]] = "RESUME" THEN worker
                   ELSE [worker EXCEPT ![w] = [IdleWorker EXCEPT
                           !.pc = "get", !.run = after.leases[after.issued], !.ticket = after.issued]]
  BY DEF IInv, WorkersOK, QueueOK, PullLease
<1>1. /\ DOMAIN after.jobs = DOMAIN q.jobs \ (R \cap q.cancelled)
      /\ \/ after.issued = q.issued
         \/ \E h \in Runs : /\ after.issued = q.issued + 1
                            /\ after.leases = Put(Del(q.leases, late), q.issued + 1, h)
                            /\ h \in DOMAIN after.jobs
  <2>1. LeasedOut(q, late, after)
    BY <1>0, LeaseEffect
  <2> HIDE DEF after
  <2> QED
    BY <2>1 DEF LeasedOut
<1> HIDE DEF after
<1>2. CASE after.issued = q.issued
  BY <1>0, <1>2
<1>3. CASE after.issued # q.issued
  <2>1. PICK h \in Runs : /\ after.issued = q.issued + 1
                          /\ after.leases = Put(Del(q.leases, late), q.issued + 1, h)
                          /\ h \in DOMAIN after.jobs
    BY <1>1, <1>3
  <2>2. after.leases[after.issued] = h /\ h \in DOMAIN q.jobs
    BY <1>1, <2>1 DEF Put
  <2>3. after.issued \in Nat
    BY <1>0, <2>1 DEF QueueInv, KeysTyped
  <2> DEFINE n == after.issued
             new == [IdleWorker EXCEPT !.pc = "get", !.run = h, !.ticket = n]
  <2>4. worker' = worker \/ worker' = [worker EXCEPT ![w] = new]
    BY <1>0, <2>2
  <2>5. IdleWorker \in WorkerState
    BY StatusNames DEF IdleWorker, WorkerState
  <2> HIDE DEF n
  <2>6. new \in WorkerState
    BY <2>3, <2>5, Zenon DEF WorkerState, n
  <2>7. new.pc = "get" /\ new.run = h /\ new.ticket = n
    BY DEF IdleWorker
  <2> HIDE DEF new
  <2>8. worker' = worker \/ (OneWorker(w) /\ worker'[w] = new)
    BY <1>0, <2>4, <2>6, WorkerPut
  <2> QED
    BY <1>0, <2>1, <2>2, <2>7, <2>8 DEF n
<1> QED
  BY <1>2, <1>3

-----------------------------------------------------------------------------
(* What a step does to the queue                                            *)

QEnqueue(r, a) == EnqueueAccepts(q, r) /\ q' = EnqueueScript(q, r, a) /\ asked' = asked \ {r}
QCancel(r) == CancelAccepts(q, r) /\ q' = CancelScript(q, r) /\ asked' = asked \cup {r}
QAcknowledge(l, r) == q' = AcknowledgeScript(q, l, r) /\ asked' = asked
QRelease(l, r, delay) == q' = ReleaseScript(q, l, r, delay) /\ asked' = asked
QLease(ripe, late) == q' = LeaseScript(q, ripe, late) /\ asked' = asked

\* One script, or none (RedisQueueBackend).
QueueMove ==
  \/ q' = q /\ asked' = asked
  \/ \E r \in Runs : \E a : QEnqueue(r, a) /\ HasRecord(r)
  \/ \E r \in Runs : QCancel(r)
  \/ \E l, r : QAcknowledge(l, r)
  \/ \E l, r : \E delay \in BOOLEAN : QRelease(l, r, delay)
  \/ \E ripe \in SUBSET q.delayed, late \in SUBSET DOMAIN q.leases : QLease(ripe, late)

LEMMA QueueMoves ==
  ASSUME IInv, [Next]_vars
  PROVE  QueueMove
<1>1. ASSUME NEW c \in Clients, Enqueue(c) \/ EnqueueAnswerLost(c) PROVE QueueMove
  <2>1. client[c].run \in Runs /\ HasRecord(client[c].run)
    BY <1>1 DEF Enqueue, EnqueueAnswerLost, IInv, ClientsOK, ClientOK
  <2>2. (q' = q /\ asked' = asked) \/ QEnqueue(client[c].run, Action(c))
    BY <1>1 DEF Enqueue, Sent, EnqueueAnswerLost, Accepted, QEnqueue
  <2> QED
    BY <2>1, <2>2 DEF QueueMove
<1>2. ASSUME NEW c \in Clients, Revoke(c) PROVE QueueMove
  BY <1>2, RevokeEffect DEF QueueMove, QCancel
<1>3. ASSUME NEW c \in Clients, ClientCall(c) \/ ClientStep(c) \/ ClientFault(c) PROVE QueueMove
  <2>1. Enqueue(c) \/ EnqueueAnswerLost(c) \/ Revoke(c) \/ (q' = q /\ asked' = asked)
    BY <1>3 DEF ClientCall, ClientStep, ClientFault, Submit, Cancel, Resume, UpdateRead, UpdateWrite,
                EnqueueRefused, EnqueueFails
  <2> QED
    BY <1>1, <1>2, <2>1 DEF QueueMove
<1>4. ASSUME NEW w \in Workers, WorkerStep(w) \/ WorkerFault(w) PROVE QueueMove
  <2>1. \/ PullAcknowledge(w) \/ PullRelease(w, TRUE) \/ PullRelease(w, FALSE)
        \/ (q' = q /\ asked' = asked)
    BY <1>4 DEF WorkerStep, WorkerFault, ReadRecord, LoopReturns, Settle, PullClaim, TaskClaim, TaskDuplicate,
                TaskMarkFailed, TaskAcknowledge, TaskRaises, LoopReturnsUnsettled, LoopRaises, Die
  <2>2. PullAcknowledge(w) => QAcknowledge(worker[w].ticket, worker[w].run)
    BY DEF PullAcknowledge, QAcknowledge
  <2>3. \A d \in BOOLEAN : PullRelease(w, d) => QRelease(worker[w].ticket, worker[w].run, d)
    BY DEF PullRelease, QRelease
  <2> QED
    BY <2>1, <2>2, <2>3 DEF QueueMove
<1>5. ASSUME NEW w \in Workers, Take(w) PROVE QueueMove
  <2>1. CASE \E m \in broker : Deliver(w, m)
    BY <2>1 DEF Deliver, QueueMove
  <2>2. CASE \E ripe \in SUBSET q.delayed, late \in SUBSET DOMAIN q.leases : PullLease(w, ripe, late)
    BY <2>2 DEF PullLease, QueueMove, QLease
  <2> QED
    BY <1>5, <2>1, <2>2 DEF Take
<1> QED
  BY <1>3, <1>4, <1>5 DEF Next, vars, Discard, QueueMove

LEMMA AcknowledgeCases ==
  ASSUME NEW k, QueueInv(k), NEW l, NEW r
  PROVE  LET s == AcknowledgeScript(k, l, r) IN
         \/ s = k
         \/ /\ Held(k, l, r) /\ QueueInv(s)
            /\ DOMAIN s.jobs = DOMAIN k.jobs \ {r} /\ s.cancelled = k.cancelled \ {r}
            /\ s.leases = Del(k.leases, {l}) /\ s.issued = k.issued
            /\ Command(s, r) = Queue!Absent
            /\ OthersKept(k, s, {r})
<1>1. CASE Held(k, l, r)
  <2> DEFINE s == Forget(Unleased(k, l, r), {r})
  <2>1. AcknowledgeScript(k, l, r) = s
    BY <1>1 DEF AcknowledgeScript
  <2>2. /\ QueueInv(s)
        /\ DOMAIN s.jobs = DOMAIN k.jobs \ {r} /\ s.cancelled = k.cancelled \ {r}
        /\ s.leases = Del(k.leases, {l}) /\ s.issued = k.issued
        /\ Command(s, r) = Queue!Absent
        /\ OthersKept(k, s, {r})
    BY <1>1, DropEffect
  <2> HIDE DEF s
  <2> QED
    BY <1>1, <2>1, <2>2
<1>2. CASE ~Held(k, l, r)
  BY <1>2 DEF AcknowledgeScript
<1> QED
  BY <1>1, <1>2

\* s is k, or k with the command of r given back or, if cancelled, dropped.
Released(k, l, r, s) ==
  \/ s = k
  \/ /\ Held(k, l, r) /\ QueueInv(s)
     /\ s.leases = Del(k.leases, {l}) /\ s.issued = k.issued
     /\ OthersKept(k, s, {r})
     /\ \/ /\ r \in k.cancelled /\ Command(s, r) = Queue!Absent
           /\ DOMAIN s.jobs = DOMAIN k.jobs \ {r} /\ s.cancelled = k.cancelled \ {r}
        \/ /\ r \notin k.cancelled /\ Command(s, r) = Queue!Waiting(k.attempts[r] + 1)
           /\ DOMAIN s.jobs = DOMAIN k.jobs /\ s.cancelled = k.cancelled

LEMMA ReleaseCases ==
  ASSUME NEW k, QueueInv(k), NEW l, NEW r, NEW delay \in BOOLEAN
  PROVE  Released(k, l, r, ReleaseScript(k, l, r, delay))
<1> DEFINE s == ReleaseScript(k, l, r, delay)
<1>1. CASE ~Held(k, l, r)
  <2>1. s = k
    BY <1>1 DEF ReleaseScript
  <2> HIDE DEF s
  <2>2. Released(k, l, r, s)
    BY <2>1 DEF Released
  <2> QED
    BY <2>2 DEF s
<1>2. CASE Held(k, l, r) /\ r \in k.cancelled
  <2>1. s = Forget(Unleased(k, l, r), {r})
    BY <1>2 DEF ReleaseScript
  <2> DEFINE t == Forget(Unleased(k, l, r), {r})
  <2>2. /\ QueueInv(t)
        /\ DOMAIN t.jobs = DOMAIN k.jobs \ {r} /\ t.cancelled = k.cancelled \ {r}
        /\ t.leases = Del(k.leases, {l}) /\ t.issued = k.issued
        /\ Command(t, r) = Queue!Absent
        /\ OthersKept(k, t, {r})
    BY <1>2, DropEffect
  <2> HIDE DEF s, t
  <2>3. Released(k, l, r, s)
    BY <1>2, <2>1, <2>2 DEF Released, t
  <2> QED
    BY <2>3 DEF s
<1>3. CASE Held(k, l, r) /\ r \notin k.cancelled
  <2>1. Held(k, l, r)
    BY <1>3
  <2>2. r \notin k.cancelled
    BY <1>3
  <2>3. Returned(k, l, r, s)
    BY <2>1, <2>2, ReturnEffect
  <2> HIDE DEF s
  <2>4. Released(k, l, r, s)
    BY <2>1, <2>2, <2>3 DEF Returned, Released
  <2> QED
    BY <2>4 DEF s
<1> QED
  BY <1>1, <1>2, <1>3

\* The keys stay paired, every command has a record, and a command is marked
\* cancelled exactly while it was asked to be.
LEMMA QueueMovesAreSound ==
  ASSUME IInv, QueueMove, \A r \in Runs : Progress(r)
  PROVE  /\ QueueInv(q)' /\ q'.issued >= q.issued
         /\ asked' \cap DOMAIN q'.jobs = q'.cancelled
         /\ \A r \in DOMAIN q'.jobs : record'[r].status # "none"
<1>0. /\ QueueInv(q) /\ asked \cap DOMAIN q.jobs = q.cancelled
      /\ \A r \in DOMAIN q.jobs : HasRecord(r)
      /\ DOMAIN q.jobs \subseteq Runs /\ q.issued \in Nat
      /\ q.cancelled \subseteq DOMAIN q.runLeases /\ DOMAIN q.runLeases \subseteq DOMAIN q.jobs
  BY DEF IInv, QueueOK, QueueInv, KeysTyped, OnePlace
<1> DEFINE Done == /\ QueueInv(q') /\ q'.issued >= q.issued
                   /\ asked' \cap DOMAIN q'.jobs = q'.cancelled
<1>1. \A r \in Runs : HasRecord(r) => record'[r].status # "none"
  BY DEF Progress
<1>s. ASSUME DOMAIN q'.jobs \subseteq DOMAIN q.jobs PROVE \A r \in DOMAIN q'.jobs : record'[r].status # "none"
  BY <1>0, <1>1, <1>s
<1>2. CASE q' = q /\ asked' = asked
  BY <1>0, <1>2, <1>s
<1>3. ASSUME NEW r \in Runs, NEW a, QEnqueue(r, a), HasRecord(r)
      PROVE  Done /\ \A x \in DOMAIN q'.jobs : record'[x].status # "none"
  <2>1. EnqueueAccepts(q, r) /\ q' = EnqueueScript(q, r, a) /\ asked' = asked \ {r}
    BY <1>3 DEF QEnqueue
  <2> DEFINE s == EnqueueScript(q, r, a)
  <2>0. Enqueued(q, r, s)
    BY <1>0, <2>1, EnqueueEffect
  <2> HIDE DEF s
  <2>2. QueueInv(q') /\ DOMAIN q'.jobs = DOMAIN q.jobs \cup {r} /\ q'.cancelled = q.cancelled
        /\ q'.issued = q.issued
    BY <2>0, <2>1 DEF Enqueued, s
  <2>3. r \notin DOMAIN q.jobs
    BY <2>1 DEF EnqueueAccepts
  <2> QED
    BY <1>0, <1>1, <1>3, <2>1, <2>2, <2>3
<1>4. ASSUME NEW r \in Runs, QCancel(r) PROVE Done /\ DOMAIN q'.jobs \subseteq DOMAIN q.jobs
  <2>1. CancelAccepts(q, r) /\ q' = CancelScript(q, r) /\ asked' = asked \cup {r} /\ r \in DOMAIN q.jobs
    BY <1>4 DEF QCancel, CancelAccepts
  <2> DEFINE s == CancelScript(q, r)
  <2>0. Withdrawn(q, r, s)
    BY <1>0, <2>1, CancelEffect
  <2> HIDE DEF s
  <2>2. /\ QueueInv(q') /\ q'.issued = q.issued
        /\ r \in DOMAIN q.runLeases => DOMAIN q'.jobs = DOMAIN q.jobs /\ q'.cancelled = q.cancelled \cup {r}
        /\ r \notin DOMAIN q.runLeases => DOMAIN q'.jobs = DOMAIN q.jobs \ {r} /\ q'.cancelled = q.cancelled
    BY <2>0, <2>1 DEF Withdrawn, s
  <2> QED
    BY <1>0, <2>1, <2>2
<1>5. ASSUME NEW l, NEW r, QAcknowledge(l, r) PROVE Done /\ DOMAIN q'.jobs \subseteq DOMAIN q.jobs
  <2> DEFINE s == AcknowledgeScript(q, l, r)
  <2>0. \/ s = q
        \/ /\ QueueInv(s) /\ s.issued = q.issued
           /\ DOMAIN s.jobs = DOMAIN q.jobs \ {r} /\ s.cancelled = q.cancelled \ {r}
    <3>1. QueueInv(q)
      BY <1>0
    <3>2. \/ s = q
          \/ /\ Held(q, l, r) /\ QueueInv(s)
             /\ DOMAIN s.jobs = DOMAIN q.jobs \ {r} /\ s.cancelled = q.cancelled \ {r}
             /\ s.leases = Del(q.leases, {l}) /\ s.issued = q.issued
             /\ Command(s, r) = Queue!Absent
             /\ OthersKept(q, s, {r})
      BY <3>1, AcknowledgeCases
    <3> QED
      BY <3>2
  <2> HIDE DEF s
  <2>1. \/ q' = q
        \/ /\ QueueInv(q') /\ q'.issued = q.issued
           /\ DOMAIN q'.jobs = DOMAIN q.jobs \ {r} /\ q'.cancelled = q.cancelled \ {r}
    BY <1>5, <2>0 DEF QAcknowledge, s
  <2> QED
    BY <1>0, <1>5, <2>1 DEF QAcknowledge
<1>6. ASSUME NEW l, NEW r, NEW delay \in BOOLEAN, QRelease(l, r, delay)
      PROVE  Done /\ DOMAIN q'.jobs \subseteq DOMAIN q.jobs
  <2> DEFINE s == ReleaseScript(q, l, r, delay)
  <2>0. Released(q, l, r, s)
    BY <1>0, ReleaseCases
  <2> HIDE DEF s
  <2>1. \/ q' = q
        \/ /\ QueueInv(q') /\ q'.issued = q.issued
           /\ \/ DOMAIN q'.jobs = DOMAIN q.jobs \ {r} /\ q'.cancelled = q.cancelled \ {r}
              \/ DOMAIN q'.jobs = DOMAIN q.jobs /\ q'.cancelled = q.cancelled
    BY <1>6, <2>0 DEF QRelease, Released, s
  <2> QED
    BY <1>0, <1>6, <2>1 DEF QRelease
<1>7. ASSUME NEW ripe \in SUBSET q.delayed, NEW late \in SUBSET DOMAIN q.leases, QLease(ripe, late)
      PROVE  Done /\ DOMAIN q'.jobs \subseteq DOMAIN q.jobs
  <2> DEFINE R == RunsOf(q, late)
             s == LeaseScript(q, ripe, late)
  <2>0. LeasedOut(q, late, s)
    BY <1>0, LeaseEffect
  <2> HIDE DEF s
  <2>1. /\ QueueInv(q') /\ DOMAIN q'.jobs = DOMAIN q.jobs \ (R \cap q.cancelled)
        /\ q'.cancelled = q.cancelled \ R
        /\ q'.issued = q.issued \/ q'.issued = q.issued + 1
    BY <1>7, <2>0 DEF QLease, LeasedOut, s
  <2> QED
    BY <1>0, <1>7, <2>1 DEF QLease
<1>8. \/ q' = q /\ asked' = asked
      \/ Done /\ \A x \in DOMAIN q'.jobs : record'[x].status # "none"
      \/ Done /\ DOMAIN q'.jobs \subseteq DOMAIN q.jobs
  BY <1>3, <1>4, <1>5, <1>6, <1>7 DEF QueueMove
<1>9. Done /\ \A x \in DOMAIN q'.jobs : record'[x].status # "none"
  BY <1>0, <1>2, <1>8, <1>s
<1> QED
  BY <1>9 DEF QueueInv, KeysTyped, OnePlace, LeasesPaired, Held, Distinct

\* Commands and messages belong to runs with a record.
LEMMA QueueKept ==
  ASSUME IInv, [Next]_vars
  PROVE  QueueOK' /\ q'.issued >= q.issued
<1>0. /\ QueueMove /\ \A r \in Runs : Progress(r) /\ backend' = backend
      /\ Counted(used) /\ broker \subseteq Message /\ \A m \in broker : HasRecord(m.run)
  BY QueueMoves, StoreKept DEF IInv, StoreOK, QueueOK
<1>1. /\ QueueInv(q)' /\ q'.issued >= q.issued
      /\ asked' \cap DOMAIN q'.jobs = q'.cancelled
      /\ \A r \in DOMAIN q'.jobs : record'[r].status # "none"
  BY <1>0, QueueMovesAreSound
<1> DEFINE Known(m) == m \in Message /\ HasRecord(m.run)
           Done == broker' \subseteq broker \/ \E m : Known(m) /\ broker' = broker \cup {m}
<1>2. ASSUME NEW c \in Clients, Enqueue(c) \/ EnqueueAnswerLost(c) PROVE Done
  <2> DEFINE m == [id |-> used.messages + 1, run |-> client[c].run, action |-> Action(c)]
  <2>1. client[c].run \in Runs /\ HasRecord(client[c].run)
    BY <1>2 DEF Enqueue, EnqueueAnswerLost, IInv, ClientsOK, ClientOK
  <2>2. Action(c) \in {"START", "RESUME"} /\ used.messages + 1 \in Nat
    BY <1>0 DEF Action, Counted
  <2>3. Known(m)
    BY <2>1, <2>2 DEF Message
  <2>4. broker' = broker \/ broker' = broker \cup {m}
    BY <1>2 DEF Enqueue, Sent, EnqueueAnswerLost
  <2> QED
    BY <2>3, <2>4
<1>3. ASSUME NEW w \in Workers, Die(w) PROVE Done
  <2>1. CASE backend = "celery"
    <3>1. worker[w].pc # "idle" /\ broker' = broker \cup {worker[w].ticket}
      BY <1>3, <2>1 DEF Die
    <3>2. WorkerOK(w)
      BY DEF IInv, WorkersOK
    <3>3. Known(worker[w].ticket)
      BY <2>1, <3>1, <3>2 DEF WorkerOK
    <3> QED
      BY <3>1, <3>3
  <2>2. CASE backend # "celery"
    BY <1>3, <2>2 DEF Die
  <2> QED
    BY <2>1, <2>2
<1>4. ASSUME NEW c \in Clients, ClientCall(c) \/ ClientStep(c) \/ ClientFault(c) PROVE Done
  <2>1. Enqueue(c) \/ EnqueueAnswerLost(c) \/ broker' = broker
    BY <1>4 DEF ClientCall, ClientStep, ClientFault, Submit, Cancel, Resume, UpdateRead, UpdateWrite,
                EnqueueRefused, EnqueueFails, Revoke
  <2> QED
    BY <1>2, <2>1
<1>5. ASSUME NEW w \in Workers, WorkerStep(w) \/ WorkerFault(w) \/ Take(w) PROVE Done
  <2>1. Die(w) \/ broker' \subseteq broker
    BY <1>5 DEF WorkerStep, WorkerFault, Take, ReadRecord, LoopReturns, Settle, PullClaim, PullAcknowledge,
                PullRelease, TaskClaim, TaskDuplicate, TaskMarkFailed, TaskAcknowledge, TaskRaises, LoopReturnsUnsettled,
                LoopRaises, PullLease, Deliver
  <2> QED
    BY <1>3, <2>1
<1>6. Done
  BY <1>4, <1>5 DEF Next, vars, Discard
<1>7. broker' \subseteq Message /\ \A m \in broker' : record'[m.run].status # "none"
  <2>1. \A m \in broker' : Known(m)
    BY <1>0, <1>6
  <2>2. ASSUME NEW m \in broker' PROVE record'[m.run].status # "none"
    <3>1. m.run \in Runs /\ HasRecord(m.run)
      BY <2>1, <2>2 DEF Message
    <3> QED
      BY <1>0, <3>1 DEF Progress
  <2> QED
    BY <2>1, <2>2
<1> QED
  BY <1>1, <1>7 DEF QueueOK, HasRecord, Message

\* A worker that does nothing meanwhile: what it read or claimed is the
\* record, or a version that is gone.
LEMMA WorkerUntouched ==
  ASSUME IInv, record' \in [Runs -> Record], \A r \in Runs : Progress(r),
         q'.issued >= q.issued, QueueOK', backend' = backend,
         NEW w \in Workers, worker'[w] = worker[w]
  PROVE  WorkerOK(w)'
<1> DEFINE me == worker[w]
<1>0. /\ WorkerOK(w) /\ me \in WorkerState /\ record \in [Runs -> Record]
      /\ q.issued \in Nat /\ q'.issued \in Nat
  BY DEF IInv, WorkersOK, StoreOK, QueueOK, QueueInv, KeysTyped
<1>1. me.pc # "idle" => me.run \in Runs /\ HasRecord(me.run) /\ record'[me.run].status # "none"
  BY <1>0 DEF WorkerOK, Progress
<1>2. ASSUME me.pc # "idle", me.read.version =< record[me.run].version
      PROVE  /\ me.read.version =< record'[me.run].version
             /\ record'[me.run].version = me.read.version
                  => record'[me.run] = record[me.run] /\ record[me.run].version = me.read.version
  <2>1. me.run \in Runs /\ HasRecord(me.run) /\ Progress(me.run)
    BY <1>1, <1>2
  <2>2. /\ me.read.version \in Nat /\ record[me.run].version \in Nat /\ record'[me.run].version \in Nat
    BY <1>0, <2>1 DEF WorkerState, Record
  <2>3. /\ record[me.run].version =< record'[me.run].version
        /\ record'[me.run].version = record[me.run].version => record'[me.run] = record[me.run]
    BY <2>1 DEF Progress
  <2> QED
    BY <1>2, <2>2, <2>3
<1>3. me.pc # "idle" /\ backend = "redis" => me.ticket \in Nat \ {0} /\ me.ticket =< q'.issued
  BY <1>0 DEF WorkerOK
<1>4. me.pc = "claim" =>
        /\ me.read.version =< record'[me.run].version
        /\ record'[me.run].version = me.read.version => record'[me.run] = me.read
  BY <1>0, <1>2 DEF WorkerOK
<1>5. HasClaim(w) =>
        /\ me.read.version =< record'[me.run].version
        /\ record'[me.run].version = me.read.version
             => record'[me.run].status = "RUNNING" /\ record'[me.run].result = me.read.result
  BY <1>0, <1>2 DEF WorkerOK, HasClaim
<1> QED
  BY <1>0, <1>1, <1>3, <1>4, <1>5 DEF WorkerOK, HasClaim, HasRecord, Message

LEMMA WorkersKept ==
  ASSUME IInv, [Next]_vars
  PROVE  WorkersOK'
<1>0. /\ worker \in [Workers -> WorkerState] /\ record \in [Runs -> Record]
      /\ record' \in [Runs -> Record] /\ \A r \in Runs : Progress(r)
      /\ q'.issued >= q.issued /\ QueueOK' /\ backend' = backend
      /\ q.issued \in Nat /\ q'.issued \in Nat
  BY StoreKept, QueueKept DEF IInv, WorkersOK, StoreOK, QueueOK, QueueInv, KeysTyped
<1>1. ASSUME worker' = worker PROVE WorkersOK'
  BY <1>0, <1>1, WorkerUntouched DEF WorkersOK
<1>2. ASSUME NEW w \in Workers, OneWorker(w), WorkerOK(w)' PROVE WorkersOK'
  <2>1. \A v \in Workers \ {w} : WorkerOK(v)'
    BY <1>0, <1>2, WorkerUntouched DEF OneWorker
  <2> QED
    BY <1>2, <2>1 DEF OneWorker, WorkersOK
<1>3. ASSUME NEW w \in Workers, Leave(w) PROVE WorkersOK'
  <2>1. OneWorker(w) /\ worker'[w].pc = "idle"
    BY <1>0, <1>3, LeaveEffect
  <2>2. WorkerOK(w)'
    BY <2>1 DEF WorkerOK, HasClaim
  <2> QED
    BY <1>2, <2>1, <2>2
\* A worker that keeps its job.
<1>4. ASSUME NEW w \in Workers, worker[w].pc # "idle", SameJob(w)
      PROVE  /\ worker'[w].run = worker[w].run /\ worker[w].run \in Runs
             /\ record'[worker[w].run].status # "none"
             /\ backend' = "celery" => worker'[w].ticket \in Message /\ worker'[w].ticket.run = worker'[w].run
             /\ backend' = "redis" => worker'[w].ticket \in Nat \ {0} /\ worker'[w].ticket =< q'.issued
  <2>1. /\ worker[w].run \in Runs /\ HasRecord(worker[w].run)
        /\ backend = "celery" => worker[w].ticket \in Message /\ worker[w].ticket.run = worker[w].run
        /\ backend = "redis" => worker[w].ticket \in Nat \ {0} /\ worker[w].ticket =< q.issued
    BY <1>4 DEF IInv, WorkersOK, WorkerOK
  <2> QED
    BY <1>0, <1>4, <2>1 DEF SameJob, Progress
<1>5. ASSUME NEW w \in Workers, worker[w].pc # "idle", SameJob(w), worker'[w].pc \in {"ack", "release"}
      PROVE  WorkerOK(w)'
  BY <1>4, <1>5 DEF WorkerOK, HasClaim, HasRecord, Message
<1>6. ASSUME NEW w \in Workers, NEW pc \in {"ack", "release"}, worker[w].pc # "idle", Set(w, pc)
      PROVE  WorkersOK'
  <2>1. OneWorker(w) /\ SameJob(w) /\ worker'[w].pc = pc
    BY <1>0, <1>6, SetEffect
  <2> QED
    BY <1>2, <1>5, <1>6, <2>1
<1>7. ASSUME NEW w \in Workers, ReadRecord(w) PROVE WorkersOK'
  <2>1. /\ OneWorker(w) /\ SameJob(w) /\ worker[w].pc = "get" /\ worker[w].run \in Runs
        /\ worker'[w].pc = "claim" /\ worker'[w].read = record[worker[w].run] /\ record' = record
    BY <1>7, ReadRecordEffect DEF ReadRecord
  <2>2. /\ worker'[w].run = worker[w].run /\ record'[worker[w].run].status # "none"
        /\ backend' = "celery" => worker'[w].ticket \in Message /\ worker'[w].ticket.run = worker'[w].run
        /\ backend' = "redis" => worker'[w].ticket \in Nat \ {0} /\ worker'[w].ticket =< q'.issued
    BY <1>4, <2>1
  <2>3. record[worker[w].run].version \in Nat
    BY <1>0, <2>1 DEF Record
  <2>4. WorkerOK(w)'
    BY <2>1, <2>2, <2>3 DEF WorkerOK, HasClaim, HasRecord, Message
  <2> QED
    BY <1>2, <2>1, <2>4
<1>8. ASSUME NEW w \in Workers, NEW s \in {"PAUSED", "COMPLETED"}, LoopReturns(w, s) PROVE WorkersOK'
  <2>1. /\ OneWorker(w) /\ SameJob(w) /\ worker[w].pc = "run" /\ record' = record
        /\ worker'[w].pc = "settle" /\ worker'[w].read = worker[w].read /\ worker'[w].outcome = s
    BY <1>0, <1>8, LoopReturnsEffect DEF LoopReturns
  <2>2. /\ worker'[w].run = worker[w].run /\ record'[worker[w].run].status # "none"
        /\ worker[w].run \in Runs
        /\ backend' = "celery" => worker'[w].ticket \in Message /\ worker'[w].ticket.run = worker'[w].run
        /\ backend' = "redis" => worker'[w].ticket \in Nat \ {0} /\ worker'[w].ticket =< q'.issued
    BY <1>4, <2>1
  <2>3. WorkerOK(w) /\ HasClaim(w)
    BY <2>1 DEF IInv, WorkersOK, HasClaim
  <2>4. WorkerOK(w)'
    BY <2>1, <2>2, <2>3 DEF WorkerOK, HasClaim, HasRecord, Message
  <2> QED
    BY <1>2, <2>1, <2>4
<1>9. ASSUME NEW w \in Workers, worker[w].pc = "run", Set(w, "failed"), record' = record PROVE WorkersOK'
  <2>1. OneWorker(w) /\ SameJob(w) /\ worker'[w].pc = "failed" /\ worker'[w].read = worker[w].read
    BY <1>0, <1>9, SetEffect
  <2>2. /\ worker'[w].run = worker[w].run /\ record'[worker[w].run].status # "none"
        /\ worker[w].run \in Runs
        /\ backend' = "celery" => worker'[w].ticket \in Message /\ worker'[w].ticket.run = worker'[w].run
        /\ backend' = "redis" => worker'[w].ticket \in Nat \ {0} /\ worker'[w].ticket =< q'.issued
    BY <1>4, <1>9, <2>1
  <2>3. WorkerOK(w) /\ HasClaim(w)
    BY <1>9 DEF IInv, WorkersOK, HasClaim
  <2>4. WorkerOK(w)'
    BY <1>9, <2>1, <2>2, <2>3 DEF WorkerOK, HasClaim, HasRecord, Message
  <2> QED
    BY <1>2, <2>1, <2>4
<1>10. ASSUME NEW w \in Workers, NEW refused \in {"release", "ack"}, Claim(w, refused), worker[w].pc = "claim"
       PROVE  WorkersOK'
  <2>1. OneWorker(w) /\ SameJob(w) /\ worker[w].run \in Runs
    BY <1>10, ClaimEffect
  <2>2. /\ worker'[w].run = worker[w].run /\ record'[worker[w].run].status # "none"
        /\ backend' = "celery" => worker'[w].ticket \in Message /\ worker'[w].ticket.run = worker'[w].run
        /\ backend' = "redis" => worker'[w].ticket \in Nat \ {0} /\ worker'[w].ticket =< q'.issued
    BY <1>4, <1>10, <2>1
  <2>3. CASE /\ worker'[w].pc = "run"
             /\ worker'[w].read.version = worker[w].read.version + 1
             /\ worker'[w].read.result = worker[w].read.result
             /\ record'[worker[w].run] = [status |-> "RUNNING", version |-> worker[w].read.version + 1,
                                          result |-> worker[w].read.result]
    <3>1. worker[w].read.version \in Nat
      BY <1>0 DEF WorkerState, Record
    <3>2. /\ record'[worker'[w].run].status = "RUNNING"
          /\ record'[worker'[w].run].version = worker'[w].read.version
          /\ record'[worker'[w].run].result = worker'[w].read.result
          /\ worker'[w].read.version \in Nat
      BY <2>2, <2>3, <3>1
    <3>3. WorkerOK(w)'
      BY <2>1, <2>2, <2>3, <3>2 DEF WorkerOK, HasClaim, HasRecord, Message
    <3> QED
      BY <1>2, <2>1, <3>3
  <2>4. CASE worker'[w].pc = refused
    BY <1>2, <1>5, <1>10, <2>1, <2>4
  <2> QED
    BY <1>10, <2>3, <2>4, ClaimEffect
<1>11. ASSUME NEW w \in Workers, Settle(w) PROVE WorkersOK'
  BY <1>6, <1>11 DEF Settle
<1>12. ASSUME NEW w \in Workers, NEW m, Deliver(w, m) PROVE WorkersOK'
  <2>0. record' = record /\ backend' = "celery"
    BY <1>0, <1>12 DEF Deliver
  <2>1. /\ OneWorker(w) /\ m \in Message /\ HasRecord(m.run)
        /\ worker'[w].pc = "get" /\ worker'[w].run = m.run /\ worker'[w].ticket = m
    BY <1>12, DeliverEffect
  <2>2. WorkerOK(w)'
    BY <2>0, <2>1 DEF WorkerOK, HasClaim, HasRecord, Message
  <2> QED
    BY <1>2, <2>1, <2>2
<1>13. ASSUME NEW w \in Workers, NEW ripe \in SUBSET q.delayed, NEW late \in SUBSET DOMAIN q.leases,
              PullLease(w, ripe, late)
       PROVE  WorkersOK'
  <2>0. record' = record /\ backend' = "redis"
    BY <1>0, <1>13 DEF PullLease
  <2>1. CASE /\ OneWorker(w) /\ worker[w].pc = "idle" /\ q'.issued = q.issued + 1
             /\ worker'[w].pc = "get" /\ worker'[w].run \in DOMAIN q.jobs
             /\ worker'[w].run \in Runs /\ worker'[w].ticket = q'.issued
    <3>1. record'[worker'[w].run].status # "none"
      BY <2>0, <2>1 DEF IInv, QueueOK, HasRecord
    <3>2. WorkerOK(w)'
      BY <1>0, <2>0, <2>1, <3>1 DEF WorkerOK, HasClaim, HasRecord, Message
    <3> QED
      BY <1>2, <2>1, <3>2
  <2> QED
    BY <1>1, <1>13, <2>1, PullLeaseEffect
<1>14. ASSUME NEW w \in Workers, WorkerStep(w) PROVE WorkersOK'
  <2>1. \A s \in {"PAUSED", "COMPLETED"} : LoopReturns(w, s) => WorkersOK'
    BY <1>8
  <2>2. PullClaim(w) \/ TaskClaim(w, FALSE) =>
          (Claim(w, "release") \/ Claim(w, "ack")) /\ worker[w].pc = "claim"
    BY DEF PullClaim, TaskClaim
  <2>3. PullAcknowledge(w) \/ PullRelease(w, FALSE) \/ TaskAcknowledge(w) => Leave(w)
    BY DEF PullAcknowledge, PullRelease, TaskAcknowledge
  <2>4. TaskDuplicate(w) \/ TaskMarkFailed(w) => Set(w, "ack") /\ worker[w].pc # "idle"
    BY DEF TaskDuplicate, TaskMarkFailed
  <2> QED
    BY <1>3, <1>6, <1>7, <1>10, <1>11, <1>14, <2>1, <2>2, <2>3, <2>4 DEF WorkerStep
<1>15. ASSUME NEW w \in Workers, WorkerFault(w) PROVE WorkersOK'
  <2>1. LoopReturnsUnsettled(w) => Leave(w) \/ (Set(w, "ack") /\ worker[w].pc # "idle")
    BY DEF LoopReturnsUnsettled
  <2>2. LoopRaises(w) => /\ worker[w].pc = "run" /\ record' = record
                         /\ Set(w, "release") \/ Set(w, "failed")
    BY DEF LoopRaises
  <2>3. Die(w) \/ PullRelease(w, TRUE) => Leave(w)
    BY DEF Die, PullRelease
  <2>4. TaskClaim(w, TRUE) => Claim(w, "ack") /\ worker[w].pc = "claim"
    BY DEF TaskClaim
  <2>5. TaskRaises(w) => Set(w, "ack") /\ worker[w].pc # "idle"
    BY DEF TaskRaises
  <2> QED
    BY <1>3, <1>6, <1>9, <1>10, <1>15, <2>1, <2>2, <2>3, <2>4, <2>5 DEF WorkerFault
<1>16. ASSUME NEW w \in Workers, Take(w) PROVE WorkersOK'
  BY <1>12, <1>13, <1>16 DEF Take
<1>17. ASSUME NEW c \in Clients, ClientCall(c) \/ ClientStep(c) \/ ClientFault(c) PROVE WorkersOK'
  <2>1. worker' = worker
    BY <1>17 DEF ClientCall, ClientStep, ClientFault, Submit, Cancel, Resume, UpdateRead, UpdateWrite, Enqueue,
                 EnqueueRefused, EnqueueFails, EnqueueAnswerLost, Revoke
  <2> QED
    BY <1>1, <2>1
<1> QED
  BY <1>1, <1>14, <1>15, <1>16, <1>17 DEF Next, vars, Discard

-----------------------------------------------------------------------------
(* Claims                                                                   *)

KeptClaim(v) ==
  HasClaim(v) /\ worker'[v].run = worker[v].run /\ worker'[v].read = worker[v].read

NewClaim(v) ==
  /\ worker[v].pc = "claim" /\ worker'[v].run = worker[v].run
  /\ worker[v].run \in Runs /\ worker[v].read = record[worker[v].run]
  /\ worker'[v].read.version = worker[v].read.version + 1
  /\ record'[worker[v].run].version = worker[v].read.version + 1
  /\ \/ worker[v].read.status = "QUEUED"
     \/ /\ worker[v].read.status = "RUNNING"
        /\ <<worker[v].run, worker[v].read.version>> \in lapsed'

\* A claim overwritten by this step had run out, or its run is over.
Superseded(v) ==
  worker[v].read.version = record[worker[v].run].version =>
    \/ record'[worker[v].run] = record[worker[v].run]
    \/ <<worker[v].run, worker[v].read.version>> \in lapsed'
    \/ record'[worker[v].run].status \in Terminal

LEMMA ClaimsStayApart ==
  ASSUME IInv, [Next]_vars, lapsed \subseteq lapsed', backend = "celery",
         \A v \in Workers : HasClaim(v)' => KeptClaim(v) \/ NewClaim(v),
         \A v \in Workers : HasClaim(v)' /\ KeptClaim(v) => Superseded(v),
         \A v, w \in Workers : HasClaim(v)' /\ HasClaim(w)' /\ NewClaim(v) /\ NewClaim(w) => v = w
  PROVE  ClaimsApart'
<1>0. /\ worker \in [Workers -> WorkerState] /\ record \in [Runs -> Record]
      /\ \A v \in Workers : WorkerOK(v)
      /\ \A r \in Runs : Final(r)
  BY StoreKept DEF IInv, WorkersOK, StoreOK
<1>1. /\ \A v, w \in Workers :
           v # w /\ HasClaim(v) /\ HasClaim(w) /\ worker[v].run = worker[w].run
             => Overtaken(v, w) \/ Overtaken(w, v)
      /\ \A v \in Workers : HasClaim(v) =>
           \/ worker[v].read.version = record[worker[v].run].version
           \/ <<worker[v].run, worker[v].read.version>> \in lapsed
           \/ record[worker[v].run].status \in Terminal
  BY DEF IInv, ClaimsApart
\* The older of two claims, when the other one is new.
<1>2. ASSUME NEW v \in Workers, NEW w \in Workers, KeptClaim(v), NewClaim(w), worker'[v].run = worker'[w].run
      PROVE  Overtaken(v, w)'
  <2> DEFINE r == worker[w].run
             n == worker[v].read.version
  <2>1. /\ worker[v].run = r /\ r \in Runs /\ worker'[v].run = r /\ worker'[v].read.version = n
        /\ HasClaim(v) /\ n \in Nat /\ record[r].version \in Nat
        /\ worker'[w].read.version = record[r].version + 1
    BY <1>0, <1>2 DEF KeptClaim, NewClaim, WorkerState, Record
  <2>2. n =< record[r].version /\ (record[r].version = n => record[r].status = "RUNNING")
    BY <1>0, <2>1 DEF WorkerOK, HasClaim
  <2>3. record[r].status = "QUEUED" \/ (record[r].status = "RUNNING" /\ <<r, record[r].version>> \in lapsed')
    BY <1>2 DEF NewClaim
  <2>4. record[r].status \notin Terminal
    BY <2>3, StatusNames
  <2>5. <<r, n>> \in lapsed'
    BY <1>1, <2>1, <2>2, <2>3, <2>4
  <2>6. n < record[r].version + 1
    BY <2>1, <2>2
  <2> QED
    BY <2>1, <2>5, <2>6 DEF Overtaken
<1>3. ASSUME NEW v \in Workers, NEW w \in Workers, v # w, HasClaim(v)', HasClaim(w)',
             worker'[v].run = worker'[w].run
      PROVE  Overtaken(v, w)' \/ Overtaken(w, v)'
  <2>1. CASE KeptClaim(v) /\ KeptClaim(w)
    <3>1. Overtaken(v, w) \/ Overtaken(w, v)
      BY <1>1, <1>3, <2>1 DEF KeptClaim
    <3> QED
      BY <2>1, <3>1 DEF Overtaken, KeptClaim
  <2> QED
    BY <1>2, <1>3, <2>1
<1>4. ASSUME NEW v \in Workers, HasClaim(v)'
      PROVE  \/ worker'[v].read.version = record'[worker'[v].run].version
             \/ <<worker'[v].run, worker'[v].read.version>> \in lapsed'
             \/ record'[worker'[v].run].status \in Terminal
  <2>1. CASE NewClaim(v)
    BY <2>1 DEF NewClaim
  <2>2. CASE KeptClaim(v)
    <3>1. HasClaim(v) /\ Superseded(v) /\ worker[v].run \in Runs
          /\ worker'[v].run = worker[v].run /\ worker'[v].read = worker[v].read
      BY <1>0, <1>4, <2>2 DEF KeptClaim, WorkerOK, HasClaim
    <3>2. record[worker[v].run].status \in Terminal => record'[worker[v].run] = record[worker[v].run]
      BY <1>0, <3>1 DEF Final
    <3> QED
      BY <1>1, <3>1, <3>2 DEF Superseded
  <2> QED
    BY <1>4, <2>1, <2>2
<1> QED
  BY <1>3, <1>4 DEF ClaimsApart, HasClaim, Overtaken

LEMMA ClaimsKept ==
  ASSUME IInv, [Next]_vars
  PROVE  ClaimsApart'
<1>0. /\ worker \in [Workers -> WorkerState] /\ record \in [Runs -> Record]
      /\ client \in [Clients -> ClientState]
      /\ \A v \in Workers : WorkerOK(v)
      /\ backend' = backend
  BY StoreKept DEF IInv, WorkersOK, StoreOK, ClientsOK
<1> SUFFICES ASSUME backend = "celery" PROVE ClaimsApart'
  BY <1>0 DEF ClaimsApart
<1> DEFINE Kept == \A v \in Workers : HasClaim(v)' => KeptClaim(v)
           Over == \A v \in Workers : HasClaim(v)' /\ KeptClaim(v) => Superseded(v)
<1>1. ASSUME lapsed' = lapsed, Kept, Over PROVE ClaimsApart'
  <2>1. \A v \in Workers : HasClaim(v)' => ~NewClaim(v)
    BY <1>1 DEF KeptClaim, NewClaim, HasClaim
  <2>2. \A v, w \in Workers : HasClaim(v)' /\ HasClaim(w)' /\ NewClaim(v) /\ NewClaim(w) => v = w
    BY <2>1
  <2>3. \A v \in Workers : HasClaim(v)' => KeptClaim(v) \/ NewClaim(v)
    BY <1>1
  <2>4. \A v \in Workers : HasClaim(v)' /\ KeptClaim(v) => Superseded(v)
    BY <1>1
  <2> QED
    BY <1>1, <2>2, <2>3, <2>4, ClaimsStayApart
<1>2. ASSUME record' = record PROVE Over
  BY <1>2 DEF Superseded
<1>3. ASSUME worker' = worker PROVE Kept
  BY <1>3 DEF KeptClaim, HasClaim
<1>4. ASSUME NEW w \in Workers, OneWorker(w), ~HasClaim(w)' \/ KeptClaim(w) PROVE Kept
  BY <1>4 DEF OneWorker, KeptClaim, HasClaim
<1>5. ASSUME NEW w \in Workers, OneWorker(w), ~HasClaim(w)' \/ KeptClaim(w), record' = record, lapsed' = lapsed
      PROVE  ClaimsApart'
  BY <1>1, <1>2, <1>4, <1>5
<1>6. ASSUME NEW w \in Workers, Leave(w), record' = record, lapsed' = lapsed PROVE ClaimsApart'
  BY <1>0, <1>5, <1>6, LeaveEffect DEF HasClaim
<1>7. ASSUME NEW w \in Workers, Set(w, "ack") PROVE OneWorker(w) /\ ~HasClaim(w)'
  BY <1>0, <1>7, SetEffect DEF HasClaim
\* What the holder of the record's own claim knows of the record.
<1>8. ASSUME NEW v \in Workers, HasClaim(v), worker[v].read.version = record[worker[v].run].version
      PROVE  worker[v].run \in Runs /\ record[worker[v].run].status = "RUNNING"
  BY <1>0, <1>8 DEF WorkerOK, HasClaim
<1>9. ASSUME NEW c \in Clients, NEW r \in Runs, Submit(c, r) PROVE ClaimsApart'
  <2>1. worker' = worker /\ lapsed' = lapsed
    BY <1>9 DEF Submit
  <2>2. CASE record[r] = NoRecord
    <3>1. \A x \in Runs : x # r => record'[x] = record[x]
      BY <1>0, <1>9, <2>2 DEF Submit, Create
    <3>2. record[r].status = "none"
      BY <2>2 DEF NoRecord
    <3>3. Over
      <4> SUFFICES ASSUME NEW v \in Workers, KeptClaim(v), worker[v].read.version = record[worker[v].run].version
                   PROVE  record'[worker[v].run] = record[worker[v].run]
        BY DEF Superseded
      <4>1. worker[v].run \in Runs /\ record[worker[v].run].status = "RUNNING"
        BY <1>8 DEF KeptClaim
      <4> QED
        BY <3>1, <3>2, <4>1
    <3> QED
      BY <1>1, <1>3, <2>1, <3>3
  <2>3. CASE record[r] # NoRecord
    <3>1. record' = record
      BY <1>9, <2>3 DEF Submit
    <3> QED
      BY <1>1, <1>2, <1>3, <2>1, <3>1
  <2> QED
    BY <2>2, <2>3
<1>10. ASSUME NEW c \in Clients, UpdateWrite(c) PROVE ClaimsApart'
  <2> DEFINE me == client[c]
  <2>1. worker' = worker /\ lapsed' = lapsed /\ me.pc = "write" /\ ClientOK(c)
    BY <1>10 DEF UpdateWrite, IInv, ClientsOK
  <2>2. CASE Cas(me.run, me.read)
    <3> DEFINE new == IF me.goal = me.seen.status THEN me.seen.result ELSE 0
    <3>1. Write(me.run, me.read, me.goal, new) /\ record[me.run].version = me.read
      BY <1>10, <2>2 DEF UpdateWrite, Cas
    <3> HIDE DEF new
    <3>2. \A x \in Runs : x # me.run => record'[x] = record[x]
      BY <1>0, <3>1 DEF Write
    <3>3. me.run \in Runs => record'[me.run].status = me.goal
      BY <1>0, <3>1 DEF Write
    <3>4. record[me.run].status = "RUNNING" => me.goal \in Terminal
      <4>1. record[me.run].status \in Expected(c)
        BY <2>1, <3>1 DEF ClientOK
      <4>2. me.op = "cancel" => me.goal = "CANCELLED"
        BY <2>1 DEF ClientOK
      <4> QED
        BY <4>1, <4>2, StatusNames DEF Expected
    <3>5. Over
      <4> SUFFICES ASSUME NEW v \in Workers, KeptClaim(v), worker[v].read.version = record[worker[v].run].version
                   PROVE  \/ record'[worker[v].run] = record[worker[v].run]
                          \/ record'[worker[v].run].status \in Terminal
        BY DEF Superseded
      <4>1. worker[v].run \in Runs /\ record[worker[v].run].status = "RUNNING"
        BY <1>8 DEF KeptClaim
      <4> QED
        BY <3>2, <3>3, <3>4, <4>1
    <3> QED
      BY <1>1, <1>3, <2>1, <3>5
  <2>3. CASE ~Cas(me.run, me.read)
    <3>1. record' = record
      BY <1>10, <2>3 DEF UpdateWrite
    <3> QED
      BY <1>1, <1>2, <1>3, <2>1, <3>1
  <2> QED
    BY <2>2, <2>3
<1>11. ASSUME NEW w \in Workers, NEW s \in {"PAUSED", "COMPLETED"}, LoopReturns(w, s) PROVE ClaimsApart'
  <2>1. /\ OneWorker(w) /\ KeptClaim(w) /\ record' = record /\ lapsed' = lapsed
    BY <1>0, <1>11, LoopReturnsEffect DEF LoopReturns, KeptClaim, HasClaim, SameJob
  <2> QED
    BY <1>5, <2>1
<1>12. ASSUME NEW w \in Workers, worker[w].pc = "run", Set(w, "failed"), record' = record, lapsed' = lapsed
       PROVE  ClaimsApart'
  <2>1. OneWorker(w) /\ KeptClaim(w)
    BY <1>0, <1>12, SetEffect DEF KeptClaim, HasClaim, SameJob
  <2> QED
    BY <1>5, <1>12, <2>1
\* The result or the failure is stored; the claim ends with it.
<1>13. ASSUME NEW w \in Workers, Settle(w) PROVE ClaimsApart'
  <2> DEFINE me == worker[w]
  <2>1. lapsed' = lapsed /\ Set(w, "ack") /\ HasClaim(w)
    BY <1>13 DEF Settle, HasClaim
  <2>2. OneWorker(w) /\ ~HasClaim(w)'
    BY <1>7, <2>1
  <2>3. CASE Cas(me.run, me.read.version)
    <3>1. Write(me.run, me.read.version, me.outcome, me.read.version) /\ record[me.run].version = me.read.version
      BY <1>13, <2>3 DEF Settle, Cas
    <3>2. \A x \in Runs : x # me.run => record'[x] = record[x]
      BY <1>0, <3>1 DEF Write
    <3>3. Over
      <4> SUFFICES ASSUME NEW v \in Workers, HasClaim(v)', KeptClaim(v),
                          worker[v].read.version = record[worker[v].run].version
                   PROVE  record'[worker[v].run] = record[worker[v].run]
        BY DEF Superseded
      <4>1. worker[v].run \in Runs /\ HasClaim(v)
        BY <1>8 DEF KeptClaim
      <4>2. v # w
        BY <2>2
      <4>3. worker[v].run = me.run => Overtaken(v, w) \/ Overtaken(w, v)
        BY <2>1, <4>1, <4>2 DEF IInv, ClaimsApart
      <4>4. worker[v].read.version \in Nat /\ me.read.version \in Nat
        BY <1>0 DEF WorkerState, Record
      <4>5. worker[v].run # me.run
        BY <3>1, <4>3, <4>4 DEF Overtaken
      <4> QED
        BY <3>2, <4>1, <4>5
    <3> QED
      BY <1>1, <1>4, <2>1, <2>2, <3>3
  <2>4. CASE ~Cas(me.run, me.read.version)
    <3>1. record' = record
      BY <1>13, <2>4 DEF Settle
    <3> QED
      BY <1>5, <2>1, <2>2, <3>1
  <2> QED
    BY <2>3, <2>4
<1>14. ASSUME NEW w \in Workers, TaskMarkFailed(w) PROVE ClaimsApart'
  <2> DEFINE me == worker[w]
  <2>1. lapsed' = lapsed /\ Set(w, "ack")
    BY <1>14 DEF TaskMarkFailed
  <2>2. OneWorker(w) /\ ~HasClaim(w)'
    BY <1>7, <2>1
  <2>3. CASE Cas(me.run, me.read.version)
    <3>1. Write(me.run, me.read.version, "FAILED", me.read.result)
      BY <1>14, <2>3 DEF TaskMarkFailed
    <3>2. \A x \in Runs : x # me.run => record'[x] = record[x]
      BY <1>0, <3>1 DEF Write
    <3>3. me.run \in Runs => record'[me.run].status \in Terminal
      BY <1>0, <3>1, StatusNames DEF Write
    <3>4. Over
      <4> SUFFICES ASSUME NEW v \in Workers, KeptClaim(v),
                          worker[v].read.version = record[worker[v].run].version
                   PROVE  \/ record'[worker[v].run] = record[worker[v].run]
                          \/ record'[worker[v].run].status \in Terminal
        BY DEF Superseded
      <4>1. worker[v].run \in Runs
        BY <1>8 DEF KeptClaim
      <4> QED
        BY <3>2, <3>3, <4>1
    <3> QED
      BY <1>1, <1>4, <2>1, <2>2, <3>4
  <2>4. CASE ~Cas(me.run, me.read.version)
    <3>1. record' = record
      BY <1>14, <2>4 DEF TaskMarkFailed
    <3> QED
      BY <1>5, <2>1, <2>2, <3>1
  <2> QED
    BY <2>3, <2>4
\* The one step that makes a claim.
<1>15. ASSUME NEW w \in Workers, NEW expired \in BOOLEAN, TaskClaim(w, expired) PROVE ClaimsApart'
  <2> DEFINE r == worker[w].run
             n == worker[w].read.version
  <2>1. /\ worker[w].pc = "claim" /\ Claim(w, "ack") /\ lapsed \subseteq lapsed'
        /\ worker[w].read.status = "QUEUED"
           \/ (worker[w].read.status = "RUNNING" /\ <<r, n>> \in lapsed')
    BY <1>15 DEF TaskClaim, Claimable
  <2>2. /\ OneWorker(w) /\ SameJob(w) /\ r \in Runs
        /\ \/ /\ worker[w].read = record[r]
              /\ worker'[w].pc = "run"
              /\ worker'[w].read.version = n + 1
              /\ record'[r] = [status |-> "RUNNING", version |-> n + 1, result |-> worker[w].read.result]
              /\ \A x \in Runs : x # r => record'[x] = record[x]
           \/ record' = record /\ worker'[w].pc = "ack"
    BY <2>1, ClaimEffect
  <2>3. ~HasClaim(w)
    BY <2>1 DEF HasClaim
  <2>4. HasClaim(w)' => NewClaim(w)
    BY <2>1, <2>2 DEF NewClaim, HasClaim, SameJob
  <2>5. \A v \in Workers \ {w} : HasClaim(v)' => KeptClaim(v) /\ ~NewClaim(v)
    BY <2>2 DEF OneWorker, KeptClaim, NewClaim, HasClaim
  <2>6. ASSUME NEW v \in Workers, HasClaim(v)', KeptClaim(v),
               worker[v].read.version = record[worker[v].run].version
        PROVE  \/ record'[worker[v].run] = record[worker[v].run]
               \/ <<worker[v].run, worker[v].read.version>> \in lapsed'
    <3>1. worker[v].run \in Runs /\ record[worker[v].run].status = "RUNNING"
      BY <1>8, <2>6 DEF KeptClaim
    <3> QED
      BY <2>1, <2>2, <2>6, <3>1
  <2>7. \A v \in Workers : HasClaim(v)' => KeptClaim(v) \/ NewClaim(v)
    BY <2>4, <2>5
  <2>8. \A v \in Workers : HasClaim(v)' /\ KeptClaim(v) => Superseded(v)
    BY <2>6 DEF Superseded
  <2>9. \A u, v \in Workers : HasClaim(u)' /\ HasClaim(v)' /\ NewClaim(u) /\ NewClaim(v) => u = v
    BY <2>5
  <2> QED
    BY <2>1, <2>7, <2>8, <2>9, ClaimsStayApart
<1>16. ASSUME NEW w \in Workers, NEW m, Deliver(w, m) PROVE ClaimsApart'
  <2>1. OneWorker(w) /\ worker'[w].pc = "get"
    BY <1>16, DeliverEffect
  <2> QED
    BY <1>5, <1>16, <2>1 DEF Deliver, HasClaim
<1>17. ASSUME NEW w \in Workers, ReadRecord(w) PROVE ClaimsApart'
  <2>1. OneWorker(w) /\ worker'[w].pc = "claim"
    BY <1>17, ReadRecordEffect
  <2> QED
    BY <1>5, <1>17, <2>1 DEF ReadRecord, HasClaim
<1>18. ASSUME NEW w \in Workers, Set(w, "ack"), record' = record, lapsed' = lapsed PROVE ClaimsApart'
  BY <1>5, <1>7, <1>18
<1>19. ASSUME NEW w \in Workers, WorkerStep(w) PROVE ClaimsApart'
  <2>1. \A s \in {"PAUSED", "COMPLETED"} : LoopReturns(w, s) => ClaimsApart'
    BY <1>11
  <2>2. TaskClaim(w, FALSE) => ClaimsApart'
    BY <1>15
  <2>3. TaskDuplicate(w) => Set(w, "ack") /\ record' = record /\ lapsed' = lapsed
    BY DEF TaskDuplicate
  <2>4. TaskAcknowledge(w) => Leave(w) /\ record' = record /\ lapsed' = lapsed
    BY DEF TaskAcknowledge
  <2>5. ~PullClaim(w) /\ ~PullAcknowledge(w) /\ ~PullRelease(w, FALSE)
    BY DEF PullClaim, PullAcknowledge, PullRelease
  <2> QED
    BY <1>6, <1>13, <1>14, <1>17, <1>18, <1>19, <2>1, <2>2, <2>3, <2>4, <2>5 DEF WorkerStep
<1>20. ASSUME NEW w \in Workers, WorkerFault(w) PROVE ClaimsApart'
  <2>1. LoopReturnsUnsettled(w) => Set(w, "ack") /\ record' = record /\ lapsed' = lapsed
    BY DEF LoopReturnsUnsettled
  <2>2. LoopRaises(w) => /\ worker[w].pc = "run" /\ Set(w, "failed")
                         /\ record' = record /\ lapsed' = lapsed
    BY DEF LoopRaises
  <2>3. Die(w) => Leave(w) /\ record' = record /\ lapsed' = lapsed
    BY DEF Die
  <2>4. TaskClaim(w, TRUE) => ClaimsApart'
    BY <1>15
  <2>5. ~PullRelease(w, TRUE)
    BY DEF PullRelease
  <2>6. TaskRaises(w) => Set(w, "ack") /\ record' = record /\ lapsed' = lapsed
    BY DEF TaskRaises
  <2> QED
    BY <1>6, <1>12, <1>18, <1>20, <2>1, <2>2, <2>3, <2>4, <2>5, <2>6 DEF WorkerFault
<1>21. ASSUME NEW w \in Workers, Take(w) PROVE ClaimsApart'
  <2>1. PICK m \in broker : Deliver(w, m)
    BY <1>21 DEF Take, PullLease
  <2> QED
    BY <1>16, <2>1
<1>22. ASSUME worker' = worker, record' = record, lapsed' = lapsed PROVE ClaimsApart'
  BY <1>1, <1>2, <1>3, <1>22
<1>23. ASSUME NEW c \in Clients, ClientCall(c) \/ ClientStep(c) \/ ClientFault(c) PROVE ClaimsApart'
  <2>1. \/ \E r \in Runs : Submit(c, r)
        \/ UpdateWrite(c)
        \/ worker' = worker /\ record' = record /\ lapsed' = lapsed
    BY <1>23 DEF ClientCall, ClientStep, ClientFault, Cancel, Resume, UpdateRead, Enqueue,
                 EnqueueRefused, EnqueueFails, EnqueueAnswerLost, Revoke
  <2> QED
    BY <1>9, <1>10, <1>22, <2>1
<1> QED
  BY <1>19, <1>20, <1>21, <1>22, <1>23 DEF Next, vars, Discard

-----------------------------------------------------------------------------
(* A queued record is awaited                                               *)

\* A worker never writes QUEUED.
LEMMA WorkersDoNotQueue ==
  ASSUME IInv, NEW w \in Workers, WorkerStep(w) \/ WorkerFault(w) \/ Take(w),
         NEW r \in Runs, record'[r].status = "QUEUED"
  PROVE  record'[r] = record[r]
<1>0. record \in [Runs -> Record] /\ WorkerOK(w)
  BY DEF IInv, StoreOK, WorkersOK
<1>1. ASSUME NEW version, NEW status, NEW result, Write(worker[w].run, version, status, result), status # "QUEUED"
      PROVE  record'[r] = record[r]
  BY <1>0, <1>1 DEF Write
<1>2. ASSUME NEW refused, Claim(w, refused) PROVE record'[r] = record[r]
  BY <1>1, <1>2 DEF Claim
<1>3. ASSUME Settle(w) PROVE record'[r] = record[r]
  <2>1. worker[w].outcome # "QUEUED"
    BY <1>0, <1>3 DEF Settle, WorkerOK
  <2> QED
    BY <1>1, <1>3, <2>1 DEF Settle
<1>4. ASSUME TaskMarkFailed(w) PROVE record'[r] = record[r]
  BY <1>1, <1>4 DEF TaskMarkFailed
<1>5. \/ \E refused : Claim(w, refused)
      \/ Settle(w) \/ TaskMarkFailed(w) \/ record' = record
  BY DEF WorkerStep, WorkerFault, Take, ReadRecord, LoopReturns, PullClaim, PullAcknowledge,
         PullRelease, TaskClaim, TaskDuplicate, TaskAcknowledge, TaskRaises, LoopReturnsUnsettled,
         LoopRaises, Die, PullLease, Deliver
<1> QED
  BY <1>2, <1>3, <1>4, <1>5

\* A command in hand stays so until its run is claimed and the result stored:
\* a worker acknowledges only what it has settled (_process_one_pull_job).
LEMMA CommandStaysInHand ==
  ASSUME IInv, [Next]_vars, NEW w \in Workers, WorkerStep(w) \/ WorkerFault(w) \/ Take(w),
         backend = "redis", NEW r \in Runs, record'[r].status = "QUEUED", InHand(r)
  PROVE  InHand(r)'
<1>0. /\ worker \in [Workers -> WorkerState] /\ record \in [Runs -> Record] /\ QueueInv(q)
      /\ \A v \in Workers : WorkerOK(v)
      /\ record'[r] = record[r] /\ q.issued \in Nat
  BY WorkersDoNotQueue DEF IInv, WorkersOK, StoreOK, QueueOK, QueueInv, KeysTyped
<1>1. /\ r \in DOMAIN q.jobs /\ r \notin q.cancelled
      /\ \A v \in Workers : worker[v].pc = "ack" /\ worker[v].run = r => ~Held(q, worker[v].ticket, r)
  BY DEF InHand
\* The queue stays, and nobody gets to acknowledge r.
<1>2. ASSUME q' = q, OneWorker(w), worker'[w].pc # "ack" \/ worker'[w].run # r PROVE InHand(r)'
  BY <1>1, <1>2 DEF InHand, OneWorker, Held
\* The queue moves on without r, and the worker leaves.
<1>3. ASSUME r \in DOMAIN q'.jobs, r \notin q'.cancelled, OneWorker(w), worker'[w].pc # "ack",
             \A v \in Workers : worker[v].pc # "idle" /\ Held(q', worker[v].ticket, r)
                                  => Held(q, worker[v].ticket, r)
      PROVE  InHand(r)'
  BY <1>1, <1>3 DEF InHand, OneWorker, Held
<1>4. ASSUME Leave(w) PROVE OneWorker(w) /\ worker'[w].pc # "ack"
  BY <1>0, <1>4, LeaveEffect
<1>5. ASSUME NEW pc \in {"failed", "release"}, Set(w, pc) PROVE OneWorker(w) /\ worker'[w].pc # "ack"
  BY <1>0, <1>5, SetEffect
<1>6. CASE Settle(w)
  <2>1. q' = q
    BY <1>6 DEF Settle
  <2>2. CASE Cas(worker[w].run, worker[w].read.version)
    <3>1. Set(w, "ack") /\ Write(worker[w].run, worker[w].read.version, worker[w].outcome, worker[w].read.version)
      BY <1>6, <2>2 DEF Settle
    <3>2. OneWorker(w) /\ worker'[w].run = worker[w].run
      BY <1>0, <3>1, SetEffect DEF SameJob
    <3>3. worker[w].outcome # "QUEUED"
      BY <1>0, <1>6 DEF Settle, WorkerOK
    <3>4. worker[w].run # r
      BY <1>0, <3>1, <3>3 DEF Write
    <3> QED
      BY <1>2, <2>1, <3>2, <3>4
  <2>3. CASE ~Cas(worker[w].run, worker[w].read.version)
    <3>1. Set(w, "release")
      BY <1>6, <2>3 DEF Settle
    <3> QED
      BY <1>2, <1>5, <2>1, <3>1
  <2> QED
    BY <2>2, <2>3
<1>7. CASE PullAcknowledge(w)
  <2> DEFINE l == worker[w].ticket
             x == worker[w].run
             s == AcknowledgeScript(q, l, x)
  <2>1. Leave(w) /\ q' = s /\ worker[w].pc = "ack"
    BY <1>7 DEF PullAcknowledge
  <2>2. \/ s = q
        \/ /\ Held(q, l, x) /\ QueueInv(s)
           /\ DOMAIN s.jobs = DOMAIN q.jobs \ {x} /\ s.cancelled = q.cancelled \ {x}
           /\ s.leases = Del(q.leases, {l}) /\ s.issued = q.issued
           /\ Command(s, x) = Queue!Absent
           /\ OthersKept(q, s, {x})
    BY <1>0, AcknowledgeCases
  <2> HIDE DEF s
  <2>3. CASE s = q
    BY <1>2, <1>4, <2>1, <2>3
  <2>4. CASE /\ Held(q, l, x)
             /\ DOMAIN s.jobs = DOMAIN q.jobs \ {x} /\ s.cancelled = q.cancelled \ {x}
             /\ s.leases = Del(q.leases, {l})
    <3>1. x # r
      BY <1>1, <2>1, <2>4
    <3>2. \A t : Held(q', t, r) => Held(q, t, r)
      BY <2>1, <2>4 DEF Held, Del, Restrict
    <3>3. r \in DOMAIN q'.jobs /\ r \notin q'.cancelled
      BY <1>1, <2>1, <2>4, <3>1
    <3> QED
      BY <1>3, <1>4, <2>1, <3>2, <3>3
  <2> QED
    BY <2>2, <2>3, <2>4
<1>8. ASSUME NEW delay \in BOOLEAN, PullRelease(w, delay) PROVE InHand(r)'
  <2> DEFINE l == worker[w].ticket
             x == worker[w].run
             s == ReleaseScript(q, l, x, delay)
  <2>1. Leave(w) /\ q' = s
    BY <1>8 DEF PullRelease
  <2>2. Released(q, l, x, s)
    BY <1>0, ReleaseCases
  <2> HIDE DEF s
  <2>3. CASE s = q
    BY <1>2, <1>4, <2>1, <2>3
  <2>4. CASE s # q
    <3>1. /\ s.leases = Del(q.leases, {l})
          /\ \/ /\ x \in q.cancelled
                /\ DOMAIN s.jobs = DOMAIN q.jobs \ {x} /\ s.cancelled = q.cancelled \ {x}
             \/ DOMAIN s.jobs = DOMAIN q.jobs /\ s.cancelled = q.cancelled
      BY <2>2, <2>4 DEF Released
    <3>2. \A t : Held(q', t, r) => Held(q, t, r)
      BY <2>1, <3>1 DEF Held, Del, Restrict
    <3>3. r \in DOMAIN q'.jobs /\ r \notin q'.cancelled
      BY <1>1, <2>1, <3>1
    <3> QED
      BY <1>3, <1>4, <2>1, <3>2, <3>3
  <2> QED
    BY <2>3, <2>4
<1>9. ASSUME NEW ripe \in SUBSET q.delayed, NEW late \in SUBSET DOMAIN q.leases, PullLease(w, ripe, late)
      PROVE  InHand(r)'
  <2> DEFINE s == LeaseScript(q, ripe, late)
             R == RunsOf(q, late)
  <2>1. q' = s
    BY <1>9 DEF PullLease
  <2>2. LeasedOut(q, late, s)
    BY <1>0, LeaseEffect
  <2> HIDE DEF s
  <2>3. /\ DOMAIN s.jobs = DOMAIN q.jobs \ (R \cap q.cancelled) /\ s.cancelled = q.cancelled \ R
        /\ \/ s.leases = Del(q.leases, late)
           \/ \E h \in Runs : s.leases = Put(Del(q.leases, late), q.issued + 1, h)
    BY <2>2 DEF LeasedOut
  <2>4. r \in DOMAIN q'.jobs /\ r \notin q'.cancelled
    BY <1>1, <2>1, <2>3
  <2>5. ASSUME NEW v \in Workers, worker[v].pc # "idle", Held(q', worker[v].ticket, r)
        PROVE  Held(q, worker[v].ticket, r)
    <3>1. worker[v].ticket # q.issued + 1
      BY <1>0, <2>5 DEF WorkerOK
    <3> QED
      BY <2>1, <2>3, <2>5, <3>1 DEF Held, Del, Put, Restrict
  <2>6. worker' = worker \/ (OneWorker(w) /\ worker'[w].pc = "get")
    BY <1>9, PullLeaseEffect
  <2>7. worker' = worker => InHand(r)'
    BY <1>1, <2>4, <2>5 DEF InHand, Held
  <2> QED
    BY <1>3, <2>4, <2>5, <2>6, <2>7
<1>10. ReadRecord(w) => q' = q /\ OneWorker(w) /\ worker'[w].pc # "ack"
  BY ReadRecordEffect DEF ReadRecord
<1>11. \A s \in {"PAUSED", "COMPLETED"} : LoopReturns(w, s) => q' = q /\ OneWorker(w) /\ worker'[w].pc # "ack"
  BY <1>0, LoopReturnsEffect DEF LoopReturns
<1>12. PullClaim(w) => q' = q /\ OneWorker(w) /\ worker'[w].pc # "ack"
  BY ClaimEffect DEF PullClaim
<1>13. LoopReturnsUnsettled(w) \/ Die(w) => q' = q /\ Leave(w)
  BY DEF LoopReturnsUnsettled, Die
<1>14. LoopRaises(w) => q' = q /\ Set(w, "release")
  BY DEF LoopRaises
<1>15. ~TaskClaim(w, TRUE) /\ ~TaskClaim(w, FALSE) /\ ~TaskDuplicate(w) /\ ~TaskMarkFailed(w)
       /\ ~TaskAcknowledge(w) /\ ~TaskRaises(w) /\ \A m : ~Deliver(w, m)
  BY DEF TaskClaim, TaskDuplicate, TaskMarkFailed, TaskAcknowledge, TaskRaises, Deliver
<1>16. WorkerStep(w) => InHand(r)'
  BY <1>2, <1>6, <1>7, <1>8, <1>10, <1>11, <1>12, <1>15 DEF WorkerStep
<1>17. WorkerFault(w) => InHand(r)'
  BY <1>2, <1>4, <1>5, <1>8, <1>13, <1>14, <1>15 DEF WorkerFault
<1>18. Take(w) => InHand(r)'
  BY <1>9, <1>15 DEF Take
<1> QED
  BY <1>16, <1>17, <1>18

\* A message under way stays so until its run is claimed: a worker that holds
\* it claims the queued record, or dies and gives it back (acks_late), unless
\* its task fails before the claim.
LEMMA MessageStaysUnderway ==
  ASSUME IInv, NEW w \in Workers, WorkerStep(w) \/ WorkerFault(w) \/ Take(w),
         backend = "celery", NEW r \in Runs, record'[r].status = "QUEUED", Underway(r),
         used'.conflicts = used.conflicts
  PROVE  Underway(r)'
<1>0. /\ worker \in [Workers -> WorkerState] /\ record \in [Runs -> Record]
      /\ \A v \in Workers : WorkerOK(v)
      /\ record'[r] = record[r] /\ record[r].status = "QUEUED"
  BY WorkersDoNotQueue DEF IInv, WorkersOK, StoreOK
<1> DEFINE Holds(v) == /\ worker[v].run = r
                       /\ \/ worker[v].pc = "get"
                          \/ worker[v].pc = "claim" /\ worker[v].read = record[r]
\* A worker that holds nothing of r moves on.
<1>1. ASSUME broker \subseteq broker', OneWorker(w), ~Holds(w) PROVE Underway(r)'
  BY <1>0, <1>1 DEF Underway, OneWorker
<1>2. ASSUME broker \subseteq broker', Leave(w), ~Holds(w) PROVE Underway(r)'
  BY <1>0, <1>1, <1>2, LeaveEffect
<1>3. ASSUME broker \subseteq broker', NEW pc \in {"failed", "ack"}, Set(w, pc), ~Holds(w) PROVE Underway(r)'
  BY <1>0, <1>1, <1>3, SetEffect
<1>4. CASE ReadRecord(w)
  <2>1. /\ OneWorker(w) /\ worker'[w].run = worker[w].run /\ worker[w].pc = "get" /\ broker' = broker
        /\ worker'[w].pc = "claim" /\ worker'[w].read = record[worker[w].run]
    BY <1>4, ReadRecordEffect DEF SameJob, ReadRecord
  <2>2. CASE worker[w].run = r
    BY <1>0, <2>1, <2>2 DEF Underway
  <2>3. CASE worker[w].run # r
    BY <1>1, <2>1, <2>3
  <2> QED
    BY <2>2, <2>3
<1>5. ASSUME NEW expired \in BOOLEAN, TaskClaim(w, expired) PROVE Underway(r)'
  <2>1. Claim(w, "ack") /\ worker[w].pc = "claim" /\ broker' = broker
    BY <1>5 DEF TaskClaim
  <2>2. OneWorker(w)
    BY <2>1, ClaimEffect
  <2>3. ~Holds(w)
    <3> SUFFICES ASSUME worker[w].run = r, worker[w].read = record[r] PROVE FALSE
      BY <2>1
    <3>1. Write(r, record[r].version, "RUNNING", worker[w].read.result)
      BY <2>1 DEF Claim, Cas
    <3> QED
      BY <1>0, <3>1 DEF Write
  <2> QED
    BY <1>1, <2>1, <2>2, <2>3
<1>6. CASE TaskDuplicate(w)
  <2>1. Set(w, "ack") /\ broker' = broker /\ worker[w].pc = "claim" /\ worker[w].read.status # "QUEUED"
    BY <1>6 DEF TaskDuplicate, Claimable
  <2> QED
    BY <1>0, <1>3, <2>1
<1>7. CASE Die(w)
  <2>1. Leave(w) /\ broker' = broker \cup {worker[w].ticket} /\ worker[w].pc # "idle"
    BY <1>7 DEF Die
  <2>2. worker[w].run = r => worker[w].ticket.run = r
    BY <1>0, <2>1 DEF WorkerOK
  <2> QED
    BY <1>2, <2>1, <2>2 DEF Underway
<1>8. ASSUME NEW m, Deliver(w, m) PROVE Underway(r)'
  <2>1. /\ OneWorker(w) /\ worker[w].pc = "idle" /\ worker'[w].pc = "get" /\ worker'[w].run = m.run
        /\ broker' = broker \ {m}
    BY <1>8, DeliverEffect DEF Deliver
  <2>2. CASE m.run = r
    BY <2>1, <2>2 DEF Underway
  <2>3. CASE m.run # r
    BY <1>0, <2>1, <2>3 DEF Underway, OneWorker
  <2> QED
    BY <2>2, <2>3
<1>9. Settle(w) \/ TaskMarkFailed(w) \/ LoopReturnsUnsettled(w) =>
        Set(w, "ack") /\ broker' = broker /\ ~Holds(w)
  BY DEF Settle, TaskMarkFailed, LoopReturnsUnsettled
<1>10. LoopRaises(w) => Set(w, "failed") /\ broker' = broker /\ ~Holds(w)
  BY DEF LoopRaises
<1>11. TaskAcknowledge(w) => Leave(w) /\ broker' = broker /\ ~Holds(w)
  BY DEF TaskAcknowledge
<1>12. \A s \in {"PAUSED", "COMPLETED"} : LoopReturns(w, s) => OneWorker(w) /\ broker' = broker /\ ~Holds(w)
  BY <1>0, LoopReturnsEffect DEF LoopReturns
<1>13. ~PullClaim(w) /\ ~PullAcknowledge(w) /\ ~PullRelease(w, TRUE) /\ ~PullRelease(w, FALSE)
  BY DEF PullClaim, PullAcknowledge, PullRelease
<1>14. WorkerStep(w) => Underway(r)'
  BY <1>1, <1>2, <1>3, <1>4, <1>5, <1>6, <1>9, <1>11, <1>12, <1>13 DEF WorkerStep
<1>15. WorkerFault(w) => Underway(r)'
  <2>1. TaskRaises(w) => Set(w, "ack") /\ broker' = broker /\ ~Holds(w)
    <3> SUFFICES ASSUME TaskRaises(w), worker[w].pc \in {"get", "claim"} PROVE FALSE
      BY DEF TaskRaises
    <3>1. used' = [used EXCEPT !.faults = used.faults + 1, !.conflicts = used.conflicts + 1]
      BY DEF TaskRaises
    <3>2. used'.conflicts = used.conflicts + 1 /\ used.conflicts \in Nat
      BY <3>1 DEF IInv, StoreOK, Counted
    <3> QED
      BY <3>2
  <2> QED
    BY <1>3, <1>5, <1>7, <1>9, <1>10, <1>13, <2>1 DEF WorkerFault
<1>16. Take(w) => Underway(r)'
  BY <1>8 DEF Take, PullLease
<1> QED
  BY <1>14, <1>15, <1>16

\* A call that will yet wake a run goes on to do so, unless it has just done
\* it or has given up.
LEMMA CallsGoOn ==
  ASSUME IInv, [Next]_vars, NEW c \in Clients, ClientCall(c) \/ ClientStep(c) \/ ClientFault(c),
         NEW r \in Runs, Queued(r), record'[r] = record[r], Calling(r), used'.conflicts = 0,
         ~Enqueue(c) \/ client[c].run # r
  PROVE  Calling(r)'
<1>0. /\ client \in [Clients -> ClientState] /\ record \in [Runs -> Record]
      /\ \A d \in Clients : ClientOK(d)
  BY DEF IInv, ClientsOK, StoreOK
<1> DEFINE Calls(d) == /\ client[d].run = r
                       /\ \/ client[d].pc = "enqueue"
                          \/ client[d].pc \in {"read", "write"} /\ client[d].goal # "QUEUED"
<1>1. PICK d \in Clients : Calls(d)
  BY DEF Calling
<1>2. ASSUME OneClient(c), d # c PROVE Calling(r)'
  BY <1>1, <1>2 DEF Calling, OneClient
<1>3. ASSUME OneClient(c), ~Calls(c) PROVE Calling(r)'
  BY <1>1, <1>2, <1>3
<1>4. ASSUME client' = client PROVE Calling(r)'
  BY <1>1, <1>4 DEF Calling
<1>5. ASSUME d = c, client'[c].run = r, client'[c].pc = "enqueue" PROVE Calling(r)'
  BY <1>5 DEF Calling
<1>6. ASSUME client'[c].run = r, client'[c].pc \in {"read", "write"}, client'[c].goal # "QUEUED"
      PROVE  Calling(r)'
  BY <1>6 DEF Calling
<1>7. ASSUME NEW x \in Runs, Submit(c, x) \/ Cancel(c, x) \/ Resume(c, x) PROVE Calling(r)'
  <2>1. client' = client \/ (OneClient(c) /\ client[c].pc = "idle")
    BY <1>7, SubmitEffect, CancelCallEffect, ResumeCallEffect
  <2> QED
    BY <1>3, <1>4, <2>1
<1>8. CASE UpdateRead(c)
  <2>1. OneClient(c) /\ client[c].pc = "read"
    BY <1>8, UpdateReadEffect DEF UpdateRead
  <2>2. CASE Calls(c)
    <3>1. record[r].status \in Expected(c)
      BY <1>0, <2>1, <2>2 DEF ClientOK, Expected, Queued
    <3>2. SamePurpose(c) /\ client'[c].pc = "write" /\ client'[c].goal = client[c].goal
      BY <1>8, <2>1, <2>2, <3>1, UpdateReadEffect
    <3> QED
      BY <1>6, <2>1, <2>2, <3>2 DEF SamePurpose
  <2> QED
    BY <1>3, <2>1, <2>2
<1>9. CASE UpdateWrite(c)
  <2>1. OneClient(c) /\ client[c].pc = "write"
    BY <1>9, UpdateWriteEffect DEF UpdateWrite
  <2>2. CASE Calls(c)
    <3>1. record[r].version \in Nat
      BY <1>0 DEF Record
    <3>2. record'[r].version # record[r].version + 1
      BY <3>1
    <3>3. SamePurpose(c) /\ client'[c].pc = "read" /\ client'[c].goal = client[c].goal
      BY <1>9, <2>2, <3>2, UpdateWriteEffect
    <3> QED
      BY <1>6, <2>1, <2>2, <3>3 DEF SamePurpose
  <2> QED
    BY <1>3, <2>1, <2>2
<1>10. CASE Undo(c) /\ client[c].pc = "enqueue"
  <2>1. /\ OneClient(c) /\ SamePurpose(c) /\ client'[c].pc = "read"
        /\ client'[c].goal = IF client[c].op = "submit" THEN "FAILED" ELSE client[c].seen.status
    BY <1>0, <1>10, UndoEffect
  <2>2. client'[c].goal # "QUEUED"
    BY <1>0, <1>10, <2>1 DEF ClientOK
  <2> QED
    BY <1>3, <1>6, <2>1, <2>2 DEF SamePurpose
<1>11. CASE Revoke(c)
  BY <1>3, <1>11, RevokeEffect
<1>12. CASE Enqueue(c)
  <2>1. OneClient(c)
    BY <1>0, <1>12, ReturnEffectOnClient DEF Enqueue
  <2> QED
    BY <1>3, <1>12, <2>1
<1>13. ClientCall(c) => Calling(r)'
  BY <1>7 DEF ClientCall
<1>14. ClientStep(c) => Calling(r)'
  BY <1>8, <1>9, <1>10, <1>11, <1>12 DEF ClientStep, EnqueueRefused
<1>15. ClientFault(c) => Calling(r)'
  BY <1>10 DEF ClientFault, EnqueueFails, EnqueueAnswerLost
<1> QED
  BY <1>13, <1>14, <1>15

\* A command that is sent wakes its run, or a call that cancels the run is
\* there to write over QUEUED.
LEMMA SendWakes ==
  ASSUME IInv, [Next]_vars, NEW c \in Clients, Enqueue(c), NEW r \in Runs, client[c].run = r, Queued(r),
         used.conflicts = 0
  PROVE  Awaited(r)'
<1>0. /\ client \in [Clients -> ClientState] /\ QueueInv(q) /\ backend' = backend
      /\ \A d \in Clients : ClientOK(d)
      /\ OneClient(c) /\ client[c].pc = "enqueue" /\ worker' = worker /\ revoked' = revoked
      /\ backend \in {"redis", "celery"}
  BY StoreKept, ServiceAssumption, ReturnEffectOnClient DEF IInv, ClientsOK, QueueOK, StoreOK, Enqueue
<1>1. CASE backend = "redis"
  <2> DEFINE a == Action(c)
             s == EnqueueScript(q, r, a)
  <2>1. q' = s /\ EnqueueAccepts(q, r)
    BY <1>1 DEF Enqueue, Sent, Accepted
  <2>2. Enqueued(q, r, s)
    BY <1>0, <2>1, EnqueueEffect
  <2> HIDE DEF s
  <2>3. r \notin DOMAIN q.jobs /\ q.cancelled \subseteq DOMAIN q.jobs
    BY <1>0, <2>1 DEF EnqueueAccepts, QueueInv, OnePlace
  <2>4. \A l : ~Held(q, l, r)
    BY <1>0, <2>3, HeldIsLeased
  <2>5. InHand(r)'
    BY <2>1, <2>2, <2>3, <2>4 DEF Enqueued, InHand, Held
  <2> QED
    BY <1>0, <1>1, <2>5 DEF Awaited
<1>2. CASE backend = "celery"
  <2> DEFINE m == [id |-> used.messages + 1, run |-> r, action |-> Action(c)]
  <2>1. m \in broker' /\ m.run = r
    BY <1>2 DEF Enqueue, Sent
  <2> HIDE DEF m
  <2>2. Underway(r)'
    BY <2>1 DEF Underway
  <2>3. CASE NotRevoked(r)
    BY <1>0, <1>2, <2>2, <2>3 DEF Awaited, NotRevoked
  <2>4. CASE ~NotRevoked(r)
    <3>1. record[r].status \notin Terminal
      BY StatusNames DEF Queued
    <3>2. PICK d \in Clients : client[d].run = r /\ client[d].op = "cancel" /\ client[d].pc \in {"read", "write"}
      BY <1>2, <2>4, <3>1 DEF IInv, WokenOK, Cancelling
    <3>3. d # c /\ client[d].goal = "CANCELLED"
      BY <1>0, <3>2 DEF ClientOK
    <3>4. client'[d] = client[d]
      BY <1>0, <3>3 DEF OneClient
    <3>5. Calling(r)'
      BY <3>2, <3>3, <3>4 DEF Calling
    <3> QED
      BY <3>5 DEF Awaited
  <2> QED
    BY <2>3, <2>4
<1> QED
  BY <1>0, <1>1, <1>2

\* What other calls do to a run whose command is in hand or under way: cancel
\* takes it away, and goes on to write over QUEUED.
LEMMA CallsLeaveOrCancel ==
  ASSUME IInv, [Next]_vars, NEW c \in Clients, ClientCall(c) \/ ClientStep(c) \/ ClientFault(c), NEW r \in Runs,
         record'[r] = record[r], Awaited(r), ~Calling(r)
  PROVE  Awaited(r)'
<1>0. /\ client \in [Clients -> ClientState] /\ QueueInv(q) /\ backend' = backend
      /\ backend \in {"redis", "celery"}
  BY StoreKept, ServiceAssumption DEF IInv, ClientsOK, QueueOK, StoreOK
<1>1. worker' = worker
  BY DEF ClientCall, ClientStep, ClientFault, Submit, Cancel, Resume, UpdateRead, UpdateWrite, Enqueue,
         EnqueueRefused, EnqueueFails, EnqueueAnswerLost, Revoke
\* Neither the queue nor the broker loses anything of r.
<1>2. ASSUME backend = "redis", r \in DOMAIN q'.jobs, r \notin q'.cancelled, q'.leases = q.leases
      PROVE  Awaited(r)'
  <2>1. InHand(r)
    BY <1>2 DEF Awaited
  <2>2. InHand(r)'
    BY <1>1, <1>2, <2>1 DEF InHand, Held
  <2> QED
    BY <1>0, <1>2, <2>2 DEF Awaited
<1>3. ASSUME backend = "celery", broker \subseteq broker', NotRevoked(r)'
      PROVE  Awaited(r)'
  <2>1. Underway(r)
    BY <1>3 DEF Awaited
  <2>2. Underway(r)'
    BY <1>1, <1>3, <2>1 DEF Underway
  <2> QED
    BY <1>0, <1>3, <2>2 DEF Awaited
<1>4. backend = "redis" => r \in DOMAIN q.jobs /\ r \notin q.cancelled
  BY DEF Awaited, InHand
<1>5. backend = "celery" => NotRevoked(r)
  BY DEF Awaited
<1>6. CASE Revoke(c) /\ client[c].run = r /\ client'[c].pc = "read"
  <2>1. SamePurpose(c) /\ client[c].goal = "CANCELLED" /\ client'[c].goal = client[c].goal
    BY <1>6, RevokeEffect
  <2>2. Calling(r)'
    BY <1>6, <2>1 DEF Calling, SamePurpose
  <2> QED
    BY <2>2 DEF Awaited
<1>7. CASE Revoke(c) /\ ~(client[c].run = r /\ client'[c].pc = "read")
  <2> DEFINE x == client[c].run
  <2>1. /\ broker' = broker /\ x \in Runs
        /\ \/ /\ backend = "celery" /\ x # r
              /\ revoked' = revoked \cup ({"START", "RESUME"} \X {x})
           \/ /\ backend # "celery" /\ x # r /\ CancelAccepts(q, x) /\ q' = CancelScript(q, x)
           \/ q' = q /\ revoked' = revoked
    BY <1>7, RevokeEffect DEF Revoke
  <2>2. CASE backend = "celery"
    <3>1. NotRevoked(r)'
      BY <1>5, <2>1, <2>2 DEF NotRevoked
    <3> QED
      BY <1>3, <2>1, <2>2, <3>1
  <2>3. CASE backend = "redis"
    <3>1. CASE q' = q
      BY <1>2, <1>4, <2>3, <3>1
    <3>2. CASE x # r /\ CancelAccepts(q, x) /\ q' = CancelScript(q, x)
      <4>0. x \in Runs /\ CancelAccepts(q, x) /\ QueueInv(q)
        BY <1>0, <2>1, <3>2
      <4> DEFINE t == CancelScript(q, x)
      <4>1. Withdrawn(q, x, t)
        BY <4>0, CancelEffect
      <4>2. q' = t
        BY <3>2
      <4> HIDE DEF t
      <4> QED
        BY <1>2, <1>4, <2>3, <3>2, <4>1, <4>2 DEF Withdrawn
    <3> QED
      BY <2>1, <2>3, <3>1, <3>2
  <2> QED
    BY <1>0, <2>2, <2>3
<1>8. CASE Enqueue(c) \/ EnqueueAnswerLost(c)
  <2> DEFINE x == client[c].run
             a == Action(c)
             s == EnqueueScript(q, x, a)
  <2>1. revoked' = revoked /\ x \in Runs
    BY <1>8 DEF Enqueue, EnqueueAnswerLost, IInv, ClientsOK, ClientOK
  <2>2. CASE backend = "celery"
    <3>1. broker \subseteq broker' /\ NotRevoked(r)'
      BY <1>5, <1>8, <2>1, <2>2 DEF Enqueue, Sent, EnqueueAnswerLost, NotRevoked
    <3> QED
      BY <1>3, <2>2, <3>1
  <2>3. CASE backend = "redis"
    <3>1. EnqueueAccepts(q, x) /\ q' = s
      BY <1>8, <2>3 DEF Enqueue, Sent, EnqueueAnswerLost, Accepted
    <3>2. Enqueued(q, x, s)
      BY <1>0, <2>1, <3>1, EnqueueEffect
    <3> HIDE DEF s
    <3> QED
      BY <1>2, <1>4, <2>3, <3>1, <3>2 DEF Enqueued
  <2> QED
    BY <1>0, <2>2, <2>3
<1>9. CASE q' = q /\ broker' = broker /\ revoked' = revoked
  <2>1. backend = "celery" => NotRevoked(r)'
    BY <1>5, <1>9 DEF NotRevoked
  <2> QED
    BY <1>0, <1>2, <1>3, <1>4, <1>9, <2>1
<1>10. Revoke(c) \/ Enqueue(c) \/ EnqueueAnswerLost(c) \/ (q' = q /\ broker' = broker /\ revoked' = revoked)
  BY DEF ClientCall, ClientStep, ClientFault, Submit, Cancel, Resume, UpdateRead, UpdateWrite,
         EnqueueRefused, EnqueueFails
<1> QED
  BY <1>6, <1>7, <1>8, <1>9, <1>10

\* A record that a call queues is one the call goes on to enqueue.
LEMMA CallsQueueToEnqueue ==
  ASSUME IInv, NEW c \in Clients, ClientCall(c) \/ ClientStep(c) \/ ClientFault(c),
         NEW r \in Runs, record'[r].status = "QUEUED", record'[r] # record[r]
  PROVE  Calling(r)'
<1>0. /\ client \in [Clients -> ClientState] /\ record \in [Runs -> Record]
  BY DEF IInv, ClientsOK, StoreOK
<1>1. ASSUME NEW x \in Runs, Submit(c, x) PROVE Calling(r)'
  <2>1. \A y \in Runs : y # x => record'[y] = record[y]
    BY <1>0, <1>1 DEF Submit, Create
  <2>2. x = r /\ record' # record
    BY <2>1
  <2>3. client'[c].pc = "enqueue" /\ client'[c].run = x
    BY <1>1, <2>2, SubmitEffect
  <2> QED
    BY <2>2, <2>3 DEF Calling
<1>2. ASSUME UpdateWrite(c) PROVE Calling(r)'
  <2>1. \A y \in Runs : y # client[c].run => record'[y] = record[y]
    BY <1>0, <1>2 DEF UpdateWrite, Write
  <2>2. client[c].run = r /\ record' # record
    BY <2>1
  <2>3. /\ record'[r].status = client[c].goal
        /\ \/ client[c].goal # "QUEUED"
           \/ SamePurpose(c) /\ client'[c].pc = "enqueue"
    BY <1>2, <2>2, UpdateWriteEffect
  <2> QED
    BY <2>2, <2>3 DEF Calling, SamePurpose
<1>3. (\E x \in Runs : Submit(c, x)) \/ UpdateWrite(c) \/ record' = record
  BY DEF ClientCall, ClientStep, ClientFault, Cancel, Resume, UpdateRead, Enqueue,
         EnqueueRefused, EnqueueFails, EnqueueAnswerLost, Revoke
<1> QED
  BY <1>1, <1>2, <1>3

\* A run that was revoked is over or about to be: the call that revoked it
\* goes on until it has written CANCELLED, or found the run over.
LEMMA RevokedIsOver ==
  ASSUME IInv, [Next]_vars, NEW c \in Clients, ClientCall(c) \/ ClientStep(c) \/ ClientFault(c),
         backend = "celery", used'.conflicts = 0, NEW r \in Runs,
         NotRevoked(r) \/ record[r].status \in Terminal \/ Cancelling(r)
  PROVE  NotRevoked(r)' \/ record'[r].status \in Terminal \/ Cancelling(r)'
<1>0. /\ client \in [Clients -> ClientState] /\ record \in [Runs -> Record]
      /\ \A d \in Clients : ClientOK(d)
      /\ Final(r)
  BY StoreKept DEF IInv, ClientsOK, StoreOK
<1>1. record[r].status \in Terminal => record'[r].status \in Terminal
  BY <1>0 DEF Final
<1> DEFINE Cancels(d) == client[d].run = r /\ client[d].op = "cancel" /\ client[d].pc \in {"read", "write"}
\* The calls that cancel, step by step.
<1>2. ASSUME NEW d \in Clients, Cancels(d), OneClient(c), d # c PROVE Cancelling(r)'
  BY <1>2 DEF Cancelling, OneClient
<1>3. ASSUME Cancelling(r), OneClient(c), ~Cancels(c) PROVE Cancelling(r)'
  BY <1>2, <1>3 DEF Cancelling
<1>4. ASSUME client' = client, Cancelling(r) PROVE Cancelling(r)'
  BY <1>4 DEF Cancelling
<1>5. ASSUME SamePurpose(c), client[c].run = r, client[c].op = "cancel", client'[c].pc \in {"read", "write"}
      PROVE  Cancelling(r)'
  BY <1>5 DEF Cancelling, SamePurpose
<1>6. ASSUME NEW x \in Runs, Submit(c, x) \/ Cancel(c, x) \/ Resume(c, x), Cancelling(r) PROVE Cancelling(r)'
  <2>1. client' = client \/ (OneClient(c) /\ client[c].pc = "idle")
    BY <1>6, SubmitEffect, CancelCallEffect, ResumeCallEffect
  <2> QED
    BY <1>3, <1>4, <1>6, <2>1
<1>7. ASSUME UpdateRead(c), Cancelling(r) PROVE record'[r].status \in Terminal \/ Cancelling(r)'
  <2>1. OneClient(c) /\ client[c].pc = "read" /\ record' = record
    BY <1>7, UpdateReadEffect DEF UpdateRead
  <2>2. CASE Cancels(c)
    <3>1. Expected(c) = {"QUEUED", "RUNNING", "PAUSED", "BLOCKED"} /\ record[r].status # "none"
      BY <1>0, <2>1, <2>2 DEF Expected, ClientOK, HasRecord
    <3>2. CASE record[r].status \in Expected(c)
      <4>1. SamePurpose(c) /\ client'[c].pc = "write"
        BY <1>7, <2>2, <3>2, UpdateReadEffect
      <4> QED
        BY <1>5, <2>2, <4>1
    <3>3. CASE record[r].status \notin Expected(c)
      <4>1. record[r].status \in Status
        BY <1>0 DEF Record
      <4>2. record[r].status \in Terminal
        BY <3>1, <3>3, <4>1, StatusNames
      <4> QED
        BY <2>1, <4>2
    <3> QED
      BY <3>2, <3>3
  <2> QED
    BY <1>3, <1>7, <2>1, <2>2
<1>8. ASSUME UpdateWrite(c), Cancelling(r) PROVE record'[r].status \in Terminal \/ Cancelling(r)'
  <2>1. OneClient(c) /\ client[c].pc = "write"
    BY <1>8, UpdateWriteEffect DEF UpdateWrite
  <2>2. CASE Cancels(c)
    <3>1. client[c].goal = "CANCELLED" /\ "CANCELLED" \in Terminal
      BY <1>0, <2>1, <2>2, StatusNames DEF ClientOK
    <3>2. \/ record'[r].status = client[c].goal
          \/ SamePurpose(c) /\ client'[c].pc = "read"
      BY <1>8, <2>2, UpdateWriteEffect
    <3> QED
      BY <1>5, <2>2, <3>1, <3>2
  <2> QED
    BY <1>3, <1>8, <2>1, <2>2
<1>9. ASSUME Undo(c) \/ Return(c), client[c].pc = "enqueue", Cancelling(r) PROVE Cancelling(r)'
  <2>1. OneClient(c)
    BY <1>0, <1>9, UndoEffect, ReturnEffectOnClient
  <2> QED
    BY <1>3, <1>9, <2>1
<1>10. ASSUME Revoke(c), Cancelling(r) PROVE Cancelling(r)'
  BY <1>3, <1>10, RevokeEffect
<1>11. ASSUME Cancelling(r) PROVE record'[r].status \in Terminal \/ Cancelling(r)'
  <2>1. ClientCall(c) => Cancelling(r)'
    BY <1>6, <1>11 DEF ClientCall
  <2>2. ClientStep(c) => \/ UpdateRead(c) \/ UpdateWrite(c) \/ Revoke(c)
                         \/ (Undo(c) \/ Return(c)) /\ client[c].pc = "enqueue"
    BY DEF ClientStep, Enqueue, EnqueueRefused
  <2>3. ClientFault(c) => Undo(c) /\ client[c].pc = "enqueue"
    BY DEF ClientFault, EnqueueFails, EnqueueAnswerLost
  <2> QED
    BY <1>7, <1>8, <1>9, <1>10, <1>11, <2>1, <2>2, <2>3
\* The call that revokes is the one that goes on.
<1>12. ASSUME NotRevoked(r), ~NotRevoked(r)' PROVE Cancelling(r)'
  <2>1. Revoke(c) \/ revoked' = revoked
    BY DEF ClientCall, ClientStep, ClientFault, Submit, Cancel, Resume, UpdateRead, UpdateWrite, Enqueue,
           EnqueueRefused, EnqueueFails, EnqueueAnswerLost
  <2>2. Revoke(c)
    BY <1>12, <2>1 DEF NotRevoked
  <2>3. /\ SamePurpose(c) /\ client'[c].pc = "read" /\ client[c].op = "cancel"
        /\ revoked' = revoked \cup ({"START", "RESUME"} \X {client[c].run})
    BY <1>12, <2>2, RevokeEffect DEF NotRevoked
  <2>4. client[c].run = r
    BY <1>12, <2>3 DEF NotRevoked
  <2> QED
    BY <1>5, <2>3, <2>4
<1> QED
  BY <1>1, <1>11, <1>12

LEMMA WokenKept ==
  ASSUME IInv, [Next]_vars
  PROVE  WokenOK'
<1>0. /\ record \in [Runs -> Record] /\ backend' = backend /\ Counted(used) /\ Counted(used')
      /\ used'.conflicts >= used.conflicts
      /\ \A r \in Runs : Final(r)
      /\ backend \in {"redis", "celery"}
  BY StoreKept, CountersKept, ServiceAssumption DEF IInv, StoreOK
<1> SUFFICES ASSUME used'.conflicts = 0, NEW r \in Runs
             PROVE  /\ record'[r].status = "QUEUED" => Awaited(r)'
                    /\ backend = "celery" => NotRevoked(r)' \/ record'[r].status \in Terminal \/ Cancelling(r)'
  BY <1>0 DEF WokenOK, Queued
<1>1. used.conflicts = 0
  BY <1>0 DEF Counted
<1>2. /\ Queued(r) => Awaited(r)
      /\ backend = "celery" => NotRevoked(r) \/ record[r].status \in Terminal \/ Cancelling(r)
  BY <1>1 DEF IInv, WokenOK
<1>3. ASSUME NEW c \in Clients, ClientCall(c) \/ ClientStep(c) \/ ClientFault(c)
      PROVE  /\ record'[r].status = "QUEUED" => Awaited(r)'
             /\ backend = "celery" => NotRevoked(r)' \/ record'[r].status \in Terminal \/ Cancelling(r)'
  <2>1. backend = "celery" => NotRevoked(r)' \/ record'[r].status \in Terminal \/ Cancelling(r)'
    BY <1>2, <1>3, RevokedIsOver
  <2>2. ASSUME record'[r].status = "QUEUED" PROVE Awaited(r)'
    <3>1. CASE record'[r] # record[r]
      BY <1>3, <2>2, <3>1, CallsQueueToEnqueue DEF Awaited
    <3>2. CASE record'[r] = record[r]
      <4>1. Queued(r) /\ Awaited(r)
        BY <1>2, <2>2, <3>2 DEF Queued
      <4>2. CASE Calling(r) /\ (~Enqueue(c) \/ client[c].run # r)
        BY <1>3, <3>2, <4>1, <4>2, CallsGoOn DEF Awaited
      <4>3. CASE Enqueue(c) /\ client[c].run = r
        BY <1>1, <4>1, <4>3, SendWakes
      <4>4. CASE ~Calling(r)
        BY <1>3, <3>2, <4>1, <4>4, CallsLeaveOrCancel
      <4> QED
        BY <4>2, <4>3, <4>4
    <3> QED
      BY <3>1, <3>2
  <2> QED
    BY <2>1, <2>2
<1>4. ASSUME client' = client, revoked' = revoked
      PROVE  /\ Calling(r) => Calling(r)'
             /\ NotRevoked(r) => NotRevoked(r)'
             /\ backend = "celery" => NotRevoked(r)' \/ record'[r].status \in Terminal \/ Cancelling(r)'
  <2>1. Calling(r) => Calling(r)'
    BY <1>4 DEF Calling
  <2>2. NotRevoked(r) => NotRevoked(r)'
    BY <1>4 DEF NotRevoked
  <2>3. Cancelling(r) => Cancelling(r)'
    BY <1>4 DEF Cancelling
  <2>4. backend = "celery" /\ record[r].status \in Terminal => record'[r].status \in Terminal
    BY <1>0 DEF Final
  <2> QED
    BY <1>2, <2>1, <2>2, <2>3, <2>4
<1>5. ASSUME NEW w \in Workers, WorkerStep(w) \/ WorkerFault(w) \/ Take(w)
      PROVE  /\ record'[r].status = "QUEUED" => Awaited(r)'
             /\ backend = "celery" => NotRevoked(r)' \/ record'[r].status \in Terminal \/ Cancelling(r)'
  <2>1. client' = client /\ revoked' = revoked
    BY <1>5 DEF WorkerStep, WorkerFault, Take, ReadRecord, LoopReturns, Settle, PullClaim, PullAcknowledge,
                PullRelease, TaskClaim, TaskDuplicate, TaskMarkFailed, TaskAcknowledge, TaskRaises, LoopReturnsUnsettled,
                LoopRaises, Die, PullLease, Deliver
  <2>2. ASSUME record'[r].status = "QUEUED" PROVE Awaited(r)'
    <3>1. record'[r] = record[r]
      BY <1>5, <2>2, WorkersDoNotQueue
    <3>2. Awaited(r)
      BY <1>2, <2>2, <3>1 DEF Queued
    <3>3. CASE Calling(r)
      BY <1>4, <2>1, <3>3 DEF Awaited
    <3>4. CASE backend = "redis" /\ InHand(r)
      <4>1. InHand(r)'
        BY <1>5, <2>2, <3>4, CommandStaysInHand
      <4> QED
        BY <1>0, <3>4, <4>1 DEF Awaited
    <3>5. CASE backend = "celery" /\ Underway(r) /\ NotRevoked(r)
      <4>1. Underway(r)'
        BY <1>1, <1>5, <2>2, <3>5, MessageStaysUnderway
      <4> QED
        BY <1>0, <1>4, <2>1, <3>5, <4>1 DEF Awaited
    <3> QED
      BY <3>2, <3>3, <3>4, <3>5 DEF Awaited
  <2> QED
    BY <1>4, <2>1, <2>2
<1>6. ASSUME NEW m \in broker, Discard(m)
      PROVE  /\ record'[r].status = "QUEUED" => Awaited(r)'
             /\ backend = "celery" => NotRevoked(r)' \/ record'[r].status \in Terminal \/ Cancelling(r)'
  <2>1. /\ client' = client /\ revoked' = revoked /\ record' = record /\ q' = q /\ worker' = worker
        /\ broker' = broker \ {m} /\ <<m.action, m.run>> \in revoked
    BY <1>6 DEF Discard
  <2>2. m.action \in {"START", "RESUME"}
    BY DEF IInv, QueueOK, Message
  <2>3. InHand(r) => InHand(r)'
    BY <2>1 DEF InHand, Held
  <2>4. Underway(r) /\ NotRevoked(r) => Underway(r)'
    BY <2>1, <2>2 DEF Underway, NotRevoked
  <2>5. record'[r].status = "QUEUED" => Awaited(r)
    BY <1>2, <2>1 DEF Queued
  <2> QED
    BY <1>0, <1>4, <2>1, <2>3, <2>4, <2>5 DEF Awaited
<1>7. ASSUME UNCHANGED vars
      PROVE  /\ record'[r].status = "QUEUED" => Awaited(r)'
             /\ backend = "celery" => NotRevoked(r)' \/ record'[r].status \in Terminal \/ Cancelling(r)'
  <2>1. client' = client /\ revoked' = revoked /\ record' = record /\ q' = q /\ worker' = worker /\ broker' = broker
    BY <1>7 DEF vars
  <2>2. InHand(r) => InHand(r)'
    BY <2>1 DEF InHand, Held
  <2>3. Underway(r) => Underway(r)'
    BY <2>1 DEF Underway
  <2>4. record'[r].status = "QUEUED" => Awaited(r)
    BY <1>2, <2>1 DEF Queued
  <2> QED
    BY <1>0, <1>4, <2>1, <2>2, <2>3, <2>4 DEF Awaited
<1> QED
  BY <1>3, <1>5, <1>6, <1>7 DEF Next

-----------------------------------------------------------------------------
(* The scripts are steps of a lease queue                                   *)

cmd == [r \in Runs |-> Command(q, r)]

QueueStep == [Queue!Next]_(Queue!vars)

LEMMA LeaseIdsInUse ==
  ASSUME NEW k, QueueInv(k), NEW r \in Runs
  PROVE  Command(k, r).lease # k.issued + 1
<1>1. k.issued \in Nat
  BY DEF QueueInv, KeysTyped
<1>2. r \in DOMAIN k.runLeases => k.runLeases[r] =< k.issued /\ k.runLeases[r] \in Nat
  BY DEF QueueInv, LeasesPaired, Held
<1>3. Command(k, r).lease \in {0} \cup (IF r \in DOMAIN k.runLeases THEN {k.runLeases[r]} ELSE {})
  BY DEF Command
<1> QED
  BY <1>1, <1>2, <1>3

LEMMA ScriptsKeepPromise ==
  ASSUME IInv, QueueMove
  PROVE  QueueStep
<1>0. QueueInv(q) /\ asked \cap DOMAIN q.jobs = q.cancelled
  BY DEF IInv, QueueOK
<1> DEFINE new == [r \in Runs |-> Command(q', r)]
           old == [r \in Runs |-> Command(q, r)]
\* The lease queue, with its variables as functions of the keys.
<1>a. ASSUME new = old, asked' = asked PROVE QueueStep
  BY <1>a DEF QueueStep, Queue!vars
<1>b. ASSUME NEW r \in Runs, old[r] = Queue!Absent, new = [old EXCEPT ![r] = Queue!Waiting(1)],
             asked' = asked \ {r}
      PROVE  QueueStep
  <2>1. Queue!Enqueue(r)
    BY <1>b DEF Queue!Enqueue
  <2> QED
    BY <2>1 DEF QueueStep, Queue!Next
<1>c. ASSUME NEW r \in Runs, r \notin asked, asked' = asked \cup {r},
             \/ old[r].phase = "waiting" /\ new = [old EXCEPT ![r] = Queue!Absent]
             \/ old[r].phase = "held" /\ new = [old EXCEPT ![r].phase = "doomed"]
      PROVE  QueueStep
  <2>1. Queue!Cancel(r)
    BY <1>c DEF Queue!Cancel
  <2> QED
    BY <2>1 DEF QueueStep, Queue!Next
<1>d. ASSUME NEW S \in SUBSET Queue!Leased, asked' = asked,
             \/ new = Queue!Reclaimed(S)
             \/ \E r \in Runs : /\ Queue!Reclaimed(S)[r].phase = "waiting"
                                /\ new[r].lease # 0 /\ \A x \in Runs : old[x].lease # new[r].lease
                                /\ new = [Queue!Reclaimed(S) EXCEPT
                                            ![r] = [phase |-> "held", lease |-> new[r].lease,
                                                    attempt |-> Queue!Reclaimed(S)[r].attempt]]
             \/ \E r \in Queue!Leased \ S : new = [Queue!Reclaimed(S) EXCEPT ![r] = Queue!Absent]
      PROVE  QueueStep
  <2>1. \/ Queue!GiveBack(S)
        \/ \E r \in Runs : Queue!Lease(S, r)
        \/ \E r \in Runs : Queue!Acknowledge(S, r)
    BY <1>d DEF Queue!GiveBack, Queue!Lease, Queue!Acknowledge, Queue!Leased
  <2> QED
    BY <2>1 DEF QueueStep, Queue!Next
<1>1. ASSUME NEW r \in Runs, NEW a, QEnqueue(r, a) PROVE QueueStep
  <2> DEFINE s == EnqueueScript(q, r, a)
  <2>1. Enqueued(q, r, s)
    BY <1>0, <1>1, EnqueueEffect DEF QEnqueue
  <2>2. q' = s /\ asked' = asked \ {r}
    BY <1>1 DEF QEnqueue
  <2> HIDE DEF s
  <2>3. old[r] = Queue!Absent /\ new[r] = Queue!Waiting(1) /\ \A x \in Runs \ {r} : new[x] = old[x]
    BY <2>1, <2>2 DEF Enqueued, OthersKept
  <2>4. new = [old EXCEPT ![r] = Queue!Waiting(1)]
    BY <2>3
  <2> QED
    BY <1>b, <2>2, <2>3, <2>4
<1>2. ASSUME NEW r \in Runs, QCancel(r) PROVE QueueStep
  <2> DEFINE s == CancelScript(q, r)
  <2>1. Withdrawn(q, r, s)
    BY <1>0, <1>2, CancelEffect DEF QCancel
  <2>2. q' = s /\ asked' = asked \cup {r} /\ r \in DOMAIN q.jobs
    BY <1>2 DEF QCancel, CancelAccepts
  <2> HIDE DEF s
  <2>3. \A x \in Runs \ {r} : new[x] = old[x]
    BY <2>1, <2>2 DEF Withdrawn, OthersKept
  <2>4. q.cancelled \subseteq DOMAIN q.runLeases
    BY <1>0 DEF QueueInv, OnePlace
  <2>5. CASE r \notin DOMAIN q.runLeases
    <3>1. old[r].phase = "waiting" /\ new[r] = Queue!Absent
      BY <2>1, <2>2, <2>5 DEF Withdrawn
    <3>2. r \notin asked
      BY <1>0, <2>2, <2>4, <2>5
    <3>3. new = [old EXCEPT ![r] = Queue!Absent]
      BY <2>3, <3>1
    <3> QED
      BY <1>c, <2>2, <3>1, <3>2, <3>3
  <2>6. CASE r \in DOMAIN q.runLeases /\ r \notin asked
    <3>1. old[r].phase = "held" /\ new[r] = [old[r] EXCEPT !.phase = "doomed"]
      BY <1>0, <2>1, <2>2, <2>6 DEF Withdrawn
    <3>2. new = [old EXCEPT ![r].phase = "doomed"]
      BY <2>3, <3>1
    <3> QED
      BY <1>c, <2>2, <2>6, <3>1, <3>2
  <2>7. CASE r \in DOMAIN q.runLeases /\ r \in asked
    <3>1. new[r] = [old[r] EXCEPT !.phase = "doomed"] /\ asked' = asked /\ r \in q.cancelled
      BY <1>0, <2>1, <2>2, <2>7 DEF Withdrawn
    <3>2. old[r] = [phase |-> "doomed", lease |-> q.runLeases[r], attempt |-> q.attempts[r]]
      BY <2>2, <2>7, <3>1 DEF Command
    <3>3. new[r] = old[r]
      BY <3>1, <3>2
    <3>4. new = old
      BY <2>3, <3>3
    <3> QED
      BY <1>a, <3>1, <3>4
  <2> QED
    BY <2>5, <2>6, <2>7
<1>3. ASSUME NEW l, NEW r, QAcknowledge(l, r) PROVE QueueStep
  <2> DEFINE s == AcknowledgeScript(q, l, r)
  <2>1. \/ s = q
        \/ /\ Held(q, l, r) /\ QueueInv(s)
           /\ DOMAIN s.jobs = DOMAIN q.jobs \ {r} /\ s.cancelled = q.cancelled \ {r}
           /\ s.leases = Del(q.leases, {l}) /\ s.issued = q.issued
           /\ Command(s, r) = Queue!Absent
           /\ OthersKept(q, s, {r})
    BY <1>0, AcknowledgeCases
  <2>2. q' = s /\ asked' = asked
    BY <1>3 DEF QAcknowledge
  <2> HIDE DEF s
  <2>3. CASE s = q
    BY <1>a, <2>2, <2>3
  <2>4. CASE Held(q, l, r) /\ Command(s, r) = Queue!Absent /\ OthersKept(q, s, {r})
    <3>1. r \in Runs /\ old[r].phase \in {"held", "doomed"}
      BY <1>0, <2>4, HeldIsLeased
    <3>2. r \in Queue!Leased \ {} /\ {} \in SUBSET Queue!Leased
      BY <3>1 DEF Queue!Leased
    <3>3. Queue!Reclaimed({}) = old
      BY DEF Queue!Reclaimed
    <3>4. new[r] = Queue!Absent /\ \A x \in Runs \ {r} : new[x] = old[x]
      BY <2>2, <2>4, <3>1 DEF OthersKept
    <3>5. new = [Queue!Reclaimed({}) EXCEPT ![r] = Queue!Absent]
      BY <3>3, <3>4
    <3> QED
      BY <1>d, <2>2, <3>2, <3>5
  <2> QED
    BY <2>1, <2>3, <2>4
<1>4. ASSUME NEW l, NEW r, NEW delay \in BOOLEAN, QRelease(l, r, delay) PROVE QueueStep
  <2> DEFINE s == ReleaseScript(q, l, r, delay)
  <2>1. Released(q, l, r, s)
    BY <1>0, ReleaseCases
  <2>2. q' = s /\ asked' = asked
    BY <1>4 DEF QRelease
  <2> HIDE DEF s
  <2>3. CASE s = q
    BY <1>a, <2>2, <2>3
  <2>4. CASE s # q
    <3>1. /\ Held(q, l, r) /\ OthersKept(q, s, {r})
          /\ Command(s, r) = IF r \in q.cancelled THEN Queue!Absent ELSE Queue!Waiting(q.attempts[r] + 1)
      BY <2>1, <2>4 DEF Released
    <3>2. /\ r \in Runs
          /\ old[r] = [phase |-> IF r \in q.cancelled THEN "doomed" ELSE "held",
                       lease |-> l, attempt |-> q.attempts[r]]
      BY <1>0, <3>1, HeldIsLeased
    <3>3. {r} \in SUBSET Queue!Leased
      BY <3>2 DEF Queue!Leased
    <3>4. Queue!GivenBack(old[r]) = IF r \in q.cancelled THEN Queue!Absent ELSE Queue!Waiting(q.attempts[r] + 1)
      BY <3>2 DEF Queue!GivenBack
    <3>5. Queue!Reclaimed({r}) = [x \in Runs |-> IF x = r THEN Queue!GivenBack(old[x]) ELSE old[x]]
      BY DEF Queue!Reclaimed
    <3>6. new[r] = Queue!GivenBack(old[r]) /\ \A x \in Runs \ {r} : new[x] = old[x]
      BY <2>2, <3>1, <3>2, <3>4 DEF OthersKept
    <3>7. new = Queue!Reclaimed({r})
      BY <3>5, <3>6
    <3> QED
      BY <1>d, <2>2, <3>3, <3>7
  <2> QED
    BY <2>3, <2>4
<1>5. ASSUME NEW ripe \in SUBSET q.delayed, NEW late \in SUBSET DOMAIN q.leases, QLease(ripe, late)
      PROVE  QueueStep
  <2> DEFINE s == LeaseScript(q, ripe, late)
             R == RunsOf(q, late)
  <2>1. LeasedOut(q, late, s)
    BY <1>0, LeaseEffect
  <2>2. q' = s /\ asked' = asked
    BY <1>5 DEF QLease
  <2> HIDE DEF s
  <2>3. /\ R \subseteq Runs
        /\ \A r \in R : Command(q, r).phase = IF r \in q.cancelled THEN "doomed" ELSE "held"
    BY <2>1 DEF LeasedOut
  <2> HIDE DEF R
  <2>4. R \in SUBSET Queue!Leased
    BY <2>3 DEF Queue!Leased
  <2>5. Queue!Reclaimed(R) = [x \in Runs |-> Given(q, R, x)]
    <3>1. \A x \in Runs : (IF x \in R THEN Queue!GivenBack(old[x]) ELSE old[x]) = Given(q, R, x)
      BY <2>3 DEF Given, Queue!GivenBack
    <3> QED
      BY <3>1 DEF Queue!Reclaimed
  <2>6. CASE \A x \in Runs : Command(s, x) = Given(q, R, x)
    <3>1. new = Queue!Reclaimed(R)
      BY <2>2, <2>5, <2>6
    <3> QED
      BY <1>d, <2>2, <2>4, <3>1
  <2>7. ASSUME NEW h \in Runs, Given(q, R, h).phase = "waiting",
               Command(s, h) = [phase |-> "held", lease |-> q.issued + 1, attempt |-> Given(q, R, h).attempt],
               \A x \in Runs \ {h} : Command(s, x) = Given(q, R, x)
        PROVE  QueueStep
    <3>1. q.issued \in Nat /\ q.issued + 1 # 0
      BY <1>0 DEF QueueInv, KeysTyped
    <3>2. /\ new[h] = [phase |-> "held", lease |-> q.issued + 1, attempt |-> Given(q, R, h).attempt]
          /\ new[h].lease = q.issued + 1
      BY <2>2, <2>7
    <3>3. \A x \in Runs : old[x].lease # new[h].lease
      BY <1>0, <3>2, LeaseIdsInUse
    <3>4. Queue!Reclaimed(R)[h] = Given(q, R, h)
      BY <2>5
    <3>5. new = [Queue!Reclaimed(R) EXCEPT ![h] = new[h]]
      BY <2>2, <2>5, <2>7
    <3>6. new = [Queue!Reclaimed(R) EXCEPT
                   ![h] = [phase |-> "held", lease |-> new[h].lease,
                           attempt |-> Queue!Reclaimed(R)[h].attempt]]
      BY <3>2, <3>4, <3>5
    <3> QED
      BY <1>d, <2>2, <2>4, <2>7, <3>1, <3>2, <3>3, <3>4, <3>6, ZenonT(30)
  <2>8. \/ \A x \in Runs : Command(s, x) = Given(q, R, x)
        \/ \E h \in Runs :
             /\ Given(q, R, h).phase = "waiting"
             /\ Command(s, h) = [phase |-> "held", lease |-> q.issued + 1, attempt |-> Given(q, R, h).attempt]
             /\ \A x \in Runs \ {h} : Command(s, x) = Given(q, R, x)
    BY <2>1 DEF LeasedOut, R
  <2> QED
    BY <2>6, <2>7, <2>8
<1>6. CASE q' = q /\ asked' = asked
  BY <1>a, <1>6
<1> QED
  BY <1>1, <1>2, <1>3, <1>4, <1>5, <1>6 DEF QueueMove

LEMMA ServiceStarts == Init => IInv /\ Queue!Init
<1> SUFFICES ASSUME Init PROVE IInv /\ Queue!Init
  OBVIOUS
<1>0. NoRecord \in Record /\ NoRecord.status = "none" /\ NoRecord.version = 0
  BY DEF NoRecord, Record, Status
<1>1. StoreOK
  BY <1>0 DEF Init, StoreOK, Counted
<1>2. ClientsOK
  <2>1. \A c \in Clients : client[c] = IdleClient
    BY DEF Init
  <2> QED
    BY <2>1, IdleClientTyped DEF Init, ClientsOK, ClientOK
<1>3. WorkersOK
  <2>1. IdleWorker \in WorkerState /\ IdleWorker.pc = "idle"
    BY <1>0 DEF IdleWorker, WorkerState, Status
  <2>2. \A w \in Workers : worker[w] = IdleWorker
    BY DEF Init
  <2> QED
    BY <2>1, <2>2 DEF Init, WorkersOK, WorkerOK, HasClaim
<1>4. QueueInv(NoKeys)
  <2>1. DOMAIN <<>> = {} /\ ToSet(<<>>) = {} /\ Distinct(<<>>)
    BY DEF ToSet, Distinct
  <2>2. KeysTyped(NoKeys)
    BY <2>1, FS_EmptySet DEF KeysTyped, NoKeys, Keys
  <2>3. OnePlace(NoKeys)
    BY <2>1 DEF OnePlace, NoKeys
  <2>4. LeasesPaired(NoKeys)
    BY <2>1 DEF LeasesPaired, NoKeys
  <2> QED
    BY <2>2, <2>3, <2>4 DEF QueueInv
<1>5. QueueOK
  <2>1. NoKeys.jobs = <<>> /\ NoKeys.cancelled = {} /\ DOMAIN <<>> = {}
    BY DEF NoKeys
  <2> QED
    BY <1>4, <2>1 DEF Init, QueueOK
<1>6. ClaimsApart
  <2>1. \A w \in Workers : worker[w].pc = "idle"
    BY DEF Init, IdleWorker
  <2> QED
    BY <2>1 DEF ClaimsApart, HasClaim
<1>7. WokenOK
  BY <1>0 DEF Init, WokenOK, Queued, NotRevoked
<1>8. Queue!Init
  <2>1. \A r \in Runs : Command(NoKeys, r) = Queue!Absent
    BY DEF Command, NoKeys, Queue!Absent
  <2> QED
    BY <2>1 DEF Init, Queue!Init
<1> QED
  BY <1>1, <1>2, <1>3, <1>5, <1>6, <1>7, <1>8 DEF IInv

\* Every step of the service keeps the inductive invariant.
LEMMA ServiceGoesOn ==
  ASSUME IInv, [Next]_vars
  PROVE  IInv'
<1>1. StoreOK'
  BY StoreKept
<1>2. ClientsOK'
  BY ClientsKept
<1>3. WorkersOK'
  BY WorkersKept
<1>4. QueueOK'
  BY QueueKept
<1>5. ClaimsApart'
  BY ClaimsKept
<1>6. WokenOK'
  BY WokenKept
<1> QED
  BY <1>1, <1>2, <1>3, <1>4, <1>5, <1>6 DEF IInv

LEMMA InvariantKept == Spec => []IInv
<1>1. Init => IInv
  BY ServiceStarts
<1>2. IInv /\ [Next]_vars => IInv'
  BY ServiceGoesOn
<1> QED
  BY <1>1, <1>2, PTL DEF Spec

\* In every state a reader sees: the types hold, a run is executed under one
\* live claim, and a record that waits has something that will wake it.
LEMMA InvariantIsEnough == IInv => RunsReachable
<1> SUFFICES ASSUME IInv PROVE RunsReachable
  OBVIOUS
<1>1. TypeOK
  <2>1. backend \in Backends /\ record \in [Runs -> [status : Status, version : Nat, result : Nat]]
    BY DEF IInv, StoreOK, Record
  <2>2. /\ q.cancelled \subseteq DOMAIN q.jobs /\ DOMAIN q.attempts = DOMAIN q.jobs
        /\ \A r \in DOMAIN q.runLeases : Held(q, q.runLeases[r], r)
        /\ ToSet(q.pending) \cap DOMAIN q.runLeases = {} /\ q.delayed \cap DOMAIN q.runLeases = {}
    BY DEF IInv, QueueOK, QueueInv, KeysTyped, OnePlace, LeasesPaired
  <2>3. \A c \in Clients : client[c].pc \in {"idle", "enqueue", "revoke", "read", "write"}
    BY DEF IInv, ClientsOK, ClientState
  <2>4. \A w \in Workers : worker[w].pc \in
          {"idle", "get", "claim", "run", "settle", "failed", "ack", "release"}
    BY DEF IInv, WorkersOK, WorkerState
  <2> QED
    BY <2>1, <2>2, <2>3, <2>4 DEF TypeOK
<1>2. ClaimedOnce
  BY DEF IInv, ClaimsApart, ClaimedOnce, Running, HasClaim
<1>3. QueuedIsReachable
  <2> SUFFICES ASSUME used.conflicts = 0, NEW r \in Runs, Queued(r) PROVE Reachable(r)
    BY DEF QueuedIsReachable
  <2>1. Awaited(r)
    BY DEF IInv, WokenOK
  <2> QED
    BY <2>1 DEF Awaited, Calling, InHand, Underway, Reachable
<1> QED
  BY <1>1, <1>2, <1>3 DEF RunsReachable

\* Whatever the clients, workers, faults and attempts: a run is never executed
\* by two Celery workers unless the older claim had run out (_claim), and a
\* QUEUED record always has a call, a command, a message or a worker that will
\* see it (QueueRuntime.submit, resume, cancel and their undo).
THEOREM RunsKept == Spec => []RunsReachable
<1>1. IInv => RunsReachable
  BY InvariantIsEnough
<1> QED
  BY <1>1, InvariantKept, PTL

\* A record under Celery that is over never changes again, and a result is only
\* stored over the claim it was computed under (_complete, _process_one_pull_job).
THEOREM ResultsKept == Spec => ResultsFinal
<1>1. IInv /\ [Next]_vars
        => [\A r \in Runs : backend = "celery" /\ record[r].status \in Terminal
              => record'[r] = record[r]]_vars
  BY StoreKept DEF Final
<1>2. IInv /\ [Next]_vars
        => [\A r \in Runs :
              record'[r] # record[r] /\ record'[r].status \in Settled /\ record[r].status # "QUEUED"
                => record'[r].result \in {0, record[r].result, record[r].version}
                   /\ (record'[r].result = record[r].version => record[r].status = "RUNNING")
                   /\ record'[r].version = record[r].version + 1]_vars
  BY StoreKept DEF OfItsClaim
<1> QED
  BY <1>1, <1>2, InvariantKept, PTL DEF Spec, ResultsFinal, TerminalIsFinal, ResultOfItsClaim

\* The Redis scripts keep the promise of a lease queue for every number of runs
\* and leases: each step of the service is a step of LeaseQueue or none at all
\* (RedisQueueBackend).
THEOREM PromiseServed == Spec => KeepsPromise
<1>1. Init => Queue!Init
  BY ServiceStarts
<1>2. IInv /\ [Next]_vars => [Queue!Next]_(Queue!vars)
  BY QueueMoves, ScriptsKeepPromise DEF QueueStep
<1> QED
  BY <1>1, <1>2, InvariantKept, PTL DEF Spec, KeepsPromise, Queue!Spec

=============================================================================
