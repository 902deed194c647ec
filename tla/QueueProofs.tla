---------------------------- MODULE QueueProofs ----------------------------
(***************************************************************************)
(* Two results on the in-memory queue, for every set of runs and workers,  *)
(* every concurrency and every number of enqueues, faults and renewals:    *)
(* its tables agree (QueueKeptSound) and it implements LeaseQueue          *)
(* (PromiseKept).                                                          *)
(*                                                                         *)
(* The first rests on OneEach, which says of each run where its one        *)
(* command is: at one place of the heap, delayed, or under one lease.      *)
(* Each operation on the tables has a lemma that says how it keeps         *)
(* OneEach; _reclaim_expired and the operation proper are then composed.   *)
(* The second adds Marks, what the marks of cancelled runs mean, and shows *)
(* by Tells what the refinement mapping becomes after each operation.      *)
(***************************************************************************)
EXTENDS MemoryQueue, FiniteSetTheorems, FunctionTheorems, SequenceTheorems, WellFoundedInduction, TLAPS

\* A nonempty set of numbers has a least one.
LEMMA LeastNat ==
  ASSUME NEW T \in SUBSET Nat, T # {}
  PROVE  \E x \in T : \A y \in T : x <= y
<1>1. PICK R : IsWellFoundedOn(R, Nat) /\ \A x, y \in Nat : <<x, y>> \in R <=> x < y
  <2>1. \A x, y \in Nat : <<x, y>> \in OpToRel(<, Nat) <=> x < y
    BY DEF OpToRel
  <2> QED BY <2>1, NatLessThanWellFounded, Zenon
<1>2. PICK x \in T : \A y \in T : ~(<<y, x>> \in R)
  <2>1. IsWellFoundedOn(R, Nat) /\ T \subseteq Nat
    BY <1>1
  <2> QED BY <2>1, WFMin
<1>3. \A y \in T : ~(y < x)
  BY <1>1, <1>2, Zenon
<1> QED BY <1>3

LEMMA MinOf ==
  ASSUME NEW T \in SUBSET Nat, T # {}
  PROVE  Min(T) \in T /\ \A y \in T : Min(T) <= y
BY LeastNat DEF Min

\* The rank of a member of a set of numbers names it.
LEMMA Ranks ==
  ASSUME NEW S \in SUBSET Nat, IsFiniteSet(S)
  PROVE  /\ Cardinality(S) \in Nat
         /\ \A n \in S : Cardinality({k \in S : k <= n}) \in 1 .. Cardinality(S)
         /\ \A m, n \in S : Cardinality({k \in S : k <= m}) = Cardinality({k \in S : k <= n}) => m = n
         /\ \A i \in 1 .. Cardinality(S) : \E n \in S : Cardinality({k \in S : k <= n}) = i
<1> DEFINE upto(n) == {k \in S : k <= n}
           rank == [n \in S |-> Cardinality(upto(n))]
<1>1. Cardinality(S) \in Nat
  BY FS_CardinalityType
<1>2. ASSUME NEW n \in S
      PROVE  IsFiniteSet(upto(n)) /\ Cardinality(upto(n)) \in 1 .. Cardinality(S)
  <2>1. IsFiniteSet(upto(n)) /\ Cardinality(upto(n)) <= Cardinality(S)
    BY FS_Subset
  <2>2. n \in upto(n)
    OBVIOUS
  <2>3. Cardinality(upto(n)) \in Nat /\ Cardinality(upto(n)) # 0
    BY <2>1, <2>2, FS_CardinalityType, FS_EmptySet
  <2> QED BY <1>1, <2>1, <2>3
<1>3. ASSUME NEW m \in S, NEW n \in S, m < n
      PROVE  Cardinality(upto(m)) # Cardinality(upto(n))
  <2>0. \A k \in S : k \in Nat /\ (k <= m => k <= n)
    BY <1>3
  <2>1. n \in upto(n) /\ ~(n <= m)
    BY <1>3
  <2>2. upto(m) \subseteq upto(n) /\ upto(m) # upto(n)
    BY <2>0, <2>1
  <2> QED BY <1>2, <2>2, FS_Subset
<1>4. \A m, n \in S : Cardinality(upto(m)) = Cardinality(upto(n)) => m = n
  BY <1>3
<1>5. rank \in Injection(S, 1 .. Cardinality(S))
  <2>1. rank \in [S -> 1 .. Cardinality(S)]
    BY <1>2
  <2>2. \A m, n \in S : rank[m] = rank[n] => m = n
    BY <1>4
  <2> QED BY <2>1, <2>2 DEF Injection, IsInjective
<1>6. rank \in Surjection(S, 1 .. Cardinality(S))
  <2>1. IsFiniteSet(1 .. Cardinality(S)) /\ Cardinality(1 .. Cardinality(S)) = Cardinality(S)
    BY <1>1, FS_Interval
  <2> QED BY <1>5, <2>1, FS_Injection
<1>7. \A i \in 1 .. Cardinality(S) : \E n \in S : rank[n] = i
  BY <1>6 DEF Surjection
<1> QED BY <1>1, <1>2, <1>4, <1>7

\* InOrder lists each member once.
LEMMA InOrderLists ==
  ASSUME NEW S \in SUBSET Nat, IsFiniteSet(S)
  PROVE  /\ Cardinality(S) \in Nat /\ DOMAIN InOrder(S) = 1 .. Cardinality(S)
         /\ \A i \in DOMAIN InOrder(S) : InOrder(S)[i] \in S
         /\ \A i, j \in DOMAIN InOrder(S) : InOrder(S)[i] = InOrder(S)[j] => i = j
         /\ \A n \in S : \E i \in DOMAIN InOrder(S) : InOrder(S)[i] = n
<1> DEFINE rank(n) == Cardinality({k \in S : k <= n})
<1>1. /\ Cardinality(S) \in Nat
      /\ \A n \in S : rank(n) \in 1 .. Cardinality(S)
      /\ \A m, n \in S : rank(m) = rank(n) => m = n
      /\ \A i \in 1 .. Cardinality(S) : \E n \in S : rank(n) = i
  BY Ranks
<1>2. DOMAIN InOrder(S) = 1 .. Cardinality(S)
  BY DEF InOrder
<1>3. \A i \in 1 .. Cardinality(S) : InOrder(S)[i] = CHOOSE n \in S : rank(n) = i
  BY DEF InOrder
<1> HIDE DEF rank
<1>4. \A i \in 1 .. Cardinality(S) : InOrder(S)[i] \in S /\ rank(InOrder(S)[i]) = i
  BY <1>1, <1>3
<1>5. \A n \in S : InOrder(S)[rank(n)] = n
  BY <1>1, <1>4
<1> QED BY <1>1, <1>2, <1>4, <1>5

-----------------------------------------------------------------------------
(* One command for each known run                                           *)

\* The commands that are due (p), delayed (d) and leased (g) are for different
\* runs, and for exactly the runs k.
OneEach(p, d, g, k) ==
  /\ p \in Seq(Job) /\ d \subseteq Job /\ \A l \in DOMAIN g : g[l] \in QueueLease
  /\ \A i, j \in DOMAIN p : p[i].run = p[j].run => i = j
  /\ \A i, j \in d : i.run = j.run => i = j
  /\ \A i, j \in DOMAIN g : g[i].run = g[j].run => i = j
  /\ \A i \in DOMAIN p, j \in d : p[i].run # j.run
  /\ \A i \in DOMAIN p, l \in DOMAIN g : p[i].run # g[l].run
  /\ \A j \in d, l \in DOMAIN g : j.run # g[l].run
  /\ \A r : r \in k <=> \/ \E i \in DOMAIN p : p[i].run = r
                        \/ \E j \in d : j.run = r
                        \/ \E l \in DOMAIN g : g[l].run = r

LEMMA PushOne ==
  ASSUME NEW p, NEW d, NEW g, NEW k, OneEach(p, d, g, k), NEW j \in Job, j.run \notin k
  PROVE  OneEach(Append(p, j), d, g, k \cup {j.run})
<1> DEFINE q == Append(p, j)
<1>1. /\ p \in Seq(Job) /\ q \in Seq(Job) /\ DOMAIN p = 1 .. Len(p) /\ Len(p) \in Nat
      /\ DOMAIN q = 1 .. Len(p) + 1
      /\ \A i \in DOMAIN p : q[i] = p[i]
      /\ q[Len(p) + 1] = j
  BY DEF OneEach
<1> HIDE DEF q
<1>2. \A i \in DOMAIN q : i \in DOMAIN p \/ i = Len(p) + 1
  BY <1>1
<1>3. \A i \in DOMAIN p : i \in DOMAIN q /\ i # Len(p) + 1
  BY <1>1
<1>4. Len(p) + 1 \in DOMAIN q
  BY <1>1
<1>5. OneEach(q, d, g, k \cup {j.run})
  BY <1>1, <1>2, <1>3, <1>4 DEF OneEach
<1> QED BY <1>5 DEF q

LEMMA DelayOne ==
  ASSUME NEW p, NEW d, NEW g, NEW k, OneEach(p, d, g, k), NEW j \in Job, j.run \notin k
  PROVE  OneEach(p, d \cup {j}, g, k \cup {j.run})
BY DEF OneEach

LEMMA UndelayOne ==
  ASSUME NEW p, NEW d, NEW g, NEW k, OneEach(p, d, g, k), NEW j \in d
  PROVE  OneEach(p, d \ {j}, g, k \ {j.run})
BY DEF OneEach

LEMMA GrantOne ==
  ASSUME NEW p, NEW d, NEW g, NEW k, OneEach(p, d, g, k), NEW x, x \notin DOMAIN g,
         NEW v \in QueueLease, v.run \notin k
  PROVE  OneEach(p, d, Put(g, x, v), k \cup {v.run})
<1> DEFINE h == Put(g, x, v)
<1>1. /\ DOMAIN h = DOMAIN g \cup {x} /\ h[x] = v /\ \A l \in DOMAIN g : h[l] = g[l]
  BY DEF Put
<1> HIDE DEF h
<1>2. OneEach(p, d, h, k \cup {v.run})
  BY <1>1 DEF OneEach
<1> QED BY <1>2 DEF h

LEMMA UngrantOne ==
  ASSUME NEW p, NEW d, NEW g, NEW k, OneEach(p, d, g, k), NEW x \in DOMAIN g
  PROVE  OneEach(p, d, Restrict(g, DOMAIN g \ {x}), k \ {g[x].run})
<1> DEFINE h == Restrict(g, DOMAIN g \ {x})
<1>1. DOMAIN h = DOMAIN g \ {x} /\ \A l \in DOMAIN h : h[l] = g[l]
  BY DEF Restrict
<1> HIDE DEF h
<1>2. OneEach(p, d, h, k \ {g[x].run})
  BY <1>1 DEF OneEach
<1> QED BY <1>2 DEF h

LEMMA RegrantOne ==
  ASSUME NEW p, NEW d, NEW g, NEW k, OneEach(p, d, g, k), NEW x \in DOMAIN g,
         NEW v \in QueueLease, v.run = g[x].run
  PROVE  OneEach(p, d, [g EXCEPT ![x] = v], k)
<1> DEFINE h == [g EXCEPT ![x] = v]
<1>1. DOMAIN h = DOMAIN g /\ h[x] = v /\ \A l \in DOMAIN g : l # x => h[l] = g[l]
  OBVIOUS
<1> HIDE DEF h
<1>2. OneEach(p, d, h, k)
  BY <1>1 DEF OneEach
<1> QED BY <1>2 DEF h

\* The first n due commands leave the queue.
LEMMA DropFirst ==
  ASSUME NEW p, NEW d, NEW g, NEW k, OneEach(p, d, g, k), NEW n \in 0 .. Len(p)
  PROVE  OneEach(SubSeq(p, n + 1, Len(p)), d, g, k \ {p[i].run : i \in 1 .. n})
<1> DEFINE q == SubSeq(p, n + 1, Len(p))
<1>0. p \in Seq(Job) /\ DOMAIN p = 1 .. Len(p) /\ Len(p) \in Nat /\ n \in Nat
  BY DEF OneEach
<1>1. /\ q \in Seq(Job) /\ DOMAIN q = 1 .. Len(p) - n
      /\ \A i \in DOMAIN q : q[i] = p[n + i]
  <2>1. \A i \in (n + 1) .. Len(p) : p[i] \in Job
    BY <1>0
  <2>2. /\ q \in Seq(Job)
        /\ Len(q) = IF n + 1 <= Len(p) THEN Len(p) - (n + 1) + 1 ELSE 0
        /\ \A i \in 1 .. Len(p) - (n + 1) + 1 : q[i] = p[(n + 1) + i - 1]
    BY <1>0, <2>1, SubSeqProperties
  <2> HIDE DEF q
  <2>3. Len(q) = Len(p) - n
    <3>1. n <= Len(p) /\ n \in Int /\ Len(p) \in Int
      BY <1>0
    <3>2. Len(q) = IF n + 1 <= Len(p) THEN Len(p) - (n + 1) + 1 ELSE 0
      BY <2>2
    <3> QED BY <3>1, <3>2
  <2>4. \A i \in 1 .. Len(p) - n : i \in 1 .. Len(p) - (n + 1) + 1 /\ (n + 1) + i - 1 = n + i
    BY <1>0
  <2>5. DOMAIN q = 1 .. Len(q)
    BY <2>2
  <2> QED BY <2>2, <2>3, <2>4, <2>5
<1> HIDE DEF q
<1>2. \A i \in DOMAIN q : n + i \in DOMAIN p /\ n + i \notin 1 .. n
  BY <1>0, <1>1
<1>3. \A i \in DOMAIN p : i \in 1 .. n \/ \E j \in DOMAIN q : i = n + j
  <2> SUFFICES ASSUME NEW i \in DOMAIN p, i \notin 1 .. n PROVE i - n \in DOMAIN q /\ i = n + (i - n)
    OBVIOUS
  <2> QED BY <1>0, <1>1
<1>4. \A i, j \in DOMAIN q : n + i = n + j => i = j
  BY <1>0, <1>1
<1>5. 1 .. n \subseteq DOMAIN p
  BY <1>0
<1>6. OneEach(q, d, g, k \ {p[i].run : i \in 1 .. n})
  <2>1. ASSUME NEW r
        PROVE  r \in k \ {p[i].run : i \in 1 .. n} <=>
                  \/ \E i \in DOMAIN q : q[i].run = r
                  \/ \E j \in d : j.run = r
                  \/ \E l \in DOMAIN g : g[l].run = r
    <3>1. (\E i \in DOMAIN q : q[i].run = r) <=>
            (\E i \in DOMAIN p : i \notin 1 .. n /\ p[i].run = r)
      BY <1>1, <1>2, <1>3
    <3> QED BY <1>5, <3>1 DEF OneEach
  <2>2. \A i, j \in DOMAIN q : q[i].run = q[j].run => i = j
    BY <1>1, <1>2, <1>4 DEF OneEach
  <2>3. \A i \in DOMAIN q : \E j \in DOMAIN p : q[i] = p[j]
    BY <1>1, <1>2
  <2> QED BY <1>1, <2>1, <2>2, <2>3 DEF OneEach
<1> QED BY <1>6 DEF q

\* A listing of commands of other runs, once each, is added at the end.
LEMMA PushAll ==
  ASSUME NEW p, NEW d, NEW g, NEW k, OneEach(p, d, g, k), NEW q \in Seq(Job),
         \A i, j \in DOMAIN q : q[i].run = q[j].run => i = j,
         \A i \in DOMAIN q : q[i].run \notin k
  PROVE  OneEach(p \o q, d, g, k \cup {q[i].run : i \in DOMAIN q})
<1> DEFINE u == p \o q
<1>0. /\ p \in Seq(Job) /\ DOMAIN p = 1 .. Len(p) /\ Len(p) \in Nat
      /\ DOMAIN q = 1 .. Len(q) /\ Len(q) \in Nat
  BY DEF OneEach
<1>1. /\ u \in Seq(Job) /\ Len(u) = Len(p) + Len(q)
      /\ \A i \in 1 .. Len(p) + Len(q) : u[i] = IF i <= Len(p) THEN p[i] ELSE q[i - Len(p)]
  BY <1>0, ConcatProperties
<1> HIDE DEF u
<1>2. DOMAIN u = 1 .. Len(p) + Len(q)
  BY <1>1
<1>3. \A i \in DOMAIN p : i \in DOMAIN u /\ u[i] = p[i]
  BY <1>0, <1>1, <1>2
<1>4. \A i \in DOMAIN q : Len(p) + i \in DOMAIN u /\ u[Len(p) + i] = q[i]
  <2> SUFFICES ASSUME NEW i \in DOMAIN q PROVE Len(p) + i \in DOMAIN u /\ u[Len(p) + i] = q[i]
    OBVIOUS
  <2>1. Len(p) + i \in 1 .. Len(p) + Len(q) /\ ~(Len(p) + i <= Len(p)) /\ (Len(p) + i) - Len(p) = i
    BY <1>0
  <2> QED BY <1>1, <1>2, <2>1
<1>5. \A i \in DOMAIN u : i \in DOMAIN p \/ \E j \in DOMAIN q : i = Len(p) + j
  <2> SUFFICES ASSUME NEW i \in DOMAIN u, i \notin DOMAIN p
               PROVE  i - Len(p) \in DOMAIN q /\ i = Len(p) + (i - Len(p))
    OBVIOUS
  <2> QED BY <1>0, <1>2
<1>6. \A i, j \in DOMAIN u : u[i].run = u[j].run => i = j
  BY <1>3, <1>4, <1>5 DEF OneEach
<1>7. \A i \in DOMAIN u : (\E j \in DOMAIN p : u[i] = p[j]) \/ (\E j \in DOMAIN q : u[i] = q[j])
  BY <1>3, <1>4, <1>5
<1>8. ASSUME NEW r
      PROVE  (\E i \in DOMAIN u : u[i].run = r) <=>
                (\E i \in DOMAIN p : p[i].run = r) \/ (\E i \in DOMAIN q : q[i].run = r)
  BY <1>3, <1>4, <1>7
<1>9. OneEach(u, d, g, k \cup {q[i].run : i \in DOMAIN q})
  <2>1. \A i \in DOMAIN u, j \in d : u[i].run # j.run
    BY <1>7 DEF OneEach
  <2>2. \A i \in DOMAIN u, l \in DOMAIN g : u[i].run # g[l].run
    BY <1>7 DEF OneEach
  <2>3. ASSUME NEW r
        PROVE  r \in k \cup {q[i].run : i \in DOMAIN q} <=>
                  \/ \E i \in DOMAIN u : u[i].run = r
                  \/ \E j \in d : j.run = r
                  \/ \E l \in DOMAIN g : g[l].run = r
    BY <1>8 DEF OneEach
  <2> QED BY <1>1, <1>6, <2>1, <2>2, <2>3 DEF OneEach
<1> QED BY <1>9 DEF u

\* The leases in S are taken away, with their runs.
LEMMA UngrantAll ==
  ASSUME NEW p, NEW d, NEW g, NEW k, OneEach(p, d, g, k), NEW S \in SUBSET DOMAIN g
  PROVE  OneEach(p, d, Restrict(g, DOMAIN g \ S), k \ {g[l].run : l \in S})
<1> DEFINE h == Restrict(g, DOMAIN g \ S)
<1>1. DOMAIN h = DOMAIN g \ S /\ \A l \in DOMAIN h : h[l] = g[l]
  BY DEF Restrict
<1> HIDE DEF h
<1>2. OneEach(p, d, h, k \ {g[l].run : l \in S})
  BY <1>1 DEF OneEach
<1> QED BY <1>2 DEF h

\* Without lists the commands of other runs, each as often as before.
LEMMA WithoutLists ==
  ASSUME NEW p \in Seq(Job), NEW r
  PROVE  /\ Without(p, r) \in Seq(Job)
         /\ \A i \in DOMAIN Without(p, r) :
               \E n \in DOMAIN p : p[n] = Without(p, r)[i] /\ p[n].run # r
         /\ \A n \in DOMAIN p : p[n].run # r =>
               \E i \in DOMAIN Without(p, r) : Without(p, r)[i] = p[n]
         /\ (\A i, j \in DOMAIN p : p[i].run = p[j].run => i = j) =>
               \A i, j \in DOMAIN Without(p, r) :
                  Without(p, r)[i].run = Without(p, r)[j].run => i = j
<1> DEFINE S == {i \in DOMAIN p : p[i].run # r}
           kept == InOrder(S)
           q == [i \in DOMAIN kept |-> p[kept[i]]]
<1>0. DOMAIN p = 1 .. Len(p) /\ Len(p) \in Nat
  OBVIOUS
<1>1. S \in SUBSET Nat /\ IsFiniteSet(S)
  <2>1. S \subseteq 1 .. Len(p) /\ S \subseteq Nat
    BY <1>0
  <2>2. IsFiniteSet(1 .. Len(p))
    BY <1>0, FS_Interval
  <2> QED BY <2>1, <2>2, FS_Subset
<1>2. \A i : i \in S <=> i \in DOMAIN p /\ p[i].run # r
  OBVIOUS
<1> HIDE DEF S
<1>3. /\ Cardinality(S) \in Nat /\ DOMAIN kept = 1 .. Cardinality(S)
      /\ \A i \in DOMAIN kept : kept[i] \in S
      /\ \A i, j \in DOMAIN kept : kept[i] = kept[j] => i = j
      /\ \A n \in S : \E i \in DOMAIN kept : kept[i] = n
  BY <1>1, InOrderLists
<1> HIDE DEF kept
<1>4. \A n \in DOMAIN p : p[n] \in Job
  BY <1>0
<1>5. q \in [1 .. Cardinality(S) -> Job]
  BY <1>2, <1>3, <1>4
<1>6. q \in Seq(Job)
  BY <1>3, <1>5
<1>7. DOMAIN q = DOMAIN kept /\ \A i \in DOMAIN q : q[i] = p[kept[i]] /\ kept[i] \in DOMAIN p /\ q[i].run # r
  BY <1>2, <1>3
<1> HIDE DEF q
<1>8. (\A i, j \in DOMAIN p : p[i].run = p[j].run => i = j) =>
         \A i, j \in DOMAIN q : q[i].run = q[j].run => i = j
  BY <1>3, <1>7
<1>9. \A i \in DOMAIN q : \E n \in DOMAIN p : p[n] = q[i] /\ p[n].run # r
  BY <1>2, <1>3, <1>7
<1>10. \A n \in DOMAIN p : p[n].run # r => \E i \in DOMAIN q : q[i] = p[n]
  BY <1>2, <1>3, <1>7
<1>11. Without(p, r) = q
  BY DEF Without, q, kept, S
<1> QED BY <1>6, <1>8, <1>9, <1>10, <1>11

\* The due commands of one run, and its delayed one, are taken away.
LEMMA RemoveRun ==
  ASSUME NEW p, NEW d, NEW g, NEW k, OneEach(p, d, g, k), NEW r
  PROVE  OneEach(Without(p, r), {j \in d : j.run # r}, g,
                 IF \E l \in DOMAIN g : g[l].run = r THEN k ELSE k \ {r})
<1> DEFINE q == Without(p, r)
           m == IF \E l \in DOMAIN g : g[l].run = r THEN k ELSE k \ {r}
           e == {j \in d : j.run # r}
<1>1. /\ q \in Seq(Job)
      /\ \A i \in DOMAIN q : \E n \in DOMAIN p : p[n] = q[i] /\ p[n].run # r
      /\ \A n \in DOMAIN p : p[n].run # r => \E i \in DOMAIN q : q[i] = p[n]
      /\ \A i, j \in DOMAIN q : q[i].run = q[j].run => i = j
  BY WithoutLists DEF OneEach
<1> HIDE DEF q
<1>2. e \subseteq Job /\ (\A j \in e : j \in d /\ j.run # r) /\ \A j \in d : j.run # r => j \in e
  BY DEF OneEach
<1> HIDE DEF e
<1>3. /\ \A i, j \in e : i.run = j.run => i = j
      /\ \A i \in DOMAIN q, j \in e : q[i].run # j.run
      /\ \A i \in DOMAIN q, l \in DOMAIN g : q[i].run # g[l].run
      /\ \A j \in e, l \in DOMAIN g : j.run # g[l].run
  BY <1>1, <1>2 DEF OneEach
<1>4. ASSUME NEW x
      PROVE  x \in m <=> \/ \E i \in DOMAIN q : q[i].run = x
                         \/ \E j \in e : j.run = x
                         \/ \E l \in DOMAIN g : g[l].run = x
  <2>1. x \in k <=> \/ \E i \in DOMAIN p : p[i].run = x
                    \/ \E j \in d : j.run = x
                    \/ \E l \in DOMAIN g : g[l].run = x
    BY DEF OneEach
  <2>2. CASE x = r
    <3>1. ~(\E i \in DOMAIN q : q[i].run = x) /\ ~(\E j \in e : j.run = x)
      BY <2>2, <1>1, <1>2
    <3> QED BY <2>1, <2>2, <3>1
  <2>3. CASE x # r
    <3>1. x \in m <=> x \in k
      BY <2>3
    <3>2. (\E j \in e : j.run = x) <=> (\E j \in d : j.run = x)
      BY <2>3, <1>2
    <3>3. (\E i \in DOMAIN q : q[i].run = x) <=> (\E i \in DOMAIN p : p[i].run = x)
      BY <2>3, <1>1
    <3> QED BY <2>1, <3>1, <3>2, <3>3
  <2> QED BY <2>2, <2>3
<1> HIDE DEF m
<1>5. OneEach(q, e, g, m)
  <2>1. \A l \in DOMAIN g : g[l] \in QueueLease
    BY DEF OneEach
  <2>2. \A i, j \in DOMAIN g : g[i].run = g[j].run => i = j
    BY DEF OneEach
  <2> QED BY <1>1, <1>2, <1>3, <1>4, <2>1, <2>2 DEF OneEach
<1> QED BY <1>5 DEF q, e, m

-----------------------------------------------------------------------------
(* The inductive invariant                                                   *)

QueueInv == TypeOK /\ OneEach(pending, delayed, leased, known)

\* A command that came back is a command.
LEMMA AgainJob ==
  ASSUME NEW v \in QueueLease
  PROVE  Again(v) \in Job /\ Again(v).run = v.run /\ Again(v).attempt = v.attempt + 1
BY DEF QueueLease, Job, Again

\* _reclaim_expired puts each expired command that was not cancelled back, once.
LEMMA ReturnedLists ==
  ASSUME QueueInv
  PROVE  /\ Returned \in Seq(Job)
         /\ \A i \in DOMAIN Returned : \E l \in lapsed : leased[l].run \notin cancelled /\ Returned[i] = Again(leased[l])
         /\ \A l \in lapsed : leased[l].run \notin cancelled => \E i \in DOMAIN Returned : Returned[i] = Again(leased[l])
         /\ \A i, j \in DOMAIN Returned : Returned[i].run = Returned[j].run => i = j
<1> DEFINE S == {l \in lapsed : leased[l].run \notin cancelled}
           ids == InOrder(S)
<1>0. issued \in Nat /\ lapsed \subseteq DOMAIN leased /\ DOMAIN leased \subseteq 1 .. issued
      /\ \A l \in DOMAIN leased : leased[l] \in QueueLease
  BY DEF QueueInv, TypeOK
<1>1. S \in SUBSET Nat /\ IsFiniteSet(S)
  <2>1. S \subseteq 1 .. issued /\ S \subseteq Nat
    BY <1>0
  <2>2. IsFiniteSet(1 .. issued)
    BY <1>0, FS_Interval
  <2> QED BY <2>1, <2>2, FS_Subset
<1>2. \A l : l \in S <=> l \in lapsed /\ leased[l].run \notin cancelled
  OBVIOUS
<1>3. Returned = [i \in DOMAIN ids |-> Again(leased[ids[i]])]
  BY DEF Returned
<1> HIDE DEF S
<1>4. /\ Cardinality(S) \in Nat /\ DOMAIN ids = 1 .. Cardinality(S)
      /\ \A i \in DOMAIN ids : ids[i] \in S
      /\ \A i, j \in DOMAIN ids : ids[i] = ids[j] => i = j
      /\ \A n \in S : \E i \in DOMAIN ids : ids[i] = n
  BY <1>1, InOrderLists
<1> HIDE DEF ids
<1>5. \A i \in DOMAIN ids : leased[ids[i]] \in QueueLease /\ ids[i] \in DOMAIN leased
  BY <1>0, <1>2, <1>4
<1>6. \A i \in DOMAIN ids : Again(leased[ids[i]]) \in Job /\ Again(leased[ids[i]]).run = leased[ids[i]].run
  BY <1>5, AgainJob
<1>7. Returned \in [1 .. Cardinality(S) -> Job]
  BY <1>3, <1>4, <1>6
<1>8. Returned \in Seq(Job) /\ DOMAIN Returned = DOMAIN ids
      /\ \A i \in DOMAIN ids : Returned[i] = Again(leased[ids[i]])
  BY <1>3, <1>4, <1>7
<1>9. \A i, j \in DOMAIN Returned : Returned[i].run = Returned[j].run => i = j
  BY <1>4, <1>5, <1>6, <1>8 DEF QueueInv, OneEach
<1> QED BY <1>2, <1>4, <1>8, <1>9

\* What _reclaim_expired leaves.
LEMMA Reclaims ==
  ASSUME QueueInv
  PROVE  /\ OneEach(pending \o Returned, delayed, Alive, known \ Dropped)
         /\ \A l : l \in DOMAIN Alive <=> l \in DOMAIN leased /\ l \notin lapsed
         /\ \A l \in DOMAIN Alive : Alive[l] = leased[l] /\ leased[l] \in QueueLease
         /\ DOMAIN Alive \subseteq 1 .. issued
<1>0. issued \in Nat /\ lapsed \subseteq DOMAIN leased /\ DOMAIN leased \subseteq 1 .. issued
      /\ \A l \in DOMAIN leased : leased[l] \in QueueLease
  BY DEF QueueInv, TypeOK
<1> DEFINE gone == {leased[l].run : l \in lapsed}
           back == {Returned[i].run : i \in DOMAIN Returned}
<1>1. OneEach(pending, delayed, Alive, known \ gone)
  BY <1>0, UngrantAll DEF QueueInv, Alive
<1>2. ASSUME NEW i \in DOMAIN Returned
      PROVE  Returned[i].run \in gone /\ Returned[i].run \notin cancelled
  <2>1. PICK l \in lapsed : leased[l].run \notin cancelled /\ Returned[i] = Again(leased[l])
    BY ReturnedLists
  <2>2. Again(leased[l]).run = leased[l].run
    BY <1>0, AgainJob
  <2> QED BY <2>1, <2>2
<1>3. OneEach(pending \o Returned, delayed, Alive, (known \ gone) \cup back)
  <2>1. \A i \in DOMAIN Returned : Returned[i].run \notin known \ gone
    BY <1>2
  <2> HIDE DEF gone
  <2> QED BY <1>1, <2>1, PushAll, ReturnedLists
<1>4. (known \ gone) \cup back = known \ Dropped
  <2>1. gone \subseteq known
    BY <1>0 DEF QueueInv, OneEach
  <2>2. \A r : r \in back <=> r \in gone /\ r \notin cancelled
    BY SMTT(30), <1>0, <1>2, ReturnedLists, AgainJob
  <2>3. Dropped = gone \cap cancelled
    BY DEF Dropped
  <2> HIDE DEF gone, back
  <2> QED BY <2>1, <2>2, <2>3
<1>5. /\ \A l : l \in DOMAIN Alive <=> l \in DOMAIN leased /\ l \notin lapsed
      /\ \A l \in DOMAIN Alive : Alive[l] = leased[l]
  BY DEF Alive, Restrict
<1> QED BY <1>0, <1>3, <1>4, <1>5

Tasks == [worker : Workers, pc : {"handling", "acknowledge", "release"},
          lease : QueueLease, lost : BOOLEAN]

\* What QueueInv says beside the commands.
Rest ==
  /\ issued \in Nat /\ DOMAIN leased \subseteq 1 .. issued /\ lapsed \subseteq DOMAIN leased
  /\ cancelled \subseteq Runs
  /\ DOMAIN task \subseteq 1 .. issued /\ \A l \in DOMAIN task : task[l] \in Tasks
  /\ loop \in [Workers -> {"idle", "leasing", "stopped"}]
  /\ stop \in [Workers -> BOOLEAN]
  /\ used \in [enqueues : Nat, faults : Nat]
  /\ asked \subseteq Runs

LEMMA QueueInvParts == QueueInv <=> Rest /\ OneEach(pending, delayed, leased, known)
<1>1. QueueInv => Rest
  BY DEF QueueInv, TypeOK, Rest, Tasks
<1>2. OneEach(pending, delayed, leased, known) => known \subseteq Runs
  <2> SUFFICES ASSUME OneEach(pending, delayed, leased, known), NEW r \in known PROVE r \in Runs
    OBVIOUS
  <2>1. CASE \E i \in DOMAIN pending : pending[i].run = r
    <3>1. PICK i \in DOMAIN pending : pending[i].run = r
      BY <2>1
    <3>2. pending[i] \in Job
      BY DEF OneEach
    <3> QED BY <3>1, <3>2 DEF Job
  <2>2. CASE \E j \in delayed : j.run = r
    BY <2>2 DEF OneEach, Job
  <2>3. CASE \E l \in DOMAIN leased : leased[l].run = r
    BY <2>3 DEF OneEach, QueueLease
  <2> QED BY <2>1, <2>2, <2>3 DEF OneEach
<1>3. Rest /\ OneEach(pending, delayed, leased, known) => TypeOK
  BY <1>2 DEF TypeOK, Rest, Tasks, OneEach
<1> QED BY <1>1, <1>3 DEF QueueInv

LEMMA QueueInvPartsNext == (QueueInv <=> Rest /\ OneEach(pending, delayed, leased, known))'
BY QueueInvParts, PTL

LEMMA QueueInvInit == Init => QueueInv
<1> SUFFICES ASSUME Init PROVE QueueInv
  OBVIOUS
<1>1. OneEach(pending, delayed, leased, known)
  BY DEF Init, OneEach
<1>2. Rest
  BY DEF Init, Rest
<1> QED BY <1>1, <1>2, QueueInvParts

LEMMA EnqueueInv ==
  ASSUME QueueInv, NEW r \in Runs, Enqueue(r)
  PROVE  QueueInv'
<1> DEFINE j == [run |-> r, attempt |-> 1]
<1>1. j \in Job /\ j.run = r
  BY DEF Job
<1>2. r \notin known /\ known' = known \cup {r} /\ pending' = Append(pending, j)
      /\ delayed' = delayed /\ leased' = leased
  BY DEF Enqueue
<1> HIDE DEF j
<1>3. OneEach(pending', delayed', leased', known')
  BY <1>1, <1>2, PushOne DEF QueueInv
<1>4. Rest'
  BY QueueInvParts DEF Rest, Enqueue, worker
<1> QED BY <1>3, <1>4, QueueInvPartsNext

LEMMA CancelInv ==
  ASSUME QueueInv, NEW r \in Runs, Cancel(r)
  PROVE  QueueInv'
<1> DEFINE rest == Without(pending, r)
           others == {j \in delayed : j.run # r}
           removed == \/ \E i \in DOMAIN pending : pending[i].run = r
                      \/ \E j \in delayed : j.run = r
<1>0. /\ pending' = rest /\ delayed' = others /\ leased' = leased
      /\ known' = IF removed THEN known \ {r} ELSE known
  BY DEF Cancel
<1>1. OneEach(rest, others, leased,
              IF \E l \in DOMAIN leased : leased[l].run = r THEN known ELSE known \ {r})
  <2>1. OneEach(pending, delayed, leased, known)
    BY DEF QueueInv
  <2> QED BY <2>1, RemoveRun, Zenon
<1> HIDE DEF rest, others
<1>2. known' = IF \E l \in DOMAIN leased : leased[l].run = r THEN known ELSE known \ {r}
  <2>1. r \in known
    BY DEF Cancel
  <2>2. removed <=> ~ \E l \in DOMAIN leased : leased[l].run = r
    BY <2>1 DEF QueueInv, OneEach
  <2> QED BY <1>0, <2>2
<1>3. OneEach(pending', delayed', leased', known')
  BY <1>0, <1>1, <1>2
<1>4. Rest'
  BY QueueInvParts DEF Rest, Cancel, worker
<1> QED BY <1>3, <1>4, QueueInvPartsNext

\* The commands after lease, from those after _reclaim_expired.
LEMMA LeaseInv ==
  ASSUME QueueInv, NEW w \in Workers, Lease(w)
  PROVE  QueueInv'
<1> DEFINE due   == pending \o Returned
           free  == {i \in DOMAIN due : due[i].run \notin cancelled \ Dropped}
           first == IF free = {} THEN Len(due) + 1 ELSE Min(free)
           id    == issued + 1
           lease == [run |-> due[first].run, attempt |-> due[first].attempt, renewed |-> 0]
           new   == [worker |-> w, pc |-> "handling", lease |-> lease, lost |-> FALSE]
           kn    == known \ Dropped
<1>0. /\ known' = kn \ {due[i].run : i \in 1 .. first - 1}
      /\ pending' = SubSeq(due, first + 1, Len(due)) /\ delayed' = delayed
      /\ cancelled' = cancelled \ Dropped /\ lapsed' = {} /\ loop' = [loop EXCEPT ![w] = "idle"]
      /\ free = {} => leased' = Alive /\ issued' = issued /\ task' = task
      /\ free # {} => leased' = Put(Alive, id, lease) /\ issued' = id /\ task' = Put(task, id, new)
      /\ stop' = stop /\ used' = used /\ asked' = asked
  BY DEF Lease
<1>1. /\ OneEach(due, delayed, Alive, kn) /\ DOMAIN Alive \subseteq 1 .. issued
      /\ \A l \in DOMAIN Alive : Alive[l] \in QueueLease
  BY Reclaims
<1>2. due \in Seq(Job) /\ DOMAIN due = 1 .. Len(due) /\ Len(due) \in Nat
  BY <1>1 DEF OneEach
<1>3. Rest
  BY QueueInvParts
<1> HIDE DEF due, kn, free
<1>4. CASE free = {}
  <2>1. first = Len(due) + 1
    BY <1>4
  <2>2. SubSeq(due, first + 1, Len(due)) = SubSeq(due, Len(due) + 1, Len(due))
    <3>1. SubSeq(due, first + 1, Len(due)) = <<>>
      BY <1>2, <2>1, SubSeqEmpty
    <3>2. SubSeq(due, Len(due) + 1, Len(due)) = <<>>
      BY <1>2, SubSeqEmpty
    <3> QED BY <3>1, <3>2
  <2>3. OneEach(SubSeq(due, Len(due) + 1, Len(due)), delayed, Alive, kn \ {due[i].run : i \in 1 .. Len(due)})
    BY <1>1, <1>2, DropFirst
  <2>4. first - 1 = Len(due)
    BY <1>2, <2>1
  <2>5. OneEach(pending', delayed', leased', known')
    BY <1>0, <1>4, <2>2, <2>3, <2>4
  <2>6. Rest'
    BY <1>0, <1>1, <1>3, <1>4 DEF Rest
  <2> QED BY <2>5, <2>6, QueueInvPartsNext
<1>5. CASE free # {}
  <2>1. first \in free /\ first \in 1 .. Len(due) /\ due[first] \in Job
    <3>1. free \in SUBSET Nat /\ free \subseteq 1 .. Len(due)
      BY <1>2 DEF free
    <3>2. first \in free
      BY <1>5, <3>1, MinOf
    <3>3. first \in DOMAIN due
      BY <1>2, <3>1, <3>2
    <3> HIDE DEF first
    <3> QED BY <1>2, <3>2, <3>3
  <2> HIDE DEF first
  <2>2. lease \in QueueLease /\ lease.run = due[first].run
    BY <2>1 DEF Job, QueueLease
  <2>3. new \in Tasks
    BY <2>2 DEF Tasks
  <2> HIDE DEF lease, new
  <2>4. OneEach(SubSeq(due, first + 1, Len(due)), delayed, Alive, kn \ {due[i].run : i \in 1 .. first})
    BY <1>1, <1>2, <2>1, DropFirst
  <2>5. id \notin DOMAIN Alive /\ id \in Nat
    BY <1>1, <1>3 DEF Rest
  <2>6. lease.run \notin kn \ {due[i].run : i \in 1 .. first}
    BY <2>1, <2>2
  <2>7. OneEach(SubSeq(due, first + 1, Len(due)), delayed, Put(Alive, id, lease),
                (kn \ {due[i].run : i \in 1 .. first}) \cup {lease.run})
    BY <2>2, <2>4, <2>5, <2>6, GrantOne
  <2>8. (kn \ {due[i].run : i \in 1 .. first}) \cup {lease.run} = kn \ {due[i].run : i \in 1 .. first - 1}
    <3>1. lease.run \in kn
      BY <1>1, <1>2, <2>1, <2>2 DEF OneEach
    <3>2. \A i \in 1 .. first : i \in 1 .. first - 1 \/ i = first
      BY <2>1
    <3>3. \A i \in 1 .. first - 1 : i \in 1 .. first /\ i # first /\ i \in DOMAIN due
      BY <1>2, <2>1
    <3>4. \A i \in 1 .. first - 1 : due[i].run # lease.run
      BY <1>1, <1>2, <2>1, <2>2, <3>3 DEF OneEach
    <3> QED BY <2>2, <3>1, <3>2, <3>3, <3>4
  <2>9. OneEach(pending', delayed', leased', known')
    BY <1>0, <1>5, <2>7, <2>8
  <2>10. issued' \in Nat /\ DOMAIN leased' \subseteq 1 .. issued' /\ lapsed' \subseteq DOMAIN leased'
    BY <1>0, <1>1, <1>3, <1>5 DEF Rest, Put
  <2>11. DOMAIN task' \subseteq 1 .. issued' /\ \A l \in DOMAIN task' : task'[l] \in Tasks
    BY <1>0, <1>3, <1>5, <2>3 DEF Rest, Put
  <2>12. Rest'
    BY <1>0, <1>3, <2>10, <2>11 DEF Rest
  <2> QED BY <2>9, <2>12, QueueInvPartsNext
<1> QED BY <1>4, <1>5

LEMMA TaskFields ==
  ASSUME NEW t \in Tasks
  PROVE  /\ t.lease \in QueueLease /\ t.lease.run \in Runs /\ t.pc \in {"handling", "acknowledge", "release"}
         /\ \A c \in {"handling", "acknowledge", "release"} : [t EXCEPT !.pc = c] \in Tasks
         /\ \A v \in QueueLease : [t EXCEPT !.lease = v] \in Tasks
         /\ [t EXCEPT !.lost = TRUE] \in Tasks
BY DEF Tasks, QueueLease

LEMMA RenewedLease ==
  ASSUME NEW v \in QueueLease
  PROVE  LET u == [v EXCEPT !.renewed = @ + 1] IN
         u \in QueueLease /\ u.run = v.run /\ u.attempt = v.attempt /\ u.renewed = v.renewed + 1
BY DEF QueueLease

\* The lease of a task that is still the current one.
LEMMA CurrentLease ==
  ASSUME QueueInv, NEW l \in DOMAIN task, IsCurrent(l)
  PROVE  /\ l \in DOMAIN Alive /\ Alive[l] = task[l].lease /\ leased[l] = task[l].lease
         /\ l \in DOMAIN leased /\ l \notin lapsed
BY Reclaims DEF IsCurrent

\* The rest of the invariant when a task ends with its lease settled.
LEMMA SettledRest ==
  ASSUME QueueInv, NEW l \in DOMAIN task, Leave(l),
         DOMAIN leased' \subseteq DOMAIN Alive, lapsed' = {}, cancelled' \subseteq cancelled,
         UNCHANGED <<issued, loop, stop, used, asked>>
  PROVE  Rest'
<1>1. Rest /\ DOMAIN Alive \subseteq 1 .. issued
  BY QueueInvParts, Reclaims
<1>2. DOMAIN task' \subseteq DOMAIN task /\ \A x \in DOMAIN task' : task'[x] = task[x]
  BY DEF Leave, Restrict
<1> QED BY <1>1, <1>2 DEF Rest

LEMMA AcknowledgeInv ==
  ASSUME QueueInv, NEW l \in DOMAIN task, Acknowledge(l)
  PROVE  QueueInv'
<1> DEFINE kn == known \ Dropped
           due == pending \o Returned
<1>1. OneEach(due, delayed, Alive, kn)
  BY Reclaims
<1>2. /\ Leave(l) /\ pending' = due /\ delayed' = delayed /\ lapsed' = {} /\ cancelled' \subseteq cancelled
      /\ UNCHANGED <<issued, loop, stop, used, asked>>
  BY DEF Acknowledge
<1>3. CASE IsCurrent(l)
  <2>1. l \in DOMAIN Alive /\ Alive[l] = task[l].lease
    BY <1>3, CurrentLease
  <2>2. leased' = Restrict(Alive, DOMAIN Alive \ {l}) /\ known' = kn \ {task[l].lease.run}
    BY <1>3 DEF Acknowledge
  <2> HIDE DEF due, kn
  <2>3. OneEach(due, delayed, Restrict(Alive, DOMAIN Alive \ {l}), kn \ {Alive[l].run})
    BY <1>1, <2>1, UngrantOne
  <2>4. OneEach(pending', delayed', leased', known')
    BY <1>2, <2>1, <2>2, <2>3
  <2>5. DOMAIN leased' \subseteq DOMAIN Alive
    BY <2>2 DEF Restrict
  <2>6. Rest'
    BY <1>2, <2>5, SettledRest
  <2> QED BY <2>4, <2>6, QueueInvPartsNext
<1>4. CASE ~IsCurrent(l)
  <2>1. leased' = Alive /\ known' = kn
    BY <1>4 DEF Acknowledge
  <2>2. Rest'
    BY <1>2, <2>1, SettledRest
  <2> QED BY <1>1, <1>2, <2>1, <2>2, QueueInvPartsNext
<1> QED BY <1>3, <1>4

LEMMA ReleaseInv ==
  ASSUME QueueInv, NEW l \in DOMAIN task, NEW delay \in BOOLEAN, Release(l, delay)
  PROVE  QueueInv'
<1> DEFINE kn == known \ Dropped
           due == pending \o Returned
           job == Again(task[l].lease)
           remove == IsCurrent(l) /\ job.run \in cancelled \ Dropped
           back == IsCurrent(l) /\ ~remove
<1>1. OneEach(due, delayed, Alive, kn)
  BY Reclaims
<1>2. /\ Leave(l) /\ lapsed' = {} /\ cancelled' \subseteq cancelled
      /\ UNCHANGED <<issued, loop, stop, used, asked>>
      /\ leased' = IF IsCurrent(l) THEN Restrict(Alive, DOMAIN Alive \ {l}) ELSE Alive
      /\ known' = kn \ (IF remove THEN {job.run} ELSE {})
      /\ pending' = due \o (IF back /\ ~delay THEN <<job>> ELSE <<>>)
      /\ delayed' = delayed \cup (IF back /\ delay THEN {job} ELSE {})
  BY DEF Release
<1>3. Rest'
  <2>1. DOMAIN leased' \subseteq DOMAIN Alive
    BY <1>2 DEF Restrict
  <2> QED BY <1>2, <2>1, SettledRest
<1>4. due \in Seq(Job) /\ due \o <<>> = due
  <2>1. due \in Seq(Job)
    BY <1>1 DEF OneEach
  <2> QED BY <2>1, ConcatEmptySeq
<1>5. CASE ~IsCurrent(l)
  <2>1. leased' = Alive /\ known' = kn /\ pending' = due /\ delayed' = delayed
    BY <1>2, <1>4, <1>5
  <2> QED BY <1>1, <1>3, <2>1, QueueInvPartsNext
<1>6. CASE IsCurrent(l)
  <2>1. l \in DOMAIN Alive /\ Alive[l] = task[l].lease
    BY <1>6, CurrentLease
  <2>2. task[l].lease \in QueueLease
    BY TaskFields, QueueInvParts DEF Rest
  <2>3. job \in Job /\ job.run = task[l].lease.run
    BY <2>2, AgainJob
  <2> DEFINE g == Restrict(Alive, DOMAIN Alive \ {l})
             k == kn \ {job.run}
  <2>4. OneEach(due, delayed, g, k)
    <3>1. OneEach(due, delayed, Restrict(Alive, DOMAIN Alive \ {l}), kn \ {Alive[l].run})
      BY <1>1, <2>1, UngrantOne
    <3> QED BY <2>1, <2>3, <3>1
  <2>5. job.run \in kn /\ job.run \notin k
    BY <1>1, <2>1, <2>3 DEF OneEach
  <2>6. leased' = g
    BY <1>2, <1>6
  <2>7. CASE remove
    <3>1. pending' = due /\ delayed' = delayed /\ known' = k
      BY <1>2, <1>4, <2>7
    <3> QED BY <1>3, <2>4, <2>6, <3>1, QueueInvPartsNext
  <2>8. CASE ~remove /\ delay
    <3>1. pending' = due /\ delayed' = delayed \cup {job} /\ known' = kn
      BY <1>2, <1>4, <1>6, <2>8
    <3> HIDE DEF job, due, kn, g
    <3>2. OneEach(due, delayed \cup {job}, g, k \cup {job.run})
      BY <2>3, <2>4, <2>5, DelayOne
    <3>3. k \cup {job.run} = kn
      BY <2>5
    <3> QED BY <1>3, <2>6, <3>1, <3>2, <3>3, QueueInvPartsNext
  <2>9. CASE ~remove /\ ~delay
    <3>1. pending' = due \o <<job>> /\ delayed' = delayed /\ known' = kn
      BY <1>2, <1>6, <2>9
    <3> HIDE DEF job, due, kn, g
    <3>2. OneEach(Append(due, job), delayed, g, k \cup {job.run})
      BY <2>3, <2>4, <2>5, PushOne
    <3>3. k \cup {job.run} = kn
      BY <2>5
    <3>4. due \o <<job>> = Append(due, job)
      BY <1>4, <2>3
    <3> QED BY <1>3, <2>6, <3>1, <3>2, <3>3, <3>4, QueueInvPartsNext
  <2> QED BY <2>7, <2>8, <2>9
<1> QED BY <1>5, <1>6

LEMMA RenewInv ==
  ASSUME QueueInv, NEW l \in DOMAIN task, Renew(l)
  PROVE  QueueInv'
<1> DEFINE kn == known \ Dropped
           due == pending \o Returned
           v == [task[l].lease EXCEPT !.renewed = @ + 1]
<1>1. OneEach(due, delayed, Alive, kn) /\ DOMAIN Alive \subseteq 1 .. issued
  BY Reclaims
<1>2. /\ pending' = due /\ known' = kn /\ delayed' = delayed /\ lapsed' = {} /\ cancelled' \subseteq cancelled
      /\ UNCHANGED <<issued, loop, stop, used, asked>>
  BY DEF Renew
<1>3. Rest
  BY QueueInvParts
<1>4. task[l] \in Tasks
  BY <1>3 DEF Rest
<1>5. v \in QueueLease /\ v.run = task[l].lease.run
  BY <1>4, TaskFields, RenewedLease
<1>6. CASE IsCurrent(l)
  <2>1. l \in DOMAIN Alive /\ Alive[l] = task[l].lease
    BY <1>6, CurrentLease
  <2>2. leased' = [Alive EXCEPT ![l] = v] /\ task' = [task EXCEPT ![l].lease = v]
    BY <1>6 DEF Renew
  <2> HIDE DEF v, due, kn
  <2>3. OneEach(due, delayed, [Alive EXCEPT ![l] = v], kn)
    BY <1>1, <1>5, <2>1, RegrantOne
  <2>4. DOMAIN task' = DOMAIN task /\ \A x \in DOMAIN task : task'[x] \in Tasks
    BY <1>3, <1>4, <1>5, <2>2, TaskFields DEF Rest
  <2>5. Rest'
    BY <1>1, <1>2, <1>3, <2>2, <2>4 DEF Rest
  <2> QED BY <1>2, <2>2, <2>3, <2>5, QueueInvPartsNext
<1>7. CASE ~IsCurrent(l)
  <2>1. leased' = Alive /\ task' = [task EXCEPT ![l].lost = TRUE]
    BY <1>7 DEF Renew
  <2>2. DOMAIN task' = DOMAIN task /\ \A x \in DOMAIN task : task'[x] \in Tasks
    BY <1>3, <1>4, <2>1, TaskFields DEF Rest
  <2> HIDE DEF due, kn
  <2>3. Rest'
    BY <1>1, <1>2, <1>3, <2>1, <2>2 DEF Rest
  <2> QED BY <1>1, <1>2, <2>1, <2>3, QueueInvPartsNext
<1> QED BY <1>6, <1>7

LEMMA DueInv ==
  ASSUME QueueInv, NEW j \in delayed, Due(j)
  PROVE  QueueInv'
<1>1. OneEach(pending, delayed, leased, known)
  BY DEF QueueInv
<1>2. pending' = Append(pending, j) /\ delayed' = delayed \ {j} /\ leased' = leased /\ known' = known
  BY DEF Due
<1>3. j \in Job /\ j.run \in known
  BY <1>1 DEF OneEach
<1>4. OneEach(pending, delayed \ {j}, leased, known \ {j.run})
  BY <1>1, UndelayOne
<1>5. OneEach(Append(pending, j), delayed \ {j}, leased, (known \ {j.run}) \cup {j.run})
  BY <1>3, <1>4, PushOne
<1>6. (known \ {j.run}) \cup {j.run} = known
  BY <1>3
<1>7. OneEach(pending', delayed', leased', known')
  BY <1>2, <1>5, <1>6
<1>8. Rest'
  BY QueueInvParts DEF Rest, Due, worker
<1> QED BY <1>7, <1>8, QueueInvPartsNext

\* The steps that move no command.
LEMMA StillInv ==
  ASSUME QueueInv, UNCHANGED <<pending, delayed, leased, known, cancelled, issued, asked>>,
         lapsed' \subseteq DOMAIN leased,
         DOMAIN task' \subseteq DOMAIN task, \A l \in DOMAIN task' : task'[l] \in Tasks,
         loop' \in [Workers -> {"idle", "leasing", "stopped"}],
         stop' \in [Workers -> BOOLEAN], used' \in [enqueues : Nat, faults : Nat]
  PROVE  QueueInv'
<1>1. OneEach(pending', delayed', leased', known')
  BY DEF QueueInv
<1>2. Rest'
  BY QueueInvParts DEF Rest
<1> QED BY <1>1, <1>2, QueueInvPartsNext

LEMMA FaultUsed ==
  ASSUME QueueInv, Fault
  PROVE  used' \in [enqueues : Nat, faults : Nat]
BY QueueInvParts DEF Rest, Fault

LEMMA WorkerInv ==
  ASSUME QueueInv, NEW w \in Workers, Poll(w) \/ Stopped(w) \/ RequestStop(w) \/ Abort(w)
  PROVE  QueueInv'
<1>1. Rest
  BY QueueInvParts
<1>2. CASE Poll(w) \/ Stopped(w) \/ RequestStop(w)
  BY <1>1, <1>2, StillInv DEF Rest, Poll, Stopped, RequestStop, queue
<1>3. CASE Abort(w)
  <2>1. used' \in [enqueues : Nat, faults : Nat]
    BY <1>3, FaultUsed DEF Abort
  <2>2. DOMAIN task' \subseteq DOMAIN task /\ \A l \in DOMAIN task' : task'[l] = task[l]
    BY <1>3 DEF Abort, Restrict
  <2> QED BY <1>1, <1>3, <2>1, <2>2, StillInv DEF Rest, Abort, queue
<1> QED BY <1>2, <1>3

LEMMA HandlerInv ==
  ASSUME QueueInv, NEW l \in DOMAIN task, HandlerReturns(l) \/ HandlerRaises(l)
  PROVE  QueueInv'
<1>1. Rest /\ task[l] \in Tasks
  BY QueueInvParts DEF Rest
<1>2. PICK c \in {"acknowledge", "release"} : task' = [task EXCEPT ![l].pc = c]
  BY DEF HandlerReturns, HandlerRaises
<1>3. DOMAIN task' = DOMAIN task /\ \A x \in DOMAIN task : task'[x] \in Tasks
  BY <1>1, <1>2, TaskFields DEF Rest
<1>4. used' \in [enqueues : Nat, faults : Nat]
  BY <1>1, FaultUsed DEF HandlerReturns, HandlerRaises, Rest
<1> QED BY <1>1, <1>3, <1>4, StillInv DEF HandlerReturns, HandlerRaises, queue, Rest

LEMMA LapseInv ==
  ASSUME QueueInv, NEW l \in DOMAIN leased, LapseOrphan(l) \/ LapseHeld(l)
  PROVE  QueueInv'
<1>1. Rest
  BY QueueInvParts
<1>2. used' \in [enqueues : Nat, faults : Nat]
  BY <1>1, FaultUsed DEF LapseOrphan, LapseHeld, Rest
<1>3. lapsed' \subseteq DOMAIN leased
  BY <1>1 DEF LapseOrphan, LapseHeld, Rest
<1>4. UNCHANGED <<pending, delayed, leased, known, cancelled, issued, asked, task, loop, stop>>
  BY DEF LapseOrphan, LapseHeld, worker
<1> QED BY <1>1, <1>2, <1>3, <1>4, StillInv DEF Rest

LEMMA QueueInvStep == QueueInv /\ [Next]_vars => QueueInv'
<1> SUFFICES ASSUME QueueInv, [Next]_vars PROVE QueueInv'
  OBVIOUS
<1>1. CASE UNCHANGED vars
  <2>1. Rest /\ UNCHANGED <<pending, delayed, leased, known, cancelled, issued, asked, lapsed, task, loop, stop, used>>
    BY <1>1, QueueInvParts DEF vars, queue, worker
  <2> QED BY <2>1, StillInv DEF Rest
<1>2. CASE \E r \in Runs : Enqueue(r) \/ Cancel(r)
  BY <1>2, EnqueueInv, CancelInv
<1>3. CASE \E w \in Workers : WorkerStep(w) \/ RequestStop(w) \/ Abort(w)
  BY <1>3, WorkerInv, LeaseInv DEF WorkerStep
<1>4. CASE \E l \in DOMAIN task : TaskStep(l)
  BY <1>4, HandlerInv, RenewInv, AcknowledgeInv, ReleaseInv DEF TaskStep
<1>5. CASE Time
  BY <1>5, LapseInv, DueInv DEF Time
<1> QED BY <1>1, <1>2, <1>3, <1>4, <1>5 DEF Next

LEMMA OnePlace == OneEach(pending, delayed, leased, known) => OneCommandPerRun
<1> SUFFICES ASSUME OneEach(pending, delayed, leased, known), NEW r \in Runs
             PROVE  Cardinality(Places(r)) = IF r \in known THEN 1 ELSE 0
  BY DEF OneCommandPerRun
<1> DEFINE P == {<<"pending", i>> : i \in {k \in DOMAIN pending : pending[k].run = r}}
           D == {<<"delayed", j.attempt>> : j \in {k \in delayed : k.run = r}}
           L == {<<"leased", l>> : l \in {k \in DOMAIN leased : leased[k].run = r}}
<1>1. Places(r) = P \cup D \cup L
  BY DEF Places
<1>2. r \in known <=> \/ \E i \in DOMAIN pending : pending[i].run = r
                      \/ \E j \in delayed : j.run = r
                      \/ \E l \in DOMAIN leased : leased[l].run = r
  BY DEF OneEach
<1>3. CASE \E i \in DOMAIN pending : pending[i].run = r
  <2>1. PICK i \in DOMAIN pending : pending[i].run = r
    BY <1>3
  <2>2. \A k \in DOMAIN pending : pending[k].run = r <=> k = i
    BY <2>1 DEF OneEach
  <2>3. P = {<<"pending", i>>}
    BY <2>2
  <2>4. D = {} /\ L = {}
    BY <2>1 DEF OneEach
  <2>5. Places(r) = {<<"pending", i>>}
    BY <1>1, <2>3, <2>4, Zenon
  <2> QED BY <1>2, <1>3, <2>5, FS_Singleton
<1>4. CASE \E j \in delayed : j.run = r
  <2>1. PICK j \in delayed : j.run = r
    BY <1>4
  <2>2. \A k \in delayed : k.run = r <=> k = j
    BY <2>1 DEF OneEach
  <2>3. D = {<<"delayed", j.attempt>>}
    BY <2>2
  <2>4. P = {} /\ L = {}
    BY <2>1 DEF OneEach
  <2>5. Places(r) = {<<"delayed", j.attempt>>}
    BY <1>1, <2>3, <2>4, Zenon
  <2> QED BY <1>2, <1>4, <2>5, FS_Singleton
<1>5. CASE \E l \in DOMAIN leased : leased[l].run = r
  <2>1. PICK l \in DOMAIN leased : leased[l].run = r
    BY <1>5
  <2>2. \A k \in DOMAIN leased : leased[k].run = r <=> k = l
    BY <2>1 DEF OneEach
  <2>3. L = {<<"leased", l>>}
    BY <2>2
  <2>4. P = {} /\ D = {}
    BY <2>1 DEF OneEach
  <2>5. Places(r) = {<<"leased", l>>}
    BY <1>1, <2>3, <2>4, Zenon
  <2> QED BY <1>2, <1>5, <2>5, FS_Singleton
<1>6. CASE r \notin known
  <2>1. P = {} /\ D = {} /\ L = {}
    BY <1>2, <1>6
  <2>2. Places(r) = {}
    BY <1>1, <2>1
  <2> QED BY <1>6, <2>2, FS_EmptySet
<1> QED BY <1>2, <1>3, <1>4, <1>5, <1>6

\* In every state a known run has exactly one command, whatever expired, was
\* settled, renewed or cancelled in whatever order (InMemoryQueueBackend).
THEOREM QueueKeptSound == Spec => []QueueSound
<1>1. Init => QueueInv
  BY QueueInvInit
<1>2. QueueInv /\ [Next]_vars => QueueInv'
  BY QueueInvStep
<1>3. QueueInv => QueueSound
  BY OnePlace DEF QueueInv, QueueSound
<1> QED BY <1>1, <1>2, <1>3, PTL DEF Spec

-----------------------------------------------------------------------------
(* The promise of a lease queue                                             *)

Holding(c, r, l, n) ==
  [phase |-> IF r \in c THEN "doomed" ELSE "held", lease |-> l, attempt |-> n]

\* f says of each run where its command is, when the commands are due in p,
\* delayed in d and leased in g, the runs c are marked and k are known.
Tells(f, p, d, g, k, c) ==
  /\ f = [r \in Runs |-> f[r]]
  /\ \A l \in DOMAIN g : f[g[l].run] = Holding(c, g[l].run, l, g[l].attempt)
  /\ \A i \in DOMAIN p : f[p[i].run] = Queue!Waiting(p[i].attempt)
  /\ \A j \in d : f[j.run] = Queue!Waiting(j.attempt)
  /\ \A r \in Runs : r \notin k => f[r] = Queue!Absent

cmd == [r \in Runs |-> Where(r)]

\* The commands determine what is told of them.
LEMMA TellsOne ==
  ASSUME NEW p, NEW d, NEW g, NEW k, OneEach(p, d, g, k), NEW c, NEW e, NEW f,
         Tells(e, p, d, g, k, c), Tells(f, p, d, g, k, c)
  PROVE  e = f
<1>2. ASSUME NEW r \in Runs PROVE e[r] = f[r]
  <2>1. CASE r \notin k
    BY <2>1 DEF Tells
  <2>2. CASE \E i \in DOMAIN p : p[i].run = r
    BY <2>2 DEF Tells
  <2>3. CASE \E j \in d : j.run = r
    BY <2>3 DEF Tells
  <2>4. CASE \E l \in DOMAIN g : g[l].run = r
    BY <2>4 DEF Tells
  <2> QED BY <2>1, <2>2, <2>3, <2>4 DEF OneEach
<1>3. e = [r \in Runs |-> e[r]] /\ f = [r \in Runs |-> f[r]]
  BY DEF Tells
<1> QED BY <1>2, <1>3

LEMMA CommandsRuns ==
  ASSUME NEW p, NEW d, NEW g, NEW k, OneEach(p, d, g, k)
  PROVE  /\ \A i \in DOMAIN p : p[i] \in Job /\ p[i].run \in Runs /\ p[i].run \in k
         /\ \A j \in d : j \in Job /\ j.run \in Runs /\ j.run \in k
         /\ \A l \in DOMAIN g : g[l] \in QueueLease /\ g[l].run \in Runs /\ g[l].run \in k
<1>1. \A i \in DOMAIN p : p[i] \in Job
  BY DEF OneEach
<1> QED BY <1>1 DEF OneEach, Job, QueueLease

\* Where tells where the commands are.
LEMMA WhereTells == QueueInv => Tells(cmd, pending, delayed, leased, known, cancelled)
<1> SUFFICES ASSUME QueueInv PROVE Tells(cmd, pending, delayed, leased, known, cancelled)
  OBVIOUS
<1>0. OneEach(pending, delayed, leased, known)
  BY DEF QueueInv
<1>1. \A r \in Runs : cmd[r] = Where(r)
  BY DEF cmd
<1>2. ASSUME NEW l \in DOMAIN leased
      PROVE  cmd[leased[l].run] = Holding(cancelled, leased[l].run, l, leased[l].attempt)
  <2> DEFINE r == leased[l].run
             held == {k \in DOMAIN leased : leased[k].run = r}
  <2>1. r \in Runs /\ held = {l}
    <3>1. r \in Runs
      BY <1>0, CommandsRuns
    <3>2. \A k \in DOMAIN leased : leased[k].run = leased[l].run => k = l
      BY <1>0 DEF OneEach
    <3> QED BY <3>1, <3>2
  <2>2. (CHOOSE k \in held : TRUE) = l
    BY <2>1
  <2>3. Where(r) = Holding(cancelled, r, l, leased[l].attempt)
    BY <2>1, <2>2 DEF Where, Holding
  <2> QED BY <1>1, <2>1, <2>3
<1>3. ASSUME NEW j \in Job, j \in delayed \/ \E i \in DOMAIN pending : pending[i] = j
      PROVE  cmd[j.run] = Queue!Waiting(j.attempt)
  <2> DEFINE r == j.run
             held == {k \in DOMAIN leased : leased[k].run = r}
             idle == {pending[i] : i \in DOMAIN pending} \cup delayed
  <2>1. r \in Runs /\ held = {}
    BY <1>0, <1>3 DEF OneEach, Job
  <2>2. j \in idle /\ \A k \in idle : k.run = r => k = j
    BY <1>0, <1>3 DEF OneEach
  <2>3. (CHOOSE k \in idle : k.run = r) = j
    BY <2>2
  <2>4. Where(r) = IF \E k \in idle : k.run = r
                     THEN LET k == CHOOSE k \in idle : k.run = r IN
                          [phase |-> "waiting", lease |-> 0, attempt |-> k.attempt]
                     ELSE [phase |-> "absent", lease |-> 0, attempt |-> 0]
    BY <2>1 DEF Where
  <2> HIDE DEF idle
  <2>5. Where(r) = Queue!Waiting(j.attempt)
    BY <2>2, <2>3, <2>4 DEF Queue!Waiting
  <2> QED BY <1>1, <2>1, <2>5
<1>4. ASSUME NEW r \in Runs, r \notin known
      PROVE  cmd[r] = Queue!Absent
  <2>1. /\ {k \in DOMAIN leased : leased[k].run = r} = {}
        /\ ~ \E k \in {pending[i] : i \in DOMAIN pending} \cup delayed : k.run = r
    BY <1>0, <1>4 DEF OneEach
  <2> QED BY <1>1, <2>1 DEF Where, Queue!Absent
<1>5. \A i \in DOMAIN pending : pending[i] \in Job
  BY <1>0, CommandsRuns
<1>6. \A j \in delayed : j \in Job
  BY <1>0, CommandsRuns
<1>7. cmd = [r \in Runs |-> cmd[r]]
  BY DEF cmd
<1> QED BY <1>2, <1>3, <1>4, <1>5, <1>6, <1>7 DEF Tells

LEMMA WhereTellsNext == (QueueInv => Tells(cmd, pending, delayed, leased, known, cancelled))'
BY WhereTells, PTL

\* What is told of the next state is what Where says of it.
LEMMA Told ==
  ASSUME QueueInv', NEW f, Tells(f, pending', delayed', leased', known', cancelled')
  PROVE  cmd' = f
<1>1. Tells(cmd', pending', delayed', leased', known', cancelled')
  BY WhereTellsNext
<1>2. OneEach(pending', delayed', leased', known')
  BY DEF QueueInv
<1> QED BY <1>1, <1>2, TellsOne

LEMMA TellsPush ==
  ASSUME NEW p, NEW d, NEW g, NEW k, OneEach(p, d, g, k), NEW c, NEW f, Tells(f, p, d, g, k, c),
         NEW j \in Job, j.run \notin k,
         NEW e, e = [r \in Runs |-> e[r]], \A r \in Runs : r # j.run => e[r] = f[r],
         e[j.run] = Queue!Waiting(j.attempt)
  PROVE  Tells(e, Append(p, j), d, g, k \cup {j.run}, c)
<1> DEFINE q == Append(p, j)
<1>1. /\ p \in Seq(Job) /\ DOMAIN p = 1 .. Len(p) /\ Len(p) \in Nat
      /\ DOMAIN q = 1 .. Len(p) + 1
      /\ \A i \in DOMAIN p : q[i] = p[i]
      /\ q[Len(p) + 1] = j
  BY DEF OneEach
<1> HIDE DEF q
<1>2. \A i \in DOMAIN q : (i \in DOMAIN p /\ q[i] = p[i]) \/ q[i] = j
  BY <1>1
<1>3. /\ \A i \in DOMAIN p : p[i].run \in Runs /\ p[i].run # j.run
      /\ \A i \in d : i.run \in Runs /\ i.run # j.run
      /\ \A l \in DOMAIN g : g[l].run \in Runs /\ g[l].run # j.run
  BY CommandsRuns
<1>4. \A i \in DOMAIN q : e[q[i].run] = Queue!Waiting(q[i].attempt)
  BY <1>2, <1>3 DEF Tells
<1>5. Tells(e, q, d, g, k \cup {j.run}, c)
  BY <1>3, <1>4 DEF Tells
<1> QED BY <1>5 DEF q

LEMMA TellsDelay ==
  ASSUME NEW p, NEW d, NEW g, NEW k, OneEach(p, d, g, k), NEW c, NEW f, Tells(f, p, d, g, k, c),
         NEW j \in Job, j.run \notin k,
         NEW e, e = [r \in Runs |-> e[r]], \A r \in Runs : r # j.run => e[r] = f[r],
         e[j.run] = Queue!Waiting(j.attempt)
  PROVE  Tells(e, p, d \cup {j}, g, k \cup {j.run}, c)
<1>3. /\ \A i \in DOMAIN p : p[i].run \in Runs /\ p[i].run # j.run
      /\ \A i \in d : i.run \in Runs /\ i.run # j.run
      /\ \A l \in DOMAIN g : g[l].run \in Runs /\ g[l].run # j.run
  BY CommandsRuns
<1> QED BY <1>3 DEF Tells

LEMMA TellsUngrant ==
  ASSUME NEW p, NEW d, NEW g, NEW k, OneEach(p, d, g, k), NEW c, NEW f, Tells(f, p, d, g, k, c),
         NEW x \in DOMAIN g, NEW b, \A r : r # g[x].run => (r \in b <=> r \in c),
         NEW e, e = [r \in Runs |-> e[r]], \A r \in Runs : r # g[x].run => e[r] = f[r],
         e[g[x].run] = Queue!Absent
  PROVE  Tells(e, p, d, Restrict(g, DOMAIN g \ {x}), k \ {g[x].run}, b)
<1> DEFINE h == Restrict(g, DOMAIN g \ {x})
           y == g[x].run
<1>1. DOMAIN h = DOMAIN g \ {x} /\ \A l \in DOMAIN h : h[l] = g[l]
  BY DEF Restrict
<1> HIDE DEF h
<1>2. /\ \A i \in DOMAIN p : p[i].run \in Runs /\ p[i].run # y
      /\ \A i \in d : i.run \in Runs /\ i.run # y
      /\ \A l \in DOMAIN h : g[l].run \in Runs /\ g[l].run # y
  <2>1. /\ \A i \in DOMAIN p : p[i].run \in Runs
        /\ \A i \in d : i.run \in Runs
        /\ \A l \in DOMAIN g : g[l].run \in Runs
    BY CommandsRuns
  <2>2. /\ \A i \in DOMAIN p : p[i].run # g[x].run
        /\ \A i \in d : i.run # g[x].run
        /\ \A l \in DOMAIN g : g[l].run = g[x].run => l = x
    BY DEF OneEach
  <2> QED BY <1>1, <2>1, <2>2
<1>3. ASSUME NEW l \in DOMAIN h
      PROVE  e[h[l].run] = Holding(b, h[l].run, l, h[l].attempt)
  <2>1. f[g[l].run] = Holding(c, g[l].run, l, g[l].attempt)
    BY <1>1 DEF Tells
  <2> QED BY <1>1, <1>2, <2>1 DEF Holding
<1>4. Tells(e, p, d, h, k \ {y}, b)
  BY <1>2, <1>3 DEF Tells
<1> QED BY <1>4 DEF h

LEMMA TellsRegrant ==
  ASSUME NEW p, NEW d, NEW g, NEW k, NEW c, NEW f, Tells(f, p, d, g, k, c),
         NEW x \in DOMAIN g, NEW v, v.run = g[x].run, v.attempt = g[x].attempt
  PROVE  Tells(f, p, d, [g EXCEPT ![x] = v], k, c)
BY DEF Tells, Holding

\* The runs whose lease ran out.
Expired == {leased[l].run : l \in lapsed}

LEMMA ReclaimedFun ==
  ASSUME NEW S
  PROVE  Queue!Reclaimed(S) = [r \in Runs |-> IF r \in S THEN Queue!GivenBack(cmd[r]) ELSE cmd[r]]
BY DEF Queue!Reclaimed, cmd

LEMMA ConcatMembers ==
  ASSUME NEW p \in Seq(Job), NEW q \in Seq(Job), NEW i \in DOMAIN (p \o q)
  PROVE  (\E n \in DOMAIN p : (p \o q)[i] = p[n]) \/ (\E n \in DOMAIN q : (p \o q)[i] = q[n])
<1>1. /\ Len(p \o q) = Len(p) + Len(q) /\ p \o q \in Seq(Job)
      /\ \A n \in 1 .. Len(p) + Len(q) : (p \o q)[n] = IF n <= Len(p) THEN p[n] ELSE q[n - Len(p)]
  BY ConcatProperties
<1>2. i \in 1 .. Len(p) + Len(q) /\ Len(p) \in Nat /\ Len(q) \in Nat
      /\ DOMAIN p = 1 .. Len(p) /\ DOMAIN q = 1 .. Len(q)
  BY <1>1
<1>3. CASE i <= Len(p)
  <2>1. i \in DOMAIN p
    BY <1>2, <1>3
  <2> QED BY <1>1, <1>2, <1>3, <2>1
<1>4. CASE ~(i <= Len(p))
  <2>1. i - Len(p) \in DOMAIN q
    BY <1>2, <1>4
  <2> QED BY <1>1, <1>2, <1>4, <2>1
<1> QED BY <1>3, <1>4

\* _reclaim_expired takes the commands of the expired leases back.
LEMMA ReclaimTells ==
  ASSUME QueueInv
  PROVE  /\ Expired \in SUBSET Queue!Leased
         /\ Tells(Queue!Reclaimed(Expired), pending \o Returned, delayed, Alive, known \ Dropped,
                  cancelled \ Dropped)
<1> DEFINE f == Queue!Reclaimed(Expired)
<1>0. /\ OneEach(pending, delayed, leased, known) /\ Tells(cmd, pending, delayed, leased, known, cancelled)
      /\ lapsed \subseteq DOMAIN leased /\ pending \in Seq(Job)
  BY WhereTells DEF QueueInv, TypeOK
<1>1. /\ \A i \in DOMAIN pending : pending[i] \in Job /\ pending[i].run \in Runs
      /\ \A j \in delayed : j \in Job /\ j.run \in Runs
      /\ \A l \in DOMAIN leased : leased[l] \in QueueLease /\ leased[l].run \in Runs /\ leased[l].run \in known
  BY <1>0, CommandsRuns
<1>2. /\ f = [r \in Runs |-> f[r]]
      /\ \A r \in Runs : f[r] = IF r \in Expired THEN Queue!GivenBack(cmd[r]) ELSE cmd[r]
  BY ReclaimedFun
<1> HIDE DEF f
<1>3. ASSUME NEW l \in lapsed
      PROVE  cmd[leased[l].run] = Holding(cancelled, leased[l].run, l, leased[l].attempt)
  BY <1>0 DEF Tells
<1>4. Expired \subseteq Queue!Leased
  <2> SUFFICES ASSUME NEW l \in lapsed PROVE leased[l].run \in Queue!Leased
    BY DEF Expired
  <2>1. cmd[leased[l].run].phase \in {"held", "doomed"} /\ leased[l].run \in Runs
    <3>1. leased[l].run \in Runs
      BY <1>0, <1>1
    <3>2. cmd[leased[l].run] = Holding(cancelled, leased[l].run, l, leased[l].attempt)
      BY <1>3
    <3> QED BY <3>1, <3>2 DEF Holding
  <2> QED BY <2>1 DEF Queue!Leased, cmd
<1>5. ASSUME NEW l \in lapsed
      PROVE  f[leased[l].run] = IF leased[l].run \in cancelled THEN Queue!Absent
                                ELSE Queue!Waiting(leased[l].attempt + 1)
  <2>1. leased[l].run \in Expired /\ leased[l].run \in Runs
    BY <1>0, <1>1 DEF Expired
  <2>2. f[leased[l].run] = Queue!GivenBack(Holding(cancelled, leased[l].run, l, leased[l].attempt))
    BY <1>2, <1>3, <2>1
  <2> QED BY <2>2 DEF Queue!GivenBack, Holding
<1>6. \A l \in DOMAIN Alive : l \in DOMAIN leased /\ l \notin lapsed /\ Alive[l] = leased[l]
  BY Reclaims
<1>7. ASSUME NEW l \in DOMAIN Alive
      PROVE  f[Alive[l].run] = Holding(cancelled \ Dropped, Alive[l].run, l, Alive[l].attempt)
  <2>1. Alive[l].run \notin Expired /\ Alive[l].run \in Runs
    BY <1>0, <1>1, <1>6 DEF Expired, OneEach
  <2>2. Dropped \subseteq Expired
    BY DEF Dropped, Expired
  <2>3. f[Alive[l].run] = Holding(cancelled, Alive[l].run, l, Alive[l].attempt)
    BY <1>0, <1>2, <1>6, <2>1 DEF Tells
  <2> QED BY <2>1, <2>2, <2>3 DEF Holding
<1>8. ASSUME NEW i \in DOMAIN (pending \o Returned)
      PROVE  f[(pending \o Returned)[i].run] = Queue!Waiting((pending \o Returned)[i].attempt)
  <2> DEFINE j == (pending \o Returned)[i]
  <2>1. (\E n \in DOMAIN pending : j = pending[n]) \/ (\E n \in DOMAIN Returned : j = Returned[n])
    BY SMTT(30), <1>0, ReturnedLists, ConcatMembers
  <2> SUFFICES f[j.run] = Queue!Waiting(j.attempt)
    OBVIOUS
  <2> HIDE DEF j
  <2>2. CASE \E n \in DOMAIN pending : j = pending[n]
    <3>1. PICK n \in DOMAIN pending : j = pending[n]
      BY <2>2
    <3>2. j.run \notin Expired /\ j.run \in Runs
      BY <1>0, <1>1, <3>1 DEF Expired, OneEach
    <3>3. cmd[j.run] = Queue!Waiting(j.attempt)
      BY <1>0, <3>1 DEF Tells
    <3> QED BY <1>2, <3>2, <3>3
  <2>3. CASE \E n \in DOMAIN Returned : j = Returned[n]
    <3>1. PICK l \in lapsed : leased[l].run \notin cancelled /\ j = Again(leased[l])
      BY <2>3, ReturnedLists
    <3>2. j.run = leased[l].run /\ j.attempt = leased[l].attempt + 1
      BY <1>0, <1>1, <3>1, AgainJob
    <3> QED BY <1>5, <3>1, <3>2
  <2> QED BY <2>1, <2>2, <2>3
<1>9. ASSUME NEW j \in delayed
      PROVE  f[j.run] = Queue!Waiting(j.attempt)
  <2>1. j.run \notin Expired /\ j.run \in Runs
    BY <1>0, <1>1 DEF Expired, OneEach
  <2> QED BY <1>0, <1>2, <2>1 DEF Tells
<1>10. ASSUME NEW r \in Runs, r \notin known \ Dropped
       PROVE  f[r] = Queue!Absent
  <2>1. CASE r \in Dropped
    <3>1. PICK l \in lapsed : leased[l].run = r /\ r \in cancelled
      BY <2>1 DEF Dropped
    <3> QED BY <1>5, <3>1
  <2>2. CASE r \notin known
    <3>1. r \notin Expired
      BY <1>0, <1>1, <2>2 DEF Expired
    <3> QED BY <1>0, <1>2, <2>2, <3>1 DEF Tells
  <2> QED BY <1>10, <2>1, <2>2
<1>11. Tells(f, pending \o Returned, delayed, Alive, known \ Dropped, cancelled \ Dropped)
  BY <1>2, <1>7, <1>8, <1>9, <1>10 DEF Tells
<1> QED BY <1>4, <1>11 DEF f

\* No environment lets both a cancellation and a failing handler happen.
MarksApart == \A e \in Envs : ~("cancel" \in e /\ "raise" \in e)

\* The marked runs are the known ones whose cancellation was asked, and they are leased.
Marks ==
  /\ env \in Envs
  /\ "cancel" \notin env => cancelled = {} /\ asked = {}
  /\ "raise" \notin env => \A l \in DOMAIN task : task[l].pc # "release"
  /\ \A r \in cancelled : r \in asked /\ \E l \in DOMAIN leased : leased[l].run = r
  /\ \A r \in asked : r \in known => r \in cancelled

\* A step of the abstract queue, or one it does not see.
Promised == Queue!Next \/ UNCHANGED <<cmd, asked>>

LEMMA ReclaimMarks ==
  ASSUME QueueInv, Marks
  PROVE  /\ \A r \in cancelled \ Dropped : r \in asked /\ \E l \in DOMAIN Alive : Alive[l].run = r
         /\ \A r \in asked : r \in known \ Dropped => r \in cancelled \ Dropped
         /\ \A i \in DOMAIN (pending \o Returned) : (pending \o Returned)[i].run \notin cancelled \ Dropped
<1>1. ASSUME NEW r \in cancelled \ Dropped
      PROVE  r \in asked /\ \E l \in DOMAIN Alive : Alive[l].run = r
  <2>1. PICK l \in DOMAIN leased : leased[l].run = r
    BY DEF Marks
  <2>2. l \notin lapsed
    BY <2>1 DEF Dropped
  <2> QED BY <2>1, <2>2, Reclaims DEF Marks
<1>2. \A i \in DOMAIN (pending \o Returned) : (pending \o Returned)[i].run \notin cancelled \ Dropped
  BY SMTT(30), <1>1, Reclaims DEF OneEach
<1> QED BY <1>1, <1>2 DEF Marks

LEMMA PromisedGiveBack ==
  ASSUME NEW S \in SUBSET Queue!Leased, cmd' = Queue!Reclaimed(S), asked' = asked
  PROVE  Promised
<1>1. Queue!GiveBack(S)
  BY DEF Queue!GiveBack, cmd
<1> QED BY <1>1 DEF Promised, Queue!Next

LEMMA EnqueuePromise ==
  ASSUME QueueInv, Marks, NEW r \in Runs, Enqueue(r)
  PROVE  Marks' /\ Promised
<1> DEFINE j == [run |-> r, attempt |-> 1]
           e == [cmd EXCEPT ![r] = Queue!Waiting(1)]
<1>0. /\ r \notin known /\ known' = known \cup {r} /\ pending' = Append(pending, j) /\ asked' = asked \ {r}
      /\ delayed' = delayed /\ leased' = leased /\ cancelled' = cancelled /\ env' = env /\ task' = task
  BY DEF Enqueue, worker
<1>1. OneEach(pending, delayed, leased, known) /\ Tells(cmd, pending, delayed, leased, known, cancelled)
  BY WhereTells DEF QueueInv
<1>2. j \in Job /\ j.run = r /\ j.attempt = 1
  BY DEF Job
<1>3. cmd[r] = Queue!Absent
  BY <1>0, <1>1 DEF Tells
<1>4. /\ e = [q \in Runs |-> e[q]] /\ e[r] = Queue!Waiting(1)
      /\ \A q \in Runs : q # r => e[q] = cmd[q]
  BY DEF cmd
<1> HIDE DEF j, e
<1>5. Tells(e, Append(pending, j), delayed, leased, known \cup {j.run}, cancelled)
  BY <1>0, <1>1, <1>2, <1>4, TellsPush
<1>6. cmd' = e
  <2>1. Tells(e, pending', delayed', leased', known', cancelled')
    BY <1>0, <1>2, <1>5
  <2> QED BY <2>1, EnqueueInv, Told
<1>7. Promised
  <2>1. Queue!Enqueue(r)
    BY <1>0, <1>3, <1>6 DEF Queue!Enqueue, cmd, e
  <2> QED BY <2>1 DEF Promised, Queue!Next
<1>8. Marks'
  <2>1. \A x \in cancelled : x # r
    BY <1>0, <1>1, CommandsRuns DEF Marks
  <2> QED BY <1>0, <2>1 DEF Marks
<1> QED BY <1>7, <1>8

LEMMA CancelPromise ==
  ASSUME QueueInv, Marks, NEW r \in Runs, Cancel(r)
  PROVE  Marks' /\ Promised
<1> DEFINE others == {j \in delayed : j.run # r}
           m == IF \E l \in DOMAIN leased : leased[l].run = r THEN known ELSE known \ {r}
           removed == \/ \E i \in DOMAIN pending : pending[i].run = r
                      \/ \E j \in delayed : j.run = r
<1>0. /\ "cancel" \in env /\ r \in known /\ pending' = Without(pending, r) /\ delayed' = others /\ leased' = leased
      /\ known' = IF removed THEN known \ {r} ELSE known
      /\ cancelled' = IF removed THEN cancelled \ {r} ELSE cancelled \cup {r}
      /\ asked' = asked \cup {r} /\ env' = env /\ task' = task
  BY DEF Cancel, worker
<1>1. OneEach(pending, delayed, leased, known) /\ Tells(cmd, pending, delayed, leased, known, cancelled)
  BY WhereTells DEF QueueInv
<1>2. removed <=> ~ \E l \in DOMAIN leased : leased[l].run = r
  BY <1>0, <1>1 DEF OneEach
<1>3. \A i \in DOMAIN Without(pending, r) :
         \E n \in DOMAIN pending : pending[n] = Without(pending, r)[i] /\ pending[n].run # r
  BY <1>1, WithoutLists DEF OneEach
<1>4. QueueInv'
  BY CancelInv
<1>5. Marks'
  <2>1. CASE removed
    <3>1. r \notin cancelled
      BY <1>2, <2>1 DEF Marks
    <3> QED BY <1>0, <2>1, <3>1 DEF Marks
  <2>2. CASE ~removed
    BY <1>0, <1>2, <2>2 DEF Marks
  <2> QED BY <2>1, <2>2
<1>6. CASE removed
  <2> DEFINE e == [cmd EXCEPT ![r] = Queue!Absent]
  <2>1. /\ e = [q \in Runs |-> e[q]] /\ e[r] = Queue!Absent
        /\ \A q \in Runs : q # r => e[q] = cmd[q]
    BY DEF cmd
  <2>2. r \notin asked
    BY <1>0, <1>2, <1>6 DEF Marks
  <2>3. cmd[r].phase = "waiting"
    <3>1. \E n : cmd[r] = Queue!Waiting(n)
      BY <1>1, <1>6 DEF Tells
    <3> QED BY <3>1 DEF Queue!Waiting
  <2>4. Tells(e, pending', delayed', leased', known', cancelled')
    <3>1. known' = known \ {r} /\ cancelled' = cancelled \ {r}
      BY <1>0, <1>6
    <3>2. /\ \A l \in DOMAIN leased : leased[l].run \in Runs /\ leased[l].run # r
          /\ \A i \in DOMAIN pending : pending[i].run \in Runs
          /\ \A j \in delayed : j.run \in Runs
      BY <1>1, <1>2, <1>6, CommandsRuns
    <3>3. ASSUME NEW l \in DOMAIN leased
          PROVE  e[leased[l].run] = Holding(cancelled', leased[l].run, l, leased[l].attempt)
      <4>1. cmd[leased[l].run] = Holding(cancelled, leased[l].run, l, leased[l].attempt)
        BY <1>1 DEF Tells
      <4> QED BY <2>1, <3>1, <3>2, <4>1 DEF Holding
    <3> HIDE DEF e
    <3>4. \A i \in DOMAIN pending' : e[pending'[i].run] = Queue!Waiting(pending'[i].attempt)
      <4> SUFFICES ASSUME NEW i \in DOMAIN Without(pending, r)
                   PROVE  e[Without(pending, r)[i].run] = Queue!Waiting(Without(pending, r)[i].attempt)
        BY <1>0
      <4>1. PICK n \in DOMAIN pending : pending[n] = Without(pending, r)[i] /\ pending[n].run # r
        BY <1>3
      <4>2. e[pending[n].run] = Queue!Waiting(pending[n].attempt)
        BY <1>1, <2>1, <3>2, <4>1 DEF Tells
      <4> QED BY <4>1, <4>2
    <3>5. \A j \in others : e[j.run] = Queue!Waiting(j.attempt)
      BY <1>1, <2>1, <3>2 DEF Tells
    <3>6. \A q \in Runs : q \notin known' => e[q] = Queue!Absent
      BY <1>1, <2>1, <3>1 DEF Tells
    <3> QED BY <1>0, <2>1, <3>3, <3>4, <3>5, <3>6 DEF Tells
  <2>5. cmd' = e
    BY <1>4, <2>4, Told
  <2>6. Queue!Cancel(r)
    BY <1>0, <2>2, <2>3, <2>5 DEF Queue!Cancel, cmd
  <2> QED BY <1>5, <2>6 DEF Promised, Queue!Next
<1>7. CASE ~removed
  <2>1. PICK x \in DOMAIN leased : leased[x].run = r
    BY <1>2, <1>7
  <2>2. cmd[r] = Holding(cancelled, r, x, leased[x].attempt)
    BY <1>1, <2>1 DEF Tells
  <2> DEFINE e == [cmd EXCEPT ![r] = Holding(cancelled \cup {r}, r, x, leased[x].attempt)]
  <2>3. /\ e = [q \in Runs |-> e[q]] /\ e[r] = Holding(cancelled \cup {r}, r, x, leased[x].attempt)
        /\ \A q \in Runs : q # r => e[q] = cmd[q]
    BY DEF cmd
  <2>4. known' = known /\ cancelled' = cancelled \cup {r}
    BY <1>0, <1>7
  <2> HIDE DEF e
  <2>5. Tells(e, pending', delayed', leased', known', cancelled')
    <3>2. /\ \A l \in DOMAIN leased : leased[l].run \in Runs /\ (leased[l].run = r => l = x)
          /\ \A i \in DOMAIN pending : pending[i].run \in Runs /\ pending[i].run # r
          /\ \A j \in delayed : j.run \in Runs /\ j.run # r
      <4>1. \A l \in DOMAIN leased : leased[l].run = leased[x].run => l = x
        BY <1>1 DEF OneEach
      <4> QED BY <1>1, <1>7, <2>1, <4>1, CommandsRuns
    <3>3. ASSUME NEW l \in DOMAIN leased
          PROVE  e[leased[l].run] = Holding(cancelled', leased[l].run, l, leased[l].attempt)
      <4>1. cmd[leased[l].run] = Holding(cancelled, leased[l].run, l, leased[l].attempt)
        BY <1>1 DEF Tells
      <4>2. CASE leased[l].run = r
        BY <2>1, <2>3, <2>4, <3>2, <4>2
      <4>3. CASE leased[l].run # r
        BY <2>3, <2>4, <3>2, <4>1, <4>3 DEF Holding
      <4> QED BY <4>2, <4>3
    <3>4. \A i \in DOMAIN pending' : e[pending'[i].run] = Queue!Waiting(pending'[i].attempt)
      <4> SUFFICES ASSUME NEW i \in DOMAIN Without(pending, r)
                   PROVE  e[Without(pending, r)[i].run] = Queue!Waiting(Without(pending, r)[i].attempt)
        BY <1>0
      <4>1. PICK n \in DOMAIN pending : pending[n] = Without(pending, r)[i] /\ pending[n].run # r
        BY <1>3
      <4>2. e[pending[n].run] = Queue!Waiting(pending[n].attempt)
        BY <1>1, <2>3, <3>2, <4>1 DEF Tells
      <4> QED BY <4>1, <4>2
    <3>5. \A j \in others : e[j.run] = Queue!Waiting(j.attempt)
      BY <1>1, <2>3, <3>2 DEF Tells
    <3>6. \A q \in Runs : q \notin known' => e[q] = Queue!Absent
      BY <1>0, <1>1, <2>3, <2>4 DEF Tells
    <3> QED BY <1>0, <2>3, <3>3, <3>4, <3>5, <3>6 DEF Tells
  <2>6. cmd' = e
    BY <1>4, <2>5, Told
  <2>7. CASE r \in asked
    <3>1. r \in cancelled
      BY <1>0, <2>7 DEF Marks
    <3>2. e[r] = cmd[r]
      BY <2>2, <2>3, <3>1 DEF Holding
    <3>3. e = cmd
      <4>1. \A q \in Runs : e[q] = cmd[q]
        BY <2>3, <3>2
      <4>2. cmd = [q \in Runs |-> cmd[q]]
        BY DEF cmd
      <4> QED BY <2>3, <4>1, <4>2
    <3>4. asked' = asked
      BY <1>0, <2>7
    <3> QED BY <1>5, <2>6, <3>3, <3>4 DEF Promised
  <2>8. CASE r \notin asked
    <3>1. r \notin cancelled
      BY <2>8 DEF Marks
    <3>2. cmd[r].phase = "held" /\ [cmd[r] EXCEPT !.phase = "doomed"] = e[r]
      BY <2>2, <2>3, <3>1 DEF Holding
    <3>3. e = [cmd EXCEPT ![r].phase = "doomed"]
      <4>1. e = [cmd EXCEPT ![r] = e[r]]
        BY <2>3 DEF e
      <4> QED BY <3>2, <4>1
    <3>4. Queue!Cancel(r)
      BY <1>0, <2>6, <2>8, <3>2, <3>3 DEF Queue!Cancel, cmd
    <3> QED BY <1>5, <3>4 DEF Promised, Queue!Next
  <2> QED BY <2>7, <2>8
<1> QED BY <1>6, <1>7

LEMMA LeasePromise ==
  ASSUME QueueInv, Marks, NEW w \in Workers, Lease(w)
  PROVE  Marks' /\ Promised
<1> DEFINE due   == pending \o Returned
           free  == {i \in DOMAIN due : due[i].run \notin cancelled \ Dropped}
           first == IF free = {} THEN Len(due) + 1 ELSE Min(free)
           id    == issued + 1
           lease == [run |-> due[first].run, attempt |-> due[first].attempt, renewed |-> 0]
           new   == [worker |-> w, pc |-> "handling", lease |-> lease, lost |-> FALSE]
           kn    == known \ Dropped
           cn    == cancelled \ Dropped
           f     == Queue!Reclaimed(Expired)
<1>0. /\ known' = kn \ {due[i].run : i \in 1 .. first - 1}
      /\ pending' = SubSeq(due, first + 1, Len(due)) /\ delayed' = delayed
      /\ cancelled' = cn
      /\ free = {} => leased' = Alive /\ task' = task
      /\ free # {} => leased' = Put(Alive, id, lease) /\ task' = Put(task, id, new)
      /\ asked' = asked /\ env' = env
  BY DEF Lease
<1>1. /\ OneEach(due, delayed, Alive, kn) /\ DOMAIN Alive \subseteq 1 .. issued
      /\ Tells(f, due, delayed, Alive, kn, cn) /\ Expired \in SUBSET Queue!Leased
      /\ issued \in Nat /\ DOMAIN leased \subseteq 1 .. issued
  BY Reclaims, ReclaimTells, QueueInvParts DEF Rest
<1>2. due \in Seq(Job) /\ DOMAIN due = 1 .. Len(due) /\ Len(due) \in Nat
  BY <1>1 DEF OneEach
<1>3. free = DOMAIN due
  BY ReclaimMarks
<1>m. /\ \A r \in cn : r \in asked /\ \E l \in DOMAIN Alive : Alive[l].run = r
      /\ \A r \in asked : r \in kn => r \in cn
  BY ReclaimMarks
<1> HIDE DEF due, kn, cn, free, f
<1>4. CASE Len(due) = 0
  <2>1. free = {} /\ first = 1
    BY <1>2, <1>3, <1>4
  <2>2. pending' = due
    <3>1. pending' = <<>>
      BY <1>0, <1>2, <1>4, <2>1, SubSeqEmpty
    <3>2. due = <<>>
      BY <1>2, <1>4
    <3> QED BY <3>1, <3>2
  <2>3. known' = kn
    BY <1>0, <2>1
  <2>4. cmd' = f
    <3>1. Tells(f, pending', delayed', leased', known', cancelled')
      BY <1>0, <1>1, <2>1, <2>2, <2>3
    <3> QED BY <3>1, LeaseInv, Told
  <2>5. Promised
    BY <1>0, <1>1, <2>4, PromisedGiveBack DEF f
  <2>6. Marks'
    BY <1>0, <1>m, <2>1, <2>3 DEF Marks, cn
  <2> QED BY <2>5, <2>6
<1>5. CASE Len(due) # 0
  <2>1. first = 1 /\ free # {}
    <3>1. free \in SUBSET Nat /\ 1 \in free /\ \A i \in free : 1 <= i
      BY <1>2, <1>3, <1>5
    <3>2. Min(free) \in free /\ Min(free) <= 1
      BY <3>1, MinOf
    <3>3. Min(free) \in Nat /\ 1 <= Min(free)
      BY <3>1, <3>2
    <3>4. first = Min(free)
      BY <3>1
    <3> HIDE DEF first
    <3>5. first = 1
      BY <3>2, <3>3, <3>4
    <3> QED BY <3>1, <3>5
  <2> HIDE DEF first
  <2> DEFINE r == due[1].run
             n == due[1].attempt
             e == [f EXCEPT ![r] = Holding(cn, r, id, n)]
  <2>2. 1 \in DOMAIN due /\ due[1] \in Job /\ r \in Runs /\ r \notin cn /\ r \in kn
    <3>1. 1 \in DOMAIN due
      BY <1>2, <1>5
    <3>2. due[1] \in Job /\ r \in Runs /\ r \in kn
      BY <1>1, <3>1, CommandsRuns
    <3> QED BY <1>3, <3>1, <3>2 DEF free, cn
  <2>3. lease.run = r /\ lease.attempt = n
    BY <2>1
  <2> HIDE DEF lease
  <2>4. known' = kn
    BY <1>0, <2>1
  <2>5. DOMAIN leased' = DOMAIN Alive \cup {id} /\ leased'[id] = lease
        /\ \A l \in DOMAIN Alive : leased'[l] = Alive[l] /\ l # id
    BY <1>0, <1>1, <2>1 DEF Put
  <2>6. \A i \in DOMAIN pending' : i + 1 \in DOMAIN due /\ i + 1 # 1 /\ pending'[i] = due[i + 1]
    <3>1. \A i \in 2 .. Len(due) : due[i] \in Job
      BY <1>2
    <3>2. /\ pending' \in Seq(Job) /\ Len(pending') = IF 2 <= Len(due) THEN Len(due) - 2 + 1 ELSE 0
          /\ \A i \in 1 .. Len(due) - 2 + 1 : pending'[i] = due[2 + i - 1]
      BY <1>0, <1>2, <2>1, <3>1, SubSeqProperties
    <3>3. Len(pending') = Len(due) - 1
      <4>1. Len(pending') = IF 2 <= Len(due) THEN Len(due) - 2 + 1 ELSE 0
        BY <3>2
      <4>2. CASE 2 <= Len(due)
        BY <1>2, <4>1, <4>2
      <4>3. CASE ~(2 <= Len(due))
        <5>1. Len(due) = 1
          BY <1>2, <1>5, <4>3
        <5> QED BY <4>1, <4>3, <5>1
      <4> QED BY <4>2, <4>3
    <3>4. DOMAIN pending' = 1 .. Len(due) - 1
      BY <3>2, <3>3
    <3> SUFFICES ASSUME NEW i \in 1 .. Len(due) - 1
                 PROVE  i + 1 \in DOMAIN due /\ i + 1 # 1 /\ pending'[i] = due[i + 1]
      BY <3>4
    <3>5. i \in 1 .. Len(due) - 2 + 1 /\ 2 + i - 1 = i + 1
      BY <1>2
    <3>6. pending'[i] = due[2 + i - 1]
      BY <3>2, <3>5
    <3>7. pending'[i] = due[i + 1]
      BY <3>5, <3>6
    <3> QED BY <1>2, <3>7
  <2>7. /\ f[r] = Queue!Waiting(n)
        /\ e = [q \in Runs |-> e[q]] /\ e[r] = Holding(cn, r, id, n)
        /\ \A q \in Runs : q # r => e[q] = f[q]
    <3>1. f[r] = Queue!Waiting(n) /\ f = [q \in Runs |-> f[q]]
      BY <1>1, <2>2 DEF Tells
    <3> QED BY <2>2, <3>1
  <2>8. e = [f EXCEPT ![r] = [phase |-> "held", lease |-> id, attempt |-> n]]
    BY <2>2 DEF Holding
  <2> HIDE DEF e
  <2>9. cmd' = e
    <3>1. \A i \in DOMAIN pending' : e[pending'[i].run] = Queue!Waiting(pending'[i].attempt)
      <4> SUFFICES ASSUME NEW i \in DOMAIN pending'
                   PROVE  e[pending'[i].run] = Queue!Waiting(pending'[i].attempt)
        OBVIOUS
      <4>1. due[i + 1].run # r /\ due[i + 1].run \in Runs
        <5>1. i + 1 \in DOMAIN due /\ i + 1 # 1
          BY <2>6
        <5>2. due[i + 1].run # due[1].run
          BY <1>1, <2>2, <5>1 DEF OneEach
        <5>3. due[i + 1].run \in Runs
          BY <1>1, <5>1, CommandsRuns
        <5> QED BY <5>2, <5>3
      <4> QED BY <1>1, <2>6, <2>7, <4>1 DEF Tells
    <3>2. \A j \in delayed : e[j.run] = Queue!Waiting(j.attempt)
      <4>1. \A j \in delayed : j.run # r /\ j.run \in Runs
        <5>1. \A j \in delayed : due[1].run # j.run
          BY <1>1, <2>2 DEF OneEach
        <5>2. \A j \in delayed : j.run \in Runs
          BY <1>1, CommandsRuns
        <5> QED BY <5>1, <5>2
      <4> QED BY <1>1, <2>7, <4>1 DEF Tells
    <3>3. \A l \in DOMAIN leased' : e[leased'[l].run] = Holding(cn, leased'[l].run, l, leased'[l].attempt)
      <4>1. \A l \in DOMAIN Alive : Alive[l].run # r /\ Alive[l].run \in Runs
        <5>1. \A l \in DOMAIN Alive : due[1].run # Alive[l].run
          BY <1>1, <2>2 DEF OneEach
        <5>2. \A l \in DOMAIN Alive : Alive[l].run \in Runs
          BY <1>1, CommandsRuns
        <5> QED BY <5>1, <5>2
      <4> QED BY <1>1, <2>3, <2>5, <2>7, <4>1 DEF Tells
    <3>4. \A q \in Runs : q \notin kn => e[q] = Queue!Absent
      BY <1>1, <2>2, <2>7 DEF Tells
    <3>5. Tells(e, pending', delayed', leased', known', cancelled')
      BY <1>0, <2>4, <2>7, <3>1, <3>2, <3>3, <3>4 DEF Tells
    <3> QED BY <3>5, LeaseInv, Told
  <2>10. \A q \in Runs : cmd[q].lease # id
    <3> SUFFICES ASSUME NEW q \in Runs PROVE cmd[q].lease # id
      OBVIOUS
    <3>1. OneEach(pending, delayed, leased, known) /\ Tells(cmd, pending, delayed, leased, known, cancelled)
      BY WhereTells DEF QueueInv
    <3>2. id # 0 /\ id \notin DOMAIN leased
      BY <1>1
    <3>3. CASE \E l \in DOMAIN leased : leased[l].run = q
      <4>1. PICK l \in DOMAIN leased : leased[l].run = q
        BY <3>3
      <4>2. cmd[q] = Holding(cancelled, q, l, leased[l].attempt)
        BY <3>1, <4>1 DEF Tells
      <4>3. cmd[q].lease = l
        BY <4>2 DEF Holding
      <4> QED BY <3>2, <4>1, <4>3
    <3>4. CASE q \notin known
      BY <3>1, <3>2, <3>4 DEF Tells, Queue!Absent
    <3>5. CASE (\E i \in DOMAIN pending : pending[i].run = q) \/ (\E j \in delayed : j.run = q)
      <4>1. \E x : cmd[q] = Queue!Waiting(x)
        BY <3>1, <3>5 DEF Tells
      <4> QED BY <3>2, <4>1 DEF Queue!Waiting
    <3> QED BY <3>1, <3>3, <3>4, <3>5 DEF OneEach
  <2>11. Queue!Lease(Expired, r)
    <3>1. f[r].phase = "waiting" /\ f[r].attempt = n
      BY <2>7 DEF Queue!Waiting
    <3>2. cmd'[r].lease = id /\ id # 0
      BY <1>1, <2>7, <2>9 DEF Holding
    <3>3. cmd' = [f EXCEPT ![r] = [phase |-> "held", lease |-> cmd'[r].lease, attempt |-> f[r].attempt]]
      BY <2>8, <2>9, <3>1, <3>2
    <3> HIDE DEF r, id
    <3> QED BY <1>0, <2>10, <3>1, <3>2, <3>3 DEF Queue!Lease, cmd, f
  <2>12. Promised
    BY <1>1, <2>2, <2>11 DEF Promised, Queue!Next
  <2>13. Marks'
    <3>1. \A q \in cancelled' : \E l \in DOMAIN leased' : leased'[l].run = q
      BY <1>0, <1>m, <2>5
    <3>2. "raise" \notin env => \A l \in DOMAIN task' : task'[l].pc # "release"
      BY <1>0, <2>1 DEF Marks, Put
    <3> QED BY <1>0, <1>m, <2>4, <3>1, <3>2 DEF Marks, cn
  <2> QED BY <2>12, <2>13
<1> QED BY <1>4, <1>5

\* An operation that only takes the expired commands back.
LEMMA GiveBackPromise ==
  ASSUME QueueInv, Marks, QueueInv', env' = env, asked' = asked,
         cancelled' = cancelled \ Dropped, known' = known \ Dropped,
         pending' = pending \o Returned, delayed' = delayed,
         \/ leased' = Alive
         \/ \E l \in DOMAIN Alive : \E v :
              v.run = Alive[l].run /\ v.attempt = Alive[l].attempt /\ leased' = [Alive EXCEPT ![l] = v],
         "raise" \notin env => \A l \in DOMAIN task' : task'[l].pc # "release"
  PROVE  Marks' /\ Promised
<1> DEFINE due == pending \o Returned
           kn  == known \ Dropped
           cn  == cancelled \ Dropped
           f   == Queue!Reclaimed(Expired)
<1>1. /\ OneEach(due, delayed, Alive, kn) /\ Tells(f, due, delayed, Alive, kn, cn)
      /\ Expired \in SUBSET Queue!Leased
  BY Reclaims, ReclaimTells
<1>2. /\ \A r \in cn : r \in asked /\ \E l \in DOMAIN Alive : Alive[l].run = r
      /\ \A r \in asked : r \in kn => r \in cn
  BY ReclaimMarks
<1>3. cancelled' = cn /\ known' = kn /\ pending' = due
  OBVIOUS
<1> HIDE DEF due, kn, cn, f
<1>4. Tells(f, due, delayed, leased', kn, cn)
  <2>1. CASE leased' = Alive
    BY <1>1, <2>1
  <2>2. CASE \E l \in DOMAIN Alive : \E v :
               v.run = Alive[l].run /\ v.attempt = Alive[l].attempt /\ leased' = [Alive EXCEPT ![l] = v]
    <3>1. PICK l \in DOMAIN Alive : \E v :
               v.run = Alive[l].run /\ v.attempt = Alive[l].attempt /\ leased' = [Alive EXCEPT ![l] = v]
      BY <2>2
    <3>2. PICK v :
               v.run = Alive[l].run /\ v.attempt = Alive[l].attempt /\ leased' = [Alive EXCEPT ![l] = v]
      BY <3>1
    <3> QED BY <1>1, <3>2, TellsRegrant
  <2> QED BY <2>1, <2>2
<1>5. cmd' = f
  BY <1>3, <1>4, Told
<1>6. Promised
  BY <1>1, <1>5, PromisedGiveBack DEF f
<1>7. \A r \in cn : \E l \in DOMAIN leased' : leased'[l].run = r
  BY <1>2
<1>8. Marks'
  <2>1. "cancel" \notin env => cn = {} /\ asked = {}
    BY DEF Marks, cn
  <2>2. env \in Envs
    BY DEF Marks
  <2> QED BY <1>2, <1>3, <1>7, <2>1, <2>2 DEF Marks
<1> QED BY <1>6, <1>8

\* A task that ended leaves the others as they are.
LEMMA LeaveMarks ==
  ASSUME Marks, NEW l \in DOMAIN task, Leave(l), "raise" \notin env
  PROVE  \A x \in DOMAIN task' : task'[x].pc # "release"
BY DEF Marks, Leave, Restrict

LEMMA AcknowledgePromise ==
  ASSUME QueueInv, Marks, NEW l \in DOMAIN task, Acknowledge(l)
  PROVE  Marks' /\ Promised
<1>0. /\ Leave(l) /\ env' = env /\ asked' = asked /\ delayed' = delayed
      /\ pending' = pending \o Returned
  BY DEF Acknowledge
<1>1. QueueInv'
  BY AcknowledgeInv
<1>2. "raise" \notin env => \A x \in DOMAIN task' : task'[x].pc # "release"
  BY <1>0, LeaveMarks
<1>3. CASE ~IsCurrent(l)
  <2>1. leased' = Alive /\ known' = known \ Dropped /\ cancelled' = cancelled \ Dropped
    BY <1>3 DEF Acknowledge
  <2> QED BY <1>0, <1>1, <1>2, <2>1, GiveBackPromise
<1>4. CASE IsCurrent(l)
  <2> DEFINE due == pending \o Returned
             kn  == known \ Dropped
             cn  == cancelled \ Dropped
             f   == Queue!Reclaimed(Expired)
             y   == Alive[l].run
             e   == [f EXCEPT ![y] = Queue!Absent]
  <2>1. /\ l \in DOMAIN Alive /\ Alive[l] = task[l].lease /\ leased[l] = task[l].lease
        /\ l \in DOMAIN leased /\ l \notin lapsed
    BY <1>4, CurrentLease
  <2>2. /\ leased' = Restrict(Alive, DOMAIN Alive \ {l}) /\ known' = kn \ {y} /\ cancelled' = cn \ {y}
        /\ pending' = due
    BY <1>4, <2>1 DEF Acknowledge
  <2>3. /\ OneEach(due, delayed, Alive, kn) /\ Tells(f, due, delayed, Alive, kn, cn)
        /\ Expired \in SUBSET Queue!Leased
    BY Reclaims, ReclaimTells
  <2>4. /\ \A r \in cn : r \in asked /\ \E x \in DOMAIN Alive : Alive[x].run = r
        /\ \A r \in asked : r \in kn => r \in cn
    BY ReclaimMarks
  <2>5. y \in Runs
    BY <2>1, <2>3, CommandsRuns
  <2>6. /\ e = [r \in Runs |-> e[r]] /\ e[y] = Queue!Absent
        /\ \A r \in Runs : r # y => e[r] = f[r]
    <3>1. f = [r \in Runs |-> f[r]]
      BY <2>3 DEF Tells
    <3> QED BY <2>5, <3>1
  <2> HIDE DEF due, kn, cn, f, e
  <2>7. cmd' = e
    <3>1. \A r : r # Alive[l].run => (r \in cn \ {Alive[l].run} <=> r \in cn)
      OBVIOUS
    <3>2. \A r \in Runs : r # Alive[l].run => e[r] = f[r]
      BY <2>6
    <3>3. e[Alive[l].run] = Queue!Absent
      BY <2>6
    <3>4. Tells(e, due, delayed, Restrict(Alive, DOMAIN Alive \ {l}), kn \ {Alive[l].run}, cn \ {Alive[l].run})
      BY ZenonT(30), <2>1, <2>3, <2>6, <3>1, <3>2, <3>3, TellsUngrant
    <3>5. Tells(e, pending', delayed', leased', known', cancelled')
      BY <1>0, <2>2, <3>4
    <3> QED BY <1>1, <3>5, Told
  <2>8. y \in Queue!Leased \ Expired
    <3>1. Tells(cmd, pending, delayed, leased, known, cancelled) /\ OneEach(pending, delayed, leased, known)
      BY WhereTells DEF QueueInv
    <3>2. leased[l].run = y
      BY <2>1
    <3>3. cmd[y] = Holding(cancelled, y, l, leased[l].attempt)
      BY <2>1, <3>1, <3>2 DEF Tells
    <3>4. cmd[y].phase \in {"held", "doomed"}
      BY <3>3 DEF Holding
    <3>5. y \in Queue!Leased
      BY <2>5, <3>4 DEF Queue!Leased, cmd
    <3>6. ASSUME NEW x \in lapsed PROVE leased[x].run # y
      <4>1. x \in DOMAIN leased /\ x # l
        BY <2>1, QueueInvParts DEF Rest
      <4>2. leased[x].run = leased[l].run => x = l
        BY <2>1, <3>1, <4>1 DEF OneEach
      <4> QED BY <3>2, <4>1, <4>2
    <3> QED BY <3>5, <3>6 DEF Expired
  <2>9. Queue!Acknowledge(Expired, y)
    BY <1>0, <2>7, <2>8 DEF Queue!Acknowledge, cmd, e, f
  <2>10. Promised
    BY <2>3, <2>5, <2>9 DEF Promised, Queue!Next
  <2>11. Marks'
    <3>1. \A r \in cn \ {y} : \E x \in DOMAIN leased' : leased'[x].run = r
      <4> SUFFICES ASSUME NEW r \in cn, r # y PROVE \E x \in DOMAIN leased' : leased'[x].run = r
        OBVIOUS
      <4>1. PICK x \in DOMAIN Alive : Alive[x].run = r
        BY <2>4
      <4> QED BY <2>2, <4>1 DEF Restrict
    <3>2. "cancel" \notin env => cn = {} /\ asked = {}
      BY DEF Marks, cn
    <3>3. env \in Envs
      BY DEF Marks
    <3> QED BY <1>0, <1>2, <2>2, <2>4, <3>1, <3>2, <3>3 DEF Marks
  <2> QED BY <2>10, <2>11
<1> QED BY <1>3, <1>4

LEMMA ReleasePromise ==
  ASSUME MarksApart, QueueInv, Marks, NEW l \in DOMAIN task, NEW delay \in BOOLEAN, Release(l, delay)
  PROVE  Marks' /\ Promised
<1> DEFINE job  == Again(task[l].lease)
           due  == pending \o Returned
           kn   == known \ Dropped
<1>0. cancelled = {} /\ asked = {}
  <2>1. task[l].pc = "release"
    BY DEF Release
  <2>2. "raise" \in env
    BY <2>1 DEF Marks
  <2>3. "cancel" \notin env
    BY <2>2 DEF Marks, MarksApart
  <2> QED BY <2>3 DEF Marks
<1>1. /\ Leave(l) /\ env' = env /\ asked' = asked
      /\ leased' = IF IsCurrent(l) THEN Restrict(Alive, DOMAIN Alive \ {l}) ELSE Alive
      /\ known' = kn /\ cancelled' = cancelled \ Dropped
      /\ pending' = due \o (IF IsCurrent(l) /\ ~delay THEN <<job>> ELSE <<>>)
      /\ delayed' = delayed \cup (IF IsCurrent(l) /\ delay THEN {job} ELSE {})
  BY <1>0 DEF Release
<1>2. QueueInv'
  BY ReleaseInv
<1>3. "raise" \notin env => \A x \in DOMAIN task' : task'[x].pc # "release"
  BY <1>1, LeaveMarks
<1>4. /\ OneEach(due, delayed, Alive, kn)
      /\ Tells(Queue!Reclaimed(Expired), due, delayed, Alive, kn, cancelled \ Dropped)
      /\ Expired \in SUBSET Queue!Leased
  BY Reclaims, ReclaimTells
<1>5. due \in Seq(Job) /\ due \o <<>> = due
  <2>1. due \in Seq(Job)
    BY <1>4 DEF OneEach
  <2> QED BY <2>1, ConcatEmptySeq
<1>6. CASE ~IsCurrent(l)
  <2>1. leased' = Alive /\ pending' = due /\ delayed' = delayed
    BY <1>1, <1>5, <1>6
  <2> QED BY <1>1, <1>2, <1>3, <2>1, GiveBackPromise
<1>7. CASE IsCurrent(l)
  <2> DEFINE f == Queue!Reclaimed(Expired)
             y == Alive[l].run
             g == Restrict(Alive, DOMAIN Alive \ {l})
             a == [f EXCEPT ![y] = Queue!Absent]
             e == Queue!Reclaimed(Expired \cup {y})
  <2>1. /\ l \in DOMAIN Alive /\ Alive[l] = task[l].lease /\ leased[l] = task[l].lease
        /\ l \in DOMAIN leased /\ l \notin lapsed
    BY <1>7, CurrentLease
  <2>2. task[l].lease \in QueueLease
    BY TaskFields, QueueInvParts DEF Rest
  <2>3. job \in Job /\ job.run = y /\ job.attempt = leased[l].attempt + 1
    BY <2>1, <2>2, AgainJob DEF Again
  <2>4. y \in Runs /\ y \in kn
    BY <1>4, <2>1, CommandsRuns
  <2>5. /\ a = [r \in Runs |-> a[r]] /\ a[y] = Queue!Absent
        /\ \A r \in Runs : r # y => a[r] = f[r]
    <3>1. f = [r \in Runs |-> f[r]]
      BY <1>4 DEF Tells
    <3> QED BY <2>4, <3>1
  <2>6. cmd[y] = Holding({}, y, l, leased[l].attempt)
    <3>1. Tells(cmd, pending, delayed, leased, known, cancelled)
      BY WhereTells
    <3> QED BY <1>0, <2>1, <3>1 DEF Tells
  <2>7. cmd[y].phase = "held" /\ Queue!GivenBack(cmd[y]) = Queue!Waiting(leased[l].attempt + 1)
    BY <2>6 DEF Holding, Queue!GivenBack
  <2>8. /\ e = [r \in Runs |-> e[r]] /\ e[y] = Queue!Waiting(leased[l].attempt + 1)
        /\ \A r \in Runs : r # y => e[r] = a[r]
    <3>1. /\ f = [r \in Runs |-> IF r \in Expired THEN Queue!GivenBack(cmd[r]) ELSE cmd[r]]
          /\ e = [r \in Runs |-> IF r \in Expired \cup {y} THEN Queue!GivenBack(cmd[r]) ELSE cmd[r]]
      BY ReclaimedFun
    <3> HIDE DEF e, f, a
    <3> QED BY <2>4, <2>5, <2>7, <3>1
  <2> HIDE DEF a, e, f, job, kn
  <2>9. OneEach(due, delayed, g, kn \ {job.run})
    <3>1. OneEach(due, delayed, Restrict(Alive, DOMAIN Alive \ {l}), kn \ {Alive[l].run})
      BY <1>4, <2>1, UngrantOne
    <3> QED BY <2>3, <3>1
  <2>10. Tells(a, due, delayed, g, kn \ {job.run}, cancelled \ Dropped)
    <3>1. Tells(f, due, delayed, Alive, kn, cancelled \ Dropped)
      BY <1>4 DEF f
    <3>2. \A r \in Runs : r # Alive[l].run => a[r] = f[r]
      BY <2>5
    <3>3. a[Alive[l].run] = Queue!Absent
      BY <2>5
    <3>4. Tells(a, due, delayed, Restrict(Alive, DOMAIN Alive \ {l}), kn \ {Alive[l].run}, cancelled \ Dropped)
      BY ZenonT(30), <1>4, <2>1, <2>5, <3>1, <3>2, <3>3, TellsUngrant
    <3> QED BY <2>3, <3>4
  <2>11. job.run \notin kn \ {job.run} /\ (kn \ {job.run}) \cup {job.run} = kn
    BY <2>3, <2>4
  <2>12. /\ \A r \in Runs : r # job.run => e[r] = a[r]
         /\ e[job.run] = Queue!Waiting(job.attempt)
    BY <2>3, <2>8
  <2>13. leased' = g
    BY <1>1, <1>7
  <2>14. Tells(e, pending', delayed', leased', known', cancelled')
    <3>1. CASE delay
      <4>1. pending' = due /\ delayed' = delayed \cup {job}
        BY <1>1, <1>5, <1>7, <3>1
      <4>2. Tells(e, due, delayed \cup {job}, g, (kn \ {job.run}) \cup {job.run}, cancelled \ Dropped)
        BY <2>3, <2>8, <2>9, <2>10, <2>11, <2>12, TellsDelay
      <4> QED BY <1>1, <2>11, <2>13, <4>1, <4>2
    <3>2. CASE ~delay
      <4>1. pending' = Append(due, job) /\ delayed' = delayed
        <5>1. due \o <<job>> = Append(due, job)
          BY <1>5, <2>3
        <5> QED BY <1>1, <1>7, <3>2, <5>1
      <4>2. Tells(e, Append(due, job), delayed, g, (kn \ {job.run}) \cup {job.run}, cancelled \ Dropped)
        BY <2>3, <2>8, <2>9, <2>10, <2>11, <2>12, TellsPush
      <4> QED BY <1>1, <2>11, <2>13, <4>1, <4>2
    <3> QED BY <3>1, <3>2
  <2>15. cmd' = e
    BY <1>2, <2>14, Told
  <2>16. Expired \cup {y} \in SUBSET Queue!Leased
    <3>1. y \in Queue!Leased
      BY <2>4, <2>7 DEF Queue!Leased, cmd
    <3> QED BY <1>4, <3>1
  <2>17. Promised
    BY <1>1, <2>15, <2>16, PromisedGiveBack DEF e
  <2>18. Marks'
    <3>1. env \in Envs
      BY DEF Marks
    <3>2. cancelled' = {} /\ asked' = {}
      BY <1>0, <1>1
    <3> QED BY <1>1, <1>3, <3>1, <3>2 DEF Marks
  <2> QED BY <2>17, <2>18
<1> QED BY <1>6, <1>7

LEMMA RenewPromise ==
  ASSUME QueueInv, Marks, NEW l \in DOMAIN task, Renew(l)
  PROVE  Marks' /\ Promised
<1> DEFINE v == [task[l].lease EXCEPT !.renewed = @ + 1]
<1>0. /\ env' = env /\ asked' = asked /\ delayed' = delayed /\ pending' = pending \o Returned
      /\ known' = known \ Dropped /\ cancelled' = cancelled \ Dropped
  BY DEF Renew
<1>1. QueueInv'
  BY RenewInv
<1>2. /\ task[l] \in Tasks /\ task[l].lease \in QueueLease
      /\ v.run = task[l].lease.run /\ v.attempt = task[l].lease.attempt
  <2>1. task[l] \in Tasks
    BY QueueInvParts DEF Rest
  <2> QED BY <2>1, TaskFields, RenewedLease
<1>3. \A x \in DOMAIN task' : x \in DOMAIN task /\ task'[x].pc = task[x].pc
  <2>1. task' = [task EXCEPT ![l].lease = v] \/ task' = [task EXCEPT ![l].lost = TRUE]
    BY DEF Renew
  <2> HIDE DEF v
  <2>2. task[l] = [worker |-> task[l].worker, pc |-> task[l].pc, lease |-> task[l].lease, lost |-> task[l].lost]
    BY <1>2 DEF Tasks
  <2> QED BY <2>1, <2>2
<1>4. "raise" \notin env => \A x \in DOMAIN task' : task'[x].pc # "release"
  BY <1>3 DEF Marks
<1>5. CASE IsCurrent(l)
  <2>1. leased' = [Alive EXCEPT ![l] = v]
    BY <1>5 DEF Renew
  <2>2. l \in DOMAIN Alive /\ Alive[l] = task[l].lease
    BY <1>5, CurrentLease
  <2>3. \E x \in DOMAIN Alive : \E u :
           u.run = Alive[x].run /\ u.attempt = Alive[x].attempt /\ leased' = [Alive EXCEPT ![x] = u]
    <3> HIDE DEF v
    <3> QED BY <1>2, <2>1, <2>2
  <2> QED BY <1>0, <1>1, <1>4, <2>3, GiveBackPromise
<1>6. CASE ~IsCurrent(l)
  <2>1. leased' = Alive
    BY <1>6 DEF Renew
  <2> QED BY <1>0, <1>1, <1>4, <2>1, GiveBackPromise
<1> QED BY <1>5, <1>6

LEMMA DuePromise ==
  ASSUME QueueInv, Marks, NEW j \in delayed, Due(j)
  PROVE  Marks' /\ Promised
<1>0. /\ pending' = Append(pending, j) /\ delayed' = delayed \ {j}
      /\ UNCHANGED <<env, leased, known, cancelled, task, asked>>
  BY DEF Due, worker
<1>1. OneEach(pending, delayed, leased, known) /\ Tells(cmd, pending, delayed, leased, known, cancelled)
  BY WhereTells DEF QueueInv
<1>2. j \in Job /\ j.run \in Runs /\ cmd[j.run] = Queue!Waiting(j.attempt)
  <2>1. j \in Job /\ j.run \in Runs
    BY <1>1, CommandsRuns
  <2> QED BY <1>1, <2>1 DEF Tells
<1>3. \A i \in DOMAIN pending' : (i \in DOMAIN pending /\ pending'[i] = pending[i]) \/ pending'[i] = j
  <2>1. pending \in Seq(Job) /\ DOMAIN pending = 1 .. Len(pending) /\ Len(pending) \in Nat
    BY <1>1 DEF OneEach
  <2> QED BY <1>0, <1>2, <2>1
<1>4. Tells(cmd, pending', delayed', leased', known', cancelled')
  <2>1. \A i \in DOMAIN pending' : cmd[pending'[i].run] = Queue!Waiting(pending'[i].attempt)
    BY <1>1, <1>2, <1>3 DEF Tells
  <2> QED BY <1>0, <1>1, <2>1 DEF Tells
<1>5. cmd' = cmd
  BY <1>4, DueInv, Told
<1> QED BY <1>0, <1>5 DEF Marks, Promised

\* The steps that move no command are stutters of the abstract queue.
LEMMA StillPromise ==
  ASSUME QueueInv, Marks, UNCHANGED <<env, pending, delayed, leased, known, cancelled, asked>>,
         "raise" \notin env => \A x \in DOMAIN task' : task'[x].pc # "release"
  PROVE  Marks' /\ Promised
<1>1. cmd' = cmd
  BY DEF cmd, Where
<1> QED BY <1>1 DEF Marks, Promised

LEMMA WorkerPromise ==
  ASSUME QueueInv, Marks, NEW w \in Workers, Poll(w) \/ Stopped(w) \/ RequestStop(w) \/ Abort(w)
  PROVE  Marks' /\ Promised
<1>1. UNCHANGED <<env, pending, delayed, leased, known, cancelled, asked>>
  BY DEF Poll, Stopped, RequestStop, Abort, queue
<1>2. \A x \in DOMAIN task' : x \in DOMAIN task /\ task'[x] = task[x]
  BY DEF Poll, Stopped, RequestStop, Abort, queue, Restrict
<1> QED BY <1>1, <1>2, StillPromise DEF Marks

LEMMA HandlerPromise ==
  ASSUME QueueInv, Marks, NEW l \in DOMAIN task, HandlerReturns(l) \/ HandlerRaises(l)
  PROVE  Marks' /\ Promised
<1>1. UNCHANGED <<env, pending, delayed, leased, known, cancelled, asked>>
  BY DEF HandlerReturns, HandlerRaises, queue
<1>2. task[l] \in Tasks
  BY QueueInvParts DEF Rest
<1>3. "raise" \notin env => \A x \in DOMAIN task' : task'[x].pc # "release"
  <2> SUFFICES ASSUME "raise" \notin env, NEW x \in DOMAIN task' PROVE task'[x].pc # "release"
    OBVIOUS
  <2>1. task' = [task EXCEPT ![l].pc = "acknowledge"]
    BY DEF HandlerReturns, HandlerRaises
  <2>2. [task[l] EXCEPT !.pc = "acknowledge"].pc = "acknowledge"
    BY <1>2 DEF Tasks
  <2>3. x \in DOMAIN task /\ (x # l => task'[x] = task[x]) /\ (x = l => task'[x].pc = "acknowledge")
    BY <2>1, <2>2
  <2> QED BY <2>3 DEF Marks
<1> QED BY <1>1, <1>3, StillPromise

LEMMA LapsePromise ==
  ASSUME QueueInv, Marks, NEW l \in DOMAIN leased, LapseOrphan(l) \/ LapseHeld(l)
  PROVE  Marks' /\ Promised
<1>1. UNCHANGED <<env, pending, delayed, leased, known, cancelled, asked, task>>
  BY DEF LapseOrphan, LapseHeld, worker
<1> QED BY <1>1, StillPromise DEF Marks

LEMMA PromiseStep ==
  ASSUME MarksApart, QueueInv, Marks, [Next]_vars
  PROVE  Marks' /\ Promised
<1>1. CASE UNCHANGED vars
  BY <1>1, StillPromise DEF vars, queue, worker, Marks
<1>2. CASE \E r \in Runs : Enqueue(r) \/ Cancel(r)
  BY <1>2, EnqueuePromise, CancelPromise
<1>3. CASE \E w \in Workers : WorkerStep(w) \/ RequestStop(w) \/ Abort(w)
  BY <1>3, WorkerPromise, LeasePromise DEF WorkerStep
<1>4. CASE \E l \in DOMAIN task : TaskStep(l)
  BY <1>4, HandlerPromise, RenewPromise, AcknowledgePromise, ReleasePromise DEF TaskStep
<1>5. CASE Time
  BY <1>5, LapsePromise, DuePromise DEF Time
<1> QED BY <1>1, <1>2, <1>3, <1>4, <1>5 DEF Next

LEMMA PromiseInit == Init => Marks /\ Queue!Init
<1> SUFFICES ASSUME Init PROVE Marks /\ Queue!Init
  OBVIOUS
<1>1. Marks
  BY DEF Init, Marks
<1>2. \A r \in Runs : Where(r) = Queue!Absent
  BY DEF Init, Where, Queue!Absent
<1>3. cmd = [r \in Runs |-> Queue!Absent]
  BY <1>2 DEF cmd
<1> QED BY <1>1, <1>3 DEF Queue!Init, cmd, Init

\* The backend implements the lease queue (KeepsPromise): whatever the workers,
\* aborts and lapsing leases do, an accepted command is dropped only by an
\* acknowledgement of its holder or a cancellation, and comes back with its
\* delivery count increased (InMemoryQueueBackend).  Where cancellations and
\* failing handlers meet, a released command leaves its mark behind
\* (_cancelled_runs); MarksApart sets that case aside.
THEOREM PromiseKept ==
  ASSUME MarksApart
  PROVE  Spec => KeepsPromise
<1>1. Init => QueueInv /\ Marks /\ Queue!Init
  BY QueueInvInit, PromiseInit
<1>2. QueueInv /\ Marks /\ [Next]_vars => QueueInv' /\ Marks' /\ [Queue!Next]_(Queue!vars)
  <2> SUFFICES ASSUME QueueInv, Marks, [Next]_vars
               PROVE  QueueInv' /\ Marks' /\ [Queue!Next]_(Queue!vars)
    OBVIOUS
  <2>1. QueueInv'
    BY QueueInvStep
  <2>2. Marks' /\ Promised
    BY PromiseStep
  <2>3. [Queue!Next]_(Queue!vars)
    BY <2>2 DEF Promised, Queue!vars, cmd
  <2> QED BY <2>1, <2>2, <2>3
<1> QED BY <1>1, <1>2, PTL DEF Spec, KeepsPromise, Queue!Spec
=============================================================================
