----------------------------- MODULE RedisQueue -----------------------------
(***************************************************************************)
(* The Lua scripts of RedisQueueBackend (matterloop_integration_redis/     *)
(* queue.py).  A script is atomic, so each is a function from the keys of  *)
(* the queue to the keys it leaves.  The clock is the caller's: what is    *)
(* due and which leases are past their expiry are arguments of lease, the  *)
(* only script that looks.                                                 *)
(***************************************************************************)
EXTENDS Naturals, FiniteSets, SequencesExt

\* The keys <prefix>:queue:*, and the number of lease_ids used so far.
NoKeys ==
  [pending |-> <<>>,     \* run_ids, first in first out
   delayed |-> {},       \* run_ids that are not due yet
   jobs |-> <<>>,        \* run_id -> command
   attempts |-> <<>>,    \* run_id -> delivery count
   leases |-> <<>>,      \* lease_id -> run_id (lease-expiry has the same lease_ids)
   runLeases |-> <<>>,   \* run_id -> lease_id
   cancelled |-> {},     \* run_ids
   issued |-> 0]

Del(f, S) == Restrict(f, DOMAIN f \ S)
Put(f, k, v) == [x \in DOMAIN f \cup {k} |-> IF x = k THEN v ELSE f[x]]

\* The k-th smallest element of a finite set of numbers.
Nth(S, k) == CHOOSE i \in S : Cardinality({j \in S : j =< i}) = k

Descending(S) == [k \in 1 .. Cardinality(S) |-> Nth(S, Cardinality(S) + 1 - k)]

\* What LREM with a count of 0 leaves of a list.
Without(s, r) ==
  LET kept == {i \in DOMAIN s : s[i] # r}
  IN [k \in 1 .. Cardinality(kept) |-> s[Nth(kept, k)]]

\* What HDEL of jobs and attempts and SREM of cancelled leave of a run.
Forget(q, S) ==
  [q EXCEPT !.jobs = Del(@, S), !.attempts = Del(@, S), !.cancelled = @ \ S]

EnqueueAccepts(q, r) == r \notin DOMAIN q.jobs

EnqueueScript(q, r, action) ==
  [q EXCEPT !.jobs = Put(@, r, action), !.attempts = Put(@, r, 1),
            !.cancelled = @ \ {r}, !.pending = Append(@, r)]

RunsOf(q, late) == {q.leases[l] : l \in late}

\* The runs whose command comes back, the lease that expired last in front.
Returning(q, late) ==
  LET ids == Descending({l \in late : q.leases[l] \notin q.cancelled})
  IN [i \in DOMAIN ids |-> q.leases[ids[i]]]

\* Mutant: the delivery count of a reclaimed command is not increased.
ReclaimUncounted(q, late) ==
  LET gone == [q EXCEPT !.leases = Del(@, late), !.runLeases = Del(@, RunsOf(q, late))]
      back == Returning(q, late)
  IN [Forget(gone, RunsOf(q, late) \cap q.cancelled) EXCEPT
        !.pending = back \o @]

\* The expired leases go; their commands go to the front, or away if cancelled.
Reclaim(q, late) ==
  LET gone == [q EXCEPT !.leases = Del(@, late), !.runLeases = Del(@, RunsOf(q, late))]
      back == Returning(q, late)
  IN [Forget(gone, RunsOf(q, late) \cap q.cancelled) EXCEPT
        !.pending = back \o @,
        !.attempts = [r \in DOMAIN @ |-> IF r \in ToSet(back) THEN @[r] + 1 ELSE @[r]]]

\* The due commands join the queue, the expired ones are taken back.
Ready(q, ripe, late) ==
  Reclaim([q EXCEPT !.delayed = @ \ ripe, !.pending = @ \o SetToSeq(ripe)], late)

\* LPOP until a command is found that is neither cancelled nor gone.
Popped(q) ==
  LET fit(i) == q.pending[i] \in DOMAIN q.jobs \ q.cancelled
      n == Cardinality({i \in DOMAIN q.pending : \A k \in 1 .. i : ~fit(k)})
      skipped == {q.pending[i] : i \in 1 .. n}
  IN [Forget(q, skipped \cap q.cancelled) EXCEPT !.pending = SubSeq(@, n + 1, Len(@))]

LeaseScript(q, ripe, late) ==
  LET p == Popped(Ready(q, ripe, late)) IN
  IF p.pending = <<>> THEN p
  ELSE [p EXCEPT !.pending = Tail(@), !.issued = @ + 1,
                 !.leases = Put(@, p.issued + 1, Head(p.pending)),
                 !.runLeases = Put(@, Head(p.pending), p.issued + 1)]

Held(q, l, r) == l \in DOMAIN q.leases /\ q.leases[l] = r

\* The lease ends; both scripts do nothing unless it is still there.
Unleased(q, l, r) == [q EXCEPT !.leases = Del(@, {l}), !.runLeases = Del(@, {r})]

AcknowledgeScript(q, l, r) ==
  IF Held(q, l, r) THEN Forget(Unleased(q, l, r), {r}) ELSE q

ReleaseScript(q, l, r, delay) ==
  LET u == Unleased(q, l, r) IN
  IF ~Held(q, l, r) THEN q
  ELSE IF r \in q.cancelled THEN Forget(u, {r})
  ELSE [u EXCEPT !.attempts[r] = @ + 1,
                 !.delayed = IF delay THEN @ \cup {r} ELSE @,
                 !.pending = IF delay THEN @ ELSE Append(@, r)]

CancelAccepts(q, r) == r \in DOMAIN q.jobs

CancelScript(q, r) ==
  LET c == [q EXCEPT !.cancelled = @ \cup {r}, !.delayed = @ \ {r},
                     !.pending = Without(@, r)]
  IN IF r \in DOMAIN q.runLeases THEN c ELSE Forget(c, {r})

\* The command of a run as a lease queue sees it.
Command(q, r) ==
  IF r \notin DOMAIN q.jobs THEN [phase |-> "absent", lease |-> 0, attempt |-> 0]
  ELSE IF r \in DOMAIN q.runLeases
    THEN [phase |-> IF r \in q.cancelled THEN "doomed" ELSE "held",
          lease |-> q.runLeases[r], attempt |-> q.attempts[r]]
    ELSE [phase |-> "waiting", lease |-> 0, attempt |-> q.attempts[r]]
=============================================================================
