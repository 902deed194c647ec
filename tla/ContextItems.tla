---------------------------- MODULE ContextItems ----------------------------
(***************************************************************************)
(* The canonical model input of matterloop_models/base.py and what the     *)
(* context engine of matterloop_runtime/context computes from it: token    *)
(* states, the choice of what may be summarised, compaction to the budget, *)
(* the release of answered tool calls and the move to another model.       *)
(*                                                                         *)
(* An item is [id, kind, keep, home, call]: its item_id, what it is, its   *)
(* retention, the model whose private state it holds (Absent when portable)  *)
(* and its call_id (0 when it has none). Contents are reduced to sizes.    *)
(***************************************************************************)
EXTENDS Naturals, Sequences, FiniteSets, FiniteSetsExt, SequencesExt

CONSTANTS
  Natives,      \* models that compact their own input (NativeCompactingClient)
  Summarised,   \* models whose history the semantic compactor may receive
  Target, Soft, Hard,   \* the thresholds, as projected tokens
  Reserved,     \* reserved_output_tokens
  ToolTokens,   \* default_tool_output_tokens
  RecentTurns, MaxPasses,
  Big,          \* size of a tool result above tool_result_inline_tokens
  Absent

\* ContextPolicy.__post_init__: positive limits, the target below the soft and
\* the soft below the hard threshold.
ValidPolicy ==
  /\ {Target, Soft, Hard, Reserved, ToolTokens, RecentTurns, MaxPasses} \subseteq Nat \ {0}
  /\ Target < Soft /\ Soft < Hard

ASSUME PolicyAssumption == ValidPolicy

Item(id, kind, keep, home, call) ==
  [id |-> id, kind |-> kind, keep |-> keep, home |-> home, call |-> call]

\* _split_goal_message: the goal is pinned, the historical payload is not.
Goal(id) == Item(id, "goal", "pinned", Absent, 0)
History(id) == Item(id, "history", "summarizable", Absent, 0)

\* A tool result, written to the blob store first when that works.
Output(id, call, blob) ==
  Item(id, "output", IF blob THEN "externalized" ELSE "pinned", Absent, call)

\* A call keeps private state of a chat model in its metadata.
Call(id, home) == Item(id, "call", "pinned", home, id)

State(id, home) == Item(id, "state", "pinned", home, 0)
Text(id) == Item(id, "text", "summarizable", Absent, 0)
Native(id, home) == Item(id, "native", "summarizable", home, 0)
Summary(id) == Item(id, "summary", "summarizable", Absent, 0)

Ids(items) == {items[i].id : i \in DOMAIN items}

\* _pending_tool_count: the calls that have no output.
OpenCalls(items) ==
  {items[i].call : i \in {j \in DOMAIN items : items[j].kind = "call"}}
    \ {items[i].call : i \in {j \in DOMAIN items : items[j].kind = "output"}}

Size(item) ==
  CASE item.kind = "history" -> 4
    [] item.kind = "output" /\ item.keep # "externalized" -> Big
    [] OTHER -> 1

Tokens(items) == FoldLeft(LAMBDA sum, item : sum + Size(item), 0, items)

\* _token_state: projected_tokens.
Projected(items) == Tokens(items) + Reserved + Cardinality(OpenCalls(items)) * ToolTokens

\* ContextAnalyzer.analyze: old enough, or a historical payload, or native
\* state; and summarizable.
Summarizable(items) ==
  LET users == {i \in DOMAIN items : items[i].kind \in {"goal", "history"}}
      Later(i) == {j \in users : j > i}
      start == IF Cardinality(users) >= RecentTurns
               THEN CHOOSE i \in users : Cardinality(Later(i)) = RecentTurns - 1
               ELSE 1
  IN {items[i].id : i \in {j \in DOMAIN items :
        /\ j < start \/ items[j].kind \in {"history", "native", "state"}
        /\ items[j].keep = "summarizable"}}

\* ContextAnalysis.rebuild: the result stands where the first removed item was.
Rebuild(items, removed, new) ==
  LET first == Min({i \in DOMAIN items : items[i].id \in removed})
  IN SubSeq(items, 1, first - 1) \o <<new>>
       \o SelectSeq(SubSeq(items, first, Len(items)), LAMBDA it : it.id \notin removed)

\* Mutant: the archive is written but the snapshot does not refer to it.
ArchiveUnnoted(archives, old) == archives

\* _archive_items: an archive holds the items it was written for.
Archive(archives, old) == archives \cup {old}

\* _ensure_semantic_provider_name: a history goes to another provider's
\* summary model only when that is allowed.
MaySummarise(model) == model \in Summarised

\* _compact_items: the model's own compaction, or the semantic one when that
\* is not offered or fails.
Offered(model, id) ==
  (IF model \in Natives THEN {Native(id, model)} ELSE {})
    \cup (IF MaySummarise(model) THEN {Summary(id)} ELSE {})

\* One pass of _compact_to_budget: archive, compact, accept only a smaller
\* result, extract memories. Any of it may fail, which is an error at the
\* hard threshold only.
Pass(s, model, id) ==
  LET old == Summarizable(s.items)
      Compact(new) == Rebuild(s.items, old, new)
      Smaller == {new \in Offered(model, id) : Tokens(Compact(new)) < Tokens(s.items)}
  IN IF s.out # "go" \/ Projected(s.items) < Target \/ old = {} THEN {s}
     ELSE {[s EXCEPT !.items = Compact(new), !.archives = Archive(@, old)] : new \in Smaller}
            \cup {[s EXCEPT !.out = IF Projected(s.items) >= Hard THEN "raised" ELSE "kept"]}

\* The outcomes of the compaction of items, up to MaxPasses passes.
CompactToBudget(items, archives, model, id) ==
  LET after[n \in 0..MaxPasses] ==
        IF n = 0 THEN {[items |-> items, archives |-> archives, out |-> "go"]}
        ELSE UNION {Pass(s, model, id + n - 1) : s \in after[n - 1]}
  IN after[MaxPasses]

\* _release_completed_tool_pairs: a call with its output, and with any output
\* present the provider's state, may be summarised from now on.
Release(items) ==
  LET answered == {items[i].call : i \in {j \in DOMAIN items : items[j].kind = "output"}}
      Done(it) == \/ it.kind \in {"call", "output"} /\ it.call \in answered
                  \/ it.kind = "state" /\ answered # {}
  IN [i \in DOMAIN items |->
        IF Done(items[i]) /\ items[i].keep = "pinned"
        THEN [items[i] EXCEPT !.keep = "summarizable"] ELSE items[i]]

\* _compatible_existing_items: what another model may be given. Provider
\* output and private metadata go; native compactions are replaced by a
\* summary of the archives. No result when that cannot be done.
Compatible(snap, model, id) ==
  LET portable == [i \in DOMAIN snap.items |->
                     IF snap.items[i].kind = "call" THEN [snap.items[i] EXCEPT !.home = Absent]
                     ELSE snap.items[i]]
      rest == SelectSeq(portable, LAMBDA it : it.kind # "state")
      native == {rest[i].id : i \in {j \in DOMAIN rest : rest[j].kind = "native"}}
  IN IF snap.model = model THEN {snap.items}
     ELSE IF native = {} THEN {rest}
     ELSE IF MaySummarise(model) /\ snap.archives # {}
          THEN {Rebuild(rest, native, Summary(id))} ELSE {}

=============================================================================
