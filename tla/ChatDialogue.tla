---------------------------- MODULE ChatDialogue ----------------------------
(***************************************************************************)
(* The chat adapters of matterloop_models/providers: compatible.py and     *)
(* deepseek.py. A response with tool calls carries an opaque continuation: *)
(* the messages so far, the calls that wait for an output and the adapter  *)
(* that made it. A caller goes on from any continuation it holds, from     *)
(* the same one twice if it retries, and with any adapter; or it sends the *)
(* canonical items that stand for the same conversation.                   *)
(*                                                                         *)
(* turns holds the responses with calls (history: the messages of the      *)
(* continuation; items: the conversation as canonical items; loose: the    *)
(* caller once left an output out of its items, or doubled one), wire the  *)
(* request under way. Texts and arguments are left out; a call id is the   *)
(* turn and the position of its call. The provider gives every call an id  *)
(* of its own.                                                             *)
(***************************************************************************)
EXTENDS Naturals, Sequences, FiniteSets, SequencesExt

CONSTANTS
  Adapters,      \* adapter instances
  DeepSeeks,     \* those of class DeepSeekChatModelClient
  ModelOf,       \* the provider and model each is configured for
  Reasoners,     \* those with preserve_reasoning_content
  Schemas,       \* response schemas a request may ask for
  NoSchema, Nobody,
  MaxTurns       \* bound on responses with calls

ASSUME DeepSeeksAssumption == DeepSeeks \subseteq Adapters

VARIABLES turns, wire

chatVars == <<turns, wire>>

NothingSent ==
  [by |-> Nobody, messages |-> <<>>, schema |-> NoSchema, items |-> <<>>, loose |-> FALSE]

ChatInit == turns = <<>> /\ wire = NothingSent

\* Messages and items have one shape: role, the calls of an assistant, the
\* call a tool message answers, private fields and the schema stated.
Entry(role, calls, answers, private, schema) ==
  [role |-> role, calls |-> calls, answers |-> answers,
   private |-> private, schema |-> schema]

Said(role) == Entry(role, <<>>, <<>>, Nobody, NoSchema)
ToolMessage(id) == Entry("tool", <<>>, id, Nobody, NoSchema)
Instruction(s) == Entry("system", <<>>, <<>>, Nobody, s)
Asking(calls, private) == Entry("assistant", calls, <<>>, private, NoSchema)
CallItem(id, private) == Entry("call", <<>>, id, private, NoSchema)

Mapped(f(_), seq) == [i \in DOMAIN seq |-> f(seq[i])]

\* Mutant: an output may be missing.
ValidOutputsAny(outs, calls) ==
  ToSet(outs) \subseteq ToSet(calls) /\ IsInjective(outs)

\* No output twice, and one for every pending call.
Complete(outs, calls) ==
  /\ IsInjective(outs)
  /\ ToSet(outs) = ToSet(calls)

\* _validate_tool_outputs
ValidOutputs(outs, calls) == Complete(outs, calls)

DeepSeekOutputs(outs, calls) ==
  /\ IsInjective(outs)
  /\ calls # <<>> => ToSet(outs) = ToSet(calls)

\* _matches: the continuation was made by this very adapter.
Owns(a, turn) == turn.by = a

DeepSeekOwns(a, turn) == turn.by = a

\* _schema_instruction: stated before everything else, unless it is there.
WithSchema(messages, s) ==
  IF s = NoSchema \/ Contains(messages, Instruction(s)) THEN messages
  ELSE <<Instruction(s)>> \o messages

\* _map_input_items: neighbouring calls become one assistant message, with
\* the private fields of the first.
JoinCalls(messages, item) ==
  LET last == messages[Len(messages)]
  IN IF messages # <<>> /\ last.role = "assistant" /\ last.calls # <<>>
     THEN [messages EXCEPT ![Len(messages)].calls = Append(@, item.answers)]
     ELSE Append(messages, Asking(<<item.answers>>, item.private))

JoinItem(messages, item) ==
  IF item.role = "call" THEN JoinCalls(messages, item) ELSE Append(messages, item)

MapInputItems(items) == FoldLeft(JoinItem, <<>>, items)

\* Private fields go to the provider and model they came from, or nowhere.
Portable(a, items) ==
  \A i \in DOMAIN items : items[i].private \in {Nobody, ModelOf[a]}

\* _build_messages with a continuation: its messages, the outputs, what the
\* caller adds.
Continued(history, outs, more) == history \o Mapped(ToolMessage, outs) \o more

\* DeepSeekChatModelClient._build_messages: the same; without a continuation
\* the instruction is put first unasked.
DeepSeekContinued(history, outs, more, s) ==
  WithSchema(history \o Mapped(ToolMessage, outs) \o more, s)

DeepSeekFresh(more, s) ==
  IF s = NoSchema THEN more ELSE <<Instruction(s)>> \o more

\* _private_continuation_fields: the reasoning of a turn, when it is kept.
PrivateOf(a, thought) ==
  IF thought /\ a \in Reasoners THEN ModelOf[a] ELSE Nobody

\* DeepSeek keeps the reasoning whenever there is some.
DeepSeekPrivate(a, thought) == IF thought THEN ModelOf[a] ELSE Nobody

NewCalls(n) == [i \in 1..n |-> <<Len(turns) + 1, i>>]

\* _parse_response: the continuation, and the response as canonical items,
\* which hold the private fields on the first call.
ReplyItems(calls, private) ==
  [i \in DOMAIN calls |-> CallItem(calls[i], IF i = 1 THEN private ELSE Nobody)]

Replied(a, messages, items, calls, private) ==
  [by |-> a, calls |-> calls, history |-> Append(messages, Asking(calls, private)),
   items |-> items \o ReplyItems(calls, private), loose |-> wire.loose]

\* DeepSeekChatModelClient._parse_response: no items of its own.
DeepSeekReplied(a, messages, calls, private) ==
  [by |-> a, calls |-> calls, history |-> Append(messages, Asking(calls, private)),
   items |-> <<>>, loose |-> wire.loose]

Sending(a, messages, s, items, loose) ==
  wire' = [by |-> a, messages |-> messages, schema |-> s, items |-> items, loose |-> loose]

\* generate without a continuation: tool outputs are refused.
Open(a, s) ==
  /\ a \notin DeepSeeks
  /\ Sending(a, WithSchema(<<Said("user")>>, s), s, <<Said("user")>>, FALSE)
  /\ UNCHANGED turns

\* generate with the continuation of turn k.
Continue(a, k, outs, more, s) ==
  LET messages == WithSchema(Continued(turns[k].history, outs, more), s)
  IN /\ a \notin DeepSeeks /\ Owns(a, turns[k]) /\ ValidOutputs(outs, turns[k].calls)
     /\ Sending(a, messages, s, turns[k].items \o Mapped(ToolMessage, outs) \o more,
                turns[k].loose)
     /\ UNCHANGED turns

\* generate with the canonical items of turn k, outputs and more: nothing asks
\* whether the outputs are those of its calls.
Replay(a, k, outs, more, s) ==
  LET input == turns[k].items \o Mapped(ToolMessage, outs) \o more
  IN /\ a \notin DeepSeeks /\ turns[k].by \notin DeepSeeks /\ Portable(a, input)
     /\ Sending(a, WithSchema(MapInputItems(input), s), s, input,
                turns[k].loose \/ ~Complete(outs, turns[k].calls))
     /\ UNCHANGED turns

DeepSeekOpen(a, s) ==
  /\ a \in DeepSeeks
  /\ Sending(a, DeepSeekFresh(<<Said("user")>>, s), s, <<>>, FALSE)
  /\ UNCHANGED turns

DeepSeekContinue(a, k, outs, more, s) ==
  /\ a \in DeepSeeks /\ DeepSeekOwns(a, turns[k])
  /\ DeepSeekOutputs(outs, turns[k].calls)
  /\ Sending(a, DeepSeekContinued(turns[k].history, outs, more, s), s, <<>>, turns[k].loose)
  /\ UNCHANGED turns

\* What comes back: an error, a text or an unreadable response leave no
\* continuation; n calls make one.
GetReply(thought, n) ==
  LET a == wire.by
  IN /\ a \in Adapters \ DeepSeeks
     /\ wire' = NothingSent
     /\ turns' = IF n = 0 THEN turns
                 ELSE Append(turns, Replied(a, wire.messages, wire.items, NewCalls(n),
                                            PrivateOf(a, thought)))

DeepSeekRespond(thought, n) ==
  LET a == wire.by
  IN /\ a \in DeepSeeks
     /\ wire' = NothingSent
     /\ turns' = IF n = 0 THEN turns
                 ELSE Append(turns, DeepSeekReplied(a, wire.messages, NewCalls(n),
                                                    DeepSeekPrivate(a, thought)))

\* What a caller may pass as outputs of turn k: also too few, one twice, or
\* one of another turn.
Offers(k) == SeqOf(ToSet(turns[k].calls) \cup {<<1, 1>>}, 2)

\* What it may put into its items: the outputs, or the first of them twice
\* and no other.
LooseOffers(k) == {turns[k].calls, <<turns[k].calls[1], turns[k].calls[1]>>}

More == {<<>>, <<Said("user")>>}

\* What the provider answers with: how many calls, and with reasoning or not.
Replies == {<<FALSE, 0>>} \cup (IF Len(turns) < MaxTurns THEN BOOLEAN \X (1..2) ELSE {})

\* One request at a time: a reply in between changes nothing of another's.
ChatNext ==
  \/ /\ wire = NothingSent
     /\ \E a \in Adapters, s \in Schemas \cup {NoSchema} :
          \/ Open(a, s)
          \/ DeepSeekOpen(a, s)
          \/ \E k \in DOMAIN turns, more \in More :
               \/ \E outs \in Offers(k) : Continue(a, k, outs, more, s)
               \/ \E outs \in Offers(k) : DeepSeekContinue(a, k, outs, more, s)
               \/ \E outs \in LooseOffers(k) : Replay(a, k, outs, more, s)
  \/ \E reply \in Replies : GetReply(reply[1], reply[2])
  \/ \E reply \in Replies : DeepSeekRespond(reply[1], reply[2])

-----------------------------------------------------------------------------
\* A chat provider refuses a request in which an assistant's calls are not
\* followed by one output each, or an output has no call. However the caller
\* forks, retries and mixes its continuations, none is sent, unless the caller
\* itself made a conversation out of items that is loose
\* (_validate_tool_outputs, _map_input_items).
CallsAnswered ==
  ~wire.loose =>
  LET m == wire.messages
      Follow(i) == [j \in 1..Len(m[i].calls) |-> m[i + j].answers]
  IN \A i \in DOMAIN m :
       /\ m[i].calls # <<>> =>
            /\ i + Len(m[i].calls) <= Len(m)
            /\ ToSet(Follow(i)) = ToSet(m[i].calls)
       /\ m[i].role = "tool" =>
            \E h \in 1..(i - 1) : i - h <= Len(m[h].calls) /\ Contains(m[h].calls, m[i].answers)

\* Reasoning that a provider marked private is sent only to the provider and
\* model that produced it, by continuation or by items (_matches, the check
\* of assistant_private_fields).
PrivateStaysHome ==
  \A i \in DOMAIN wire.messages :
    wire.messages[i].private \in {Nobody, ModelOf[wire.by]}

\* The two ways to go on are one conversation: the items of a response map to
\* the messages of its continuation, the schema instructions apart
\* (_parse_response builds both, _map_input_items reads the items back).
ItemsAreHistory ==
  \A k \in DOMAIN turns : turns[k].by \notin DeepSeeks /\ ~turns[k].loose =>
    MapInputItems(turns[k].items)
      = SelectSeq(turns[k].history, LAMBDA m : m.schema = NoSchema)

\* The schema a request asks for is stated once, however often a continued
\* conversation asked for it before (_build_messages).
SchemaStatedOnce ==
  wire.schema # NoSchema =>
    Cardinality({i \in DOMAIN wire.messages : wire.messages[i].schema = wire.schema}) = 1

\* A conversation can be continued, forked, retried and carried to another model
\* without a request the provider refuses or should not see (compatible.py,
\* deepseek.py).
DialogueSound == CallsAnswered /\ PrivateStaysHome /\ ItemsAreHistory /\ SchemaStatedOnce
=============================================================================
