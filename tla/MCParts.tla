------------------------------ MODULE MCParts -------------------------------
(***************************************************************************)
(* TLC explores the parts around the controllers side by side: part says   *)
(* which of them a behaviour is about. They share no state, so the states  *)
(* add up and do not multiply.                                             *)
(***************************************************************************)
EXTENDS AgentDirectory, AgentMailbox, AgentBus, TeamRuntime, AgentCatalog, Ledger,
        ChatDialogue, ProcessSandbox, RedisCheckpoint, PluginRegistry, TeamRoles,
        CheckpointCodec, SpanTree, ExportPipeline, LiveTracing, TeamTracing,
        EventFanout, EventStream

CONSTANTS
  c1, c2,  \* the two actors of a part that has two alike
  e1, e2   \* executions of the ledger

VARIABLE part

\* Nothing tells the two actors apart, and only one part moves.
Swaps == Permutations({c1, c2})

\* Two requests that differ in the order of their arguments only, and a third.
Ask(args) == [operation |-> "send", arguments |-> args]
Orders == {Ask(<<<<"to", 1>>, <<"sum", 2>>>>), Ask(<<<<"sum", 2>>, <<"to", 1>>>>),
           Ask(<<<<"to", 2>>, <<"sum", 2>>>>)}

\* Adapters a and d reason; b is configured for another model than a.
AdapterModels == [a |-> "m", b |-> "o", d |-> "ds"]

\* Two plugins that bring the same name.
EntryPoints == <<{"a"}, {"a", "b"}>>

\* Contracts with one or two fields, required or not, in three versions.
Leaf(type) ==
    [type |-> type, properties |-> [f \in {} |-> {}], required |-> {}, items |-> <<>>, enum |-> {}]
InputOf(fields, required) ==
    [type |-> "object", properties |-> [f \in fields |-> Leaf("integer")],
     required |-> required, items |-> <<>>, enum |-> {}]
Contracts3 ==
    {[version |-> [major |-> v[1], minor |-> v[2]], input |-> InputOf(fields, required)] :
        v \in {<<1, 0>>, <<1, 1>>, <<2, 0>>}, fields \in {{"x"}, {"x", "y"}},
        required \in SUBSET {"x", "y"}}
Payloads3 ==
    {[kind |-> "object", content |-> [f \in fields |-> [kind |-> k, content |-> 1]]] :
        fields \in SUBSET {"x", "y"}, k \in {"integer", "string"}}

\* The router's rules: x before y, in whichever order they are added.
RulePriorities == [x |-> 2, y |-> 1]

Calm == [c \in {"bus", "router"} |-> "log"]

PartInit ==
    /\ DirInit /\ MailInit /\ BusInit /\ TeamRtInit /\ CatInit /\ LedgerInit
    /\ ChatInit /\ SandboxInit /\ CkInit /\ PlugInit /\ RolesInit /\ CodecInit
    /\ TreeInit /\ PipeInit /\ LiveInit /\ TeamTraceInit /\ FanInit /\ StreamInit

Parts ==
    {"directory", "mailbox", "bus", "runtime", "catalog", "ledger",
     "chat", "sandbox", "checkpoint", "plugins", "roles", "codec",
     "tree", "pipeline", "live", "team", "fanout", "stream"}

Init ==
    /\ part \in Parts /\ PartInit
    /\ part # "fanout" => mode = Calm

\* A step of part p leaves all the other parts alone.
Only(p) ==
    /\ UNCHANGED part
    /\ p # "directory" => UNCHANGED dirVars
    /\ p # "mailbox" => UNCHANGED mailVars
    /\ p # "bus" => UNCHANGED busVars
    /\ p # "runtime" => UNCHANGED teamRtVars
    /\ p # "catalog" => UNCHANGED catVars
    /\ p # "ledger" => UNCHANGED ledgerVars
    /\ p # "chat" => UNCHANGED chatVars
    /\ p # "sandbox" => UNCHANGED sandboxVars
    /\ p # "checkpoint" => UNCHANGED ckVars
    /\ p # "plugins" => UNCHANGED plugVars
    /\ p # "roles" => UNCHANGED roleVars
    /\ p # "codec" => UNCHANGED codecVars
    /\ p # "tree" => UNCHANGED treeVars
    /\ p # "pipeline" => UNCHANGED pipeVars
    /\ p # "live" => UNCHANGED liveVars
    /\ p # "team" => UNCHANGED teamVars
    /\ p # "fanout" => UNCHANGED fanVars
    /\ p # "stream" => UNCHANGED streamVars

Next ==
    \/ part = "directory" /\ DirNext /\ Only("directory")
    \/ part = "mailbox" /\ MailNext /\ Only("mailbox")
    \/ part = "bus" /\ BusNext /\ Only("bus")
    \/ part = "runtime" /\ TeamRtNext /\ Only("runtime")
    \/ part = "catalog" /\ CatNext /\ Only("catalog")
    \/ part = "ledger" /\ LedgerNext /\ Only("ledger")
    \/ part = "chat" /\ ChatNext /\ Only("chat")
    \/ part = "sandbox" /\ SandboxNext /\ Only("sandbox")
    \/ part = "checkpoint" /\ CkNext /\ Only("checkpoint")
    \/ part = "plugins" /\ PlugNext /\ Only("plugins")
    \/ part = "roles" /\ RolesNext /\ Only("roles")
    \/ part = "codec" /\ CodecNext /\ Only("codec")
    \/ part = "tree" /\ TreeNext /\ Only("tree")
    \/ part = "pipeline" /\ PipeNext /\ Only("pipeline")
    \/ part = "live" /\ LiveNext /\ Only("live")
    \/ part = "team" /\ TeamTraceNext /\ Only("team")
    \/ part = "fanout" /\ FanNext /\ Only("fanout")
    \/ part = "stream" /\ StreamNext /\ Only("stream")

allVars == <<part, dirVars, mailVars, busVars, teamRtVars, catVars, ledgerVars,
             chatVars, sandboxVars, ckVars, plugVars, roleVars, codecVars,
             treeVars, pipeVars, liveVars, teamVars, fanVars, streamVars>>

Spec == Init /\ [][Next]_allVars

\* Messages between agents are neither lost, doubled nor given to the wrong
\* waiter: by mailbox, where readers filter and limit, and by bus, where inboxes
\* are bounded and requests time out and are retried (messages.py, bus.py).
MessagesArrive ==
    [](MailOnce /\ MailInOrder) /\ BusSound

\* A checkpoint can be relied on: saves of several processes build on each other,
\* and what is read back is what one of them wrote (checkpoint.py, codec.py).
CheckpointsSound ==
    SavesBuildOnSaves /\ ToldIsStored /\ ReadIsWritten /\ NothingInvalid /\ NothingMixed
=============================================================================
