---------------------------- MODULE AgentCatalog ----------------------------
(***************************************************************************)
(* ManagedAgentRegistry (communication/registry.py) and the contracts agents *)
(* are registered with (communication/contract.py): who is registered, in     *)
(* which version and status, and whether a caller may switch from one          *)
(* contract to another.                                                      *)
(*                                                                         *)
(* A schema is [type, properties, required, items, enum]; properties is a      *)
(* function from field names to schemas, items a sequence of none or one, enum  *)
(* the set of values allowed, empty for any.  A value is a record of its kind   *)
(* and content.  A version is [major, minor]: the patch number is not looked    *)
(* at by anything but the order.                                             *)
(***************************************************************************)
EXTENDS Naturals, Sequences, FiniteSets

CONSTANTS
    Names,       \* agent ids
    Versions,    \* versions an agent may be registered in
    Contracts,   \* contracts that may be registered: [version, input]
    Payloads,    \* values callers may send
    MaxHistory   \* bound: entries of a version history

ASSUME CatalogAssumption == MaxHistory \in Nat

VARIABLES
    entry,       \* _registrations: [version, status], NoEntry where there is none
    history,     \* _version_history
    contracts    \* ContractRegistry._contracts of one agent name

catVars == <<entry, history, contracts>>

AgentStatuses == {"ACTIVE", "DRAINING", "DISABLED"}
NoEntry == [version |-> 0, status |-> "none"]

CatInit ==
    /\ entry = [a \in Names |-> NoEntry] /\ history = [a \in Names |-> <<>>] /\ contracts = {}

----------------------------------------------------------------------------
(* ManagedAgentRegistry                                                     *)

\* _record_version
RecordVersion(a, v) ==
    history' = [history EXCEPT ![a] = IF @ # <<>> /\ @[Len(@)] = v THEN @ ELSE Append(@, v)]

Enter(a, v, s) ==
    /\ Len(history[a]) < MaxHistory /\ UNCHANGED contracts
    /\ entry' = [entry EXCEPT ![a] = [version |-> v, status |-> s]] /\ RecordVersion(a, v)

\* register, replace: the new entry brings its status with it.
RegisterAgent(a, v, s) == entry[a] = NoEntry /\ Enter(a, v, s)
ReplaceAgent(a, v, s) == entry[a] # NoEntry /\ Enter(a, v, s)

\* deregister: the history stays.
Deregister(a) ==
    /\ entry[a] # NoEntry /\ entry' = [entry EXCEPT ![a] = NoEntry]
    /\ UNCHANGED <<history, contracts>>

\* _ALLOWED_TRANSITIONS
Allowed(from, to) == from # to /\ ~(from = "DISABLED" /\ to = "DRAINING")

\* set_status
SetStatus(a, to) ==
    /\ entry[a] # NoEntry /\ Allowed(entry[a].status, to)
    /\ entry' = [entry EXCEPT ![a].status = to]
    /\ UNCHANGED <<history, contracts>>

----------------------------------------------------------------------------
(* Contracts                                                                *)

\* _matches_type
MatchesType(type, value) ==
    CASE type = "number" -> value.kind \in {"integer", "float"}
      [] OTHER -> value.kind = type

\* validate_payload, _validate_node: no violation is found.
RECURSIVE Accepts(_, _)
Accepts(schema, value) ==
    /\ MatchesType(schema.type, value)
    /\ schema.enum # {} => value.content \in schema.enum
    /\ schema.type = "object" =>
          /\ schema.required \subseteq DOMAIN value.content
          /\ \A f \in DOMAIN schema.properties \cap DOMAIN value.content :
                Accepts(schema.properties[f], value.content[f])
    /\ schema.type = "array" /\ schema.items # <<>> =>
          \A i \in DOMAIN value.content : Accepts(schema.items[1], value.content[i])

\* Mutant: fields the new contract adds do not matter.
CompatibleBackwards(c, d) ==
    /\ c.version.major = d.version.major /\ c.input.required \subseteq d.input.required

\* is_compatible_with, of contracts of one agent name
CompatibleWith(c, d) ==
    /\ c.version.major = d.version.major /\ d.input.required \subseteq c.input.required

\* ContractRegistry.register: one contract for a version
RegisterContract(c) ==
    /\ \A d \in contracts : d.version # c.version
    /\ contracts' = contracts \cup {c}
    /\ UNCHANGED <<entry, history>>

CatNext ==
    \/ (\E a \in Names, v \in Versions, s \in AgentStatuses :
            RegisterAgent(a, v, s) \/ ReplaceAgent(a, v, s))
    \/ (\E a \in Names : Deregister(a))
    \/ (\E a \in Names, to \in AgentStatuses : SetStatus(a, to))
    \/ (\E c \in Contracts : RegisterContract(c))

----------------------------------------------------------------------------
\* registry.py version_history: the history ends with the version in force, and
\* an entry stands for a change, also across deregister and register and when
\* an agent goes back to an earlier version.
HistoryFollows ==
    \A a \in Names :
        /\ entry[a] # NoEntry => history[a] # <<>> /\ history[a][Len(history[a])] = entry[a].version
        /\ \A i \in 1..(Len(history[a]) - 1) : history[a][i] # history[a][i + 1]

\* contract.py is_compatible_with: a caller whose input the current contract
\* accepts may switch to a compatible one, where the fields both contracts know
\* have the same schema (see README on the fields that do not).
SafeSwitch ==
    \A c, d \in contracts :
        /\ CompatibleWith(c, d)
        /\ c.input.type = "object" /\ d.input.type = "object"
        /\ \A f \in DOMAIN d.input.properties :
              f \in DOMAIN c.input.properties /\ c.input.properties[f] = d.input.properties[f]
        => \A p \in Payloads : Accepts(c.input, p) => Accepts(d.input, p)

\* What the registry says of versions and contracts can be relied on by a
\* caller that switches to another version (registry.py, contract.py).
CatalogSound == HistoryFollows /\ SafeSwitch
============================================================================
