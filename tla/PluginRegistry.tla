--------------------------- MODULE PluginRegistry ---------------------------
(***************************************************************************)
(* FactoryCatalog and ComponentRegistry of                                 *)
(* matterloop_core/registry/components.py. An installation lists the       *)
(* names of a catalog, creates the components one by one, without a lock   *)
(* and while others change the catalog, and publishes them under the       *)
(* registry's lock. ComponentRegistry.discover does the same from a        *)
(* private catalog that it fills from the entry points.                    *)
(***************************************************************************)
EXTENDS Naturals, Sequences, FiniteSets

CONSTANTS
  PartNames,     \* component names
  Installers,    \* threads that install
  Plugins,       \* the entry points: a sequence of sets of names
  NoPart,
  MaxMade        \* bound on components ever created

\* Components are numbered from 1 in the order of their creation.
ASSUME PartAssumption == NoPart \notin Nat \ {0}

VARIABLES
  specs,      \* names in the shared catalog
  parts,      \* the registry: name -> component
  job,        \* each installation
  created,       \* components created so far
  overwrote   \* the last change was allowed to replace

plugVars == <<specs, parts, job, created, overwrote>>

NoJob == [stage |-> "none", todo |-> {}, own |-> FALSE, replace |-> FALSE,
          built |-> [n \in PartNames |-> NoPart]]

PlugInit ==
  /\ specs = {}
  /\ parts = [n \in PartNames |-> NoPart]
  /\ job = [i \in Installers |-> NoJob]
  /\ created = 0 /\ overwrote = FALSE

\* FactoryCatalog.install: all names of a plugin, or none.
AddPlugin(names, replace) ==
  /\ replace \/ names \cap specs = {}
  /\ specs' = specs \cup names
  /\ UNCHANGED <<parts, job, created, overwrote>>

\* FactoryCatalog.unregister.
RemoveSpec(n) ==
  /\ n \in specs /\ specs' = specs \ {n}
  /\ UNCHANGED <<parts, job, created, overwrote>>

\* ComponentRegistry.register of a component created elsewhere.
RegisterPart(n, replace) ==
  /\ created < MaxMade /\ (parts[n] = NoPart \/ replace)
  /\ created' = created + 1
  /\ parts' = [parts EXCEPT ![n] = created + 1]
  /\ overwrote' = replace
  /\ UNCHANGED <<specs, job>>

\* ComponentRegistry.unregister.
RemovePart(n) ==
  /\ parts[n] # NoPart
  /\ parts' = [parts EXCEPT ![n] = NoPart]
  /\ overwrote' = FALSE
  /\ UNCHANGED <<specs, job, created>>

\* ComponentRegistry.install: the names at this moment.
BeginInstall(i, names, replace) ==
  /\ job[i].stage \in {"none", "done", "failed"} /\ names # {}
  /\ job' = [job EXCEPT ![i] = [NoJob EXCEPT !.stage = "making", !.todo = names,
                                  !.replace = replace]]
  /\ UNCHANGED <<specs, parts, created, overwrote>>

\* FactoryCatalog.discover into a catalog of its own: a name that two plugins
\* bring is an error unless it may be replaced.
Discovered(replace) ==
  LET names == UNION {Plugins[k] : k \in DOMAIN Plugins}
      clash == \E j, k \in DOMAIN Plugins : j # k /\ Plugins[j] \cap Plugins[k] # {}
  IN IF clash /\ ~replace THEN {} ELSE names

Discover(i, replace) ==
  /\ job[i].stage \in {"none", "done", "failed"} /\ Discovered(replace) # {}
  /\ job' = [job EXCEPT ![i] = [NoJob EXCEPT !.stage = "making", !.own = TRUE,
                                  !.todo = Discovered(replace), !.replace = replace]]
  /\ UNCHANGED <<specs, parts, created, overwrote>>

\* catalog.create for the next name; a name that is gone ends the job.
CreatePart(i, n) ==
  /\ job[i].stage = "making" /\ n \in job[i].todo
  /\ IF job[i].own \/ n \in specs
     THEN /\ created < MaxMade
          /\ created' = created + 1
          /\ job' = [job EXCEPT ![i].todo = @ \ {n}, ![i].built[n] = created + 1]
     ELSE job' = [job EXCEPT ![i].stage = "failed"] /\ UNCHANGED created
  /\ UNCHANGED <<specs, parts, overwrote>>

Clashes(i) == {n \in PartNames : job[i].built[n] # NoPart /\ parts[n] # NoPart}

\* Mutant: the clash was looked for before the components were created.
PublishUnchecked(i) ==
  /\ job[i].stage = "making" /\ job[i].todo = {}
  /\ parts' = [n \in PartNames |->
                 IF job[i].built[n] # NoPart THEN job[i].built[n] ELSE parts[n]]
  /\ job' = [job EXCEPT ![i].stage = "done"]
  /\ overwrote' = job[i].replace
  /\ UNCHANGED <<specs, created>>

\* The locked part of install: all components or none.
PublishParts(i) ==
  /\ job[i].stage = "making" /\ job[i].todo = {}
  /\ IF job[i].replace \/ Clashes(i) = {}
     THEN /\ parts' = [n \in PartNames |->
                         IF job[i].built[n] # NoPart THEN job[i].built[n] ELSE parts[n]]
          /\ job' = [job EXCEPT ![i].stage = "done"]
          /\ overwrote' = job[i].replace
     ELSE job' = [job EXCEPT ![i].stage = "failed"] /\ UNCHANGED <<parts, overwrote>>
  /\ UNCHANGED <<specs, created>>

PlugNext ==
  \/ \E names \in SUBSET PartNames \ {{}}, r \in BOOLEAN : AddPlugin(names, r)
  \/ \E n \in PartNames : RemoveSpec(n)
  \/ \E n \in PartNames, r \in BOOLEAN : RegisterPart(n, r)
  \/ \E n \in PartNames : RemovePart(n)
  \/ \E i \in Installers, r \in BOOLEAN : BeginInstall(i, specs, r)
  \/ \E i \in Installers, r \in BOOLEAN : Discover(i, r)
  \/ \E i \in Installers, n \in PartNames : CreatePart(i, n)
  \/ \E i \in Installers : PublishParts(i)

PlugSpec == PlugInit /\ [][PlugNext]_plugVars

-----------------------------------------------------------------------------
\* An installation that fails, because a name vanished from the catalog while
\* components were created or because one was taken meanwhile, leaves none of its
\* components in the registry (ComponentRegistry.install).
FailedLeavesNothing ==
  \A i \in Installers : job[i].stage = "failed" =>
    \A n, k \in PartNames : job[i].built[n] # NoPart => parts[k] # job[i].built[n]

\* A component that is registered is never exchanged by an operation that did
\* not ask to replace, whatever was installed between its check and its
\* publication (register, install).
NoSilentReplacement ==
  [][\A n \in PartNames :
       parts[n] # NoPart /\ parts'[n] \notin {parts[n], NoPart} => overwrote']_plugVars

\* Installations that run side by side with registrations are all or nothing and
\* replace only when told to (components.py).
InstallAtomic == []FailedLeavesNothing /\ NoSilentReplacement
=============================================================================
