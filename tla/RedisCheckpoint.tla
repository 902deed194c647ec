--------------------------- MODULE RedisCheckpoint --------------------------
(***************************************************************************)
(* RedisCheckpointStore of matterloop_integration_redis/checkpoint.py, as  *)
(* several processes use it for one run: each loads a context, works on it *)
(* and saves it with the revision it read; the script compares and         *)
(* replaces in one step. The answer of Redis may get lost, the process may *)
(* try again or start over, and the key may disappear (a Redis that loses  *)
(* its data) or hold something that is no checkpoint of this run.          *)
(*                                                                         *)
(* A context is [id, parent, revision]: what it says and the stored        *)
(* context it was made from.                                               *)
(***************************************************************************)
EXTENDS Naturals, Sequences, FiniteSets

CONSTANTS
  Savers,        \* processes
  Nil, Junk,
  MaxContexts    \* bound on contexts ever written

ASSUME CkAssumption ==
  /\ {Nil, Junk} \cap [id : Nat, parent : Nat, revision : Nat] = {}
  /\ Nil \notin {Junk, "sent", "stored", "conflict", "corrupt"}

VARIABLES
  key,        \* the value under the run's key: Nil, a context, or Junk
  working,    \* each process's context; Nil before it has one
  saving,     \* its call: Nil, "sent", or the result the script gave
  told,       \* the contexts a process knows to be stored
  lineage,    \* contexts stored since the key appeared, in order
  everStored,     \* ids of all contexts ever stored
  contexts,   \* contexts made so far
  keyLost     \* the key has been lost or overwritten once

ckVars == <<key, working, saving, told, lineage, everStored, contexts, keyLost>>

Context(id, parent, revision) == [id |-> id, parent |-> parent, revision |-> revision]

CkInit ==
  /\ key = Nil
  /\ working = [p \in Savers |-> Nil]
  /\ saving = [p \in Savers |-> Nil]
  /\ told = {} /\ everStored = {} /\ lineage = <<>> /\ contexts = 0 /\ keyLost = FALSE

\* A new run, or the next state of the context a process has.
BeginContext(p) ==
  /\ saving[p] = Nil /\ working[p] = Nil /\ contexts < MaxContexts
  /\ contexts' = contexts + 1
  /\ working' = [working EXCEPT ![p] = Context(contexts + 1, 0, 0)]
  /\ UNCHANGED <<key, saving, told, lineage, everStored, keyLost>>

\* load: nothing, the stored context, or an error for what cannot be read.
LoadContext(p) ==
  /\ saving[p] = Nil /\ key \notin {Nil, Junk} /\ contexts < MaxContexts
  /\ contexts' = contexts + 1
  /\ working' = [working EXCEPT ![p] = Context(contexts + 1, key.id, key.revision)]
  /\ UNCHANGED <<key, saving, told, lineage, everStored, keyLost>>

\* save: the call leaves with the context's own revision as expected.
SendSave(p) ==
  /\ saving[p] = Nil /\ working[p] # Nil
  /\ saving' = [saving EXCEPT ![p] = "sent"]
  /\ UNCHANGED <<key, working, told, lineage, everStored, contexts, keyLost>>

\* Mutant: the script only checks that the key exists.
SaveScriptBlind(current, expected) ==
  IF current = Junk THEN "corrupt"
  ELSE IF current = Nil /\ expected # 0 THEN "conflict" ELSE "stored"

\* _SAVE_SCRIPT: 0 for a conflict, -2 for what is no checkpoint of the run,
\* otherwise the new revision.
SaveScript(current, expected) ==
  IF current = Nil THEN (IF expected = 0 THEN "stored" ELSE "conflict")
  ELSE IF current = Junk THEN "corrupt"
  ELSE IF current.revision # expected THEN "conflict" ELSE "stored"

\* Redis runs the script.
RunScript(p) ==
  LET expected == working[p].revision
      result == SaveScript(key, expected)
      replacement == [working[p] EXCEPT !.revision = expected + 1]
  IN /\ saving[p] = "sent"
     /\ saving' = [saving EXCEPT ![p] = result]
     /\ IF result = "stored"
        THEN /\ key' = replacement
             /\ lineage' = Append(lineage, replacement)
             /\ everStored' = everStored \cup {replacement.id}
        ELSE UNCHANGED <<key, lineage, everStored>>
     /\ UNCHANGED <<working, told, contexts, keyLost>>

\* The answer arrives. After a conflict or an error the process has to load
\* again; after a success it goes on from what it stored.
HearAnswer(p) ==
  /\ saving[p] \in {"stored", "conflict", "corrupt"}
  /\ saving' = [saving EXCEPT ![p] = Nil]
  /\ IF saving[p] = "stored" /\ contexts < MaxContexts
     THEN /\ told' = told \cup {working[p].id}
          /\ contexts' = contexts + 1
          /\ working' = [working EXCEPT ![p] =
               Context(contexts + 1, working[p].id, working[p].revision + 1)]
     ELSE /\ told' = IF saving[p] = "stored" THEN told \cup {working[p].id} ELSE told
          /\ working' = [working EXCEPT ![p] = Nil]
          /\ UNCHANGED contexts
  /\ UNCHANGED <<key, lineage, everStored, keyLost>>

\* The answer is lost, before or after the script ran: the process may send
\* the same context again, or forget it.
LoseAnswer(p, again) ==
  /\ saving[p] # Nil
  /\ saving' = [saving EXCEPT ![p] = Nil]
  /\ working' = [working EXCEPT ![p] = IF again THEN @ ELSE Nil]
  /\ UNCHANGED <<key, told, lineage, everStored, contexts, keyLost>>

\* The key is lost, or overwritten by something else.
LoseKey(value) ==
  /\ key # value /\ key # Nil
  /\ key' = value /\ lineage' = <<>> /\ keyLost' = TRUE
  /\ UNCHANGED <<working, saving, told, everStored, contexts>>

CkNext ==
  \/ \E p \in Savers : BeginContext(p)
  \/ \E p \in Savers : LoadContext(p)
  \/ \E p \in Savers : SendSave(p)
  \/ \E p \in Savers : RunScript(p)
  \/ \E p \in Savers : HearAnswer(p)
  \/ \E p \in Savers, again \in BOOLEAN : LoseAnswer(p, again)
  \/ \E v \in {Nil, Junk} : LoseKey(v)

CkSpec == CkInit /\ [][CkNext]_ckVars

-----------------------------------------------------------------------------
\* No save is lost under another: every stored context was made from the one
\* stored before it, with revisions that count up, although processes retry
\* without knowing whether the first try was applied. A run whose key is gone
\* is not brought back by a process that still holds a context of it; once it
\* has been started anew its revisions count from one again, and an old
\* context can meet the revision it expects (_SAVE_SCRIPT).
SavesBuildOnSaves ==
  \A i \in DOMAIN lineage :
    /\ lineage[i].revision = i
    /\ i = 1 => lineage[i].parent = 0
    /\ i > 1 /\ ~keyLost => lineage[i].parent = lineage[i - 1].id

\* What a process believes to be saved has been saved: neither a conflict nor
\* a lost answer is taken for a success (save and its three results).
ToldIsStored == told \subseteq everStored

=============================================================================
