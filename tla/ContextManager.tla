--------------------------- MODULE ContextManager ---------------------------
(***************************************************************************)
(* ContextManagedModelClient, ContextLifecycleManager and the context      *)
(* store (in memory or in Redis), for one context key of one run, with the *)
(* run's checkpoint that refers to an exact context version.               *)
(*                                                                         *)
(* Processes drive the run one after the other, or two at a time when a    *)
(* lease was taken over from a process that is still alive. Each has a     *)
(* manager of its own; store and checkpoint are shared. A managed call is  *)
(* two critical stretches, load to save and generate to record, and        *)
(* anything of another process may happen between their ends.              *)
(***************************************************************************)
EXTENDS ContextItems

CONSTANTS
  Procs,
  Models,
  MaxManaged,  \* bound on managed calls
  MaxExpiries, \* bound on keys Redis lets expire, 0 for the memory store
  MaxStarts,   \* bound on process starts
  MaxRevision  \* bound on the checkpoint's revision and the expiries together

ASSUME BoundsAssumption == {MaxManaged, MaxExpiries, MaxStarts, MaxRevision} \subseteq Nat

VARIABLES
  versions,  \* the store: a function from the revisions it holds to snapshots
  latest,    \* the store's latest pointer, 0 when absent
  ckpt,      \* the saved checkpoint: its revision and context reference
  proc,      \* each process: its manager, its checkpoint copy, its call
  managed, expiries, starts

vars == <<versions, latest, ckpt, proc, managed, expiries, starts>>

Revisions == DOMAIN versions

Quiet == [at |-> "idle", n |-> 0]
Down == [up |-> FALSE, known |-> 0, latest |-> Absent, recovery |-> Absent, open |-> {},
         owed |-> Absent, call |-> Quiet]

Init ==
  /\ versions = [r \in {} |-> Absent]
  /\ latest = 0
  /\ ckpt = [revision |-> 1, ref |-> Absent]
  /\ proc = [p \in Procs |-> Down]
  /\ managed = 0 /\ expiries = 0 /\ starts = 0

-----------------------------------------------------------------------------
(* The store                                                                *)

\* A reference holds the checksum: every saved payload differs (its times and
\* invocation), so the number and stage of the call that wrote it stand for it.
Ref(rev, snap) == [revision |-> rev, checksum |-> snap.stamp]

ASSUME AbsentAssumption == Absent \notin [revision : Nat, checksum : Nat \X {"prepared", "answered"}]

\* load without a revision: no snapshot or the latest one, as a set.
Latest == {versions[r] : r \in Revisions \cap {latest}}

\* save and _SAVE_SCRIPT: the new version and the latest pointer together,
\* if latest is still the expected revision.
CanSave(expected) == latest = expected

SaveVersion(rev, snap) ==
  /\ versions' = [r \in Revisions \cup {rev} |-> IF r = rev THEN snap ELSE versions[r]]
  /\ latest' = rev

\* Mutant: an exact version is taken as it is found.
RestoreUnchecked(ref) == {versions[r] : r \in Revisions \cap {ref.revision}}

\* restore: the exact version, if it is there and its checksum is the one
\* the reference names. No snapshot or that one, as a set.
Restore(ref) ==
  {versions[r] : r \in {x \in Revisions : x = ref.revision /\ versions[x].stamp = ref.checksum}}

\* SET ... EX: the version that was written first goes first, and the pointer
\* together with the last. The retention is longer than a model call.
Expire ==
  /\ expiries < MaxExpiries /\ ckpt.revision + expiries < MaxRevision
  /\ \A p \in Procs : proc[p].call = Quiet
  /\ Revisions # {}
  /\ versions' = [r \in Revisions \ {Min(Revisions)} |-> versions[r]]
  /\ latest' = IF Revisions = {latest} THEN 0 ELSE latest
  /\ expiries' = expiries + 1
  /\ UNCHANGED <<ckpt, proc, managed, starts>>

-----------------------------------------------------------------------------
(* The managed call                                                         *)

ModelRequests(p) ==
  LET n == managed + 1
  IN {[mode |-> "replace", items |-> <<Goal(10 * n), History(10 * n + 1)>>],
      [mode |-> "append", items |-> <<Goal(10 * n)>>]}
     \cup {[mode |-> "append",
            items |-> [i \in 1..Cardinality(proc[p].open) |->
                         Output(10 * n + i - 1, SetToSeq(proc[p].open)[i], blob)]] :
           blob \in IF proc[p].open = {} THEN {} ELSE BOOLEAN}

\* prepare up to the store's answers: the recovery reference is used up, and
\* a reference that cannot be restored fails the call.
Load(p) ==
  /\ proc[p].up /\ proc[p].call = Quiet
  /\ managed < MaxManaged
  /\ managed' = managed + 1
  /\ \E request \in ModelRequests(p), model \in Models :
       LET ref == proc[p].recovery
           existing == IF ref # Absent THEN Restore(ref) ELSE Latest
       IN proc' = [proc EXCEPT ![p] =
            [@ EXCEPT !.recovery = Absent, !.open = {},
                      !.owed = IF ref # Absent /\ existing = {} THEN Absent ELSE proc[p].owed,
                      !.call = IF ref # Absent /\ existing = {} THEN Quiet
                               ELSE [at |-> "loaded", n |-> managed + 1, request |-> request,
                                     model |-> model, existing |-> existing, expected |-> latest]]]
  /\ UNCHANGED <<versions, latest, ckpt, expiries, starts>>

\* The item sequences prepare may build from the request and the existing
\* snapshot; none when an append has nothing to append to, or the snapshot
\* cannot be moved to this model.
Joined(call) ==
  IF call.request.mode = "replace" THEN {call.request.items}
  ELSE UNION {{old \o call.request.items : old \in Compatible(base, call.model, 10 * call.n + 8)} :
              base \in call.existing}

\* What the snapshot has to account for: ids that entered it and are not
\* private state of a provider.
Entered(call) ==
  Ids(call.request.items)
    \cup IF call.request.mode = "replace" THEN {} ELSE UNION {base.entered : base \in call.existing}

\* The snapshots prepare may come to, within the hard threshold.
Prepared(call) ==
  LET archives == UNION {base.archives : base \in call.existing}
      Compacted(items) ==
        IF Projected(items) >= Soft THEN CompactToBudget(items, archives, call.model, 10 * call.n + 4)
        ELSE {[items |-> items, archives |-> archives, out |-> "go"]}
      ready == {s \in UNION {Compacted(items) : items \in Joined(call)} :
                  s.out # "raised" /\ Projected(s.items) < Hard}
  IN {[stamp |-> <<call.n, "prepared">>, items |-> s.items, model |-> call.model,
       archives |-> s.archives, entered |-> Entered(call)] : s \in ready}

\* prepare, from the request's items to the saved snapshot.
Save(p) ==
  /\ proc[p].call.at = "loaded"
  /\ LET call == proc[p].call
         rev == call.expected + 1
     IN /\ CanSave(call.expected)
        /\ \E snap \in Prepared(call) :
             /\ SaveVersion(rev, snap)
             /\ proc' = [proc EXCEPT ![p] =
                  [@ EXCEPT !.latest = Ref(rev, snap),
                            !.call = [at |-> "prepared", n |-> call.n, rev |-> rev, snap |-> snap,
                                      mode |-> call.request.mode, base |-> call.existing]]]
  /\ UNCHANGED <<ckpt, managed, expiries, starts>>

\* prepare raises: no snapshot to append to, incompatible state, the hard
\* threshold, a revision conflict, or the store fails.
SaveFails(p) ==
  /\ proc[p].call.at = "loaded"
  /\ proc' = [proc EXCEPT ![p] = [@ EXCEPT !.call = Quiet, !.owed = Absent]]
  /\ UNCHANGED <<versions, latest, ckpt, managed, expiries, starts>>

\* The output items of a response: text, or a call with the private state of
\* the model beside it (Responses API) or inside it (chat completions). Both
\* adapters give items with every answer, so _response_items is not needed.
Outputs(n, model) ==
  {<<Text(10 * n + 6)>>}
    \cup IF model \in Natives THEN {<<State(10 * n + 6, model), Call(10 * n + 7, Absent)>>}
         ELSE {<<Call(10 * n + 7, model)>>}

\* generate returns and record_response saves the answer after the snapshot
\* it was given for.
Record(p) ==
  /\ proc[p].call.at = "prepared"
  /\ LET call == proc[p].call
         rev == call.rev + 1
     IN /\ CanSave(call.rev)
        /\ \E output \in Outputs(call.n, call.snap.model) :
             LET snap == [call.snap EXCEPT
                            !.stamp = <<call.n, "answered">>,
                            !.items = Release(@) \o output,
                            !.entered = @ \cup {it.id : it \in {x \in ToSet(output) : x.kind # "state"}}]
             IN /\ SaveVersion(rev, snap)
                /\ proc' = [proc EXCEPT ![p] =
                     [@ EXCEPT !.latest = Ref(rev, snap), !.open = OpenCalls(output),
                               !.owed = Absent, !.call = Quiet]]
  /\ UNCHANGED <<ckpt, managed, expiries, starts>>

\* The model fails, or the answer meets a revision conflict and is lost.
RecordFails(p) ==
  /\ proc[p].call.at = "prepared"
  /\ proc' = [proc EXCEPT ![p] = [@ EXCEPT !.call = Quiet, !.owed = Absent]]
  /\ UNCHANGED <<versions, latest, ckpt, managed, expiries, starts>>

-----------------------------------------------------------------------------
(* Checkpoints                                                              *)

\* A process takes the run up: the first event registers the reference of
\* its checkpoint for recovery.
Start(p) ==
  /\ ~proc[p].up
  /\ starts < MaxStarts
  /\ starts' = starts + 1
  /\ proc' = [proc EXCEPT ![p] = [Down EXCEPT !.up = TRUE, !.known = ckpt.revision,
                                              !.recovery = ckpt.ref, !.owed = ckpt.ref]]
  /\ UNCHANGED <<versions, latest, ckpt, managed, expiries>>

\* external_state_references: the recovery reference while it is unused, else
\* the latest version the process has committed.
CurrentRef(p) == IF proc[p].recovery # Absent THEN proc[p].recovery ELSE proc[p].latest

\* prepare_checkpoint and the save that follows, between the calls or, as a
\* heartbeat, while one is under way: after load took the recovery reference
\* and before the call's own version is saved the checkpoint names none, and
\* then it names the version the model is being asked with. A process whose
\* checkpoint copy is stale fails the save's revision test.
Checkpoint(p) ==
  /\ proc[p].up
  /\ proc[p].known = ckpt.revision /\ ckpt.revision + expiries < MaxRevision
  /\ ckpt.ref # CurrentRef(p)    \* other checkpoints change nothing here
  /\ ckpt' = [revision |-> ckpt.revision + 1, ref |-> CurrentRef(p)]
  /\ proc' = [proc EXCEPT ![p].known = ckpt.revision + 1]
  /\ UNCHANGED <<versions, latest, managed, expiries, starts>>

ProcessDies(p) ==
  /\ proc[p].up
  /\ proc' = [proc EXCEPT ![p] = Down]
  /\ UNCHANGED <<versions, latest, ckpt, managed, expiries, starts>>

Next ==
  \/ Expire
  \/ \E p \in Procs : Start(p)
  \/ \E p \in Procs : Load(p)
  \/ \E p \in Procs : Save(p)
  \/ \E p \in Procs : SaveFails(p)
  \/ \E p \in Procs : Record(p)
  \/ \E p \in Procs : RecordFails(p)
  \/ \E p \in Procs : Checkpoint(p)
  \/ \E p \in Procs : ProcessDies(p)

Spec == Init /\ [][Next]_vars

-----------------------------------------------------------------------------
(* Properties                                                               *)

\* The store's latest pointer names a version it holds, a call's revision was
\* reached, and a process that is down keeps nothing.
TypeOK ==
  /\ latest \in 0..(2 * MaxManaged)
  /\ latest # 0 => latest \in Revisions
  /\ \A r \in Revisions :
       /\ r \in 1..latest
       /\ versions[r].model \in Models
       /\ Cardinality(Ids(versions[r].items)) = Len(versions[r].items)
  /\ \A p \in Procs : /\ proc[p].call.at \in {"idle", "loaded", "prepared"}
                      /\ ~proc[p].up => proc[p] = Down

\* Compaction and the move to another model (_compact_to_budget,
\* _compatible_existing_items) lose nothing: whatever entered a context is in
\* the snapshot itself or in one of the archives the snapshot refers to.
NothingForgotten ==
  \A r \in Revisions :
    versions[r].entered \subseteq Ids(versions[r].items) \cup UNION versions[r].archives

\* A request never carries another model's private state: a native compaction
\* or output item or private call metadata would be refused by the provider
\* (_map_input_item) or shown to a stranger.
PrivateStateStaysHome ==
  \A p \in Procs : proc[p].call.at = "prepared" =>
    \A it \in ToSet(proc[p].call.snap.items) : it.home \in {Absent, proc[p].call.snap.model}

\* A call the model is still owed an output for stays in the context word for
\* word, whatever is appended or compacted (README.md of matterloop-runtime:
\* unresolved Tool Call/Output pairs remain pinned).
OpenCallsKept ==
  \A p \in Procs :
    proc[p].call.at = "prepared" /\ proc[p].call.mode = "append" =>
      \A base \in proc[p].call.base : \A it \in ToSet(base.items) :
        it.call \in OpenCalls(base.items) =>
          it.call \in {x.call : x \in {y \in ToSet(proc[p].call.snap.items) : y.kind = "call"}}

\* An answer is recorded directly after the snapshot it was given for: no
\* process slips a version of its own in between (expected_revision of
\* record_response).
AnswerFollowsQuestion ==
  \A r \in Revisions :
    versions[r].stamp[2] = "answered" /\ r - 1 \in Revisions =>
      versions[r - 1].stamp = <<versions[r].stamp[1], "prepared">>

\* The first context built after a restart continues the version the
\* checkpoint names, not a later one and not another one of the same number,
\* unless that call fails (restore). A checkpoint that names none, as the
\* heartbeats of ReferenceKept leave it, owes the next process nothing.
ContinuesCheckpoint ==
  \A p \in Procs :
    proc[p].call.at = "prepared" /\ proc[p].owed # Absent =>
      \E base \in proc[p].call.base : base.stamp = proc[p].owed.checksum

\* The version a checkpoint refers to is in the store, as long as the store
\* lets none expire: a reference is noted only when its version is saved.
CheckpointResolves ==
  expiries = 0 /\ ckpt.ref # Absent => Restore(ckpt.ref) # {}

\* A context that is sent is complete and only the model's own: nothing that
\* entered is lost, nothing private leaves, no open call is dropped
\* (ContextLifecycleManager.prepare, _compact_to_budget).
ContextComplete == TypeOK /\ NothingForgotten /\ PrivateStateStaysHome /\ OpenCallsKept

\* A checkpoint that named a version stops naming one in the hands of a process
\* that has no version of its own yet: its first call has taken the recovery
\* reference and is about to save, or it failed. Never while the model is
\* asked, and never after an answer was recorded (external_state_references,
\* prepare_checkpoint).
ReferenceKept ==
  [][ckpt.ref # Absent /\ ckpt'.ref = Absent =>
       \E p \in Procs :
         /\ proc[p].up /\ proc[p].known = ckpt.revision
         /\ proc[p].recovery = Absent /\ proc[p].latest = Absent
         /\ proc[p].call.at = "loaded" \/ (proc[p].call = Quiet /\ proc[p].owed = Absent)]_vars

\* The versions in the store form the line the calls made, over restarts,
\* heartbeats and with other processes at work (record_response, restore,
\* prepare_checkpoint).
VersionsFollow ==
  /\ [](AnswerFollowsQuestion /\ ContinuesCheckpoint /\ CheckpointResolves)
  /\ ReferenceKept
=============================================================================
