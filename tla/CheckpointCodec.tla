-------------------------- MODULE CheckpointCodec ---------------------------
(***************************************************************************)
(* LoopCheckpointCodec of matterloop_core/context/checkpoint.py, and       *)
(* RedisPayloadCodec (matterloop_integration_redis/codec.py), which puts   *)
(* checkpoints into job and run record payloads. A process holds a         *)
(* context, writes it, and what another process reads may be old (version  *)
(* 1, without external references), damaged, or put together from two      *)
(* writes.                                                                 *)
(*                                                                         *)
(* A value is its class: what the readers and the constructors of the      *)
(* dataclasses tell apart. Of the fields with the same reader and the same *)
(* constructor check one or two stand for all.                             *)
(***************************************************************************)
EXTENDS Naturals, Sequences, FiniteSets

CONSTANT MaxDamage   \* bound on damages

VARIABLES
  ctx,    \* the context that is written
  paper,   \* the JSON: form, version, fields, envelope; or its absence
  back      \* what was read: how ("nothing", "error", "context") and the fields

codecVars == <<ctx, paper, back>>

-----------------------------------------------------------------------------
\* The fields by their reader in decode and its helpers.
TextFields == {"run_id", "goal", "step_id", "prompt", "ref_key"}
EnumFields == {"status", "action_kind"}
EmptyTextFields == {"feedback", "output"}
CountFields == {"current_step_index", "cycle_count"}
PositiveFields == {"max_cycles", "record_cycle", "ref_revision"}
FlagFields == {"replan_required", "passed"}
GroupFields == {"current_plan", "pending_interaction", "pending_execution"}
ListFields == {"records", "external_state_refs"}

Fields ==
  TextFields \cup EnumFields \cup EmptyTextFields \cup CountFields \cup PositiveFields
    \cup FlagFields \cup GroupFields \cup ListFields
    \cup {"stop_reason", "pending_attempt", "active_operation_id", "timeout_seconds", "score",
          "active_elapsed_seconds", "started_at", "last_heartbeat_at", "metadata",
          "failed_criteria"}

\* The object a field is in; it is read when the object is there.
ParentOf(f) ==
  CASE f = "step_id" -> "current_plan"
    [] f \in {"prompt", "action_kind"} -> "pending_interaction"
    [] f = "output" -> "pending_execution"
    [] f \in {"record_cycle", "passed", "score", "failed_criteria"} -> "records"
    [] f \in {"ref_key", "ref_revision"} -> "external_state_refs"
    [] OTHER -> "context"

There(fields, f) == ParentOf(f) = "context" \/ fields[ParentOf(f)] \in {"object", "some"}

\* The classes. A string is blank, a member of the enumeration the field
\* wants, a time with a zone, or a time without one; a number may be no
\* integer, or not finite; an object may hold what JSON cannot.
Text == {"word", "stamp", "naive"}
Integers == {"negative", "zero", "positive", "large"}
Numbers == Integers \cup {"fraction"}
JsonClasses ==
  Text \cup Numbers \cup {"absent", "null", "true", "false", "infinite", "blank", "none", "some",
                          "blanks", "object", "alien"}

Optional(classes) == classes \cup {"null", "absent"}

\* _text, _integer, _boolean, _number, _datetime, their optional forms,
\* _sequence, _mapping and _metadata: what each lets through.
Reads(f) ==
  CASE f \in TextFields -> Text
    [] f \in EnumFields -> {"word"}
    [] f \in EmptyTextFields -> Text \cup {"blank"}
    [] f \in CountFields \cup PositiveFields -> Integers
    [] f \in FlagFields -> {"true", "false"}
    [] f \in GroupFields -> Optional({"object"})
    [] f \in ListFields -> {"none", "some"}
    [] f = "stop_reason" -> Optional({"word"})
    [] f = "pending_attempt" -> Optional(Integers)
    [] f = "active_operation_id" -> Optional(Text)
    [] f \in {"timeout_seconds", "score"} -> Optional(Numbers)
    [] f = "active_elapsed_seconds" -> Numbers
    [] f = "started_at" -> {"stamp"}
    [] f = "last_heartbeat_at" -> Optional({"stamp"})
    [] f = "metadata" -> {"object"}
    [] f = "failed_criteria" -> {"none", "some"}

\* The constructors of LoopLimits, PlanStep, VerificationResult,
\* IterationRecord, ExternalStateRef and the human interaction: what they
\* refuse of a value that was read.
Constructed(fields) ==
  /\ \A f \in PositiveFields : There(fields, f) => fields[f] \notin {"negative", "zero"}
  /\ fields["timeout_seconds"] \notin {"negative", "zero"}
  /\ There(fields, "score") => fields["score"] \notin {"negative", "large"}
  /\ There(fields, "passed") /\ fields["failed_criteria"] = "some"
       => fields["passed"] = "false"

\* _validate_context.
ValidContext(fields) ==
  /\ \A f \in CountFields : fields[f] # "negative"
  /\ fields["active_elapsed_seconds"] # "negative"
  /\ fields["pending_attempt"] \notin {"negative", "zero"}
  /\ fields["pending_execution"] = "object" =>
       fields["active_operation_id"] \in Text /\ fields["pending_attempt"] \in Integers
  /\ fields["current_plan"] = "object" => fields["current_step_index"] # "large"

-----------------------------------------------------------------------------
\* What a context can hold while the program runs: values the constructors
\* accept, counters that count, times with a zone. Metadata is free: it may
\* hold tuples, or values that are no JSON.
Holds(f) ==
  CASE f \in TextFields -> Text
    [] f \in EnumFields -> {"word"}
    [] f \in EmptyTextFields -> Text \cup {"blank"}
    [] f \in CountFields -> {"zero", "positive", "large"}
    [] f \in PositiveFields -> {"positive", "large"}
    [] f \in FlagFields -> {"true", "false"}
    [] f \in GroupFields -> {"null", "object"}
    [] f \in ListFields -> {"none", "some"}
    [] f = "stop_reason" -> {"null", "word"}
    [] f = "pending_attempt" -> {"null", "positive", "large"}
    [] f = "active_operation_id" -> Text \cup {"null"}
    [] f = "timeout_seconds" -> {"null", "positive", "large", "fraction"}
    [] f = "score" -> {"null", "zero", "positive", "fraction"}
    [] f = "active_elapsed_seconds" -> {"zero", "positive", "large", "fraction"}
    [] f = "started_at" -> {"stamp"}
    [] f = "last_heartbeat_at" -> {"null", "stamp"}
    [] f = "metadata" -> {"object", "tuples", "alien"}
    [] f = "failed_criteria" -> {"none", "some"}

\* The controller sets operation, attempt and result together and keeps its
\* index within the plan; without a plan the index means nothing.
Consistent(c) ==
  /\ \A f \in Fields : IF There(c, f) THEN c[f] \in Holds(f) ELSE c[f] = "absent"
  /\ c["pending_execution"] = "object" =>
       c["active_operation_id"] # "null" /\ c["pending_attempt"] # "null"
  /\ c["current_plan"] = "object" => c["current_step_index"] # "large"
  /\ There(c, "passed") /\ c["failed_criteria"] = "some" => c["passed"] = "false"

\* A context before its first plan, and one in the middle of a step.
Fresh ==
  [f \in Fields |->
    CASE ParentOf(f) # "context" -> "absent"
      [] f \in TextFields \cup EnumFields -> "word"
      [] f \in EmptyTextFields -> "blank"
      [] f \in PositiveFields -> "positive"
      [] f \in CountFields \cup {"active_elapsed_seconds"} -> "zero"
      [] f \in FlagFields -> "false"
      [] f \in ListFields -> "none"
      [] f = "started_at" -> "stamp"
      [] f = "metadata" -> "object"
      [] OTHER -> "null"]

InStep ==
  [f \in Fields |->
    CASE f \in GroupFields -> "object"
      [] f \in ListFields -> "some"
      [] f \in TextFields \cup EnumFields -> "word"
      [] f \in {"active_operation_id", "output", "feedback"} -> "word"
      [] f \in CountFields \cup PositiveFields \cup {"pending_attempt"} -> "positive"
      [] f \in FlagFields -> "false"
      [] f \in {"started_at", "last_heartbeat_at"} -> "stamp"
      [] f = "active_elapsed_seconds" -> "fraction"
      [] f = "failed_criteria" -> "none"
      [] f = "metadata" -> "object"
      [] OTHER -> "null"]

Contexts ==
  {c \in {[b EXCEPT ![f] = v, ![g] = w] :
             b \in {Fresh, InStep}, f \in Fields, v \in JsonClasses \cup {"tuples"},
             g \in {"metadata", "active_operation_id"}, w \in {"object", "tuples", "word", "null"}} :
     Consistent(c)}

NoPaper == [form |-> "none"]

CodecInit == ctx = Fresh /\ paper = NoPaper /\ back = [how |-> "nothing", fields |-> Fresh]

-----------------------------------------------------------------------------
\* _json_value: a tuple becomes an array; what is no JSON is refused.
JsonValue(class) == IF class = "tuples" THEN "object" ELSE class

Encodable(c) == c["metadata"] # "alien"

\* encode and its parts: every field, under its name.
Encoded(c) == [c EXCEPT !["metadata"] = JsonValue(@)]

Agreeing == [run |-> TRUE, status |-> TRUE, request |-> TRUE]

Paper(form, version, fields, envelope) ==
  [form |-> form, version |-> version, fields |-> fields, envelope |-> envelope, damage |-> 0]

\* dumps.
WriteCheckpoint ==
  /\ paper = NoPaper /\ Encodable(ctx)
  /\ paper' = Paper("checkpoint", 2, Encoded(ctx), Agreeing)
  /\ UNCHANGED <<ctx, back>>

\* A checkpoint of the version before: no external references.
WriteOldCheckpoint ==
  /\ paper = NoPaper /\ Encodable(ctx)
  /\ paper' = Paper("checkpoint", 1,
        [Encoded(ctx) EXCEPT !["external_state_refs"] = "absent", !["ref_key"] = "absent",
                              !["ref_revision"] = "absent"], Agreeing)
  /\ UNCHANGED <<ctx, back>>

\* The context a run record keeps of a result: the request, identity, status,
\* records, counts, stop reason and error. What a human is asked, the
\* operation and the heartbeat are not among them.
ResultContext(c) ==
  [f \in Fields |->
    IF \/ f \in {"run_id", "status", "records", "cycle_count", "stop_reason", "started_at",
                 "goal", "max_cycles", "timeout_seconds", "metadata"}
       \/ ParentOf(f) = "records"
    THEN c[f] ELSE Fresh[f]]

\* dumps_record: refused when the result is not that of the record.
WriteRecord(run, status) ==
  /\ paper = NoPaper /\ Encodable(ctx) /\ run /\ status
  /\ paper' = Paper("record", 2, Encoded(ResultContext(ctx)), Agreeing)
  /\ UNCHANGED <<ctx, back>>

\* dumps_job: the request, as a context that has not begun.
WriteJob ==
  /\ paper = NoPaper /\ Encodable(ctx)
  /\ paper' = Paper("job", 2,
        Encoded([f \in Fields |-> IF f \in {"run_id", "goal", "max_cycles", "timeout_seconds",
                                            "metadata"} THEN ctx[f] ELSE Fresh[f]]), Agreeing)
  /\ UNCHANGED <<ctx, back>>

\* What happens to a text between two processes: a field is lost or becomes
\* something else, the version is unknown, or parts of two payloads meet.
Exposed == paper # NoPaper /\ paper.damage < MaxDamage /\ back.how = "nothing"

DamageField(f, class) ==
  /\ Exposed /\ ctx \in {Fresh, InStep} /\ paper.fields[f] # class
  /\ paper' = [paper EXCEPT !.fields[f] = class, !.damage = @ + 1]
  /\ UNCHANGED <<ctx, back>>

DamageVersion ==
  /\ Exposed /\ paper.version = 2
  /\ paper' = [paper EXCEPT !.version = 3, !.damage = @ + 1]
  /\ UNCHANGED <<ctx, back>>

MixEnvelopes(part) ==
  /\ Exposed /\ paper.form # "checkpoint" /\ paper.envelope[part]
  /\ paper' = [paper EXCEPT !.envelope[part] = FALSE, !.damage = @ + 1]
  /\ UNCHANGED <<ctx, back>>

\* decode: null for what is missing; a checkpoint of version 1 has no
\* external references, whatever it says.
Decoded(p) ==
  [f \in Fields |->
    CASE p.version = 1 /\ f = "external_state_refs" -> "none"
      [] p.version = 1 /\ ParentOf(f) = "external_state_refs" -> "absent"
      [] ~There(p.fields, f) -> "absent"
      [] p.fields[f] = "absent" -> "null"
      [] OTHER -> p.fields[f]]

Readable(p) ==
  /\ p.version \in {1, 2}
  /\ \A f \in Fields :
       /\ There(p.fields, f)
       /\ ~(p.version = 1 /\ "external_state_refs" \in {f, ParentOf(f)})
       => p.fields[f] \in Reads(f)
  /\ Constructed(Decoded(p)) /\ ValidContext(Decoded(p))

\* loads_job and loads_record: the outer identity, status and request are
\* those of the checkpoints inside.
Agrees(p) ==
  CASE p.form = "checkpoint" -> TRUE
    [] p.form = "job" -> p.envelope.run
    [] OTHER -> p.envelope.run /\ p.envelope.status /\ p.envelope.request

\* loads, loads_job, loads_record.
ReadPaper ==
  /\ paper # NoPaper /\ back.how = "nothing"
  /\ back' = IF Readable(paper) /\ Agrees(paper)
            THEN [how |-> "context", fields |-> Decoded(paper)] ELSE [back EXCEPT !.how = "error"]
  /\ UNCHANGED <<ctx, paper>>

\* The run goes on before it is written.
GoOn(c) == ctx = Fresh /\ paper = NoPaper /\ ctx' = c /\ UNCHANGED <<paper, back>>

CodecNext ==
  \/ \E c \in Contexts : GoOn(c)
  \/ WriteCheckpoint
  \/ WriteOldCheckpoint
  \/ \E run, status \in BOOLEAN : WriteRecord(run, status)
  \/ WriteJob
  \/ \E f \in Fields, class \in JsonClasses : DamageField(f, class)
  \/ DamageVersion
  \/ \E part \in {"run", "status", "request"} : MixEnvelopes(part)
  \/ ReadPaper

-----------------------------------------------------------------------------
Sound == paper # NoPaper /\ paper.damage = 0

\* Every context the program can be in survives the way through JSON: what
\* encode writes, decode accepts and gives back field by field, tuples in
\* metadata having become arrays. A checkpoint of version 1 comes back
\* without external references, a run record without what a result leaves out
\* (encode, decode, dumps_record and loads_record are two lists of fields).
ReadIsWritten ==
  Sound /\ back.how # "nothing" =>
    /\ back.how = "context"
    /\ \A f \in Fields :
         \/ back.fields[f] = JsonValue(ctx[f])
         \/ paper.version = 1 /\ "external_state_refs" \in {f, ParentOf(f)}
         \/ paper.form # "checkpoint" /\ back.fields[f] = Fresh[f]

\* Whatever happened to the text, a context that is read is one the program
\* could have held: decode either raises or keeps the rules of all
\* constructors and of the controller (decode, _validate_context).
NothingInvalid == back.how = "context" => Consistent(back.fields)

\* A payload put together from two writes is refused: a worker never runs the
\* request of one run under the identity of another, and nobody is told the
\* result of one request for another (loads_job, loads_record).
NothingMixed ==
  back.how = "context" =>
    CASE paper.form = "job" -> paper.envelope.run
      [] paper.form = "record" -> paper.envelope = Agreeing
      [] OTHER -> TRUE

=============================================================================
