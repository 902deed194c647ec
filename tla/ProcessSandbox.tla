--------------------------- MODULE ProcessSandbox ---------------------------
(***************************************************************************)
(* One command of ShellTool (matterloop_tools/shell.py) in the             *)
(* LocalProcessSandbox of matterloop_runtime/sandbox.py: the coroutine     *)
(* that feeds, waits, kills and collects; its two reader tasks, which      *)
(* share one budget of kept bytes; and the child process, which writes     *)
(* while it lives and may leave its pipes open in a process of its own.    *)
(* Bytes are the positions 1, 2, ... of a stream; the child, the pipes and *)
(* the passing of time are the environment.                                *)
(***************************************************************************)
EXTENDS Naturals, Sequences, FiniteSets, FiniteSetsExt

CONSTANTS
  Commands,     \* allowed_commands
  MaxTimeout,   \* max_timeout_seconds
  Keep,         \* max_output_bytes
  MaxWritten,   \* bound on what the child writes to a stream
  ReadSize      \* bytes of one stream.read

ASSUME SandboxAssumption == {MaxTimeout, Keep, MaxWritten, ReadSize} \subseteq Nat \ {0}

Streams == {"stdout", "stderr"}

VARIABLES
  command,   \* the stage of ShellTool.invoke and the sandbox's run
  child,     \* [state, code, reads]: reads is TRUE while it reads its stdin
  written,   \* bytes written to each stream
  taken,     \* bytes each reader has taken from its stream
  keptBytes, \* positions each reader has kept
  budget,    \* the shared _OutputBudget
  holder,    \* a descendant of the child holds its pipes
  outcome    \* what the call ended with

sandboxVars == <<command, child, written, taken, keptBytes, budget, holder, outcome>>

NoOutcome == [timedOut |-> FALSE, code |-> 0, error |-> FALSE, how |-> "none"]

SandboxInit ==
  /\ command = "idle"
  /\ child = [state |-> "none", code |-> 0, reads |-> FALSE]
  /\ written = [s \in Streams |-> 0]
  /\ taken = [s \in Streams |-> 0]
  /\ keptBytes = [s \in Streams |-> {}]
  /\ budget = [remaining |-> Keep, truncated |-> FALSE]
  /\ holder = FALSE
  /\ outcome = NoOutcome

\* ShellTool.invoke: the checks before anything runs.
AllowedArguments(c, timeout) == c \in Commands /\ timeout > 0 /\ timeout <= MaxTimeout

\* _resolve_cwd or one of the checks refuses the call.
RefuseCommand(c, timeout) ==
  /\ command = "idle" /\ ~AllowedArguments(c, timeout)
  /\ command' = "ended" /\ outcome' = [NoOutcome EXCEPT !.how = "refused"]
  /\ UNCHANGED <<child, written, taken, keptBytes, budget, holder>>

\* run: the process is started with both readers; input too large for the
\* pipe waits in drain.
StartCommand(c, timeout, input) ==
  /\ command = "idle" /\ AllowedArguments(c, timeout)
  /\ child' = [state |-> "alive", code |-> 0, reads |-> FALSE]
  /\ command' = IF input = "large" THEN "feeding" ELSE "waiting"
  /\ UNCHANGED <<written, taken, keptBytes, budget, holder, outcome>>

\* drain returns when the child reads its input, or has gone
\* (BrokenPipeError is swallowed); stdin is closed.
Fed ==
  /\ command = "feeding" /\ (child.reads \/ child.state = "dead")
  /\ command' = "waiting"
  /\ UNCHANGED <<child, written, taken, keptBytes, budget, holder, outcome>>

\* wait_for(process.wait()) sees the exit in time.
Waited ==
  /\ command = "waiting" /\ child.state = "dead"
  /\ command' = "gathering"
  /\ UNCHANGED <<child, written, taken, keptBytes, budget, holder, outcome>>

Kill == child' = [child EXCEPT !.state = IF @ = "alive" THEN "killed" ELSE @]

\* The time is up, perhaps before an exit is noticed: the process is killed,
\* if it lives, and waited for.
TimeIsUp ==
  /\ command = "waiting"
  /\ command' = "reaping" /\ outcome' = [outcome EXCEPT !.timedOut = TRUE]
  /\ Kill
  /\ UNCHANGED <<written, taken, keptBytes, budget, holder>>

\* The time is up, or the caller cancelled, just when the exit has been processed
\* and the pipes are closed: process.kill finds no process and raises
\* ProcessLookupError, which replaces the timeout or the cancellation.
KillFindsNone ==
  /\ command = "waiting" /\ child.state = "dead" /\ ~holder
  /\ command' = "ended" /\ outcome' = [outcome EXCEPT !.how = "no process"]
  /\ UNCHANGED <<child, written, taken, keptBytes, budget, holder>>

\* process.wait after the kill, for a timeout or for a cancellation.
Reap ==
  /\ command \in {"reaping", "cancelling"} /\ child.state = "dead"
  /\ command' = IF command = "reaping" THEN "gathering" ELSE "ended"
  /\ outcome' = IF command = "reaping" THEN outcome ELSE [outcome EXCEPT !.how = "cancelled"]
  /\ UNCHANGED <<child, written, taken, keptBytes, budget, holder>>

\* The caller is cancelled. While it waits for the process it kills it first;
\* everywhere else the cancellation leaves at once.
CancelCommand ==
  /\ command \in {"feeding", "waiting", "reaping", "gathering"}
  /\ IF command = "waiting"
     THEN command' = "cancelling" /\ Kill /\ UNCHANGED outcome
     ELSE /\ command' = "ended"
          /\ outcome' = [outcome EXCEPT !.how =
               IF command = "feeding" THEN "cancelled feeding" ELSE "cancelled"]
          /\ UNCHANGED child
  /\ UNCHANGED <<written, taken, keptBytes, budget, holder>>

\* Mutant: a chunk that does not fit is dropped, and the rest stays free.
KeepChunkWhole(s, chunk) ==
  IF Cardinality(chunk) <= budget.remaining
  THEN /\ keptBytes' = [keptBytes EXCEPT ![s] = @ \cup chunk]
       /\ budget' = [budget EXCEPT !.remaining = @ - Cardinality(chunk)]
  ELSE budget' = [budget EXCEPT !.truncated = TRUE] /\ UNCHANGED keptBytes

\* _OutputBudget.keep: what still fits of the chunk; past it nothing more.
KeepChunk(s, chunk) ==
  LET room == {b \in chunk : b < Min(chunk) + budget.remaining}
  IN /\ keptBytes' = [keptBytes EXCEPT ![s] = @ \cup room]
     /\ budget' = IF room = chunk
                  THEN [budget EXCEPT !.remaining = @ - Cardinality(chunk)]
                  ELSE [remaining |-> 0, truncated |-> TRUE]

\* _read_stream: one read returns some of what is in the pipe.
ReadChunk(s, n) ==
  LET chunk == (taken[s] + 1)..(taken[s] + n)
  IN /\ command \notin {"idle", "ended"} /\ taken[s] + n <= written[s]
     /\ taken' = [taken EXCEPT ![s] = @ + n]
     /\ KeepChunk(s, chunk)
     /\ UNCHANGED <<command, child, written, holder, outcome>>

\* The end of a stream: nothing left to read and nobody to write.
AtEnd(s) == taken[s] = written[s] /\ child.state = "dead" /\ ~holder

\* gather and the ProcessResult, and what ShellTool makes of it.
Collect ==
  /\ command = "gathering" /\ \A s \in Streams : AtEnd(s)
  /\ command' = "ended"
  /\ outcome' = [outcome EXCEPT !.code = child.code, !.how = "returned",
                   !.error = child.code # 0 \/ outcome.timedOut]
  /\ UNCHANGED <<child, written, taken, keptBytes, budget, holder>>

\* The child: writes, reads its input, starts a process that inherits its
\* pipes, exits with a code of its own, or dies of the kill.
ChildWrites(s) ==
  /\ child.state = "alive" \/ holder
  /\ written[s] < MaxWritten
  /\ written' = [written EXCEPT ![s] = @ + 1]
  /\ UNCHANGED <<command, child, taken, keptBytes, budget, holder, outcome>>

ChildReads ==
  /\ child.state = "alive" /\ ~child.reads
  /\ child' = [child EXCEPT !.reads = TRUE]
  /\ UNCHANGED <<command, written, taken, keptBytes, budget, holder, outcome>>

ChildForks ==
  /\ child.state = "alive" /\ ~holder /\ holder' = TRUE
  /\ UNCHANGED <<command, child, written, taken, keptBytes, budget, outcome>>

HolderEnds ==
  /\ holder /\ holder' = FALSE
  /\ UNCHANGED <<command, child, written, taken, keptBytes, budget, outcome>>

ChildExits(code) ==
  /\ child.state \in {"alive", "killed"}
  /\ child' = [child EXCEPT !.state = "dead", !.code = IF child.state = "alive" THEN code ELSE 9]
  /\ UNCHANGED <<command, written, taken, keptBytes, budget, holder, outcome>>

SandboxNext ==
  \/ \E c \in Commands \cup {"other"}, t \in 0..(MaxTimeout + 1) : RefuseCommand(c, t)
  \/ \E c \in Commands, t \in 1..MaxTimeout, i \in {"none", "large"} : StartCommand(c, t, i)
  \/ Fed
  \/ Waited
  \/ TimeIsUp
  \/ KillFindsNone
  \/ Reap
  \/ CancelCommand
  \/ \E s \in Streams, n \in 1..ReadSize : ReadChunk(s, n)
  \/ Collect
  \/ \E s \in Streams : ChildWrites(s)
  \/ ChildReads
  \/ ChildForks
  \/ HolderEnds
  \/ \E code \in 0..1 : ChildExits(code)

SandboxSpec == SandboxInit /\ [][SandboxNext]_sandboxVars

-----------------------------------------------------------------------------
\* A returned result tells the truth about the output: what is kept of each
\* stream is its beginning; without the truncation mark it is all of both;
\* with it, the budget was used to the last byte (the two readers share
\* _OutputBudget without a lock).
OutputHonest ==
  /\ \A s \in Streams : keptBytes[s] = 1..Cardinality(keptBytes[s])
  /\ outcome.how = "returned" =>
       IF budget.truncated
       THEN Cardinality(keptBytes["stdout"]) + Cardinality(keptBytes["stderr"]) = Keep
       ELSE \A s \in Streams : keptBytes[s] = 1..written[s]

\* However a started command ends, its process is dead or has been sent the
\* kill; the exception is a cancellation while the input is still being fed,
\* which leaves it running (run, the wait_for and its handlers).
NoProcessLeft ==
  outcome.how \in {"returned", "cancelled", "no process"} => child.state \in {"killed", "dead"}

\* A result that is no error is that of a process that came to its own end
\* with code zero and was not stopped (ShellTool.invoke).
SuccessMeansExit ==
  outcome.how = "returned" /\ ~outcome.error =>
    child.state = "dead" /\ child.code = 0 /\ ~outcome.timedOut

\* A command's result tells what happened and its process does not outlive it,
\* in every order of output, exit, timeout and cancellation (sandbox.py).
SandboxSound == OutputHonest /\ NoProcessLeft /\ SuccessMeansExit
=============================================================================
