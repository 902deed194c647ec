---------------------------- MODULE TeamRuntime ----------------------------
(***************************************************************************)
(* AsyncTeamRuntime and LocalTeamRuntime (collaboration/runtime.py).         *)
(*                                                                         *)
(* Threads call the LocalTeamRuntime and block on their future; it runs an    *)
(* event loop in a thread of its own, whose ready callbacks are a FIFO.  The   *)
(* loop serves the AsyncTeamRuntime, which counts operations and closes its    *)
(* resources when they are over.  A host may close either, twice, and an        *)
(* operation may close the runtime it runs on.                                *)
(*                                                                         *)
(* The bodies under AsyncTeamRuntime's asyncio lock never suspend, so each is   *)
(* part of one step; LocalTeamRuntime's state lock is held from its check to    *)
(* run_coroutine_threadsafe in _submit, and not in close.                     *)
(***************************************************************************)
EXTENDS Naturals, Sequences, FiniteSets

CONSTANTS
    Clients,     \* threads that call run, resume, cancel, get or list
    Stoppers,    \* threads that call close
    Resources    \* how many resources the runtime closes

\* What the runtime itself puts among the loop's callbacks.
RtCalls == {"aclose", "acloseAndStop", "stop"}

ASSUME TeamRuntimeAssumption ==
    Resources \in Nat /\ IsFiniteSet(Clients) /\ Clients \cap RtCalls = {}

VARIABLES
    client,      \* where each client is
    stopper,     \* where each closing thread is
    localClosed, \* LocalTeamRuntime._closed
    ready,       \* the loop's callbacks: a client, "aclose", "acloseAndStop" or "stop"
    loop,        \* "runs", "stopped" (run_forever returned) or "over"
    shut,        \* AsyncTeamRuntime._closed
    inFlight,    \* _active_operations
    closing,     \* the close task: "none", "drain", "close", "done"
    left,        \* how many resources it still has to close
    stopAfter,   \* whether the loop stops when the close task is over
    freed        \* the resources closed, in order

teamRtVars == <<client, stopper, localClosed, ready, loop, shut, inFlight, closing,
                left, stopAfter, freed>>

TeamRtInit ==
    /\ client = [c \in Clients |-> "idle"] /\ stopper = [k \in Stoppers |-> "idle"]
    /\ localClosed = FALSE /\ ready = <<>> /\ loop = "runs" /\ shut = FALSE
    /\ inFlight = 0 /\ closing = "none" /\ left = 0 /\ stopAfter = FALSE /\ freed = <<>>

AsyncSide == <<shut, inFlight, closing, left, stopAfter, freed>>

----------------------------------------------------------------------------
(* LocalTeamRuntime, from the threads                                       *)

\* Mutant: the coroutine is scheduled without a look at _closed.
SubmitUnchecked(c) ==
    /\ client[c] = "idle" /\ client' = [client EXCEPT ![c] = "queued"]
    /\ ready' = Append(ready, c)
    /\ UNCHANGED <<stopper, localClosed, loop, AsyncSide>>

\* _submit
Submit(c) ==
    /\ client[c] = "idle"
    /\ client' = [client EXCEPT ![c] = IF localClosed THEN "refused" ELSE "queued"]
    /\ ready' = IF localClosed THEN ready ELSE Append(ready, c)
    /\ UNCHANGED <<stopper, localClosed, loop, AsyncSide>>

\* close: the flag under the lock, the coroutine after it.
CloseLocal(k) ==
    /\ stopper[k] = "idle" /\ localClosed' = TRUE
    /\ stopper' = [stopper EXCEPT ![k] = IF localClosed THEN "returned" ELSE "schedule"]
    /\ UNCHANGED <<client, ready, loop, AsyncSide>>

ScheduleClose(k) ==
    /\ stopper[k] = "schedule" /\ stopper' = [stopper EXCEPT ![k] = "waits"]
    /\ ready' = Append(ready, "aclose")
    /\ UNCHANGED <<client, localClosed, loop, AsyncSide>>

\* future.result(), answered or raising; then stop in any case, and join.
StopLoop(k) ==
    /\ stopper[k] = "waits" /\ closing = "done"
    /\ stopper' = [stopper EXCEPT ![k] = "joins"] /\ ready' = Append(ready, "stop")
    /\ UNCHANGED <<client, localClosed, loop, AsyncSide>>

JoinLoop(k) ==
    /\ stopper[k] = "joins" /\ loop = "over" /\ stopper' = [stopper EXCEPT ![k] = "returned"]
    /\ UNCHANGED <<client, localClosed, ready, loop, AsyncSide>>

----------------------------------------------------------------------------
(* The event loop and AsyncTeamRuntime                                      *)

NextReady == /\ loop = "runs" /\ ready # <<>> /\ ready' = Tail(ready)

\* _begin_operation: refused once aclose was called.
BeginOperation(c) ==
    /\ NextReady /\ Head(ready) = c
    /\ client' = [client EXCEPT ![c] = IF shut THEN "refused" ELSE "running"]
    /\ inFlight' = IF shut THEN inFlight ELSE inFlight + 1
    /\ UNCHANGED <<stopper, localClosed, loop, shut, closing, left, stopAfter, freed>>

\* The operation answers or raises; _end_operation runs either way.
EndOperation(c) ==
    /\ loop = "runs" /\ client[c] = "running"
    /\ client' = [client EXCEPT ![c] = "answered"] /\ inFlight' = inFlight - 1
    /\ UNCHANGED <<stopper, localClosed, ready, loop, shut, closing, left, stopAfter, freed>>

\* close() called by an operation, on the loop's own thread.
CloseFromLoop(c) ==
    /\ loop = "runs" /\ client[c] = "running" /\ ~localClosed /\ localClosed' = TRUE
    /\ ready' = Append(ready, "acloseAndStop")
    /\ UNCHANGED <<client, stopper, loop, AsyncSide>>

\* A host closes the AsyncTeamRuntime itself.  Bound: while it is open.
HostAclose ==
    /\ loop = "runs" /\ ~shut /\ "aclose" \notin {ready[i] : i \in DOMAIN ready}
    /\ ready' = Append(ready, "aclose")
    /\ UNCHANGED <<client, stopper, localClosed, loop, AsyncSide>>

CloseTask == IF closing = "none" THEN "drain" ELSE closing

\* aclose: one close task for all callers.
Aclose ==
    /\ NextReady /\ Head(ready) \in {"aclose", "acloseAndStop"}
    /\ shut' = TRUE /\ closing' = CloseTask
    /\ stopAfter' = (stopAfter \/ Head(ready) = "acloseAndStop")
    /\ UNCHANGED <<client, stopper, localClosed, loop, inFlight, left, freed>>

Drained == inFlight = 0

\* _close_resources: the last resource first; one that fails does not keep the
\* others open.
StartClosing ==
    /\ loop = "runs" /\ closing = "drain" /\ Drained
    /\ closing' = "close" /\ left' = Resources
    /\ UNCHANGED <<client, stopper, localClosed, ready, loop, shut, inFlight, stopAfter, freed>>

CloseResource ==
    /\ loop = "runs" /\ closing = "close" /\ left > 0
    /\ freed' = Append(freed, left) /\ left' = left - 1
    /\ UNCHANGED <<client, stopper, localClosed, ready, loop, shut, inFlight, closing, stopAfter>>

\* The close task ends; its callback stops the loop if close() ran on it.
EndClosing ==
    /\ loop = "runs" /\ closing = "close" /\ left = 0 /\ closing' = "done"
    /\ ready' = IF stopAfter THEN Append(ready, "stop") ELSE ready
    /\ UNCHANGED <<client, stopper, localClosed, loop, shut, inFlight, left, stopAfter, freed>>

\* The close task was over already when close() on the loop asked for it.
StopAfterClose ==
    /\ loop = "runs" /\ closing = "done" /\ stopAfter /\ "stop" \notin {ready[i] : i \in DOMAIN ready}
    /\ ready' = Append(ready, "stop")
    /\ UNCHANGED <<client, stopper, localClosed, loop, AsyncSide>>

Stop ==
    /\ NextReady /\ Head(ready) = "stop" /\ loop' = "stopped"
    /\ UNCHANGED <<client, stopper, localClosed, AsyncSide>>

\* _serve after run_forever: what is pending is cancelled, then the loop closes.
Serve ==
    /\ loop = "stopped" /\ loop' = "over"
    /\ client' = [c \in Clients |-> IF client[c] = "running" THEN "cancelled" ELSE client[c]]
    /\ inFlight' = 0
    /\ UNCHANGED <<stopper, localClosed, ready, shut, closing, left, stopAfter, freed>>

TeamRtNext ==
    \/ (\E c \in Clients : Submit(c) \/ BeginOperation(c) \/ EndOperation(c) \/ CloseFromLoop(c))
    \/ (\E k \in Stoppers : CloseLocal(k) \/ ScheduleClose(k) \/ StopLoop(k) \/ JoinLoop(k))
    \/ HostAclose \/ Aclose \/ StartClosing \/ CloseResource \/ EndClosing \/ StopAfterClose
    \/ Stop \/ Serve

TeamRtSpec == TeamRtInit /\ [][TeamRtNext]_teamRtVars

----------------------------------------------------------------------------
\* The state has the shape the code gives it, and _active_operations counts the
\* operations under way.
TeamRtTypeOK ==
    /\ client \in [Clients -> {"idle", "queued", "running", "answered", "refused", "cancelled"}]
    /\ stopper \in [Stoppers -> {"idle", "schedule", "waits", "joins", "returned"}]
    /\ inFlight = Cardinality({c \in Clients : client[c] = "running"})
    /\ closing \in {"none", "drain", "close", "done"} /\ left \in 0..Resources

\* runtime.py _submit and _serve: no thread is left blocked on a future when the
\* event loop is gone, in whatever order threads submit and close.
NobodyLeftWaiting == loop = "over" => \A c \in Clients : client[c] \notin {"queued", "running"}

\* runtime.py _serve: closing never cancels an operation under way, it waits for it.
NothingCut == \A c \in Clients : client[c] # "cancelled"

\* runtime.py _close_resources: a resource is closed only when no operation can
\* use it any more, and each once, the last first.
ClosedIdle ==
    /\ freed # <<>> => \A c \in Clients : client[c] # "running"
    /\ \A i \in DOMAIN freed : freed[i] = Resources + 1 - i
    /\ Len(freed) <= Resources

\* The synchronous face of a team runtime can be used and closed from any number
\* of threads: nobody hangs, nothing is cut short, nothing is used after it was
\* closed (runtime.py).
CloseIsOrderly == TeamRtTypeOK /\ NobodyLeftWaiting /\ NothingCut /\ ClosedIdle
============================================================================
