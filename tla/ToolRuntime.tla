---------------------------- MODULE ToolRuntime ----------------------------
(***************************************************************************)
(* The life cycle of everything a run borrows: AsyncRuntime admits runs    *)
(* and drains them, a run leases a model client from ModelRegistry for     *)
(* each stage (ModelPlanner, ToolCallingWorker, CriteriaVerifier) and      *)
(* calls tools through ToolRegistry; an MCP tool leases the connection of  *)
(* its server from McpServerRegistry, whose RuntimeContainer hot-replaces  *)
(* and closes connections.  One step is the code between two awaits: every *)
(* asyncio.Lock but the container's mutation lock and a connection's       *)
(* lifecycle lock is released before the next await.                       *)
(***************************************************************************)
EXTENDS Naturals, Sequences, FiniteSets, Functions

CONSTANTS
    Runners,    \* the coroutines that call AsyncRuntime.run
    Callers,    \* the coroutines that call a tool directly or discover tools
    Host,       \* the coroutine that registers, replaces and unregisters
    Shutdown,   \* the single close task of AsyncRuntime
    Servers,    \* the names of MCP servers
    Targets,    \* the servers the callers use
    Conns,      \* the McpServerConnection objects
    ServerOf,   \* the server name in the configuration of a connection
    Initial,    \* the connections registered before the first run
    Clients,    \* the model clients registered under the one model name
    First,      \* the client the preset was assembled with
    Capabilities, \* what the servers declared when they were initialized
    Cursors,    \* the page cursors a server may return
    MaxRounds,  \* ToolCallingWorkerConfig.max_tool_rounds
    MaxPages,   \* McpLimits.max_pages
    MaxItems,   \* McpLimits.max_items
    None

Tasks == Runners \cup Callers

Actors == Tasks \cup {Host, Shutdown}

\* McpLimits.__post_init__.
ValidLimits == MaxPages \in Nat \ {0} /\ MaxItems \in Nat \ {0}

ASSUME RuntimeAssumption ==
    /\ MaxRounds \in Nat /\ ValidLimits
    /\ Targets \subseteq Servers /\ ServerOf \in [Conns -> Servers] /\ Initial \subseteq Conns /\ First \in Clients
    /\ \A c, d \in Initial : ServerOf[c] = ServerOf[d] => c = d
    /\ Host \notin Tasks /\ Shutdown \notin Tasks /\ Host # Shutdown
    /\ None \notin Conns \cup Clients \cup Actors \cup Cursors \cup Servers

VARIABLES
    task,     \* task[a]: where coroutine a stands and what it holds
    slot,     \* slot[s]: the connection in the container slot of server s
    catalog,  \* catalog[s]: the token of the tool adapter registered for s
    session,  \* session[c]: fresh, open, closed, or broken by a failed close
    shut,     \* the connections whose _closed flag is set
    lock,     \* lock[c]: the holder of the lifecycle lock of c while it closes
    closes,   \* closes[c]: how often the session of c was asked to close
    client,   \* client[m]: spare, current, draining or closed
    todo      \* the slots RuntimeContainer.aclose has still to visit

vars == <<task, slot, catalog, session, shut, lock, closes, client, todo>>

Idle == [pc |-> "idle", kind |-> "none", stage |-> "none", server |-> None,
         conn |-> None, token |-> None, model |-> None, round |-> 0,
         items |-> 0, seen |-> {}, list |-> 1, ok |-> TRUE]

Init ==
    /\ task = [a \in Actors |-> Idle]
    /\ slot = [s \in Servers |->
                 IF \E c \in Initial : ServerOf[c] = s
                 THEN CHOOSE c \in Initial : ServerOf[c] = s ELSE None]
    /\ catalog = slot
    /\ session = [c \in Conns |-> IF c \in Initial THEN "open" ELSE "fresh"]
    /\ shut = {}
    /\ lock = [c \in Conns |-> None]
    /\ closes = [c \in Conns |-> 0]
    /\ client = [m \in Clients |-> IF m = First THEN "current" ELSE "spare"]
    /\ todo = {}

-----------------------------------------------------------------------------
(* What is under way: the counters the code keeps, and the flags it tests. *)

Stage == task[Shutdown].pc

RuntimeClosed == Stage # "idle"

ToolsClosing == Stage \notin {"idle", "runs"}

ToolsClosed == Stage \notin {"idle", "runs", "tools"}

McpClosed == Stage \notin {"idle", "runs", "tools", "model", "mcp"}

\* AsyncRuntime._active_operations.
Runs == {t \in Tasks : task[t].kind = "run"}

\* ToolRegistry._active_invocations: registered before the middleware, released after it.
Invocations ==
    {t \in Tasks : /\ task[t].kind \in {"run", "tool"}
                   /\ task[t].pc \in {"authorize", "call", "close"}}

\* _ComponentSlot.active_calls of the slot that holds c.
Calls(c) == {t \in Tasks : task[t].conn = c /\ task[t].pc \in {"call", "page"}}

Retired(c) == \A s \in Servers : slot[s] # c

\* Mutant: the operation ends with its lease.
McpOperationsInLease == {t \in Tasks : task[t].pc \in {"call", "page"}}

\* McpServerRegistry._active_operations: it outlives the lease and the close it may bring.
McpOperations == {t \in Tasks : task[t].conn # None}

\* RuntimeContainer._mutation_lock is held by a registration until it is complete.
MutationLocked == task[Host].kind = "replace"

\* _ModelSlot.active_leases.
Leases(m) == {t \in Tasks : task[t].model = m}

Current == {m \in Clients : client[m] = "current"}

-----------------------------------------------------------------------------
(* One run: plan, work, verify, each in a lease of its own. *)

\* A stage leases the client registered now; without one ModelNotFoundError ends the run.
EnterStage(stage) ==
    IF Current = {} THEN Idle
    ELSE [Idle EXCEPT !.pc = "model", !.kind = "run", !.stage = stage,
                      !.model = CHOOSE m \in Current : TRUE]

BeginRun(t) ==
    /\ task[t] = Idle /\ ~RuntimeClosed /\ Current # {}
    /\ task' = [task EXCEPT ![t] = EnterStage("plan")]
    /\ UNCHANGED <<slot, catalog, session, shut, lock, closes, client, todo>>

\* An invocation pins the adapter registered now; the authorizer is asked with it in hand.
CanInvoke(s) == ~ToolsClosing /\ catalog[s] # None

Invoking(r, s) == [r EXCEPT !.pc = "authorize", !.server = s, !.token = catalog[s], !.ok = TRUE]

\* The worker goes on to the next round in the same lease; an error ends the run, and anyone
\* else is done.
AfterInvoke(r, ok) ==
    IF r.kind = "run" /\ ok
    THEN [r EXCEPT !.pc = "model", !.round = @ + 1, !.server = None, !.conn = None, !.token = None]
    ELSE Idle

\* A plan that parses within max_steps: the worker starts in a lease of its own.
PlanReturns(t) ==
    /\ task[t].pc = "model" /\ task[t].stage = "plan"
    /\ task' = [task EXCEPT ![t] = EnterStage("work")]
    /\ UNCHANGED <<slot, catalog, session, shut, lock, closes, client, todo>>

\* Text without a tool call is the result of the step.
WorkReturns(t) ==
    /\ task[t].pc = "model" /\ task[t].stage = "work"
    /\ task' = [task EXCEPT ![t] = EnterStage("verify")]
    /\ UNCHANGED <<slot, catalog, session, shut, lock, closes, client, todo>>

VerdictReturns(t) ==
    /\ task[t].pc = "model" /\ task[t].stage = "verify"
    /\ task' = [task EXCEPT ![t] = Idle]
    /\ UNCHANGED <<slot, catalog, session, shut, lock, closes, client, todo>>

RoundsLeft(r) == r.round < MaxRounds

\* The worker's model asks for a tool: beyond max_tool_rounds the run ends.
ModelCallsTool(t) ==
    /\ task[t].pc = "model" /\ task[t].stage = "work"
    /\ \E s \in Targets :
         task' = [task EXCEPT ![t] = IF RoundsLeft(task[t]) /\ CanInvoke(s)
                                     THEN Invoking(task[t], s) ELSE Idle]
    /\ UNCHANGED <<slot, catalog, session, shut, lock, closes, client, todo>>

\* A provider error, or text that is no plan, no verdict, no output.
ModelFails(t) ==
    /\ task[t].pc = "model"
    /\ task' = [task EXCEPT ![t] = Idle]
    /\ UNCHANGED <<slot, catalog, session, shut, lock, closes, client, todo>>

-----------------------------------------------------------------------------
(* One tool call, from the worker or directly from the host. *)

CallTool(t, s) ==
    /\ task[t] = Idle /\ CanInvoke(s)
    /\ task' = [task EXCEPT ![t] = Invoking([Idle EXCEPT !.kind = "tool"], s)]
    /\ UNCHANGED <<slot, catalog, session, shut, lock, closes, client, todo>>

\* Arguments that are no JSON, a write in a read-only scope, or the authorizer's no.
Refuse(t) ==
    /\ task[t].pc = "authorize"
    /\ task' = [task EXCEPT ![t] = AfterInvoke(task[t], FALSE)]
    /\ UNCHANGED <<slot, catalog, session, shut, lock, closes, client, todo>>

TokenMatches(r, c) == r.token = c

\* McpToolAdapter.invoke: lease the server's connection, compare the token, use the session.
Admitted(t) ==
    /\ task[t].pc = "authorize"
    /\ LET c == slot[task[t].server] IN
       task' = [task EXCEPT ![t] =
                  IF ~McpClosed /\ c # None /\ TokenMatches(task[t], c)
                  THEN [@ EXCEPT !.pc = "call", !.conn = c]
                  ELSE AfterInvoke(@, FALSE)]
    /\ UNCHANGED <<slot, catalog, session, shut, lock, closes, client, todo>>

\* A discovery that succeeded registers its adapter; a closed registry refuses it.
Installed(r, ok) ==
    IF r.kind = "discover" /\ ok /\ ~ToolsClosed
    THEN [catalog EXCEPT ![r.server] = r.conn] ELSE catalog

\* The start of McpServerConnection.aclose: no new operation, and the session is asked to close.
AskClose(a, c) ==
    /\ shut' = shut \cup {c}
    /\ lock' = [lock EXCEPT ![c] = a]
    /\ closes' = [closes EXCEPT ![c] = @ + 1]

\* The last caller of a retired slot closes its component before it goes on.
Release(t, ok) ==
    LET r == task[t] IN
    IF Retired(r.conn) /\ Calls(r.conn) = {t}
    THEN /\ task' = [task EXCEPT ![t].pc = "close", ![t].ok = ok]
         /\ AskClose(t, r.conn)
         /\ UNCHANGED catalog
    ELSE /\ task' = [task EXCEPT ![t] = AfterInvoke(r, ok)]
         /\ catalog' = Installed(r, ok)
         /\ UNCHANGED <<shut, lock, closes>>

\* The session answers; a timeout, a transport error or too many blocks is ok = FALSE.
SessionAnswers(t) ==
    /\ task[t].pc = "call"
    /\ \E ok \in BOOLEAN : Release(t, ok)
    /\ UNCHANGED <<slot, session, client, todo>>

\* read_resource and get_prompt: one request in one lease, bound to no catalog.
Read(t, s) ==
    /\ task[t] = Idle /\ ~McpClosed /\ slot[s] # None
    /\ task' = [task EXCEPT ![t] = [Idle EXCEPT !.pc = "call", !.kind = "read", !.server = s,
                                                !.conn = slot[s]]]
    /\ UNCHANGED <<slot, catalog, session, shut, lock, closes, client, todo>>

-----------------------------------------------------------------------------
(* Discovery: every page of a listing, or of every listing, in one lease. *)

\* The listings of McpServerConnection.catalog, by the capability they need; resources have
\* their templates listed too.
Listings ==
    (Capabilities \cap {"tools", "resources", "prompts"})
      \cup (IF "resources" \in Capabilities THEN {"resource_templates"} ELSE {})

Listing(t, s, kind) ==
    /\ task[t] = Idle /\ ~McpClosed /\ slot[s] # None /\ Listings # {}
    /\ task' = [task EXCEPT ![t] = [Idle EXCEPT !.pc = "page", !.kind = kind,
                                                !.server = s, !.conn = slot[s]]]
    /\ UNCHANGED <<slot, catalog, session, shut, lock, closes, client, todo>>

Discover(t, s) == "tools" \in Capabilities /\ Listing(t, s, "discover")

Catalog(t, s) == Listing(t, s, "catalog")

\* A catalog goes on with its next listing, any other discovery is complete.
MoreListings(r) == r.kind = "catalog" /\ r.list < Cardinality(Listings)

LastPage(r) == r.round + 1 >= MaxPages

PageArrives(t) ==
    /\ task[t].pc = "page"
    /\ \E n \in 0 .. MaxItems + 1, k \in Cursors \cup {None} :
         LET r == task[t] IN
         IF r.items + n > MaxItems THEN Release(t, FALSE)
         ELSE IF k = None /\ ~MoreListings(r) THEN Release(t, TRUE)
         ELSE IF k = None
              THEN /\ task' = [task EXCEPT ![t].list = @ + 1, ![t].round = 0, ![t].items = 0,
                                           ![t].seen = {}]
                   /\ UNCHANGED <<catalog, shut, lock, closes>>
         ELSE IF k \in r.seen \/ LastPage(r) THEN Release(t, FALSE)
         ELSE /\ task' = [task EXCEPT ![t].round = @ + 1, ![t].items = @ + n,
                                      ![t].seen = @ \cup {k}]
              /\ UNCHANGED <<catalog, shut, lock, closes>>
    /\ UNCHANGED <<slot, session, client, todo>>

PageFails(t) ==
    /\ task[t].pc = "page"
    /\ Release(t, FALSE)
    /\ UNCHANGED <<slot, session, client, todo>>

-----------------------------------------------------------------------------
(* McpServerConnection.aclose, whoever calls it. *)

\* A failed close ends RuntimeContainer.aclose at once: the slots left in todo stay as they are.
AfterClose(a, ok) ==
    LET r == task[a]
        fine == ok /\ r.ok IN
    /\ task' = [task EXCEPT ![a] =
                  CASE a = Shutdown -> [@ EXCEPT !.pc = IF ok THEN "todo" ELSE "done", !.conn = None]
                    [] a = Host -> Idle
                    [] OTHER -> AfterInvoke(r, fine)]
    /\ catalog' = IF a \in Tasks THEN Installed(r, fine) ELSE catalog
    /\ todo' = IF a = Shutdown /\ ~ok THEN {} ELSE todo

MustClose(c) == c \notin shut

\* The close task may find that the last caller has begun or finished closing: it waits for
\* the lifecycle lock, then looks at the flag.
CloseBegins ==
    LET c == task[Shutdown].conn IN
    /\ Stage = "close" /\ lock[c] = None /\ MustClose(c)
    /\ AskClose(Shutdown, c)
    /\ UNCHANGED <<task, slot, catalog, session, client, todo>>

CloseIsDone ==
    LET c == task[Shutdown].conn IN
    /\ Stage = "close" /\ lock[c] = None /\ ~MustClose(c)
    /\ AfterClose(Shutdown, TRUE)
    /\ UNCHANGED <<slot, session, shut, lock, closes, client>>

CloseEnds(a) ==
    LET c == task[a].conn IN
    /\ task[a].pc = "close" /\ lock[c] = a
    /\ \E ok \in BOOLEAN :
         /\ session' = [session EXCEPT ![c] = IF ok THEN "closed" ELSE "broken"]
         /\ AfterClose(a, ok)
    /\ lock' = [lock EXCEPT ![c] = None]
    /\ UNCHANGED <<slot, shut, closes, client>>

-----------------------------------------------------------------------------
(* Cancellation of a caller at whichever await it stands. *)

Cancel(t) ==
    /\ task[t].pc \in {"model", "authorize"}
    /\ task' = [task EXCEPT ![t] = Idle]
    /\ UNCHANGED <<slot, catalog, session, shut, lock, closes, client, todo>>

CancelCall(t) ==
    /\ task[t].pc \in {"call", "page"}
    /\ Release(t, FALSE)
    /\ UNCHANGED <<slot, session, client, todo>>

\* Mutant: a cancelled close keeps its lock.
CancelCloseLocked(t) ==
    /\ task[t].pc = "close"
    /\ task' = [task EXCEPT ![t] = Idle]
    /\ session' = [session EXCEPT ![task[t].conn] = "broken"]
    /\ UNCHANGED <<slot, catalog, shut, lock, closes, client, todo>>

\* The close of the session is cut short when the one closing it is cancelled.
CancelClose(t) ==
    /\ task[t].pc = "close"
    /\ task' = [task EXCEPT ![t] = Idle]
    /\ session' = [session EXCEPT ![task[t].conn] = "broken"]
    /\ lock' = [lock EXCEPT ![task[t].conn] = None]
    /\ UNCHANGED <<slot, catalog, shut, closes, client, todo>>

-----------------------------------------------------------------------------
(* The host: hot replacement of connections and model clients. *)

\* A connection object is registered once in its life.
Register(c) ==
    /\ task[Host] = Idle /\ ~McpClosed /\ session[c] = "fresh"
    /\ task' = [task EXCEPT ![Host] = [Idle EXCEPT !.pc = "start", !.kind = "replace", !.conn = c]]
    /\ session' = [session EXCEPT ![c] = "open"]
    /\ UNCHANGED <<slot, catalog, shut, lock, closes, client, todo>>

\* The new connection takes the slot; the old one is closed here unless a caller still has it.
StartReturns ==
    LET c == task[Host].conn
        old == slot[ServerOf[c]] IN
    /\ task[Host].pc = "start"
    /\ slot' = [slot EXCEPT ![ServerOf[c]] = c]
    /\ IF old # None /\ Calls(old) = {}
       THEN /\ task' = [task EXCEPT ![Host].pc = "close", ![Host].conn = old]
            /\ AskClose(Host, old)
       ELSE /\ task' = [task EXCEPT ![Host] = Idle]
            /\ UNCHANGED <<shut, lock, closes>>
    /\ UNCHANGED <<catalog, session, client, todo>>

\* The old connection stays; the new one, perhaps half open, is closed.
StartFails ==
    /\ task[Host].pc = "start"
    /\ task' = [task EXCEPT ![Host].pc = "close"]
    /\ AskClose(Host, task[Host].conn)
    /\ UNCHANGED <<slot, catalog, session, client, todo>>

\* A cancellation is no Exception: nobody closes what was started.
StartCancelled ==
    /\ task[Host].pc = "start"
    /\ task' = [task EXCEPT ![Host] = Idle]
    /\ session' = [session EXCEPT ![task[Host].conn] = "broken"]
    /\ UNCHANGED <<slot, catalog, shut, lock, closes, client, todo>>

Unregister(s) ==
    LET old == slot[s] IN
    /\ task[Host] = Idle /\ old # None
    /\ slot' = [slot EXCEPT ![s] = None]
    /\ IF Calls(old) = {}
       THEN /\ task' = [task EXCEPT ![Host] = [Idle EXCEPT !.pc = "close", !.kind = "unregister",
                                                           !.conn = old]]
            /\ AskClose(Host, old)
       ELSE UNCHANGED <<task, shut, lock, closes>>
    /\ UNCHANGED <<catalog, session, client, todo>>

\* ModelRegistry.swap: the host keeps the retirement of the old client.
Swap(m) ==
    /\ client[m] = "spare" /\ Current # {}
    /\ client' = [x \in Clients |-> IF x = m THEN "current"
                                    ELSE IF client[x] = "current" THEN "draining" ELSE client[x]]
    /\ UNCHANGED <<task, slot, catalog, session, shut, lock, closes, todo>>

Retire(m) ==
    /\ client[m] = "current"
    /\ client' = [client EXCEPT ![m] = "draining"]
    /\ UNCHANGED <<task, slot, catalog, session, shut, lock, closes, todo>>

Drained(m) == client[m] = "draining" /\ Leases(m) = {}

\* The host closes the client wait_drained returned.
CloseRetired(m) ==
    /\ Drained(m)
    /\ client' = [client EXCEPT ![m] = "closed"]
    /\ UNCHANGED <<task, slot, catalog, session, shut, lock, closes, todo>>

-----------------------------------------------------------------------------
(* AsyncRuntime.aclose: drain the runs, then the resources in reverse order. *)

Aclose ==
    /\ Stage = "idle"
    /\ task' = [task EXCEPT ![Shutdown] = [Idle EXCEPT !.kind = "shutdown", !.pc = "runs"]]
    /\ UNCHANGED <<slot, catalog, session, shut, lock, closes, client, todo>>

DrainRuns ==
    /\ Stage = "runs" /\ Runs = {}
    /\ task' = [task EXCEPT ![Shutdown].pc = "tools"]
    /\ UNCHANGED <<slot, catalog, session, shut, lock, closes, client, todo>>

DrainTools ==
    /\ Stage = "tools" /\ Invocations = {}
    /\ task' = [task EXCEPT ![Shutdown].pc = "model"]
    /\ catalog' = [s \in Servers |-> None]
    /\ UNCHANGED <<slot, session, shut, lock, closes, client, todo>>

\* Only the client of the assembly is a resource; an error here does not stop the others.
CloseModel ==
    /\ Stage = "model"
    /\ task' = [task EXCEPT ![Shutdown].pc = "mcp"]
    /\ client' = [client EXCEPT ![First] = "closed"]
    /\ UNCHANGED <<slot, catalog, session, shut, lock, closes, todo>>

CloseContainer ==
    /\ Stage = "mcp" /\ ~MutationLocked
    /\ task' = [task EXCEPT ![Shutdown].pc = "todo"]
    /\ todo' = Range(slot) \ {None}
    /\ slot' = [s \in Servers |-> None]
    /\ UNCHANGED <<catalog, session, shut, lock, closes, client>>

\* An idle slot is closed here, a busy one is left to its last caller.
CloseNext ==
    /\ Stage = "todo"
    /\ \E c \in todo :
         /\ todo' = todo \ {c}
         /\ task' = IF Calls(c) = {}
                    THEN [task EXCEPT ![Shutdown].pc = "close", ![Shutdown].conn = c]
                    ELSE task
    /\ UNCHANGED <<slot, catalog, session, shut, lock, closes, client>>

AllVisited ==
    /\ Stage = "todo" /\ todo = {}
    /\ task' = [task EXCEPT ![Shutdown].pc = "drain"]
    /\ UNCHANGED <<slot, catalog, session, shut, lock, closes, client, todo>>

DrainMcp ==
    /\ Stage = "drain" /\ McpOperations = {}
    /\ task' = [task EXCEPT ![Shutdown].pc = "done"]
    /\ UNCHANGED <<slot, catalog, session, shut, lock, closes, client, todo>>

-----------------------------------------------------------------------------
Next ==
    \/ \E t \in Runners : BeginRun(t)
    \/ \E t \in Tasks : PlanReturns(t)
    \/ \E t \in Tasks : WorkReturns(t)
    \/ \E t \in Tasks : VerdictReturns(t)
    \/ \E t \in Tasks : ModelCallsTool(t)
    \/ \E t \in Tasks : ModelFails(t)
    \/ \E t \in Callers, s \in Targets : CallTool(t, s)
    \/ \E t \in Tasks : Refuse(t)
    \/ \E t \in Tasks : Admitted(t)
    \/ \E t \in Tasks : SessionAnswers(t)
    \/ \E t \in Callers, s \in Targets : Read(t, s)
    \/ \E t \in Callers, s \in Targets : Discover(t, s)
    \/ \E t \in Callers, s \in Targets : Catalog(t, s)
    \/ \E t \in Tasks : PageArrives(t)
    \/ \E t \in Tasks : PageFails(t)
    \/ CloseBegins
    \/ CloseIsDone
    \/ \E a \in Actors : CloseEnds(a)
    \/ \E t \in Tasks : Cancel(t)
    \/ \E t \in Tasks : CancelCall(t)
    \/ \E t \in Tasks : CancelClose(t)
    \/ \E c \in Conns : Register(c)
    \/ StartReturns
    \/ StartFails
    \/ StartCancelled
    \/ \E s \in Servers : Unregister(s)
    \/ \E m \in Clients : Swap(m)
    \/ \E m \in Clients : Retire(m)
    \/ \E m \in Clients : CloseRetired(m)
    \/ Aclose
    \/ DrainRuns
    \/ DrainTools
    \/ CloseModel
    \/ CloseContainer
    \/ CloseNext
    \/ AllVisited
    \/ DrainMcp

\* Requests to models, sessions and authorizers end (they carry timeouts), and the event loop
\* resumes whoever can go on.  Nothing obliges anyone to start, cancel or replace.
Fairness ==
    /\ \A t \in Tasks :
         WF_vars(\/ PlanReturns(t) \/ WorkReturns(t) \/ VerdictReturns(t) \/ ModelCallsTool(t) \/ ModelFails(t) \/ Refuse(t)
                 \/ Admitted(t) \/ SessionAnswers(t) \/ PageArrives(t) \/ PageFails(t))
    /\ \A a \in Actors : WF_vars(CloseEnds(a))
    /\ WF_vars(StartReturns \/ StartFails)
    /\ WF_vars(DrainRuns \/ DrainTools \/ CloseModel \/ CloseContainer \/ CloseNext
               \/ CloseBegins \/ CloseIsDone \/ AllVisited \/ DrainMcp)

Spec == Init /\ [][Next]_vars /\ Fairness

-----------------------------------------------------------------------------
(* Properties. *)

\* What a coroutine is doing and what it holds.
TaskState ==
    [pc : {"idle", "model", "authorize", "call", "page", "close", "start", "runs", "tools",
           "mcp", "todo", "drain", "done"},
     kind : {"none", "run", "tool", "read", "discover", "catalog", "replace", "unregister",
             "shutdown"},
     stage : {"none", "plan", "work", "verify"}, server : Servers \cup {None},
     conn : Conns \cup {None}, token : Conns \cup {None}, model : Clients \cup {None},
     round : 0 .. MaxRounds + MaxPages, items : 0 .. MaxItems, seen : SUBSET Cursors,
     list : {1} \cup 1 .. Cardinality(Listings), ok : BOOLEAN]

\* Every task is at an await of the code and every variable keeps its type.
RuntimeTypeOK ==
    /\ task \in [Actors -> TaskState]
    /\ slot \in [Servers -> Conns \cup {None}] /\ catalog \in [Servers -> Conns \cup {None}]
    /\ session \in [Conns -> {"fresh", "open", "closed", "broken"}]
    /\ shut \subseteq Conns /\ todo \subseteq Conns
    /\ lock \in [Conns -> Actors \cup {None}] /\ closes \in [Conns -> Nat]
    /\ client \in [Clients -> {"spare", "current", "draining", "closed"}]

\* A session or a model client that a caller is using has not been closed under it, whatever
\* was replaced, unregistered, retired or shut down since the caller leased it
\* (RuntimeContainer.acquire, ModelLease).
UsedWhileOpen ==
    \A t \in Tasks :
      /\ task[t].pc \in {"call", "page"} => session[task[t].conn] = "open"
      /\ task[t].model # None => client[task[t].model] # "closed"

\* The last caller of a retired connection and RuntimeContainer.aclose may both decide to close
\* it: its session is asked to close at most once (McpServerConnection.aclose).
ClosedOnce == \A c \in Conns : closes[c] <= 1

\* A tool runs on the very connection its schema was discovered on; a hot replacement between
\* discovery, authorization and call makes it fail instead (McpCatalogStaleError).
PinnedCatalog ==
    \A t \in Invocations : task[t].pc = "call" => task[t].conn = task[t].token

\* What a slot offers to new callers has been started and not closed: a failed or cancelled
\* replacement leaves the old connection in service (RuntimeContainer._register).
SlotsServe ==
    \A s \in Servers : slot[s] # None =>
      /\ session[slot[s]] = "open" /\ slot[s] \notin shut /\ ServerOf[slot[s]] = s

\* A run that was admitted keeps its tools, its models and its connections until it ends, and a
\* tool call admitted by the registry keeps the registry: closing drains before it closes.
AdmittedIsServed ==
    /\ Runs # {} => ~ToolsClosing
    /\ Invocations # {} => ~ToolsClosed

\* When the close task is done and no start or close was cut short, no session is left open but
\* one that an unregistration is closing at this moment.
NothingLeftOpen ==
    (Stage = "done" /\ \A c \in Conns : session[c] # "broken")
      => \A c \in Conns : session[c] = "open" => task[Host].conn = c

\* Every shutdown ends, also when callers hold leases, closes fail or a replacement is under way.
ShutdownCompletes == RuntimeClosed ~> (Stage = "done")

\* Leases are honoured: what is in use is open, what is offered can be used, and
\* what is closed is closed once, in the order the runtime promises, over hot
\* replacement, unregistration and shutdown (RuntimeContainer, McpServerRegistry).
LeasesHonoured ==
    /\ RuntimeTypeOK /\ UsedWhileOpen /\ ClosedOnce /\ PinnedCatalog
    /\ SlotsServe /\ AdmittedIsServed /\ NothingLeftOpen
============================================================================
