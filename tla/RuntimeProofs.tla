--------------------------- MODULE RuntimeProofs ---------------------------
(***************************************************************************)
(* Proof that leases are honoured (LeasesHonoured of ToolRuntime), for any *)
(* runs, callers, servers, connections and model clients.                  *)
(*                                                                         *)
(* None of its parts is inductive.  That a connection is open while it is  *)
(* used and closed once depends on who may still decide to close it: the   *)
(* last caller of a retired slot, the host that replaced or unregistered   *)
(* it, or the container when it closes.  RuntimeInv says of a connection   *)
(* whose closing has begun that it is out of its slot and without callers, *)
(* and of an open one that somebody is still to close it.                  *)
(***************************************************************************)
EXTENDS ToolRuntime, FiniteSetTheorems, TLAPS

\* A coroutine that works on connection c.
InUse(r, c) == r.conn = c /\ r.pc \in {"call", "page"}

Unused(c) == \A t \in Tasks : ~InUse(task[t], c)

\* What a caller holds is told by the await it is at: a run holds a model client until it
\* ends, a connection is held from the lease to the release, or to the close after it.
TaskFit(r) ==
  /\ r.pc \in {"idle", "model", "authorize", "call", "page", "close"}
  /\ r.pc = "idle" => r = Idle
  /\ r.pc = "model" => r.kind = "run" /\ r.round <= MaxRounds
  /\ r.pc = "authorize" => r.kind \in {"run", "tool"} /\ r.server \in Servers
  /\ r.conn # None <=> r.pc \in {"call", "page", "close"}
  /\ r.pc = "page" => r.kind \in {"discover", "catalog"}
  /\ r.kind = "run" /\ r.pc # "model" => r.round < MaxRounds
  /\ r.model # None <=> r.kind = "run"
  /\ r.pc = "call" /\ r.kind \in {"run", "tool"} => r.conn = r.token

HostFit(r) ==
  /\ r.pc \in {"idle", "start", "close"}
  /\ r.pc = "idle" => r = Idle
  /\ r.pc # "idle" => r.conn # None /\ r.kind \in {"replace", "unregister"}
  /\ r.pc = "start" => r.kind = "replace"

ShutdownFit(r) ==
  /\ r.pc \in {"idle", "runs", "tools", "model", "mcp", "todo", "close", "drain", "done"}
  /\ r.conn # None <=> r.pc = "close"

Fits ==
  /\ \A t \in Tasks : TaskFit(task[t])
  /\ HostFit(task[Host])
  /\ ShutdownFit(task[Shutdown])

\* What is in use is open.
UsersOpen ==
  \A t \in Tasks :
    /\ task[t].pc \in {"call", "page"} => session[task[t].conn] = "open"
    /\ task[t].model # None => client[task[t].model] # "closed"

\* A connection nobody has registered, or that is being started, is known to nobody.
NotYet ==
  /\ task[Host].pc = "start" => session[task[Host].conn] = "open" /\ task[Host].conn \notin shut
          /\ Retired(task[Host].conn) /\ Unused(task[Host].conn)
  /\ \A c \in Conns : session[c] = "fresh" => c \notin shut /\ Retired(c) /\ Unused(c)

\* A connection whose closing has begun is out of service, and nobody works on it.
Over ==
  \A c \in Conns :
    /\ closes[c] = IF c \in shut THEN 1 ELSE 0
    /\ c \in shut => Retired(c) /\ Unused(c) /\ (lock[c] # None \/ session[c] \in {"closed", "broken"})

\* Who closes a connection holds its lifecycle lock, and the session is open so long.
Locks ==
  /\ \A c \in Conns : lock[c] # None =>
       /\ c \in shut /\ session[c] = "open"
       /\ task[lock[c]].pc = "close" /\ task[lock[c]].conn = c
  /\ \A a \in Tasks \cup {Host} : task[a].pc = "close" => lock[task[a].conn] = a

\* Once the container is closed its slots are empty and stay so; what it has still to visit
\* is not closed without its lock.
Emptied ==
  /\ McpClosed => (\A s \in Servers : slot[s] = None) /\ task[Host].pc # "start"
  /\ todo # {} => Stage \in {"todo", "close"}
  /\ \A c \in todo : c \in shut \/ session[c] = "open"
  /\ Stage = "close" => Unused(task[Shutdown].conn)
       /\ (task[Shutdown].conn \in shut \/ session[task[Shutdown].conn] = "open")

\* Somebody is still to close an open connection.
Held(c) ==
  \/ ~Retired(c) \/ ~Unused(c) \/ lock[c] # None \/ c \in todo
  \/ task[Shutdown].conn = c
  \/ task[Host].pc = "start" /\ task[Host].conn = c

\* Unless a start or a close was cut short.
NothingLost ==
  (\A c \in Conns : session[c] # "broken") =>
    /\ \A c \in Conns : session[c] = "open" => Held(c)
    /\ Stage = "done" => McpOperations = {}

RuntimeInv ==
  /\ RuntimeTypeOK /\ Fits /\ UsersOpen /\ SlotsServe /\ AdmittedIsServed
  /\ NotYet /\ Over /\ Locks /\ Emptied /\ NothingLost

-----------------------------------------------------------------------------
(* Constants                                                                *)

LEMMA Constants ==
  /\ MaxRounds \in Nat /\ MaxPages \in Nat \ {0} /\ MaxItems \in Nat \ {0}
  /\ Targets \subseteq Servers /\ ServerOf \in [Conns -> Servers]
  /\ Initial \subseteq Conns /\ First \in Clients
  /\ \A c, d \in Initial : ServerOf[c] = ServerOf[d] => c = d
BY RuntimeAssumption DEF RuntimeAssumption, ValidLimits

LEMMA Names ==
  /\ Tasks \subseteq Actors /\ Host \in Actors /\ Shutdown \in Actors
  /\ Host \notin Tasks /\ Shutdown \notin Tasks /\ Host # Shutdown
  /\ \A a \in Actors : a \in Tasks \/ a = Host \/ a = Shutdown
  /\ None \notin Conns /\ None \notin Clients /\ None \notin Actors
  /\ None \notin Cursors /\ None \notin Servers
BY RuntimeAssumption DEF RuntimeAssumption, Actors

LEMMA ListingsCounted == Cardinality(Listings) \in Nat
<1> DEFINE named == {"tools", "resources", "prompts", "resource_templates"}
<1>1. IsFiniteSet(named)
  <2>1. /\ IsFiniteSet({"tools"}) /\ IsFiniteSet({"resources"})
        /\ IsFiniteSet({"prompts"}) /\ IsFiniteSet({"resource_templates"})
    BY FS_Singleton
  <2>2. IsFiniteSet({"tools"} \cup {"resources"}) /\ IsFiniteSet({"prompts"} \cup {"resource_templates"})
    BY <2>1, FS_Union
  <2>3. IsFiniteSet(({"tools"} \cup {"resources"}) \cup ({"prompts"} \cup {"resource_templates"}))
    BY <2>2, FS_Union
  <2>4. named = ({"tools"} \cup {"resources"}) \cup ({"prompts"} \cup {"resource_templates"})
    OBVIOUS
  <2> QED BY <2>3, <2>4
<1>2. Listings \subseteq named
  BY DEF Listings
<1> QED BY <1>1, <1>2, FS_Subset, FS_CardinalityType

LEMMA IdleTyped == Idle \in TaskState /\ TaskFit(Idle) /\ HostFit(Idle) /\ ShutdownFit(Idle)
BY Constants, ListingsCounted, Names DEF Idle, TaskState, TaskFit, HostFit, ShutdownFit

-----------------------------------------------------------------------------
(* A caller goes on                                                         *)

LEMMA StageKept ==
  ASSUME task'[Shutdown].pc = task[Shutdown].pc
  PROVE  /\ Stage' = Stage /\ RuntimeClosed' = RuntimeClosed /\ ToolsClosing' = ToolsClosing
         /\ ToolsClosed' = ToolsClosed /\ McpClosed' = McpClosed
BY DEF Stage, RuntimeClosed, ToolsClosing, ToolsClosed, McpClosed

\* What a caller in state r may count on.
Admission(r) ==
  /\ r.kind = "run" => ~ToolsClosing
  /\ r.kind \in {"run", "tool"} /\ r.pc \in {"authorize", "call", "close"} => ~ToolsClosed
  /\ r.model # None => client[r.model] # "closed"

LEMMA Admitting ==
  ASSUME RuntimeInv, NEW t \in Tasks
  PROVE  Admission(task[t])
BY DEF RuntimeInv, AdmittedIsServed, Admission, Runs, Invocations, UsersOpen

LEMMA TaskMoves ==
  ASSUME RuntimeInv, NEW t \in Tasks, NEW r \in TaskState, TaskFit(r), Admission(r),
         task' = [task EXCEPT ![t] = r],
         UNCHANGED <<slot, session, shut, lock, closes, client, todo>>,
         catalog' \in [Servers -> Conns \cup {None}],
         task[t].pc # "close", r.pc # "close",
         \A c \in Conns : InUse(r, c) => InUse(task[t], c) \/ ~Retired(c),
         \A c \in Conns : InUse(task[t], c) =>
           InUse(r, c) \/ ~Retired(c) \/ \E u \in Tasks : u # t /\ InUse(task[u], c)
  PROVE  RuntimeInv'
<1>0. RuntimeTypeOK /\ Fits
  BY DEF RuntimeInv
<1>1. /\ task'[t] = r /\ \A a \in Actors : a # t => task'[a] = task[a]
      /\ task'[Host] = task[Host] /\ task'[Shutdown] = task[Shutdown]
  BY <1>0, Names DEF RuntimeTypeOK
<1>2. /\ Stage' = Stage /\ RuntimeClosed' = RuntimeClosed /\ ToolsClosing' = ToolsClosing
      /\ ToolsClosed' = ToolsClosed /\ McpClosed' = McpClosed
  BY <1>1, StageKept
<1>3. \A c \in Conns : Retired(c)' = Retired(c)
  BY DEF Retired
<1>4. \A c \in Conns : Retired(c) => Unused(c)' = Unused(c)
  BY <1>1, Names DEF Unused
<1>5. r.conn # None => r.conn \in Conns /\ InUse(r, r.conn)
  BY DEF TaskFit, TaskState, InUse
<1>6. RuntimeTypeOK'
  BY <1>0 DEF RuntimeTypeOK
<1>7. Fits'
  BY <1>0, <1>1, Names DEF Fits
<1>8. UsersOpen'
  <2>1. r.pc \in {"call", "page"} => session[r.conn] = "open"
    <3> SUFFICES ASSUME r.pc \in {"call", "page"} PROVE session[r.conn] = "open"
      OBVIOUS
    <3>1. r.conn # None
      BY DEF TaskFit
    <3>2. InUse(task[t], r.conn) \/ ~Retired(r.conn)
      BY <1>5, <3>1
    <3> QED BY <1>5, <3>1, <3>2 DEF RuntimeInv, UsersOpen, SlotsServe, InUse, Retired
  <2> QED BY <1>1, <2>1, Names DEF RuntimeInv, UsersOpen, Admission
<1>9. SlotsServe'
  BY DEF RuntimeInv, SlotsServe
<1>10. AdmittedIsServed'
  BY <1>1, <1>2, Names DEF RuntimeInv, AdmittedIsServed, Runs, Invocations, Admission
<1>11. NotYet'
  <2>1. task[Host].pc = "start" => task[Host].conn \in Conns
    BY <1>0, Names DEF RuntimeTypeOK, Fits, HostFit, TaskState
  <2> QED BY <1>1, <1>3, <1>4, <2>1 DEF RuntimeInv, NotYet
<1>12. Over'
  BY <1>3, <1>4 DEF RuntimeInv, Over
<1>13. Locks'
  <2>1. \A c \in Conns : lock[c] # None => lock[c] \in Actors /\ lock[c] # t
    BY <1>0 DEF RuntimeInv, RuntimeTypeOK, Locks
  <2>2. \A c \in Conns : lock[c] # None => task'[lock[c]] = task[lock[c]]
    BY <1>1, <2>1
  <2>3. \A a \in Tasks \cup {Host} : task'[a].pc = "close" => a # t /\ task'[a] = task[a]
    BY <1>1, Names
  <2> QED BY <2>2, <2>3 DEF RuntimeInv, Locks
<1>14. Emptied'
  <2>1. Stage = "close" => task[Shutdown].conn \in Conns /\ McpClosed
    BY <1>0, Names DEF RuntimeTypeOK, Fits, ShutdownFit, TaskState, Stage, McpClosed
  <2>2. McpClosed => \A c \in Conns : Retired(c)
    BY Names DEF RuntimeInv, Emptied, Retired
  <2> QED BY <1>1, <1>2, <1>4, <2>1, <2>2 DEF RuntimeInv, Emptied
<1>15. NothingLost'
  <2> SUFFICES ASSUME \A c \in Conns : session[c] # "broken"
               PROVE  /\ \A c \in Conns : session[c] = "open" => Held(c)'
                      /\ Stage = "done" => McpOperations' = {}
    BY <1>2 DEF NothingLost
  <2>1. ASSUME NEW c \in Conns, session[c] = "open" PROVE Held(c)'
    <3>1. Held(c)
      BY <2>1 DEF RuntimeInv, NothingLost
    <3> QED BY <1>1, <1>3, <1>4, <3>1 DEF Held
  <2>2. ASSUME Stage = "done" PROVE McpOperations' = {}
    <3>1. McpOperations = {} /\ McpClosed
      BY <2>2 DEF RuntimeInv, NothingLost, McpClosed
    <3>2. \A c \in Conns : Retired(c)
      BY <3>1, Names DEF RuntimeInv, Emptied, Retired
    <3>3. r.conn = None
      BY <1>5, <3>1, <3>2 DEF McpOperations, InUse
    <3> QED BY <1>1, <3>1, <3>3, Names DEF McpOperations
  <2> QED BY <2>1, <2>2
<1> QED BY <1>6, <1>7, <1>8, <1>9, <1>10, <1>11, <1>12, <1>13, <1>14, <1>15 DEF RuntimeInv

-----------------------------------------------------------------------------
(* Steps of callers that hold no connection                                 *)

LEMMA Typed ==
  ASSUME RuntimeInv
  PROVE  /\ task \in [Actors -> TaskState]
         /\ \A t \in Tasks : task[t] \in TaskState /\ TaskFit(task[t])
         /\ task[Host] \in TaskState /\ HostFit(task[Host])
         /\ task[Shutdown] \in TaskState /\ ShutdownFit(task[Shutdown])
         /\ slot \in [Servers -> Conns \cup {None}] /\ catalog \in [Servers -> Conns \cup {None}]
         /\ session \in [Conns -> {"fresh", "open", "closed", "broken"}]
         /\ shut \subseteq Conns /\ todo \subseteq Conns
         /\ lock \in [Conns -> Actors \cup {None}] /\ closes \in [Conns -> Nat]
         /\ client \in [Clients -> {"spare", "current", "draining", "closed"}]
BY Names DEF RuntimeInv, RuntimeTypeOK, Fits

LEMMA GoesOn ==
  ASSUME RuntimeInv, NEW t \in Tasks, NEW r \in TaskState, TaskFit(r), Admission(r),
         task' = [task EXCEPT ![t] = r],
         UNCHANGED <<slot, catalog, session, shut, lock, closes, client, todo>>,
         task[t].conn = None, r.conn = None
  PROVE  RuntimeInv'
<1>1. task[t].pc \notin {"call", "page", "close"} /\ r.pc \notin {"call", "page", "close"}
  BY Typed DEF TaskFit
<1>2. catalog' \in [Servers -> Conns \cup {None}]
  BY Typed
<1>3. \A c \in Conns : ~InUse(r, c) /\ ~InUse(task[t], c)
  BY <1>1 DEF InUse
<1> QED BY <1>1, <1>2, <1>3, TaskMoves

LEMMA IdleHolds == Idle.conn = None /\ Idle.pc = "idle" /\ Admission(Idle)
BY DEF Idle, Admission

LEMMA EntersStage ==
  ASSUME ~ToolsClosing, NEW stage \in {"plan", "work", "verify"}
  PROVE  /\ EnterStage(stage) \in TaskState /\ TaskFit(EnterStage(stage))
         /\ Admission(EnterStage(stage)) /\ EnterStage(stage).conn = None
<1>1. CASE Current = {}
  BY <1>1, IdleTyped, IdleHolds DEF EnterStage
<1>2. CASE Current # {}
  <2> DEFINE m == CHOOSE m \in Current : TRUE
  <2>1. m \in Clients /\ client[m] = "current"
    BY <1>2 DEF Current
  <2> HIDE DEF m
  <2> DEFINE r == [Idle EXCEPT !.pc = "model", !.kind = "run", !.stage = stage, !.model = m]
  <2>2. EnterStage(stage) = r
    BY <1>2 DEF EnterStage, m
  <2>3. r \in TaskState
    BY <2>1, IdleTyped DEF TaskState
  <2>4. /\ r.pc = "model" /\ r.kind = "run" /\ r.model = m /\ r.conn = None /\ r.round = 0
    BY DEF Idle
  <2> HIDE DEF r
  <2>5. TaskFit(r) /\ Admission(r)
    BY <2>1, <2>4, Names, Constants DEF TaskFit, Admission
  <2> QED BY <2>2, <2>3, <2>4, <2>5
<1> QED BY <1>1, <1>2

LEMMA ServersKnown == \A s \in Targets : s \in Servers
BY Constants

\* A caller that asks the registry for a tool, from a round that is left to it.
LEMMA Invokes ==
  ASSUME RuntimeInv, NEW r \in TaskState, NEW s \in Servers, CanInvoke(s), Admission(r),
         \/ r.kind = "run" /\ r.pc = "model" /\ TaskFit(r) /\ RoundsLeft(r)
         \/ r = [Idle EXCEPT !.kind = "tool"]
  PROVE  /\ Invoking(r, s) \in TaskState /\ TaskFit(Invoking(r, s))
         /\ Admission(Invoking(r, s)) /\ Invoking(r, s).conn = None
<1> DEFINE i == [r EXCEPT !.pc = "authorize", !.server = s, !.token = catalog[s], !.ok = TRUE]
<1>1. i = Invoking(r, s)
  BY DEF Invoking
<1>2. r.conn = None /\ r.kind \in {"run", "tool"} /\ (r.model # None <=> r.kind = "run")
      /\ (r.kind = "run" => r.round < MaxRounds)
  BY DEF TaskFit, RoundsLeft, Idle
<1>3. catalog[s] \in Conns \cup {None} /\ ~ToolsClosing /\ ~ToolsClosed
  BY Typed DEF CanInvoke, ToolsClosing, ToolsClosed
<1>4. i \in TaskState
  BY <1>3 DEF TaskState
<1>5. i.pc = "authorize" /\ i.kind = r.kind /\ i.server = s /\ i.conn = r.conn /\ i.model = r.model
      /\ i.round = r.round
  BY DEF TaskState
<1> HIDE DEF i
<1>6. TaskFit(i)
  BY <1>2, <1>5 DEF TaskFit
<1>7. Admission(i)
  BY <1>2, <1>3, <1>5 DEF Admission
<1> QED BY <1>1, <1>2, <1>4, <1>5, <1>6, <1>7

LEMMA AfterTool ==
  ASSUME NEW r \in TaskState, TaskFit(r), Admission(r), r.pc # "model", NEW ok
  PROVE  /\ AfterInvoke(r, ok) \in TaskState /\ TaskFit(AfterInvoke(r, ok))
         /\ Admission(AfterInvoke(r, ok)) /\ AfterInvoke(r, ok).conn = None
         /\ AfterInvoke(r, ok).pc \in {"idle", "model"}
<1>1. CASE ~(r.kind = "run" /\ ok)
  BY <1>1, IdleTyped, IdleHolds DEF AfterInvoke
<1>2. CASE r.kind = "run" /\ ok
  <2> DEFINE n == [r EXCEPT !.pc = "model", !.round = @ + 1, !.server = None, !.conn = None,
                            !.token = None]
  <2>1. AfterInvoke(r, ok) = n
    BY <1>2 DEF AfterInvoke
  <2>2. r.round \in Nat /\ r.round < MaxRounds /\ r.round + 1 \in 0 .. MaxRounds + MaxPages
    BY <1>2, Constants DEF TaskFit, TaskState
  <2>3. n \in TaskState
    BY <2>2 DEF TaskState
  <2>4. n.pc = "model" /\ n.kind = "run" /\ n.round = r.round + 1 /\ n.conn = None /\ n.model = r.model
    BY <1>2 DEF TaskState
  <2> HIDE DEF n
  <2>5. r.model # None
    BY <1>2 DEF TaskFit
  <2>6. TaskFit(n)
    BY <2>2, <2>4, <2>5, Constants DEF TaskFit
  <2>7. Admission(n)
    BY <1>2, <2>4 DEF Admission
  <2> QED BY <2>1, <2>3, <2>4, <2>6, <2>7
<1> QED BY <1>1, <1>2

LEMMA RunsGoOn ==
  ASSUME RuntimeInv, NEW t \in Tasks, task[t].pc = "model"
  PROVE  /\ task[t].kind = "run" /\ task[t].conn = None /\ ~ToolsClosing
         /\ task[t] \in TaskState /\ TaskFit(task[t]) /\ Admission(task[t])
<1>1. task[t] \in TaskState /\ TaskFit(task[t]) /\ Admission(task[t])
  BY Typed, Admitting
<1> QED BY <1>1 DEF TaskFit, Admission

LEMMA RunStarts ==
  ASSUME RuntimeInv, NEW t \in Runners, BeginRun(t)
  PROVE  RuntimeInv'
<1>1. t \in Tasks /\ ~ToolsClosing /\ task[t].conn = None
  BY IdleHolds DEF BeginRun, Tasks, ToolsClosing, RuntimeClosed
<1> QED BY <1>1, EntersStage, GoesOn DEF BeginRun

LEMMA StageEnds ==
  ASSUME RuntimeInv, NEW t \in Tasks, PlanReturns(t) \/ WorkReturns(t) \/ VerdictReturns(t)
  PROVE  RuntimeInv'
<1>1. task[t].conn = None /\ ~ToolsClosing
  BY RunsGoOn DEF PlanReturns, WorkReturns, VerdictReturns
<1>2. CASE PlanReturns(t)
  BY <1>1, <1>2, EntersStage, GoesOn DEF PlanReturns
<1>3. CASE WorkReturns(t)
  BY <1>1, <1>3, EntersStage, GoesOn DEF WorkReturns
<1>4. CASE VerdictReturns(t)
  BY <1>1, <1>4, IdleTyped, IdleHolds, GoesOn DEF VerdictReturns
<1> QED BY <1>2, <1>3, <1>4

LEMMA RunCallsTool ==
  ASSUME RuntimeInv, NEW t \in Tasks, ModelCallsTool(t)
  PROVE  RuntimeInv'
<1>1. /\ task[t].kind = "run" /\ task[t].conn = None /\ task[t].pc = "model"
      /\ task[t] \in TaskState /\ TaskFit(task[t]) /\ Admission(task[t])
  BY RunsGoOn DEF ModelCallsTool
<1>2. PICK s \in Targets :
        task' = [task EXCEPT ![t] = IF RoundsLeft(task[t]) /\ CanInvoke(s)
                                    THEN Invoking(task[t], s) ELSE Idle]
  BY DEF ModelCallsTool
<1>3. UNCHANGED <<slot, catalog, session, shut, lock, closes, client, todo>>
  BY DEF ModelCallsTool
<1>4. CASE RoundsLeft(task[t]) /\ CanInvoke(s)
  <2>1. /\ Invoking(task[t], s) \in TaskState /\ TaskFit(Invoking(task[t], s))
        /\ Admission(Invoking(task[t], s)) /\ Invoking(task[t], s).conn = None
    BY <1>1, <1>4, ServersKnown, Invokes
  <2> QED BY <1>1, <1>2, <1>3, <1>4, <2>1, GoesOn
<1>5. CASE ~(RoundsLeft(task[t]) /\ CanInvoke(s))
  BY <1>1, <1>2, <1>3, <1>5, IdleTyped, IdleHolds, GoesOn
<1> QED BY <1>4, <1>5

LEMMA RunEnds ==
  ASSUME RuntimeInv, NEW t \in Tasks, ModelFails(t) \/ Cancel(t)
  PROVE  RuntimeInv'
<1>1. task[t].pc \in {"model", "authorize"}
  BY DEF ModelFails, Cancel
<1>2. task[t].conn = None
  BY <1>1, Typed DEF TaskFit
<1> QED BY <1>2, IdleTyped, IdleHolds, GoesOn DEF ModelFails, Cancel

LEMMA ToolCalled ==
  ASSUME RuntimeInv, NEW t \in Callers, NEW s \in Targets, CallTool(t, s)
  PROVE  RuntimeInv'
<1> DEFINE r == [Idle EXCEPT !.kind = "tool"]
<1>1. r \in TaskState /\ Admission(r)
  <2>1. r \in TaskState
    BY IdleTyped DEF TaskState
  <2>2. r.kind = "tool" /\ r.pc = "idle" /\ r.model = None
    BY DEF Idle
  <2> HIDE DEF r
  <2> QED BY <2>1, <2>2 DEF Admission
<1>2. t \in Tasks /\ task[t].conn = None /\ CanInvoke(s)
  BY IdleHolds DEF CallTool, Tasks
<1>3. /\ Invoking(r, s) \in TaskState /\ TaskFit(Invoking(r, s))
      /\ Admission(Invoking(r, s)) /\ Invoking(r, s).conn = None
  BY <1>1, <1>2, ServersKnown, Invokes
<1>4. /\ task' = [task EXCEPT ![t] = Invoking(r, s)]
      /\ UNCHANGED <<slot, catalog, session, shut, lock, closes, client, todo>>
  BY DEF CallTool
<1> HIDE DEF r
<1> QED BY <1>2, <1>3, <1>4, GoesOn

LEMMA ToolRefused ==
  ASSUME RuntimeInv, NEW t \in Tasks, Refuse(t)
  PROVE  RuntimeInv'
<1>1. /\ task[t] \in TaskState /\ TaskFit(task[t]) /\ Admission(task[t])
      /\ task[t].pc = "authorize" /\ task[t].conn = None
  BY Typed, Admitting DEF Refuse, TaskFit
<1> QED BY <1>1, AfterTool, GoesOn DEF Refuse

-----------------------------------------------------------------------------
(* Steps of callers that take a connection from its slot                    *)

\* A caller without a connection takes the one that is in service.
LEMMA TakesSlot ==
  ASSUME RuntimeInv, NEW t \in Tasks, NEW s \in Servers, NEW r \in TaskState,
         TaskFit(r), Admission(r), r.pc \in {"call", "page"}, r.conn = slot[s], slot[s] # None,
         task' = [task EXCEPT ![t] = r], task[t].conn = None,
         UNCHANGED <<slot, catalog, session, shut, lock, closes, client, todo>>
  PROVE  RuntimeInv'
<1>1. task[t].pc \notin {"call", "page", "close"} /\ catalog' \in [Servers -> Conns \cup {None}]
  BY Typed DEF TaskFit
<1>2. \A c \in Conns : ~InUse(task[t], c)
  BY <1>1 DEF InUse
<1>3. \A c \in Conns : InUse(r, c) => ~Retired(c)
  BY DEF InUse, Retired
<1> QED BY <1>1, <1>2, <1>3, TaskMoves

LEMMA WithConn ==
  ASSUME NEW i \in TaskState, NEW c \in Conns
  PROVE  [i EXCEPT !.conn = c] \in TaskState
BY DEF TaskState

LEMMA ToolAdmitted ==
  ASSUME RuntimeInv, NEW t \in Tasks, Admitted(t)
  PROVE  RuntimeInv'
<1> DEFINE c == slot[task[t].server]
           r == [task[t] EXCEPT !.pc = "call", !.conn = c]
<1>1. /\ task[t] \in TaskState /\ TaskFit(task[t]) /\ Admission(task[t])
      /\ task[t].pc = "authorize" /\ task[t].conn = None /\ task[t].server \in Servers
      /\ task[t].kind \in {"run", "tool"}
  BY Typed, Admitting DEF Admitted, TaskFit
<1>2. UNCHANGED <<slot, catalog, session, shut, lock, closes, client, todo>>
  BY DEF Admitted
<1>3. CASE c # None /\ TokenMatches(task[t], c) /\ ~McpClosed
  <2>1. task' = [task EXCEPT ![t] = r]
    BY <1>3 DEF Admitted
  <2>2. c \in Conns /\ task[t].token = c
    BY <1>1, <1>3, Typed DEF TokenMatches
  <2>3. r \in TaskState
    <3> DEFINE p == [task[t] EXCEPT !.pc = "call"]
    <3>1. p \in TaskState
      BY <1>1 DEF TaskState
    <3>2. r = [p EXCEPT !.conn = c]
      OBVIOUS
    <3> HIDE DEF p, r
    <3> QED BY <2>2, <3>1, <3>2, WithConn
  <2>4. /\ r.pc = "call" /\ r.conn = c /\ r.kind = task[t].kind /\ r.token = c
        /\ r.model = task[t].model /\ r.round = task[t].round
    BY <1>1, <2>2 DEF TaskState
  <2> HIDE DEF r
  <2>5. TaskFit(r)
    BY <1>1, <1>3, <2>4 DEF TaskFit
  <2>6. Admission(r)
    BY <1>1, <2>4 DEF Admission
  <2> QED BY <1>1, <1>2, <1>3, <2>1, <2>3, <2>4, <2>5, <2>6, TakesSlot
<1>4. CASE ~(c # None /\ TokenMatches(task[t], c) /\ ~McpClosed)
  <2>1. task' = [task EXCEPT ![t] = AfterInvoke(task[t], FALSE)]
    BY <1>4 DEF Admitted
  <2> QED BY <1>1, <1>2, <2>1, AfterTool, GoesOn
<1> QED BY <1>3, <1>4

LEMMA UseTyped ==
  ASSUME NEW i \in TaskState, NEW pc \in {"call", "page"},
         NEW kind \in {"read", "discover", "catalog"}, NEW s \in Servers, NEW c \in Conns
  PROVE  [i EXCEPT !.pc = pc, !.kind = kind, !.server = s, !.conn = c] \in TaskState
<1> DEFINE p == [i EXCEPT !.pc = pc]
           k == [p EXCEPT !.kind = kind]
           v == [k EXCEPT !.server = s]
<1>1. [i EXCEPT !.pc = pc, !.kind = kind, !.server = s, !.conn = c] = [v EXCEPT !.conn = c]
  OBVIOUS
<1>2. p \in TaskState
  BY DEF TaskState
<1> HIDE DEF p
<1>3. k \in TaskState
  BY <1>2 DEF TaskState
<1> HIDE DEF k
<1>4. v \in TaskState
  BY <1>3 DEF TaskState
<1> HIDE DEF v
<1> QED BY <1>1, <1>4, WithConn

LEMMA ConnectionUsed ==
  ASSUME RuntimeInv, NEW t \in Callers, NEW s \in Targets,
         NEW pc \in {"call", "page"}, NEW kind \in {"read", "discover", "catalog"},
         pc = "page" => kind # "read", task[t] = Idle, slot[s] # None,
         task' = [task EXCEPT ![t] = [Idle EXCEPT !.pc = pc, !.kind = kind, !.server = s,
                                                  !.conn = slot[s]]],
         UNCHANGED <<slot, catalog, session, shut, lock, closes, client, todo>>
  PROVE  RuntimeInv'
<1> DEFINE r == [Idle EXCEPT !.pc = pc, !.kind = kind, !.server = s, !.conn = slot[s]]
<1>1. t \in Tasks /\ s \in Servers /\ slot[s] \in Conns /\ task[t].conn = None
  BY Typed, ServersKnown, IdleHolds DEF Tasks
<1>2. r \in TaskState
  BY <1>1, IdleTyped, UseTyped
<1>3. r.pc = pc /\ r.conn = slot[s] /\ r.kind = kind /\ r.model = None
  BY DEF Idle
<1>4. task' = [task EXCEPT ![t] = r]
  OBVIOUS
<1> HIDE DEF r
<1>5. TaskFit(r) /\ Admission(r)
  BY <1>3 DEF TaskFit, Admission
<1> QED BY <1>1, <1>2, <1>3, <1>4, <1>5, TakesSlot

LEMMA ConnectionRead ==
  ASSUME RuntimeInv, NEW t \in Callers, NEW s \in Targets,
         Read(t, s) \/ Discover(t, s) \/ Catalog(t, s)
  PROVE  RuntimeInv'
<1>1. CASE Read(t, s)
  BY <1>1, ConnectionUsed DEF Read
<1>2. CASE Discover(t, s)
  BY <1>2, ConnectionUsed DEF Discover, Listing
<1>3. CASE Catalog(t, s)
  BY <1>3, ConnectionUsed DEF Catalog, Listing
<1> QED BY <1>1, <1>2, <1>3

-----------------------------------------------------------------------------
(* A connection is asked to close                                           *)

\* Whoever decides to close c, as its last caller, as the host or as the close task.
ClosesNow(a, c, r) ==
  /\ AskClose(a, c) /\ c \notin shut /\ session[c] = "open"
  /\ r \in TaskState /\ r.pc = "close" /\ r.conn = c
  /\ task' = [task EXCEPT ![a] = r]
  /\ UNCHANGED <<session, client, todo, catalog>>
  /\ a \in Tasks => TaskFit(r) /\ Admission(r) /\ InUse(task[a], c) /\ slot' = slot
  /\ a = Host => HostFit(r) /\ task[a].pc # "close"
  /\ a = Shutdown => r = task[a] /\ slot' = slot

\* What becomes of the slots: c is out of service and unused, the connection that was being
\* started has perhaps taken a slot.
SlotsAfter(a, c) ==
  /\ slot' \in [Servers -> Conns \cup {None}]
  /\ \A s \in Servers : slot'[s] # None =>
       \/ slot'[s] = slot[s]
       \/ /\ a = Host /\ task[Host].pc = "start"
          /\ slot'[s] = task[Host].conn /\ ServerOf[task[Host].conn] = s
  /\ \A d \in Conns : d # c /\ ~Retired(d) => ~Retired(d)'
  /\ Retired(c)' /\ Unused(c)'
  /\ a = Host /\ task[Host].pc = "start" =>
       \A d \in Conns : d = task[Host].conn => d = c \/ ~Retired(d)'

LEMMA CloseAsked ==
  ASSUME RuntimeInv, NEW a \in Actors, NEW c \in Conns, NEW r, ClosesNow(a, c, r), SlotsAfter(a, c)
  PROVE  RuntimeInv'
<1>0. /\ AskClose(a, c) /\ c \notin shut /\ session[c] = "open"
      /\ r \in TaskState /\ r.pc = "close" /\ r.conn = c
      /\ task' = [task EXCEPT ![a] = r]
      /\ session' = session /\ client' = client /\ todo' = todo /\ catalog' = catalog
  BY DEF ClosesNow
<1>1. /\ task'[a] = r /\ \A b \in Actors : b # a => task'[b] = task[b]
      /\ task' \in [Actors -> TaskState]
  BY <1>0, Typed
<1>2. /\ shut' = shut \cup {c} /\ shut' \subseteq Conns
      /\ lock' \in [Conns -> Actors \cup {None}] /\ lock'[c] = a
      /\ \A d \in Conns : d # c => lock'[d] = lock[d]
      /\ closes' \in [Conns -> Nat] /\ closes'[c] = closes[c] + 1
      /\ \A d \in Conns : d # c => closes'[d] = closes[d]
  BY <1>0, Typed DEF AskClose
<1>3. /\ Stage' = Stage /\ RuntimeClosed' = RuntimeClosed /\ ToolsClosing' = ToolsClosing
      /\ ToolsClosed' = ToolsClosed /\ McpClosed' = McpClosed
      /\ task'[Shutdown] = task[Shutdown]
  <2>1. task'[Shutdown] = task[Shutdown]
    BY <1>1, Names DEF ClosesNow
  <2> QED BY <2>1, StageKept
<1>4. \A d \in Conns : d # c => Unused(d)' = Unused(d)
  <2>1. CASE a \in Tasks
    <3>1. InUse(task[a], c)
      BY <2>1 DEF ClosesNow
    <3> QED BY <1>0, <1>1, <2>1, <3>1, Names DEF Unused, InUse
  <2>2. CASE a \notin Tasks
    BY <1>1, <2>2, Names DEF Unused
  <2> QED BY <2>1, <2>2
<1>5. Unused(c)' /\ Retired(c)'
  BY DEF SlotsAfter
<1>6. \A d \in Conns : d \in shut \/ session[d] = "fresh" => Retired(d)'
  <2>1. ASSUME NEW d \in Conns, d \in shut \/ session[d] = "fresh", NEW s \in Servers, slot'[s] = d
        PROVE  FALSE
    <3>1. slot[s] # d
      BY <2>1 DEF RuntimeInv, Over, NotYet, Retired
    <3>2. task[Host].pc = "start" /\ d = task[Host].conn
      BY <2>1, <3>1, Names DEF SlotsAfter
    <3> QED BY <2>1, <3>2 DEF RuntimeInv, NotYet
  <2> QED BY <2>1 DEF Retired
<1>7. RuntimeTypeOK'
  BY <1>0, <1>1, <1>2, Typed DEF RuntimeTypeOK, SlotsAfter
<1>8. Fits'
  <2>1. \A t \in Tasks : TaskFit(task'[t])
    BY <1>1, Typed, Names DEF ClosesNow
  <2>2. HostFit(task'[Host])
    BY <1>1, Typed, Names DEF ClosesNow
  <2> QED BY <1>3, <2>1, <2>2, Typed DEF Fits
<1>9. UsersOpen'
  <2>1. a \in Tasks /\ r.model # None => client[r.model] # "closed"
    BY DEF ClosesNow, Admission
  <2> QED BY <1>0, <1>1, <2>1, Names DEF RuntimeInv, UsersOpen
<1>10. SlotsServe'
  <2>1. ASSUME NEW s \in Servers, slot'[s] # None
        PROVE  session[slot'[s]] = "open" /\ slot'[s] \notin shut' /\ ServerOf[slot'[s]] = s
    <3>1. slot'[s] # c
      BY <1>5 DEF Retired
    <3>2. CASE slot'[s] = slot[s]
      BY <1>2, <2>1, <3>1, <3>2 DEF RuntimeInv, SlotsServe
    <3>3. CASE slot'[s] # slot[s]
      <4>1. task[Host].pc = "start" /\ slot'[s] = task[Host].conn /\ ServerOf[slot'[s]] = s
        BY <2>1, <3>3 DEF SlotsAfter
      <4> QED BY <1>2, <3>1, <4>1 DEF RuntimeInv, NotYet
    <3> QED BY <3>2, <3>3
  <2> QED BY <1>0, <2>1 DEF SlotsServe
<1>11. AdmittedIsServed'
  <2>1. a \in Tasks => Admission(r)
    BY DEF ClosesNow
  <2> QED BY <1>0, <1>1, <1>3, <2>1, Names DEF RuntimeInv, AdmittedIsServed, Runs, Invocations, Admission
<1>12. NotYet'
  <2>1. ASSUME task'[Host].pc = "start", NEW d \in Conns, d = task'[Host].conn
        PROVE  session[d] = "open" /\ d \notin shut' /\ Retired(d)' /\ Unused(d)'
    <3>1. a # Host /\ task'[Host] = task[Host]
      BY <1>0, <1>1, <2>1, Names
    <3>2. session[d] = "open" /\ d \notin shut /\ Retired(d) /\ Unused(d)
      BY <2>1, <3>1 DEF RuntimeInv, NotYet
    <3>3. a \in Tasks
      <4>1. ~McpClosed
        BY <2>1, <3>1 DEF RuntimeInv, Emptied
      <4>2. a = Shutdown => Stage = "close"
        BY <1>0, <1>1, <1>3 DEF Stage
      <4> QED BY <3>1, <4>1, <4>2, Names DEF McpClosed
    <3>4. d # c /\ slot' = slot
      BY <3>2, <3>3 DEF ClosesNow, Unused
    <3> QED BY <1>2, <1>4, <3>2, <3>4 DEF Retired
  <2>2. \A d \in Conns : session[d] = "fresh" => d \notin shut' /\ Retired(d)' /\ Unused(d)'
    BY <1>0, <1>2, <1>4, <1>6 DEF RuntimeInv, NotYet
  <2>3. task'[Host].pc = "start" => task'[Host].conn \in Conns
    <3>1. task'[Host] \in TaskState /\ HostFit(task'[Host])
      BY <1>1, <1>8, Names DEF Fits
    <3> QED BY <3>1 DEF HostFit, TaskState
  <2> QED BY <1>0, <2>1, <2>2, <2>3 DEF NotYet
<1>13. Over'
  <2>1. ASSUME NEW d \in Conns
        PROVE  /\ closes'[d] = IF d \in shut' THEN 1 ELSE 0
               /\ d \in shut' => Retired(d)' /\ Unused(d)'
                    /\ (lock'[d] # None \/ session[d] \in {"closed", "broken"})
    <3>1. closes[d] = IF d \in shut THEN 1 ELSE 0
      BY DEF RuntimeInv, Over
    <3>2. CASE d = c
      BY <1>0, <1>2, <1>5, <3>1, <3>2, Names
    <3>3. CASE d # c
      BY <1>2, <1>4, <1>6, <3>1, <3>3 DEF RuntimeInv, Over
    <3> QED BY <3>2, <3>3
  <2> QED BY <1>0, <2>1 DEF Over
<1>14. Locks'
  <2>1. ASSUME NEW d \in Conns, lock'[d] # None
        PROVE  /\ d \in shut' /\ session[d] = "open"
               /\ task'[lock'[d]].pc = "close" /\ task'[lock'[d]].conn = d
    <3>1. CASE d = c
      BY <1>0, <1>1, <1>2, <3>1
    <3>2. CASE d # c
      <4> DEFINE b == lock[d]
      <4>1. /\ lock'[d] = b /\ b \in Actors /\ d \in shut /\ session[d] = "open"
            /\ task[b].pc = "close" /\ task[b].conn = d
        BY <1>2, <2>1, <3>2, Typed DEF RuntimeInv, Locks
      <4> HIDE DEF b
      <4>2. b # a
        BY <1>0, <3>2, <4>1, Names DEF ClosesNow, InUse
      <4> QED BY <1>1, <1>2, <4>1, <4>2
    <3> QED BY <3>1, <3>2
  <2>2. ASSUME NEW b \in Tasks \cup {Host}, task'[b].pc = "close"
        PROVE  lock'[task'[b].conn] = b
    <3>1. CASE b = a
      BY <1>0, <1>1, <1>2, <3>1
    <3>2. CASE b # a
      <4>1. task'[b] = task[b] /\ b \in Actors
        BY <1>1, <3>2, Names
      <4>2. lock[task[b].conn] = b /\ task[b].conn \in Conns
        BY <2>2, <4>1, Typed, Names DEF RuntimeInv, Locks, TaskFit, HostFit, TaskState
      <4>3. task[b].conn # c
        BY <1>0, <4>1, <4>2, Names DEF RuntimeInv, Locks
      <4> QED BY <1>2, <4>1, <4>2, <4>3
    <3> QED BY <3>1, <3>2
  <2> QED BY <1>0, <2>1, <2>2 DEF Locks
<1>15. Emptied'
  <2>1. McpClosed => (\A s \in Servers : slot'[s] = None) /\ task'[Host].pc # "start"
    <3>1. McpClosed => (\A s \in Servers : slot[s] = None) /\ task[Host].pc # "start"
      BY DEF RuntimeInv, Emptied
    <3> QED BY <1>0, <1>1, <3>1, Names DEF SlotsAfter
  <2>2. Stage = "close" => \A d \in Conns : d = task[Shutdown].conn => Unused(d)'
    BY <1>4, <1>5 DEF RuntimeInv, Emptied
  <2>6. Stage = "close" => task[Shutdown].conn \in Conns
    BY Typed DEF ShutdownFit, TaskState, Stage
  <2>3. todo # {} => Stage \in {"todo", "close"}
    BY DEF RuntimeInv, Emptied
  <2>4. \A d \in todo : d \in shut' \/ session[d] = "open"
    BY <1>2 DEF RuntimeInv, Emptied
  <2>5. Stage = "close" => task[Shutdown].conn \in shut' \/ session[task[Shutdown].conn] = "open"
    BY <1>2 DEF RuntimeInv, Emptied
  <2> QED BY <1>0, <1>3, <2>1, <2>2, <2>3, <2>4, <2>5, <2>6 DEF Emptied
<1>16. NothingLost'
  <2> SUFFICES ASSUME \A d \in Conns : session[d] # "broken"
               PROVE  /\ \A d \in Conns : session[d] = "open" => Held(d)'
                      /\ Stage = "done" => McpOperations' = {}
    BY <1>0, <1>3 DEF NothingLost
  <2>1. ASSUME NEW d \in Conns, session[d] = "open" PROVE Held(d)'
    <3>1. Held(d)
      BY <2>1 DEF RuntimeInv, NothingLost
    <3>2. CASE d = c
      BY <1>2, <3>2, Names DEF Held
    <3>3. CASE d # c
      <4>1. ~Retired(d) => ~Retired(d)'
        BY <3>3 DEF SlotsAfter
      <4>2. task[Host].pc = "start" /\ task[Host].conn = d => Held(d)'
        <5>1. CASE a = Host
          BY <3>3, <5>1 DEF SlotsAfter, Held
        <5>2. CASE a # Host
          BY <1>1, <5>2, Names DEF Held
        <5> QED BY <5>1, <5>2
      <4> QED BY <1>0, <1>2, <1>3, <1>4, <3>1, <3>3, <4>1, <4>2 DEF Held
    <3> QED BY <3>2, <3>3
  <2>2. ASSUME Stage = "done" PROVE McpOperations' = {}
    <3>1. McpOperations = {}
      BY <2>2 DEF RuntimeInv, NothingLost
    <3>2. a \notin Tasks
      BY <3>1, Names DEF ClosesNow, InUse, McpOperations
    <3> QED BY <1>1, <3>1, <3>2, Names DEF McpOperations
  <2> QED BY <2>1, <2>2
<1> QED BY <1>7, <1>8, <1>9, <1>10, <1>11, <1>12, <1>13, <1>14, <1>15, <1>16 DEF RuntimeInv

-----------------------------------------------------------------------------
(* A connection is released                                                 *)

LEMMA CatalogTyped ==
  ASSUME RuntimeInv, NEW r \in TaskState, NEW ok
  PROVE  Installed(r, ok) \in [Servers -> Conns \cup {None}]
BY Typed DEF Installed, TaskState

LEMMA Releases ==
  ASSUME RuntimeInv, NEW t \in Tasks, task[t].pc \in {"call", "page"}, NEW ok \in BOOLEAN,
         Release(t, ok), UNCHANGED <<slot, session, client, todo>>
  PROVE  RuntimeInv'
<1>0. PICK c : c = task[t].conn
  OBVIOUS
<1>1. /\ task[t] \in TaskState /\ TaskFit(task[t]) /\ Admission(task[t])
      /\ c \in Conns /\ InUse(task[t], c) /\ session[c] = "open" /\ t \in Actors
  <2>1. task[t] \in TaskState /\ TaskFit(task[t]) /\ Admission(task[t]) /\ t \in Actors
    BY Typed, Admitting, Names
  <2>2. c \in Conns /\ InUse(task[t], c)
    BY <1>0, <2>1 DEF TaskFit, TaskState, InUse
  <2> QED BY <1>0, <2>1, <2>2 DEF RuntimeInv, UsersOpen
<1>2. CASE Retired(c) /\ Calls(c) = {t}
  <2> DEFINE r == [task[t] EXCEPT !.pc = "close", !.ok = ok]
  <2>1. /\ task' = [task EXCEPT ![t] = r] /\ AskClose(t, c) /\ catalog' = catalog
    BY <1>0, <1>2 DEF Release
  <2>2. r \in TaskState
    BY <1>1 DEF TaskState
  <2>3. /\ r.pc = "close" /\ r.conn = c /\ r.kind = task[t].kind /\ r.model = task[t].model
        /\ r.round = task[t].round
    BY <1>0, <1>1 DEF TaskState
  <2> HIDE DEF r
  <2>4. TaskFit(r) /\ Admission(r)
    <3>1. TaskFit(r)
      BY <1>1, <2>3, Names DEF TaskFit
    <3> QED BY <1>1, <2>3, <3>1 DEF Admission, InUse, TaskFit
  <2>5. c \notin shut
    BY <1>1 DEF RuntimeInv, Over, Unused
  <2>6. ClosesNow(t, c, r)
    BY <1>1, <2>1, <2>2, <2>3, <2>4, <2>5, Names DEF ClosesNow
  <2>7. Unused(c)'
    <3>1. \A u \in Tasks : u # t => ~InUse(task[u], c) /\ task'[u] = task[u]
      BY <1>2, <2>1, Typed, Names DEF Calls, InUse
    <3>2. ~InUse(task'[t], c)
      BY <1>1, <2>1, <2>3, Typed DEF InUse
    <3>3. \A u \in Tasks : ~InUse(task'[u], c)
      BY <3>1, <3>2
    <3> QED BY <3>3 DEF Unused
  <2>8. Retired(c)'
    BY <1>2 DEF Retired
  <2>9. SlotsAfter(t, c)
    <3>1. \A d \in Conns : Retired(d)' = Retired(d)
      BY DEF Retired
    <3> QED BY <1>1, <2>7, <2>8, <3>1, Typed, Names DEF SlotsAfter
  <2> QED BY <1>1, <2>6, <2>9, CloseAsked
<1>3. CASE ~(Retired(c) /\ Calls(c) = {t})
  <2> DEFINE r == AfterInvoke(task[t], ok)
  <2>1. /\ task' = [task EXCEPT ![t] = r] /\ catalog' = Installed(task[t], ok)
        /\ UNCHANGED <<shut, lock, closes>>
    BY <1>0, <1>3 DEF Release
  <2>2. /\ r \in TaskState /\ TaskFit(r) /\ Admission(r) /\ r.pc \in {"idle", "model"}
    BY <1>1, AfterTool
  <2> HIDE DEF r
  <2>3. \A d \in Conns : ~InUse(r, d)
    BY <2>2 DEF InUse
  <2>4. Retired(c) => \E u \in Tasks : u # t /\ InUse(task[u], c)
    BY <1>0, <1>1, <1>3 DEF Calls, InUse
  <2>5. \A d \in Conns : InUse(task[t], d) =>
          ~Retired(d) \/ \E u \in Tasks : u # t /\ InUse(task[u], d)
    BY <1>0, <2>4 DEF InUse
  <2>6. catalog' \in [Servers -> Conns \cup {None}]
    BY <1>1, <2>1, CatalogTyped
  <2> QED BY <2>1, <2>2, <2>3, <2>5, <2>6, TaskMoves
<1> QED BY <1>2, <1>3

LEMMA CallEnds ==
  ASSUME RuntimeInv, NEW t \in Tasks, SessionAnswers(t) \/ PageFails(t) \/ CancelCall(t)
  PROVE  RuntimeInv'
BY Releases DEF SessionAnswers, PageFails, CancelCall

LEMMA PageCounted ==
  ASSUME NEW r \in TaskState, NEW n \in 0 .. MaxItems + 1, NEW k \in Cursors,
         ~LastPage(r), ~(r.items + n > MaxItems)
  PROVE  [r EXCEPT !.round = @ + 1, !.items = @ + n, !.seen = @ \cup {k}] \in TaskState
<1>1. /\ r.round \in Nat /\ r.items \in Nat /\ r.seen \subseteq Cursors
      /\ n \in Nat
  BY Constants DEF TaskState
<1>2. r.round + 1 \in 0 .. MaxRounds + MaxPages /\ r.items + n \in 0 .. MaxItems
  BY <1>1, Constants DEF LastPage
<1>3. [r EXCEPT !.round = r.round + 1] \in TaskState
  BY <1>2 DEF TaskState
<1>4. [r EXCEPT !.round = r.round + 1, !.items = r.items + n] \in TaskState
  BY <1>2, <1>3 DEF TaskState
<1> QED BY <1>1, <1>4 DEF TaskState

LEMMA ListingCounted ==
  ASSUME NEW r \in TaskState, MoreListings(r)
  PROVE  [r EXCEPT !.list = @ + 1, !.round = 0, !.items = 0, !.seen = {}] \in TaskState
<1>1. r.list \in Nat /\ r.list + 1 \in {1} \cup 1 .. Cardinality(Listings)
  BY ListingsCounted DEF MoreListings, TaskState
<1>0. 0 \in 0 .. MaxRounds + MaxPages /\ 0 \in 0 .. MaxItems
  BY Constants
<1>2. [r EXCEPT !.list = r.list + 1] \in TaskState
  BY <1>1 DEF TaskState
<1>3. [r EXCEPT !.list = r.list + 1, !.round = 0] \in TaskState
  BY <1>0, <1>2 DEF TaskState
<1>4. [r EXCEPT !.list = r.list + 1, !.round = 0, !.items = 0] \in TaskState
  BY <1>0, <1>3 DEF TaskState
<1> QED BY <1>4 DEF TaskState

\* A page came, the listing goes on with the connection it has.
LEMMA Pages ==
  ASSUME RuntimeInv, NEW t \in Tasks, task[t].pc = "page", NEW r \in TaskState,
         r.pc = "page", r.kind = task[t].kind, r.conn = task[t].conn, r.model = task[t].model,
         task' = [task EXCEPT ![t] = r],
         UNCHANGED <<slot, catalog, session, shut, lock, closes, client, todo>>
  PROVE  RuntimeInv'
<1>1. TaskFit(task[t]) /\ Admission(task[t]) /\ catalog' \in [Servers -> Conns \cup {None}]
  BY Typed, Admitting
<1>2. TaskFit(r) /\ Admission(r)
  BY <1>1 DEF TaskFit, Admission
<1>3. \A c \in Conns : InUse(r, c) = InUse(task[t], c)
  BY DEF InUse
<1> QED BY <1>1, <1>2, <1>3, TaskMoves

LEMMA PageHandled ==
  ASSUME RuntimeInv, NEW t \in Tasks, PageArrives(t)
  PROVE  RuntimeInv'
<1> DEFINE r == task[t]
<1>0. /\ r.pc = "page" /\ r \in TaskState /\ UNCHANGED <<slot, session, client, todo>>
  BY Typed DEF PageArrives
<1>1. PICK n \in 0 .. MaxItems + 1, k \in Cursors \cup {None} :
        IF r.items + n > MaxItems THEN Release(t, FALSE)
        ELSE IF k = None /\ ~MoreListings(r) THEN Release(t, TRUE)
        ELSE IF k = None
             THEN /\ task' = [task EXCEPT ![t].list = @ + 1, ![t].round = 0, ![t].items = 0,
                                          ![t].seen = {}]
                  /\ UNCHANGED <<catalog, shut, lock, closes>>
        ELSE IF k \in r.seen \/ LastPage(r) THEN Release(t, FALSE)
        ELSE /\ task' = [task EXCEPT ![t].round = @ + 1, ![t].items = @ + n,
                                     ![t].seen = @ \cup {k}]
             /\ UNCHANGED <<catalog, shut, lock, closes>>
  BY DEF PageArrives
<1>2. CASE \E ok \in BOOLEAN : Release(t, ok)
  BY <1>0, <1>2, Releases
<1>3. CASE /\ MoreListings(r)
           /\ task' = [task EXCEPT ![t].list = @ + 1, ![t].round = 0, ![t].items = 0, ![t].seen = {}]
           /\ UNCHANGED <<catalog, shut, lock, closes>>
  <2> DEFINE x == [r EXCEPT !.list = @ + 1, !.round = 0, !.items = 0, !.seen = {}]
  <2>1. x \in TaskState
    BY <1>0, <1>3, ListingCounted
  <2>2. task' = [task EXCEPT ![t] = x]
    BY <1>3
  <2>3. x.pc = "page" /\ x.kind = r.kind /\ x.conn = r.conn /\ x.model = r.model
    BY <1>0 DEF TaskState
  <2> HIDE DEF x
  <2> QED BY <1>0, <1>3, <2>1, <2>2, <2>3, Pages
<1>4. CASE /\ ~(r.items + n > MaxItems) /\ k # None /\ ~LastPage(r)
           /\ task' = [task EXCEPT ![t].round = @ + 1, ![t].items = @ + n, ![t].seen = @ \cup {k}]
           /\ UNCHANGED <<catalog, shut, lock, closes>>
  <2> DEFINE x == [r EXCEPT !.round = @ + 1, !.items = @ + n, !.seen = @ \cup {k}]
  <2>1. x \in TaskState
    BY <1>0, <1>4, PageCounted
  <2>2. task' = [task EXCEPT ![t] = x]
    BY <1>4
  <2>3. x.pc = "page" /\ x.kind = r.kind /\ x.conn = r.conn /\ x.model = r.model
    BY <1>0 DEF TaskState
  <2> HIDE DEF x
  <2> QED BY <1>0, <1>4, <2>1, <2>2, <2>3, Pages
<1> QED BY <1>1, <1>2, <1>3, <1>4

-----------------------------------------------------------------------------
(* The host replaces and unregisters connections                            *)

\* What callers see of a step of the host or of the close task.
LEMMA BesideCallers ==
  ASSUME RuntimeInv, NEW a \in {Host, Shutdown}, NEW r \in TaskState,
         a = Host => HostFit(r), a = Shutdown => ShutdownFit(r), task' = [task EXCEPT ![a] = r]
  PROVE  /\ task' \in [Actors -> TaskState] /\ Fits'
         /\ task'[a] = r /\ \A b \in Actors : b # a => task'[b] = task[b]
         /\ \A d \in Conns : Unused(d)' = Unused(d)
         /\ Runs' = Runs /\ Invocations' = Invocations /\ McpOperations' = McpOperations
         /\ a = Host =>
              /\ Stage' = Stage /\ RuntimeClosed' = RuntimeClosed /\ ToolsClosing' = ToolsClosing
              /\ ToolsClosed' = ToolsClosed /\ McpClosed' = McpClosed
<1>1. /\ task' \in [Actors -> TaskState] /\ task'[a] = r
      /\ \A b \in Actors : b # a => task'[b] = task[b]
  BY Typed, Names
<1>2. \A t \in Tasks : task'[t] = task[t]
  BY <1>1, Names
<1>3. Fits'
  BY <1>1, <1>2, Typed, Names DEF Fits
<1>4. \A d \in Conns : Unused(d)' = Unused(d)
  BY <1>2 DEF Unused
<1>5. Runs' = Runs /\ Invocations' = Invocations /\ McpOperations' = McpOperations
  BY <1>2 DEF Runs, Invocations, McpOperations
<1>6. a = Host => task'[Shutdown].pc = task[Shutdown].pc
  BY <1>1, Names
<1> QED BY <1>1, <1>3, <1>4, <1>5, <1>6, StageKept

\* A connection between the calls, not in use and out of service.
LEMMA StartTyped ==
  ASSUME RuntimeInv, task[Host].pc = "start"
  PROVE  /\ task[Host].conn \in Conns /\ task[Host].kind = "replace" /\ ~McpClosed
         /\ task[Host].conn # None
BY Typed, Names DEF HostFit, TaskState, RuntimeInv, Emptied

LEMMA Registers ==
  ASSUME RuntimeInv, NEW c \in Conns, Register(c)
  PROVE  RuntimeInv'
<1> DEFINE r == [Idle EXCEPT !.pc = "start", !.kind = "replace", !.conn = c]
<1>0. /\ task[Host] = Idle /\ ~McpClosed /\ session[c] = "fresh" /\ task' = [task EXCEPT ![Host] = r]
      /\ session' = [session EXCEPT ![c] = "open"]
      /\ slot' = slot /\ catalog' = catalog /\ shut' = shut /\ lock' = lock /\ closes' = closes
      /\ client' = client /\ todo' = todo
  BY DEF Register
<1>1. r.pc = "start" /\ r.kind = "replace" /\ r.conn = c
  BY DEF Idle
<1>2. r \in TaskState
  <2>1. [Idle EXCEPT !.pc = "start"] \in TaskState
    BY IdleTyped DEF TaskState
  <2>2. [Idle EXCEPT !.pc = "start", !.kind = "replace"] \in TaskState
    BY <2>1 DEF TaskState
  <2> QED BY <2>2 DEF TaskState
<1> HIDE DEF r
<1>3. HostFit(r)
  BY <1>1, Names DEF HostFit
<1>4. /\ task' \in [Actors -> TaskState] /\ Fits'
      /\ task'[Host] = r /\ \A b \in Actors : b # Host => task'[b] = task[b]
      /\ \A d \in Conns : Unused(d)' = Unused(d)
      /\ Runs' = Runs /\ Invocations' = Invocations /\ McpOperations' = McpOperations
      /\ Stage' = Stage /\ RuntimeClosed' = RuntimeClosed /\ ToolsClosing' = ToolsClosing
      /\ ToolsClosed' = ToolsClosed /\ McpClosed' = McpClosed
  BY <1>0, <1>2, <1>3, Names, BesideCallers
<1>5. \A d \in Conns : Retired(d)' = Retired(d)
  BY <1>0 DEF Retired
<1>6. /\ session' \in [Conns -> {"fresh", "open", "closed", "broken"}] /\ session'[c] = "open"
      /\ \A d \in Conns : d # c => session'[d] = session[d]
  BY <1>0, Typed
<1>7. c \notin shut /\ Retired(c) /\ Unused(c) /\ lock[c] = None
  BY <1>0 DEF RuntimeInv, NotYet, Locks
<1>8. RuntimeTypeOK'
  BY <1>0, <1>4, <1>6, Typed DEF RuntimeTypeOK
<1>9. UsersOpen'
  <2>1. \A t \in Tasks : task'[t] = task[t]
    BY <1>4, Names
  <2>2. \A t \in Tasks : task[t].pc \in {"call", "page"} => task[t].conn \in Conns
    BY Typed DEF TaskFit, TaskState
  <2> QED BY <1>0, <1>6, <2>1, <2>2 DEF RuntimeInv, UsersOpen
<1>10. SlotsServe'
  BY <1>0, <1>6, Typed DEF RuntimeInv, SlotsServe
<1>11. AdmittedIsServed'
  BY <1>4 DEF RuntimeInv, AdmittedIsServed
<1>12. NotYet'
  BY <1>0, <1>1, <1>4, <1>5, <1>6, <1>7 DEF RuntimeInv, NotYet
<1>13. Over'
  BY <1>0, <1>4, <1>5, <1>6, <1>7 DEF RuntimeInv, Over
<1>14. Locks'
  <2>1. ASSUME NEW d \in Conns, lock[d] # None
        PROVE  /\ d \in shut /\ session'[d] = "open"
               /\ task'[lock[d]].pc = "close" /\ task'[lock[d]].conn = d
    <3>1. /\ lock[d] \in Actors /\ d \in shut /\ session[d] = "open"
          /\ task[lock[d]].pc = "close" /\ task[lock[d]].conn = d
      BY <2>1, Typed DEF RuntimeInv, Locks
    <3>2. lock[d] # Host
      BY <1>0, <3>1, IdleHolds
    <3> QED BY <1>4, <1>6, <3>1, <3>2
  <2>2. ASSUME NEW b \in Tasks \cup {Host}, task'[b].pc = "close" PROVE lock[task'[b].conn] = b
    <3>1. b # Host
      BY <1>1, <1>4, <2>2
    <3> QED BY <1>4, <2>2, <3>1, Names DEF RuntimeInv, Locks
  <2> QED BY <1>0, <2>1, <2>2 DEF Locks
<1>15. Emptied'
  <2>1. todo = {} /\ Stage # "close"
    BY <1>0 DEF RuntimeInv, Emptied, McpClosed
  <2> QED BY <1>0, <1>4, <2>1 DEF Emptied
<1>16. NothingLost'
  <2> SUFFICES ASSUME \A d \in Conns : session'[d] # "broken"
               PROVE  /\ \A d \in Conns : session'[d] = "open" => Held(d)'
                      /\ Stage = "done" => McpOperations' = {}
    BY <1>4 DEF NothingLost
  <2>1. \A d \in Conns : session[d] # "broken"
    BY <1>0, <1>6
  <2>2. ASSUME NEW d \in Conns, session'[d] = "open" PROVE Held(d)'
    <3>1. CASE d = c
      BY <1>1, <1>4, <3>1 DEF Held
    <3>2. CASE d # c
      <4>1. Held(d)
        BY <1>6, <2>1, <2>2, <3>2 DEF RuntimeInv, NothingLost
      <4> QED BY <1>0, <1>4, <1>5, <4>1, IdleHolds, Names DEF Held
    <3> QED BY <3>1, <3>2
  <2> QED BY <1>0, <2>2 DEF McpClosed
<1> QED BY <1>4, <1>8, <1>9, <1>10, <1>11, <1>12, <1>13, <1>14, <1>15, <1>16 DEF RuntimeInv

\* A slot changes hands and nobody has to be closed now: the old connection has callers.
LEMMA SlotChanges ==
  ASSUME RuntimeInv, task[Host].pc # "close", task' = [task EXCEPT ![Host] = Idle],
         UNCHANGED <<catalog, session, shut, lock, closes, client, todo>>,
         slot' \in [Servers -> Conns \cup {None}],
         \A s \in Servers : slot'[s] # None =>
           \/ slot'[s] = slot[s]
           \/ /\ task[Host].pc = "start"
              /\ slot'[s] = task[Host].conn /\ ServerOf[task[Host].conn] = s,
         \A d \in Conns : ~Retired(d) => ~Retired(d)' \/ ~Unused(d),
         task[Host].pc = "start" => \A d \in Conns : d = task[Host].conn => ~Retired(d)'
  PROVE  RuntimeInv'
<1>1. /\ task' \in [Actors -> TaskState] /\ Fits'
      /\ task'[Host] = Idle /\ \A b \in Actors : b # Host => task'[b] = task[b]
      /\ \A d \in Conns : Unused(d)' = Unused(d)
      /\ Runs' = Runs /\ Invocations' = Invocations /\ McpOperations' = McpOperations
      /\ Stage' = Stage /\ RuntimeClosed' = RuntimeClosed /\ ToolsClosing' = ToolsClosing
      /\ ToolsClosed' = ToolsClosed /\ McpClosed' = McpClosed
  BY IdleTyped, BesideCallers
<1>2. task'[Host].pc = "idle"
  BY <1>1, IdleHolds
<1>3. \A d \in Conns : d \in shut \/ session[d] = "fresh" => Retired(d)'
  <2>1. ASSUME NEW d \in Conns, d \in shut \/ session[d] = "fresh", NEW s \in Servers, slot'[s] = d
        PROVE  FALSE
    <3>1. slot[s] # d
      BY <2>1 DEF RuntimeInv, Over, NotYet, Retired
    <3>2. task[Host].pc = "start" /\ d = task[Host].conn
      BY <2>1, <3>1, Names
    <3> QED BY <2>1, <3>2 DEF RuntimeInv, NotYet
  <2> QED BY <2>1 DEF Retired
<1>4. RuntimeTypeOK'
  BY <1>1, Typed DEF RuntimeTypeOK
<1>5. UsersOpen'
  BY <1>1, Names DEF RuntimeInv, UsersOpen
<1>6. SlotsServe'
  <2>1. ASSUME NEW s \in Servers, slot'[s] # None
        PROVE  session[slot'[s]] = "open" /\ slot'[s] \notin shut /\ ServerOf[slot'[s]] = s
    <3>1. CASE slot'[s] = slot[s]
      BY <2>1, <3>1 DEF RuntimeInv, SlotsServe
    <3>2. CASE slot'[s] # slot[s]
      BY <2>1, <3>2 DEF RuntimeInv, NotYet
    <3> QED BY <3>1, <3>2
  <2> QED BY <2>1 DEF SlotsServe
<1>7. AdmittedIsServed'
  BY <1>1 DEF RuntimeInv, AdmittedIsServed
<1>8. NotYet'
  BY <1>1, <1>2, <1>3 DEF RuntimeInv, NotYet
<1>9. Over'
  BY <1>1, <1>3 DEF RuntimeInv, Over
<1>10. Locks'
  <2>1. ASSUME NEW d \in Conns, lock[d] # None
        PROVE  /\ d \in shut /\ session[d] = "open"
               /\ task'[lock[d]].pc = "close" /\ task'[lock[d]].conn = d
    <3>1. /\ lock[d] \in Actors /\ d \in shut /\ session[d] = "open"
          /\ task[lock[d]].pc = "close" /\ task[lock[d]].conn = d
      BY <2>1, Typed DEF RuntimeInv, Locks
    <3> QED BY <1>1, <3>1
  <2>2. ASSUME NEW b \in Tasks \cup {Host}, task'[b].pc = "close" PROVE lock[task'[b].conn] = b
    BY <1>1, <1>2, <2>2, Names DEF RuntimeInv, Locks
  <2> QED BY <2>1, <2>2 DEF Locks
<1>11. Emptied'
  <2>1. McpClosed => (\A s \in Servers : slot'[s] = None)
    BY StartTyped DEF RuntimeInv, Emptied
  <2>2. Stage = "close" => task[Shutdown].conn \in Conns
    BY Typed DEF ShutdownFit, TaskState, Stage
  <2>3. task'[Shutdown] = task[Shutdown]
    BY <1>1, Names
  <2> QED BY <1>1, <1>2, <2>1, <2>2, <2>3 DEF RuntimeInv, Emptied
<1>12. NothingLost'
  <2> SUFFICES ASSUME \A d \in Conns : session[d] # "broken"
               PROVE  /\ \A d \in Conns : session[d] = "open" => Held(d)'
                      /\ Stage = "done" => McpOperations' = {}
    BY <1>1 DEF NothingLost
  <2>1. ASSUME NEW d \in Conns, session[d] = "open" PROVE Held(d)'
    <3>1. Held(d)
      BY <2>1 DEF RuntimeInv, NothingLost
    <3>2. task'[Shutdown] = task[Shutdown]
      BY <1>1, Names
    <3>3. CASE task[Host].pc = "start" /\ task[Host].conn = d
      BY <3>3 DEF Held
    <3>4. CASE ~Retired(d) \/ ~Unused(d)
      BY <1>1, <3>4 DEF Held
    <3>5. CASE lock[d] # None \/ d \in todo \/ task[Shutdown].conn = d
      BY <3>2, <3>5 DEF Held
    <3> QED BY <3>1, <3>3, <3>4, <3>5 DEF Held
  <2>2. Stage = "done" => McpOperations' = {}
    BY <1>1 DEF RuntimeInv, NothingLost
  <2> QED BY <2>1, <2>2
<1> QED BY <1>1, <1>4, <1>5, <1>6, <1>7, <1>8, <1>9, <1>10, <1>11, <1>12 DEF RuntimeInv

LEMMA CallsCount ==
  ASSUME RuntimeInv, NEW c \in Conns
  PROVE  Calls(c) = {} <=> Unused(c)
BY DEF Calls, Unused, InUse

LEMMA StartSucceeds ==
  ASSUME RuntimeInv, StartReturns
  PROVE  RuntimeInv'
<1>0. PICK c, old : c = task[Host].conn /\ old = slot[ServerOf[c]]
  OBVIOUS
<1>1. /\ task[Host].pc = "start" /\ c \in Conns /\ ~McpClosed /\ task[Host].kind = "replace"
      /\ task[Host] \in TaskState /\ ServerOf[c] \in Servers /\ old \in Conns \cup {None}
  BY <1>0, StartTyped, Typed, Constants DEF StartReturns
<1>2. /\ slot' = [slot EXCEPT ![ServerOf[c]] = c]
      /\ catalog' = catalog /\ session' = session /\ client' = client /\ todo' = todo
  BY <1>0 DEF StartReturns
<1>3. /\ slot' \in [Servers -> Conns \cup {None}] /\ slot'[ServerOf[c]] = c
      /\ \A s \in Servers : s # ServerOf[c] => slot'[s] = slot[s]
  BY <1>1, <1>2, Typed
<1>4. \A s \in Servers : slot'[s] # None =>
        \/ slot'[s] = slot[s]
        \/ /\ task[Host].pc = "start"
           /\ slot'[s] = task[Host].conn /\ ServerOf[task[Host].conn] = s
  BY <1>0, <1>1, <1>3
<1>5. ~Retired(c)'
  BY <1>1, <1>3 DEF Retired
<1>6. \A d \in Conns : d # old /\ ~Retired(d) => ~Retired(d)'
  BY <1>0, <1>3 DEF Retired
<1>7. CASE old # None /\ Calls(old) = {}
  <2> DEFINE r == [task[Host] EXCEPT !.pc = "close", !.conn = old]
  <2>1. /\ task' = [task EXCEPT ![Host] = r] /\ AskClose(Host, old)
    BY <1>0, <1>7 DEF StartReturns
  <2>2. r \in TaskState
    BY <1>1 DEF TaskState
  <2>3. r.pc = "close" /\ r.conn = old /\ r.kind = "replace"
    BY <1>1 DEF TaskState
  <2> HIDE DEF r
  <2>4. old \in Conns /\ session[old] = "open" /\ old \notin shut /\ ServerOf[old] = ServerOf[c]
    BY <1>0, <1>1, <1>7 DEF RuntimeInv, SlotsServe
  <2>5. c # old
    <3>1. Retired(c)
      BY <1>0, <1>1 DEF RuntimeInv, NotYet
    <3> QED BY <1>0, <1>1, <3>1 DEF Retired
  <2>6. ClosesNow(Host, old, r)
    BY <1>1, <1>2, <2>1, <2>2, <2>3, <2>4, Names DEF ClosesNow, HostFit
  <2>7. Unused(old)'
    <3>1. Unused(old) /\ HostFit(r)
      BY <1>7, <2>3, <2>4, CallsCount, Names DEF HostFit
    <3> QED BY <2>1, <2>2, <2>4, <3>1, Names, BesideCallers
  <2>8. Retired(old)'
    <3>1. ASSUME NEW s \in Servers, slot'[s] = old PROVE FALSE
      <4>1. s # ServerOf[c] /\ slot[s] = old
        BY <1>3, <2>5, <3>1
      <4> QED BY <1>7, <2>4, <4>1 DEF RuntimeInv, SlotsServe
    <3> QED BY <3>1 DEF Retired
  <2>9. SlotsAfter(Host, old)
    BY <1>0, <1>3, <1>4, <1>5, <1>6, <2>7, <2>8 DEF SlotsAfter
  <2> QED BY <2>4, <2>6, <2>9, Names, CloseAsked
<1>8. CASE ~(old # None /\ Calls(old) = {})
  <2>1. /\ task' = [task EXCEPT ![Host] = Idle] /\ UNCHANGED <<shut, lock, closes>>
    BY <1>0, <1>8 DEF StartReturns
  <2>2. \A d \in Conns : ~Retired(d) => ~Retired(d)' \/ ~Unused(d)
    BY <1>6, <1>8, CallsCount, Names
  <2> QED BY <1>0, <1>1, <1>2, <1>3, <1>4, <1>5, <2>1, <2>2, SlotChanges
<1> QED BY <1>7, <1>8

LEMMA StartBreaks ==
  ASSUME RuntimeInv, StartFails
  PROVE  RuntimeInv'
<1>0. PICK c : c = task[Host].conn
  OBVIOUS
<1>1. /\ task[Host].pc = "start" /\ c \in Conns /\ task[Host].kind = "replace"
      /\ task[Host] \in TaskState
  BY <1>0, StartTyped, Typed DEF StartFails
<1> DEFINE r == [task[Host] EXCEPT !.pc = "close"]
<1>2. /\ task' = [task EXCEPT ![Host] = r] /\ AskClose(Host, c) /\ slot' = slot
      /\ catalog' = catalog /\ session' = session /\ client' = client /\ todo' = todo
  BY <1>0 DEF StartFails
<1>3. r \in TaskState
  BY <1>1 DEF TaskState
<1>4. r.pc = "close" /\ r.conn = c /\ r.kind = "replace"
  BY <1>0, <1>1 DEF TaskState
<1> HIDE DEF r
<1>5. session[c] = "open" /\ c \notin shut /\ Retired(c) /\ Unused(c)
  BY <1>0, <1>1 DEF RuntimeInv, NotYet
<1>6. HostFit(r)
  BY <1>1, <1>4, Names DEF HostFit
<1>7. ClosesNow(Host, c, r)
  BY <1>1, <1>2, <1>3, <1>4, <1>5, <1>6, Names DEF ClosesNow
<1>8. Unused(c)'
  BY <1>1, <1>2, <1>3, <1>5, <1>6, Names, BesideCallers
<1>9. \A d \in Conns : Retired(d)' = Retired(d)
  BY <1>2 DEF Retired
<1>10. SlotsAfter(Host, c)
  BY <1>0, <1>1, <1>2, <1>5, <1>8, <1>9, Typed DEF SlotsAfter
<1> QED BY <1>1, <1>7, <1>10, Names, CloseAsked

LEMMA Unregisters ==
  ASSUME RuntimeInv, NEW s \in Servers, Unregister(s)
  PROVE  RuntimeInv'
<1>0. PICK old : old = slot[s]
  OBVIOUS
<1>1. /\ task[Host] = Idle /\ old \in Conns /\ task[Host].pc = "idle"
  BY <1>0, Typed, IdleHolds DEF Unregister
<1>2. /\ slot' = [slot EXCEPT ![s] = None]
      /\ catalog' = catalog /\ session' = session /\ client' = client /\ todo' = todo
  BY DEF Unregister
<1>3. /\ slot' \in [Servers -> Conns \cup {None}] /\ slot'[s] = None
      /\ \A x \in Servers : x # s => slot'[x] = slot[x]
  BY <1>2, Typed
<1>4. \A d \in Conns : d # old /\ ~Retired(d) => ~Retired(d)'
  BY <1>0, <1>3 DEF Retired
<1>5. CASE Calls(old) = {}
  <2> DEFINE r == [Idle EXCEPT !.pc = "close", !.kind = "unregister", !.conn = old]
  <2>1. /\ task' = [task EXCEPT ![Host] = r] /\ AskClose(Host, old)
    BY <1>0, <1>5 DEF Unregister
  <2>2. r \in TaskState
    <3>1. [Idle EXCEPT !.pc = "close"] \in TaskState
      BY IdleTyped DEF TaskState
    <3>2. [Idle EXCEPT !.pc = "close", !.kind = "unregister"] \in TaskState
      BY <3>1 DEF TaskState
    <3> QED BY <1>1, <3>2, WithConn
  <2>3. r.pc = "close" /\ r.conn = old /\ r.kind = "unregister"
    BY DEF Idle
  <2> HIDE DEF r
  <2>4. session[old] = "open" /\ old \notin shut /\ ServerOf[old] = s
    BY <1>0, <1>1, Names DEF RuntimeInv, SlotsServe
  <2>5. HostFit(r)
    BY <1>1, <2>3, Names DEF HostFit
  <2>6. ClosesNow(Host, old, r)
    BY <1>1, <1>2, <2>1, <2>2, <2>3, <2>4, <2>5, Names DEF ClosesNow
  <2>7. Unused(old)'
    BY <1>1, <1>5, <2>1, <2>2, <2>5, CallsCount, Names, BesideCallers
  <2>8. Retired(old)'
    <3>1. ASSUME NEW x \in Servers, slot'[x] = old PROVE FALSE
      <4>1. x # s /\ slot[x] = old
        BY <1>1, <1>3, <3>1, Names
      <4> QED BY <1>1, <2>4, <4>1, Names DEF RuntimeInv, SlotsServe
    <3> QED BY <3>1 DEF Retired
  <2>9. SlotsAfter(Host, old)
    BY <1>1, <1>3, <1>4, <2>7, <2>8 DEF SlotsAfter
  <2> QED BY <1>1, <2>6, <2>9, Names, CloseAsked
<1>6. CASE Calls(old) # {}
  <2>1. UNCHANGED <<task, shut, lock, closes>>
    BY <1>0, <1>6 DEF Unregister
  <2>2. task' = [task EXCEPT ![Host] = Idle]
    BY <1>1, <2>1, Typed
  <2>3. \A d \in Conns : ~Retired(d) => ~Retired(d)' \/ ~Unused(d)
    BY <1>1, <1>4, <1>6, CallsCount
  <2>4. \A x \in Servers : slot'[x] # None => slot'[x] = slot[x]
    BY <1>3
  <2> QED BY <1>1, <1>2, <1>3, <2>1, <2>2, <2>3, <2>4, SlotChanges
<1> QED BY <1>5, <1>6

LEMMA StartCutShort ==
  ASSUME RuntimeInv, StartCancelled
  PROVE  RuntimeInv'
<1>0. PICK c : c = task[Host].conn
  OBVIOUS
<1>1. /\ task[Host].pc = "start" /\ c \in Conns /\ ~McpClosed
  BY <1>0, StartTyped DEF StartCancelled
<1>2. /\ task' = [task EXCEPT ![Host] = Idle] /\ session' = [session EXCEPT ![c] = "broken"]
      /\ slot' = slot /\ catalog' = catalog /\ shut' = shut /\ lock' = lock /\ closes' = closes
      /\ client' = client /\ todo' = todo
  BY <1>0 DEF StartCancelled
<1>3. c \notin shut /\ Retired(c) /\ Unused(c) /\ lock[c] = None
  BY <1>0, <1>1 DEF RuntimeInv, NotYet, Locks
<1>4. /\ task' \in [Actors -> TaskState] /\ Fits'
      /\ task'[Host] = Idle /\ \A b \in Actors : b # Host => task'[b] = task[b]
      /\ \A d \in Conns : Unused(d)' = Unused(d)
      /\ Runs' = Runs /\ Invocations' = Invocations /\ McpOperations' = McpOperations
      /\ Stage' = Stage /\ RuntimeClosed' = RuntimeClosed /\ ToolsClosing' = ToolsClosing
      /\ ToolsClosed' = ToolsClosed /\ McpClosed' = McpClosed
  BY <1>2, IdleTyped, BesideCallers
<1>5. \A d \in Conns : Retired(d)' = Retired(d)
  BY <1>2 DEF Retired
<1>6. /\ session' \in [Conns -> {"fresh", "open", "closed", "broken"}] /\ session'[c] = "broken"
      /\ \A d \in Conns : d # c => session'[d] = session[d]
  BY <1>1, <1>2, Typed
<1>7. RuntimeTypeOK'
  BY <1>2, <1>4, <1>6, Typed DEF RuntimeTypeOK
<1>8. UsersOpen'
  <2>1. \A t \in Tasks : task'[t] = task[t]
    BY <1>4, Names
  <2>2. \A t \in Tasks : task[t].pc \in {"call", "page"} => task[t].conn \in Conns /\ task[t].conn # c
    BY <1>3, Typed DEF TaskFit, TaskState, Unused, InUse
  <2> QED BY <1>2, <1>6, <2>1, <2>2 DEF RuntimeInv, UsersOpen
<1>9. SlotsServe'
  BY <1>2, <1>3, <1>6, Typed DEF RuntimeInv, SlotsServe, Retired
<1>10. AdmittedIsServed'
  BY <1>4 DEF RuntimeInv, AdmittedIsServed
<1>11. NotYet'
  BY <1>2, <1>4, <1>5, <1>6, IdleHolds DEF RuntimeInv, NotYet
<1>12. Over'
  BY <1>2, <1>3, <1>4, <1>5, <1>6 DEF RuntimeInv, Over
<1>13. Locks'
  <2>1. ASSUME NEW d \in Conns, lock[d] # None
        PROVE  /\ d \in shut /\ session'[d] = "open"
               /\ task'[lock[d]].pc = "close" /\ task'[lock[d]].conn = d
    <3>1. /\ lock[d] \in Actors /\ d \in shut /\ session[d] = "open"
          /\ task[lock[d]].pc = "close" /\ task[lock[d]].conn = d
      BY <2>1, Typed DEF RuntimeInv, Locks
    <3>2. lock[d] # Host /\ d # c
      BY <1>1, <1>3, <2>1, <3>1
    <3> QED BY <1>4, <1>6, <3>1, <3>2
  <2>2. ASSUME NEW b \in Tasks \cup {Host}, task'[b].pc = "close" PROVE lock[task'[b].conn] = b
    <3>1. b # Host
      BY <1>4, <2>2, IdleHolds
    <3> QED BY <1>4, <2>2, <3>1, Names DEF RuntimeInv, Locks
  <2> QED BY <1>2, <2>1, <2>2 DEF Locks
<1>14. Emptied'
  <2>1. todo = {} /\ Stage # "close"
    BY <1>1 DEF RuntimeInv, Emptied, McpClosed
  <2> QED BY <1>1, <1>2, <1>4, <2>1 DEF Emptied
<1>15. NothingLost'
  BY <1>1, <1>6 DEF NothingLost
<1> QED BY <1>4, <1>7, <1>8, <1>9, <1>10, <1>11, <1>12, <1>13, <1>14, <1>15 DEF RuntimeInv

-----------------------------------------------------------------------------
(* A close begins and ends                                                  *)

LEMMA CloseStarts ==
  ASSUME RuntimeInv, CloseBegins
  PROVE  RuntimeInv'
<1>0. PICK c : c = task[Shutdown].conn
  OBVIOUS
<1>1. /\ Stage = "close" /\ c \notin shut /\ AskClose(Shutdown, c)
      /\ task' = task /\ slot' = slot /\ catalog' = catalog /\ session' = session
      /\ client' = client /\ todo' = todo
  BY <1>0 DEF CloseBegins, MustClose
<1>2. /\ task[Shutdown] \in TaskState /\ task[Shutdown].pc = "close" /\ c \in Conns
  BY <1>0, <1>1, Typed DEF Stage, ShutdownFit, TaskState
<1>3. task' = [task EXCEPT ![Shutdown] = task[Shutdown]]
  BY <1>1, Typed
<1>4. session[c] = "open" /\ Unused(c)
  BY <1>0, <1>1 DEF RuntimeInv, Emptied
<1>5. ClosesNow(Shutdown, c, task[Shutdown])
  BY <1>0, <1>1, <1>2, <1>3, <1>4, Names DEF ClosesNow
<1>6. \A d \in Conns : Retired(d)' = Retired(d) /\ Unused(d)' = Unused(d)
  BY <1>1 DEF Retired, Unused
<1>7. McpClosed
  BY <1>1 DEF McpClosed
<1>8. Retired(c)
  BY <1>2, <1>7, Names DEF RuntimeInv, Emptied, Retired
<1>9. SlotsAfter(Shutdown, c)
  BY <1>1, <1>2, <1>4, <1>6, <1>8, Typed, Names DEF SlotsAfter
<1> QED BY <1>2, <1>5, <1>9, Names, CloseAsked

\* Whoever closed c is through, or was cut short.
Closed(a, c, r, out) ==
  /\ task[a].pc = "close" /\ task[a].conn = c /\ c \in shut /\ lock[c] = a
  /\ task' = [task EXCEPT ![a] = r]
  /\ session' = [session EXCEPT ![c] = out] /\ lock' = [lock EXCEPT ![c] = None]
  /\ slot' = slot /\ shut' = shut /\ closes' = closes /\ client' = client
  /\ catalog' \in [Servers -> Conns \cup {None}]
  /\ todo' = todo \/ (todo' = {} /\ out = "broken")
  /\ r.conn = None
  /\ a \in Tasks => TaskFit(r) /\ Admission(r) /\ r.pc \in {"idle", "model"}
  /\ a = Host => r = Idle
  /\ a = Shutdown => \/ r.pc = "todo"
                     \/ r.pc = "done" /\ out = "broken" /\ todo' = {}

LEMMA CloseOver ==
  ASSUME RuntimeInv, NEW a \in Actors, NEW c \in Conns, NEW r \in TaskState,
         NEW out \in {"closed", "broken"}, Closed(a, c, r, out)
  PROVE  RuntimeInv'
<1>0. /\ task[a].pc = "close" /\ task[a].conn = c /\ c \in shut /\ lock[c] = a /\ r.conn = None
      /\ task' = [task EXCEPT ![a] = r]
      /\ session' = [session EXCEPT ![c] = out] /\ lock' = [lock EXCEPT ![c] = None]
      /\ slot' = slot /\ shut' = shut /\ closes' = closes /\ client' = client
      /\ catalog' \in [Servers -> Conns \cup {None}]
      /\ todo' = todo \/ (todo' = {} /\ out = "broken")
  BY DEF Closed
<1>1. /\ task' \in [Actors -> TaskState] /\ task'[a] = r
      /\ \A b \in Actors : b # a => task'[b] = task[b]
  BY <1>0, Typed
<1>2. /\ session' \in [Conns -> {"fresh", "open", "closed", "broken"}] /\ session'[c] = out
      /\ \A d \in Conns : d # c => session'[d] = session[d]
      /\ lock' \in [Conns -> Actors \cup {None}] /\ lock'[c] = None
      /\ \A d \in Conns : d # c => lock'[d] = lock[d]
  BY <1>0, Typed
<1>3. r.pc # "close" /\ (a \in Tasks => r.pc \notin {"call", "page", "close"})
      /\ (a = Host => r.pc = "idle")
  BY IdleHolds, Names DEF Closed
<1>4. \A d \in Conns : Unused(d)' = Unused(d) /\ Retired(d)' = Retired(d)
  <2>1. \A d \in Conns : Unused(d)' = Unused(d)
    BY <1>0, <1>1, <1>3, Names DEF Unused, InUse
  <2> QED BY <1>0, <2>1 DEF Retired
<1>5. Retired(c) /\ Unused(c)
  BY <1>0 DEF RuntimeInv, Over
<1>6. \/ Stage' = Stage
      \/ a = Shutdown /\ Stage = "close" /\ Stage' \in {"todo", "done"}
  BY <1>0, <1>1, Names DEF Stage, Closed
<1>7. ToolsClosing' = ToolsClosing /\ ToolsClosed' = ToolsClosed /\ McpClosed' = McpClosed
  BY <1>6 DEF ToolsClosing, ToolsClosed, McpClosed
<1>8. RuntimeTypeOK'
  BY <1>0, <1>1, <1>2, Typed DEF RuntimeTypeOK
<1>9. Fits'
  <2>1. \A t \in Tasks : TaskFit(task'[t])
    BY <1>1, Typed, Names DEF Closed
  <2>2. HostFit(task'[Host])
    BY <1>1, Typed, IdleTyped, Names DEF Closed
  <2>3. ShutdownFit(task'[Shutdown])
    BY <1>1, Typed, Names DEF Closed, ShutdownFit
  <2> QED BY <2>1, <2>2, <2>3 DEF Fits
<1>10. UsersOpen'
  <2>1. a \in Tasks /\ r.model # None => client[r.model] # "closed"
    BY DEF Closed, Admission
  <2>2. \A t \in Tasks : task[t].pc \in {"call", "page"} => task[t].conn \in Conns /\ task[t].conn # c
    BY <1>5, Typed DEF TaskFit, TaskState, Unused, InUse
  <2> QED BY <1>0, <1>1, <1>2, <1>3, <2>1, <2>2, Names DEF RuntimeInv, UsersOpen
<1>11. SlotsServe'
  BY <1>0, <1>2, <1>5, Typed DEF RuntimeInv, SlotsServe, Retired
<1>12. AdmittedIsServed'
  <2>1. a \in Tasks => Admission(r)
    BY DEF Closed
  <2> QED BY <1>1, <1>3, <1>7, <2>1, Names DEF RuntimeInv, AdmittedIsServed, Runs, Invocations, Admission
<1>13. NotYet'
  <2>1. ASSUME task'[Host].pc = "start"
        PROVE  a # Host /\ task'[Host] = task[Host] /\ task[Host].conn \in Conns /\ task[Host].conn # c
    <3>1. a # Host /\ task'[Host] = task[Host]
      BY <1>1, <1>3, <2>1, Names
    <3> QED BY <1>0, <2>1, <3>1, StartTyped DEF RuntimeInv, NotYet
  <2>2. \A d \in Conns : session'[d] = "fresh" => session[d] = "fresh"
    BY <1>2
  <2> QED BY <1>0, <1>2, <1>4, <2>1, <2>2 DEF RuntimeInv, NotYet
<1>14. Over'
  BY <1>0, <1>2, <1>4 DEF RuntimeInv, Over
<1>15. Locks'
  <2>1. ASSUME NEW d \in Conns, lock'[d] # None
        PROVE  /\ d \in shut /\ session'[d] = "open"
               /\ task'[lock'[d]].pc = "close" /\ task'[lock'[d]].conn = d
    <3>1. d # c /\ lock'[d] = lock[d]
      BY <1>2, <2>1
    <3>2. /\ lock[d] \in Actors /\ d \in shut /\ session[d] = "open"
          /\ task[lock[d]].pc = "close" /\ task[lock[d]].conn = d
      BY <2>1, <3>1, Typed DEF RuntimeInv, Locks
    <3>3. lock[d] # a
      BY <1>0, <3>1, <3>2
    <3> QED BY <1>1, <1>2, <3>1, <3>2, <3>3
  <2>2. ASSUME NEW b \in Tasks \cup {Host}, task'[b].pc = "close" PROVE lock'[task'[b].conn] = b
    <3>1. b # a /\ b \in Actors /\ task'[b] = task[b]
      BY <1>1, <1>3, <2>2, Names
    <3>2. lock[task[b].conn] = b /\ task[b].conn \in Conns
      BY <2>2, <3>1, Typed, Names DEF RuntimeInv, Locks, TaskFit, HostFit, TaskState
    <3>3. task[b].conn # c
      BY <1>0, <3>1, <3>2
    <3> QED BY <1>2, <3>1, <3>2, <3>3
  <2> QED BY <1>0, <2>1, <2>2 DEF Locks
<1>16. Emptied'
  <2>1. McpClosed => (\A s \in Servers : slot[s] = None) /\ task'[Host].pc # "start"
    BY <1>1, <1>3, Names DEF RuntimeInv, Emptied
  <2>2. todo' # {} => Stage' \in {"todo", "close"}
    BY <1>0, <1>6, <1>1 DEF RuntimeInv, Emptied, Closed, Stage
  <2>3. \A d \in todo' : d \in shut \/ session'[d] = "open"
    BY <1>0, <1>2, Typed DEF RuntimeInv, Emptied
  <2>4. ASSUME Stage' = "close"
        PROVE  /\ task'[Shutdown] = task[Shutdown] /\ task[Shutdown].conn \in Conns
               /\ Unused(task[Shutdown].conn)
               /\ task[Shutdown].conn \in shut \/ session'[task[Shutdown].conn] = "open"
    <3>1. Stage = "close" /\ task'[Shutdown] = task[Shutdown]
      BY <1>0, <1>1, <1>3, <1>6, <2>4, Names DEF Stage
    <3>2. task[Shutdown].conn \in Conns
      BY <3>1, Typed DEF ShutdownFit, TaskState, Stage
    <3> QED BY <1>0, <1>2, <3>1, <3>2 DEF RuntimeInv, Emptied
  <2> QED BY <1>0, <1>4, <1>7, <2>1, <2>2, <2>3, <2>4 DEF Emptied
<1>17. NothingLost'
  <2> SUFFICES ASSUME \A d \in Conns : session'[d] # "broken"
               PROVE  /\ \A d \in Conns : session'[d] = "open" => Held(d)'
                      /\ Stage' = "done" => McpOperations' = {}
    BY DEF NothingLost
  <2>1. out = "closed" /\ todo' = todo
    BY <1>0, <1>2
  <2>2. \A d \in Conns : session[d] # "broken"
    <3>1. session[c] = "open"
      BY <1>0, Names DEF RuntimeInv, Locks
    <3>2. \A d \in Conns : d # c => session[d] # "broken"
      BY <1>2
    <3> QED BY <3>1, <3>2
  <2>3. ASSUME NEW d \in Conns, session'[d] = "open" PROVE Held(d)'
    <3>1. d # c /\ Held(d)
      BY <1>2, <2>1, <2>2, <2>3 DEF RuntimeInv, NothingLost
    <3>2. task[Shutdown].conn = d => task'[Shutdown].conn = d
      BY <1>0, <1>1, <3>1, Names
    <3>3. task[Host].pc = "start" => task'[Host] = task[Host]
      BY <1>0, <1>1, Names
    <3> QED BY <1>2, <1>4, <2>1, <3>1, <3>2, <3>3 DEF Held
  <2>4. ASSUME Stage' = "done" PROVE McpOperations' = {}
    <3>1. Stage = "done"
      BY <1>1, <1>6, <2>1, <2>4 DEF Closed, Stage
    <3>2. McpOperations = {}
      BY <2>2, <3>1 DEF RuntimeInv, NothingLost
    <3> QED BY <1>0, <1>1, <3>2, Names DEF McpOperations
  <2> QED BY <2>3, <2>4
<1> QED BY <1>8, <1>9, <1>10, <1>11, <1>12, <1>13, <1>14, <1>15, <1>16, <1>17 DEF RuntimeInv

LEMMA WithoutConn ==
  ASSUME NEW r \in TaskState, NEW pc \in {"todo", "done"}
  PROVE  /\ [r EXCEPT !.pc = pc, !.conn = None] \in TaskState
         /\ [r EXCEPT !.pc = pc, !.conn = None].pc = pc
         /\ [r EXCEPT !.pc = pc, !.conn = None].conn = None
<1>1. [r EXCEPT !.pc = pc] \in TaskState
  BY DEF TaskState
<1>2. [r EXCEPT !.pc = pc, !.conn = None] \in TaskState
  BY <1>1 DEF TaskState
<1> QED BY <1>2 DEF TaskState

LEMMA CloseEnded ==
  ASSUME RuntimeInv, NEW a \in Actors, CloseEnds(a)
  PROVE  RuntimeInv'
<1>0. PICK c : c = task[a].conn
  OBVIOUS
<1>1. PICK ok \in BOOLEAN :
        /\ session' = [session EXCEPT ![c] = IF ok THEN "closed" ELSE "broken"]
        /\ AfterClose(a, ok)
  BY <1>0 DEF CloseEnds
<1> DEFINE out == IF ok THEN "closed" ELSE "broken"
           fine == ok /\ task[a].ok
           r == CASE a = Shutdown -> [task[a] EXCEPT !.pc = IF ok THEN "todo" ELSE "done", !.conn = None]
                  [] a = Host -> Idle
                  [] OTHER -> AfterInvoke(task[a], fine)
<1>2. /\ task[a].pc = "close" /\ lock[c] = a /\ lock' = [lock EXCEPT ![c] = None]
      /\ slot' = slot /\ shut' = shut /\ closes' = closes /\ client' = client
      /\ task' = [task EXCEPT ![a] = r]
      /\ catalog' = IF a \in Tasks THEN Installed(task[a], fine) ELSE catalog
      /\ todo' = IF a = Shutdown /\ ~ok THEN {} ELSE todo
  BY <1>0, <1>1 DEF CloseEnds, AfterClose
<1>3. task[a] \in TaskState /\ c \in Conns
  <2>1. task[a] \in TaskState /\ task[a].conn # None
    BY <1>2, Typed, Names DEF TaskFit, HostFit, ShutdownFit
  <2> QED BY <1>0, <2>1 DEF TaskState
<1>4. c \in shut
  BY <1>2, <1>3, Names DEF RuntimeInv, Locks
<1>5. a \in Tasks => r = AfterInvoke(task[a], fine) /\ TaskFit(task[a]) /\ Admission(task[a])
  BY Names, Typed, Admitting
<1>6. a \in Tasks => /\ r \in TaskState /\ TaskFit(r) /\ Admission(r) /\ r.conn = None
                     /\ r.pc \in {"idle", "model"}
  BY <1>2, <1>3, <1>5, AfterTool
<1>7. a = Host => r = Idle /\ r \in TaskState /\ r.conn = None
  BY Names, IdleTyped, IdleHolds
<1>8. a = Shutdown => r \in TaskState /\ r.conn = None /\ r.pc = IF ok THEN "todo" ELSE "done"
  <2> DEFINE pc == IF ok THEN "todo" ELSE "done"
             through == [task[a] EXCEPT !.pc = pc, !.conn = None]
  <2>1. pc \in {"todo", "done"}
    OBVIOUS
  <2>2. r = CASE a = Shutdown -> through
              [] a = Host -> Idle
              [] OTHER -> AfterInvoke(task[a], fine)
    OBVIOUS
  <2> HIDE DEF r, through
  <2>3. a = Shutdown => r = through
    BY <2>2, Names
  <2> HIDE DEF pc
  <2>4. through \in TaskState /\ through.conn = None /\ through.pc = pc
    BY <1>3, <2>1, WithoutConn DEF through
  <2>5. a = Shutdown => r \in TaskState /\ r.conn = None /\ r.pc = pc
    BY <2>3, <2>4
  <2> QED BY <2>5 DEF pc
<1>9. catalog' \in [Servers -> Conns \cup {None}]
  BY <1>2, <1>3, Typed, CatalogTyped
<1>10. r \in TaskState /\ r.conn = None
  BY <1>6, <1>7, <1>8, Names
<1> HIDE DEF r, fine
<1>11. Closed(a, c, r, out)
  BY <1>0, <1>1, <1>2, <1>4, <1>6, <1>7, <1>8, <1>9, <1>10, Names DEF Closed
<1> QED BY <1>3, <1>10, <1>11, CloseOver

LEMMA CloseCutShort ==
  ASSUME RuntimeInv, NEW t \in Tasks, CancelClose(t)
  PROVE  RuntimeInv'
<1>0. PICK c : c = task[t].conn
  OBVIOUS
<1>1. /\ task[t].pc = "close" /\ task' = [task EXCEPT ![t] = Idle]
      /\ session' = [session EXCEPT ![c] = "broken"] /\ lock' = [lock EXCEPT ![c] = None]
      /\ slot' = slot /\ catalog' = catalog /\ shut' = shut /\ closes' = closes
      /\ client' = client /\ todo' = todo
  BY <1>0 DEF CancelClose
<1>2. c \in Conns
  BY <1>0, <1>1, Typed DEF TaskFit, TaskState
<1>3. lock[c] = t /\ c \in shut /\ t \in Actors
  BY <1>0, <1>1, <1>2, Names DEF RuntimeInv, Locks
<1>4. Closed(t, c, Idle, "broken")
  BY <1>0, <1>1, <1>3, Typed, IdleTyped, IdleHolds, Names DEF Closed
<1> QED BY <1>2, <1>3, <1>4, IdleTyped, CloseOver

-----------------------------------------------------------------------------
(* The close task                                                           *)

\* The close task goes on to state r: it holds no lock it would drop, closes no client and no
\* registry that is in use, and passes on every connection it has still to close.
Shuts(r) ==
  /\ ShutdownFit(r) /\ task' = [task EXCEPT ![Shutdown] = r]
  /\ session' = session /\ shut' = shut /\ lock' = lock /\ closes' = closes
  /\ \A d \in Conns : lock[d] # Shutdown
  /\ catalog' \in [Servers -> Conns \cup {None}]
  /\ client' \in [Clients -> {"spare", "current", "draining", "closed"}]
  /\ \A t \in Tasks : task[t].model # None => client'[task[t].model] # "closed"
  /\ Runs # {} => r.pc \in {"idle", "runs"}
  /\ Invocations # {} => r.pc \in {"idle", "runs", "tools"}
  /\ slot' \in [Servers -> Conns \cup {None}]
  /\ \A s \in Servers : slot'[s] # None => slot'[s] = slot[s]
  /\ r.pc \notin {"idle", "runs", "tools", "model", "mcp"} =>
       (\A s \in Servers : slot'[s] = None) /\ task[Host].pc # "start"
  /\ todo' \subseteq Conns
  /\ todo' # {} => r.pc \in {"todo", "close"}
  /\ \A d \in todo' : d \in shut \/ session[d] = "open"
  /\ r.pc = "close" => \A d \in Conns : d = r.conn => Unused(d) /\ (d \in shut \/ session[d] = "open")
  /\ \A d \in Conns : session[d] = "open" =>
       /\ ~Retired(d) => ~Retired(d)' \/ d \in todo'
       /\ d \in todo => d \in todo' \/ r.conn = d \/ ~Unused(d)
       /\ task[Shutdown].conn = d => r.conn = d
  /\ r.pc = "done" => McpOperations = {}

LEMMA ShutdownMoves ==
  ASSUME RuntimeInv, NEW r \in TaskState, Shuts(r)
  PROVE  RuntimeInv'
<1>0. /\ task' = [task EXCEPT ![Shutdown] = r] /\ ShutdownFit(r)
      /\ session' = session /\ shut' = shut /\ lock' = lock /\ closes' = closes
  BY DEF Shuts
<1>1. /\ task' \in [Actors -> TaskState] /\ Fits'
      /\ task'[Shutdown] = r /\ \A b \in Actors : b # Shutdown => task'[b] = task[b]
      /\ \A d \in Conns : Unused(d)' = Unused(d)
      /\ Runs' = Runs /\ Invocations' = Invocations /\ McpOperations' = McpOperations
  BY <1>0, Names, BesideCallers
<1>2. \A t \in Tasks : task'[t] = task[t]
  BY <1>1, Names
<1>3. task'[Host] = task[Host]
  BY <1>1, Names
<1>4. Stage' = r.pc
  BY <1>1 DEF Stage
<1>5. \A d \in Conns : Retired(d) => Retired(d)'
  BY Names DEF Shuts, Retired
<1>6. RuntimeTypeOK'
  BY <1>0, <1>1, Typed DEF RuntimeTypeOK, Shuts
<1>7. UsersOpen'
  BY <1>0, <1>2 DEF RuntimeInv, UsersOpen, Shuts
<1>8. SlotsServe'
  BY <1>0 DEF RuntimeInv, SlotsServe, Shuts
<1>9. AdmittedIsServed'
  BY <1>1, <1>4 DEF AdmittedIsServed, ToolsClosing, ToolsClosed, Shuts
<1>10. NotYet'
  <2>1. task[Host].pc = "start" => task[Host].conn \in Conns
    BY StartTyped
  <2> QED BY <1>0, <1>1, <1>3, <1>5, <2>1 DEF RuntimeInv, NotYet
<1>11. Over'
  BY <1>0, <1>1, <1>5 DEF RuntimeInv, Over
<1>12. Locks'
  <2>1. ASSUME NEW d \in Conns, lock[d] # None
        PROVE  /\ d \in shut /\ session[d] = "open"
               /\ task'[lock[d]].pc = "close" /\ task'[lock[d]].conn = d
    <3>1. /\ lock[d] \in Actors /\ d \in shut /\ session[d] = "open"
          /\ task[lock[d]].pc = "close" /\ task[lock[d]].conn = d
      BY <2>1, Typed DEF RuntimeInv, Locks
    <3>2. lock[d] # Shutdown
      BY DEF Shuts
    <3> QED BY <1>1, <3>1, <3>2
  <2>2. ASSUME NEW b \in Tasks \cup {Host}, task'[b].pc = "close" PROVE lock[task'[b].conn] = b
    BY <1>2, <1>3, <2>2 DEF RuntimeInv, Locks
  <2> QED BY <1>0, <2>1, <2>2 DEF Locks
<1>13. Emptied'
  <2>1. McpClosed' => (\A s \in Servers : slot'[s] = None) /\ task'[Host].pc # "start"
    BY <1>3, <1>4 DEF McpClosed, Shuts
  <2>2. r.pc = "close" => r.conn \in Conns
    BY <1>0 DEF ShutdownFit, TaskState
  <2>3. todo' # {} => Stage' \in {"todo", "close"}
    BY <1>4 DEF Shuts
  <2>4. \A d \in todo' : d \in shut \/ session[d] = "open"
    BY DEF Shuts
  <2>5. Stage' = "close" => \A d \in Conns : d = task'[Shutdown].conn =>
          Unused(d)' /\ (d \in shut \/ session[d] = "open")
    BY <1>1, <1>4 DEF Shuts
  <2> QED BY <1>0, <1>1, <1>4, <2>1, <2>2, <2>3, <2>4, <2>5 DEF Emptied
<1>14. NothingLost'
  <2> SUFFICES ASSUME \A d \in Conns : session[d] # "broken"
               PROVE  /\ \A d \in Conns : session[d] = "open" => Held(d)'
                      /\ r.pc = "done" => McpOperations = {}
    BY <1>0, <1>1, <1>4 DEF NothingLost
  <2>1. ASSUME NEW d \in Conns, session[d] = "open" PROVE Held(d)'
    <3>1. Held(d)
      BY <2>1 DEF RuntimeInv, NothingLost
    <3>2. CASE ~Retired(d)
      BY <2>1, <3>2 DEF Shuts, Held
    <3>3. CASE d \in todo
      BY <1>1, <2>1, <3>3 DEF Shuts, Held
    <3>4. CASE task[Shutdown].conn = d
      BY <1>1, <2>1, <3>4 DEF Shuts, Held
    <3>5. CASE ~Unused(d) \/ lock[d] # None \/ (task[Host].pc = "start" /\ task[Host].conn = d)
      BY <1>0, <1>1, <1>3, <3>5 DEF Held
    <3> QED BY <3>1, <3>2, <3>3, <3>4, <3>5 DEF Held
  <2> QED BY <2>1 DEF Shuts
<1> QED BY <1>1, <1>6, <1>7, <1>8, <1>9, <1>10, <1>11, <1>12, <1>13, <1>14 DEF RuntimeInv

\* Between the resources the close task holds no connection, and nobody else its lock.
LEMMA ShutdownFree ==
  ASSUME RuntimeInv, Stage # "close"
  PROVE  /\ task[Shutdown] \in TaskState /\ task[Shutdown].conn = None
         /\ \A d \in Conns : lock[d] # Shutdown
         /\ Stage \in {"idle", "runs", "tools", "model", "mcp"} => todo = {}
         /\ Stage = task[Shutdown].pc
<1>1. task[Shutdown] \in TaskState /\ task[Shutdown].conn = None
  BY Typed DEF Stage, ShutdownFit
<1>2. ASSUME NEW d \in Conns, lock[d] = Shutdown PROVE FALSE
  BY <1>2, Names DEF RuntimeInv, Locks, Stage
<1> QED BY <1>1, <1>2 DEF RuntimeInv, Emptied, Stage

\* A stage of the shutdown that leaves slots, connections and the work list alone.
LEMMA StageGoesOn ==
  ASSUME RuntimeInv, NEW r \in TaskState, ShutdownFit(r), r.conn = None, Stage # "close",
         task' = [task EXCEPT ![Shutdown] = r],
         UNCHANGED <<slot, session, shut, lock, closes, todo>>,
         catalog' \in [Servers -> Conns \cup {None}],
         client' \in [Clients -> {"spare", "current", "draining", "closed"}],
         \A t \in Tasks : task[t].model # None => client'[task[t].model] # "closed",
         Runs # {} => r.pc \in {"idle", "runs"},
         Invocations # {} => r.pc \in {"idle", "runs", "tools"},
         r.pc \in {"runs", "tools", "model", "mcp"} \/ McpClosed,
         todo # {} => r.pc = "todo",
         r.pc = "done" => McpOperations = {}
  PROVE  RuntimeInv'
<1>1. /\ task[Shutdown].conn = None /\ \A d \in Conns : lock[d] # Shutdown
  BY ShutdownFree
<1>2. r.pc # "close"
  BY DEF ShutdownFit
<1>3. \A d \in Conns : Retired(d)' = Retired(d)
  BY DEF Retired
<1>4. r.pc \notin {"idle", "runs", "tools", "model", "mcp"} =>
        (\A s \in Servers : slot'[s] = None) /\ task[Host].pc # "start"
  BY DEF RuntimeInv, Emptied
<1>5. \A d \in todo : d \in Conns /\ (d \in shut \/ session[d] = "open")
  BY Typed DEF RuntimeInv, Emptied
<1>6. Shuts(r)
  BY <1>1, <1>2, <1>3, <1>4, <1>5, Typed, Names DEF Shuts
<1> QED BY <1>6, ShutdownMoves

LEMMA AtStage ==
  ASSUME NEW r \in TaskState,
         NEW pc \in {"runs", "tools", "model", "mcp", "todo", "drain", "done"}
  PROVE  /\ [r EXCEPT !.pc = pc] \in TaskState /\ [r EXCEPT !.pc = pc].pc = pc
         /\ [r EXCEPT !.pc = pc].conn = r.conn
         /\ r.conn = None => ShutdownFit([r EXCEPT !.pc = pc])
<1> DEFINE n == [r EXCEPT !.pc = pc]
<1>1. n \in TaskState /\ n.pc = pc /\ n.conn = r.conn
  BY DEF TaskState
<1> HIDE DEF n
<1>2. r.conn = None => ShutdownFit(n)
  BY <1>1 DEF ShutdownFit
<1> QED BY <1>1, <1>2 DEF n

LEMMA CloseAskedFor ==
  ASSUME RuntimeInv, Aclose
  PROVE  RuntimeInv'
<1> DEFINE i == [Idle EXCEPT !.kind = "shutdown"]
           r == [Idle EXCEPT !.kind = "shutdown", !.pc = "runs"]
<1>1. /\ Stage = "idle" /\ task' = [task EXCEPT ![Shutdown] = r]
      /\ UNCHANGED <<slot, catalog, session, shut, lock, closes, client, todo>>
  BY DEF Aclose
<1>2. i \in TaskState /\ i.conn = None
  BY IdleTyped, IdleHolds DEF TaskState
<1>3. r = [i EXCEPT !.pc = "runs"]
  OBVIOUS
<1> HIDE DEF i, r
<1>4. r \in TaskState /\ r.pc = "runs" /\ r.conn = None /\ ShutdownFit(r)
  BY <1>2, <1>3, AtStage
<1> QED BY <1>1, <1>4, ShutdownFree, StageGoesOn, Typed DEF RuntimeInv, UsersOpen

\* An admitted run or call keeps what the runtime has not closed yet.
LEMMA ModelsServe ==
  ASSUME RuntimeInv, NEW t \in Tasks, task[t].model # None
  PROVE  /\ client[task[t].model] # "closed" /\ task[t].model \in Clients
         /\ t \in Runs /\ ~ToolsClosing
<1>1. client[task[t].model] # "closed"
  BY DEF RuntimeInv, UsersOpen
<1>2. task[t] \in TaskState /\ task[t].kind = "run"
  BY Typed DEF TaskFit
<1>3. task[t].model \in Clients
  BY <1>2 DEF TaskState
<1> QED BY <1>1, <1>2, <1>3 DEF RuntimeInv, AdmittedIsServed, Runs

LEMMA RunsDrained ==
  ASSUME RuntimeInv, DrainRuns
  PROVE  RuntimeInv'
<1> DEFINE r == [task[Shutdown] EXCEPT !.pc = "tools"]
<1>1. /\ Stage = "runs" /\ Runs = {} /\ task' = [task EXCEPT ![Shutdown] = r]
      /\ UNCHANGED <<slot, catalog, session, shut, lock, closes, client, todo>>
  BY DEF DrainRuns
<1>2. task[Shutdown] \in TaskState /\ task[Shutdown].conn = None /\ todo = {}
  BY <1>1, ShutdownFree
<1>3. r \in TaskState /\ r.pc = "tools" /\ r.conn = None /\ ShutdownFit(r)
  BY <1>2, AtStage
<1> HIDE DEF r
<1> QED BY <1>1, <1>2, <1>3, ModelsServe, Typed, StageGoesOn

LEMMA ToolsDrained ==
  ASSUME RuntimeInv, DrainTools
  PROVE  RuntimeInv'
<1> DEFINE r == [task[Shutdown] EXCEPT !.pc = "model"]
<1>1. /\ Stage = "tools" /\ Invocations = {} /\ task' = [task EXCEPT ![Shutdown] = r]
      /\ catalog' = [s \in Servers |-> None]
      /\ UNCHANGED <<slot, session, shut, lock, closes, client, todo>>
  BY DEF DrainTools
<1>2. task[Shutdown] \in TaskState /\ task[Shutdown].conn = None /\ todo = {}
  BY <1>1, ShutdownFree
<1>3. r \in TaskState /\ r.pc = "model" /\ r.conn = None /\ ShutdownFit(r)
  BY <1>2, AtStage
<1> HIDE DEF r
<1>4. Runs = {}
  BY <1>1 DEF RuntimeInv, AdmittedIsServed, ToolsClosing
<1>5. catalog' \in [Servers -> Conns \cup {None}]
  BY <1>1
<1> QED BY <1>1, <1>2, <1>3, <1>4, <1>5, ModelsServe, Typed, StageGoesOn

LEMMA ModelClosed ==
  ASSUME RuntimeInv, CloseModel
  PROVE  RuntimeInv'
<1> DEFINE r == [task[Shutdown] EXCEPT !.pc = "mcp"]
<1>1. /\ Stage = "model" /\ task' = [task EXCEPT ![Shutdown] = r]
      /\ client' = [client EXCEPT ![First] = "closed"]
      /\ UNCHANGED <<slot, catalog, session, shut, lock, closes, todo>>
  BY DEF CloseModel
<1>2. task[Shutdown] \in TaskState /\ task[Shutdown].conn = None /\ todo = {}
  BY <1>1, ShutdownFree
<1>3. r \in TaskState /\ r.pc = "mcp" /\ r.conn = None /\ ShutdownFit(r)
  BY <1>2, AtStage
<1> HIDE DEF r
<1>4. Runs = {} /\ Invocations = {}
  BY <1>1 DEF RuntimeInv, AdmittedIsServed, ToolsClosing, ToolsClosed
<1>5. client' \in [Clients -> {"spare", "current", "draining", "closed"}]
  BY <1>1, Typed
<1>6. \A t \in Tasks : task[t].model = None
  BY <1>4, ModelsServe
<1> QED BY <1>1, <1>2, <1>3, <1>4, <1>5, <1>6, Typed, StageGoesOn

LEMMA SlotsVisited ==
  ASSUME RuntimeInv, AllVisited \/ DrainMcp
  PROVE  RuntimeInv'
<1>1. PICK pc \in {"drain", "done"} :
        /\ Stage \in {"todo", "drain"} /\ todo = {} /\ (pc = "done" => McpOperations = {})
        /\ task' = [task EXCEPT ![Shutdown].pc = pc]
        /\ UNCHANGED <<slot, catalog, session, shut, lock, closes, client, todo>>
  <2>1. CASE AllVisited
    BY <2>1 DEF AllVisited
  <2>2. CASE DrainMcp
    <3>1. todo = {}
      BY <2>2 DEF DrainMcp, RuntimeInv, Emptied
    <3> QED BY <2>2, <3>1 DEF DrainMcp
  <2> QED BY <2>1, <2>2
<1> DEFINE r == [task[Shutdown] EXCEPT !.pc = pc]
<1>2. task[Shutdown] \in TaskState /\ task[Shutdown].conn = None
  BY <1>1, ShutdownFree
<1>3. r \in TaskState /\ r.pc = pc /\ r.conn = None /\ ShutdownFit(r)
  <2>1. pc \in {"runs", "tools", "model", "mcp", "todo", "drain", "done"}
    OBVIOUS
  <2> QED BY <1>2, <2>1, AtStage
<1>4. task' = [task EXCEPT ![Shutdown] = r]
  BY <1>1
<1> HIDE DEF r
<1>5. Runs = {} /\ Invocations = {}
  BY <1>1 DEF RuntimeInv, AdmittedIsServed, ToolsClosing, ToolsClosed
<1>6. McpClosed
  BY <1>1 DEF McpClosed
<1> QED BY <1>1, <1>2, <1>3, <1>4, <1>5, <1>6, ModelsServe, Typed, StageGoesOn

LEMMA CloseFound ==
  ASSUME RuntimeInv, CloseIsDone
  PROVE  RuntimeInv'
<1>0. PICK c : c = task[Shutdown].conn
  OBVIOUS
<1> DEFINE r == [task[Shutdown] EXCEPT !.pc = "todo", !.conn = None]
<1>1. /\ Stage = "close" /\ lock[c] = None /\ c \in shut
      /\ slot' = slot /\ session' = session /\ shut' = shut /\ lock' = lock /\ closes' = closes
      /\ client' = client
  BY <1>0 DEF CloseIsDone, MustClose
<1>2. task' = [task EXCEPT ![Shutdown] = r] /\ catalog' = catalog /\ todo' = todo
  BY Names DEF CloseIsDone, AfterClose
<1>3. task[Shutdown] \in TaskState
  BY Typed
<1>4. r \in TaskState /\ r.pc = "todo" /\ r.conn = None
  BY <1>3, WithoutConn
<1> HIDE DEF r
<1>5. c \in Conns /\ session[c] \in {"closed", "broken"}
  <2>1. c \in Conns
    BY <1>1, Typed
  <2> QED BY <1>1, <2>1 DEF RuntimeInv, Over
<1>6. \A d \in Conns : lock[d] # Shutdown
  BY <1>0, <1>1, Names DEF RuntimeInv, Locks
<1>7. Runs = {} /\ Invocations = {}
  BY <1>1 DEF RuntimeInv, AdmittedIsServed, ToolsClosing, ToolsClosed
<1>8. (\A s \in Servers : slot[s] = None) /\ task[Host].pc # "start"
  BY <1>1 DEF RuntimeInv, Emptied, McpClosed
<1>9. \A d \in todo : d \in Conns /\ (d \in shut \/ session[d] = "open")
  BY Typed DEF RuntimeInv, Emptied
<1>10. \A d \in Conns : Retired(d)' = Retired(d)
  BY <1>1 DEF Retired
<1>11. ShutdownFit(r)
  BY <1>4 DEF ShutdownFit
<1>12. Shuts(r)
  BY <1>0, <1>1, <1>2, <1>4, <1>5, <1>6, <1>7, <1>8, <1>9, <1>10, <1>11, ModelsServe, Typed DEF Shuts
<1> QED BY <1>4, <1>12, ShutdownMoves

LEMMA ContainerClosed ==
  ASSUME RuntimeInv, CloseContainer
  PROVE  RuntimeInv'
<1> DEFINE r == [task[Shutdown] EXCEPT !.pc = "todo"]
<1>1. /\ Stage = "mcp" /\ ~MutationLocked /\ task' = [task EXCEPT ![Shutdown] = r]
      /\ todo' = Range(slot) \ {None} /\ slot' = [s \in Servers |-> None]
      /\ catalog' = catalog /\ session' = session /\ shut' = shut /\ lock' = lock
      /\ closes' = closes /\ client' = client
  BY DEF CloseContainer
<1>2. /\ task[Shutdown] \in TaskState /\ task[Shutdown].conn = None /\ todo = {}
      /\ \A d \in Conns : lock[d] # Shutdown
  BY <1>1, ShutdownFree
<1>3. r \in TaskState /\ r.pc = "todo" /\ r.conn = None /\ ShutdownFit(r)
  BY <1>2, AtStage
<1> HIDE DEF r
<1>4. Runs = {} /\ Invocations = {}
  BY <1>1 DEF RuntimeInv, AdmittedIsServed, ToolsClosing, ToolsClosed
<1>5. task[Host].pc # "start"
  BY <1>1, StartTyped DEF MutationLocked
<1>6. \A d : d \in todo' <=> d # None /\ \E s \in Servers : slot[s] = d
  BY <1>1, Typed DEF Range
<1>7. \A d \in todo' : d \in Conns /\ session[d] = "open"
  BY <1>6, Typed DEF RuntimeInv, SlotsServe
<1>8. \A d \in Conns : ~Retired(d) => d \in todo'
  BY <1>6, Names DEF Retired
<1>9. \A s \in Servers : slot'[s] = None
  BY <1>1
<1>10. slot' \in [Servers -> Conns \cup {None}]
  BY <1>1
<1>11. Shuts(r)
  BY <1>1, <1>2, <1>3, <1>4, <1>5, <1>7, <1>8, <1>9, <1>10, ModelsServe, Typed, Names DEF Shuts
<1> QED BY <1>3, <1>11, ShutdownMoves

LEMMA SlotVisited ==
  ASSUME RuntimeInv, CloseNext
  PROVE  RuntimeInv'
<1>1. /\ Stage = "todo"
      /\ slot' = slot /\ catalog' = catalog /\ session' = session /\ shut' = shut /\ lock' = lock
      /\ closes' = closes /\ client' = client
  BY DEF CloseNext
<1>2. PICK c \in todo :
        /\ todo' = todo \ {c}
        /\ task' = IF Calls(c) = {}
                   THEN [task EXCEPT ![Shutdown].pc = "close", ![Shutdown].conn = c] ELSE task
  BY DEF CloseNext
<1>3. /\ task[Shutdown] \in TaskState /\ task[Shutdown].conn = None /\ task[Shutdown].pc = "todo"
      /\ \A d \in Conns : lock[d] # Shutdown
  BY <1>1, ShutdownFree
<1>4. \A d \in todo : d \in Conns /\ (d \in shut \/ session[d] = "open")
  BY Typed DEF RuntimeInv, Emptied
<1>5. Runs = {} /\ Invocations = {}
  BY <1>1 DEF RuntimeInv, AdmittedIsServed, ToolsClosing, ToolsClosed
<1>6. (\A s \in Servers : slot[s] = None) /\ task[Host].pc # "start"
  BY <1>1 DEF RuntimeInv, Emptied, McpClosed
<1>7. \A d \in Conns : Retired(d)' = Retired(d)
  BY <1>1 DEF Retired
<1>8. CASE Calls(c) = {}
  <2> DEFINE n == [task[Shutdown] EXCEPT !.pc = "close"]
             r == [task[Shutdown] EXCEPT !.pc = "close", !.conn = c]
  <2>1. n \in TaskState /\ n.pc = "close"
    BY <1>3 DEF TaskState
  <2>2. r = [n EXCEPT !.conn = c]
    OBVIOUS
  <2>3. task' = [task EXCEPT ![Shutdown] = r]
    BY <1>2, <1>8
  <2> HIDE DEF n, r
  <2>4. r \in TaskState /\ r.pc = "close" /\ r.conn = c
    <3>1. r \in TaskState
      BY <1>4, <2>1, <2>2, WithConn
    <3> QED BY <2>1, <2>2, <3>1 DEF TaskState
  <2>5. Unused(c) /\ ShutdownFit(r)
    BY <1>4, <1>8, <2>4, CallsCount, Names DEF ShutdownFit
  <2>6. todo' \subseteq Conns /\ \A d \in todo' : d \in shut \/ session[d] = "open"
    BY <1>2, <1>4
  <2>7. \A d \in Conns : session[d] = "open" =>
          /\ ~Retired(d) => ~Retired(d)' \/ d \in todo'
          /\ d \in todo => d \in todo' \/ r.conn = d \/ ~Unused(d)
          /\ task[Shutdown].conn = d => r.conn = d
    BY <1>2, <1>3, <1>7, <2>4, Names
  <2>8. \A d \in Conns : d = r.conn => Unused(d) /\ (d \in shut \/ session[d] = "open")
    BY <1>4, <2>4, <2>5
  <2>9. \A t \in Tasks : task[t].model # None => client'[task[t].model] # "closed"
    BY <1>1, ModelsServe
  <2>10. Shuts(r)
    BY <1>1, <1>3, <1>5, <1>6, <2>3, <2>4, <2>5, <2>6, <2>7, <2>8, <2>9, Typed DEF Shuts
  <2> QED BY <2>4, <2>10, ShutdownMoves
<1>9. CASE Calls(c) # {}
  <2>1. task' = [task EXCEPT ![Shutdown] = task[Shutdown]] /\ ShutdownFit(task[Shutdown])
    BY <1>2, <1>9, Typed, Names
  <2>2. ~Unused(c)
    BY <1>4, <1>9, CallsCount
  <2>3. \A d \in Conns : session[d] = "open" =>
          /\ ~Retired(d) => ~Retired(d)' \/ d \in todo'
          /\ d \in todo => d \in todo' \/ ~Unused(d)
    BY <1>2, <1>7, <2>2
  <2>4. todo' \subseteq Conns /\ \A d \in todo' : d \in shut \/ session[d] = "open"
    BY <1>2, <1>4
  <2>5. \A t \in Tasks : task[t].model # None => client'[task[t].model] # "closed"
    BY <1>1, ModelsServe
  <2>6. Shuts(task[Shutdown])
    BY <1>1, <1>3, <1>5, <1>6, <2>1, <2>3, <2>4, <2>5, Typed DEF Shuts
  <2> QED BY <1>3, <2>6, ShutdownMoves
<1> QED BY <1>8, <1>9

-----------------------------------------------------------------------------
(* The host replaces and retires model clients                              *)

LEMMA ClientsMove ==
  ASSUME RuntimeInv, NEW m \in Clients, Swap(m) \/ Retire(m) \/ CloseRetired(m)
  PROVE  RuntimeInv'
<1>1. UNCHANGED <<task, slot, catalog, session, shut, lock, closes, todo>>
  BY DEF Swap, Retire, CloseRetired
<1>2. client' \in [Clients -> {"spare", "current", "draining", "closed"}]
  <2>1. CASE Swap(m)
    BY <2>1, Typed DEF Swap
  <2>2. CASE Retire(m)
    BY <2>2, Typed DEF Retire
  <2>3. CASE CloseRetired(m)
    BY <2>3, Typed DEF CloseRetired
  <2> QED BY <2>1, <2>2, <2>3
<1>3. \A x \in Clients : client'[x] = "closed" =>
        client[x] = "closed" \/ (x = m /\ Leases(m) = {})
  <2>1. CASE Swap(m)
    BY <2>1, Typed DEF Swap
  <2>2. CASE Retire(m)
    BY <2>2, Typed DEF Retire
  <2>3. CASE CloseRetired(m)
    BY <2>3, Typed DEF CloseRetired, Drained
  <2> QED BY <2>1, <2>2, <2>3
<1>4. UsersOpen'
  <2>1. ASSUME NEW t \in Tasks, task[t].model # None PROVE client'[task[t].model] # "closed"
    BY <1>3, <2>1, ModelsServe DEF Leases
  <2> QED BY <1>1, <2>1 DEF RuntimeInv, UsersOpen
<1>5. RuntimeTypeOK'
  BY <1>1, <1>2 DEF RuntimeInv, RuntimeTypeOK
<1>6. Fits' /\ SlotsServe'
  BY <1>1 DEF RuntimeInv, Fits, SlotsServe
<1>7. Stage' = Stage /\ ToolsClosing' = ToolsClosing /\ ToolsClosed' = ToolsClosed /\ McpClosed' = McpClosed
  BY <1>1, StageKept
<1>8. AdmittedIsServed'
  BY <1>1, <1>7 DEF RuntimeInv, AdmittedIsServed, Runs, Invocations
<1>9. \A d \in Conns : Retired(d)' = Retired(d) /\ Unused(d)' = Unused(d)
  BY <1>1 DEF Retired, Unused
<1>10. NotYet'
  BY <1>1, <1>9, StartTyped DEF RuntimeInv, NotYet
<1>11. Over' /\ Locks'
  BY <1>1, <1>9 DEF RuntimeInv, Over, Locks
<1>12. Emptied'
  <2>1. Stage = "close" => task[Shutdown].conn \in Conns
    BY Typed DEF ShutdownFit, TaskState, Stage
  <2> QED BY <1>1, <1>7, <1>9, <2>1 DEF RuntimeInv, Emptied
<1>13. NothingLost'
  BY <1>1, <1>7, <1>9 DEF RuntimeInv, NothingLost, Held, McpOperations
<1> QED BY <1>4, <1>5, <1>6, <1>8, <1>10, <1>11, <1>12, <1>13 DEF RuntimeInv

-----------------------------------------------------------------------------
(* The invariant                                                            *)

LEMMA NothingChanges ==
  ASSUME RuntimeInv, UNCHANGED vars
  PROVE  RuntimeInv'
<1>1. UNCHANGED <<task, slot, catalog, session, shut, lock, closes, client, todo>>
  BY DEF vars
<1>2. Stage' = Stage /\ ToolsClosing' = ToolsClosing /\ ToolsClosed' = ToolsClosed /\ McpClosed' = McpClosed
  BY <1>1, StageKept
<1>3. \A d \in Conns : Retired(d)' = Retired(d) /\ Unused(d)' = Unused(d)
  BY <1>1 DEF Retired, Unused
<1>4. RuntimeTypeOK' /\ Fits' /\ SlotsServe' /\ UsersOpen'
  BY <1>1 DEF RuntimeInv, RuntimeTypeOK, Fits, SlotsServe, UsersOpen
<1>5. AdmittedIsServed'
  BY <1>1, <1>2 DEF RuntimeInv, AdmittedIsServed, Runs, Invocations
<1>6. NotYet'
  BY <1>1, <1>3, StartTyped DEF RuntimeInv, NotYet
<1>7. Over' /\ Locks'
  BY <1>1, <1>3 DEF RuntimeInv, Over, Locks
<1>8. Emptied'
  <2>1. Stage = "close" => task[Shutdown].conn \in Conns
    BY Typed DEF ShutdownFit, TaskState, Stage
  <2> QED BY <1>1, <1>2, <1>3, <2>1 DEF RuntimeInv, Emptied
<1>9. NothingLost'
  BY <1>1, <1>2, <1>3 DEF RuntimeInv, NothingLost, Held, McpOperations
<1> QED BY <1>4, <1>5, <1>6, <1>7, <1>8, <1>9 DEF RuntimeInv

LEMMA InitKept == Init => RuntimeInv
<1> SUFFICES ASSUME Init PROVE RuntimeInv
  OBVIOUS
<1>1. /\ task = [a \in Actors |-> Idle] /\ catalog = slot
      /\ session = [c \in Conns |-> IF c \in Initial THEN "open" ELSE "fresh"]
      /\ shut = {} /\ lock = [c \in Conns |-> None] /\ closes = [c \in Conns |-> 0]
      /\ client = [m \in Clients |-> IF m = First THEN "current" ELSE "spare"] /\ todo = {}
  BY DEF Init
<1>2. /\ \A a \in Actors : task[a] = Idle
      /\ \A t \in Tasks : task[t] = Idle
      /\ task[Host] = Idle /\ task[Shutdown] = Idle
  BY <1>1, Names
<1>3. Idle.pc = "idle" /\ Idle.conn = None /\ Idle.model = None /\ Idle.kind = "none"
  BY DEF Idle
<1>4. /\ slot \in [Servers -> Conns \cup {None}]
      /\ \A s \in Servers : slot[s] # None => slot[s] \in Initial /\ ServerOf[slot[s]] = s
      /\ \A s \in Servers, c \in Initial : ServerOf[c] = s => slot[s] = c
  <2>1. slot = [s \in Servers |-> IF \E c \in Initial : ServerOf[c] = s
                                  THEN CHOOSE c \in Initial : ServerOf[c] = s ELSE None]
    BY DEF Init
  <2>2. ASSUME NEW s \in Servers
        PROVE  /\ slot[s] # None => slot[s] \in Initial /\ ServerOf[slot[s]] = s
               /\ \A c \in Initial : ServerOf[c] = s => slot[s] = c
               /\ slot[s] \in Conns \cup {None}
    <3>1. CASE \E c \in Initial : ServerOf[c] = s
      <4> DEFINE x == CHOOSE c \in Initial : ServerOf[c] = s
      <4>1. slot[s] = x
        BY <2>1, <3>1
      <4>2. x \in Initial /\ ServerOf[x] = s
        BY <3>1
      <4> HIDE DEF x
      <4> QED BY <4>1, <4>2, Constants
    <3>2. CASE ~\E c \in Initial : ServerOf[c] = s
      BY <2>1, <3>2
    <3> QED BY <3>1, <3>2
  <2>3. \A s \in Servers : slot[s] \in Conns \cup {None}
    BY <2>2
  <2>4. slot \in [Servers -> Conns \cup {None}]
    BY <2>1, <2>3
  <2> QED BY <2>2, <2>4
<1>5. Stage = "idle" /\ ~ToolsClosing /\ ~ToolsClosed /\ ~McpClosed
  BY <1>2, <1>3 DEF Stage, ToolsClosing, ToolsClosed, McpClosed
<1>6. \A d \in Conns : Unused(d)
  BY <1>2, <1>3 DEF Unused, InUse
<1>7. RuntimeTypeOK
  <2>1. task \in [Actors -> TaskState]
    BY <1>1, IdleTyped
  <2>2. session \in [Conns -> {"fresh", "open", "closed", "broken"}]
    BY <1>1
  <2>3. /\ lock \in [Conns -> Actors \cup {None}] /\ closes \in [Conns -> Nat]
        /\ client \in [Clients -> {"spare", "current", "draining", "closed"}]
    BY <1>1
  <2> QED BY <1>1, <1>4, <2>1, <2>2, <2>3 DEF RuntimeTypeOK
<1>8. Fits
  BY <1>2, IdleTyped DEF Fits
<1>9. UsersOpen
  BY <1>2, <1>3 DEF UsersOpen
<1>10. SlotsServe
  BY <1>1, <1>4, Constants DEF SlotsServe
<1>11. AdmittedIsServed
  BY <1>5 DEF AdmittedIsServed
<1>12. NotYet
  <2>1. \A d \in Conns : session[d] = "fresh" => Retired(d)
    BY <1>1, <1>4, Names DEF Retired
  <2> QED BY <1>1, <1>2, <1>3, <1>6, <2>1 DEF NotYet
<1>13. Over /\ Locks
  BY <1>1, <1>2, <1>3, Names DEF Over, Locks
<1>14. Emptied
  BY <1>1, <1>5 DEF Emptied
<1>15. NothingLost
  <2>1. ASSUME NEW d \in Conns, session[d] = "open" PROVE Held(d)
    <3>1. d \in Initial /\ ServerOf[d] \in Servers
      BY <1>1, <2>1, Constants
    <3>2. \A s \in Servers : ServerOf[d] = s => slot[s] = d
      BY <1>4, <3>1, Zenon
    <3>3. slot[ServerOf[d]] = d
      BY <3>1, <3>2
    <3> QED BY <3>1, <3>3 DEF Held, Retired
  <2> QED BY <1>5, <2>1 DEF NothingLost
<1> QED BY <1>7, <1>8, <1>9, <1>10, <1>11, <1>12, <1>13, <1>14, <1>15 DEF RuntimeInv

LEMMA NextKept == RuntimeInv /\ [Next]_vars => RuntimeInv'
<1> SUFFICES ASSUME RuntimeInv, [Next]_vars PROVE RuntimeInv'
  OBVIOUS
<1>1. CASE \E t \in Runners : BeginRun(t)
  BY <1>1, RunStarts
<1>2. CASE \E t \in Tasks : PlanReturns(t) \/ WorkReturns(t) \/ VerdictReturns(t)
  BY <1>2, StageEnds
<1>3. CASE \E t \in Tasks : ModelCallsTool(t)
  BY <1>3, RunCallsTool
<1>4. CASE \E t \in Tasks : ModelFails(t) \/ Cancel(t)
  BY <1>4, RunEnds
<1>5. CASE \E t \in Callers, s \in Targets : CallTool(t, s)
  BY <1>5, ToolCalled
<1>6. CASE \E t \in Tasks : Refuse(t)
  BY <1>6, ToolRefused
<1>7. CASE \E t \in Tasks : Admitted(t)
  BY <1>7, ToolAdmitted
<1>8. CASE \E t \in Tasks : SessionAnswers(t) \/ PageFails(t) \/ CancelCall(t)
  BY <1>8, CallEnds
<1>9. CASE \E t \in Callers, s \in Targets : Read(t, s) \/ Discover(t, s) \/ Catalog(t, s)
  BY <1>9, ConnectionRead
<1>10. CASE \E t \in Tasks : PageArrives(t)
  BY <1>10, PageHandled
<1>11. CASE CloseBegins
  BY <1>11, CloseStarts
<1>12. CASE CloseIsDone
  BY <1>12, CloseFound
<1>13. CASE \E a \in Actors : CloseEnds(a)
  BY <1>13, CloseEnded
<1>14. CASE \E t \in Tasks : CancelClose(t)
  BY <1>14, CloseCutShort
<1>15. CASE \E c \in Conns : Register(c)
  BY <1>15, Registers
<1>16. CASE StartReturns \/ StartFails \/ StartCancelled
  BY <1>16, StartSucceeds, StartBreaks, StartCutShort
<1>17. CASE \E s \in Servers : Unregister(s)
  BY <1>17, Unregisters
<1>18. CASE \E m \in Clients : Swap(m) \/ Retire(m) \/ CloseRetired(m)
  BY <1>18, ClientsMove
<1>19. CASE Aclose \/ DrainRuns \/ DrainTools \/ CloseModel \/ AllVisited \/ DrainMcp
  BY <1>19, CloseAskedFor, RunsDrained, ToolsDrained, ModelClosed, SlotsVisited
<1>20. CASE CloseContainer \/ CloseNext
  BY <1>20, ContainerClosed, SlotVisited
<1>21. CASE UNCHANGED vars
  BY <1>21, NothingChanges
<1> QED BY <1>1, <1>2, <1>3, <1>4, <1>5, <1>6, <1>7, <1>8, <1>9, <1>10, <1>11, <1>12, <1>13,
           <1>14, <1>15, <1>16, <1>17, <1>18, <1>19, <1>20, <1>21 DEF Next

\* What callers hold and who may still close it says that every lease is honoured.
LEMMA InvImplies == RuntimeInv => LeasesHonoured
<1> SUFFICES ASSUME RuntimeInv PROVE LeasesHonoured
  OBVIOUS
<1>1. UsedWhileOpen
  BY DEF RuntimeInv, UsersOpen, UsedWhileOpen
<1>2. ClosedOnce
  <2>1. \A c \in Conns : closes[c] = IF c \in shut THEN 1 ELSE 0
    BY DEF RuntimeInv, Over
  <2> QED BY <2>1 DEF ClosedOnce
<1>3. PinnedCatalog
  BY Typed DEF PinnedCatalog, Invocations, TaskFit
<1>4. NothingLeftOpen
  <2> SUFFICES ASSUME Stage = "done", \A c \in Conns : session[c] # "broken",
                      NEW c \in Conns, session[c] = "open"
               PROVE  task[Host].conn = c
    BY DEF NothingLeftOpen
  <2>1. Held(c) /\ McpOperations = {}
    BY DEF RuntimeInv, NothingLost
  <2>2. (\A s \in Servers : slot[s] = None) /\ todo = {} /\ task[Host].pc # "start"
    BY DEF RuntimeInv, Emptied, McpClosed
  <2>3. task[Shutdown].conn = None /\ \A d \in Conns : lock[d] # Shutdown
    BY ShutdownFree
  <2>4. Retired(c)
    BY <2>2, Names DEF Retired
  <2>5. Unused(c) /\ \A t \in Tasks : task[t].conn = None
    BY <2>1, Names DEF McpOperations, Unused, InUse
  <2>6. lock[c] # None
    BY <2>1, <2>2, <2>3, <2>4, <2>5, Names DEF Held
  <2>7. lock[c] \in Actors /\ task[lock[c]].conn = c
    BY <2>6, Typed DEF RuntimeInv, Locks
  <2>8. lock[c] = Host
    BY <2>3, <2>5, <2>7, Names
  <2> QED BY <2>7, <2>8
<1> QED BY <1>1, <1>2, <1>3, <1>4 DEF RuntimeInv, LeasesHonoured

\* Whatever is replaced, unregistered, retired, cancelled or shut down, what a caller uses is open,
\* runs on the catalog it was discovered on, is closed once and not left open behind
\* (RuntimeContainer, McpServerRegistry, ModelRegistry, AsyncRuntime.aclose).
THEOREM LeasesKept == Spec => []LeasesHonoured
<1>1. Init => RuntimeInv
  BY InitKept
<1>2. RuntimeInv /\ [Next]_vars => RuntimeInv'
  BY NextKept
<1>3. RuntimeInv => LeasesHonoured
  BY InvImplies
<1> QED BY <1>1, <1>2, <1>3, PTL DEF Spec
=============================================================================
