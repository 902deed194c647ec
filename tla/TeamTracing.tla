---------------------------- MODULE TeamTracing ----------------------------
(***************************************************************************)
(* Live OpenTelemetry tracing of one team run (team_tracing.py):            *)
(*                                                                         *)
(*   OpenTelemetryTeamTracePublisher  a span per driven segment, opened by  *)
(*       the snapshot that is about to be saved or by the event that        *)
(*       starts the segment, ended by the event that suspends or ends it    *)
(*   OpenTelemetryTeamTaskMiddleware  one span per task call, below the      *)
(*       team span named by the snapshot the call was dispatched with        *)
(*                                                                         *)
(* A driver prepares a snapshot, saves it under its version and publishes   *)
(* an event.  The save is refused when another driver has saved meanwhile;   *)
(* a process may crash anywhere.                                            *)
(***************************************************************************)
EXTENDS Naturals, Sequences, FiniteSets, TLC

CONSTANTS
    Hosts,        \* processes with a publisher of their own
    MaxTeamSpans, \* bound: spans started in one behaviour
    MaxVersion    \* bound: snapshots saved in one behaviour

ASSUME TeamTracingAssumption == MaxTeamSpans \in Nat /\ MaxVersion \in Nat

VARIABLES
    stored,    \* the saved snapshot: status, propagation context, version
    drivers,   \* what each host holds: the snapshot it works from and its position
    teams,     \* _teams of each host: its span of the team run, 0 for none
    taskCalls,    \* task calls under way: their spans and the context they were given
    teamSpans, \* the spans started, in order
    refused,   \* hosts one of whose saves was refused
    first      \* the first span that was stored, 0 before

teamVars == <<stored, drivers, teams, taskCalls, teamSpans, refused, first>>

Active == {"planning", "running"}              \* _ACTIVE_STATUSES
Resting == {"paused"}                          \* and blocked, which does the same
Over == {"ended"}                              \* is_terminal
NoDriver == [at |-> "out", status |-> "none", context |-> 0, version |-> 0]

TeamTraceInit ==
    /\ stored = [status |-> "planning", context |-> 0, version |-> 1]
    /\ drivers = [h \in Hosts |-> NoDriver] /\ teams = [h \in Hosts |-> 0]
    /\ taskCalls = {} /\ teamSpans = <<>> /\ refused = {} /\ first = 0

StartTeamSpan(kind, parent, h) ==
    /\ Len(teamSpans) < MaxTeamSpans
    /\ teamSpans' = Append(teamSpans,
                           [kind |-> kind, parent |-> parent, host |-> h, state |-> "open"])

EndTeamSpan(id) == teamSpans' = [teamSpans EXCEPT ![id].state = "ended"]

\* start(), resume(): a host takes the stored snapshot up.
TakeUp(h) ==
    /\ drivers[h].at = "out" /\ stored.status \notin Over
    /\ drivers' = [drivers EXCEPT ![h] = [at |-> "work"] @@ stored]
    /\ UNCHANGED <<stored, teams, taskCalls, teamSpans, refused, first>>

\* Mutant: every segment starts a trace of its own.
PrepareTeamAnew(h, status) ==
    /\ drivers[h].at = "work" /\ stored.version < MaxVersion
    /\ IF status \in Active /\ teams[h] = 0
       THEN /\ StartTeamSpan("team", 0, h)
            /\ teams' = [teams EXCEPT ![h] = Len(teamSpans')]
       ELSE UNCHANGED <<teams, teamSpans>>
    /\ drivers' = [drivers EXCEPT ![h].at = "save", ![h].status = status,
                      ![h].context = IF status \in Over THEN 0
                                     ELSE IF teams'[h] # 0 THEN teams'[h] ELSE @]
    /\ UNCHANGED <<stored, taskCalls, refused, first>>

\* _prepare_snapshot: a terminal snapshot carries nothing; an active one opens
\* the team's span when this process has none; the span's context is injected.
PrepareTeam(h, status) ==
    /\ drivers[h].at = "work" /\ stored.version < MaxVersion
    /\ IF status \in Active /\ teams[h] = 0
       THEN /\ StartTeamSpan("team", drivers[h].context, h)
            /\ teams' = [teams EXCEPT ![h] = Len(teamSpans')]
       ELSE UNCHANGED <<teams, teamSpans>>
    /\ drivers' = [drivers EXCEPT ![h].at = "save", ![h].status = status,
                      ![h].context = IF status \in Over THEN 0
                                     ELSE IF teams'[h] # 0 THEN teams'[h] ELSE @]
    /\ UNCHANGED <<stored, taskCalls, refused, first>>

\* The repository's compare-and-swap.
SaveSnapshot(h) ==
    /\ drivers[h].at = "save" /\ drivers[h].version = stored.version
    /\ stored' = [status |-> drivers[h].status, context |-> drivers[h].context,
                  version |-> stored.version + 1]
    /\ drivers' = [drivers EXCEPT ![h].at = "publish", ![h].version = stored'.version]
    /\ first' = IF first = 0 THEN drivers[h].context ELSE first
    /\ UNCHANGED <<teams, taskCalls, teamSpans, refused>>

SaveRefused(h) ==
    /\ drivers[h].at = "save" /\ drivers[h].version # stored.version
    /\ drivers' = [drivers EXCEPT ![h] = NoDriver] /\ refused' = refused \cup {h}
    /\ UNCHANGED <<stored, teams, taskCalls, teamSpans, first>>

\* handle(): the suspending and ending events end the team's span; the driver
\* of a team that rests has returned.
PublishTeam(h) ==
    /\ drivers[h].at = "publish"
    /\ IF drivers[h].status \notin Active /\ teams[h] # 0
       THEN EndTeamSpan(teams[h]) /\ teams' = [teams EXCEPT ![h] = 0]
       ELSE UNCHANGED <<teams, teamSpans>>
    /\ drivers' = [drivers EXCEPT ![h] = IF @.status \in Active
                                         THEN [@ EXCEPT !.at = "work"] ELSE NoDriver]
    /\ UNCHANGED <<stored, taskCalls, refused, first>>

\* OpenTelemetryTeamTaskMiddleware.invoke, with the snapshot's context; the
\* span is ended whether the call answers, raises or is cancelled.  Bound: one
\* call at a time.
TaskBegin(h) ==
    /\ drivers[h].at = "work" /\ drivers[h].status = "running" /\ taskCalls = {}
    /\ StartTeamSpan("task", drivers[h].context, h)
    /\ taskCalls' = taskCalls \cup {[host |-> h, span |-> Len(teamSpans')]}
    /\ UNCHANGED <<stored, drivers, teams, refused, first>>

TaskEnd(c) ==
    /\ c \in taskCalls /\ taskCalls' = taskCalls \ {c} /\ EndTeamSpan(c.span)
    /\ UNCHANGED <<stored, drivers, teams, refused, first>>

\* Bound: one crash that kills an open span.
HostCrash(h) ==
    /\ drivers[h].at # "out" /\ \A i \in DOMAIN teamSpans : teamSpans[i].state # "dead"
    /\ \E i \in DOMAIN teamSpans : teamSpans[i].host = h /\ teamSpans[i].state = "open"
    /\ drivers' = [drivers EXCEPT ![h] = NoDriver] /\ teams' = [teams EXCEPT ![h] = 0]
    /\ taskCalls' = {c \in taskCalls : c.host # h}
    /\ teamSpans' = [i \in DOMAIN teamSpans |->
                       IF teamSpans[i].host = h /\ teamSpans[i].state = "open"
                       THEN [teamSpans[i] EXCEPT !.state = "dead"] ELSE teamSpans[i]]
    /\ UNCHANGED <<stored, refused, first>>

TeamTraceNext ==
    \/ (\E h \in Hosts : TakeUp(h) \/ SaveSnapshot(h) \/ SaveRefused(h) \/ PublishTeam(h)
                           \/ TaskBegin(h) \/ HostCrash(h))
    \/ (\E h \in Hosts, s \in {"running", "paused", "ended"} : PrepareTeam(h, s))
    \/ (\E c \in taskCalls : TaskEnd(c))

----------------------------------------------------------------------------
\* The state has the shape the code gives it; what a process keeps as the team's
\* span is an open span that it has started itself.
TeamTraceTypeOK ==
    /\ stored.status \in Active \cup Resting \cup Over /\ stored.version \in 1..MaxVersion
    /\ \A h \in Hosts : /\ drivers[h].at \in {"out", "work", "save", "publish"}
                        /\ teams[h] \in 0..Len(teamSpans)
                        /\ teams[h] # 0 => /\ teamSpans[teams[h]].host = h
                                           /\ teamSpans[teams[h]].state = "open"
    /\ Len(teamSpans) <= MaxTeamSpans

\* team_tracing.py: when no driver is at work, no team span is open in a living
\* process, but in one whose save was refused after it had opened its span.
TeamSpanEnded ==
    (\A h \in Hosts : drivers[h].at = "out") =>
        \A i \in DOMAIN teamSpans :
           teamSpans[i].kind = "team" /\ teamSpans[i].state = "open"
               => teamSpans[i].host \in refused

\* All segments of a team belong to one trace: the span in the stored snapshot
\* descends from the first one ever stored, in whatever process it was opened.
\* The exception is a host that was refused after it had opened a span without
\* a parent (no context was stored yet): its publisher keeps that span.
OneTeamTrace ==
    LET above[i \in DOMAIN teamSpans] ==
            {i} \cup (IF teamSpans[i].parent = 0 THEN {} ELSE above[teamSpans[i].parent])
    IN stored.context # 0 =>
          \/ first \in above[stored.context]
          \/ \E i \in DOMAIN teamSpans : teamSpans[i].parent = 0 /\ teamSpans[i].host \in refused

\* A task's span hangs below a team span of the team, also when the segment it
\* was dispatched in is over.
TaskBelowTeam ==
    \A i \in DOMAIN teamSpans : teamSpans[i].kind = "task" =>
        teamSpans[i].parent # 0 /\ teamSpans[teamSpans[i].parent].kind = "team"

\* The trace of a team survives the same: one trace for all segments, its tasks
\* below it, no span left open (team_tracing.py).
TeamTraceSound == TeamTraceTypeOK /\ TeamSpanEnded /\ OneTeamTrace /\ TaskBelowTeam
============================================================================
