---------------------------- MODULE EventStream ----------------------------
(***************************************************************************)
(* RedisEventPublisher (integration_redis/events.py): the events of a run in  *)
(* a capped Redis stream, which a reader pages through by cursor while the     *)
(* run goes on.  An entry is its number in the order of the appends; what it    *)
(* holds is good, or damaged: of another version, run or shape.               *)
(***************************************************************************)
EXTENDS Naturals, Sequences, FiniteSets, SequencesExt

CONSTANTS
    StreamCap,   \* event_max_length
    MaxEntries   \* bound: entries appended

ASSUME StreamAssumption == StreamCap \in Nat \ {0} /\ MaxEntries \in Nat

VARIABLES
    stream,      \* the entries in the stream
    damaged,     \* the entries whose payload is not acceptable
    trimmed,     \* entries the stream has lost at its old end
    page,        \* what the reader has been given, in order
    errors       \* calls that raised RedisPayloadError

streamVars == <<stream, damaged, trimmed, page, errors>>

StreamInit == stream = <<>> /\ damaged = {} /\ trimmed = 0 /\ page = <<>> /\ errors = 0

StreamEnd == trimmed + Len(stream)

\* publish: xadd with MAXLEN ~, so old entries beyond the cap go at once, later
\* or never.  An entry may be damaged by whoever else writes to this Redis.
AddToStream(drop, bad) ==
    /\ StreamEnd < MaxEntries /\ drop \in 0..Len(stream)
    /\ drop > 0 => Len(stream) + 1 - drop >= StreamCap
    /\ stream' = Append(SubSeq(stream, drop + 1, Len(stream)), StreamEnd + 1)
    /\ trimmed' = trimmed + drop
    /\ damaged' = IF bad THEN damaged \cup {StreamEnd + 1} ELSE damaged
    /\ UNCHANGED <<page, errors>>

Cursor == IF page = <<>> THEN 0 ELSE page[Len(page)]

\* Mutant: the cursor's own entry is read again.
AfterCursorAgain(x) == x >= Cursor

\* xrange from "(after": the cursor itself is excluded.
AfterCursor(x) == x > Cursor

\* _validate_payload, of each entry of the page
AcceptsPage(entries) == entries \cap damaged = {}

\* list_events(after, limit): one bad entry fails the call, and the reader may
\* ask again with another limit.
ListEvents(limit) ==
    LET rest == {i \in DOMAIN stream : AfterCursor(stream[i])}
        last == Min(rest) + limit - 1
        got == SubSeq(stream, Min(rest), IF last < Len(stream) THEN last ELSE Len(stream)) IN
    /\ rest # {}
    /\ IF AcceptsPage(ToSet(got))
       THEN page' = page \o got /\ UNCHANGED errors
       ELSE errors < 1 /\ errors' = errors + 1 /\ UNCHANGED page
    /\ UNCHANGED <<stream, damaged, trimmed>>

StreamNext ==
    \/ (\E drop \in 0..MaxEntries, bad \in BOOLEAN : AddToStream(drop, bad))
    \/ (\E limit \in 1..3 : ListEvents(limit))

StreamSpec == StreamInit /\ [][StreamNext]_streamVars

----------------------------------------------------------------------------
\* events.py list_events: a reader that pages by cursor gets each entry once, in
\* order, and misses only what the cap has taken away; an entry that cannot be
\* read is never passed over in silence.
PagedOnce ==
    /\ \A i, j \in DOMAIN page : i < j => page[i] < page[j]
    /\ (1..Cursor) \ ToSet(page) \subseteq 1..trimmed

\* events.py _validate_payload: a reader is never given a damaged entry.
PagesClean == ToSet(page) \cap damaged = {}

\* A reader of the capped stream sees each sound entry once, in order, and is
\* told of the others (events.py list_events).
PagingSound == PagedOnce /\ PagesClean
============================================================================
