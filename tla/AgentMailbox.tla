---------------------------- MODULE AgentMailbox ----------------------------
(***************************************************************************)
(* InMemoryMailbox (collaboration/messages.py).  One lock: each operation is  *)
(* a step.  A message is [id, to, team]; a host may send the same message     *)
(* again, which is refused for ever, and readers of one recipient may ask for *)
(* all teams or for one.                                                     *)
(***************************************************************************)
EXTENDS Naturals, Sequences, FiniteSets, SequencesExt

CONSTANTS
    Recipients, Teams,
    MaxMail      \* bound: message ids

ASSUME MailboxAssumption == MaxMail \in Nat /\ "any" \notin Teams

VARIABLES
    mail,        \* _queues
    known,       \* _known_message_ids
    sent,        \* the messages sent, in order
    got          \* what each recipient has received, in order

mailVars == <<mail, known, sent, got>>

MailInit ==
    /\ mail = [r \in Recipients |-> <<>>] /\ known = {} /\ sent = <<>>
    /\ got = [r \in Recipients |-> <<>>]

\* send: the id is checked before anything is stored.
SendMail(m) ==
    /\ m.id \notin known /\ known' = known \cup {m.id}
    /\ mail' = [mail EXCEPT ![m.to] = Append(@, m)] /\ sent' = Append(sent, m)
    /\ UNCHANGED got

Matches(m, team) == team = "any" \/ m.team = team

\* _select: the first `limit` messages that match, and what is retained.
SelectMail(q, team, limit) ==
    LET step(s, m) == IF Matches(m, team) /\ Len(s.taken) < limit
                      THEN [s EXCEPT !.taken = Append(@, m)]
                      ELSE [s EXCEPT !.kept = Append(@, m)]
    IN FoldLeft(step, [taken |-> <<>>, kept |-> <<>>], q)

ReceiveMail(r, team, limit) ==
    LET s == SelectMail(mail[r], team, limit) IN
    /\ mail' = [mail EXCEPT ![r] = s.kept] /\ got' = [got EXCEPT ![r] = @ \o s.taken]
    /\ UNCHANGED <<known, sent>>

\* pending_count
PendingMail(r, team) == Len(SelectSeq(mail[r], LAMBDA m : Matches(m, team)))

MailMessages == [id : 1..MaxMail, to : Recipients, team : Teams]

MailNext ==
    \/ (\E m \in MailMessages : SendMail(m))
    \/ (\E r \in Recipients, team \in Teams \cup {"any"}, limit \in 1..2 : ReceiveMail(r, team, limit))

----------------------------------------------------------------------------
Addressed(r) == SelectSeq(sent, LAMBDA m : m.to = r)
OfTeam(s, team) == SelectSeq(s, LAMBDA m : m.team = team)

\* messages.py: no message is lost or received twice, however readers filter and
\* limit: what a recipient has got and what waits is what was sent to it.
MailOnce ==
    \A r \in Recipients :
        /\ Len(got[r]) + Len(mail[r]) = Len(Addressed(r))
        /\ ToSet(got[r]) \cup ToSet(mail[r]) = ToSet(Addressed(r))
        /\ \A t \in Teams : PendingMail(r, t) + Len(OfTeam(got[r], t)) = Len(OfTeam(Addressed(r), t))

\* messages.py _select: the mail of one team reaches a recipient in the order it
\* was sent, also when reads for one team and for all teams are mixed.
MailInOrder ==
    \A r \in Recipients, t \in Teams :
        OfTeam(got[r], t) \o OfTeam(mail[r], t) = OfTeam(Addressed(r), t)
============================================================================
