-------------------------------- MODULE Polling --------------------------------
(***************************************************************************)
(* Clients that follow a room with GET /room/R/messages/since/N.  A client *)
(* keeps the seqno of the last row it received and asks for what is above  *)
(* it.  The server answers with two queries, one for the message rows and  *)
(* a later one for their reactions, and writers run between the two; the   *)
(* answer may be lost, and is then asked for again.                        *)
(***************************************************************************)
EXTENDS MessageLog

CONSTANTS
    Clients,        \* the users that poll
    Ways,           \* ways to poll: with reaction updates (t=r) or not, rows per answer
    Absent          \* a message the client has not heard of

ASSUME ClientsAssumption ==
    /\ Clients \subseteq Users
    /\ Ways \subseteq [reactions : BOOLEAN, limit : Nat \ {0}]
    /\ Absent \notin Data \cup {ReplyBody, NoData}

VARIABLES
    way,            \* per client, how it polls
    since,          \* per client, the highest seqno received
    copy,           \* per client and message, the body it holds, or Absent
    seenReactions,  \* per client and message, the <<reaction, user>> it holds
    pending         \* per client, the rows [message, seqno, data, full] of an answer under way

clientVars == <<way, since, copy, seenReactions, pending>>
pollVars == <<vars, clientVars>>

AllIds == 1 .. MaxMessages

-----------------------------------------------------------------------------
(* Room.get_messages_for(sequence=N)                                       *)

\* whisper_clause, and NOT filtered.
VisibleTo(c, m) ==
    LET row == messages[m]
        public == row.whisper = NoUser /\ ~row.whisperMods
    IN  /\ ~row.filtered
        /\ IF c \in Mods
             THEN row.whisper \in {c, NoUser} \/ row.whisperMods \/ row.user = c
             ELSE row.whisper = c \/ public

\* Altered forms: reactions are left out; only what was created is sent.
Updates_DataOnly(c) ==
    {m \in Ids :
        /\ VisibleTo(c, m)
        /\ messages[m].data # NoData \/ messages[m].seqnoCreation <= since[c]
        /\ messages[m].seqnoData > since[c]}
Updates_CreatedOnly(c) ==
    {m \in Ids : VisibleTo(c, m) /\ messages[m].seqnoCreation > since[c]}

\* not_deleted_clause and message_clause.
Updates(c) ==
    {m \in Ids :
        /\ VisibleTo(c, m)
        /\ messages[m].data # NoData \/ messages[m].seqnoCreation <= since[c]
        /\ messages[m].seqno > since[c]
        /\ way[c].reactions \/ messages[m].seqnoData > since[c]}

\* ORDER BY seqno LIMIT: the rows with fewer than Limit below them.
Page(c) ==
    {m \in Updates(c) :
        Cardinality({n \in Updates(c) : messages[n].seqno < messages[m].seqno}) < way[c].limit}

\* Altered form: any row with new reactions is sent as a reaction-only update.
IsFullRow_NoReaction(c, m) == ~ (since[c] > 0 /\ messages[m].seqnoReactions > since[c])

\* Everything but a reaction-only update (`if sequence and ...`).
IsFullRow(c, m) ==
    ~ /\ since[c] > 0
      /\ messages[m].seqnoReactions > since[c]
      /\ since[c] >= messages[m].seqnoData

\* Room.get_reactions, for one message.
ReactionView(m) == {<<x[2], x[3]>> : x \in ReactionsOf(m)}

-----------------------------------------------------------------------------

FetchRows(c) ==
    /\ pending[c] = {}
    /\ c \notin banned
    /\ Page(c) # {}
    /\ pending' = [pending EXCEPT ![c] =
         {[message |-> m, seqno |-> messages[m].seqno, data |-> messages[m].data,
           full |-> IsFullRow(c, m)] : m \in Page(c)}]
    /\ UNCHANGED <<vars, way, since, copy, seenReactions>>

\* get_reactions, of the rows that are not deletions, and the answer's arrival.
Deliver(c) ==
    LET rows == pending[c]
        rowOf(m) == CHOOSE row \in rows : row.message = m
        received == {row.message : row \in rows}
        isTombstone(m) == rowOf(m).full /\ rowOf(m).data = NoData
    IN  /\ rows # {}
        /\ since' = [since EXCEPT ![c] =
             CHOOSE n \in {row.seqno : row \in rows} : \A row \in rows : row.seqno <= n]
        /\ copy' = [copy EXCEPT ![c] =
             [m \in AllIds |-> IF m \in received /\ rowOf(m).full THEN rowOf(m).data
                               ELSE copy[c][m]]]
        /\ seenReactions' = [seenReactions EXCEPT ![c] =
             [m \in AllIds |-> IF m \notin received THEN seenReactions[c][m]
                               ELSE IF isTombstone(m) THEN {}
                               ELSE ReactionView(m)]]
        /\ pending' = [pending EXCEPT ![c] = {}]
        /\ UNCHANGED <<vars, way>>

LoseAnswer(c) ==
    /\ pending[c] # {}
    /\ pending' = [pending EXCEPT ![c] = {}]
    /\ UNCHANGED <<vars, way, since, copy, seenReactions>>

-----------------------------------------------------------------------------

PollInit ==
    /\ Init
    /\ way \in [Clients -> Ways]
    /\ since = [c \in Clients |-> 0]
    /\ copy = [c \in Clients |-> [m \in AllIds |-> Absent]]
    /\ seenReactions = [c \in Clients |-> [m \in AllIds |-> {}]]
    /\ pending = [c \in Clients |-> {}]

PollNext ==
    \/ Next /\ UNCHANGED clientVars
    \/ \E c \in Clients : FetchRows(c) \/ Deliver(c) \/ LoseAnswer(c)

PollSpec == PollInit /\ [][PollNext]_pollVars

\* A client keeps polling, and not every answer to it is lost.
Fairness ==
    \A c \in Clients : WF_pollVars(FetchRows(c)) /\ SF_pollVars(Deliver(c))

LivePollSpec == PollSpec /\ Fairness

-----------------------------------------------------------------------------
(* Properties.                                                             *)

\* Whether client c holds message m as it is now: its body, or the deletion of
\* one it knew.  It need not hear of a deleted message it never knew.
HoldsCurrent(c, m) ==
    IF messages[m].data = NoData
      THEN copy[c][m] \in {NoData, Absent}
      ELSE copy[c][m] = messages[m].data

\* The clients that get all their updates in one answer.
Unpaged == {c \in Clients : way[c].limit >= MaxMessages}

\* Such a client is up to date with every post, edit and deletion numbered up to
\* its `since`: asking for what is above it leaves nothing out.
CopyCurrent ==
    \A c \in Unpaged, m \in Ids :
        VisibleTo(c, m) /\ messages[m].seqnoData <= since[c] => HoldsCurrent(c, m)

\* A client that asks for reactions is up to date with every reaction numbered
\* up to its `since`, though reactions are read after the rows they are sent with.
ReactionsCurrent ==
    \A c \in {d \in Clients : way[d].reactions}, m \in Ids :
        VisibleTo(c, m) /\ messages[m].data # NoData /\ messages[m].seqnoReactions <= since[c]
          /\ messages[m].seqno <= since[c]
          => seenReactions[c][m] = ReactionView(m)

\* A client knows no message created after its `since`: the server may keep the
\* deletions of those from it ("the client won't have messages created after that").
KnownWereCreatedBefore ==
    \A c \in Clients, m \in Ids :
        copy[c][m] # Absent => messages[m].seqnoCreation <= since[c]

\* What a client that pages is told: the seqno of the last row it retrieved is
\* what to ask from, so it holds every message with a seqno up to there.
PagesLoseNothing ==
    \A c \in Clients, m \in Ids :
        VisibleTo(c, m) /\ messages[m].seqno <= since[c] => HoldsCurrent(c, m)

\* A client that stays admitted ends up with the room as it is, once writing stops.
EventuallyInSync ==
    \A c \in Clients :
        <>[](c \notin banned) => <>[](\A m \in Ids : VisibleTo(c, m) => HoldsCurrent(c, m))

=============================================================================
