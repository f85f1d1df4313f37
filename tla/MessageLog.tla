------------------------------ MODULE MessageLog ------------------------------
(***************************************************************************)
(* The message log of one room: the rows of `messages`, `reactions` and    *)
(* `user_reactions`, the room's `message_sequence` counter, and the        *)
(* triggers of the schema that stamp every change with a fresh sequence    *)
(* number, which is what a client polls with.                              *)
(*                                                                         *)
(* A request runs in a worker.  Its permission checks (and, for reactions, *)
(* the check that the message is a regular one) are read before its        *)
(* transaction begins, so another worker's transaction may come between    *)
(* the two: `work` holds, per worker, the checks its request has passed.   *)
(* What a check does not read is chosen when the transaction runs.         *)
(***************************************************************************)
EXTENDS Integers, Sequences, FiniteSets

CONSTANTS
    Users,          \* users that make requests
    Mods, Admins,   \* the room's moderators, and those that are admins
    ServerUser,     \* the fake user the filter's replies are posted by
    NoUser,         \* NULL in messages.whisper
    Data, NoData,   \* message bodies, and NULL (a deleted message)
    ReplyBody,      \* the body of a filter's reply
    Profane,        \* the bodies the filter trips on
    SilentFilter,   \* *_silent of the filter settings
    FilterReply,    \* the filter's reply: "none", "whisper" or "public"
    Reactions,      \* reaction strings
    Workers,        \* workers, each running one request at a time
    MaxMessages,    \* bound: rows in `messages`
    MaxSequence     \* bound: the counter

ASSUME UsersAssumption ==
    /\ Admins \subseteq Mods
    /\ Mods \subseteq Users
    /\ ServerUser \notin Users
    /\ NoUser \notin Users \cup {ServerUser}

ASSUME DataAssumption ==
    /\ NoData \notin Data
    /\ ReplyBody \notin Data \cup {NoData}
    /\ Profane \subseteq Data
    /\ SilentFilter \in BOOLEAN
    /\ FilterReply \in {"none", "whisper", "public"}

ASSUME BoundAssumption ==
    /\ MaxMessages \in Nat
    /\ MaxSequence \in Nat

VARIABLES
    messageSequence,    \* rooms.message_sequence
    messages,           \* the rows of `messages`; the index is the id
    userReactions,      \* <<message, reaction, user>> of user_reactions
    banned,             \* users without access to the room
    work                \* what each worker's request has been admitted to

logVars == <<messageSequence, messages, userReactions>>
vars == <<logVars, banned, work>>

-----------------------------------------------------------------------------

NoMessage == 0
Ids == DOMAIN messages

Message ==
    [user : Users \cup {ServerUser}, data : Data \cup {ReplyBody, NoData},
     seqno : Nat, seqnoData : Nat, seqnoReactions : Nat, seqnoCreation : Nat,
     filtered : BOOLEAN, whisper : Users \cup {NoUser}, whisperMods : BOOLEAN]

Idle == [kind |-> "idle", user |-> NoUser, message |-> NoMessage]

\* What the checks of a request admit it to: a post, an edit or a deletion
\* ("write"), a change of the reactions of a message ("react"), or the second
\* insertion of a filtered post, the filter's reply ("reply").
Admission ==
    [kind : {"idle", "write", "react", "reply"},
     user : Users \cup {NoUser}, message : Nat]

Admit(w, kind, u, m) ==
    work' = [work EXCEPT ![w] = [kind |-> kind, user |-> u, message |-> m]]

Done(w) == work' = [work EXCEPT ![w] = Idle]

-----------------------------------------------------------------------------
(* Helpers                                                                 *)

Larger(a, b) == IF a >= b THEN a ELSE b

ReactionsOf(m) == {x \in userReactions : x[1] = m}

\* Altered form, for the mutation runs: filtered posts count as regular.
IsRegular_Filtered(m) ==
    /\ m \in Ids
    /\ messages[m].data # NoData
    /\ messages[m].whisper = NoUser
    /\ ~messages[m].whisperMods

\* Altered form: deleted messages count as regular.
IsRegular_Deleted(m) ==
    /\ m \in Ids
    /\ ~messages[m].filtered
    /\ messages[m].whisper = NoUser
    /\ ~messages[m].whisperMods

\* Room.is_regular_message: not deleted, not filtered, not a whisper.
IsRegular(m) ==
    /\ m \in Ids
    /\ messages[m].data # NoData
    /\ ~messages[m].filtered
    /\ messages[m].whisper = NoUser
    /\ ~messages[m].whisperMods

\* Room.should_filter: moderators are exempt (FILTER_MODS is off by default).
Trips(u, d) == d \in Profane /\ u \notin Mods

\* The row that messages_insert_counter leaves after an INSERT.
NewMessage(u, d, filtered, whisper, whisperMods) ==
    [user |-> u, data |-> d,
     seqno |-> messageSequence + 1, seqnoData |-> messageSequence + 1,
     seqnoReactions |-> 0, seqnoCreation |-> messageSequence + 1,
     filtered |-> filtered, whisper |-> whisper, whisperMods |-> whisperMods]

Insert(row) ==
    /\ Len(messages) < MaxMessages
    /\ messageSequence < MaxSequence
    /\ messages' = Append(messages, row)
    /\ messageSequence' = messageSequence + 1
    /\ UNCHANGED userReactions

\* Altered forms: the triggers that keep `seqno` watch reactions only; an edit
\* counts as a creation.
WithData_StaleSeqno(row, d, n) == [row EXCEPT !.data = d, !.seqnoData = n]
WithData_Recreated(row, d, n) ==
    [row EXCEPT !.data = d, !.seqnoData = n, !.seqno = n, !.seqnoCreation = n]

\* messages_insert_history and messages_seqno_updater_upd.  (The rows the former
\* keeps in message_history are an audit trail that nothing reads: left out.)
WithData(row, d, n) ==
    [row EXCEPT !.data = d, !.seqnoData = n, !.seqno = Larger(n, row.seqnoReactions)]

\* user_reactions_insert_seqno, reactions_delete_seqno, messages_seqno_updater_upd.
WithReactionAt(row, n) ==
    [row EXCEPT !.seqnoReactions = n, !.seqno = Larger(row.seqnoData, n)]

-----------------------------------------------------------------------------
(* The checks a request makes before its transaction.                      *)

\* Altered form: a ban is not looked at.
CheckWrite_Banned(w, u) ==
    /\ work[w] = Idle
    /\ Admit(w, "write", u, NoMessage)
    /\ UNCHANGED <<logVars, banned>>

CheckWrite(w, u) ==
    /\ work[w] = Idle
    /\ u \notin banned
    /\ Admit(w, "write", u, NoMessage)
    /\ UNCHANGED <<logVars, banned>>

CheckReaction(w, u, m) ==
    /\ work[w] = Idle
    /\ u \notin banned
    /\ IsRegular(m)
    /\ Admit(w, "react", u, m)
    /\ UNCHANGED <<logVars, banned>>

\* The request fails before it changes anything (rate limit, no such post,
\* not the author, a locked database), or its worker dies: a transaction that
\* was open is rolled back, a reply that was due is lost.
Abandon(w) ==
    /\ work[w] # Idle
    /\ Done(w)
    /\ UNCHANGED <<logVars, banned>>

-----------------------------------------------------------------------------
(* Posts and edits.                                                        *)

\* Altered form: the reply is whispered to the bot that sends it.
ReplyTo_Bot(u) == Insert(NewMessage(ServerUser, ReplyBody, FALSE, ServerUser, FALSE))

ReplyTo(u) ==
    Insert(NewMessage(ServerUser, ReplyBody, FALSE,
                      IF FilterReply = "public" THEN NoUser ELSE u, FALSE))

AddPost(w, d, whisper, whisperMods) ==
    LET u == work[w].user
        filtered == Trips(u, d)
    IN  /\ work[w].kind = "write"
        /\ whisper # NoUser \/ whisperMods => u \in Mods
        /\ filtered => SilentFilter
        /\ Insert(NewMessage(u, d, filtered, whisper, whisperMods))
        /\ IF filtered /\ FilterReply # "none"
             THEN Admit(w, "reply", u, NoMessage)
             ELSE Done(w)
        /\ UNCHANGED banned

\* insert_reply, after the transaction of a silently filtered post.
PostFilterReply(w) ==
    /\ work[w].kind = "reply"
    /\ ReplyTo(work[w].user)
    /\ Done(w)
    /\ UNCHANGED banned

\* A post that trips a filter that is not silent, or an edit that trips any
\* filter: the reply is posted and the post or edit itself is not made.
\* (An edit that trips a silent filter must be of a message that may be edited.)
RejectByFilter(w, d) ==
    LET u == work[w].user
    IN  /\ work[w].kind = "write"
        /\ Trips(u, d)
        /\ FilterReply # "none"
        /\ \/ ~SilentFilter
           \/ \E m \in Ids : messages[m].user = u /\ messages[m].data # NoData
        /\ ReplyTo(u)
        /\ Done(w)
        /\ UNCHANGED banned

\* Altered form: the message's data is not looked at.
EditPost_Deleted(w, m, d) ==
    /\ work[w].kind = "write"
    /\ m \in Ids
    /\ messages[m].user = work[w].user
    /\ messageSequence < MaxSequence
    /\ messageSequence' = messageSequence + 1
    /\ messages' = [messages EXCEPT ![m] = WithData(@, d, messageSequence + 1)]
    /\ Done(w)
    /\ UNCHANGED <<userReactions, banned>>

EditPost(w, m, d) ==
    LET u == work[w].user
        old == messages[m]
    IN  /\ work[w].kind = "write"
        /\ m \in Ids
        /\ old.data # NoData
        /\ old.user = u
        /\ ~Trips(u, d)
        /\ \/ /\ d # old.data
              /\ messageSequence < MaxSequence
              /\ messageSequence' = messageSequence + 1
              /\ messages' = [messages EXCEPT ![m] = WithData(old, d, messageSequence + 1)]
           \/ d = old.data /\ UNCHANGED <<messageSequence, messages>>
        /\ Done(w)
        /\ UNCHANGED <<userReactions, banned>>

-----------------------------------------------------------------------------
(* Deletions.                                                              *)

\* Altered form: one number for the whole statement.
DeleteMessages_OneNumber(doomed) ==
    LET top == messageSequence + 1
    IN  /\ top <= MaxSequence
        /\ messages' = [m \in Ids |-> IF m \in doomed THEN WithData(messages[m], NoData, top)
                                      ELSE messages[m]]
        /\ messageSequence' = top
        /\ userReactions' = {x \in userReactions : x[1] \notin doomed}

\* DELETE FROM message_details, of rows that still have data: for each row, in
\* an order SQL does not fix, its data becomes NULL (one number), then its
\* reactions are deleted (a number each).  `first` is the number each row's
\* data change gets: the rows' numbers do not overlap and end at the new counter.
DeleteMessages(doomed) ==
    LET gone == {x \in userReactions : x[1] \in doomed}
        count(m) == Cardinality(ReactionsOf(m))
        top == messageSequence + Cardinality(doomed) + Cardinality(gone)
    IN  /\ top <= MaxSequence
        /\ \E first \in [doomed -> (messageSequence + 1) .. top] :
             /\ \A m, n \in doomed : m # n =>
                  \/ first[m] + count(m) < first[n]
                  \/ first[n] + count(n) < first[m]
             /\ doomed # {} => \E last \in doomed : first[last] + count(last) = top
             /\ messages' =
                  [m \in Ids |->
                     IF m \notin doomed THEN messages[m]
                     ELSE IF count(m) = 0 THEN WithData(messages[m], NoData, first[m])
                     ELSE WithReactionAt(WithData(messages[m], NoData, first[m]),
                                         first[m] + count(m))]
        /\ messageSequence' = top
        /\ userReactions' = userReactions \ gone

\* Room.delete_posts: deleted and unknown ids are filtered out; a user that is
\* not a moderator deletes all of the rest or, if one is another's, none.
DeletePosts(w, ids) ==
    LET u == work[w].user
        doomed == {m \in ids : messages[m].data # NoData}
    IN  /\ work[w].kind = "write"
        /\ u \in Mods \/ \A m \in doomed : messages[m].user = u
        /\ DeleteMessages(doomed)
        /\ Done(w)
        /\ UNCHANGED banned

\* Room.delete_all_posts: no write permission is asked for, the rest of its
\* checks read the moderators only.
DeleteAllPosts(deleter, poster) ==
    /\ poster = deleter \/ deleter \in Mods
    /\ poster \in Admins => deleter \in Admins
    /\ DeleteMessages({m \in Ids : messages[m].user = poster /\ messages[m].data # NoData})
    /\ UNCHANGED <<banned, work>>

-----------------------------------------------------------------------------
(* Reactions.  The check was made before: the message may be deleted by now. *)

\* Altered form: the reaction is inserted past the trigger that numbers it.
AddReaction_Unstamped(w, r) ==
    /\ work[w].kind = "react"
    /\ userReactions' = userReactions \cup {<<work[w].message, r, work[w].user>>}
    /\ Done(w)
    /\ UNCHANGED <<messageSequence, messages, banned>>

AddReaction(w, r) ==
    LET m == work[w].message
        row == <<m, r, work[w].user>>
    IN  /\ work[w].kind = "react"
        /\ \/ /\ row \notin userReactions
              /\ messageSequence < MaxSequence
              /\ userReactions' = userReactions \cup {row}
              /\ messageSequence' = messageSequence + 1
              /\ messages' = [messages EXCEPT ![m] = WithReactionAt(@, messageSequence + 1)]
           \/ row \in userReactions /\ UNCHANGED <<userReactions, messageSequence, messages>>
        /\ Done(w)
        /\ UNCHANGED banned

\* Altered form: the reactions are gone before the trigger looks for their message.
RemoveReactions_Unstamped(m, gone) ==
    /\ messageSequence + Cardinality(gone) <= MaxSequence
    /\ userReactions' = userReactions \ gone
    /\ messageSequence' = messageSequence + Cardinality(gone)
    /\ UNCHANGED messages

\* reactions_delete_seqno and reactions_cleanup_empty, for a set of rows of m.
RemoveReactions(m, gone) ==
    LET top == messageSequence + Cardinality(gone)
    IN  /\ top <= MaxSequence
        /\ userReactions' = userReactions \ gone
        /\ messageSequence' = top
        /\ messages' = IF gone = {} THEN messages
                       ELSE [messages EXCEPT ![m] = WithReactionAt(@, top)]

DeleteReaction(w, r) ==
    LET m == work[w].message
    IN  /\ work[w].kind = "react"
        /\ RemoveReactions(m, {x \in ReactionsOf(m) : x[2] = r /\ x[3] = work[w].user})
        /\ Done(w)
        /\ UNCHANGED banned

\* Of one reaction string, or of all.
DeleteAllReactions(w, which) ==
    LET m == work[w].message
    IN  /\ work[w].kind = "react"
        /\ work[w].user \in Mods
        /\ RemoveReactions(m, {x \in ReactionsOf(m) : x[2] \in which})
        /\ Done(w)
        /\ UNCHANGED banned

-----------------------------------------------------------------------------
(* What else runs beside the requests.                                     *)

Ban(u) ==
    /\ u \notin Mods
    /\ banned' = banned \cup {u}
    /\ UNCHANGED <<logVars, work>>

Unban(u) ==
    /\ u \in banned
    /\ banned' = banned \ {u}
    /\ UNCHANGED <<logVars, work>>

-----------------------------------------------------------------------------

Init ==
    /\ messageSequence = 0
    /\ messages = << >>
    /\ userReactions = {}
    /\ banned = {}
    /\ work = [w \in Workers |-> Idle]

Request(w) ==
    \/ \E u \in Users : CheckWrite(w, u)
    \/ \E u \in Users, m \in Ids : CheckReaction(w, u, m)
    \/ Abandon(w)
    \/ \E d \in Data, whisper \in Users \cup {NoUser}, whisperMods \in BOOLEAN :
         AddPost(w, d, whisper, whisperMods)
    \/ PostFilterReply(w)
    \/ \E d \in Data : RejectByFilter(w, d)
    \/ \E m \in Ids, d \in Data : EditPost(w, m, d)
    \/ \E ids \in SUBSET Ids : DeletePosts(w, ids)
    \/ \E r \in Reactions : AddReaction(w, r)
    \/ \E r \in Reactions : DeleteReaction(w, r)
    \/ \E which \in {Reactions} \cup {{r} : r \in Reactions} : DeleteAllReactions(w, which)

Next ==
    \/ \E w \in Workers : Request(w)
    \/ \E deleter, poster \in Users : DeleteAllPosts(deleter, poster)
    \/ \E u \in Users : Ban(u)
    \/ \E u \in Users : Unban(u)

Spec == Init /\ [][Next]_vars

-----------------------------------------------------------------------------
(* Properties.                                                             *)

\* Every variable has its type: reactions are on messages there are.
TypeOK ==
    /\ messageSequence \in Nat
    /\ messages \in Seq(Message)
    /\ userReactions \subseteq Ids \X Reactions \X Users
    /\ banned \subseteq Users
    /\ work \in [Workers -> Admission]

\* The numbers of every row agree with each other and with the counter,
\* whatever the order in which the triggers ran.
NumbersFollowCounter ==
    \A m \in Ids :
        /\ messages[m].seqno = Larger(messages[m].seqnoData, messages[m].seqnoReactions)
        /\ 0 < messages[m].seqnoCreation
        /\ messages[m].seqnoCreation <= messages[m].seqnoData
        /\ messages[m].seqno <= messageSequence

\* The counter is the seqno of the message changed last ("current top
\* message.seqno value"): no number is spent without a message carrying it.
CounterIsTopSeqno ==
    IF messages = << >> THEN messageSequence = 0
    ELSE \E m \in Ids : messages[m].seqno = messageSequence

\* No two messages share a seqno: a client that asks for the rows above the
\* last seqno it saw misses none because of a tie.
SeqnosDistinct ==
    \A m, n \in Ids : m # n => messages[m].seqno # messages[n].seqno

\* A reaction is on a message of the room that is neither filtered nor a
\* whisper, also when the reaction's check is old by the time it is inserted.
ReactionsOnVisible ==
    \A x \in userReactions :
        /\ ~messages[x[1]].filtered
        /\ messages[x[1]].whisper = NoUser
        /\ ~messages[x[1]].whisperMods

\* A message with a reaction has had its reaction number stamped since it was
\* created: a poll from before the reaction returns it.
ReactionsAreStamped ==
    \A x \in userReactions :
        messages[x[1]].seqnoReactions > messages[x[1]].seqnoCreation

\* A deleted message stays deleted: no edit, however it interleaves with the
\* deletion, brings a body back.
TombstonesFinal ==
    [][\A m \in Ids : messages[m].data = NoData => messages'[m].data = NoData]_vars

\* The requests of u that have passed their check and not written yet.
Writing(u) == {w \in Workers : work[w].user = u /\ work[w].kind \in {"write", "react"}}

\* The step posts, edits or reacts in the name of u.
WritesAs(u) ==
    \/ \E m \in DOMAIN messages' \ Ids : messages'[m].user = u
    \/ \E m \in Ids : /\ messages[m].user = u
                      /\ messages'[m].data \notin {messages[m].data, NoData}
    \/ \E x \in userReactions' \ userReactions : x[3] = u

\* A ban ends all writing of its user but that of the requests already past their
\* check, once each: while banned, no more of them appear and a write uses one up.
BanHolds ==
    [][\A u \in banned :
         /\ Writing(u)' \subseteq Writing(u)
         /\ WritesAs(u) => Writing(u)' # Writing(u)]_vars

\* The requests that have passed their check to change the reactions of m.
Reacting(m) == {w \in Workers : work[w].kind = "react" /\ work[w].message = m}

\* A deletion takes the reactions of its message with it, and what it gets after
\* that is of requests checked before it, one each: no more of them appear, and
\* each new reaction uses one up.
LateReactionsHold ==
    [][\A m \in Ids :
         IF messages[m].data = NoData
         THEN /\ Reacting(m)' \subseteq Reacting(m)
              /\ ReactionsOf(m)' \subseteq ReactionsOf(m) \/ Reacting(m)' # Reacting(m)
         ELSE messages'[m].data = NoData => ReactionsOf(m)' = {}]_vars

\* What the log promises its readers: every change carries a new number.
Feed == INSTANCE ChangeFeed WITH
    clock <- messageSequence,
    feed <- [m \in Ids |-> [content |-> <<messages[m].data, ReactionsOf(m)>>,
                            stamp |-> messages[m].seqno]]
FeedSpec == Feed!Spec

\* What get_messages_for takes for granted of a deleted message ("we already
\* know they don't have reactions"); CheckReaction may be older than a deletion.
DeletedHaveNoReactions ==
    \A x \in userReactions : messages[x[1]].data # NoData

\* What edit_post says of its user: it "must *currently* have write permission".
EditorsMayWrite ==
    [][\A m \in Ids :
         messages'[m].data \notin {messages[m].data, NoData} =>
            messages[m].user \notin banned]_vars

=============================================================================
