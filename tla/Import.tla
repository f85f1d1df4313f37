-------------------------------- MODULE Import --------------------------------
(***************************************************************************)
(* The import of the rooms of a 0.1.x server, and the clients of that      *)
(* server, which go on polling by the ids they know (the legacy endpoint   *)
(* /compact_poll).  Message ids were per room and are now unique: a room   *)
(* gets an offset, and `room_import_hacks` tells which ids it applies to.  *)
(* Files keep their old ids in `file_id_hacks`.                            *)
(***************************************************************************)
EXTENDS Integers, Sequences, FiniteSets, FiniteSetsExt, SequencesExt

CONSTANTS
    Rooms,          \* the rooms of `main`, in their order
    OldIds,         \* old message ids
    OldFiles,       \* old file ids: random numbers that no new id comes near
    Limit,          \* messages, and deletions, per answer (256 in the code)
    MaxDeletions,   \* bound: rows of an old deleted_messages
    MaxRows,        \* bound: messages, deletions and files of all old rooms
    MaxChanges,     \* bound: changes in a room after its import
    MaxId,          \* bound: message ids of new posts
    MaxFile         \* bound: new file ids

ASSUME ImportAssumption ==
    /\ Rooms \in Seq(ToSet(Rooms)) /\ IsInjective(Rooms)
    /\ OldIds \subseteq Nat \ {0} /\ IsFiniteSet(OldIds)
    /\ Limit \in Nat \ {0}
    /\ MaxDeletions \in Nat /\ MaxRows \in Nat
    /\ MaxChanges \in Nat
    /\ MaxId \in Nat
    /\ MaxFile \in Nat
    /\ OldFiles \subseteq Nat /\ IsFiniteSet(OldFiles) /\ \A f \in OldFiles : f > MaxFile

VARIABLES
    postgres,   \* the database is PostgreSQL, not SQLite
    old,        \* per room, the messages, the log of deletions and the files of 0.1.x
    todo,       \* rooms yet to be imported
    messages,   \* id -> [room, old id (0: none), deleted, seqno]
    serial,     \* the sequence behind messages.id on PostgreSQL
    sequence,   \* per room, rooms.message_sequence
    roomHacks,  \* room_import_hacks: room -> [max, offset]
    files,      \* id -> [room, old id (0: none)]
    fileHacks,  \* file_id_hacks: <<room, old id>> -> file
    client      \* a client of one of the rooms

importVars ==
    <<postgres, old, todo, messages, serial, sequence, roomHacks, files, fileHacks, client>>

-----------------------------------------------------------------------------
(* The databases of 0.1.x, and what its clients hold.                      *)

RoomSet == ToSet(Rooms)
Top(S) == IF S = {} THEN 0 ELSE CHOOSE n \in S : \A i \in S : i <= n

\* A row of deleted_messages may have a duplicate; the deleted message remains.
OldRoom ==
    [messages : SUBSET OldIds, deletions : BoundedSeq(OldIds, MaxDeletions),
     files : SUBSET OldFiles]

Rows(o) == Cardinality(o.messages) + Len(o.deletions) + Cardinality(o.files)

Deletions(r) == ToSet(old[r].deletions)

ImportInit ==
    /\ postgres \in BOOLEAN
    /\ old \in {o \in [RoomSet -> OldRoom] :
                  /\ \A r \in RoomSet : ToSet(o[r].deletions) \subseteq o[r].messages
                  /\ MapThenSumSet(LAMBDA r : Rows(o[r]), RoomSet) <= MaxRows}
    /\ todo = Rooms
    /\ messages = << >>
    /\ serial = 0
    /\ sequence = [r \in RoomSet |-> 0]
    /\ roomHacks = << >>
    /\ files = << >>
    /\ fileHacks = << >>
    /\ \E r \in RoomSet : \E cursor \in {0} \cup old[r].messages,
                             heard \in 0 .. Len(old[r].deletions) :
         client = [room |-> r, after |-> cursor, since |-> heard,
                   sentBefore |-> {m \in old[r].messages : m <= cursor},
                   sent |-> {}, asked |-> {}, older |-> {}]

-----------------------------------------------------------------------------
(* import_from_0_1_x, one room.                                            *)

Extend(f, g) == [x \in DOMAIN f \cup DOMAIN g |-> IF x \in DOMAIN g THEN g[x] ELSE f[x]]

\* Altered form: the first room's ids are kept, and so are all others'.
Offset_None(r) == 0

\* The first message gets the id after the highest one there is.
Offset(r) ==
    LET first == CHOOSE m \in old[r].messages : \A n \in old[r].messages : m <= n
    IN  Top(DOMAIN messages) + 1 - (IF old[r].messages = {} THEN 0 ELSE first)

\* `seqno` counts the deleted messages, in the order of the messages.
ImportedSeqno(r, m) == Cardinality({d \in Deletions(r) : d <= m})

\* Altered form: duplicate deletions are not made up for.
ImportedSequence_Count(r) == Cardinality(Deletions(r))

\* Duplicate deletions had ids of their own, which clients have polled with.
ImportedSequence(r) ==
    LET count == Cardinality(Deletions(r))
    IN  IF count >= Len(old[r].deletions) THEN count ELSE Len(old[r].deletions)

ImportMessages(r) ==
    LET offset == Offset(r)
        imported == [id \in {m + offset : m \in old[r].messages} |->
            [room |-> r, old |-> id - offset, deleted |-> id - offset \in Deletions(r),
             seqno |-> ImportedSeqno(r, id - offset)]]
    IN  /\ messages' = Extend(messages, imported)
        /\ sequence' = [sequence EXCEPT ![r] = ImportedSequence(r)]
        /\ roomHacks' =
             IF offset = 0 THEN roomHacks
             ELSE Extend(roomHacks,
                    [x \in {r} |->
                        [max |-> IF old[r].messages = {} THEN -1 ELSE Top(old[r].messages),
                         offset |-> offset]])

\* Each file gets a new id; one that cannot be read is left out.
ImportFiles(r) ==
    \E readable \in SUBSET old[r].files :
        LET names == SetToSeq(readable)
            new == [id \in {Top(DOMAIN files) + i : i \in 1 .. Len(names)} |->
                      names[id - Top(DOMAIN files)]]
        IN  /\ Top(DOMAIN files) + Len(names) <= MaxFile
            /\ files' = Extend(files, [id \in DOMAIN new |-> [room |-> r, old |-> new[id]]])
            /\ fileHacks' = Extend(fileHacks,
                 [x \in {<<r, f>> : f \in readable} |->
                    CHOOSE id \in DOMAIN new : new[id] = x[2]])

\* A room without a database is skipped.
ImportRoom ==
    /\ todo # << >>
    /\ todo' = Tail(todo)
    /\ ImportMessages(Head(todo))
    /\ ImportFiles(Head(todo))
    /\ UNCHANGED <<postgres, old, serial, client>>

Up == todo = << >>

-----------------------------------------------------------------------------
(* The server after the import.                                            *)

\* An INSERT gets the highest id plus one (SQLite), or the next of the sequence
\* (PostgreSQL), which the import has not moved.
NextId == IF postgres THEN serial + 1 ELSE Top(DOMAIN messages) + 1

Post(r) ==
    /\ Up
    /\ NextId <= MaxId /\ sequence[r] < ImportedSequence(r) + MaxChanges
    /\ serial' = NextId
    /\ IF NextId \in DOMAIN messages
       THEN UNCHANGED <<messages, sequence>>
       ELSE /\ sequence' = [sequence EXCEPT ![r] = @ + 1]
            /\ messages' = Extend(messages,
                 [id \in {NextId} |->
                    [room |-> r, old |-> 0, deleted |-> FALSE, seqno |-> sequence[r] + 1]])
    /\ UNCHANGED <<postgres, old, todo, roomHacks, files, fileHacks, client>>

Delete(m) ==
    LET r == messages[m].room
    IN  /\ Up
        /\ ~messages[m].deleted
        /\ sequence[r] < ImportedSequence(r) + MaxChanges
        /\ sequence' = [sequence EXCEPT ![r] = @ + 1]
        /\ messages' = [messages EXCEPT ![m].deleted = TRUE, ![m].seqno = sequence[r] + 1]
        /\ UNCHANGED <<postgres, old, todo, serial, roomHacks, files, fileHacks, client>>

Upload(r) ==
    LET id == Top(DOMAIN files) + 1
    IN  /\ Up
        /\ id <= MaxFile
        /\ files' = Extend(files, [x \in {id} |-> [room |-> r, old |-> 0]])
        /\ UNCHANGED <<postgres, old, todo, messages, serial, sequence, roomHacks, fileHacks, client>>

\* Altered form: without ON DELETE CASCADE.
ExpireFile_KeepsHack(f) ==
    /\ Up
    /\ files' = [x \in DOMAIN files \ {f} |-> files[x]]
    /\ UNCHANGED <<postgres, old, todo, messages, serial, sequence, roomHacks, fileHacks, client>>

\* Pruned; ON DELETE CASCADE takes the row of file_id_hacks.
ExpireFile(f) ==
    /\ Up
    /\ files' = [x \in DOMAIN files \ {f} |-> files[x]]
    /\ fileHacks' = [x \in {y \in DOMAIN fileHacks : fileHacks[y] # f} |-> fileHacks[x]]
    /\ UNCHANGED <<postgres, old, todo, messages, serial, sequence, roomHacks, client>>

-----------------------------------------------------------------------------
(* /compact_poll: get_messages_for(after=...) and get_deletions_deprecated. *)

\* Altered form: the highest old id is not mapped.
After_Below(r, after) ==
    IF r \in DOMAIN roomHacks /\ after < roomHacks[r].max
    THEN after + roomHacks[r].offset ELSE after

\* An old id is mapped, and so is a new one that is no higher than the highest old id.
After(r, after) ==
    IF r \in DOMAIN roomHacks /\ after <= roomHacks[r].max
    THEN after + roomHacks[r].offset ELSE after

\* Without an id the most recent messages are sent.
Messages(r, after) ==
    LET visible == {m \in DOMAIN messages : messages[m].room = r /\ ~messages[m].deleted}
        newer == {m \in visible : m > After(r, after)}
    IN  IF after = 0
        THEN {m \in visible : Cardinality({n \in visible : n > m}) < Limit}
        ELSE {m \in newer : Cardinality({n \in newer : n < m}) < Limit}

\* Without a number the latest deletions are sent.
DeletionsSince(r, since) ==
    LET all == {m \in DOMAIN messages : messages[m].room = r /\ messages[m].deleted}
        newer == {m \in all : messages[m].seqno > since}
        Number(m) == messages[m].seqno
    IN  IF since = 0
        THEN {m \in all : Cardinality({n \in all : Number(n) > Number(m)}) < Limit}
        ELSE {m \in newer : Cardinality({n \in newer : Number(n) < Number(m)}) < Limit}

\* History: the ids it has asked from, and what was older than an answer with the most
\* recent messages.
CompactPoll ==
    LET r == client.room
        new == Messages(r, client.after)
        gone == DeletionsSince(r, client.since)
    IN  /\ Up
        /\ client' = [client EXCEPT
             !.after = IF new = {} THEN @ ELSE Top(new),
             !.since = Top({@} \cup {messages[m].seqno : m \in gone}),
             !.sent = @ \cup new,
             !.asked = @ \cup ({client.after} \ {0}),
             !.older = IF client.after = 0 /\ new # {}
                       THEN {m \in DOMAIN messages : \A n \in new : m < n} ELSE @]
        /\ UNCHANGED <<postgres, old, todo, messages, serial, sequence, roomHacks, files, fileHacks>>

\* Room.get_file: by its id, or else by its old id.
GetFile(r, id) ==
    IF id \in DOMAIN files /\ files[id].room = r THEN {id}
    ELSE {fileHacks[x] : x \in {<<r, id>>} \cap DOMAIN fileHacks}

-----------------------------------------------------------------------------

ImportNext ==
    \/ ImportRoom
    \/ \E r \in RoomSet : Post(r) \/ Upload(r)
    \/ \E m \in DOMAIN messages : Delete(m)
    \/ \E f \in DOMAIN files : ExpireFile(f)
    \/ CompactPoll

ImportSpec == ImportInit /\ [][ImportNext]_importVars

-----------------------------------------------------------------------------
(* Properties.                                                             *)

\* All messages of 0.1.x are there, in the order of their rooms and ids, and new
\* posts come after them: no id was given twice.
NothingOverwritten ==
    Up => \A r \in RoomSet : \A m \in old[r].messages :
            \E id \in DOMAIN messages : messages[id].room = r /\ messages[id].old = m

\* The last message that a client has got: one of the server, or of 0.1.x.
Reached ==
    IF client.after \in client.sent THEN client.after ELSE After(client.room, client.after)

\* An id of the new server that a client asked from was taken for an old one, and an
\* imported message is between it and what it was mapped to.
Skipped(m) ==
    /\ messages[m].old # 0
    /\ \E c \in client.asked \cap client.sent : c < m /\ m <= After(client.room, c)

\* A client that goes on polling by the ids it knows, over answers that may be cut, has
\* been sent all that is there up to the last message it has got, but for what was older
\* than an answer it asked for without an id, and for imported messages that were skipped
\* because a new id was mapped too (room.py: `if after <= max_old_id`); on PostgreSQL a
\* post may also get an id below. Nothing posted since the import is ever skipped.
OnlyRemappedMissed ==
    Up /\ client.after # 0 =>
        \A m \in DOMAIN messages :
            messages[m].room = client.room /\ ~messages[m].deleted /\ m <= Reached
              => \/ m \in client.sent \/ messages[m].old \in client.sentBefore
                 \/ m \in client.older
                 \/ Skipped(m)
                 \/ postgres /\ messages[m].old = 0

\* Without these exceptions, which does not hold: the mapping is meant for the old ids
\* of the messages alone ("old message id 3333 will have new message id", import_hacks.py),
\* and is applied to new ids that are as small.
LegacyMissesNothing ==
    Up /\ client.after # 0 =>
        \A m \in DOMAIN messages :
            messages[m].room = client.room /\ ~messages[m].deleted /\ m <= Reached
              => m \in client.sent \/ messages[m].old \in client.sentBefore

\* A deletion made after the import is above what a client asks its deletions
\* from, if it has not heard of it: "existing clients" fetch "deletion ids > X".
LaterDeletionsHeard ==
    [][\A m \in DOMAIN messages \cap DOMAIN messages' :
         ~messages[m].deleted /\ messages'[m].deleted /\ messages[m].room = client.room
           => messages'[m].seqno > client.since]_importVars

\* A file is found by its new id and, if it was imported, by its old one, until it
\* expires; an old id never finds a file of another room, nor a later upload that got
\* the id of the expired file (v_0_1_x: ON DELETE CASCADE; Room.get_file).
FilesFound ==
    Up => /\ \A f \in DOMAIN files :
               /\ GetFile(files[f].room, f) = {f}
               /\ files[f].old # 0 => GetFile(files[f].room, files[f].old) = {f}
          /\ \A r \in RoomSet, id \in OldFiles : \A f \in GetFile(r, id) :
               f \in DOMAIN files /\ files[f].room = r /\ files[f].old = id

\* "we can make [message_sequence] conform ... to the imported deletion ids"
\* (v_0_1_x): a client hears of the deletions of 0.1.x it had not heard of.
OldDeletionsHeard ==
    LET log == old[client.room].deletions
        heard == {log[i] : i \in (1 .. client.since) \cap DOMAIN log}
    IN  Up => \A m \in (Deletions(client.room) \cap client.sentBefore) \ heard :
            \E id \in DeletionsSince(client.room, client.since) : messages[id].old = m

=============================================================================
