-------------------------------- MODULE Files --------------------------------
(***************************************************************************)
(* The files of a room: rows of `files` and what is on disk, from upload   *)
(* to pruning; the messages and the room image that keep them; and what a  *)
(* client that polls the room's info knows of image and pins.              *)
(* The database is SQLite: a transaction is a step and excludes others; an *)
(* upload has several steps, for its file is written inside of its own.    *)
(***************************************************************************)
EXTENDS Naturals

CONSTANTS
    Users,
    Messages,
    None,       \* NULL
    Never,      \* the expiry (NULL) of a file that is kept
    Recent,     \* how long an upload waits for its post
    Default,    \* UPLOAD_DEFAULT_EXPIRY
    MaxTime,    \* bound: the clock, which starts at 1
    MaxFiles    \* bound: uploads

ASSUME FilesAssumption ==
    /\ None \notin Users \cup Messages \cup Nat
    /\ Never \notin Nat
    /\ Recent \in Nat \ {0} /\ Default \in Nat /\ Recent <= Default
    /\ MaxTime \in Nat /\ MaxFiles \in Nat

VARIABLES
    files,      \* the rows, by id
    disk,       \* the files there are, by the id in their names
    uploads,    \* how many there have been
    upload,     \* the upload whose transaction is open, or None
    unlinking,  \* what the mule's prune_files has yet to unlink
    poster,     \* of each message, None before it is posted
    deleted,    \* the messages deleted
    pinned,     \* pinned_messages
    image,      \* rooms.image
    wasImage,   \* history: files that were replaced as the image
    images,     \* history: ids that have been the image's
    reused,     \* history: ids that were given again before the file was unlinked
    client,     \* what a client knows: image, pins, and whether info_updates is still the same
    load,       \* a poll in progress, the same of what it has loaded; or None
    now

history == <<wasImage, images, reused>>
tables == <<files, uploads, poster, deleted, pinned, image, history>>
filesVars == <<tables, disk, upload, unlinking, client, load, now>>

FileIds == 1..MaxFiles
Row == [uploader : Users, message : Messages \cup {None},
        uploaded : Nat, expiry : Nat \cup {Never}]
Info == [image : FileIds \cup {None}, pins : SUBSET Messages, same : BOOLEAN]

FilesInit ==
    /\ files = <<>>
    /\ disk = {}
    /\ uploads = 0
    /\ upload = None
    /\ unlinking = {}
    /\ poster = [m \in Messages |-> None]
    /\ deleted = {}
    /\ pinned = {}
    /\ image = None
    /\ wasImage = {} /\ images = {} /\ reused = {}
    /\ client = [image |-> None, pins |-> {}, same |-> TRUE]
    /\ load = None
    /\ now = 1

-----------------------------------------------------------------------------
(* Tables and triggers.                                                    *)

Live == {m \in Messages : poster[m] # None} \ deleted
Of(M) == {f \in DOMAIN files : files[f].message \in M}

\* Every transaction is BEGIN IMMEDIATE: none starts while an upload's is open.
MayWrite == upload = None

Expiring(F, when(_)) ==
    [f \in DOMAIN files |-> IF f \in F THEN [files[f] EXCEPT !.expiry = when(f)] ELSE files[f]]

\* File.reset_expiries, and the trigger on the removal of a pin.
SinceUpload(f) == files[f].uploaded + Default
Kept(f) == Never
AtOnce(f) == 0

\* info_updates + 1: it is no longer what the client, or a poll, has seen.
InfoUpdated ==
    /\ client' = [client EXCEPT !.same = FALSE]
    /\ load' = IF load = None THEN None ELSE [load EXCEPT !.same = FALSE]

InfoUpdatedIf(changed) == IF changed THEN InfoUpdated ELSE UNCHANGED <<client, load>>

\* Altered form: a file keeps the hour it got.
Owned_Hour(F, m, u) ==
    [f \in DOMAIN files |->
        IF f \in F /\ files[f].uploader = u THEN [files[f] EXCEPT !.message = m] ELSE files[f]]

\* _own_files
Owned(F, m, u) ==
    [f \in DOMAIN files |->
        IF /\ f \in F
           /\ files[f].uploader = u
           /\ files[f].message = None
           /\ files[f].uploaded + Recent >= now
           /\ files[f].expiry # Never
        THEN [files[f] EXCEPT !.message = m, !.expiry = now + Default]
        ELSE files[f]]

\* An INTEGER PRIMARY KEY is one more than the largest there is: ids are used again.
IsNext(id) ==
    /\ \A f \in DOMAIN files : f < id
    /\ id = 1 \/ id - 1 \in DOMAIN files

-----------------------------------------------------------------------------
(* Uploads.                                                                *)

\* Room.upload_file, up to the end of the transaction: the file is written.  No upload
\* has a name, so that the path is that of an earlier file with the same id.
BeginUpload(u, id) ==
    /\ upload = None
    /\ uploads < MaxFiles
    /\ IsNext(id)
    /\ upload' = [id |-> id, uploader |-> u]
    /\ uploads' = uploads + 1
    /\ disk' = disk \cup {id}
    /\ reused' = IF id \in unlinking THEN reused \cup {id} ELSE reused \ {id}
    /\ UNCHANGED <<files, poster, deleted, pinned, image, wasImage, images, unlinking, client, load, now>>

CommitUpload ==
    /\ upload # None
    /\ files' = [f \in DOMAIN files \cup {upload.id} |->
         IF f = upload.id
         THEN [uploader |-> upload.uploader, message |-> None,
               uploaded |-> now, expiry |-> now + Recent]
         ELSE files[f]]
    /\ upload' = None
    /\ wasImage' = wasImage \ {upload.id}
    /\ UNCHANGED <<uploads, poster, deleted, pinned, image, images, reused, disk, unlinking, client, load, now>>

\* Altered form: the file is unlinked, the row is not rolled back.
FailUpload_KeepsRow ==
    /\ upload # None
    /\ files' = [f \in DOMAIN files \cup {upload.id} |->
         IF f = upload.id
         THEN [uploader |-> upload.uploader, message |-> None,
               uploaded |-> now, expiry |-> now + Recent]
         ELSE files[f]]
    /\ disk' = disk \ {upload.id}
    /\ upload' = None
    /\ UNCHANGED <<uploads, poster, deleted, pinned, image, history, unlinking, client, load, now>>

\* Writing or committing failed: the row is rolled back, the file unlinked.
FailUpload ==
    /\ upload # None
    /\ disk' = disk \ {upload.id}
    /\ upload' = None
    /\ UNCHANGED <<tables, unlinking, client, load, now>>

\* The server stops: files of an open upload and of rows just pruned remain.
Restart ==
    /\ upload # None \/ unlinking # {} \/ load # None
    /\ upload' = None
    /\ unlinking' = {}
    /\ load' = None
    /\ UNCHANGED <<tables, disk, client, now>>

-----------------------------------------------------------------------------
(* Messages and pins.                                                      *)

AddPost(u, m, F) ==
    /\ MayWrite
    /\ poster[m] = None
    /\ poster' = [poster EXCEPT ![m] = u]
    /\ files' = Owned(F, m, u)
    /\ UNCHANGED <<uploads, deleted, pinned, image, history, disk, upload, unlinking, client, load, now>>

\* Only the author edits, with new files.
EditPost(m, F) ==
    /\ MayWrite
    /\ m \in Live
    /\ files' = Owned(F, m, poster[m])
    /\ files' # files
    /\ UNCHANGED <<uploads, poster, deleted, pinned, image, history, disk, upload, unlinking, client, load, now>>

\* Altered form: pinned messages stay pinned.
DeletePost_StaysPinned(m) ==
    /\ MayWrite
    /\ m \in Live
    /\ deleted' = deleted \cup {m}
    /\ files' = Expiring(Of({m}), AtOnce)
    /\ UNCHANGED <<uploads, poster, pinned, image, history, disk, upload, unlinking, client, load, now>>

\* delete_posts; messages_after_delete unpins the message and expires its files.
DeletePost(m) ==
    /\ MayWrite
    /\ m \in Live
    /\ deleted' = deleted \cup {m}
    /\ pinned' = pinned \ {m}
    /\ files' = Expiring(Of({m}), AtOnce)
    /\ InfoUpdatedIf(m \in pinned)
    /\ UNCHANGED <<uploads, poster, image, history, disk, upload, unlinking, now>>

\* delete_all_posts.  `image.uploader == poster.id` compares a user with a number:
\* the image is not spared.
DeleteAllPosts(u) ==
    /\ MayWrite
    /\ LET M == {m \in Live : poster[m] = u}
       IN  /\ deleted' = deleted \cup M
           /\ pinned' = pinned \ M
           /\ files' = Expiring({f \in DOMAIN files : files[f].uploader = u} \cup Of(M), AtOnce)
           /\ InfoUpdatedIf(M \cap pinned # {})
    /\ UNCHANGED <<uploads, poster, image, history, disk, upload, unlinking, now>>

\* Pinned again, a message gets a new time and admin.
Pin(m) ==
    /\ MayWrite
    /\ m \in Live
    /\ pinned' = pinned \cup {m}
    /\ files' = Expiring(Of({m}), Kept)
    /\ InfoUpdated
    /\ UNCHANGED <<uploads, poster, deleted, image, history, disk, upload, unlinking, now>>

\* Altered form: the files of the message are left as they are.
Unpin_FilesKept(m) ==
    /\ MayWrite
    /\ pinned' = pinned \ {m}
    /\ InfoUpdatedIf(m \in pinned)
    /\ UNCHANGED <<files, uploads, poster, deleted, image, history, disk, upload, unlinking, now>>

\* The files of the message expire by their age, even if it was not pinned.
Unpin(m) ==
    /\ MayWrite
    /\ pinned' = pinned \ {m}
    /\ files' = Expiring(Of({m}), SinceUpload)
    /\ InfoUpdatedIf(m \in pinned)
    /\ UNCHANGED <<uploads, poster, deleted, image, history, disk, upload, unlinking, now>>

UnpinAll ==
    /\ MayWrite
    /\ pinned # {}
    /\ pinned' = {}
    /\ files' = Expiring(Of(pinned), SinceUpload)
    /\ InfoUpdated
    /\ UNCHANGED <<uploads, poster, deleted, image, history, disk, upload, unlinking, now>>

-----------------------------------------------------------------------------
(* The room image.                                                         *)

\* `seen` is the image the room had when the request loaded it, before the transaction.
\* The setter keeps the new image, then gives `seen` the default expiry, even if it is
\* the same; the trigger expires at once the image there is, unless it stays.
SetImage(f, seen) ==
    /\ MayWrite
    /\ f \in DOMAIN files
    /\ seen \in images \cup {None}
    /\ image' = f
    /\ images' = images \cup {f}
    /\ files' = [g \in DOMAIN files |->
         IF g = image /\ g # f THEN [files[g] EXCEPT !.expiry = 0]
         ELSE IF g = seen THEN [files[g] EXCEPT !.expiry = now + Default]
         ELSE IF g = f THEN [files[g] EXCEPT !.expiry = Never]
         ELSE files[g]]
    /\ wasImage' = wasImage \cup ({image} \ {f, None})
    /\ InfoUpdatedIf(image # f)
    /\ UNCHANGED <<uploads, poster, deleted, pinned, reused, disk, upload, unlinking, now>>

-----------------------------------------------------------------------------
(* The mule.                                                               *)

Expired(f) == files[f].expiry # Never /\ files[f].expiry < now

\* Altered form: files of messages are left to their messages.
PruneFiles_Unattached ==
    /\ MayWrite
    /\ unlinking = {}
    /\ LET F == {f \in DOMAIN files : Expired(f) /\ files[f].message = None}
       IN  /\ F # {}
           /\ files' = [f \in DOMAIN files \ F |-> files[f]]
           /\ unlinking' = F
           /\ image' = IF image \in F THEN None ELSE image
           /\ InfoUpdatedIf(image \in F)
    /\ UNCHANGED <<uploads, poster, deleted, pinned, history, disk, upload, now>>

\* The rows go first; a room whose image goes is left with none.
PruneFiles ==
    /\ MayWrite
    /\ unlinking = {}
    /\ LET F == {f \in DOMAIN files : Expired(f)}
       IN  /\ F # {}
           /\ files' = [f \in DOMAIN files \ F |-> files[f]]
           /\ unlinking' = F
           /\ image' = IF image \in F THEN None ELSE image
           /\ InfoUpdatedIf(image \in F)
    /\ UNCHANGED <<uploads, poster, deleted, pinned, history, disk, upload, now>>

Unlink(f) ==
    /\ f \in unlinking
    /\ disk' = disk \ {f}
    /\ unlinking' = unlinking \ {f}
    /\ UNCHANGED <<tables, upload, client, load, now>>

TickTime ==
    /\ now < MaxTime
    /\ now' = now + 1
    /\ UNCHANGED <<tables, disk, upload, unlinking, client, load>>

-----------------------------------------------------------------------------
(* GET /room/R/pollInfo/N: if info_updates is not N, the details.          *)

\* The room is loaded with its image; the pins are read when they are asked for.
LoadRoom ==
    /\ load = None
    /\ ~client.same
    /\ load' = [image |-> image, pins |-> {}, same |-> TRUE]
    /\ UNCHANGED <<tables, disk, upload, unlinking, client, now>>

\* Altered form: the counter is as it is after the pins are read.
AnswerPoll_CounterLast ==
    /\ load # None
    /\ client' = [load EXCEPT !.pins = pinned, !.same = TRUE]
    /\ load' = None
    /\ UNCHANGED <<tables, disk, upload, unlinking, now>>

AnswerPoll ==
    /\ load # None
    /\ client' = [load EXCEPT !.pins = pinned]
    /\ load' = None
    /\ UNCHANGED <<tables, disk, upload, unlinking, now>>

-----------------------------------------------------------------------------

Mule == PruneFiles \/ \E f \in FileIds : Unlink(f)

FilesNext ==
    \/ \E u \in Users, id \in FileIds : BeginUpload(u, id)
    \/ \E u \in Users : DeleteAllPosts(u)
    \/ CommitUpload
    \/ FailUpload
    \/ Restart
    \/ \E u \in Users, m \in Messages, F \in SUBSET DOMAIN files : AddPost(u, m, F)
    \/ \E m \in Messages, F \in SUBSET DOMAIN files : EditPost(m, F)
    \/ \E m \in Messages : DeletePost(m) \/ Pin(m) \/ Unpin(m)
    \/ UnpinAll
    \/ \E f \in FileIds, seen \in FileIds \cup {None} : SetImage(f, seen)
    \/ Mule
    \/ TickTime
    \/ LoadRoom
    \/ AnswerPoll

FilesSpec == FilesInit /\ [][FilesNext]_filesVars

\* The clock, the timer of the mule, and a transaction that ends.
FilesFairness ==
    /\ WF_filesVars(TickTime)
    /\ WF_filesVars(Mule)
    /\ WF_filesVars(CommitUpload \/ FailUpload)

FairFilesSpec == FilesSpec /\ FilesFairness

-----------------------------------------------------------------------------
(* Properties.                                                             *)

\* Types; and what is attached belongs to a message of its uploader.
FilesTypeOK ==
    /\ DOMAIN files \subseteq FileIds
    /\ \A f \in DOMAIN files :
         /\ files[f] \in Row
         /\ files[f].message # None => poster[files[f].message] = files[f].uploader
    /\ disk \subseteq FileIds
    /\ unlinking \subseteq FileIds
    /\ poster \in [Messages -> Users \cup {None}]
    /\ pinned \subseteq Live
    /\ image \in DOMAIN files \cup {None}
    /\ client \in Info
    /\ load \in Info \cup {None}
    /\ now \in Nat

\* A row's file can be read, whatever uploads fail and whenever the server stops between
\* the steps of an upload or of the mule (Room.upload_file, prune_files): lost are only
\* files whose id was given again between the mule's DELETE and its unlink.
OnlyReusedLost == DOMAIN files \ disk \subseteq reused

\* Nothing is kept for ever but the room image and the files of pinned messages,
\* however images and pins were changed.
KeptForAReason ==
    \A f \in DOMAIN files :
        files[f].expiry = Never => f = image \/ files[f].message \in pinned

\* A file of a message that is still there is pruned no earlier than the default expiry
\* after its upload, whatever was pinned, unpinned and edited; files that were replaced
\* as the room image may go.
AttachmentsLast ==
    [][\A f \in DOMAIN files \ DOMAIN files' :
          files[f].message \in Live /\ f \notin wasImage => files[f].uploaded + Default < now]_filesVars

\* A client for which info_updates has not changed knows image and pins as they are,
\* however its polls interleave with writers.
InfoCurrent ==
    client.same => client.image = image /\ client.pins = pinned

\* What is set to expire is removed, or its expiry is lifted.
ExpiredGo ==
    \A f \in FileIds :
        LET Going == f \in DOMAIN files /\ files[f].expiry # Never /\ files[f].expiry < MaxTime
        IN  Going ~> ~Going

\* room.py, upload_file: a file is cleaned up only with its row.  The code gives an id
\* again that the mule is about to unlink.
RowsHaveFiles == DOMAIN files \subseteq disk

\* Says Room.image: the file it is set to "will be updated to non-expiring".
ImageStays == image # None => files[image].expiry = Never

=============================================================================
