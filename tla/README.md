# Verification of session-pysogs

`sogs` is a Session community server ("SOGS"): rooms of messages behind an HTTP
API, written in Python over SQLite or PostgreSQL. This directory holds TLA+
models of it, the TLC configurations that check them on small instances and
proofs, checked by TLAPS, of what holds for every instance.

1. [The system](#the-system) - the inventory: components, state, interactions, hazards
2. [The modules](#the-modules) - what models what
3. [The runs](#the-runs) - what TLC checks, the bounds, the fairness
4. [Claims that do not hold](#claims-that-do-not-hold)
5. [The proofs](#the-proofs)
6. [What the models leave out](#what-the-models-leave-out)
7. [Plan](#plan)

## The system

### Processes

Requests run in uwsgi workers (processes, each one request at a time, each with
its own database connection); a *mule* process runs the periodic clean-up every
10 s and what workers ask of it over oxenmq. All state that matters is in the
database, and in the files on disk. `db.transaction()` (`db.py:59`) is `BEGIN IMMEDIATE` on SQLite, so
transactions exclude each other; outside one, every statement is its own
transaction. On PostgreSQL transactions are READ COMMITTED. A request
typically reads (permissions, the row it is about) *before* its transaction and
writes in it: the interleavings that matter are those between the check and the
write, between two queries of one read, and between the requests of a worker and
the clean-up of the mule. Any process may stop at any time; the command-line tool
is one more process that starts, migrates the database and writes to it.

### Components

| Component | State | Operations | Correct when |
|---|---|---|---|
| **Message log** `model/room.py:952-1244`, `schema.sqlite:32-99,269-281` | `messages` with four sequence numbers per row, `rooms.message_sequence`, `message_history` | post, edit, delete, delete all of a user, the filter's reply | every change gets a number of its own, above all before; a deletion is final; who is banned writes nothing |
| **Reactions** `room.py:1268-1506`, `schema.sqlite:186-258` | `reactions`, `user_reactions` | add, delete, delete all, list reactors | only on messages all may see; every change numbered |
| **Polling** `room.py:553-736`, `routes/messages.py` | none on the server; a client's `since` | since, before, recent, single | a client that continues from the last number misses nothing |
| **Roles and bans** `room.py:429-534,1563-1742`, `user.py:224-330`, `schema.sqlite:284-345`, `cleanup.py:146-171` | `user_permission_overrides`, global moderators and bans in `users`, `user_ban_futures`; the views that combine them | set/remove moderator, ban, unban (for a time), apply those that are due | a ban lasts until it is lifted or runs out; moderators are never banned; admins are moderators |
| **Scheduled permissions** `room.py:1744-1905`, `cleanup.py:112-145`, `routes/rooms.py` | the overrides, `user_permission_futures` | set, clear, schedule, change a default, apply | each change takes effect at its time, on top of those before |
| **Blinding** `user.py:63-178,339-407`, `db.py:200-233`, `crypto.py` | `users.session_id`, `needs_blinding` | import of an unblinded user's roles, bans and schedule when the blinded id first appears | roles and bans follow the user exactly once |
| **Files** `model/file.py`, `room.py:271-345,922-950,1907-2121`, `cleanup.py:32-66`, `schema.sqlite:103-145` | `files` (room, message, path, expiry), files on disk, `pinned_messages`, `rooms.image` | upload, attach to a message, pin/unpin, room image, prune | a file that is referred to by a live message, a pin or a room is not pruned; one that is not, is |
| **Direct messages** `model/message.py`, `routes/dm.py` | `inbox` | send, inbox since, outbox since, delete all, expire | a recipient that polls sees every message that has not expired |
| **Request authentication** `routes/auth.py`, `cleanup.py:108` | `user_request_nonces` | verify a signed request, remember its nonce, forget old nonces | no signed request is run twice |
| **Rooms and their info** `room.py:83-410`, `routes/rooms.py`, `schema.sqlite:347-409` | `rooms` and `info_updates` | create, delete, set name, description, image, defaults; poll for changed info | a poller of the info sees every change of it |
| **Activity** `user.py:192-222`, `cleanup.py:88-105` | `room_users`, `rooms.active_users`, `users.last_active` | touch, prune | counts follow the rows |
| **Batches** `routes/general.py`, `routes/subrequest.py` | none | `/batch` runs all of its requests, `/sequence` stops at the first that fails | order and results |
| **Onion requests** `routes/onion_request.py`, `crypto.py`, `omq.py` | none | unwrap, run as a sub-request or pass on, wrap the answer | - |
| **Legacy API** `routes/legacy.py` | none of its own | the old endpoints, over the operations above; `/compact_poll` by message id | an old client that goes on polling misses nothing |
| **Administration** `__main__.py` | - | the same operations from the command line | - |
| **Schema and migrations** `db.py:111-333`, `migrations/`, `schema.*` | the schema | create or upgrade at start | whatever version it starts from and whoever else starts, a server that is up has the current schema and its rows |
| **Import of a 0.1.x server** `migrations/v_0_1_x.py` | `room_import_hacks`, `file_id_hacks` | copy the old databases, shift ids | no id is given twice; old ids go on working |
| **Text filter** `room.py:738-920` | configuration | per room or global: profanity and alphabets, silent or not, reply or not | the settings of a room win over the global ones |

Interactions: a post attaches *files* (`_own_files`), a deletion expires them (a
trigger); a *ban* deletes the user's activity and future permissions; granting a
role asks *blinding* to remember the user if only its unblinded id is known; the
*filter* posts into the *message log* as a server user; *polling* reads the log
and the *reactions* without a transaction, and room info with its counter; the *clean-up* prunes files,
activity, direct messages and nonces and applies due *permissions*, each in a step
of its own; a *batch* runs its parts with the user that was authenticated once.

What is hard to test here is listed, at the line where it bites, as `hazards` in
`PROJECT.json`, with the properties that would catch it.

## The modules

| Module | Models | From |
|---|---|---|
| `MessageLog` | the rows of one room, their sequence numbers, its reactions, and workers whose checks precede their transactions | `room.py`, `schema.sqlite` |
| `ChangeFeed` | the abstract specification: what the log promises who polls it | - |
| `Polling` (extends `MessageLog`) | clients that follow the room with `messages/since` | `room.py:553-736`, `routes/messages.py:16-97` |
| `Roles` | moderators, admins and bans of a room and of the server, scheduled unbans, the requests of several workers, of the legacy endpoints too, and the mule | `room.py:429-513,1563-1742`, `user.py:224-330`, `routes/users.py`, `routes/legacy.py`, `cleanup.py:146-171` |
| `Schedules` | defaults, overrides and scheduled changes of permissions | `room.py:1744-1905`, `cleanup.py:112-145` |
| `Timetable` | the abstract specification: what scheduling promises | - |
| `Blinding` (an instance of `Schedules` for ids) | two ids per person, logins, decisions by moderators who name either, the import | `user.py:63-178,339-407`, `db.py:200-233` |
| `Files` | rows and disk, uploads, attachments, pins, the room image, pruning, a client that polls the room info | `room.py`, `model/file.py`, `cleanup.py:32-66`, the triggers |
| `Requests` | signed requests on an unreliable network, nonces, batches and sequences, the inbox | `routes/auth.py`, `routes/general.py`, `routes/subrequest.py`, `routes/dm.py`, `model/message.py` |
| `Migrations` | processes that create, import and migrate a database | `db.py:111-333`, `migrations/` |
| `Import` | the import of 0.1.x rooms, and an old client afterwards | `migrations/v_0_1_x.py`, `routes/legacy.py`, `room.py:2302-2322` |
| `MessageLogProofs`, `PollingProofs`, `RolesProofs`, `SchedulesProofs`, `BlindingProofs`, `FilesProofs`, `RequestsProofs`, `UpgradeProofs` (migrations and import) | the theorems | - |
| `MC*` | the instances TLC checks | - |

`X_Y` next to a definition `X` is an altered form of it, with a plausible mistake:
no specification uses it; put in the place of `X` it breaks a property.

### MessageLog

`messages` is the table's rows of the room in the order of their ids; a row keeps
the columns that anything reads back: poster, body (`NoData` for a deleted one),
the four numbers, `filtered` and the two whisper columns. `messageSequence` is
`rooms.message_sequence`. `userReactions` is the view `message_reactions`: a row
per message, reaction string and user. `work[w]` is the request of worker `w`
between its checks and its transaction. The triggers are part of the operation
whose statement fires them: `NewMessage` is the row `messages_insert_counter` and
`messages_seqno_updater_ins` leave behind, `WithData` what
`messages_insert_history` and `messages_seqno_updater_upd` do to a row whose body
changes, `WithReactionAt` what the two triggers of `user_reactions` do, and
`DeleteMessages` what `message_details_deleter` does to all rows of a statement,
in whichever order the database visits them.

An operation is one action when it is one transaction, and two when something can
come between: `CheckWrite` and `CheckReaction` are what a request reads
before `db.transaction()`, `AddPost`, `EditPost`, `DeletePosts`, `AddReaction`,
`DeleteReaction` and `DeleteAllReactions` are its transaction. `AddPost` of a body
that a silent filter trips on leaves the worker owing the filter's reply, which
`should_filter` hands to `add_post` as a callback and which is a transaction of its
own (`PostFilterReply`). `DeleteAllPosts` reads only who moderates, which is fixed
here, so it is one action. `Abandon` is every way in which a request ends without
an effect: an error, a lock timeout, the death of its worker.

### Polling

A client keeps `since`, the highest seqno it received, `copy`, the body it holds of
each message, and `seenReactions`; `way` is how it asks: with reactions or without,
and how many rows at a time. The server answers in two steps, as the code
does: `FetchRows` is the query for the message rows (`Updates`: the clauses on
deletion, seqno and whispers; `Page`: the order and the limit; `IsFullRow`: the
test that cuts a row down to its reactions), `Deliver` is `get_reactions` and the
arrival of the answer. `LoseAnswer` loses it.

### Roles

`room[u]` and `server[u]` are the columns `moderator`, `admin` and `banned` of
`user_permission_overrides` and of `users`; a CHECK of both tables is the guard
`Admissible`: a statement that breaks it fails and its request with it.
`roomUnban[u]` and `serverUnban[u]` are the rows of `user_ban_futures`: each ban
deletes those before it, and only unbans are ever scheduled, so there is one at
most. `session[w]` is what worker `w` knows: `g.user` and its server-wide roles,
read by `Authenticate` and kept for all parts of a batch, and those of the user the request is
about, read by `LoadTarget`. Roles in the *room* are asked through the view
`user_permissions` inside the transaction (`RoomAdmin`, `RoomModerator`), so
`RoomBan` looks at both. The legacy endpoints differ: `LegacyAuthenticate` is
`legacy_check_user_room`, which asks the room before anything else, and the object of the room
then answers from what it read (`_perm_cache`); `ActsAsAdmin` and `ActsAsModerator` are the two ways
to be asked. It asks for a role in the room and for no more: a moderator who is banned from the server is let in.
Each operation is one action but `User.unban`, whose two
statements are in no transaction (`ServerUnban`, `ServerUnbanForget`).
`ApplyDueUnbans` is the ban half of `apply_permission_updates`. `Unban(timeout)` is what a ban
schedules: nothing for a timeout of zero, and a moment that is past for a negative one. `roomSentence` and
`serverSentence` are history variables: until when the last ban was to be, `Zero` for that of a timeout of zero;
`wasAdmin` is another: that the user of a legacy request was an admin at some moment since it was let in.
`users.py` also asks for permission in all the rooms of a request before its transaction
(`get_rooms_with_permission`); that only refuses more, and is asked again in the transaction.

### Schedules, and the Timetable it implements

`override[u][p]` is a column of `user_permission_overrides`, `Unset` for NULL;
`futures` are the rows of `user_permission_futures`, each of which may set several
permissions. `SetPermissions` is `Room.set_permissions` with the
`clear_future_permissions` that a request asks for by `unschedule`; what that leaves of a row is `Cleared`.
`ApplyFutures` is the first statement of `apply_permission_updates` and its DELETE:
*all* due rows of a user are computed from the override as it was before
(`AppliedTo`), a value equal to the default becomes NULL, and only the last row of a
user remains (SQLite), or the statement fails as soon as a user has two (PostgreSQL): `database` is which
it is. The mule runs as it comes, so any number of rows may be due at once. `Timetable` takes single
entries - a user, a permission, a
time - and says that each takes effect on top of those before it; `Entries` takes the rows apart. For a user with
several due rows (`crowded`) it allows what the code can still promise: a change may be lost, but none
takes effect over a later one.

### Blinding

A person has the ids `Plain(p)` and `Blinded(p)`. `LogIn` finds no row for the blinded
id; then `ImportBlinded` is the transaction of `User._import_blinded`, or
`CreateUser` the INSERT when nothing is to be imported. `LoadTarget` is how a
moderator's request finds whom it names, and what it decides, in
`DecideRoomRole`, `DecideServerRole`, `DropServerRole` or `DecidePermissions`, comes in a
step after it, around which `check_blinding` adds to `needs_blinding`. `Start` is
`check_needs_blinding`, run at every start. The schedule of permissions is
an instance of `Schedules`: `Mule` applies it, to whichever id it was made for.

### Files

An upload is three steps: `BeginUpload` has inserted the row in an open transaction
and written the file; `CommitUpload` commits, `FailUpload` rolls back and unlinks.
On SQLite nobody else writes meanwhile (`MayWrite`). `PruneFiles` removes the rows
that have expired and leaves their files to `Unlink`, one by one. `Restart` may
come between any of these. `Owned` is `_own_files`: a file is attached only if its
uploader posts, within `Recent`, and it is not kept for ever. The triggers that
expire files when a message is deleted, a pin goes, or a message is edited are
part of the actions. `SetImage` sets a room image among files that may have been replaced since the
request looked (`seen`). `client` and `load` are a client of `pollInfo`: `LoadRoom` is
the query for the room, with `info_updates`, and `AnswerPoll` the one for its pins.
Their field `same` says that the counter has not changed since, in place of a number.
`IsNext` is an SQLite primary key without AUTOINCREMENT: ids are given again, also while the mule still has
to unlink the file of the old row. No upload here has a name, so that the path of a file is its id; with different names
the paths would differ, and less could go wrong. `reused` is a history variable, the ids given again
in that window.

### Requests

`sent` are requests signed so far: any may arrive at any time and any number of
times, which is all a network can do. `Authenticate` is `handle_http_auth`:
the timestamp, the ban, and the nonce, which is committed before the handler
runs. `RunSubrequest` runs one part of a batch or sequence, a transaction of its
own; `Advance` is the end of a sequence at its first answer that is not a success, which the 304 of a poll that
finds nothing (`NotModified`) is not either. `runs[r]` is a history variable: when request `r` was let in, each time, and
what its parts came to. A client's clock may be ahead by `Ahead`. `Answer` reaches
the client only if it still waits for it. `Cleanup` expires direct messages and -
if no step between them fails - nonces. `Restart` ends what workers are about:
their requests are not run to the end, nor again. `NextMessageId` is an SQLite
primary key without AUTOINCREMENT: an id is used again when the newest message
has gone.

### Migrations

A schema is the set of objects that tell versions apart, with a name for each form
of an object that changed. `Migrations(k)` is what each migration does given
what the process knows (`k`): `needed`, what it `requires`, `drops`, `adds` and
what rows it `loses`. `Advance` goes to the next step; only after a change of its
own does a process reflect the schema anew. `Start` has the four ways the code
starts a database; `CreateSchema`, `ImportOld` and `CommitImport` come before the
migrations, each of which is a transaction (`Apply`, `Skip` or `Refuse`).
`OldSchema` builds the databases that older versions may have left, and the form with `seqno_data` and
without `user_reactions` that `reactions.py:17` looks for. `redone` is a history variable: that tables of
reactions which were there have been dropped and made anew.

### Import

`old` is what a 0.1.x server has of each room: messages by per-room ids, a log of
deletions, with duplicates, and files. `ImportRoom` gives the room's messages an `Offset` so that the
first gets the next free id, numbers them by their deletions, and leaves
`roomHacks` and `fileHacks` behind. `CompactPoll` is the client that goes on
polling by what it knows, with `After` to map it, and gets at most `Limit` messages an answer; `postgres` is which
engine it is. `asked` and `older` are history: the ids it asked from, and what was older than an answer
it got for no id, the most recent messages. `Post`, `Delete`, `Upload` and `ExpireFile` are the
room's life afterwards.

## The runs

| Run | What it checks | Bounds | States, time |
|---|---|---|---|
| `log` | types; the numbering, the finality of deletions; reactions stay on visible messages; bans, and deletions before late reactions, hold but for requests past their check; the log implements `ChangeFeed` | a moderator and another user, 2 bodies, one of which a silent filter stops and answers with a whisper, 1 reaction, 1 worker, 2 messages, 6 changes | 496 K, 45 s |
| `polling` | a client that asks for reactions is up to date up to its `since`, a paging one but for what `polling_pages` shows | 1 client, all rows in an answer or one at a time; 2 messages, 4 changes | 890 K, 75 s |
| `polling_pages` | *violated*: a client that pages holds every body up to its `since` | one row at a time, 3 changes | |
| `polling_live` | a client that does not ask for reactions and keeps polling ends up with the room as it is | 2 messages, 3 changes, a filter that rejects with a public reply | 20 s |
| `bans` | the constraints of the tables; room roles change by admins only; a ban ends when served or by somebody who may end it; what is scheduled for a ban is its end; timed bans from the room end | an admin and another user, 2 workers, bans for good, for 1, for 0 and for -1, the clock up to 1, 4 targets looked up | 564 K, 85 s |
| `schedules` | permissions implement `Timetable`; everything scheduled happens, but where PostgreSQL refuses the statement | 1 user, 2 permissions, 2 scheduled rows, due together or apart, the clock up to 2, both engines | 73 K, 100 s |
| `blinding` | what an unblinded id holds is due to be moved, and moving loses nothing | 1 person, 2 workers, 1 permission, 1 scheduled row, the clock up to 1 | 154 K, 20 s |
| `files` | a row has its file unless the id was reused; nothing is kept without a reason or pruned early; the polled info is current; what has expired goes | SQLite; 1 user, 1 message, 2 uploads, `Recent = 1`, `Default = 2`, the clock up to 4 | 525 K, 2 min |
| `requests` | no request runs twice but the one let in before its time; sequences stop; only reused ids are missed in the inbox | `ann` sends, `bob` polls and clears, with a clock that is right or ahead by 1; 3 requests, 1 worker, a window of 1, messages expire after 1, one message an answer, the clock up to 2 | 3.3 M, 100 s |
| `migrations` | whoever is up has the current schema, recorded rows are kept, starts fail only for known reasons; the first two but for reactions made anew | 2 processes, both engines, every mix of older forms and faults | 975 K, 70 s |
| `import` | nothing is overwritten; what an old client misses has a known cause; it hears of later deletions and finds its files | 2 rooms, ids 1 to 3 with gaps, 1 file, at most 4 old rows, one message an answer, both engines; 1 later change in each room | 1.9 M, 70 s |
| `empty_hacks` | *violated*: an emptied table of imported files is dropped at the next start | 1 process | |

**Why the bounds are enough.** Every guard and every property of the log speaks of
at most two messages, so two rows show ties and overlaps; two users are the
distinction between moderator and not, poster and other; six changes
are enough for two posts, an edit or a reaction, and the deletion of
all of it by one statement; what more changes could do is covered by the proofs. One worker shows the race of a check with others'
writes, as bans and "delete all" need no worker in this model. `MaxMessages` and `MaxSequence` only bound the search:
the code has no such limit, and the proofs do not use them. In `Roles` two users are who acts
and who is acted upon, both of either rank as the run goes, and two workers are what comes between the steps of one request:
the lookup and the transaction, the two statements of an unban, the check of a legacy request and its end. Four lookups
are two operations of each worker; `MaxLookups` only bounds the search, and the proofs do not use it. `MaxTime` stops the clock, and a ban or change that would come later is not made: in
every module it is long enough for what is scheduled to become due and for another
decision to come in between. In `schedules` one user is enough for what the properties say of a user; two rows are what overlaps,
and what is due together. In `blinding` people do not interact, and two
workers are a login racing a decision, or two logins. In `files` two uploads are an attachment and an
image, an image and the one that replaces it, or a file and the next with its id, and the clock lets both expire. In
`requests` a third request is needed for an id to be given, to go and to be given
again while a client polls, and a clock that is ahead by one is one that is ahead of what a nonce is remembered for.
In `migrations` a third process would do what a restart of one of two
does. In `import` the second room meets the ids of the first, with an offset that is positive, zero or negative, and every
answer is cut at one message; `MaxFile` stops imports and uploads of more files.

**Fairness.** In `polling_live` a client keeps sending requests
(`WF` of `FetchRows`: the next poll is always due on the client's timer, and the
server answers from the database whatever the other workers do) and not
every answer of infinitely many is lost (`SF` of `Deliver`). Writers are not
assumed to do anything. The property is about a client that stays admitted, and
is asked once writing has come to rest at the bound. Elsewhere the clock goes on
and the mule's timer (10 s, `mule.py:60`) runs the clean-up: `WF` of the tick and
of `ApplyDueUnbans` (`bans`), `ApplyFutures` (`schedules`), `Mule`, which prunes or unlinks
(`files`, where an open transaction ends, too: `WF` of `CommitUpload \/ FailUpload`; there are two uploads in all, so the mule is
not kept from the database by uploads without end).
Requests are not assumed to be made or to end.

**Deadlock** is checked except where the system may come to rest: in `bans` everybody may be banned
from the server when the clock has stopped, or all lookups be made; in `requests` all have been run; in
`import` all is imported and posted that the bounds allow.

**What the violated runs show.** `polling_pages`: rows are ordered by
`seqno`, the larger of the number of the body and that of the reactions. With
messages 1 and 2 posted (seqnos 1, 2) and a reaction added to 1 (seqno 3), a
client with a limit of one gets message 2 first and continues from 2; message 1
now has `seqno_reactions > 2 >= seqno_data`, which the code takes for a message whose
body the client already has, and it receives its reactions only.
`empty_hacks`: once all imported attachments have expired, a start of the server
drops the empty `file_id_hacks` through `db.engine`, a second connection, while the
first holds the transaction in which its rows were counted. On SQLite the start
fails with a locked database, on PostgreSQL it waits for itself.

## Claims that do not hold

The modules state some things that are said of the code, or would be expected, and that TLC
refutes. They are in no run; each can be put in the cfg of its module.

* `MessageLog!DeletedHaveNoReactions`: `add_reaction` checks
  the message before its transaction, so it can add a reaction to a message that
  was deleted meanwhile; `get_messages_for` skips the reactions of deleted
  messages on the ground that there are none.
* `MessageLog!EditorsMayWrite`: the same
  window, for a ban and an edit, whose doc says the permission must be *current*.
* `Roles!TimedServerBansScheduled` (2 workers): one worker has lifted a ban and not yet deleted what was
  scheduled; another bans the user for a while; the first deletes the end of that ban.
* `Roles!ZeroTimeoutScheduled`: `if timeout:` takes 0 for no timeout, although the doc says that "the ban will be
  reverted within the next few seconds" (`room.py:1649-1651`): the user stays banned.
* `Roles!ServerRolesByAdmins`: an admin of the server steps down in one
  part of a batch and makes somebody else an admin in the next; `User.set_moderator`
  asks the object loaded at the beginning.
* `Schedules!DueInTurn`: of two rows of a user that are due in one run
  of the mule, SQLite keeps what the last one makes of the override before both: a change of `read` is lost to a later one
  of `write`. PostgreSQL refuses the statement, at every run, for every user's changes: `ScheduledHappen`
  says `Stuck` for this.
* `Schedules!ClearedRowsGo`: rows with nothing left to set are compared with `= NULL`, and stay until they are due;
  there they count, and can crowd out another.
* `Blinding!DecisionsReachPeople`: an id that was looked for before its owner
  logged in is not looked for again in that request (`_tried_blinding`), and what is decided about the
  unblinded id stays there; a restart marks it for an import that comes only when the blinded id has no row.
* `Files!ImageStays`: deleting all posts of its uploader expires the room image, although a comment says
  that it is spared: `image.uploader == poster.id` (`room.py:1219`) compares a user with an id. Setting the
  image that is there once more gives it the default expiry, too, after it was to be kept for ever.
* `Files!RowsHaveFiles`: SQLite uses an id again, and the mule may
  unlink the file of a new upload that has the id and the name of one just pruned. `OnlyReusedLost` says that nothing else
  loses its file.
* `Requests!AdmittedOnce`: a timestamp is good for a day before and a
  day after the server's clock, a nonce is remembered for a day: a request whose timestamp is ahead can be
  delivered again, and run, once its nonce is forgotten. `RanOnce` says that this is the only way, and that it
  happens once at most.
* `Requests!InboxComplete`: the id of the newest direct message is used
  again after it expires or is deleted, and a client that has polled past it never gets the next.
* `Import!OldDeletionsHeard`: imported deletions are numbered by the order of the messages, not of
  the deletions: a client may be past the numbers of what it has not heard of.
* `Import!LegacyMissesNothing`: the id a client asks from is mapped whenever it is up to the greatest *old*
  id of the room, and new ids of a later room may be so small, too. With old ids `{1}` in the first room and `{1, 2, 3}`
  in the second (offset 1) a client at the old id 1, which gets one message an answer, is sent the new id 3, asks from it, and is taken
  to 4: the message 4 is never sent. The doc of the migration has such numbers (`import_hacks.py:14-15`, old ids
  1 to 5000 that become 4321 to 9320); the limit of the code is 256. With a negative offset a new id is
  taken back, and a client whose answers are cut may be sent the same page for ever, which loses nothing but gets it no further.
* `Import` on PostgreSQL: the sequence behind `messages.id` has not been moved past the
  imported ids, and posts fail until it has; those that succeed before that may have an id below one that a
  client has, and it then does not get them.
* `Migrations!UpIsCurrent` and `RowsKept` without their exceptions: on PostgreSQL, from a database with `seqno_data` and without
  `user_reactions`, two processes start together, and the second has reflected that form while the first migrates all. Its `reactions.py`
  (`DROP TABLE IF EXISTS user_reactions CASCADE`) then drops what has been recorded since, and puts the trigger of the numbers back to its form
  before `seqno_creation`, a migration it finds it need not run. On SQLite the same run fails at a
  trigger that is there.

Met while reading, and not stated by a property: an image that was replaced expires at once, by the trigger
on the room, which overrides the default expiry `Room.image` has just given it; the statement of `user_perm_futures` for PostgreSQL
names a column that does not exist, so that migration never succeeds there; the fix of
the import's foreign keys leaves out the CASCADE on PostgreSQL; the import renames
`database.db` before its commit, and a crash in between loses it to the next start; a change of who is a
*visible* moderator does not count in `info_updates`; unpinning a message gives files that had
expired their default expiry again, and editing a pinned message gives files an expiry.

## The proofs

Each module of proofs is about any values of the constants: any number of users,
workers, messages and requests, and without the bounds.

| Module | Theorems |
|---|---|
| `MessageLogProofs` | `TypeCorrect`, `NumbersAgree`, `CounterIsCarried`, `SeqnosNeverTie`, `ReactionsStayVisible`, `LogImplementsFeed`, `ReactionsStayStamped`, `DeletedStaysDeleted`, `BansHold`, `LateReactionsAreFew` |
| `PollingProofs` | `PollingIsReading`, `CopiesAreCurrent`, `ReactionsAreCurrent`, `NothingIsKnownEarly` |
| `RolesProofs` | `RolesTypeCorrect`, `UnbansMatch`, `BansAreServed`, `RoomRolesAreByAdmins` |
| `SchedulesProofs` | `ScheduleTypeCorrect`, `ImplementsTimetable` |
| `BlindingProofs` | `NobodyIsForgotten`, `ImportMovesAll` |
| `FilesProofs` | `FilesTypeCorrect`, `FilesAreThere`, `NothingIsForgotten`, `PollsAreCurrent`, `AttachmentsAreKept` |
| `RequestsProofs` | `NothingRunsTwice`, `SequencesEnd`, `OthersAreReceived` |
| `UpgradeProofs` | `UpServersAreCurrent`, `MigrationsKeepRows`, `FailuresHaveAReason`; `OldMessagesAreKept`, `OldFilesAreFound`, `DeletionsAreHeard`, `OldClientsMissNothing` |

Nothing is assumed but the `ASSUME` of each module, which gives the constants their types. Where the code breaks a simpler
claim, the property proved names the exception, and the simpler claim is listed above.

**MessageLog.** A step of the log is either `Stamped` or changes nothing of
it. `Stamped` says what all writing operations have in common: the counter goes
up, the rows the step changes carry numbers above the old counter and not above the new
one, all different, one of them equal to it, and every other row is as it was. One lemma per
operation shows that it is stamped (`InsertStamped`, `EditPostStamped`,
`AddReactionStamped`, `RemoveReactionsStamped`, `DeleteMessagesStamped`);
`StampedKeepsLog` shows that stamped steps keep the numbering, and
`StampedPublishes` that they are steps of the feed.
The inductive invariant `Inv` adds two parts to the properties. `WorkInv`: a
worker that was admitted to change reactions was so for a message that exists and is
neither filtered nor a whisper; without it nothing is known of the message when the
reaction is inserted, and `ReactionsOnVisible` would not be inductive. It
deliberately does not say that the message still has a body: that is what
`DeletedHaveNoReactions` would need. `ReactionsFinite`: the reactions are finitely
many, so that the counter moves by their `Cardinality` when they are deleted.

With the same `Inv` every action is shown to be a `LogStep`: `RowsGoOn` (a row keeps its author and
its creation number, its reaction number never falls, a deleted body stays deleted),
`NewReactionsStamped` (a new reaction leaves its message with a reaction number above the creation's) and
`BanStep`. The first two make `ReactionsAreStamped` inductive. `BanStep` rests on `Ends` - a request that
writes is over, and of nobody else's requests are there more - and on `WrittenBy`: what is written
in a user's name is so by a request that had been admitted.
`LateReactionsAreFew` takes a third look at the actions (`NextIsLate`): nobody is admitted to a deleted message, a deletion
takes the reactions with it, and a reaction that is added ends a request that had been admitted (`AddReactionIsLate`).

**Polling.** Polling writes nothing of the log (`PollingIsReading`), so all that is proved of the
log holds under it, and what a client must be told of the log is `ReadersStep`: whatever a step
changes of a message, or adds, is numbered above the counter. A client's state is then judged by one number, its
`since`, and an answer under way by the number of any of its rows, as the client will take the
greatest of those for its next `since`. `AnswerInv` says of each `last` row of an answer what
the properties say of `since`: every body numbered up to it is in the answer, or the client has
had it, or it is deleted and the client never knew of it (`BodiesAreCurrent`, `BodiesAreSent`); all reactions
that may have changed are sent (`ReactionsAreSent`). What the writers between the two queries change is numbered above
the counter of the first, and so above every row of the answer, which no longer claims it. `HeldInv` is the properties themselves and that
`since` is not above the counter. `CopyCurrent` is about the clients whose
answers are never cut short (`Unpaged`), `ReactionsCurrent` about all that ask for reactions: this is
exactly the line at which `polling_pages` fails.
`MaxMessages`, a bound of the search elsewhere, is here in what a client has room for (`AllIds`).

**Roles.** `BansServed` is about a step, and needs
the invariant `UnbansMatchSentences`: what is scheduled for a banned user is the end of *that*
ban, or nothing. It holds because `RoomUnban` may leave a row behind only for a user
who is not banned, and a ban replaces it, with nothing if its timeout is zero; for the server it says "or nothing" because of
the first claim on `Roles` above. `RoomRolesByAdmins` needs `LegacyKnown`: a legacy request that takes its user for an admin
was let in when the user was one, which `wasAdmin` remembers, and nothing can make it forget while the request lasts
(`SessionKeeps`); other requests ask in the step that writes. The steps of requests are split by the half
of the state they write (`RequestType`, `RequestSchedule`), those of the mule
apart (`MuleType`, `MuleSchedule`, on `LiftedRows`).

**Schedules.** The types are inductive by themselves. `SetPermissionsDecides`, `AddFutureSchedules` and `ApplyFuturesFires`
map the actions to steps of
`Timetable`; `EntriesMember` and `EntriesAre` say what the rows are, taken apart. In `ApplyFuturesFires` a user with one
due row gets for each permission what the timetable asks for; of a user with more, the row that remains is one of the latest, so that what it
sets is the outcome, and what it does not set is as it was.

**Blinding.** `IInv` adds to the types and `HoldersAreTracked` that whoever is decided
about has a row, and whoever logs in does so by a blinded id (`Working`). The types
hold that nothing is held by an id without a row: the import writes
over a row just inserted, and it is this that makes it lose nothing. The theorems
about the schedule are those of `SchedulesProofs`, instantiated for ids.

**Files.** `IInv` has four parts. `Rows`: what each row's expiry can be, by what refers to it.
`Store`: a row whose file is gone, or is about to be unlinked, has a `reused` id, and the open upload has its file, or has one, too.
`Tables`, the types.
`Seen`: what a client or a poll in progress has loaded is current if the counter
has not changed; the image is loaded with the counter, the pins after it, and that
order is what makes it inductive. One lemma per action.

**Requests.** `Remembered` says of each run of a request that its timestamp was at most a window ahead when it was let in, and that from then on
its nonce is remembered, or more than a window has passed. So a request that is let in again was let in before more than a window ago, and as its timestamp is still good, that
was before the timestamp: from which `RanOnce` is inductive, and there is no third time, as the second was not before it. `Progress` ties
what a worker runs next to what was run; `Ordered` is then `SequencesStop`.
The inbox has an argument of its own, which needs nothing of the clocks. `IdsGiven`: the ids ever given are
`1..n`, without gaps, as each is the greatest of the rows plus one; one that is given for the second time is
in `reused`. So a fresh id is above all that anybody has `seen`. `WaitsFromSeen`: what is on its way to a client
was asked from what it has seen now, or it is no longer waited for. `AnswerIsFull`: a page
has the lowest ids, so that below its last one nothing is missing but what was given again meanwhile.

**Migrations.** Any schema that is found, and any that a migration or a crash leaves, is `Coherent`: the forms of
its objects go together (a database that has `seqno` has no pins of the older form, say). Without this,
the conditions under which a migration thinks itself needed say little of what it will find. What a
migration adds is `Lasting`, and the `Faults` do not come back (`Later`); one lemma for each of
the migrations (`SeqnoEtcImproves` to `FixHacksImproves`) shows that if it succeeds it leaves a coherent, later schema
in which it has done its part (`Upgraded`). What a process knows was once
the schema (`Later(known, schema)`): so if another process has migrated since, a migration that
is wrongly taken to be needed meets what it would add, and fails (`SuccessImproves`), and one that is not needed has been made
(`UnneededIsMade`). The exception is `reactions.py` on PostgreSQL, which drops what it would add: `RedoneByTheUnaware` shows that
only a process that reflected `seqno_data` without `user_reactions` gets so far, and `Made`, that the trigger is in its final form,
is claimed only until then (`redone \/ Made(schema)`). `MigrationsKeepRows` rests on the same: any other table of the final form is
dropped only by a migration that does not know of it, and that one fails first. For `FailuresHaveAReason`
a process that knows the schema as it is meets no conflict but the two named (`KnownSchemaFails`).

**Import.** `IdsAreMapped`: the rows of an imported room are its old messages, each at its old id plus the offset of
the room; they come after all that was there, since the offset takes the room's least id to
the next free one, whether that is up or down (`OffsetFacts`). `FilesAreMapped`: the rows and the map of the old ids
agree in both directions; old file ids are random numbers, taken not to be those of new files (`ImportAssumption`). `NumbersGoOn`: a client asks for deletions from a number that is not
above its room's sequence - for a room that is yet to be imported, not above the length of its log, which is where
the sequence will start. `CursorIsCovered` makes `OnlyRemappedMissed` inductive: the last message a client has got is not
above the greatest id there is, and all of its room up to there is `Accounted` for: sent, or older than an answer to no id, or skipped
by the mapping of a new id that it had been sent and asked from. A page starts right after the id it was asked for, as mapped, and has the lowest ids, so that
what lies between the old and the new end of what is accounted for is either in it, or between an id and what it was mapped to.
`PostsComeLast`: on SQLite posts have ids above all imported ones; so what is skipped is always imported.

Least and greatest elements (`CHOOSE` in `Top`, in the order of a page) were obtained
from the well-foundedness of `<` and of strict inclusion, as the induction theorems of the library cannot be instantiated.

*Only model-checked*: liveness (`EventuallyInSync`, `TimedRoomBansEnd`, `ScheduledHappen`, `ExpiredGo`), which is
out of the reach of TLAPS. Every other property of the passing runs is the statement of a theorem.

## What the models leave out

* Several rooms: every statement of the log is about one room, and rooms share no counter. (`Import` has two.)
* `message_history`: written by a trigger and pruned by the clean-up, read by nothing.
* `delete_posts` works in slices of 50 ids inside one transaction: one statement here.
* In `MessageLog` read, upload and "accessible" permissions are one bit, `banned`, and moderators are fixed.
* In `Roles`: who is a *visible* moderator; several rooms at once, which are one transaction of the same
  steps; PostgreSQL, where a check in a READ COMMITTED transaction is not
  serialised with the writes of others.
* In `Files`: PostgreSQL, where ids are not used again but transactions overlap: a message may be deleted between the check and the
  INSERT of a pin (`room.py:2046-2049`), and a post committed between the two statements of `delete_all_posts` (`room.py:1210,1227`) stays
  while its files expire. The contents, names and sizes of files; the room image of the legacy endpoint.
* In `Requests`: signatures, and everything a request can do but the inbox. A sub-request is served in the name of the
  request around it, whatever its headers say; an onion request inside a batch, which changes `g.user`, is left out.
* In `Migrations`: what views compute, the data the migrations rewrite. A database with `seqno_data` and without `user_reactions` is taken
  not to have the triggers that `reactions.py` creates on SQLite without dropping them. In `Import`: bans, moderators, activity and the
  image of a room, copied row by row; a room whose database is missing, which is skipped.
* The rate limit of `add_post` and the activity it records; `messages/before`, `recent` and single messages;
  names, descriptions and the creation and deletion of rooms; which text the filter stops.

### Not modelled

* Activity: statistics that only the mule's count reads.
* Onion requests and OMQ: encryption around a request that is then served as any other, without state.
* Administration: the calls of the other modules, made by the system user (how it starts is in `Migrations`).
* Configuration, views and templates, `contrib/`, converters, the formatting of answers.
* `session_pb2.py` is generated.

## Plan

Done: the message log and polling; roles and bans; schedules; files with the part of the room info
that they touch; blinding; direct messages, authentication and batches; migrations; the import and the legacy poll;
their safety properties proved.

Left, in this order:

1. Proofs: that a log which implements `ChangeFeed` is all a polling client needs; what a paging client can rely on.
2. Rooms: creation and deletion, name and description, against a poller of `info_updates`.
3. Posting: the rate limit on the two databases.
4. The text filter's settings as pure functions against a reference definition.
