------------------------------ MODULE Migrations ------------------------------
(***************************************************************************)
(* How a database is brought to the current schema.  Every process of the  *)
(* server (the daemon, and each run of the command-line tool) reflects the *)
(* schema when it starts and then goes through the migrations in order,    *)
(* each a transaction of its own.  A migration decides by what the process *)
(* knows, which is reflected anew only after a change of its own: another  *)
(* process may have migrated in between, and a process may crash between   *)
(* any two migrations.                                                     *)
(*                                                                         *)
(* The schema is the set of the tables, columns, views and triggers that   *)
(* tell its versions apart; an object that changed has a name per form.    *)
(***************************************************************************)
EXTENDS Naturals, Sequences, FiniteSets

CONSTANTS
    Procs,
    MaxGaps     \* bound: the parts an older schema lacks if it has tables of an import

ASSUME MaxGaps \in Nat

VARIABLES
    engine,         \* of the database
    schema,         \* its tables, columns, views and triggers
    rows,           \* which of the tables a migration replaces have rows
    imported,       \* there are rooms
    oldDatabase,    \* database.db of a 0.1.x server
    attachments,    \* file_id_hacks has rows
    redone,         \* history: the reactions were made anew where they were there
    proc            \* [state, checkOnly, step, known]: how far each process is, and the schema it knows

database == <<engine, schema, rows, imported, oldDatabase, attachments, redone>>
migrationVars == <<database, proc>>

-----------------------------------------------------------------------------
(* Schemas.                                                                *)

NewTables == {"user_request_nonces", "inbox", "needs_blinding"}
NewColumns == {"whisper", "whisper_mods", "filtered", "active_users"}

\* Objects that have had several forms, the last one the current.
Counters == {"counter_plain", "counter_data", "counter_creation"}
PinTriggers == {"pins_plain", "pins_info", "pins_files"}
MessageViews == {"message_views_plain", "message_views_data", "message_views"}
PermissionViews == {"old_user_permissions", "user_permissions"}
Forms == {Counters, PinTriggers, MessageViews, PermissionViews}

HackTables ==
    {"old_room_import_hacks", "old_file_id_hacks",
     "room_import_hacks", "room_hacks_cascade", "file_id_hacks", "file_hacks_cascade"}

\* What schema.sqlite and schema.pgsql create.
Current ==
    NewTables \cup NewColumns \cup
    {"seqno", "seqno_data", "user_reactions", "seqno_updater", "seqno_creation",
     "counter_creation", "pins_files", "message_views", "user_ban_futures",
     "accessible", "room_moderators", "user_permissions", "files_message",
     "global_mods"}

Outdated ==
    {"counter_plain", "counter_data", "pins_plain", "pins_info", "message_views_plain",
     "message_views_data", "bad_deleter", "old_user_permissions", "files_message_rooms", "visible_global_mods"}

IsCurrent(s) == Current \subseteq s /\ s \cap Outdated = {}

-----------------------------------------------------------------------------
(* The migrations: whether a process that knows schema k needs one, what   *)
(* its statements remove (`drops`) and create (`adds`), what they fail     *)
(* without (`requires`), and the rows they lose (`loses`).                 *)

Nothing == [needed |-> FALSE, requires |-> {}, drops |-> {}, adds |-> {}, loses |-> {}]

Change(requires, drops, adds, loses) ==
    [needed |-> TRUE, requires |-> requires, drops |-> drops, adds |-> adds,
     loses |-> loses]

When(needed, change) == IF needed THEN change ELSE Nothing

\* Two forms of an object have one name: a statement that creates an object
\* fails if a form of it exists, and its migration with it.
Fails(c, s) ==
    \/ ~ c.requires \subseteq s
    \/ \E x \in c.adds, y \in s \ c.drops : x = y \/ \E G \in Forms : {x, y} \subseteq G

Result(c, s) == (s \ c.drops) \cup c.adds

AddTables(k) == When(~ NewTables \subseteq k, Change({}, {}, NewTables \ k, {}))

AddColumns(k) == When(~ NewColumns \subseteq k, Change({}, {}, NewColumns \ k, {}))

\* The renames fail once done, and so do the DROP VIEWs without views.
SeqnoEtc(k) ==
    When("seqno" \notin k,
         Change(MessageViews \cap k, MessageViews \cup PermissionViews \cup PinTriggers,
                {"seqno", "pins_info"}, {"pins"}))

\* On SQLite the triggers of seqno are created without being dropped first.
ReactionsSqlite(k) ==
    Change({"seqno"}, Counters \cup {"user_reactions"},
           ({"seqno_data"} \ k) \cup {"counter_data", "seqno_updater", "user_reactions"},
           {"reactions"})

ReactionsPostgres(k) ==
    Change({"seqno"}, Counters \cup {"user_reactions", "seqno_updater"},
           ({"seqno_data"} \ k) \cup {"counter_data", "seqno_updater", "user_reactions"},
           {"reactions"})

AddReactions(k) ==
    When("user_reactions" \notin k,
         IF engine = "sqlite" THEN ReactionsSqlite(k) ELSE ReactionsPostgres(k))

\* Altered form: the trigger is created without being dropped first.
SeqnoCreation_KeepsTrigger(k) ==
    When("seqno_creation" \notin k,
         Change({"seqno_data"}, MessageViews, {"seqno_creation", "counter_creation"}, {}))

SeqnoCreation(k) ==
    When("seqno_creation" \notin k,
         Change({"seqno_data"}, Counters \cup MessageViews,
                {"seqno_creation", "counter_creation"}, {}))

\* Views without seqno_creation pass for current; the trigger of the deletions is
\* looked up in the database itself.
RecreateViews(k) ==
    When({"message_views_data", "message_views"} \cap k = {} \/ "bad_deleter" \in schema,
         Change({}, MessageViews \cup {"bad_deleter"}, {"message_views"}, {}))

\* Altered form: CREATE TABLE IF NOT EXISTS.
UserPermFutures_IfNotExists(k) ==
    When("user_ban_futures" \notin k,
         Change(IF engine = "sqlite" THEN {} ELSE {"uploads"}, {"user_ban_futures"},
                {"user_ban_futures"}, {"futures"}))

\* The statements for PostgreSQL name a column that is not there (`uploads`).
UserPermFutures(k) ==
    When("user_ban_futures" \notin k,
         Change(IF engine = "sqlite" THEN {} ELSE {"uploads"}, {}, {"user_ban_futures"},
                {"futures"}))

RoomAccessible(k) ==
    When("accessible" \notin k, Change({}, PermissionViews, {"accessible"}, {}))

RoomModerators(k) ==
    When("room_moderators" \notin k, Change({}, PermissionViews, {"room_moderators"}, {}))

UserPermissions(k) ==
    When(PermissionViews \cap k = {}, Change({}, {}, {"user_permissions"}, {}))

\* A column that refers to `rooms` (SQLite only) is corrected in place.
FileMessage(k) ==
    IF "files_message_rooms" \in k
    THEN Change({"files_message_rooms"}, {"files_message_rooms"}, {"files_message"}, {})
    ELSE When("files_message" \notin k,
              Change({}, PinTriggers, {"files_message", "pins_files"}, {}))

\* Looked up in the database itself, as the trigger is not in the metadata.
FixInfoUpdateTriggers ==
    When("visible_global_mods" \in schema,
         Change({}, {"visible_global_mods", "global_mods"}, {"global_mods"}, {}))

\* The foreign keys of the import's tables get ON DELETE CASCADE: on SQLite by
\* replacing the tables, one of which is kept under another name; on PostgreSQL
\* they are dropped and added again as they were.
FixHacks(k) ==
    LET files == "file_id_hacks" \in k /\ "file_hacks_cascade" \notin schema
        rooms == "room_import_hacks" \in k /\ "room_hacks_cascade" \notin schema
    IN  When("old_room_import_hacks" \in k \/ files \/ rooms,
             Change({"old_room_import_hacks"} \cap k, {"old_room_import_hacks"} \cap k,
                    IF engine # "sqlite" THEN {}
                    ELSE (IF files THEN {"old_file_id_hacks", "file_hacks_cascade"} ELSE {})
                           \cup (IF rooms THEN {"room_hacks_cascade"} ELSE {}),
                    {}))

\* The order of migrate().  The first one is the import of a 0.1.x server.
Migrations(k) ==
    << Nothing, AddTables(k), AddColumns(k), SeqnoEtc(k), AddReactions(k), SeqnoCreation(k),
       RecreateViews(k), UserPermFutures(k), RoomAccessible(k), RoomModerators(k),
       UserPermissions(k), FileMessage(k), FixInfoUpdateTriggers, FixHacks(k) >>

ImportStep == 1
Views == 7
Triggers == 13
Hacks == 14
Done == 15

\* Migrations that a process need not run, by what it knows, are passed over at
\* once, unless they look at the database itself.
NextStep(step, k) ==
    LET migrations == Migrations(k)
        stops == {i \in step + 1 .. Done :
                    i \in {Views, Triggers, Hacks, Done} \/ migrations[i].needed}
    IN  CHOOSE i \in stops : \A j \in stops : i <= j

-----------------------------------------------------------------------------
(* Starting a process.                                                     *)

\* The daemon creates and upgrades; the command-line tool upgrades, only checks,
\* or only creates (`initialize`).
Modes == {"daemon", "upgrade", "check", "initialize"}

Ended(state) == [state |-> state, checkOnly |-> FALSE, step |-> ImportStep, known |-> {}]
End(p, state) == proc' = [proc EXCEPT ![p] = Ended(state)]

\* metadata.reflect, after a change of its own.
Advance(p, k) ==
    proc' = [proc EXCEPT ![p].step = NextStep(@, k), ![p].known = k]

\* A transaction that has begun on SQLite keeps the others out; on PostgreSQL it
\* is the new rooms that others wait for.
Locked(p) == \E q \in Procs \ {p} : proc[q].state = "importing"

\* database_init.
Start(p, mode) ==
    /\ proc[p].state \in {"down", "failed"}
    /\ IF schema = {}
       THEN IF mode \in {"upgrade", "check"} THEN End(p, "failed") ELSE End(p, "create")
       ELSE IF mode = "initialize" THEN End(p, "failed")
       ELSE proc' = [proc EXCEPT ![p] =
              [state |-> "migrate", checkOnly |-> mode = "check", step |-> ImportStep,
               known |-> schema]]
    /\ UNCHANGED database

\* One transaction; it fails if another process has made the tables.
CreateSchema(p) ==
    /\ proc[p].state = "create"
    /\ IF schema = {}
       THEN /\ schema' = Current
            /\ proc' = [proc EXCEPT ![p] =
                 [state |-> "migrate", checkOnly |-> FALSE, step |-> ImportStep,
                  known |-> Current]]
       ELSE UNCHANGED schema /\ End(p, "failed")
    /\ UNCHANGED <<engine, rows, imported, oldDatabase, attachments, redone>>

-----------------------------------------------------------------------------
(* v_0_1_x.                                                                *)

SkipImport(p) ==
    /\ proc[p].state = "migrate" /\ proc[p].step = ImportStep
    /\ ~Locked(p)
    /\ imported \/ ~oldDatabase
    /\ Advance(p, proc[p].known)
    /\ UNCHANGED database

\* Everything is inserted and database.db is renamed, if that succeeds, all
\* before the transaction commits.
ImportOld(p) ==
    /\ proc[p].state = "migrate" /\ proc[p].step = ImportStep
    /\ ~Locked(p)
    /\ ~imported /\ oldDatabase
    /\ IF proc[p].checkOnly
       THEN End(p, "failed") /\ UNCHANGED oldDatabase
       ELSE /\ proc' = [proc EXCEPT ![p].state = "importing"]
            /\ oldDatabase' \in BOOLEAN
    /\ UNCHANGED <<engine, schema, rows, imported, attachments, redone>>

\* The tables that map old ids stay if some room or some file needs them.
CommitImport(p) ==
    /\ proc[p].state = "importing"
    /\ \E hacks \in SUBSET {{"room_import_hacks", "room_hacks_cascade"},
                            {"file_id_hacks", "file_hacks_cascade"}} :
         /\ schema' = schema \cup UNION hacks
         /\ attachments' = ("file_id_hacks" \in schema')
    /\ imported' = TRUE
    /\ proc' = [proc EXCEPT ![p] =
         [@ EXCEPT !.state = "migrate", !.step = NextStep(ImportStep, schema'), !.known = schema']]
    /\ UNCHANGED <<engine, rows, oldDatabase, redone>>

-----------------------------------------------------------------------------
(* The other migrations.                                                   *)

\* Dropping the emptied file_id_hacks is left to a second connection, which the
\* transaction that counted its rows keeps out: on SQLite the start fails, on
\* PostgreSQL it hangs.
Blocked(p) ==
    /\ proc[p].step = Hacks
    /\ "file_id_hacks" \in proc[p].known
    /\ ~attachments
    /\ ~proc[p].checkOnly

\* Altered form: what the process knows is never reflected anew.
Apply_Unreflected(p) ==
    LET c == Migrations(proc[p].known)[proc[p].step]
    IN  /\ c.needed /\ ~proc[p].checkOnly /\ ~Fails(c, schema) /\ ~Blocked(p)
        /\ schema' = Result(c, schema)
        /\ rows' = rows \ c.loses
        /\ redone' = (redone \/ "user_reactions" \in c.drops \cap schema)
        /\ Advance(p, proc[p].known)
        /\ UNCHANGED <<engine, imported, oldDatabase, attachments>>

Apply(p) ==
    LET c == Migrations(proc[p].known)[proc[p].step]
    IN  /\ c.needed /\ ~proc[p].checkOnly /\ ~Fails(c, schema) /\ ~Blocked(p)
        /\ schema' = Result(c, schema)
        /\ rows' = rows \ c.loses
        /\ redone' = (redone \/ "user_reactions" \in c.drops \cap schema)
        /\ Advance(p, schema')
        /\ UNCHANGED <<engine, imported, oldDatabase, attachments>>

Skip(p) ==
    /\ ~Migrations(proc[p].known)[proc[p].step].needed /\ ~Blocked(p)
    /\ Advance(p, proc[p].known)
    /\ UNCHANGED database

\* DatabaseUpgradeRequired, or an error of the database: the start ends.
Refuse(p) ==
    LET c == Migrations(proc[p].known)[proc[p].step]
    IN  /\ Blocked(p) \/ (c.needed /\ (proc[p].checkOnly \/ Fails(c, schema)))
        /\ End(p, "failed")
        /\ UNCHANGED database

Migrate(p) ==
    /\ proc[p].state = "migrate"
    /\ proc[p].step \in ImportStep + 1 .. Hacks
    /\ ~Locked(p)
    /\ Apply(p) \/ Skip(p) \/ Refuse(p)

Finish(p) ==
    /\ proc[p].state = "migrate" /\ proc[p].step = Done
    /\ End(p, "up")
    /\ UNCHANGED database

-----------------------------------------------------------------------------
(* What happens in between.                                                *)

\* A server that is up pins messages, stores reactions and schedules changes.
Use(p) ==
    /\ proc[p].state = "up"
    /\ \E x \in {"pins", "reactions", "futures"} \ rows : rows' = rows \cup {x}
    /\ UNCHANGED <<engine, schema, imported, oldDatabase, attachments, redone, proc>>

\* The imported files expire (ON DELETE CASCADE empties file_id_hacks).
ExpireAttachments(p) ==
    /\ proc[p].state = "up" /\ attachments
    /\ attachments' = FALSE
    /\ UNCHANGED <<engine, schema, rows, imported, oldDatabase, redone, proc>>

\* Stopped or crashed; a transaction under way is rolled back.
Stop(p) ==
    /\ proc[p].state \notin {"down", "failed"}
    /\ End(p, "down")
    /\ UNCHANGED database

-----------------------------------------------------------------------------

\* What an older version of the code may have left: the objects it did not have
\* yet are missing, and those it had are in the form of its time.  The columns
\* came before those of the reactions (seqno_data), which may be there without the
\* tables of the reactions (reactions.py looks), and these before seqno_creation.
OldSchema(missing) ==
    LET has(x) == x \notin missing
    IN  (Current \ (missing \cup {"counter_creation", "pins_files", "message_views",
                                  "user_permissions", "global_mods", "seqno_updater"}))
        \cup (IF has("global_mods") THEN {"global_mods"} ELSE {"visible_global_mods"})
        \cup (IF has("user_reactions") THEN {"seqno_updater"} ELSE {})
        \cup (IF has("seqno_creation") THEN {"counter_creation"}
              ELSE IF has("seqno_data") THEN {"counter_data"} ELSE {"counter_plain"})
        \cup (IF has("files_message") THEN {"pins_files"}
              ELSE IF has("seqno") THEN {"pins_info"} ELSE {"pins_plain"})
        \cup (IF has("seqno_creation") THEN {"message_views"}
              ELSE IF has("seqno_data") THEN {"message_views_data"} ELSE {"message_views_plain"})
        \cup (IF has("accessible") /\ has("room_moderators") /\ has("seqno")
              THEN {"user_permissions"} ELSE {"old_user_permissions"})

Follows(missing, earlier, later) == earlier \cap missing # {} => later \subseteq missing

Missing ==
    {m \in SUBSET {"tables", "columns", "seqno", "seqno_data", "user_reactions",
                   "seqno_creation", "user_ban_futures", "accessible", "room_moderators",
                   "files_message", "global_mods"} :
        /\ Follows(m, {"seqno"}, {"seqno_data", "files_message"})
        /\ Follows(m, {"columns"}, {"seqno_data"})
        /\ Follows(m, {"seqno_data"}, {"user_reactions"})
        /\ Follows(m, {"user_reactions"}, {"seqno_creation"})}

Spelt(m) ==
    m \cup (IF "tables" \in m THEN NewTables ELSE {})
      \cup (IF "columns" \in m THEN NewColumns ELSE {})

\* Faults of earlier versions of the migrations themselves.
Faulty(s) ==
    {s} \cup (IF "user_reactions" \in s THEN {s \cup {"bad_deleter"}} ELSE {})
        \cup (IF "files_message" \in s /\ engine = "sqlite"
              THEN {(s \ {"files_message"}) \cup {"files_message_rooms"}} ELSE {})

\* The tables an import has left.
HacksLeft ==
    {h \in SUBSET HackTables :
        /\ h \cap {"room_hacks_cascade", "old_room_import_hacks"} # {} => "room_import_hacks" \in h
        /\ "file_hacks_cascade" \in h => "file_id_hacks" \in h
        /\ "old_file_id_hacks" \notin h
        /\ "old_room_import_hacks" \in h => engine = "sqlite" /\ "room_hacks_cascade" \in h}

MigrationInit ==
    /\ engine \in {"sqlite", "postgresql"}
    /\ rows = {}
    /\ redone = FALSE
    /\ proc = [p \in Procs |-> Ended("down")]
    /\ \/ /\ schema \in {{}, Current}
          /\ oldDatabase \in BOOLEAN
          /\ imported = FALSE
          /\ attachments = FALSE
       \/ /\ \E m \in Missing, h \in HacksLeft :
               /\ h = {} \/ Cardinality(m) <= MaxGaps
               /\ \E s \in Faulty(OldSchema(Spelt(m))) : schema = s \cup h
          /\ oldDatabase = FALSE
          /\ imported = TRUE
          /\ attachments = ("file_id_hacks" \in schema)

MigrationNext ==
    \E p \in Procs :
        \/ \E mode \in Modes : Start(p, mode)
        \/ CreateSchema(p) \/ SkipImport(p) \/ ImportOld(p) \/ CommitImport(p)
        \/ Migrate(p) \/ Finish(p)
        \/ Use(p) \/ ExpireAttachments(p) \/ Stop(p)

MigrationSpec == MigrationInit /\ [][MigrationNext]_migrationVars

-----------------------------------------------------------------------------
(* Properties.                                                             *)

\* A process that is up has the current schema and no object of an older one,
\* from whatever version, whatever other processes migrate at the same time, and
\* whenever they were stopped before; but the trigger of seqno_creation, which may
\* be in its older form once the reactions were made anew.
UpIsCurrent ==
    \A p \in Procs : proc[p].state = "up" =>
        \/ IsCurrent(schema)
        \/ redone /\ IsCurrent((schema \ {"counter_data"}) \cup {"counter_creation"})

\* Reflected seqno_data and not the tables of the reactions.
Unaware(p) == "seqno_data" \in proc[p].known /\ "user_reactions" \notin proc[p].known

\* No migration drops the tables in which a server has recorded rows, nor makes those of
\* the reactions anew, though the process that runs it does not know that they are there;
\* but on PostgreSQL those of the reactions, by one that reflected the columns without them.
RowsKept ==
    [][\/ rows \subseteq rows' /\ redone' = redone
       \/ /\ engine = "postgresql"
          /\ rows \ rows' \subseteq {"reactions"}
          /\ \E p \in Procs : Unaware(p) /\ proc'[p] # proc[p]]_migrationVars

\* A start that was to upgrade fails only if another process has changed the
\* schema meanwhile, or for the two known reasons: the futures of PostgreSQL, and
\* an emptied file_id_hacks.
StartsFailForAReason ==
    [][\A p \in Procs :
         proc[p].state = "migrate" /\ proc'[p].state = "failed" /\ ~proc[p].checkOnly
           => \/ proc[p].known # schema
              \/ engine = "postgresql" /\ "user_ban_futures" \notin schema
              \/ "file_id_hacks" \in schema /\ ~attachments]_migrationVars

\* "If the table exists but is empty ... then we should drop it" (import_hacks):
\* the start of an upgraded server gets past an emptied table.
EmptyHacksDropped ==
    [][\A p \in Procs :
         proc[p].state = "migrate" /\ proc'[p].state = "failed" /\ ~proc[p].checkOnly
           => ~ (IsCurrent(schema) /\ proc[p].known = schema)]_migrationVars

=============================================================================
