----------------------------- MODULE UpgradeProofs -----------------------------
(***************************************************************************)
(* What a server finds when it starts over an older one: the schema, for   *)
(* any number of processes that start, stop and migrate as they come, and  *)
(* the rooms of 0.1.x, for any rooms and any ids in them.                  *)
(*                                                                         *)
(* The schema: it is coherent, whatever part of it is old, in that the     *)
(* forms of its objects go with the columns and tables there are; what a   *)
(* migration adds lasts; and what a process knows was once the schema, so  *)
(* that a migration it wrongly takes to be needed fails.                   *)
(*                                                                         *)
(* The import: the rows of a room that is imported have their old ids plus *)
(* its offset, and where an old client asks from is never above the        *)
(* greatest id there is and has everything below it sent.                  *)
(***************************************************************************)
EXTENDS Migrations, Import, FiniteSetTheorems, WellFoundedInduction, TLAPS

-----------------------------------------------------------------------------
(* Schemas.                                                                *)

\* The objects of a schema that go together.
Coherent(s) ==
    /\ "seqno" \in s => "pins_plain" \notin s
    /\ "seqno_data" \in s => "seqno" \in s /\ "counter_plain" \notin s
    /\ "user_reactions" \in s => "seqno_data" \in s
    /\ "seqno_updater" \in s <=> "user_reactions" \in s
    /\ "seqno_creation" \in s =>
         /\ "user_reactions" \in s
         /\ s \cap {"counter_data", "counter_creation"} # {}
         /\ s \cap {"message_views_plain", "message_views_data"} = {}
    /\ ~ {"counter_data", "counter_creation"} \subseteq s
    /\ "message_views" \in s => "seqno_creation" \in s
    /\ "user_permissions" \in s => {"seqno", "accessible", "room_moderators"} \subseteq s
    /\ "old_user_permissions" \in s => ~ {"seqno", "accessible", "room_moderators"} \subseteq s
    /\ s \cap {"files_message", "files_message_rooms"} # {} =>
         {"seqno", "pins_files"} \subseteq s /\ "pins_info" \notin s
    /\ ~ {"files_message", "files_message_rooms"} \subseteq s
    /\ "visible_global_mods" \notin s => "global_mods" \in s
    /\ "old_file_id_hacks" \in s => "file_hacks_cascade" \in s

\* What is not removed once it is there, or is made again at once, and what never comes.
Lasting ==
    NewTables \cup NewColumns \cup
    {"seqno", "seqno_data", "user_reactions", "seqno_updater", "seqno_creation", "message_views",
     "user_ban_futures", "accessible", "room_moderators", "user_permissions", "files_message",
     "global_mods"}

Faults == {"files_message_rooms", "bad_deleter", "visible_global_mods"}

Later(s, t) == Lasting \cap s \subseteq t /\ Faults \cap t \subseteq s

\* What the migrations before the i-th leave.
Upgraded(i, s) ==
    /\ i > 2 => NewTables \subseteq s
    /\ i > 3 => NewColumns \subseteq s
    /\ i > 4 => "seqno" \in s
    /\ i > 5 => "user_reactions" \in s
    /\ i > 6 => "seqno_creation" \in s
    /\ i > 7 => "message_views" \in s /\ "bad_deleter" \notin s
    /\ i > 8 => "user_ban_futures" \in s
    /\ i > 9 => "accessible" \in s
    /\ i > 10 => "room_moderators" \in s
    /\ i > 11 => "user_permissions" \in s
    /\ i > 12 => "files_message" \in s
    /\ i > 13 => "visible_global_mods" \notin s

\* What a process knows when it has come to the i-th.
Aware(i, k) ==
    /\ i > 4 => "seqno" \in k
    /\ i > 6 => "seqno_creation" \in k
    /\ i > 9 => "accessible" \in k
    /\ i > 10 => "room_moderators" \in k

\* Rows are in tables of their final form.
RowsHaveTables(rs, s) ==
    /\ "pins" \in rs => "seqno" \in s
    /\ "reactions" \in rs => "user_reactions" \in s
    /\ "futures" \in rs => "user_ban_futures" \in s

\* The trigger of seqno_creation is in the form that numbers it.
Made(s) == "seqno_creation" \in s => "counter_creation" \in s

ProcInv(p) ==
    LET state == proc[p].state
        step == proc[p].step
        known == proc[p].known
    IN  /\ state \in {"migrate", "importing"} =>
             /\ step \in ImportStep .. Done
             /\ schema # {}
             /\ Coherent(known) /\ Later(known, schema)
             /\ Aware(step, known) /\ Upgraded(step, schema)
        /\ state = "importing" => step = ImportStep
        /\ state = "up" => schema # {} /\ Upgraded(Done, schema)

MigrationInv ==
    /\ engine \in {"sqlite", "postgresql"}
    /\ DOMAIN proc = Procs
    /\ \A p \in Procs : DOMAIN proc[p] = {"state", "checkOnly", "step", "known"}
    /\ schema # {} => Coherent(schema)
    /\ RowsHaveTables(rows, schema)
    /\ redone \in BOOLEAN /\ (redone \/ Made(schema))
    /\ \A p \in Procs : ProcInv(p)

-----------------------------------------------------------------------------
(* Migrations.  A process at the i-th knows k, and the migration succeeds.  *)

Succeeds(i, k, c, t) ==
    /\ Coherent(schema) /\ Coherent(k) /\ Later(k, schema)
    /\ Aware(i, k) /\ Upgraded(i, schema)
    /\ c.needed /\ ~Fails(c, schema)
    /\ t = Result(c, schema)

\* The reactions are made anew where they are there.
Redoes(c) == "user_reactions" \in c.drops \cap schema

\* It leaves a coherent schema, with what there was and what it is for, and loses no rows,
\* nor the form of the trigger, unless it makes the reactions anew.
Improves(i, c, t) ==
    /\ Coherent(t) /\ Later(schema, t) /\ Upgraded(i + 1, t)
    /\ ~Redoes(c) => /\ Made(schema) => Made(t)
                     /\ \A rs : RowsHaveTables(rs, schema) => rs \cap c.loses = {}
    /\ Redoes(c) => c.loses = {"reactions"}

LEMMA Success ==
    ASSUME NEW requires, NEW drops, NEW adds, NEW loses, NEW i, NEW k, NEW t,
           Succeeds(i, k, Change(requires, drops, adds, loses), t)
    PROVE  /\ requires \subseteq schema
           /\ \A x \in adds : x \notin schema \/ x \in drops
           /\ t = (schema \ drops) \cup adds
BY DEF Succeeds, Fails, Change, Result

LEMMA LaterKeepsUpgraded ==
    ASSUME NEW s, NEW t, NEW i, Upgraded(i, s), Later(s, t)
    PROVE  Upgraded(i, t)
BY DEF Upgraded, Later, Lasting, Faults

USE DEF Counters, MessageViews, PermissionViews, PinTriggers, NewTables, NewColumns,
        Lasting, Faults, Succeeds

\* add_new_tables.
LEMMA AddTablesImproves ==
    ASSUME NEW k, NEW t, Succeeds(2, k, AddTables(k), t)
    PROVE  Improves(2, AddTables(k), t)
<1>1. AddTables(k) =
        Change({}, {}, NewTables \ k, {})
  BY DEF AddTables, When, Nothing
<1>2. /\ {} \subseteq schema
      /\ \A x \in NewTables \ k : x \notin schema \/ x \in {}
      /\ t = (schema \ {}) \cup (NewTables \ k)
  BY <1>1, Success
<1>3. Coherent(t)
  BY <1>2 DEF Coherent, Aware, Upgraded
<1>4. Later(schema, t)
  BY <1>2 DEF Coherent, Later, Upgraded
<1>5. Upgraded(2 + 1, t)
  BY <1>2, <1>4, LaterKeepsUpgraded DEF Upgraded, Later
<1>6. \A rs : RowsHaveTables(rs, schema) => rs \cap {} = {}
  BY <1>2 DEF RowsHaveTables
<1>7. Made(schema) => Made(t)
  BY <1>2 DEF Made
<1> QED BY <1>1, <1>3, <1>4, <1>5, <1>6, <1>7 DEF Improves, Redoes, Change

\* add_new_columns.
LEMMA AddColumnsImproves ==
    ASSUME NEW k, NEW t, Succeeds(3, k, AddColumns(k), t)
    PROVE  Improves(3, AddColumns(k), t)
<1>1. AddColumns(k) =
        Change({}, {}, NewColumns \ k, {})
  BY DEF AddColumns, When, Nothing
<1>2. /\ {} \subseteq schema
      /\ \A x \in NewColumns \ k : x \notin schema \/ x \in {}
      /\ t = (schema \ {}) \cup (NewColumns \ k)
  BY <1>1, Success
<1>3. Coherent(t)
  BY <1>2 DEF Coherent, Aware, Upgraded
<1>4. Later(schema, t)
  BY <1>2 DEF Coherent, Later, Upgraded
<1>5. Upgraded(3 + 1, t)
  BY <1>2, <1>4, LaterKeepsUpgraded DEF Upgraded, Later
<1>6. \A rs : RowsHaveTables(rs, schema) => rs \cap {} = {}
  BY <1>2 DEF RowsHaveTables
<1>7. Made(schema) => Made(t)
  BY <1>2 DEF Made
<1> QED BY <1>1, <1>3, <1>4, <1>5, <1>6, <1>7 DEF Improves, Redoes, Change

\* seqno_etc: what it drops is made again by later ones.
LEMMA SeqnoEtcImproves ==
    ASSUME NEW k, NEW t, Succeeds(4, k, SeqnoEtc(k), t)
    PROVE  Improves(4, SeqnoEtc(k), t)
<1>1. SeqnoEtc(k) =
        Change(MessageViews \cap k, MessageViews \cup PermissionViews \cup PinTriggers,
               {"seqno", "pins_info"}, {"pins"})
  BY DEF SeqnoEtc, When, Nothing
<1>2. /\ MessageViews \cap k \subseteq schema
      /\ \A x \in {"seqno", "pins_info"} :
           x \notin schema \/ x \in MessageViews \cup PermissionViews \cup PinTriggers
      /\ t = (schema \ (MessageViews \cup PermissionViews \cup PinTriggers)) \cup {"seqno", "pins_info"}
  BY <1>1, Success
<1>3. Coherent(t)
  BY <1>2 DEF Coherent, Aware, Upgraded
<1>4. Later(schema, t)
  BY <1>2 DEF Coherent, Later, Upgraded
<1>5. Upgraded(4 + 1, t)
  BY <1>2, <1>4, LaterKeepsUpgraded DEF Upgraded, Later
<1>6. \A rs : RowsHaveTables(rs, schema) => rs \cap {"pins"} = {}
  BY <1>2 DEF RowsHaveTables
<1>7. Made(schema) => Made(t)
  BY <1>2 DEF Made
<1> QED BY <1>1, <1>3, <1>4, <1>5, <1>6, <1>7 DEF Improves, Redoes, Change

\* seqno_creation: whoever comes to it has reactions.
LEMMA SeqnoCreationImproves ==
    ASSUME NEW k, NEW t, Succeeds(6, k, SeqnoCreation(k), t)
    PROVE  Improves(6, SeqnoCreation(k), t)
<1>1. SeqnoCreation(k) =
        Change({"seqno_data"}, Counters \cup MessageViews,
               {"seqno_creation", "counter_creation"}, {})
  BY DEF SeqnoCreation, When, Nothing
<1>2. /\ {"seqno_data"} \subseteq schema
      /\ \A x \in {"seqno_creation", "counter_creation"} :
           x \notin schema \/ x \in Counters \cup MessageViews
      /\ t = (schema \ (Counters \cup MessageViews)) \cup {"seqno_creation", "counter_creation"}
  BY <1>1, Success
<1>3. Coherent(t)
  BY <1>2 DEF Coherent, Aware, Upgraded
<1>4. Later(schema, t)
  BY <1>2 DEF Coherent, Later, Upgraded
<1>5. Upgraded(6 + 1, t)
  BY <1>2, <1>4, LaterKeepsUpgraded DEF Upgraded, Later
<1>6. \A rs : RowsHaveTables(rs, schema) => rs \cap {} = {}
  BY <1>2 DEF RowsHaveTables
<1>7. Made(schema) => Made(t)
  BY <1>2 DEF Made
<1> QED BY <1>1, <1>3, <1>4, <1>5, <1>6, <1>7 DEF Improves, Redoes, Change

\* The views of messages, and the trigger of their deletion.
LEMMA RecreateViewsImproves ==
    ASSUME NEW k, NEW t, Succeeds(7, k, RecreateViews(k), t)
    PROVE  Improves(7, RecreateViews(k), t)
<1>1. RecreateViews(k) =
        Change({}, MessageViews \cup {"bad_deleter"}, {"message_views"}, {})
  BY DEF RecreateViews, When, Nothing
<1>2. /\ {} \subseteq schema
      /\ \A x \in {"message_views"} : x \notin schema \/ x \in MessageViews \cup {"bad_deleter"}
      /\ t = (schema \ (MessageViews \cup {"bad_deleter"})) \cup {"message_views"}
  BY <1>1, Success
<1>3. Coherent(t)
  BY <1>2 DEF Coherent, Aware, Upgraded
<1>4. Later(schema, t)
  BY <1>2 DEF Coherent, Later, Upgraded
<1>5. Upgraded(7 + 1, t)
  BY <1>2, <1>4, LaterKeepsUpgraded DEF Upgraded, Later
<1>6. \A rs : RowsHaveTables(rs, schema) => rs \cap {} = {}
  BY <1>2 DEF RowsHaveTables
<1>7. Made(schema) => Made(t)
  BY <1>2 DEF Made
<1> QED BY <1>1, <1>3, <1>4, <1>5, <1>6, <1>7 DEF Improves, Redoes, Change

\* user_perm_futures: there were no scheduled bans where it makes their table.
LEMMA UserPermFuturesImproves ==
    ASSUME NEW k, NEW t, Succeeds(8, k, UserPermFutures(k), t)
    PROVE  Improves(8, UserPermFutures(k), t)
<1>1. UserPermFutures(k) =
        Change(IF engine = "sqlite" THEN {} ELSE {"uploads"}, {}, {"user_ban_futures"}, {"futures"})
  BY DEF UserPermFutures, When, Nothing
<1>2. /\ (IF engine = "sqlite" THEN {} ELSE {"uploads"}) \subseteq schema
      /\ \A x \in {"user_ban_futures"} : x \notin schema \/ x \in {}
      /\ t = (schema \ {}) \cup {"user_ban_futures"}
  BY <1>1, Success
<1>3. Coherent(t)
  BY <1>2 DEF Coherent, Aware, Upgraded
<1>4. Later(schema, t)
  BY <1>2 DEF Coherent, Later, Upgraded
<1>5. Upgraded(8 + 1, t)
  BY <1>2, <1>4, LaterKeepsUpgraded DEF Upgraded, Later
<1>6. \A rs : RowsHaveTables(rs, schema) => rs \cap {"futures"} = {}
  BY <1>2 DEF RowsHaveTables
<1>7. Made(schema) => Made(t)
  BY <1>2 DEF Made
<1> QED BY <1>1, <1>3, <1>4, <1>5, <1>6, <1>7 DEF Improves, Redoes, Change

\* room_accessible.
LEMMA RoomAccessibleImproves ==
    ASSUME NEW k, NEW t, Succeeds(9, k, RoomAccessible(k), t)
    PROVE  Improves(9, RoomAccessible(k), t)
<1>1. RoomAccessible(k) =
        Change({}, PermissionViews, {"accessible"}, {})
  BY DEF RoomAccessible, When, Nothing
<1>2. /\ {} \subseteq schema
      /\ \A x \in {"accessible"} : x \notin schema \/ x \in PermissionViews
      /\ t = (schema \ PermissionViews) \cup {"accessible"}
  BY <1>1, Success
<1>3. Coherent(t)
  BY <1>2 DEF Coherent, Aware, Upgraded
<1>4. Later(schema, t)
  BY <1>2 DEF Coherent, Later, Upgraded
<1>5. Upgraded(9 + 1, t)
  BY <1>2, <1>4, LaterKeepsUpgraded DEF Upgraded, Later
<1>6. \A rs : RowsHaveTables(rs, schema) => rs \cap {} = {}
  BY <1>2 DEF RowsHaveTables
<1>7. Made(schema) => Made(t)
  BY <1>2 DEF Made
<1> QED BY <1>1, <1>3, <1>4, <1>5, <1>6, <1>7 DEF Improves, Redoes, Change

\* room_moderators.
LEMMA RoomModeratorsImproves ==
    ASSUME NEW k, NEW t, Succeeds(10, k, RoomModerators(k), t)
    PROVE  Improves(10, RoomModerators(k), t)
<1>1. RoomModerators(k) =
        Change({}, PermissionViews, {"room_moderators"}, {})
  BY DEF RoomModerators, When, Nothing
<1>2. /\ {} \subseteq schema
      /\ \A x \in {"room_moderators"} : x \notin schema \/ x \in PermissionViews
      /\ t = (schema \ PermissionViews) \cup {"room_moderators"}
  BY <1>1, Success
<1>3. Coherent(t)
  BY <1>2 DEF Coherent, Aware, Upgraded
<1>4. Later(schema, t)
  BY <1>2 DEF Coherent, Later, Upgraded
<1>5. Upgraded(10 + 1, t)
  BY <1>2, <1>4, LaterKeepsUpgraded DEF Upgraded, Later
<1>6. \A rs : RowsHaveTables(rs, schema) => rs \cap {} = {}
  BY <1>2 DEF RowsHaveTables
<1>7. Made(schema) => Made(t)
  BY <1>2 DEF Made
<1> QED BY <1>1, <1>3, <1>4, <1>5, <1>6, <1>7 DEF Improves, Redoes, Change

\* user_permissions.
LEMMA UserPermissionsImproves ==
    ASSUME NEW k, NEW t, Succeeds(11, k, UserPermissions(k), t)
    PROVE  Improves(11, UserPermissions(k), t)
<1>1. UserPermissions(k) =
        Change({}, {}, {"user_permissions"}, {})
  BY DEF UserPermissions, When, Nothing
<1>2. /\ {} \subseteq schema
      /\ \A x \in {"user_permissions"} : x \notin schema \/ x \in {}
      /\ t = (schema \ {}) \cup {"user_permissions"}
  BY <1>1, Success
<1>3. Coherent(t)
  BY <1>2 DEF Coherent, Aware, Upgraded
<1>4. Later(schema, t)
  BY <1>2 DEF Coherent, Later, Upgraded
<1>5. Upgraded(11 + 1, t)
  BY <1>2, <1>4, LaterKeepsUpgraded DEF Upgraded, Later
<1>6. \A rs : RowsHaveTables(rs, schema) => rs \cap {} = {}
  BY <1>2 DEF RowsHaveTables
<1>7. Made(schema) => Made(t)
  BY <1>2 DEF Made
<1> QED BY <1>1, <1>3, <1>4, <1>5, <1>6, <1>7 DEF Improves, Redoes, Change

\* add_reactions on SQLite.
LEMMA ReactionsSqliteImproves ==
    ASSUME NEW k, NEW t, Succeeds(5, k, AddReactions(k), t), engine = "sqlite"
    PROVE  Improves(5, AddReactions(k), t)
<1>1. AddReactions(k) =
        Change({"seqno"}, Counters \cup {"user_reactions"},
               ({"seqno_data"} \ k) \cup {"counter_data", "seqno_updater", "user_reactions"},
               {"reactions"})
  BY DEF When, Nothing, AddReactions, ReactionsSqlite
<1>2. /\ {"seqno"} \subseteq schema
      /\ \A x \in ({"seqno_data"} \ k) \cup {"counter_data", "seqno_updater", "user_reactions"} :
           x \notin schema \/ x \in Counters \cup {"user_reactions"}
      /\ t = (schema \ (Counters \cup {"user_reactions"}))
               \cup (({"seqno_data"} \ k) \cup {"counter_data", "seqno_updater", "user_reactions"})
  BY <1>1, Success
<1>3. Coherent(t)
  BY <1>2 DEF Coherent, Later, Aware, Upgraded
<1>4. Later(schema, t)
  BY <1>2 DEF Coherent, Later, Upgraded
<1>5. Upgraded(5 + 1, t)
  BY <1>2, <1>4, LaterKeepsUpgraded DEF Upgraded, Later
<1>6. \A rs : RowsHaveTables(rs, schema) => rs \cap {"reactions"} = {}
  BY <1>1, <1>2 DEF Coherent, RowsHaveTables
<1>7. "user_reactions" \notin schema
  BY <1>2 DEF Coherent
<1>8. Made(schema) => Made(t)
  BY <1>2, <1>7 DEF Made, Coherent
<1> QED BY <1>1, <1>3, <1>4, <1>5, <1>6, <1>7, <1>8 DEF Improves, Redoes, Change

\* add_reactions on PostgreSQL, which may make them anew.
LEMMA ReactionsPostgresImproves ==
    ASSUME NEW k, NEW t, Succeeds(5, k, AddReactions(k), t), engine # "sqlite"
    PROVE  Improves(5, AddReactions(k), t)
<1>1. AddReactions(k) =
        Change({"seqno"}, Counters \cup {"user_reactions", "seqno_updater"},
               ({"seqno_data"} \ k) \cup {"counter_data", "seqno_updater", "user_reactions"},
               {"reactions"})
  BY DEF When, Nothing, AddReactions, ReactionsPostgres
<1>2. /\ {"seqno"} \subseteq schema
      /\ \A x \in ({"seqno_data"} \ k) \cup {"counter_data", "seqno_updater", "user_reactions"} :
           x \notin schema \/ x \in Counters \cup {"user_reactions", "seqno_updater"}
      /\ t = (schema \ (Counters \cup {"user_reactions", "seqno_updater"}))
               \cup (({"seqno_data"} \ k) \cup {"counter_data", "seqno_updater", "user_reactions"})
  BY <1>1, Success
<1>0. "seqno_data" \in t
  BY <1>2 DEF Later
<1>3. Coherent(t)
  BY <1>0, <1>2 DEF Coherent, Later, Aware, Upgraded
<1>4. Later(schema, t)
  BY <1>2 DEF Coherent, Later, Upgraded
<1>5. Upgraded(5 + 1, t)
  BY <1>2, <1>4, LaterKeepsUpgraded DEF Upgraded, Later
<1>6. "user_reactions" \notin schema => \A rs : RowsHaveTables(rs, schema) => rs \cap {"reactions"} = {}
  BY DEF RowsHaveTables
<1>7. "user_reactions" \notin schema => Made(t)
  BY <1>2 DEF Made, Coherent
<1> QED BY <1>1, <1>3, <1>4, <1>5, <1>6, <1>7 DEF Improves, Redoes, Change

\* file_message, for a database that knows nothing of it.
LEMMA FileMessageImproves ==
    ASSUME NEW k, NEW t, Succeeds(12, k, FileMessage(k), t), "files_message_rooms" \notin k
    PROVE  Improves(12, FileMessage(k), t)
<1>1. FileMessage(k) =
        Change({}, PinTriggers, {"files_message", "pins_files"}, {})
  BY DEF When, Nothing, FileMessage
<1>2. /\ {} \subseteq schema
      /\ \A x \in {"files_message", "pins_files"} : x \notin schema \/ x \in PinTriggers
      /\ t = (schema \ PinTriggers) \cup {"files_message", "pins_files"}
  BY <1>1, Success
<1>3. Coherent(t)
  BY <1>2 DEF Coherent, Later, Aware, Upgraded
<1>4. Later(schema, t)
  BY <1>2 DEF Coherent, Later, Upgraded
<1>5. Upgraded(12 + 1, t)
  BY <1>2, <1>4, LaterKeepsUpgraded DEF Upgraded, Later
<1>6. \A rs : RowsHaveTables(rs, schema) => rs \cap {} = {}
  BY <1>1, <1>2 DEF Coherent, RowsHaveTables
<1>7. Made(schema) => Made(t)
  BY <1>2 DEF Made
<1> QED BY <1>1, <1>3, <1>4, <1>5, <1>6, <1>7 DEF Improves, Redoes, Change

\* file_message, which corrects its first form.
LEMMA FileMessageCorrects ==
    ASSUME NEW k, NEW t, Succeeds(12, k, FileMessage(k), t), "files_message_rooms" \in k
    PROVE  Improves(12, FileMessage(k), t)
<1>1. FileMessage(k) =
        Change({"files_message_rooms"}, {"files_message_rooms"}, {"files_message"}, {})
  BY DEF When, Nothing, FileMessage
<1>2. /\ {"files_message_rooms"} \subseteq schema
      /\ \A x \in {"files_message"} : x \notin schema \/ x \in {"files_message_rooms"}
      /\ t = (schema \ {"files_message_rooms"}) \cup {"files_message"}
  BY <1>1, Success
<1>3. Coherent(t)
  BY <1>2 DEF Coherent, Later, Aware, Upgraded
<1>4. Later(schema, t)
  BY <1>2 DEF Coherent, Later, Upgraded
<1>5. Upgraded(12 + 1, t)
  BY <1>2, <1>4, LaterKeepsUpgraded DEF Upgraded, Later
<1>6. \A rs : RowsHaveTables(rs, schema) => rs \cap {} = {}
  BY <1>1, <1>2 DEF Coherent, RowsHaveTables
<1>7. Made(schema) => Made(t)
  BY <1>2 DEF Made
<1> QED BY <1>1, <1>3, <1>4, <1>5, <1>6, <1>7 DEF Improves, Redoes, Change

\* fix_info_update_triggers.
LEMMA InfoTriggersImprove ==
    ASSUME NEW k, NEW t, Succeeds(13, k, FixInfoUpdateTriggers, t)
    PROVE  Improves(13, FixInfoUpdateTriggers, t)
<1>1. FixInfoUpdateTriggers =
        Change({}, {"visible_global_mods", "global_mods"}, {"global_mods"}, {})
  BY DEF When, Nothing, FixInfoUpdateTriggers
<1>2. /\ {} \subseteq schema
      /\ \A x \in {"global_mods"} : x \notin schema \/ x \in {"visible_global_mods", "global_mods"}
      /\ t = (schema \ {"visible_global_mods", "global_mods"}) \cup {"global_mods"}
  BY <1>1, Success
<1>3. Coherent(t)
  BY <1>2 DEF Coherent, Later, Aware, Upgraded
<1>4. Later(schema, t)
  BY <1>2 DEF Coherent, Later, Upgraded
<1>5. Upgraded(13 + 1, t)
  BY <1>2, <1>4, LaterKeepsUpgraded DEF Upgraded, Later
<1>6. \A rs : RowsHaveTables(rs, schema) => rs \cap {} = {}
  BY <1>1, <1>2 DEF Coherent, RowsHaveTables
<1>7. Made(schema) => Made(t)
  BY <1>2 DEF Made
<1> QED BY <1>1, <1>3, <1>4, <1>5, <1>6, <1>7 DEF Improves, Redoes, Change

HIDE DEF Counters, MessageViews, PermissionViews, PinTriggers, NewTables, NewColumns,
         Lasting, Faults, Succeeds

\* Tables that an import has left are no part of what the others are for.
LEMMA FixHacksImproves ==
    ASSUME NEW k, NEW t, Succeeds(14, k, FixHacks(k), t)
    PROVE  Improves(14, FixHacks(k), t)
<1> DEFINE orphan == {"old_room_import_hacks"} \cap k
<1>1. PICK adds \in SUBSET {"old_file_id_hacks", "file_hacks_cascade", "room_hacks_cascade"} :
        /\ FixHacks(k) = Change(orphan, orphan, adds, {})
        /\ "old_file_id_hacks" \in adds => "file_hacks_cascade" \in adds
  BY DEF Succeeds, When, Nothing, FixHacks
<1>2. Succeeds(14, k, Change(orphan, orphan, adds, {}), t)
  BY <1>1
<1>3. t = (schema \ orphan) \cup adds
  BY <1>2, Success
<1>4. Coherent(t)
  BY <1>1, <1>3 DEF Succeeds, Coherent
<1>5. Later(schema, t)
  BY <1>1, <1>3 DEF Later, Lasting, Faults, NewTables, NewColumns
<1>6. Upgraded(14 + 1, t)
  BY <1>5, LaterKeepsUpgraded DEF Succeeds, Upgraded
<1>7. Made(schema) => Made(t)
  BY <1>1, <1>3 DEF Made
<1> QED BY <1>1, <1>4, <1>5, <1>6, <1>7 DEF Improves, Redoes, Change

-----------------------------------------------------------------------------
(* All of them.                                                            *)

LEMMA MigrationsInOrder ==
    ASSUME NEW k
    PROVE  /\ Migrations(k)[2] = AddTables(k)
           /\ Migrations(k)[3] = AddColumns(k)
           /\ Migrations(k)[4] = SeqnoEtc(k)
           /\ Migrations(k)[5] = AddReactions(k)
           /\ Migrations(k)[6] = SeqnoCreation(k)
           /\ Migrations(k)[7] = RecreateViews(k)
           /\ Migrations(k)[8] = UserPermFutures(k)
           /\ Migrations(k)[9] = RoomAccessible(k)
           /\ Migrations(k)[10] = RoomModerators(k)
           /\ Migrations(k)[11] = UserPermissions(k)
           /\ Migrations(k)[12] = FileMessage(k)
           /\ Migrations(k)[13] = FixInfoUpdateTriggers
           /\ Migrations(k)[14] = FixHacks(k)
BY DEF Migrations

LEMMA SuccessImproves ==
    ASSUME NEW k, NEW t, NEW i \in 2 .. 14, Succeeds(i, k, Migrations(k)[i], t)
    PROVE  Improves(i, Migrations(k)[i], t)
<1>1. CASE i = 2
  BY <1>1, MigrationsInOrder, AddTablesImproves
<1>2. CASE i = 3
  BY <1>2, MigrationsInOrder, AddColumnsImproves
<1>3. CASE i = 4
  BY <1>3, MigrationsInOrder, SeqnoEtcImproves
<1>4. CASE i = 5
  BY <1>4, MigrationsInOrder, ReactionsSqliteImproves, ReactionsPostgresImproves
<1>5. CASE i = 6
  BY <1>5, MigrationsInOrder, SeqnoCreationImproves
<1>6. CASE i = 7
  BY <1>6, MigrationsInOrder, RecreateViewsImproves
<1>7. CASE i = 8
  BY <1>7, MigrationsInOrder, UserPermFuturesImproves
<1>8. CASE i = 9
  BY <1>8, MigrationsInOrder, RoomAccessibleImproves
<1>9. CASE i = 10
  BY <1>9, MigrationsInOrder, RoomModeratorsImproves
<1>10. CASE i = 11
  BY <1>10, MigrationsInOrder, UserPermissionsImproves
<1>11. CASE i = 12
  BY <1>11, MigrationsInOrder, FileMessageImproves, FileMessageCorrects
<1>12. CASE i = 13
  BY <1>12, MigrationsInOrder, InfoTriggersImprove
<1>13. CASE i = 14
  BY <1>13, MigrationsInOrder, FixHacksImproves
<1> QED BY <1>1, <1>2, <1>3, <1>4, <1>5, <1>6, <1>7, <1>8, <1>9, <1>10, <1>11, <1>12, <1>13

\* Only a process on PostgreSQL that knows seqno_data and no reactions makes them anew.
LEMMA RedoneByTheUnaware ==
    ASSUME NEW k, NEW t, NEW i \in 2 .. 14, Succeeds(i, k, Migrations(k)[i], t),
           Redoes(Migrations(k)[i])
    PROVE  engine # "sqlite" /\ "seqno_data" \in k /\ "user_reactions" \notin k
<1>1. i = 5
  <2>1. CASE i \in {2, 3}
    <3>1. AddTables(k).drops = {} /\ AddColumns(k).drops = {}
      BY DEF AddTables, AddColumns, When, Nothing, Change
    <3> QED BY <2>1, <3>1, MigrationsInOrder DEF Redoes
  <2>6. CASE i = 4
    <3>1. SeqnoEtc(k).drops \subseteq MessageViews \cup PermissionViews \cup PinTriggers
      BY DEF SeqnoEtc, When, Nothing, Change
    <3> QED BY <2>6, <3>1, MigrationsInOrder DEF Redoes, MessageViews, PermissionViews, PinTriggers
  <2>2. CASE i \in {6, 7, 8}
    BY <2>2, MigrationsInOrder DEF SeqnoCreation, RecreateViews, UserPermFutures, When, Nothing,
       Change, Redoes, Counters, MessageViews
  <2>3. CASE i \in {9, 10, 11}
    BY <2>3, MigrationsInOrder DEF RoomAccessible, RoomModerators, UserPermissions, When, Nothing,
       Change, Redoes, PermissionViews
  <2>4. CASE i \in {12, 13}
    BY <2>4, MigrationsInOrder DEF FileMessage, FixInfoUpdateTriggers, When, Nothing, Change,
       Redoes, PinTriggers
  <2>5. CASE i = 14
    <3>1. FixHacks(k).drops \subseteq {"old_room_import_hacks"}
      BY DEF FixHacks, When, Nothing, Change
    <3> QED BY <2>5, <3>1, MigrationsInOrder DEF Redoes
  <2> QED BY <2>1, <2>2, <2>3, <2>4, <2>5, <2>6
<1>2. Succeeds(5, k, AddReactions(k), t) /\ "user_reactions" \in schema
  BY <1>1, MigrationsInOrder DEF Redoes
<1>3. "user_reactions" \notin k
  BY <1>2 DEF Succeeds, AddReactions, When, Nothing
<1>4. Coherent(schema)
  BY <1>2 DEF Succeeds
<1>5. engine # "sqlite"
  <2> SUFFICES ASSUME engine = "sqlite" PROVE FALSE
    OBVIOUS
  <2>1. AddReactions(k) =
          Change({"seqno"}, Counters \cup {"user_reactions"},
                 ({"seqno_data"} \ k) \cup {"counter_data", "seqno_updater", "user_reactions"},
                 {"reactions"})
    BY <1>3 DEF AddReactions, ReactionsSqlite, When
  <2>2. "seqno_updater" \notin schema \/ "seqno_updater" \in Counters \cup {"user_reactions"}
    BY <1>2, <2>1, Success
  <2> QED BY <1>2, <1>4, <2>2 DEF Coherent, Counters
<1>6. "seqno_data" \in k
  <2> SUFFICES ASSUME "seqno_data" \notin k PROVE FALSE
    OBVIOUS
  <2>1. AddReactions(k) =
          Change({"seqno"}, Counters \cup {"user_reactions", "seqno_updater"},
                 ({"seqno_data"} \ k) \cup {"counter_data", "seqno_updater", "user_reactions"},
                 {"reactions"})
    BY <1>3, <1>5 DEF AddReactions, ReactionsPostgres, When
  <2>2. "seqno_data" \notin schema \/ "seqno_data" \in Counters \cup {"user_reactions", "seqno_updater"}
    BY <1>2, <2>1, Success
  <2> QED BY <1>2, <1>4, <2>2 DEF Coherent, Counters
<1> QED BY <1>3, <1>5, <1>6

\* A migration that is not needed, by what a process knows, has been made;
\* those that are looked up in the database itself, in the schema of that time.
LEMMA UnneededIsMade ==
    ASSUME NEW k, NEW s, NEW i \in 2 .. 14, ~Migrations(k)[i].needed,
           s = schema \/ i \notin {Views, Triggers, Hacks},
           Coherent(s), Coherent(k), Later(k, s), Aware(i, k), Upgraded(i, s)
    PROVE  Upgraded(i + 1, s) /\ Aware(i + 1, k)
<1>1. CASE i = 2
  <2>1. ~AddTables(k).needed
    BY <1>1, MigrationsInOrder
  <2> QED BY <1>1, <2>1 DEF AddTables, When, Change, Upgraded, Aware, Later, Coherent,
         Lasting, Faults, NewTables, NewColumns, Views, Triggers, Hacks
<1>2. CASE i = 3
  <2>1. ~AddColumns(k).needed
    BY <1>2, MigrationsInOrder
  <2> QED BY <1>2, <2>1 DEF AddColumns, When, Change, Upgraded, Aware, Later, Coherent,
         Lasting, Faults, NewTables, NewColumns, Views, Triggers, Hacks
<1>3. CASE i = 4
  <2>1. ~SeqnoEtc(k).needed
    BY <1>3, MigrationsInOrder
  <2> QED BY <1>3, <2>1 DEF SeqnoEtc, When, Change, Upgraded, Aware, Later, Coherent,
         Lasting, Faults, NewTables, NewColumns, Views, Triggers, Hacks
<1>4. CASE i = 5
  <2>1. ~AddReactions(k).needed
    BY <1>4, MigrationsInOrder
  <2> QED BY <1>4, <2>1 DEF AddReactions, ReactionsSqlite, ReactionsPostgres, When, Change, Upgraded, Aware, Later, Coherent,
         Lasting, Faults, NewTables, NewColumns, Views, Triggers, Hacks
<1>5. CASE i = 6
  <2>1. ~SeqnoCreation(k).needed
    BY <1>5, MigrationsInOrder
  <2> QED BY <1>5, <2>1 DEF SeqnoCreation, When, Change, Upgraded, Aware, Later, Coherent,
         Lasting, Faults, NewTables, NewColumns, Views, Triggers, Hacks
<1>6. CASE i = 7
  <2>1. ~RecreateViews(k).needed
    BY <1>6, MigrationsInOrder
  <2> QED BY <1>6, <2>1 DEF RecreateViews, MessageViews, When, Change, Upgraded, Aware, Later, Coherent,
         Lasting, Faults, NewTables, NewColumns, Views, Triggers, Hacks
<1>7. CASE i = 8
  <2>1. ~UserPermFutures(k).needed
    BY <1>7, MigrationsInOrder
  <2> QED BY <1>7, <2>1 DEF UserPermFutures, When, Change, Upgraded, Aware, Later, Coherent,
         Lasting, Faults, NewTables, NewColumns, Views, Triggers, Hacks
<1>8. CASE i = 9
  <2>1. ~RoomAccessible(k).needed
    BY <1>8, MigrationsInOrder
  <2> QED BY <1>8, <2>1 DEF RoomAccessible, When, Change, Upgraded, Aware, Later, Coherent,
         Lasting, Faults, NewTables, NewColumns, Views, Triggers, Hacks
<1>9. CASE i = 10
  <2>1. ~RoomModerators(k).needed
    BY <1>9, MigrationsInOrder
  <2> QED BY <1>9, <2>1 DEF RoomModerators, When, Change, Upgraded, Aware, Later, Coherent,
         Lasting, Faults, NewTables, NewColumns, Views, Triggers, Hacks
<1>10. CASE i = 11
  <2>1. ~UserPermissions(k).needed
    BY <1>10, MigrationsInOrder
  <2> QED BY <1>10, <2>1 DEF UserPermissions, PermissionViews, When, Change, Upgraded, Aware, Later, Coherent,
         Lasting, Faults, NewTables, NewColumns, Views, Triggers, Hacks
<1>11. CASE i = 12
  <2>1. ~FileMessage(k).needed
    BY <1>11, MigrationsInOrder
  <2> QED BY <1>11, <2>1 DEF FileMessage, When, Change, Upgraded, Aware, Later, Coherent,
         Lasting, Faults, NewTables, NewColumns, Views, Triggers, Hacks
<1>12. CASE i = 13
  <2>1. ~FixInfoUpdateTriggers.needed
    BY <1>12, MigrationsInOrder
  <2> QED BY <1>12, <2>1 DEF FixInfoUpdateTriggers, When, Change, Upgraded, Aware, Later, Coherent,
         Lasting, Faults, NewTables, NewColumns, Views, Triggers, Hacks
<1>13. CASE i = 14
  <2>1. ~FixHacks(k).needed
    BY <1>13, MigrationsInOrder
  <2> QED BY <1>13, <2>1 DEF FixHacks, When, Change, Upgraded, Aware
<1> QED BY <1>1, <1>2, <1>3, <1>4, <1>5, <1>6, <1>7, <1>8, <1>9, <1>10, <1>11, <1>12, <1>13

LEMMA First ==
    ASSUME NEW S \in SUBSET Nat, S # {}
    PROVE  \E n \in S : \A i \in S : n <= i
<1>1. PICK n \in S : \A i \in S : ~ (<<i, n>> \in OpToRel(<, Nat))
  <2> HIDE DEF OpToRel, IsWellFoundedOn
  <2> QED BY NatLessThanWellFounded, WFMin, Zenon
<1>2. \A i \in S : ~ (i < n)
  BY <1>1 DEF OpToRel
<1> QED BY <1>2

\* The next step is the first that is to be run, or to be looked at.
LEMMA NextStepFacts ==
    ASSUME NEW k, NEW step \in 1 .. 14
    PROVE  /\ NextStep(step, k) \in step + 1 .. Done
           /\ \A i \in step + 1 .. NextStep(step, k) - 1 :
                i \in 2 .. 14 /\ i \notin {Views, Triggers, Hacks} /\ ~Migrations(k)[i].needed
<1> DEFINE stops == {i \in step + 1 .. Done :
                       i \in {Views, Triggers, Hacks, Done} \/ Migrations(k)[i].needed}
<1>1. stops \in SUBSET Nat /\ stops # {}
  BY DEF Done
<1>3. \E n \in stops : \A i \in stops : n <= i
  <2> HIDE DEF stops
  <2> QED BY <1>1, First
<1> DEFINE next == CHOOSE j \in stops : \A i \in stops : j <= i
<1>4. next \in stops /\ \A i \in stops : next <= i
  <2> HIDE DEF stops
  <2> QED BY <1>3
<1>5. NextStep(step, k) = next
  BY Zenon DEF NextStep
<1> HIDE DEF next
<1>6. next \in step + 1 .. Done
  BY <1>4
<1>7. \A i \in step + 1 .. next - 1 : i \in step + 1 .. Done /\ i \in 2 .. 14 /\ ~ (next <= i)
  BY <1>6 DEF Done
<1> QED BY <1>4, <1>5, <1>6, <1>7

\* A process that goes on, after the i-th, comes to a step before which all has been made.
LEMMA GoesOn ==
    ASSUME NEW k, NEW s, NEW i \in 1 .. 14,
           Coherent(s), Coherent(k), Later(k, s),
           Aware(i + 1, k), Upgraded(i + 1, s)
    PROVE  LET n == NextStep(i, k)
           IN  n \in i + 1 .. Done /\ Aware(n, k) /\ Upgraded(n, s)
<1> DEFINE n == NextStep(i, k)
<1>1. /\ n \in i + 1 .. Done
      /\ \A j \in i + 1 .. n - 1 :
           j \in 2 .. 14 /\ j \notin {Views, Triggers, Hacks} /\ ~Migrations(k)[j].needed
  BY NextStepFacts
<1> HIDE DEF n
<1> DEFINE reached == {j \in i + 1 .. n : Aware(j, k) /\ Upgraded(j, s)}
<1>2. i + 1 \in reached
  BY <1>1 DEF Done
<1>3. ASSUME NEW j \in reached, j # n PROVE j + 1 \in reached
  <2>1. j \in i + 1 .. n - 1 /\ Aware(j, k) /\ Upgraded(j, s)
    BY <1>1, <1>3 DEF Done
  <2>2. j \in 2 .. 14 /\ j \notin {Views, Triggers, Hacks} /\ ~Migrations(k)[j].needed
    BY <1>1, <2>1
  <2>3. Upgraded(j + 1, s) /\ Aware(j + 1, k)
    BY <2>1, <2>2, UnneededIsMade
  <2> QED BY <1>1, <2>1, <2>3 DEF Done
<1>4. n \in reached
  <2> SUFFICES ASSUME n \notin reached PROVE FALSE
    OBVIOUS
  <2> DEFINE missed == (i + 1 .. n) \ reached
  <2>1. missed \in SUBSET Nat /\ n \in missed
    BY <1>1 DEF Done
  <2>2. PICK first \in missed : \A j \in missed : first <= j
    <3> HIDE DEF missed
    <3> QED BY <2>1, First
  <2> HIDE DEF reached
  <2>3. first - 1 \in i + 1 .. n /\ first - 1 # n
    BY <1>1, <1>2, <2>2 DEF Done
  <2>4. first - 1 \in reached
    BY <2>2, <2>3
  <2>5. (first - 1) + 1 = first
    BY <2>2
  <2> QED BY <1>3, <2>2, <2>3, <2>4, <2>5
<1> QED BY <1>1, <1>4 DEF n

\* What a migration removes before it creates leaves it nothing to fail for.
LEMMA NoConflict ==
    ASSUME NEW requires, NEW drops, NEW adds, NEW loses,
           requires \subseteq schema,
           \A x \in adds : x \notin schema \ drops,
           \A x \in adds, y \in schema \ drops :
               /\ ~ (x \in Counters /\ y \in Counters)
               /\ ~ (x \in PinTriggers /\ y \in PinTriggers)
               /\ ~ (x \in MessageViews /\ y \in MessageViews)
               /\ ~ (x \in PermissionViews /\ y \in PermissionViews)
    PROVE  ~Fails(Change(requires, drops, adds, loses), schema)
BY DEF Fails, Change, Forms

\* For a process that knows the schema, only the futures of PostgreSQL fail.
LEMMA KnownSchemaFails ==
    ASSUME Coherent(schema), NEW i \in 2 .. 14, Upgraded(i, schema),
           Migrations(schema)[i].needed, Fails(Migrations(schema)[i], schema)
    PROVE  engine # "sqlite" /\ "user_ban_futures" \notin schema
<1> SUFFICES ASSUME engine = "sqlite" \/ "user_ban_futures" \in schema PROVE FALSE
  OBVIOUS
<1>1. CASE i = 2
  <2>1. AddTables(schema).needed /\ Fails(AddTables(schema), schema)
    BY <1>1, MigrationsInOrder
  <2> QED BY <1>1, <2>1, NoConflict DEF AddTables, NewTables, When, Nothing, Upgraded, Coherent,
         Counters, PinTriggers, MessageViews, PermissionViews
<1>2. CASE i = 3
  <2>1. AddColumns(schema).needed /\ Fails(AddColumns(schema), schema)
    BY <1>2, MigrationsInOrder
  <2> QED BY <1>2, <2>1, NoConflict DEF AddColumns, NewColumns, When, Nothing, Upgraded, Coherent,
         Counters, PinTriggers, MessageViews, PermissionViews
<1>3. CASE i = 4
  <2>1. SeqnoEtc(schema).needed /\ Fails(SeqnoEtc(schema), schema)
    BY <1>3, MigrationsInOrder
  <2> QED BY <1>3, <2>1, NoConflict DEF SeqnoEtc, When, Nothing, Upgraded, Coherent,
         Counters, PinTriggers, MessageViews, PermissionViews
<1>4. CASE i = 5
  <2>1. AddReactions(schema).needed /\ Fails(AddReactions(schema), schema)
    BY <1>4, MigrationsInOrder
  <2> QED BY <1>4, <2>1, NoConflict DEF AddReactions, ReactionsSqlite, ReactionsPostgres, When, Nothing, Upgraded, Coherent,
         Counters, PinTriggers, MessageViews, PermissionViews
<1>5. CASE i = 6
  <2>1. SeqnoCreation(schema).needed /\ Fails(SeqnoCreation(schema), schema)
    BY <1>5, MigrationsInOrder
  <2> QED BY <1>5, <2>1, NoConflict DEF SeqnoCreation, When, Nothing, Upgraded, Coherent,
         Counters, PinTriggers, MessageViews, PermissionViews
<1>6. CASE i = 7
  <2>1. RecreateViews(schema).needed /\ Fails(RecreateViews(schema), schema)
    BY <1>6, MigrationsInOrder
  <2> QED BY <1>6, <2>1, NoConflict DEF RecreateViews, When, Nothing, Upgraded, Coherent,
         Counters, PinTriggers, MessageViews, PermissionViews
<1>7. CASE i = 8
  <2>1. UserPermFutures(schema).needed /\ Fails(UserPermFutures(schema), schema)
    BY <1>7, MigrationsInOrder
  <2> QED BY <1>7, <2>1, NoConflict DEF UserPermFutures, When, Nothing, Upgraded, Coherent,
         Counters, PinTriggers, MessageViews, PermissionViews
<1>8. CASE i = 9
  <2>1. RoomAccessible(schema).needed /\ Fails(RoomAccessible(schema), schema)
    BY <1>8, MigrationsInOrder
  <2> QED BY <1>8, <2>1, NoConflict DEF RoomAccessible, When, Nothing, Upgraded, Coherent,
         Counters, PinTriggers, MessageViews, PermissionViews
<1>9. CASE i = 10
  <2>1. RoomModerators(schema).needed /\ Fails(RoomModerators(schema), schema)
    BY <1>9, MigrationsInOrder
  <2> QED BY <1>9, <2>1, NoConflict DEF RoomModerators, When, Nothing, Upgraded, Coherent,
         Counters, PinTriggers, MessageViews, PermissionViews
<1>10. CASE i = 11
  <2>1. UserPermissions(schema).needed /\ Fails(UserPermissions(schema), schema)
    BY <1>10, MigrationsInOrder
  <2> QED BY <1>10, <2>1, NoConflict DEF UserPermissions, When, Nothing, Upgraded, Coherent,
         Counters, PinTriggers, MessageViews, PermissionViews
<1>11. CASE i = 12
  <2>1. FileMessage(schema).needed /\ Fails(FileMessage(schema), schema)
    BY <1>11, MigrationsInOrder
  <2> QED BY <1>11, <2>1, NoConflict DEF FileMessage, When, Nothing, Upgraded, Coherent,
         Counters, PinTriggers, MessageViews, PermissionViews
<1>12. CASE i = 13
  <2>1. FixInfoUpdateTriggers.needed /\ Fails(FixInfoUpdateTriggers, schema)
    BY <1>12, MigrationsInOrder
  <2> QED BY <1>12, <2>1, NoConflict DEF FixInfoUpdateTriggers, When, Nothing, Upgraded, Coherent,
         Counters, PinTriggers, MessageViews, PermissionViews
<1>13. CASE i = 14
  <2>1. FixHacks(schema).needed /\ Fails(FixHacks(schema), schema)
    BY <1>13, MigrationsInOrder
  <2> QED BY <1>13, <2>1, NoConflict DEF FixHacks, When, Nothing, Upgraded, Coherent,
         Counters, PinTriggers, MessageViews, PermissionViews
<1> QED BY <1>1, <1>2, <1>3, <1>4, <1>5, <1>6, <1>7, <1>8, <1>9, <1>10, <1>11, <1>12, <1>13

-----------------------------------------------------------------------------
(* Where a server starts from.                                             *)

LEMMA CurrentFacts ==
    /\ Coherent(Current) /\ Made(Current) /\ Current # {}
    /\ \A i \in ImportStep .. Done : Upgraded(i, Current)
  BY DEF Coherent, Made, Current, Upgraded, NewTables, NewColumns, ImportStep, Done

\* Whatever version made it.
LEMMA OldIsCoherent ==
    ASSUME NEW m \in Missing
    PROVE  /\ Coherent(OldSchema(Spelt(m))) /\ Made(OldSchema(Spelt(m)))
           /\ OldSchema(Spelt(m)) # {}
<1> DEFINE missing == Spelt(m)
           s == OldSchema(missing)
<1>1. /\ m \subseteq {"tables", "columns", "seqno", "seqno_data", "user_reactions",
                      "seqno_creation", "user_ban_futures", "accessible", "room_moderators",
                      "files_message", "global_mods"}
      /\ "seqno" \in m => {"seqno_data", "files_message"} \subseteq m
      /\ "seqno_data" \in m => "user_reactions" \in m
      /\ "user_reactions" \in m => "seqno_creation" \in m
  BY DEF Missing, Follows
<1>2. /\ \A x \in {"seqno", "seqno_data", "user_reactions", "seqno_creation", "accessible",
                   "room_moderators", "files_message", "global_mods"} : x \in missing <=> x \in m
      /\ missing \cap Outdated = {}
      /\ "old_file_id_hacks" \notin missing
      /\ missing \cap {"counter_creation", "pins_files", "message_views",
                       "user_permissions", "seqno_updater"} = {}
  BY <1>1 DEF Spelt, NewTables, NewColumns, Outdated
<1> HIDE DEF missing
<1>3. /\ \A x \in {"seqno", "seqno_data", "user_reactions", "seqno_creation", "accessible",
                   "room_moderators", "files_message", "global_mods"} : x \in s <=> x \notin m
      /\ "seqno_updater" \in s <=> "user_reactions" \notin m
      /\ "visible_global_mods" \in s <=> "global_mods" \in m
      /\ "counter_creation" \in s <=> "seqno_creation" \notin m
      /\ "counter_data" \in s => "seqno_creation" \in m /\ "seqno_data" \notin m
      /\ "counter_plain" \in s => "seqno_creation" \in m /\ "seqno_data" \in m
      /\ "pins_files" \in s <=> "files_message" \notin m
      /\ "pins_info" \in s => "files_message" \in m
      /\ "pins_plain" \in s => "seqno" \in m
      /\ "message_views" \in s <=> "seqno_creation" \notin m
      /\ {"message_views_data", "message_views_plain"} \cap s # {} => "seqno_creation" \in m
      /\ "user_permissions" \in s <=> m \cap {"accessible", "room_moderators", "seqno"} = {}
      /\ "old_user_permissions" \in s <=> m \cap {"accessible", "room_moderators", "seqno"} # {}
      /\ s \cap {"files_message_rooms", "old_file_id_hacks"} = {}
  BY <1>2 DEF OldSchema, Current, NewTables, NewColumns, Outdated
<1>4. s # {}
  BY <1>3
<1>5. Coherent(s)
  <2> HIDE DEF s
  <2> QED BY <1>1, <1>3 DEF Coherent
<1>6. Made(s)
  BY <1>3 DEF Made
<1> QED BY <1>4, <1>5, <1>6 DEF missing

LEMMA MigrationInitInv == MigrationInit => MigrationInv
<1> SUFFICES ASSUME MigrationInit PROVE MigrationInv
  OBVIOUS
<1>1. proc = [p \in Procs |-> Ended("down")] /\ rows = {} /\ redone = FALSE
  BY DEF MigrationInit
<1>2. (schema # {} => Coherent(schema)) /\ Made(schema)
  <2>1. CASE schema \in {{}, Current}
    BY <2>1, CurrentFacts DEF Made
  <2>2. CASE \E m \in Missing, h \in HacksLeft : \E s \in Faulty(OldSchema(Spelt(m))) : schema = s \cup h
    <3>1. PICK m \in Missing, h \in HacksLeft : \E s \in Faulty(OldSchema(Spelt(m))) : schema = s \cup h
      BY <2>2
    <3>2. PICK s \in Faulty(OldSchema(Spelt(m))) : schema = s \cup h
      BY <3>1
    <3>3. Coherent(OldSchema(Spelt(m))) /\ Made(OldSchema(Spelt(m)))
      BY OldIsCoherent
    <3>4. Coherent(s) /\ Made(s)
      BY <3>3 DEF Faulty, Coherent, Made
    <3>5. h \subseteq HackTables \ {"old_file_id_hacks"}
      BY DEF HacksLeft
    <3> QED BY <3>2, <3>4, <3>5 DEF Coherent, Made, HackTables
  <2> QED BY <2>1, <2>2 DEF MigrationInit
<1>3. \A p \in Procs : ProcInv(p)
  BY <1>1 DEF ProcInv, Ended
<1>4. RowsHaveTables(rows, schema) /\ redone \in BOOLEAN
  BY <1>1 DEF RowsHaveTables
<1>5. engine \in {"sqlite", "postgresql"}
  BY DEF MigrationInit
<1> QED BY <1>1, <1>2, <1>3, <1>4, <1>5 DEF MigrationInv, Ended

-----------------------------------------------------------------------------
(* Steps.                                                                  *)

\* A process whose start has ended, with success only where all has been made.
Ends(p) ==
    /\ proc'[p].state \in {"down", "failed", "create", "up"}
    /\ proc'[p].state = "up" => schema' # {} /\ Upgraded(Done, schema')

\* A process that goes through the migrations knows a schema there was.
GoesThrough(p) ==
    LET step == proc'[p].step
        known == proc'[p].known
    IN  /\ proc'[p].state \in {"migrate", "importing"}
        /\ proc'[p].state = "importing" => step = ImportStep
        /\ step \in ImportStep .. Done
        /\ Coherent(known) /\ Later(known, schema')
        /\ Aware(step, known) /\ Upgraded(step, schema')

\* What lasts, lasts for the other processes.
LEMMA StepKeepsInv ==
    ASSUME MigrationInv, engine' = engine,
           NEW p \in Procs, DOMAIN proc' = Procs,
           DOMAIN proc'[p] = {"state", "checkOnly", "step", "known"},
           \A q \in Procs \ {p} : proc'[q] = proc[q],
           proc'[p] = proc[p] \/ Ends(p) \/ (schema' # {} /\ GoesThrough(p)),
           schema # {} => schema' # {}, Later(schema, schema'),
           schema' # {} => Coherent(schema'),
           RowsHaveTables(rows', schema'), redone' \in BOOLEAN, redone' \/ Made(schema')
    PROVE  MigrationInv'
<1>1. ASSUME NEW q \in Procs, proc'[q] = proc[q] PROVE ProcInv(q)'
  <2>1. ProcInv(q)
    BY DEF MigrationInv
  <2>2. \A k : Later(k, schema) => Later(k, schema')
    BY DEF Later
  <2>3. \A i : Upgraded(i, schema) => Upgraded(i, schema')
    BY LaterKeepsUpgraded
  <2> QED BY <1>1, <2>1, <2>2, <2>3 DEF ProcInv
<1>2. CASE proc'[p] = proc[p]
  BY <1>1, <1>2 DEF MigrationInv
<1>3. CASE Ends(p)
  <2>1. ProcInv(p)'
    BY <1>3 DEF Ends, ProcInv
  <2> QED BY <1>1, <2>1 DEF MigrationInv
<1>4. CASE schema' # {} /\ GoesThrough(p)
  <2>1. ProcInv(p)'
    BY <1>4 DEF GoesThrough, ProcInv
  <2> QED BY <1>1, <2>1 DEF MigrationInv
<1> QED BY <1>2, <1>3, <1>4

\* What a process becomes.
LEMMA EndedFacts ==
    ASSUME MigrationInv, NEW p \in Procs, NEW state, End(p, state)
    PROVE  /\ DOMAIN proc' = Procs
           /\ DOMAIN proc'[p] = {"state", "checkOnly", "step", "known"}
           /\ \A q \in Procs \ {p} : proc'[q] = proc[q]
           /\ proc'[p].state = state
BY DEF MigrationInv, End, Ended

LEMMA AdvanceFacts ==
    ASSUME MigrationInv, NEW p \in Procs, NEW k, Advance(p, k)
    PROVE  /\ DOMAIN proc' = Procs
           /\ DOMAIN proc'[p] = {"state", "checkOnly", "step", "known"}
           /\ \A q \in Procs \ {p} : proc'[q] = proc[q]
           /\ proc'[p].state = proc[p].state
           /\ proc'[p].step = NextStep(proc[p].step, k)
           /\ proc'[p].known = k
BY DEF MigrationInv, Advance

LEMMA LaterFacts == \A s : Later(s, s)
  BY DEF Later

LEMMA StartInv ==
    ASSUME MigrationInv, NEW p \in Procs, NEW mode \in Modes, Start(p, mode)
    PROVE  MigrationInv'
<1>1. UNCHANGED database
  BY DEF Start
<1>2. CASE End(p, "failed") \/ End(p, "create")
  BY <1>1, <1>2, EndedFacts, LaterFacts, StepKeepsInv DEF Ends, database, MigrationInv
<1>3. CASE /\ schema # {}
           /\ proc' = [proc EXCEPT ![p] =
                [state |-> "migrate", checkOnly |-> mode = "check", step |-> ImportStep,
                 known |-> schema]]
  <2>1. /\ DOMAIN proc' = Procs
        /\ \A q \in Procs \ {p} : proc'[q] = proc[q]
        /\ proc'[p] = [state |-> "migrate", checkOnly |-> mode = "check", step |-> ImportStep,
                       known |-> schema]
    BY <1>3 DEF MigrationInv
  <2>2. GoesThrough(p)
    BY <1>1, <1>3, <2>1, LaterFacts
       DEF GoesThrough, MigrationInv, Aware, Upgraded, ImportStep, Done, database
  <2> QED BY <1>1, <1>3, <2>1, <2>2, LaterFacts, StepKeepsInv DEF database, MigrationInv
<1> QED BY <1>2, <1>3 DEF Start

LEMMA CreateInv ==
    ASSUME MigrationInv, NEW p \in Procs, CreateSchema(p)
    PROVE  MigrationInv'
<1>1. UNCHANGED <<engine, rows, redone>>
  BY DEF CreateSchema
<1>2. CASE /\ schema = {} /\ schema' = Current
           /\ proc' = [proc EXCEPT ![p] =
                [state |-> "migrate", checkOnly |-> FALSE, step |-> ImportStep,
                 known |-> Current]]
  <2>1. /\ DOMAIN proc' = Procs
        /\ \A q \in Procs \ {p} : proc'[q] = proc[q]
        /\ proc'[p] = [state |-> "migrate", checkOnly |-> FALSE, step |-> ImportStep,
                       known |-> Current]
    BY <1>2 DEF MigrationInv
  <2>2. GoesThrough(p)
    BY <1>2, <2>1, CurrentFacts, LaterFacts
       DEF GoesThrough, MigrationInv, Aware, Upgraded, ImportStep, Done
  <2>3. Later(schema, schema') /\ RowsHaveTables(rows, schema')
    BY <1>2 DEF Later, Faults, Current, NewTables, NewColumns, MigrationInv, RowsHaveTables
  <2>4. redone' \in BOOLEAN /\ Made(schema')
    BY <1>1, <1>2 DEF Made, Current, MigrationInv
  <2> QED BY <1>1, <1>2, <2>1, <2>2, <2>3, <2>4, CurrentFacts, StepKeepsInv
<1>3. CASE UNCHANGED schema /\ End(p, "failed")
  BY <1>1, <1>3, EndedFacts, LaterFacts, StepKeepsInv DEF Ends, MigrationInv
<1> QED BY <1>2, <1>3 DEF CreateSchema

\* A process that has come through the i-th by what it knows.
LEMMA AdvanceInv ==
    ASSUME MigrationInv, NEW p \in Procs, NEW k, engine' = engine,
           DOMAIN proc' = Procs,
           DOMAIN proc'[p] = {"state", "checkOnly", "step", "known"},
           \A q \in Procs \ {p} : proc'[q] = proc[q],
           proc[p].step \in ImportStep .. Hacks,
           proc'[p].state = "migrate",
           proc'[p].step = NextStep(proc[p].step, k),
           proc'[p].known = k,
           schema # {}, schema' # {}, Later(schema, schema'),
           Coherent(schema'), Coherent(k), Later(k, schema'),
           Aware(proc[p].step + 1, k), Upgraded(proc[p].step + 1, schema'),
           RowsHaveTables(rows', schema'), redone' \in BOOLEAN, redone' \/ Made(schema')
    PROVE  MigrationInv'
<1> DEFINE n == NextStep(proc[p].step, k)
<1>1. proc[p].step \in 1 .. 14
  BY DEF ImportStep, Hacks
<1>2. n \in proc[p].step + 1 .. Done /\ Aware(n, k) /\ Upgraded(n, schema')
  BY <1>1, GoesOn
<1> HIDE DEF n
<1>3. n \in ImportStep .. Done
  BY <1>1, <1>2 DEF ImportStep, Done
<1>4. proc'[p].step = n
  BY DEF n
<1>5. GoesThrough(p)
  <2>1. Aware(proc'[p].step, proc'[p].known)
    BY <1>2, <1>4
  <2>2. Upgraded(proc'[p].step, schema')
    BY <1>2, <1>4
  <2> QED BY <1>3, <1>4, <2>1, <2>2 DEF GoesThrough
<1> QED BY <1>5, StepKeepsInv

LEMMA SkipImportInv ==
    ASSUME MigrationInv, NEW p \in Procs, SkipImport(p)
    PROVE  MigrationInv'
<1>1. /\ proc[p].state = "migrate" /\ proc[p].step = ImportStep
      /\ Advance(p, proc[p].known) /\ UNCHANGED <<engine, schema, rows, redone>>
  BY DEF SkipImport, database
<1>2. Aware(ImportStep + 1, proc[p].known) /\ Upgraded(ImportStep + 1, schema)
  BY DEF Aware, Upgraded, ImportStep
<1>3. schema # {} /\ Coherent(proc[p].known) /\ Later(proc[p].known, schema)
  BY <1>1 DEF MigrationInv, ProcInv
<1>4. proc[p].step \in ImportStep .. Hacks
  BY <1>1 DEF ImportStep, Hacks
<1> QED BY <1>1, <1>2, <1>3, <1>4, AdvanceFacts, LaterFacts, AdvanceInv DEF MigrationInv

LEMMA ImportOldInv ==
    ASSUME MigrationInv, NEW p \in Procs, ImportOld(p)
    PROVE  MigrationInv'
<1>1. /\ proc[p].state = "migrate" /\ proc[p].step = ImportStep
      /\ UNCHANGED <<engine, schema, rows, redone>>
  BY DEF ImportOld
<1>2. CASE End(p, "failed")
  BY <1>1, <1>2, EndedFacts, LaterFacts, StepKeepsInv DEF Ends, MigrationInv
<1>3. CASE proc' = [proc EXCEPT ![p].state = "importing"]
  <2>1. /\ DOMAIN proc' = Procs
        /\ DOMAIN proc'[p] = {"state", "checkOnly", "step", "known"}
        /\ \A q \in Procs \ {p} : proc'[q] = proc[q]
        /\ proc'[p].state = "importing"
        /\ proc'[p].step = proc[p].step /\ proc'[p].known = proc[p].known
    BY <1>3 DEF MigrationInv
  <2>2. GoesThrough(p) /\ schema # {}
    BY <1>1, <2>1 DEF GoesThrough, MigrationInv, ProcInv
  <2> QED BY <1>1, <2>1, <2>2, LaterFacts, StepKeepsInv DEF MigrationInv
<1> QED BY <1>2, <1>3 DEF ImportOld

LEMMA CommitImportInv ==
    ASSUME MigrationInv, NEW p \in Procs, CommitImport(p)
    PROVE  MigrationInv'
<1>1. /\ proc[p].state = "importing" /\ proc[p].step = ImportStep /\ schema # {}
      /\ Coherent(schema)
      /\ UNCHANGED <<engine, rows, redone>>
  BY DEF CommitImport, MigrationInv, ProcInv
<1>2. PICK added \in SUBSET {"room_import_hacks", "room_hacks_cascade", "file_id_hacks", "file_hacks_cascade"} :
        schema' = schema \cup added
  <2>1. PICK hacks \in SUBSET {{"room_import_hacks", "room_hacks_cascade"},
                               {"file_id_hacks", "file_hacks_cascade"}} :
          schema' = schema \cup UNION hacks
    BY DEF CommitImport
  <2>2. UNION hacks \subseteq {"room_import_hacks", "room_hacks_cascade", "file_id_hacks", "file_hacks_cascade"}
    OBVIOUS
  <2> QED BY <2>1, <2>2
<1>3. Coherent(schema') /\ schema' # {}
  BY <1>1, <1>2 DEF Coherent
<1>4. Later(schema, schema') /\ RowsHaveTables(rows', schema') /\ redone' \in BOOLEAN /\ (redone' \/ Made(schema'))
  BY <1>1, <1>2 DEF Later, Faults, RowsHaveTables, Made, MigrationInv
<1>5. /\ DOMAIN proc' = Procs
      /\ DOMAIN proc'[p] = {"state", "checkOnly", "step", "known"}
      /\ \A q \in Procs \ {p} : proc'[q] = proc[q]
      /\ proc'[p].state = "migrate"
      /\ proc'[p].step = NextStep(proc[p].step, schema')
      /\ proc'[p].known = schema'
  BY <1>1 DEF CommitImport, MigrationInv
<1>6. Aware(ImportStep + 1, schema') /\ Upgraded(ImportStep + 1, schema')
  BY DEF Aware, Upgraded, ImportStep
<1>7. proc[p].step \in ImportStep .. Hacks
  BY <1>1 DEF ImportStep, Hacks
<1> QED BY <1>1, <1>3, <1>4, <1>5, <1>6, <1>7, LaterFacts, AdvanceInv

LEMMA UpgradedIsAware ==
    ASSUME NEW i \in 2 .. 15, NEW s, Upgraded(i, s) PROVE Aware(i, s)
  BY DEF Upgraded, Aware

\* A migration that succeeds leaves what the next ones start from, and the rows there are.
LEMMA ApplyFacts ==
    ASSUME MigrationInv, NEW p \in Procs, proc[p].state = "migrate",
           proc[p].step \in ImportStep + 1 .. Hacks, Apply(p)
    PROVE  /\ schema # {} /\ schema' # {} /\ Coherent(schema') /\ Later(schema, schema')
           /\ Upgraded(proc[p].step + 1, schema')
           /\ redone' \in BOOLEAN /\ (redone' \/ Made(schema'))
           /\ \/ UNCHANGED <<rows, redone>>
              \/ /\ engine = "postgresql" /\ rows \ rows' \subseteq {"reactions"}
                 /\ Unaware(p)
<1> DEFINE c == Migrations(proc[p].known)[proc[p].step]
<1>1. /\ c.needed /\ ~Fails(c, schema) /\ schema' = Result(c, schema) /\ rows' = rows \ c.loses
      /\ redone' = (redone \/ Redoes(c))
  BY DEF Apply, Redoes
<1>2. proc[p].step \in 2 .. 14
  BY DEF ImportStep, Hacks
<1>3. schema # {} /\ Succeeds(proc[p].step, proc[p].known, c, schema')
  BY <1>1 DEF Succeeds, MigrationInv, ProcInv
<1>4. Improves(proc[p].step, c, schema')
  BY <1>2, <1>3, SuccessImproves
<1> HIDE DEF c
<1>6. schema' # {}
  <2>1. "global_mods" \in schema' \/ "visible_global_mods" \in schema'
    BY <1>4 DEF Improves, Coherent
  <2> QED BY <2>1
<1>5. CASE ~Redoes(c)
  <2>1. rows \cap c.loses = {} /\ (Made(schema) => Made(schema'))
    BY <1>4, <1>5 DEF Improves, MigrationInv
  <2>2. UNCHANGED <<rows, redone>> /\ redone' \in BOOLEAN /\ (redone' \/ Made(schema'))
    BY <1>1, <1>5, <2>1 DEF MigrationInv
  <2> QED BY <1>1, <1>3, <1>4, <1>6, <2>2 DEF Improves
<1>7. CASE Redoes(c)
  <2>1. engine # "sqlite" /\ Unaware(p)
    BY <1>2, <1>3, <1>7, RedoneByTheUnaware DEF c, Unaware
  <2>2. redone' /\ redone' \in BOOLEAN /\ rows \ rows' \subseteq {"reactions"}
    BY <1>1, <1>4, <1>7 DEF Improves, MigrationInv
  <2> QED BY <1>1, <1>3, <1>4, <1>6, <2>1, <2>2 DEF Improves, MigrationInv
<1> QED BY <1>5, <1>7

LEMMA MigrateInv ==
    ASSUME MigrationInv, NEW p \in Procs, Migrate(p)
    PROVE  MigrationInv'
<1>1. /\ proc[p].state = "migrate"
      /\ proc[p].step \in ImportStep + 1 .. Hacks
      /\ proc[p].step \in ImportStep .. Hacks /\ proc[p].step \in 2 .. 14
  BY DEF Migrate, ImportStep, Hacks
<1>2. CASE Apply(p)
  <2>1. /\ schema # {} /\ schema' # {} /\ Coherent(schema') /\ Later(schema, schema')
        /\ Upgraded(proc[p].step + 1, schema')
        /\ redone' \in BOOLEAN /\ (redone' \/ Made(schema'))
    BY <1>1, <1>2, ApplyFacts
  <2>2. Advance(p, schema') /\ engine' = engine
    BY <1>2 DEF Apply
  <2>3. RowsHaveTables(rows', schema')
    BY <1>2, <2>1 DEF Apply, RowsHaveTables, Later, Lasting, MigrationInv
  <2>4. Aware(proc[p].step + 1, schema')
    BY <1>1, <2>1, UpgradedIsAware
  <2> QED BY <1>1, <2>1, <2>2, <2>3, <2>4, AdvanceFacts, LaterFacts, AdvanceInv
<1>3. CASE Skip(p)
  <2>1. /\ ~Migrations(proc[p].known)[proc[p].step].needed
        /\ Advance(p, proc[p].known) /\ UNCHANGED <<engine, schema, rows, redone>>
    BY <1>3 DEF Skip, database
  <2>2. /\ schema # {} /\ Coherent(schema)
        /\ Coherent(proc[p].known) /\ Later(proc[p].known, schema)
        /\ Aware(proc[p].step, proc[p].known) /\ Upgraded(proc[p].step, schema)
    BY <1>1 DEF MigrationInv, ProcInv
  <2>3. Upgraded(proc[p].step + 1, schema) /\ Aware(proc[p].step + 1, proc[p].known)
    BY <1>1, <2>1, <2>2, UnneededIsMade
  <2> QED BY <1>1, <2>1, <2>2, <2>3, AdvanceFacts, LaterFacts, AdvanceInv DEF MigrationInv
<1>4. CASE Refuse(p)
  <2>1. End(p, "failed") /\ UNCHANGED <<engine, schema, rows, redone>>
    BY <1>4 DEF Refuse, database
  <2> QED BY <2>1, EndedFacts, LaterFacts, StepKeepsInv DEF Ends, MigrationInv
<1> QED BY <1>2, <1>3, <1>4 DEF Migrate

LEMMA FinishInv ==
    ASSUME MigrationInv, NEW p \in Procs, Finish(p)
    PROVE  MigrationInv'
<1>1. End(p, "up") /\ UNCHANGED <<engine, schema, rows, redone>>
  BY DEF Finish, database
<1>2. schema # {} /\ Upgraded(Done, schema)
  BY DEF Finish, MigrationInv, ProcInv
<1> QED BY <1>1, <1>2, EndedFacts, LaterFacts, StepKeepsInv DEF Ends, MigrationInv

\* A server that is up stores rows in tables that are of their final form.
LEMMA UseInv ==
    ASSUME MigrationInv, NEW p \in Procs, Use(p)
    PROVE  MigrationInv'
<1>1. UNCHANGED <<engine, schema, redone, proc>>
  BY DEF Use
<1>2. Upgraded(Done, schema)
  BY DEF Use, MigrationInv, ProcInv
<1>3. RowsHaveTables(rows', schema)
  BY <1>2 DEF Upgraded, RowsHaveTables, Done
<1> QED BY <1>1, <1>3, LaterFacts, StepKeepsInv DEF MigrationInv

LEMMA MigrationNextInv ==
    ASSUME MigrationInv, [MigrationNext]_migrationVars
    PROVE  MigrationInv'
<1>1. CASE \E p \in Procs : \E mode \in Modes : Start(p, mode)
  BY <1>1, StartInv
<1>2. CASE \E p \in Procs : CreateSchema(p)
  BY <1>2, CreateInv
<1>3. CASE \E p \in Procs : SkipImport(p)
  BY <1>3, SkipImportInv
<1>4. CASE \E p \in Procs : ImportOld(p)
  BY <1>4, ImportOldInv
<1>5. CASE \E p \in Procs : CommitImport(p)
  BY <1>5, CommitImportInv
<1>6. CASE \E p \in Procs : Migrate(p)
  BY <1>6, MigrateInv
<1>7. CASE \E p \in Procs : Finish(p)
  BY <1>7, FinishInv
<1>8. CASE \E p \in Procs : Use(p)
  BY <1>8, UseInv
<1>9. CASE \E p \in Procs : ExpireAttachments(p)
  BY <1>9, LaterFacts, StepKeepsInv DEF ExpireAttachments, MigrationInv
<1>10. CASE \E p \in Procs : Stop(p)
  <2>1. PICK p \in Procs : Stop(p)
    BY <1>10
  <2>2. End(p, "down") /\ UNCHANGED <<engine, schema, rows, redone>>
    BY <2>1 DEF Stop, database
  <2> QED BY <2>2, EndedFacts, LaterFacts, StepKeepsInv DEF Ends, MigrationInv
<1>11. CASE UNCHANGED migrationVars
  BY <1>11 DEF migrationVars, database, MigrationInv, ProcInv
<1> QED
  BY <1>1, <1>2, <1>3, <1>4, <1>5, <1>6, <1>7, <1>8, <1>9, <1>10, <1>11 DEF MigrationNext

-----------------------------------------------------------------------------
(* Theorems about Migrations.                                              *)

\* The invariant of the schema and of what each process makes of it.
THEOREM MigrationInvHolds == MigrationSpec => []MigrationInv
<1>1. MigrationInv /\ [MigrationNext]_migrationVars => MigrationInv'
  BY MigrationNextInv
<1> QED BY MigrationInitInv, <1>1, PTL DEF MigrationSpec

\* A process that is up has the current schema and nothing of an older one, whatever
\* version made it, however many processes migrate it at the same time and whenever they
\* are stopped, but for the trigger of seqno_creation once the reactions have been made
\* anew (migrate, database_init, reactions.py).
THEOREM UpServersAreCurrent == MigrationSpec => []UpIsCurrent
<1>1. ASSUME MigrationInv PROVE UpIsCurrent
  <2> SUFFICES ASSUME NEW p \in Procs, proc[p].state = "up"
               PROVE  \/ IsCurrent(schema)
                      \/ redone /\ IsCurrent((schema \ {"counter_data"}) \cup {"counter_creation"})
    BY DEF UpIsCurrent
  <2>1. Coherent(schema) /\ Upgraded(Done, schema) /\ (redone \/ Made(schema))
    BY <1>1 DEF MigrationInv, ProcInv
  <2>2. IsCurrent((schema \ {"counter_data"}) \cup {"counter_creation"})
    BY <2>1 DEF Coherent, Upgraded, Done, IsCurrent, Current, Outdated, NewTables, NewColumns
  <2>3. CASE Made(schema)
    <3>1. (schema \ {"counter_data"}) \cup {"counter_creation"} = schema
      BY <2>1, <2>3 DEF Made, Coherent, Upgraded, Done
    <3> QED BY <2>2, <3>1
  <2> QED BY <2>1, <2>2, <2>3
<1>2. MigrationInv => UpIsCurrent
  BY <1>1
<1> QED BY <1>2, MigrationInvHolds, PTL

\* No migration drops a table with rows in it, nor makes one anew, though it may be run by
\* a process that does not know yet that the table is of its final form; but that of the
\* reactions on PostgreSQL, by a process that reflected seqno_data without it.
THEOREM MigrationsKeepRows == MigrationSpec => RowsKept
<1> DEFINE Kept ==
        \/ rows \subseteq rows' /\ redone' = redone
        \/ /\ engine = "postgresql"
           /\ rows \ rows' \subseteq {"reactions"}
           /\ \E p \in Procs : Unaware(p) /\ proc'[p] # proc[p]
<1>1. MigrationInv /\ [MigrationNext]_migrationVars => [Kept]_migrationVars
  <2> SUFFICES ASSUME MigrationInv, MigrationNext PROVE Kept
    OBVIOUS
  <2>1. PICK p \in Procs :
          \/ \E mode \in Modes : Start(p, mode)
          \/ CreateSchema(p) \/ SkipImport(p) \/ ImportOld(p) \/ CommitImport(p)
          \/ Migrate(p) \/ Finish(p)
          \/ Use(p) \/ ExpireAttachments(p) \/ Stop(p)
    BY DEF MigrationNext
  <2>2. CASE Migrate(p)
    <3>1. CASE Apply(p)
      <4>1. proc[p].step \in 2 .. 14 /\ Advance(p, schema')
        BY <2>2, <3>1 DEF Migrate, Apply, ImportStep, Hacks
      <4>2. proc'[p].step = NextStep(proc[p].step, schema')
        BY <4>1, AdvanceFacts
      <4>3. proc'[p] # proc[p]
        BY <4>1, <4>2, NextStepFacts DEF Done
      <4> QED BY <2>2, <3>1, <4>3, ApplyFacts DEF Migrate
    <3>2. CASE Skip(p) \/ Refuse(p)
      BY <3>2 DEF Skip, Refuse, database
    <3> QED BY <2>2, <3>1, <3>2 DEF Migrate
  <2>3. CASE ~Migrate(p)
    BY <2>1, <2>3 DEF Start, CreateSchema, SkipImport, ImportOld, CommitImport, Finish, Use,
                      ExpireAttachments, Stop, database
  <2> QED BY <2>2, <2>3
<1> QED BY <1>1, MigrationInvHolds, PTL DEF MigrationSpec, RowsKept

\* An upgrade that fails does so because another process has changed the schema, or for
\* one of two reasons that are known (user_perm_futures and import_hacks).
THEOREM FailuresHaveAReason == MigrationSpec => StartsFailForAReason
<1> DEFINE Reason(p) ==
        \/ proc[p].known # schema
        \/ engine = "postgresql" /\ "user_ban_futures" \notin schema
        \/ "file_id_hacks" \in schema /\ ~attachments
      Fails1(p) == proc[p].state = "migrate" /\ proc'[p].state = "failed" /\ ~proc[p].checkOnly
<1>1. MigrationInv /\ [MigrationNext]_migrationVars =>
        [\A p \in Procs : Fails1(p) => Reason(p)]_migrationVars
  <2> SUFFICES ASSUME MigrationInv, MigrationNext, NEW p \in Procs, Fails1(p) PROVE Reason(p)
    OBVIOUS
  <2>1. PICK q \in Procs :
          \/ \E mode \in Modes : Start(q, mode)
          \/ CreateSchema(q) \/ SkipImport(q) \/ ImportOld(q) \/ CommitImport(q)
          \/ Migrate(q) \/ Finish(q)
          \/ Use(q) \/ ExpireAttachments(q) \/ Stop(q)
    BY DEF MigrationNext
  <2>2. ASSUME NEW k, Advance(q, k) PROVE FALSE
    BY <2>2, AdvanceFacts
  <2>3. ASSUME NEW state, End(q, state) PROVE p = q /\ state = "failed"
    BY <2>3, EndedFacts
  <2>4. proc' # proc
    OBVIOUS
  <2>5. Migrate(q) /\ Refuse(q) /\ p = q
    <3>1. ~ \E mode \in Modes : Start(q, mode)
      <4> SUFFICES ASSUME NEW mode \in Modes, Start(q, mode) PROVE FALSE
        OBVIOUS
      <4>1. p # q
        BY DEF Start
      <4> QED BY <2>3, <4>1 DEF Start, MigrationInv
    <3>2. ~CreateSchema(q)
      <4> SUFFICES ASSUME CreateSchema(q) PROVE FALSE
        OBVIOUS
      <4>1. p # q
        BY DEF CreateSchema
      <4> QED BY <2>3, <4>1 DEF CreateSchema, MigrationInv
    <3>3. ~SkipImport(q)
      BY <2>2 DEF SkipImport
    <3>4. ~ImportOld(q)
      <4> SUFFICES ASSUME ImportOld(q) PROVE FALSE
        OBVIOUS
      <4>1. CASE proc[q].checkOnly /\ End(q, "failed")
        BY <2>3, <4>1
      <4>2. CASE proc' = [proc EXCEPT ![q].state = "importing"]
        BY <4>2 DEF MigrationInv
      <4> QED BY <4>1, <4>2 DEF ImportOld
    <3>5. ~CommitImport(q)
      <4> SUFFICES ASSUME CommitImport(q) PROVE FALSE
        OBVIOUS
      <4>1. \A r \in Procs : proc'[r].state = proc[r].state \/ proc'[r].state = "migrate"
        BY DEF CommitImport, MigrationInv
      <4> QED BY <4>1
    <3>6. ~Finish(q)
      BY <2>3 DEF Finish
    <3>7. ~Use(q) /\ ~ExpireAttachments(q)
      BY <2>4 DEF Use, ExpireAttachments
    <3>8. ~Stop(q)
      BY <2>3 DEF Stop
    <3>9. Migrate(q)
      BY <2>1, <3>1, <3>2, <3>3, <3>4, <3>5, <3>6, <3>7, <3>8
    <3>10. Refuse(q)
      BY <2>2, <3>9 DEF Migrate, Apply, Skip
    <3> QED BY <2>3, <3>9, <3>10 DEF Refuse
  <2> SUFFICES ASSUME proc[p].known = schema PROVE Reason(p)
    OBVIOUS
  <2> DEFINE c == Migrations(schema)[proc[p].step]
  <2>6. Blocked(p) \/ (c.needed /\ Fails(c, schema))
    BY <2>5 DEF Refuse
  <2>7. CASE Blocked(p)
    BY <2>7 DEF Blocked
  <2>8. CASE c.needed /\ Fails(c, schema)
    <3>1. proc[p].step \in 2 .. 14 /\ Coherent(schema) /\ Upgraded(proc[p].step, schema)
      BY <2>5 DEF Migrate, ImportStep, Hacks, MigrationInv, ProcInv
    <3>2. engine # "sqlite" /\ "user_ban_futures" \notin schema
      BY <2>8, <3>1, KnownSchemaFails
    <3> QED BY <3>2 DEF MigrationInv
  <2> QED BY <2>6, <2>7, <2>8
<1> QED BY <1>1, MigrationInvHolds, PTL DEF MigrationSpec, StartsFailForAReason
-----------------------------------------------------------------------------
(* The import of the old rooms.                                            *)

HasTop(S) ==
    /\ S \subseteq Nat
    /\ Top(S) \in S \cup {0}
    /\ \A i \in S : i <= Top(S)

\* What is added to an id of 0.1.x.
OffsetOf(hacks, r) == IF r \in DOMAIN hacks THEN hacks[r].offset ELSE 0

ImportTypes ==
    /\ postgres \in BOOLEAN
    /\ old \in [RoomSet -> OldRoom]
    /\ todo \in Seq(RoomSet) /\ IsInjective(todo)
    /\ HasTop(DOMAIN messages) /\ 0 \notin DOMAIN messages
    /\ \A id \in DOMAIN messages :
         messages[id] \in [room : RoomSet, old : Nat, deleted : BOOLEAN, seqno : Nat]
    /\ serial \in Nat
    /\ sequence \in [RoomSet -> Nat]
    /\ DOMAIN roomHacks \subseteq RoomSet
    /\ \A r \in DOMAIN roomHacks : roomHacks[r] \in [max : Int, offset : Int]
    /\ client \in [room : RoomSet, after : Nat, since : Nat, sentBefore : SUBSET Nat,
                   sent : SUBSET Nat, asked : SUBSET Nat, older : SUBSET Nat]

\* Numbers of a room go up from what its old clients have heard.
NumbersGoOn ==
    /\ \A id \in DOMAIN messages :
         messages[id].seqno <= sequence[messages[id].room]
    /\ IF client.room \in ToSet(todo)
       THEN client.since <= Len(old[client.room].deletions)
       ELSE client.since <= sequence[client.room]

\* The messages of a room that is imported have their old ids plus its offset; of the
\* others nothing is there.
IdsAreMapped ==
    /\ \A id \in DOMAIN messages :
         /\ messages[id].room \notin ToSet(todo)
         /\ messages[id].old # 0 =>
              /\ messages[id].old \in old[messages[id].room].messages
              /\ id = messages[id].old + OffsetOf(roomHacks, messages[id].room)
    /\ \A r \in RoomSet \ ToSet(todo) : \A m \in old[r].messages :
         /\ m + OffsetOf(roomHacks, r) \in DOMAIN messages
         /\ messages[m + OffsetOf(roomHacks, r)].room = r
         /\ messages[m + OffsetOf(roomHacks, r)].old = m
    /\ \A r \in DOMAIN roomHacks :
         /\ r \notin ToSet(todo)
         /\ roomHacks[r].max \in old[r].messages \cup {-1}
         /\ \A m \in old[r].messages : m <= roomHacks[r].max

\* Files and the map of their old ids agree.
FilesAreMapped ==
    /\ HasTop(DOMAIN files)
    /\ \A f \in DOMAIN files :
         /\ f <= MaxFile
         /\ files[f] \in [room : RoomSet, old : OldFiles \cup {0}]
         /\ files[f].room \notin ToSet(todo)
         /\ files[f].old # 0 =>
              /\ <<files[f].room, files[f].old>> \in DOMAIN fileHacks
              /\ fileHacks[<<files[f].room, files[f].old>>] = f
    /\ \A x \in DOMAIN fileHacks :
         /\ x \in RoomSet \X OldFiles
         /\ fileHacks[x] \in DOMAIN files
         /\ files[fileHacks[x]] = [room |-> x[1], old |-> x[2]]

\* There are posts only once all rooms are imported; on SQLite their ids go up from
\* those of the imported messages.
PostsComeLast ==
    /\ ToSet(todo) # {} => \A id \in DOMAIN messages : messages[id].old # 0
    /\ \/ postgres
       \/ \A i, j \in DOMAIN messages : messages[i].old # 0 /\ messages[j].old = 0 => i < j

ImportInv == ImportTypes /\ NumbersGoOn /\ IdsAreMapped /\ FilesAreMapped /\ PostsComeLast

Visible(r) == {m \in DOMAIN messages : messages[m].room = r /\ ~messages[m].deleted}

\* An id that a client of a room asks from, as the server maps it.
Mapped(hacks, r, id) ==
    IF r \in DOMAIN hacks /\ id <= hacks[r].max THEN id + hacks[r].offset ELSE id

\* The last message that a client has got.
ReachedBy(hacks, c) == IF c.after \in c.sent THEN c.after ELSE Mapped(hacks, c.room, c.after)

\* A client has a message, or has not got it for one of the known reasons.
Accounted(c, hacks, pg, row, m) ==
    \/ m \in c.sent \/ row.old \in c.sentBefore \/ m \in c.older
    \/ row.old # 0 /\ \E id \in c.asked \cap c.sent : id < m /\ m <= Mapped(hacks, c.room, id)
    \/ pg /\ row.old = 0

\* What there is up to an id is accounted for.
Covers(c, hacks, pg, log, id) ==
    \A m \in DOMAIN log :
      log[m].room = c.room /\ ~log[m].deleted /\ m <= id => Accounted(c, hacks, pg, log[m], m)

\* A client has what is there up to the last message it has got, and new ones come after it.
CursorIsCovered ==
    IF client.room \in ToSet(todo)
    THEN /\ client.after \in {0} \cup old[client.room].messages
         /\ client.sentBefore = {m \in old[client.room].messages : m <= client.after}
         /\ client.sent = {}
    ELSE client.after # 0 =>
           /\ ReachedBy(roomHacks, client) <= Top(DOMAIN messages)
           /\ Covers(client, roomHacks, postgres, messages, ReachedBy(roomHacks, client))

-----------------------------------------------------------------------------
(* Sets of numbers, sequences, functions.                                  *)

\* A set of numbers up to a bound has a greatest one, or none.
LEMMA BoundedHasTop ==
    ASSUME NEW S \in SUBSET Nat, NEW n \in Nat, \A i \in S : i <= n
    PROVE  HasTop(S)
<1>1. CASE S = {}
  BY <1>1 DEF HasTop, Top
<1>2. CASE S # {}
  <2> DEFINE gaps == {g \in Nat : n - g \in S}
  <2>1. \A i \in S : n - i \in gaps /\ n - (n - i) = i
    OBVIOUS
  <2>2. gaps \in SUBSET Nat /\ gaps # {}
    BY <1>2, <2>1
  <2>3. PICK g \in gaps : \A h \in gaps : g <= h
    <3> HIDE DEF gaps
    <3> QED BY <2>2, First
  <2>4. n - g \in S /\ \A i \in S : i <= n - g
    BY <2>1, <2>3
  <2>5. \E x \in S : \A i \in S : i <= x
    BY <2>4
  <2>6. Top(S) \in S /\ \A i \in S : i <= Top(S)
    BY <1>2, <2>5, Zenon DEF Top
  <2> QED BY <2>6 DEF HasTop
<1> QED BY <1>1, <1>2

LEMMA TopFacts ==
    ASSUME NEW S, HasTop(S)
    PROVE  Top(S) \in Nat /\ Top(S) + 1 \notin S
<1> DEFINE top == Top(S)
<1>1. S \subseteq Nat /\ top \in S \cup {0} /\ \A i \in S : i <= top
  BY DEF HasTop
<1> HIDE DEF top
<1>2. top \in Nat
  BY <1>1
<1>3. top + 1 \notin S
  BY <1>1, <1>2
<1> QED BY <1>2, <1>3 DEF top

\* Numbers above the greatest of a set go on from it.
LEMMA TopGoesOn ==
    ASSUME NEW S, HasTop(S), NEW T \in SUBSET Nat, HasTop(T)
    PROVE  HasTop(S \cup T) /\ Top(S) <= Top(S \cup T)
<1>1. Top(S) \in Nat /\ Top(T) \in Nat /\ S \cup T \in SUBSET Nat
  BY TopFacts DEF HasTop
<1>2. \A i \in S \cup T : i <= Top(S) + Top(T)
  BY <1>1 DEF HasTop
<1> DEFINE n == Top(S) + Top(T)
           U == S \cup T
<1>3. n \in Nat
  BY <1>1
<1>4. HasTop(U)
  <2> HIDE DEF n, U
  <2>1. U \in SUBSET Nat /\ \A i \in U : i <= n
    BY <1>1, <1>2 DEF n, U
  <2> QED BY <1>3, <2>1, BoundedHasTop
<1>5. \A i \in S : i <= Top(U)
  BY <1>4 DEF HasTop
<1>6. Top(U) \in Nat /\ Top(S) \in S \cup {0}
  BY <1>4, TopFacts DEF HasTop
<1>7. Top(S) <= Top(U)
  <2> HIDE DEF U
  <2>1. CASE Top(S) \in S
    BY <1>5, <2>1
  <2>2. CASE Top(S) = 0
    BY <1>6, <2>2
  <2> QED BY <1>6, <2>1, <2>2
<1> QED BY <1>4, <1>7

\* The greatest of a set is one of it, and below what bounds it.
LEMMA TopBelow ==
    ASSUME NEW S, HasTop(S), NEW n \in Nat, \A i \in S : i <= n
    PROVE  Top(S) <= n /\ (S # {} => Top(S) \in S)
<1> DEFINE top == Top(S)
<1>1. S \subseteq Nat /\ top \in S \cup {0} /\ \A i \in S : i <= top
  BY DEF HasTop
<1> HIDE DEF top
<1>2. top <= n
  BY <1>1
<1>3. ASSUME S # {}
      PROVE  top \in S
  <2>1. PICK i \in S : TRUE
    BY <1>3
  <2>2. i \in Nat /\ i <= top
    BY <1>1
  <2> QED BY <1>1, <2>2
<1> QED BY <1>2, <1>3 DEF top

LEMMA SubsetHasTop ==
    ASSUME NEW S, HasTop(S), NEW T \in SUBSET S
    PROVE  HasTop(T)
<1>1. T \in SUBSET Nat /\ Top(S) \in Nat /\ \A i \in T : i <= Top(S)
  BY TopFacts DEF HasTop
<1> QED BY <1>1, BoundedHasTop

\* The least set of numbers that has no bound would lose none of its elements.
LEMMA FiniteHasTop ==
    ASSUME NEW S \in SUBSET Nat, IsFiniteSet(S)
    PROVE  HasTop(S)
<1> DEFINE bounded(T) == \E n \in Nat : \A i \in T : i <= n
           unbounded == {T \in FiniteSubsetsOf(S) : ~bounded(T)}
<1>1. SUFFICES ASSUME S \in unbounded
               PROVE  FALSE
  BY BoundedHasTop DEF FiniteSubsetsOf
<1>2. PICK T \in unbounded : \A U \in unbounded : ~ (<<U, T>> \in StrictSubsetOrdering(S))
  <2> HIDE DEF bounded, StrictSubsetOrdering, IsWellFoundedOn
  <2> QED BY <1>1, FS_StrictSubsetOrderingWellFounded, WFMin, Zenon
<1>3. PICK x \in T : TRUE
  OBVIOUS
<1>4. T \ {x} \in FiniteSubsetsOf(S) /\ T \in SUBSET S /\ x \in Nat
  BY FS_RemoveElement DEF FiniteSubsetsOf
<1>5. bounded(T \ {x})
  <2>1. <<T \ {x}, T>> \in StrictSubsetOrdering(S)
    BY <1>4 DEF StrictSubsetOrdering
  <2>2. T \ {x} \notin unbounded
    BY <1>2, <2>1
  <2> QED BY <1>4, <2>2
<1>6. bounded(T)
  <2>1. PICK n \in Nat : \A i \in T \ {x} : i <= n
    BY <1>5
  <2>2. CASE x <= n
    BY <2>1, <2>2
  <2>3. CASE ~(x <= n)
    BY <1>4, <2>1, <2>3
  <2> QED BY <2>2, <2>3
<1> QED BY <1>6

LEMMA SetToSeqFacts ==
    ASSUME NEW S, IsFiniteSet(S)
    PROVE  /\ Len(SetToSeq(S)) \in Nat
           /\ SetToSeq(S) \in [1 .. Len(SetToSeq(S)) -> S]
           /\ \A i, j \in 1 .. Len(SetToSeq(S)) : SetToSeq(S)[i] = SetToSeq(S)[j] => i = j
           /\ \A x \in S : \E i \in 1 .. Len(SetToSeq(S)) : SetToSeq(S)[i] = x
<1> DEFINE n == Cardinality(S)
           names == SetToSeq(S)
<1>1. n \in Nat /\ ExistsBijection(1 .. n, S)
  BY FS_CardinalityType
<1>2. \E f \in [1 .. n -> S] : IsInjective(f)
  BY <1>1 DEF ExistsBijection, Bijection, Injection
<1>3. names \in [1 .. n -> S] /\ IsInjective(names)
  BY <1>2, Zenon DEF SetToSeq
<1> HIDE DEF names
<1>4. names \in Injection(1 .. n, S)
  BY <1>3 DEF Injection
<1>5. Cardinality(1 .. n) = n
  BY <1>1, FS_Interval
<1>6. names \in Surjection(1 .. n, S)
  BY <1>4, <1>5, FS_Injection
<1>7. names \in Seq(S) /\ Len(names) = n
  BY <1>1, <1>3
<1> QED BY <1>1, <1>3, <1>6, <1>7 DEF IsInjective, Surjection, names

\* The rooms that remain when the first has been imported.
LEMMA TodoFacts ==
    ASSUME todo \in Seq(RoomSet), IsInjective(todo), todo # << >>
    PROVE  /\ Head(todo) \in RoomSet
           /\ Tail(todo) \in Seq(RoomSet) /\ IsInjective(Tail(todo))
           /\ ToSet(Tail(todo)) = ToSet(todo) \ {Head(todo)}
           /\ Head(todo) \in ToSet(todo)
<1>1. Len(todo) \in Nat /\ Len(todo) # 0 /\ DOMAIN todo = 1 .. Len(todo)
  OBVIOUS
<1>2. Head(todo) = todo[1] /\ 1 \in DOMAIN todo
  BY <1>1
<1>3. /\ Tail(todo) \in Seq(RoomSet)
      /\ DOMAIN Tail(todo) = 1 .. (Len(todo) - 1)
      /\ \A i \in 1 .. (Len(todo) - 1) : Tail(todo)[i] = todo[i + 1]
  BY <1>1
<1>4. IsInjective(Tail(todo))
  BY <1>1, <1>3 DEF IsInjective
<1>5. ASSUME NEW x \in ToSet(todo) \ {Head(todo)}
      PROVE  x \in ToSet(Tail(todo))
  <2>1. PICK i \in 1 .. Len(todo) : x = todo[i] /\ i # 1
    BY <1>1, <1>2 DEF ToSet
  <2>2. i - 1 \in 1 .. (Len(todo) - 1) /\ Tail(todo)[i - 1] = todo[i]
    BY <1>1, <1>3, <2>1
  <2> QED BY <1>3, <2>1, <2>2 DEF ToSet
<1>6. ASSUME NEW x \in ToSet(Tail(todo))
      PROVE  x \in ToSet(todo) \ {Head(todo)}
  <2>1. PICK i \in 1 .. (Len(todo) - 1) : x = todo[i + 1]
    BY <1>3 DEF ToSet
  <2>2. i + 1 \in DOMAIN todo /\ i + 1 # 1
    BY <1>1, <2>1
  <2> QED BY <1>2, <2>1, <2>2 DEF ToSet, IsInjective
<1>7. Head(todo) \in RoomSet /\ Head(todo) \in ToSet(todo)
  BY <1>1, <1>2 DEF ToSet
<1>8. ToSet(Tail(todo)) = ToSet(todo) \ {Head(todo)}
  BY <1>5, <1>6
<1> QED BY <1>3, <1>4, <1>7, <1>8

-----------------------------------------------------------------------------
(* The old rooms.                                                          *)

LEMMA OldFacts ==
    ASSUME old \in [RoomSet -> OldRoom], NEW r \in RoomSet
    PROVE  /\ old[r].messages \in SUBSET Nat /\ IsFiniteSet(old[r].messages)
           /\ 0 \notin old[r].messages
           /\ old[r].files \in SUBSET OldFiles /\ IsFiniteSet(old[r].files)
           /\ Len(old[r].deletions) \in Nat
           /\ IsFiniteSet(Deletions(r))
<1>1. /\ old[r].messages \in SUBSET OldIds
      /\ old[r].files \in SUBSET OldFiles
      /\ old[r].deletions \in BoundedSeq(OldIds, MaxDeletions)
  BY DEF OldRoom
<1>2. PICK n \in 0 .. MaxDeletions : old[r].deletions \in [1 .. n -> OldIds]
  BY <1>1 DEF BoundedSeq, SeqOf
<1>3. n \in Nat /\ old[r].deletions \in Seq(OldIds)
  BY <1>2, ImportAssumption
<1>4. Len(old[r].deletions) \in Nat
  BY <1>3
<1>5. Deletions(r) \in SUBSET OldIds
  BY <1>2 DEF Deletions, ToSet
<1> QED BY <1>1, <1>4, <1>5, ImportAssumption, FS_Subset

\* The imported messages come after all there are.
LEMMA OffsetFacts ==
    ASSUME ImportTypes, NEW r \in RoomSet
    PROVE  /\ Offset(r) \in Int
           /\ \A m \in old[r].messages :
                m + Offset(r) \in Nat /\ Top(DOMAIN messages) < m + Offset(r)
<1>1. Top(DOMAIN messages) \in Nat
  BY TopFacts DEF ImportTypes
<1>2. old[r].messages \in SUBSET Nat
  BY OldFacts DEF ImportTypes
<1>3. CASE old[r].messages = {}
  <2>1. Offset(r) = Top(DOMAIN messages) + 1 - 0
    BY <1>3 DEF Offset
  <2> QED BY <1>1, <1>3, <2>1
<1>4. CASE old[r].messages # {}
  <2> DEFINE first == CHOOSE m \in old[r].messages : \A n \in old[r].messages : m <= n
  <2>1. \E m \in old[r].messages : \A n \in old[r].messages : m <= n
    BY <1>2, <1>4, First
  <2>2. first \in old[r].messages /\ \A n \in old[r].messages : first <= n
    BY <2>1, Zenon
  <2>3. Offset(r) = Top(DOMAIN messages) + 1 - first
    BY <1>4 DEF Offset
  <2> HIDE DEF first
  <2> QED BY <1>1, <1>2, <2>2, <2>3
<1> QED BY <1>3, <1>4

\* The counter starts above the numbers of the deletions, and those clients ask from.
LEMMA ImportedNumbers ==
    ASSUME old \in [RoomSet -> OldRoom], NEW r \in RoomSet
    PROVE  /\ ImportedSequence(r) \in Nat
           /\ Len(old[r].deletions) <= ImportedSequence(r)
           /\ \A m : ImportedSeqno(r, m) \in Nat /\ ImportedSeqno(r, m) <= ImportedSequence(r)
<1>1. Len(old[r].deletions) \in Nat /\ IsFiniteSet(Deletions(r))
  BY OldFacts
<1>2. Cardinality(Deletions(r)) \in Nat
  BY <1>1, FS_CardinalityType
<1>3. /\ ImportedSequence(r) \in Nat
      /\ Len(old[r].deletions) <= ImportedSequence(r)
      /\ Cardinality(Deletions(r)) <= ImportedSequence(r)
  BY <1>1, <1>2 DEF ImportedSequence
<1>4. ASSUME NEW m
      PROVE  ImportedSeqno(r, m) \in Nat /\ ImportedSeqno(r, m) <= ImportedSequence(r)
  <2>1. {d \in Deletions(r) : d <= m} \in SUBSET Deletions(r)
    OBVIOUS
  <2>2. /\ Cardinality({d \in Deletions(r) : d <= m}) \in Nat
        /\ Cardinality({d \in Deletions(r) : d <= m}) <= Cardinality(Deletions(r))
    BY <1>1, <2>1, FS_Subset, FS_CardinalityType
  <2> QED BY <1>2, <1>3, <2>2 DEF ImportedSeqno
<1> QED BY <1>3, <1>4

\* What the import of a room leaves behind in the messages and in room_import_hacks.
LEMMA ImportedRows ==
    ASSUME ImportTypes, NEW r \in RoomSet, ImportMessages(r), r \notin DOMAIN roomHacks
    PROVE  LET offset == Offset(r)
           IN  /\ DOMAIN messages' = DOMAIN messages \cup {m + offset : m \in old[r].messages}
               /\ \A id \in DOMAIN messages : messages'[id] = messages[id]
               /\ \A m \in old[r].messages :
                    /\ m + offset \notin DOMAIN messages
                    /\ messages'[m + offset] =
                         [room |-> r, old |-> m, deleted |-> m \in Deletions(r),
                          seqno |-> ImportedSeqno(r, m)]
               /\ \A id \in DOMAIN messages' \ DOMAIN messages :
                    \E m \in old[r].messages :
                      /\ id = m + offset
                      /\ messages'[id] =
                           [room |-> r, old |-> m, deleted |-> m \in Deletions(r),
                            seqno |-> ImportedSeqno(r, m)]
               /\ HasTop(DOMAIN messages') /\ 0 \notin DOMAIN messages'
               /\ Top(DOMAIN messages) <= Top(DOMAIN messages')
               /\ OffsetOf(roomHacks', r) = offset
               /\ \A q \in RoomSet \ {r} : OffsetOf(roomHacks', q) = OffsetOf(roomHacks, q)
<1> DEFINE offset == Offset(r)
           ids == {m + offset : m \in old[r].messages}
           row(m) == [room |-> r, old |-> m, deleted |-> m \in Deletions(r),
                      seqno |-> ImportedSeqno(r, m)]
           moved == [id \in ids |-> row(id - offset)]
<1>1. /\ offset \in Int
      /\ \A m \in old[r].messages : m + offset \in Nat /\ Top(DOMAIN messages) < m + offset
  BY OffsetFacts
<1>2. old[r].messages \in SUBSET Nat /\ HasTop(old[r].messages)
  BY OldFacts, FiniteHasTop DEF ImportTypes
<1>3. messages' = Extend(messages, moved)
  BY DEF ImportMessages
<1>4. HasTop(DOMAIN messages) /\ 0 \notin DOMAIN messages
  BY DEF ImportTypes
<1>5. Top(DOMAIN messages) \in Nat
  BY <1>4, TopFacts
<1>6. \A m \in old[r].messages : m + offset \notin DOMAIN messages /\ m + offset \in ids
  <2> HIDE DEF offset
  <2> QED BY <1>1, <1>4, <1>5 DEF HasTop
<1>7. ids \in SUBSET Nat /\ 0 \notin ids
  <2> HIDE DEF offset
  <2> QED BY <1>1, <1>5
<1>8. HasTop(ids)
  <2>1. CASE ids = {}
    BY <2>1 DEF HasTop, Top
  <2>2. CASE ids # {}
    <3> DEFINE top == Top(old[r].messages) + offset
    <3> HIDE DEF offset
    <3>1. Top(old[r].messages) \in old[r].messages
      BY <1>2, <2>2 DEF HasTop, Top
    <3>2. \A i \in ids : i <= top
      BY <1>1, <1>2, <3>1 DEF HasTop
    <3>3. top \in Nat
      BY <1>1, <3>1
    <3> HIDE DEF top, ids
    <3> QED BY <1>7, <3>2, <3>3, BoundedHasTop
  <2> QED BY <2>1, <2>2
<1>9. /\ DOMAIN messages' = DOMAIN messages \cup ids
      /\ \A id \in ids : messages'[id] = row(id - offset)
      /\ \A id \in DOMAIN messages \ ids : messages'[id] = messages[id]
  <2>1. DOMAIN moved = ids /\ \A id \in ids : moved[id] = row(id - offset)
    OBVIOUS
  <2> HIDE DEF moved, ids, row, offset
  <2> QED BY <1>3, <2>1 DEF Extend
<1>10. \A m \in old[r].messages : messages'[m + offset] = row(m)
  <2> HIDE DEF row, ids, offset
  <2>1. ASSUME NEW m \in old[r].messages
        PROVE  messages'[m + offset] = row(m)
    <3> DEFINE id == m + offset
    <3>1. id \in ids
      BY <1>6, Zenon
    <3>2. id - offset = m
      BY <1>1, <1>2
    <3> HIDE DEF id
    <3>3. messages'[id] = row(id - offset)
      BY <1>9, <3>1
    <3>4. messages'[id] = row(m)
      BY <3>2, <3>3
    <3> QED BY <3>4 DEF id
  <2> QED BY <2>1
<1>11. /\ HasTop(DOMAIN messages') /\ 0 \notin DOMAIN messages'
       /\ Top(DOMAIN messages) <= Top(DOMAIN messages')
  <2> HIDE DEF ids
  <2> QED BY <1>4, <1>7, <1>8, <1>9, TopGoesOn
<1>12. /\ OffsetOf(roomHacks', r) = offset
       /\ \A q \in RoomSet \ {r} : OffsetOf(roomHacks', q) = OffsetOf(roomHacks, q)
  <2>1. CASE offset = 0
    BY <2>1 DEF ImportMessages, OffsetOf
  <2>2. CASE offset # 0
    <3> DEFINE hack == [max |-> IF old[r].messages = {} THEN -1 ELSE Top(old[r].messages),
                        offset |-> offset]
               added == [x \in {r} |-> hack]
    <3>1. roomHacks' = Extend(roomHacks, added)
      BY <2>2 DEF ImportMessages
    <3>2. DOMAIN added = {r} /\ added[r] = hack /\ hack.offset = offset
      OBVIOUS
    <3> HIDE DEF added, hack, offset, ids, row
    <3>3. /\ DOMAIN roomHacks' = DOMAIN roomHacks \cup {r}
          /\ roomHacks'[r] = hack
          /\ \A q \in DOMAIN roomHacks \ {r} : roomHacks'[q] = roomHacks[q]
      BY <3>1, <3>2 DEF Extend
    <3> QED BY <3>2, <3>3 DEF OffsetOf
  <2> QED BY <2>1, <2>2
<1>13. \A id \in DOMAIN messages : messages'[id] = messages[id]
  <2>1. \A id \in DOMAIN messages : id \notin ids
    BY <1>6
  <2> HIDE DEF ids
  <2> QED BY <1>9, <2>1
<1>14. ASSUME NEW id \in DOMAIN messages' \ DOMAIN messages
       PROVE  \E m \in old[r].messages : id = m + offset /\ messages'[id] = row(m)
  <2>1. id \in ids
    BY <1>9
  <2>2. PICK m \in old[r].messages : id = m + offset
    BY <2>1
  <2>3. messages'[m + offset] = row(m)
    BY <1>10, <2>2
  <2> QED BY <2>2, <2>3, Zenon
<1> QED BY <1>6, <1>9, <1>10, <1>11, <1>12, <1>13, <1>14

\* The files of a room get ids of their own, and their old ones lead to them.
LEMMA ImportFilesInv ==
    ASSUME old \in [RoomSet -> OldRoom], FilesAreMapped, todo' = Tail(todo),
           NEW r \in RoomSet, r \in ToSet(todo), ToSet(Tail(todo)) = ToSet(todo) \ {r},
           ImportFiles(r)
    PROVE  FilesAreMapped'
<1> DEFINE top == Top(DOMAIN files)
<1>1. HasTop(DOMAIN files) /\ top \in Nat
  BY TopFacts DEF FilesAreMapped
<1>2. PICK readable \in SUBSET old[r].files :
        LET names == SetToSeq(readable)
            new == [id \in {top + i : i \in 1 .. Len(names)} |-> names[id - top]]
        IN  /\ top + Len(names) <= MaxFile
            /\ files' = Extend(files, [id \in DOMAIN new |-> [room |-> r, old |-> new[id]]])
            /\ fileHacks' = Extend(fileHacks,
                 [x \in {<<r, f>> : f \in readable} |->
                    CHOOSE id \in DOMAIN new : new[id] = x[2]])
  BY DEF ImportFiles
<1> DEFINE names == SetToSeq(readable)
           new == [id \in {top + i : i \in 1 .. Len(names)} |-> names[id - top]]
           idOf(f) == CHOOSE id \in DOMAIN new : new[id] = f
           kept == [id \in DOMAIN new |-> [room |-> r, old |-> new[id]]]
           hacks == [x \in {<<r, f>> : f \in readable} |-> idOf(x[2])]
<1>3. /\ Len(names) \in Nat
      /\ names \in [1 .. Len(names) -> readable]
      /\ \A i, j \in 1 .. Len(names) : names[i] = names[j] => i = j
      /\ \A f \in readable : \E i \in 1 .. Len(names) : names[i] = f
  <2>1. IsFiniteSet(readable)
    BY OldFacts, FS_Subset
  <2> QED BY <2>1, SetToSeqFacts
<1>4. /\ DOMAIN new \in SUBSET Nat
      /\ \A id \in DOMAIN new : /\ top < id /\ id <= top + Len(names)
                              /\ id - top \in 1 .. Len(names)
                              /\ new[id] = names[id - top]
      /\ \A i \in 1 .. Len(names) : top + i \in DOMAIN new /\ new[top + i] = names[i]
  <2> HIDE DEF names, top
  <2>1. \A i \in 1 .. Len(names) : top + i \in Nat /\ top + i - top = i
    BY <1>1, <1>3
  <2> QED BY <1>1, <1>3, <2>1
<1>5. /\ \A id \in DOMAIN new : new[id] \in readable /\ id <= MaxFile
      /\ \A i, j \in DOMAIN new : new[i] = new[j] => i = j
      /\ \A f \in readable : \E id \in DOMAIN new : new[id] = f
  <2>1. top + Len(names) <= MaxFile
    BY <1>2
  <2> HIDE DEF new, names, top
  <2>2. \A id \in DOMAIN new : new[id] \in readable /\ id <= MaxFile
    BY <1>1, <1>3, <1>4, <2>1, ImportAssumption
  <2>3. \A i, j \in DOMAIN new : new[i] = new[j] => i = j
    BY <1>1, <1>3, <1>4
  <2>4. \A f \in readable : \E id \in DOMAIN new : new[id] = f
    BY <1>3, <1>4
  <2> QED BY <2>2, <2>3, <2>4
<1>6. HasTop(DOMAIN new)
  <2> DEFINE n == top + Len(names)
  <2>1. n \in Nat /\ \A id \in DOMAIN new : id <= n
    BY <1>1, <1>3, <1>4
  <2> HIDE DEF new, n
  <2> QED BY <1>4, <2>1, BoundedHasTop
<1>7. files' = Extend(files, kept) /\ fileHacks' = Extend(fileHacks, hacks)
  BY <1>2
<1> HIDE DEF new, names, top
<1>8. \A f \in readable : idOf(f) \in DOMAIN new /\ new[idOf(f)] = f
  BY <1>5, Zenon
<1>9. \A id \in DOMAIN new : idOf(new[id]) = id
  BY <1>5, <1>8
<1>10. /\ DOMAIN files' = DOMAIN files \cup DOMAIN new
       /\ \A id \in DOMAIN new : files'[id] = [room |-> r, old |-> new[id]]
       /\ \A id \in DOMAIN files : id \notin DOMAIN new /\ files'[id] = files[id]
  <2>1. \A id \in DOMAIN files : id \notin DOMAIN new
    BY <1>1, <1>4 DEF HasTop, top
  <2> QED BY <1>7, <2>1 DEF Extend
<1> HIDE DEF idOf
<1>11. /\ DOMAIN fileHacks' = DOMAIN fileHacks \cup {<<r, f>> : f \in readable}
       /\ \A f \in readable : fileHacks'[<<r, f>>] = idOf(f)
       /\ \A x \in DOMAIN fileHacks : x[1] # r /\ fileHacks'[x] = fileHacks[x]
  <2>1. ASSUME NEW x \in DOMAIN fileHacks
        PROVE  x[1] # r
    <3> DEFINE f == fileHacks[x]
    <3>1. f \in DOMAIN files /\ files[f] = [room |-> x[1], old |-> x[2]]
      BY DEF FilesAreMapped
    <3> HIDE DEF f
    <3>2. files[f].room # r
      BY <3>1 DEF FilesAreMapped
    <3> QED BY <3>1, <3>2
  <2>2. /\ DOMAIN hacks = {<<r, f>> : f \in readable}
        /\ \A f \in readable : hacks[<<r, f>>] = idOf(f)
    OBVIOUS
  <2> HIDE DEF hacks
  <2> QED BY <1>7, <2>1, <2>2 DEF Extend
<1>12. HasTop(DOMAIN files')
  BY <1>1, <1>4, <1>6, <1>10, TopGoesOn
<1>13. ASSUME NEW f \in DOMAIN files'
       PROVE  /\ f <= MaxFile
              /\ files'[f] \in [room : RoomSet, old : OldFiles \cup {0}]
              /\ files'[f].room \notin ToSet(todo')
              /\ files'[f].old # 0 =>
                   /\ <<files'[f].room, files'[f].old>> \in DOMAIN fileHacks'
                   /\ fileHacks'[<<files'[f].room, files'[f].old>>] = f
  <2>1. CASE f \in DOMAIN new
    <3>1. new[f] \in readable /\ new[f] \in OldFiles
      BY <1>5, <2>1, OldFacts
    <3>2. files'[f] = [room |-> r, old |-> new[f]] /\ idOf(new[f]) = f /\ f <= MaxFile
      BY <1>5, <1>9, <1>10, <2>1
    <3> QED BY <1>11, <3>1, <3>2
  <2>2. CASE f \in DOMAIN files
    <3>1. files'[f] = files[f]
      BY <1>10, <2>2
    <3> QED BY <1>11, <2>2, <3>1 DEF FilesAreMapped
  <2> QED BY <1>10, <2>1, <2>2
<1>14. ASSUME NEW x \in DOMAIN fileHacks'
       PROVE  /\ x \in RoomSet \X OldFiles
              /\ fileHacks'[x] \in DOMAIN files'
              /\ files'[fileHacks'[x]] = [room |-> x[1], old |-> x[2]]
  <2>1. CASE \E f \in readable : x = <<r, f>>
    <3>1. PICK f \in readable : x = <<r, f>>
      BY <2>1
    <3>2. fileHacks'[x] = idOf(f) /\ f \in OldFiles
      BY <1>11, <3>1, OldFacts
    <3>3. idOf(f) \in DOMAIN new /\ new[idOf(f)] = f
      BY <1>8 DEF idOf
    <3> QED BY <1>10, <3>1, <3>2, <3>3
  <2>2. CASE x \in DOMAIN fileHacks
    BY <1>10, <1>11, <2>2 DEF FilesAreMapped
  <2> QED BY <1>11, <2>1, <2>2
<1> QED BY <1>12, <1>13, <1>14 DEF FilesAreMapped

-----------------------------------------------------------------------------
(* Steps of the import, of the server and of its old client.               *)

LEMMA ImportInitInv == ImportInit => ImportInv /\ CursorIsCovered
<1> SUFFICES ASSUME ImportInit
             PROVE  ImportInv /\ CursorIsCovered
  OBVIOUS
<1>1. old \in [RoomSet -> OldRoom] /\ todo = Rooms
  BY DEF ImportInit
<1>2. /\ DOMAIN messages = {} /\ DOMAIN files = {}
      /\ DOMAIN roomHacks = {} /\ DOMAIN fileHacks = {}
  BY DEF ImportInit
<1>3. PICK r \in RoomSet : \E cursor \in {0} \cup old[r].messages,
                               heard \in 0 .. Len(old[r].deletions) :
         client = [room |-> r, after |-> cursor, since |-> heard,
                   sentBefore |-> {m \in old[r].messages : m <= cursor},
                   sent |-> {}, asked |-> {}, older |-> {}]
  BY DEF ImportInit
<1>4. /\ old[r].messages \in SUBSET Nat
      /\ Len(old[r].deletions) \in Nat
  BY <1>1, OldFacts
<1>5. HasTop({})
  BY DEF HasTop, Top
<1>6. todo \in Seq(RoomSet) /\ IsInjective(todo) /\ ToSet(todo) = RoomSet
  BY <1>1, ImportAssumption DEF RoomSet
<1>7. client \in [room : RoomSet, after : Nat, since : Nat, sentBefore : SUBSET Nat,
                   sent : SUBSET Nat, asked : SUBSET Nat, older : SUBSET Nat]
  BY <1>3, <1>4
<1>13. PostsComeLast
  BY <1>2 DEF PostsComeLast
<1>8. ImportTypes
  BY <1>1, <1>2, <1>5, <1>6, <1>7 DEF ImportTypes, ImportInit
<1>9. NumbersGoOn
  BY <1>2, <1>3, <1>4, <1>6 DEF NumbersGoOn
<1>10. IdsAreMapped
  BY <1>2, <1>6 DEF IdsAreMapped
<1>11. FilesAreMapped
  BY <1>2, <1>5 DEF FilesAreMapped
<1>12. CursorIsCovered
  BY <1>3, <1>6 DEF CursorIsCovered
<1> QED BY <1>8, <1>9, <1>10, <1>11, <1>12, <1>13 DEF ImportInv

LEMMA ImportRoomKeeps ==
    ASSUME ImportInv, ImportRoom
    PROVE  ImportInv' /\ (CursorIsCovered => CursorIsCovered')
<1> DEFINE r == Head(todo)
           offset == Offset(r)
<1>1. /\ todo # << >> /\ todo' = Tail(todo)
      /\ ImportMessages(r) /\ ImportFiles(r)
      /\ old' = old /\ serial' = serial /\ client' = client /\ postgres' = postgres
  BY DEF ImportRoom
<1>2. /\ r \in RoomSet /\ r \in ToSet(todo)
      /\ todo' \in Seq(RoomSet) /\ IsInjective(todo')
      /\ ToSet(todo') = ToSet(todo) \ {r}
  BY <1>1, TodoFacts DEF ImportInv, ImportTypes
<1>3. r \notin DOMAIN roomHacks
  BY <1>2 DEF ImportInv, IdsAreMapped
<1>4. /\ DOMAIN messages' = DOMAIN messages \cup {m + offset : m \in old[r].messages}
      /\ \A id \in DOMAIN messages : messages'[id] = messages[id]
      /\ \A m \in old[r].messages :
           /\ m + offset \notin DOMAIN messages
           /\ messages'[m + offset] =
                [room |-> r, old |-> m, deleted |-> m \in Deletions(r),
                 seqno |-> ImportedSeqno(r, m)]
      /\ \A id \in DOMAIN messages' \ DOMAIN messages :
           \E m \in old[r].messages :
             /\ id = m + offset
             /\ messages'[id] =
                  [room |-> r, old |-> m, deleted |-> m \in Deletions(r),
                   seqno |-> ImportedSeqno(r, m)]
      /\ HasTop(DOMAIN messages') /\ 0 \notin DOMAIN messages'
      /\ Top(DOMAIN messages) <= Top(DOMAIN messages')
      /\ OffsetOf(roomHacks', r) = offset
      /\ \A q \in RoomSet \ {r} : OffsetOf(roomHacks', q) = OffsetOf(roomHacks, q)
  BY <1>1, <1>2, <1>3, ImportedRows DEF ImportInv
<1>5. offset \in Int /\ old[r].messages \in SUBSET Nat /\ 0 \notin old[r].messages
      /\ HasTop(old[r].messages)
  BY <1>2, OffsetFacts, OldFacts, FiniteHasTop DEF ImportInv, ImportTypes
<1>6. /\ ImportedSequence(r) \in Nat
      /\ Len(old[r].deletions) <= ImportedSequence(r)
      /\ \A m : ImportedSeqno(r, m) \in Nat /\ ImportedSeqno(r, m) <= ImportedSequence(r)
  BY <1>2, ImportedNumbers DEF ImportInv, ImportTypes
<1>7. /\ sequence' = [sequence EXCEPT ![r] = ImportedSequence(r)]
      /\ \/ roomHacks' = roomHacks
         \/ LET max == IF old[r].messages = {} THEN -1 ELSE Top(old[r].messages)
            IN  /\ DOMAIN roomHacks' = DOMAIN roomHacks \cup {r}
                /\ roomHacks'[r] = [max |-> max, offset |-> offset]
                /\ max \in Int /\ max \in old[r].messages \cup {-1}
                /\ \A m \in old[r].messages : m <= max
                /\ \A q \in DOMAIN roomHacks : roomHacks'[q] = roomHacks[q]
  <2>1. CASE offset = 0
    BY <1>1, <2>1 DEF ImportMessages
  <2>2. CASE offset # 0
    <3> DEFINE max == IF old[r].messages = {} THEN -1 ELSE Top(old[r].messages)
               hack == [max |-> max, offset |-> offset]
               added == [x \in {r} |-> hack]
    <3>1. sequence' = [sequence EXCEPT ![r] = ImportedSequence(r)]
      BY <1>1 DEF ImportMessages
    <3>2. roomHacks' = Extend(roomHacks, added)
      BY <1>1, <2>2 DEF ImportMessages
    <3>3. DOMAIN added = {r} /\ added[r] = hack
      OBVIOUS
    <3>4. /\ max \in Int /\ max \in old[r].messages \cup {-1}
          /\ \A m \in old[r].messages : m <= max
      BY <1>5 DEF HasTop, Top
    <3> HIDE DEF added, hack, max, offset, r
    <3>5. /\ DOMAIN roomHacks' = DOMAIN roomHacks \cup {r}
          /\ roomHacks'[r] = hack
          /\ \A q \in DOMAIN roomHacks : roomHacks'[q] = roomHacks[q]
      BY <1>3, <3>2, <3>3 DEF Extend
    <3> QED BY <3>1, <3>4, <3>5 DEF hack, max
  <2> QED BY <2>1, <2>2
<1> HIDE DEF r, offset
<1>8. \A id \in DOMAIN messages' \ DOMAIN messages :
        \E m \in old[r].messages :
          /\ id = m + offset /\ m \in Nat /\ m # 0
          /\ messages'[id] \in [room : {r}, old : {m}, deleted : BOOLEAN, seqno : Nat]
          /\ messages'[id].seqno <= ImportedSequence(r)
  <2>1. ASSUME NEW id \in DOMAIN messages' \ DOMAIN messages
        PROVE  \E m \in old[r].messages :
                 /\ id = m + offset /\ m \in Nat /\ m # 0
                 /\ messages'[id] \in [room : {r}, old : {m}, deleted : BOOLEAN, seqno : Nat]
                 /\ messages'[id].seqno <= ImportedSequence(r)
    <3>1. PICK m \in old[r].messages :
            /\ id = m + offset
            /\ messages'[id] =
                 [room |-> r, old |-> m, deleted |-> m \in Deletions(r),
                  seqno |-> ImportedSeqno(r, m)]
      BY <1>4
    <3>2. m \in Nat /\ m # 0
      BY <1>5
    <3>3. messages'[id] \in [room : {r}, old : {m}, deleted : BOOLEAN, seqno : Nat]
      <4> DEFINE gone == m \in Deletions(r)
                 seqno == ImportedSeqno(r, m)
      <4>1. gone \in BOOLEAN /\ seqno \in Nat
        BY <1>6
      <4>2. messages'[id] = [room |-> r, old |-> m, deleted |-> gone, seqno |-> seqno]
        BY <3>1
      <4> HIDE DEF gone, seqno
      <4> QED BY <4>1, <4>2
    <3>4. messages'[id].seqno = ImportedSeqno(r, m)
      BY <3>1
    <3> QED BY <1>6, <3>1, <3>2, <3>3, <3>4
  <2> QED BY <2>1
<1>9. ImportTypes'
  <2>1. ASSUME NEW id \in DOMAIN messages'
        PROVE  messages'[id] \in [room : RoomSet, old : Nat, deleted : BOOLEAN, seqno : Nat]
    <3>1. CASE id \in DOMAIN messages
      BY <1>4, <3>1 DEF ImportInv, ImportTypes
    <3>2. CASE id \notin DOMAIN messages
      <4>1. PICK m \in old[r].messages :
              /\ id = m + offset /\ m \in Nat /\ m # 0
              /\ messages'[id] \in [room : {r}, old : {m}, deleted : BOOLEAN, seqno : Nat]
              /\ messages'[id].seqno <= ImportedSequence(r)
        BY <1>8, <3>2
      <4> QED BY <1>2, <4>1
    <3> QED BY <3>1, <3>2
  <2>2. sequence' \in [RoomSet -> Nat]
    BY <1>6, <1>7 DEF ImportInv, ImportTypes
  <2>3. /\ DOMAIN roomHacks' \subseteq RoomSet
        /\ \A q \in DOMAIN roomHacks' : roomHacks'[q] \in [max : Int, offset : Int]
    <3>1. CASE roomHacks' = roomHacks
      BY <3>1 DEF ImportInv, ImportTypes
    <3>2. CASE roomHacks' # roomHacks
      <4>1. DOMAIN roomHacks' = DOMAIN roomHacks \cup {r}
        BY <1>7, <3>2
      <4>2. roomHacks'[r] \in [max : Int, offset : Int]
        BY <1>5, <1>7, <3>2
      <4>3. \A q \in DOMAIN roomHacks : roomHacks'[q] = roomHacks[q]
        BY <1>7, <3>2
      <4> QED BY <1>2, <4>1, <4>2, <4>3 DEF ImportInv, ImportTypes
    <3> QED BY <3>1, <3>2
  <2> QED BY <1>1, <1>2, <1>4, <2>1, <2>2, <2>3 DEF ImportInv, ImportTypes
<1>10. NumbersGoOn'
  <2>1. ASSUME NEW id \in DOMAIN messages'
        PROVE  messages'[id].seqno <= sequence'[messages'[id].room]
    <3>1. CASE id \in DOMAIN messages
      <4>1. messages[id].room # r /\ messages[id].room \in RoomSet
        BY <1>2, <3>1 DEF ImportInv, ImportTypes, IdsAreMapped
      <4> QED BY <1>4, <1>7, <3>1, <4>1 DEF ImportInv, NumbersGoOn, ImportTypes
    <3>2. CASE id \notin DOMAIN messages
      <4>1. PICK m \in old[r].messages :
              /\ id = m + offset /\ m \in Nat /\ m # 0
              /\ messages'[id] \in [room : {r}, old : {m}, deleted : BOOLEAN, seqno : Nat]
              /\ messages'[id].seqno <= ImportedSequence(r)
        BY <1>8, <3>2
      <4> QED BY <1>2, <1>7, <4>1 DEF ImportInv, ImportTypes
    <3> QED BY <3>1, <3>2
  <2>2. IF client.room \in ToSet(todo')
        THEN client.since <= Len(old[client.room].deletions)
        ELSE client.since <= sequence'[client.room]
    <3>1. client.since \in Nat /\ client.room \in RoomSet /\ Len(old[r].deletions) \in Nat
      BY <1>2, OldFacts DEF ImportInv, ImportTypes
    <3>2. CASE client.room = r
      <4>1. client.since <= Len(old[r].deletions) /\ r \notin ToSet(todo')
        BY <1>2, <3>2 DEF ImportInv, NumbersGoOn
      <4>2. sequence'[r] = ImportedSequence(r)
        BY <1>2, <1>7 DEF ImportInv, ImportTypes
      <4> QED BY <1>6, <3>1, <3>2, <4>1, <4>2
    <3>3. CASE client.room # r
      BY <1>2, <1>7, <3>1, <3>3 DEF ImportInv, NumbersGoOn, ImportTypes
    <3> QED BY <3>2, <3>3
  <2> QED BY <1>1, <2>1, <2>2 DEF NumbersGoOn
<1>11. IdsAreMapped'
  <2>1. ASSUME NEW id \in DOMAIN messages'
        PROVE  /\ messages'[id].room \notin ToSet(todo')
               /\ messages'[id].old # 0 =>
                    /\ messages'[id].old \in old[messages'[id].room].messages
                    /\ id = messages'[id].old + OffsetOf(roomHacks', messages'[id].room)
    <3>1. CASE id \in DOMAIN messages
      <4>1. /\ messages'[id] = messages[id]
            /\ messages[id].room \in RoomSet \ {r}
            /\ messages[id].room \notin ToSet(todo)
        BY <1>2, <1>4, <3>1 DEF ImportInv, ImportTypes, IdsAreMapped
      <4>2. OffsetOf(roomHacks', messages'[id].room) = OffsetOf(roomHacks, messages[id].room)
        BY <1>4, <4>1
      <4> QED BY <1>2, <3>1, <4>1, <4>2 DEF ImportInv, IdsAreMapped
    <3>2. CASE id \notin DOMAIN messages
      <4>1. PICK m \in old[r].messages :
              /\ id = m + offset /\ m \in Nat /\ m # 0
              /\ messages'[id] \in [room : {r}, old : {m}, deleted : BOOLEAN, seqno : Nat]
              /\ messages'[id].seqno <= ImportedSequence(r)
        BY <1>8, <3>2
      <4>2. messages'[id].room = r /\ messages'[id].old = m
        BY <4>1
      <4>3. OffsetOf(roomHacks', messages'[id].room) = offset
        BY <1>4, <4>2
      <4> QED BY <1>2, <4>1, <4>2, <4>3
    <3> QED BY <3>1, <3>2
  <2>2. ASSUME NEW q \in RoomSet \ ToSet(todo'), NEW m \in old[q].messages
        PROVE  /\ m + OffsetOf(roomHacks', q) \in DOMAIN messages'
               /\ messages'[m + OffsetOf(roomHacks', q)].room = q
               /\ messages'[m + OffsetOf(roomHacks', q)].old = m
    <3>1. CASE q = r
      <4>1. m \in old[r].messages /\ OffsetOf(roomHacks', q) = offset
        BY <1>4, <3>1
      <4>2. m \in Nat /\ m + offset \in DOMAIN messages'
        BY <1>4, <1>5, <4>1
      <4>3. messages'[m + offset] =
              [room |-> r, old |-> m, deleted |-> m \in Deletions(r),
               seqno |-> ImportedSeqno(r, m)]
        BY <1>4, <4>1
      <4> QED BY <3>1, <4>1, <4>2, <4>3
    <3>2. CASE q # r
      <4>1. OffsetOf(roomHacks', q) = OffsetOf(roomHacks, q) /\ q \in RoomSet \ ToSet(todo)
        BY <1>2, <1>4, <3>2
      <4>2. /\ m + OffsetOf(roomHacks, q) \in DOMAIN messages
            /\ messages[m + OffsetOf(roomHacks, q)].room = q
            /\ messages[m + OffsetOf(roomHacks, q)].old = m
        BY <4>1 DEF ImportInv, IdsAreMapped
      <4> QED BY <1>4, <4>1, <4>2
    <3> QED BY <3>1, <3>2
  <2>3. ASSUME NEW q \in DOMAIN roomHacks'
        PROVE  /\ q \notin ToSet(todo')
               /\ roomHacks'[q].max \in old[q].messages \cup {-1}
               /\ \A m \in old[q].messages : m <= roomHacks'[q].max
    <3>1. CASE q \in DOMAIN roomHacks
      BY <1>2, <1>7, <3>1 DEF ImportInv, IdsAreMapped
    <3>2. CASE q \notin DOMAIN roomHacks
      <4>1. q = r /\ r \notin ToSet(todo')
        BY <1>2, <1>7, <3>2
      <4> QED BY <1>7, <3>2, <4>1
    <3> QED BY <3>1, <3>2
  <2> QED BY <1>1, <2>1, <2>2, <2>3 DEF IdsAreMapped
<1>12. FilesAreMapped'
  BY <1>1, <1>2, ImportFilesInv DEF ImportInv, ImportTypes, r
<1>14. PostsComeLast'
  <2>1. ASSUME NEW id \in DOMAIN messages'
        PROVE  messages'[id].old # 0
    <3>1. CASE id \in DOMAIN messages
      BY <1>2, <1>4, <3>1 DEF ImportInv, PostsComeLast
    <3>2. CASE id \notin DOMAIN messages
      <4>1. PICK m \in old[r].messages :
              /\ id = m + offset /\ m \in Nat /\ m # 0
              /\ messages'[id] \in [room : {r}, old : {m}, deleted : BOOLEAN, seqno : Nat]
              /\ messages'[id].seqno <= ImportedSequence(r)
        BY <1>8, <3>2
      <4> QED BY <4>1
    <3> QED BY <3>1, <3>2
  <2> QED BY <2>1 DEF PostsComeLast
<1>13. ASSUME CursorIsCovered
       PROVE  CursorIsCovered'
  <2>1. /\ client.room \in RoomSet /\ client.after \in Nat
        /\ Top(DOMAIN messages) \in Nat /\ Top(DOMAIN messages') \in Nat
    BY <1>4, TopFacts DEF ImportInv, ImportTypes
  <2>2. CASE client.room \in ToSet(todo')
    BY <1>1, <1>2, <1>13, <2>2 DEF CursorIsCovered
  <2>3. CASE client.room = r
    <3>1. /\ client.after \in {0} \cup old[r].messages
          /\ client.sentBefore = {m \in old[r].messages : m <= client.after}
          /\ client.sent = {}
      BY <1>2, <1>13, <2>3 DEF CursorIsCovered
    <3>2. CASE client.after = 0
      BY <1>1, <1>2, <2>3, <3>2 DEF CursorIsCovered
    <3>3. CASE client.after # 0
      <4> DEFINE from == Mapped(roomHacks', r, client.after)
      <4>1. from = client.after + offset
        <5>1. offset = OffsetOf(roomHacks', r)
          BY <1>4
        <5>2. CASE r \in DOMAIN roomHacks'
          <6>1. client.after <= roomHacks'[r].max
            BY <1>3, <1>7, <3>1, <3>3, <5>2
          <6> QED BY <5>1, <5>2, <6>1 DEF Mapped, OffsetOf
        <5>3. CASE r \notin DOMAIN roomHacks'
          BY <2>1, <5>1, <5>3 DEF Mapped, OffsetOf
        <5> QED BY <5>2, <5>3
      <4>2. from \in DOMAIN messages'
        BY <1>4, <3>1, <3>3, <4>1
      <4>3. from <= Top(DOMAIN messages')
        BY <1>4, <4>2 DEF HasTop
      <4>4. ASSUME NEW id \in DOMAIN messages', messages'[id].room = r, id <= from
            PROVE  messages'[id].old \in client.sentBefore
        <5>1. id \notin DOMAIN messages
          BY <1>2, <1>4, <4>4 DEF ImportInv, IdsAreMapped
        <5>2. PICK m \in old[r].messages :
                /\ id = m + offset /\ m \in Nat /\ m # 0
                /\ messages'[id] \in [room : {r}, old : {m}, deleted : BOOLEAN, seqno : Nat]
                /\ messages'[id].seqno <= ImportedSequence(r)
          BY <1>8, <4>4, <5>1
        <5>3. m <= client.after
          BY <1>5, <2>1, <4>1, <4>4, <5>2
        <5> QED BY <3>1, <5>2, <5>3
      <4>5. Covers(client, roomHacks', postgres, messages', from)
        BY <2>3, <4>4 DEF Covers, Accounted
      <4>6. ReachedBy(roomHacks', client) = from
        BY <2>3, <3>1 DEF ReachedBy
      <4> HIDE DEF from
      <4> QED BY <1>1, <1>2, <2>3, <4>3, <4>5, <4>6 DEF CursorIsCovered
    <3> QED BY <3>2, <3>3
  <2>4. CASE client.room # r /\ client.room \notin ToSet(todo')
    <3> DEFINE from == ReachedBy(roomHacks, client)
    <3>1. client.room \notin ToSet(todo)
      BY <1>2, <2>4
    <3>2. \A id : Mapped(roomHacks', client.room, id) = Mapped(roomHacks, client.room, id)
      BY <1>7, <2>4 DEF Mapped
    <3>5. ReachedBy(roomHacks', client) = from
      BY <3>2 DEF ReachedBy
    <3>3. CASE client.after = 0
      BY <1>1, <2>4, <3>3 DEF CursorIsCovered
    <3>4. CASE client.after # 0
      <4>1. /\ from <= Top(DOMAIN messages)
            /\ Covers(client, roomHacks, postgres, messages, from)
        BY <1>13, <3>1, <3>4 DEF CursorIsCovered
      <4>2. Covers(client, roomHacks', postgres, messages', from)
        <5>1. ASSUME NEW id \in DOMAIN messages', messages'[id].room = client.room
              PROVE  id \in DOMAIN messages
          <6>1. SUFFICES ASSUME id \notin DOMAIN messages
                         PROVE  FALSE
            OBVIOUS
          <6>2. messages'[id].room = r
            BY <1>8, <6>1
          <6> QED BY <2>4, <5>1, <6>2
        <5> HIDE DEF from
        <5> QED BY <1>4, <3>2, <4>1, <5>1 DEF Covers, Accounted
      <4>3. from \in Int
        BY <2>1 DEF ImportInv, ImportTypes, ReachedBy, Mapped
      <4>4. from <= Top(DOMAIN messages')
        <5> HIDE DEF from
        <5> QED BY <1>4, <2>1, <4>1, <4>3
      <4> QED BY <1>1, <2>4, <3>5, <4>2, <4>4 DEF CursorIsCovered
    <3> QED BY <3>3, <3>4
  <2> QED BY <1>2, <2>1, <2>2, <2>3, <2>4
<1> QED BY <1>9, <1>10, <1>11, <1>12, <1>13, <1>14 DEF ImportInv

LEMMA UpHasAll == Up => ToSet(todo) = {}
BY DEF Up, ToSet

LEMMA PostKeeps ==
    ASSUME ImportInv, NEW r \in RoomSet, Post(r)
    PROVE  ImportInv' /\ (CursorIsCovered => CursorIsCovered')
<1> DEFINE id == NextId
<1>1. /\ ToSet(todo) = {} /\ todo' = todo /\ old' = old /\ serial' = id
      /\ UNCHANGED <<postgres, roomHacks, files, fileHacks, client>>
  BY UpHasAll DEF Post
<1>2. HasTop(DOMAIN messages) /\ Top(DOMAIN messages) \in Nat /\ 0 \notin DOMAIN messages
  BY TopFacts DEF ImportInv, ImportTypes
<1>3. id \in Nat /\ id # 0 /\ (~postgres => id = Top(DOMAIN messages) + 1)
  BY <1>2 DEF NextId, ImportInv, ImportTypes
<1>4. FilesAreMapped'
  BY <1>1 DEF ImportInv, FilesAreMapped
<1>5. CASE id \in DOMAIN messages
  <2>1. UNCHANGED <<messages, sequence>>
    BY <1>5 DEF Post
  <2>2. ImportTypes' /\ NumbersGoOn' /\ IdsAreMapped' /\ PostsComeLast'
    BY <1>1, <1>3, <2>1 DEF ImportInv, ImportTypes, NumbersGoOn, IdsAreMapped, PostsComeLast
  <2> QED BY <1>1, <1>4, <2>1, <2>2 DEF ImportInv, CursorIsCovered
<1>6. CASE id \notin DOMAIN messages
  <2> DEFINE row == [room |-> r, old |-> 0, deleted |-> FALSE, seqno |-> sequence[r] + 1]
  <2>1. /\ sequence' = [sequence EXCEPT ![r] = @ + 1]
        /\ messages' = Extend(messages, [x \in {id} |-> row])
    BY <1>6 DEF Post
  <2> HIDE DEF id, row
  <2>2. /\ DOMAIN messages' = DOMAIN messages \cup {id}
        /\ messages'[id] = row
        /\ \A m \in DOMAIN messages : messages'[m] = messages[m]
    BY <1>6, <2>1 DEF Extend
  <2>3. /\ row \in [room : RoomSet, old : Nat, deleted : BOOLEAN, seqno : Nat]
        /\ row.room = r /\ row.old = 0 /\ row.seqno = sequence[r] + 1
    BY DEF ImportInv, ImportTypes, row
  <2>4. /\ HasTop(DOMAIN messages') /\ 0 \notin DOMAIN messages'
        /\ Top(DOMAIN messages) <= Top(DOMAIN messages')
    <3>1. {id} \in SUBSET Nat /\ \A i \in {id} : i <= id
      BY <1>3
    <3>2. HasTop({id})
      BY <1>3, <3>1, BoundedHasTop
    <3> QED BY <1>2, <1>3, <2>2, <3>1, <3>2, TopGoesOn
  <2>5. ImportTypes'
    BY <1>1, <1>3, <2>1, <2>2, <2>3, <2>4 DEF ImportInv, ImportTypes
  <2>6. NumbersGoOn'
    <3>1. sequence' \in [RoomSet -> Nat] /\ \A q \in RoomSet : sequence[q] <= sequence'[q]
      BY <2>1 DEF ImportInv, ImportTypes
    <3>2. ASSUME NEW m \in DOMAIN messages'
          PROVE  messages'[m].seqno <= sequence'[messages'[m].room]
      <4>1. CASE m = id
        <5>1. sequence'[r] = sequence[r] + 1
          BY <2>1 DEF ImportInv, ImportTypes
        <5> QED BY <2>2, <2>3, <3>1, <4>1, <5>1 DEF ImportInv, ImportTypes
      <4>2. CASE m \in DOMAIN messages
        BY <2>2, <3>1, <4>2 DEF ImportInv, ImportTypes, NumbersGoOn
      <4> QED BY <2>2, <4>1, <4>2
    <3>3. client'.since <= sequence'[client'.room]
      BY <1>1, <3>1 DEF ImportInv, ImportTypes, NumbersGoOn
    <3> QED BY <1>1, <3>2, <3>3 DEF NumbersGoOn
  <2>7. IdsAreMapped'
    BY <1>1, <2>2, <2>3 DEF ImportInv, IdsAreMapped
  <2>9. PostsComeLast'
    <3>1. ASSUME ~postgres, NEW i \in DOMAIN messages', NEW j \in DOMAIN messages',
                 messages'[i].old # 0, messages'[j].old = 0
          PROVE  i < j
      <4>1. i \in DOMAIN messages /\ messages[i].old # 0
        BY <2>2, <2>3, <3>1
      <4>2. CASE j = id
        BY <1>2, <1>3, <3>1, <4>1, <4>2 DEF HasTop
      <4>3. CASE j \in DOMAIN messages
        BY <2>2, <3>1, <4>1, <4>3 DEF ImportInv, PostsComeLast
      <4> QED BY <2>2, <4>2, <4>3
    <3> QED BY <1>1, <3>1 DEF PostsComeLast
  <2>8. ASSUME CursorIsCovered
        PROVE  CursorIsCovered'
    <3> DEFINE from == ReachedBy(roomHacks, client)
    <3>1. CASE client.after = 0
      BY <1>1, <3>1 DEF CursorIsCovered
    <3>2. CASE client.after # 0
      <4>1. /\ from <= Top(DOMAIN messages)
            /\ Covers(client, roomHacks, postgres, messages, from)
        BY <1>1, <2>8, <3>2 DEF CursorIsCovered
      <4>2. from \in Int
        BY DEF ImportInv, ImportTypes, ReachedBy, Mapped
      <4> HIDE DEF from
      <4>3. postgres \/ ~(id <= from)
        BY <1>2, <1>3, <4>1, <4>2
      <4>6. Accounted(client, roomHacks, postgres, row, id) \/ ~(id <= from)
        BY <2>3, <4>3 DEF Accounted
      <4>4. Covers(client, roomHacks, postgres, messages', from)
        BY <2>2, <4>1, <4>6 DEF Covers
      <4>5. from <= Top(DOMAIN messages')
        BY <1>2, <2>4, <4>1, <4>2, TopFacts
      <4> QED BY <1>1, <4>4, <4>5 DEF CursorIsCovered, from
    <3> QED BY <3>1, <3>2
  <2> QED BY <1>4, <2>5, <2>6, <2>7, <2>8, <2>9 DEF ImportInv
<1> QED BY <1>5, <1>6

LEMMA DeleteKeeps ==
    ASSUME ImportInv, NEW m \in DOMAIN messages, Delete(m)
    PROVE  ImportInv' /\ (CursorIsCovered => CursorIsCovered')
<1> DEFINE r == messages[m].room
           number == sequence[r] + 1
<1>1. /\ ToSet(todo) = {} /\ todo' = todo /\ old' = old /\ serial' = serial
      /\ UNCHANGED <<postgres, roomHacks, files, fileHacks, client>>
      /\ sequence' = [sequence EXCEPT ![r] = @ + 1]
      /\ messages' = [messages EXCEPT ![m].deleted = TRUE, ![m].seqno = number]
  BY UpHasAll DEF Delete
<1>2. /\ messages[m] \in [room : RoomSet, old : Nat, deleted : BOOLEAN, seqno : Nat]
      /\ r \in RoomSet /\ sequence[r] \in Nat /\ number \in Nat
      /\ sequence' \in [RoomSet -> Nat] /\ sequence'[r] = number
      /\ \A q \in RoomSet : sequence[q] <= sequence'[q]
  BY <1>1 DEF ImportInv, ImportTypes
<1> HIDE DEF number
<1>3. /\ DOMAIN messages' = DOMAIN messages
      /\ messages'[m] = [messages[m] EXCEPT !.deleted = TRUE, !.seqno = number]
      /\ \A id \in DOMAIN messages \ {m} : messages'[id] = messages[id]
  BY <1>1
<1>4. /\ messages'[m] \in [room : RoomSet, old : Nat, deleted : BOOLEAN, seqno : Nat]
      /\ messages'[m].room = r /\ messages'[m].old = messages[m].old
      /\ messages'[m].deleted /\ messages'[m].seqno = number
  BY <1>2, <1>3
<1>5. \A id \in DOMAIN messages :
        messages'[id].room = messages[id].room /\ messages'[id].old = messages[id].old
  BY <1>3, <1>4
<1>6. ImportTypes'
  BY <1>1, <1>2, <1>3, <1>4 DEF ImportInv, ImportTypes
<1>7. NumbersGoOn'
  <2>1. ASSUME NEW id \in DOMAIN messages'
        PROVE  messages'[id].seqno <= sequence'[messages'[id].room]
    <3>1. CASE id = m
      BY <1>2, <1>4, <3>1
    <3>2. CASE id # m
      BY <1>2, <1>3, <3>2 DEF ImportInv, ImportTypes, NumbersGoOn
    <3> QED BY <3>1, <3>2
  <2>2. client'.since <= sequence'[client'.room]
    BY <1>1, <1>2 DEF ImportInv, ImportTypes, NumbersGoOn
  <2> QED BY <1>1, <2>1, <2>2 DEF NumbersGoOn
<1>8. IdsAreMapped'
  BY <1>1, <1>3, <1>5 DEF ImportInv, IdsAreMapped
<1>9. FilesAreMapped'
  BY <1>1 DEF ImportInv, FilesAreMapped
<1>10. CursorIsCovered => CursorIsCovered'
  BY <1>1, <1>3, <1>4, <1>5 DEF CursorIsCovered, Covers, Accounted
<1>11. PostsComeLast'
  BY <1>1, <1>3, <1>5 DEF ImportInv, PostsComeLast
<1> QED BY <1>6, <1>7, <1>8, <1>9, <1>10, <1>11 DEF ImportInv

\* Only the files change.
LEMMA FilesOnly ==
    ASSUME ImportInv, FilesAreMapped',
           UNCHANGED <<postgres, old, todo, messages, serial, sequence, roomHacks, client>>
    PROVE  ImportInv' /\ (CursorIsCovered => CursorIsCovered')
BY DEF ImportInv, ImportTypes, NumbersGoOn, IdsAreMapped, PostsComeLast, CursorIsCovered

LEMMA UploadKeeps ==
    ASSUME ImportInv, NEW r \in RoomSet, Upload(r)
    PROVE  ImportInv' /\ (CursorIsCovered => CursorIsCovered')
<1> DEFINE id == Top(DOMAIN files) + 1
           row == [room |-> r, old |-> 0]
<1>1. /\ ToSet(todo) = {} /\ id <= MaxFile
      /\ files' = Extend(files, [x \in {id} |-> row])
      /\ UNCHANGED <<postgres, old, todo, messages, serial, sequence, roomHacks, fileHacks,
                     client>>
  BY UpHasAll DEF Upload
<1>2. HasTop(DOMAIN files) /\ id \in Nat /\ id \notin DOMAIN files
  BY TopFacts DEF ImportInv, FilesAreMapped
<1> HIDE DEF id
<1>3. /\ DOMAIN files' = DOMAIN files \cup {id}
      /\ files'[id] = row
      /\ \A f \in DOMAIN files : files'[f] = files[f]
  BY <1>1, <1>2 DEF Extend
<1>4. HasTop(DOMAIN files')
  <2>1. {id} \in SUBSET Nat /\ \A i \in {id} : i <= id
    BY <1>2
  <2>2. HasTop({id})
    BY <1>2, <2>1, BoundedHasTop
  <2> QED BY <1>2, <1>3, <2>1, <2>2, TopGoesOn
<1>5. FilesAreMapped'
  BY <1>1, <1>2, <1>3, <1>4 DEF ImportInv, FilesAreMapped
<1> QED BY <1>1, <1>5, FilesOnly

LEMMA ExpireFileKeeps ==
    ASSUME ImportInv, NEW f \in DOMAIN files, ExpireFile(f)
    PROVE  ImportInv' /\ (CursorIsCovered => CursorIsCovered')
<1>1. /\ files' = [x \in DOMAIN files \ {f} |-> files[x]]
      /\ fileHacks' = [x \in {y \in DOMAIN fileHacks : fileHacks[y] # f} |-> fileHacks[x]]
      /\ UNCHANGED <<postgres, old, todo, messages, serial, sequence, roomHacks, client>>
  BY DEF ExpireFile
<1>2. HasTop(DOMAIN files')
  <2>1. DOMAIN files' \in SUBSET DOMAIN files
    BY <1>1
  <2> QED BY <2>1, SubsetHasTop DEF ImportInv, FilesAreMapped
<1>3. FilesAreMapped'
  BY <1>1, <1>2 DEF ImportInv, FilesAreMapped
<1> QED BY <1>1, <1>3, FilesOnly

\* What a poll brings, and where it leaves the client.
LEMMA PollFacts ==
    ASSUME ImportInv, CompactPoll
    PROVE  LET r == client.room
               new == Messages(r, client.after)
           IN  /\ ToSet(todo) = {}
               /\ UNCHANGED <<postgres, old, todo, messages, serial, sequence, roomHacks, files,
                              fileHacks>>
               /\ new \in SUBSET Visible(r) /\ HasTop(new)
               /\ client' \in [room : {r}, after : Nat, since : Nat,
                               sentBefore : {client.sentBefore}, sent : {client.sent \cup new},
                               asked : {client.asked \cup ({client.after} \ {0})},
                               older : SUBSET Nat]
               /\ client'.after = IF new = {} THEN client.after ELSE Top(new)
               /\ client'.since <= sequence[r]
               /\ client'.older = IF client.after = 0 /\ new # {}
                                  THEN {m \in DOMAIN messages : \A n \in new : m < n}
                                  ELSE client.older
<1> DEFINE r == client.room
           new == Messages(r, client.after)
           numbers == {messages[m].seqno : m \in DeletionsSince(r, client.since)}
           heard == {client.since} \cup numbers
           older == IF client.after = 0 /\ new # {}
                    THEN {m \in DOMAIN messages : \A n \in new : m < n} ELSE client.older
<1>1. /\ ToSet(todo) = {}
      /\ UNCHANGED <<postgres, old, todo, messages, serial, sequence, roomHacks, files, fileHacks>>
      /\ client' = [client EXCEPT
            !.after = IF new = {} THEN @ ELSE Top(new),
            !.since = Top(heard),
            !.sent = @ \cup new,
            !.asked = @ \cup ({client.after} \ {0}),
            !.older = older]
  BY UpHasAll DEF CompactPoll
<1>2. new \in SUBSET Visible(r)
  BY DEF Messages, Visible
<1>3. new \in SUBSET Nat /\ HasTop(new) /\ Top(new) \in Nat
  <2> HIDE DEF new
  <2>1. new \in SUBSET DOMAIN messages
    BY <1>2 DEF Visible
  <2>2. HasTop(new)
    BY <2>1, SubsetHasTop DEF ImportInv, ImportTypes
  <2> QED BY <2>1, <2>2, TopFacts DEF ImportInv, ImportTypes, HasTop
<1>4. r \in RoomSet /\ sequence[r] \in Nat /\ client.since \in Nat /\ client.since <= sequence[r]
  BY <1>1 DEF ImportInv, ImportTypes, NumbersGoOn
<1>5. heard \in SUBSET Nat /\ \A n \in heard : n <= sequence[r]
  <2>1. ASSUME NEW m \in DeletionsSince(r, client.since)
        PROVE  messages[m].seqno \in Nat /\ messages[m].seqno <= sequence[r]
    <3>1. m \in DOMAIN messages /\ messages[m].room = r
      BY DEF DeletionsSince
    <3> QED BY <3>1 DEF ImportInv, ImportTypes, NumbersGoOn
  <2> QED BY <1>4, <2>1
<1>6. Top(heard) \in Nat /\ Top(heard) <= sequence[r]
  <2> HIDE DEF heard
  <2>1. HasTop(heard)
    BY <1>4, <1>5, BoundedHasTop
  <2>2. Top(heard) \in Nat
    BY <2>1, TopFacts
  <2>3. Top(heard) <= sequence[r]
    BY <1>4, <1>5, <2>1, TopBelow
  <2> QED BY <2>2, <2>3
<1>8. older \in SUBSET Nat
  BY DEF ImportInv, ImportTypes, HasTop
<1> HIDE DEF new, heard, older
<1>7. /\ client' \in [room : {r}, after : Nat, since : Nat,
                      sentBefore : {client.sentBefore}, sent : {client.sent \cup new},
                      asked : {client.asked \cup ({client.after} \ {0})}, older : SUBSET Nat]
      /\ client'.after = IF new = {} THEN client.after ELSE Top(new)
      /\ client'.since = Top(heard)
      /\ client'.older = older
  BY <1>1, <1>3, <1>6, <1>8 DEF ImportInv, ImportTypes
<1> QED BY <1>1, <1>2, <1>3, <1>6, <1>7 DEF new, older

LEMMA CompactPollKeeps ==
    ASSUME ImportInv, CompactPoll
    PROVE  ImportInv'
<1> DEFINE r == client.room
           new == Messages(r, client.after)
           asked == client.asked \cup ({client.after} \ {0})
<1>1. /\ ToSet(todo) = {}
      /\ UNCHANGED <<postgres, old, todo, messages, serial, sequence, roomHacks, files, fileHacks>>
      /\ new \in SUBSET Visible(r) /\ HasTop(new)
      /\ client' \in [room : {r}, after : Nat, since : Nat,
                      sentBefore : {client.sentBefore}, sent : {client.sent \cup new},
                      asked : {asked}, older : SUBSET Nat]
      /\ client'.since <= sequence[r]
  BY PollFacts
<1>5. asked \in SUBSET Nat
  BY DEF ImportInv, ImportTypes
<1> HIDE DEF new, asked
<1>2. client' \in [room : RoomSet, after : Nat, since : Nat, sentBefore : SUBSET Nat,
                   sent : SUBSET Nat, asked : SUBSET Nat, older : SUBSET Nat]
  BY <1>1, <1>5 DEF ImportInv, ImportTypes, HasTop
<1>3. ImportTypes'
  BY <1>1, <1>2 DEF ImportInv, ImportTypes
<1>4. NumbersGoOn' /\ IdsAreMapped' /\ FilesAreMapped' /\ PostsComeLast'
  BY <1>1 DEF ImportInv, NumbersGoOn, IdsAreMapped, FilesAreMapped, PostsComeLast
<1> QED BY <1>3, <1>4 DEF ImportInv

\* An answer may be cut, but has no holes: it holds all from where it begins to where it
\* ends; one without an id holds all from where it begins.
LEMMA AnswerHasNoHoles ==
    ASSUME ImportInv
    PROVE  LET r == client.room
               from == Mapped(roomHacks, r, client.after)
               new == Messages(r, client.after)
           IN  /\ client.after # 0 =>
                    \A n \in new, m \in Visible(r) : from < m /\ m <= n => m \in new
               /\ client.after = 0 =>
                    \A n \in new, m \in Visible(r) : m < n \/ m \in new
<1> DEFINE r == client.room
           from == Mapped(roomHacks, r, client.after)
           V == Visible(r)
           newer == {m \in V : m > from}
<1>1. V \in SUBSET Nat /\ IsFiniteSet(V) /\ Limit \in Nat
  <2>1. /\ DOMAIN messages \in SUBSET Nat /\ Top(DOMAIN messages) \in Nat
        /\ \A m \in DOMAIN messages : m <= Top(DOMAIN messages)
    BY TopFacts DEF ImportInv, ImportTypes, HasTop
  <2>2. IsFiniteSet(DOMAIN messages)
    BY <2>1, FS_BoundedSetOfNaturals
  <2>3. V \in SUBSET DOMAIN messages
    BY DEF Visible
  <2> QED BY <2>1, <2>2, <2>3, FS_Subset, ImportAssumption
<1>2. from \in Int
  BY DEF Mapped, ImportInv, ImportTypes
<1>3. Messages(r, client.after) =
        IF client.after = 0 THEN {m \in V : Cardinality({n \in V : n > m}) < Limit}
        ELSE {m \in newer : Cardinality({n \in newer : n < m}) < Limit}
  <2>1. After(r, client.after) = from
    BY DEF After, Mapped
  <2> QED BY <2>1 DEF Messages, Visible
<1> HIDE DEF V, from, r
<1>4. ASSUME NEW S \in SUBSET V, NEW T \in SUBSET S, Cardinality(S) < Limit
      PROVE  Cardinality(T) < Limit
  <2>1. IsFiniteSet(S)
    BY <1>1, FS_Subset
  <2>2. IsFiniteSet(T) /\ Cardinality(T) <= Cardinality(S)
    BY <2>1, FS_Subset
  <2>3. Cardinality(S) \in Nat /\ Cardinality(T) \in Nat
    BY <2>1, <2>2, FS_CardinalityType
  <2> QED BY <1>1, <1>4, <2>2, <2>3
<1>5. ASSUME client.after # 0, NEW n \in Messages(r, client.after), NEW m \in V,
             from < m, m <= n
      PROVE  m \in Messages(r, client.after)
  <2> DEFINE Before(k) == {j \in newer : j < k}
  <2>1. Messages(r, client.after) = {k \in newer : Cardinality(Before(k)) < Limit}
    BY <1>3, <1>5
  <2>2. newer \in SUBSET V /\ m \in newer
    BY <1>1, <1>2, <1>5
  <2> HIDE DEF newer
  <2>3. \A k : Before(k) \in SUBSET V
    BY <2>2
  <2>4. n \in newer /\ n \in V
    BY <1>5, <2>1, <2>2
  <2>5. Before(m) \in SUBSET Before(n)
    <3>1. n \in Nat /\ m \in Nat /\ m <= n
      BY <1>1, <1>5, <2>2, <2>4
    <3>2. ASSUME NEW j \in newer, j < m PROVE j < n
      BY <1>1, <2>2, <3>1, <3>2
    <3> QED BY <3>2
  <2> HIDE DEF Before
  <2>6. Cardinality(Before(n)) < Limit
    BY <1>5, <2>1
  <2>7. Cardinality(Before(m)) < Limit
    BY <1>4, <2>3, <2>5, <2>6
  <2> QED BY <2>1, <2>2, <2>7
<1>6. ASSUME client.after = 0, NEW n \in Messages(r, client.after), NEW m \in V, ~(m < n)
      PROVE  m \in Messages(r, client.after)
  <2> DEFINE Beyond(k) == {j \in V : j > k}
  <2>1. Messages(r, client.after) = {k \in V : Cardinality(Beyond(k)) < Limit}
    BY <1>3, <1>6
  <2>2. \A k : Beyond(k) \in SUBSET V
    OBVIOUS
  <2>3. n \in V
    BY <1>6, <2>1
  <2>4. Beyond(m) \in SUBSET Beyond(n)
    <3>1. n \in Nat /\ m \in Nat /\ n <= m
      BY <1>1, <1>6, <2>3
    <3>2. ASSUME NEW j \in V, j > m PROVE j > n
      BY <1>1, <3>1, <3>2
    <3> QED BY <3>2
  <2> HIDE DEF Beyond
  <2>5. Cardinality(Beyond(n)) < Limit
    BY <1>6, <2>1
  <2>6. Cardinality(Beyond(m)) < Limit
    BY <1>4, <2>2, <2>4, <2>5
  <2> QED BY <2>1, <2>6
<1> QED BY <1>5, <1>6 DEF V, from, r

\* A new id that is mapped is not mapped past the imported messages: on SQLite no post is
\* between it and what it is mapped to.
LEMMA NoPostIsSkipped ==
    ASSUME ImportInv, ToSet(todo) = {}, NEW r \in RoomSet, NEW id \in Nat,
           NEW m \in DOMAIN messages, id < m, m <= Mapped(roomHacks, r, id),
           messages[m].old = 0
    PROVE  postgres
<1> SUFFICES ASSUME ~postgres PROVE FALSE
  BY DEF ImportInv, ImportTypes
<1>1. m \in Nat
  BY DEF ImportInv, ImportTypes, HasTop
<1>2. r \in DOMAIN roomHacks /\ id <= roomHacks[r].max
  BY <1>1 DEF Mapped
<1> DEFINE max == roomHacks[r].max
           offset == roomHacks[r].offset
<1>3. max \in Int /\ offset \in Int /\ max \in old[r].messages
  BY <1>2 DEF ImportInv, ImportTypes, IdsAreMapped
<1>4. max \in Nat /\ max # 0
  BY <1>3, OldFacts DEF ImportInv, ImportTypes
<1>5. max + offset \in DOMAIN messages /\ messages[max + offset].old = max
  BY <1>2, <1>3 DEF ImportInv, IdsAreMapped, OffsetOf
<1>6. max + offset < m
  BY <1>4, <1>5 DEF ImportInv, PostsComeLast
<1>7. m <= id + offset /\ id <= max
  BY <1>2 DEF Mapped
<1> HIDE DEF max, offset
<1> QED BY <1>1, <1>3, <1>6, <1>7

LEMMA CompactPollCovers ==
    ASSUME ImportInv, CursorIsCovered, CompactPoll
    PROVE  CursorIsCovered'
<1> DEFINE r == client.room
           new == Messages(r, client.after)
           from == Mapped(roomHacks, r, client.after)
           reached == ReachedBy(roomHacks, client)
<1>1. /\ ToSet(todo) = {}
      /\ UNCHANGED <<postgres, old, todo, messages, serial, sequence, roomHacks, files, fileHacks>>
      /\ new \in SUBSET Visible(r) /\ HasTop(new)
      /\ client' \in [room : {r}, after : Nat, since : Nat,
                      sentBefore : {client.sentBefore}, sent : {client.sent \cup new},
                      asked : {client.asked \cup ({client.after} \ {0})}, older : SUBSET Nat]
      /\ client'.after = IF new = {} THEN client.after ELSE Top(new)
      /\ client'.older = IF client.after = 0 /\ new # {}
                         THEN {m \in DOMAIN messages : \A n \in new : m < n}
                         ELSE client.older
  BY PollFacts
<1>2. /\ client.after # 0 => \A n \in new, m \in Visible(r) : from < m /\ m <= n => m \in new
      /\ client.after = 0 => \A n \in new, m \in Visible(r) : m < n \/ m \in new
  BY AnswerHasNoHoles
<1>3. /\ r \in RoomSet /\ from \in Int /\ reached \in Int /\ client.after \in Nat
      /\ \A m \in DOMAIN messages : m \in Nat
      /\ client'.room = r /\ client'.sent = client.sent \cup new
      /\ client'.sentBefore = client.sentBefore
      /\ client'.asked = client.asked \cup ({client.after} \ {0})
  BY <1>1 DEF ImportInv, ImportTypes, Mapped, ReachedBy, HasTop
<1>4. client.after # 0 =>
        reached <= Top(DOMAIN messages) /\ Covers(client, roomHacks, postgres, messages, reached)
  BY <1>1 DEF CursorIsCovered
<1> HIDE DEF new, from, reached
<1>5. ASSUME client.after # 0, NEW row, NEW m, Accounted(client, roomHacks, postgres, row, m)
      PROVE  Accounted(client', roomHacks, postgres, row, m)
  BY <1>1, <1>3, <1>5 DEF Accounted
<1>6. CASE new = {} /\ client.after = 0
  BY <1>1, <1>6 DEF CursorIsCovered
<1>7. CASE new = {} /\ client.after # 0
  <2>1. ReachedBy(roomHacks, client') = reached
    BY <1>1, <1>3, <1>7 DEF ReachedBy, reached
  <2>2. Covers(client', roomHacks, postgres, messages, reached)
    BY <1>3, <1>4, <1>5, <1>7 DEF Covers
  <2> QED BY <1>1, <1>4, <1>7, <2>1, <2>2 DEF CursorIsCovered
<1>8. CASE new # {}
  <2> DEFINE top == Top(new)
  <2>1. top \in new /\ top \in DOMAIN messages /\ \A i \in new : i <= top
    <3>1. Top(new) \in Nat /\ \A i \in new : i <= Top(new)
      BY <1>1, TopFacts DEF HasTop
    <3>2. Top(new) \in new
      BY <1>1, <1>8, <3>1, TopBelow
    <3> QED BY <1>1, <3>1, <3>2 DEF Visible
  <2>2. client'.after = top
    BY <1>1, <1>8
  <2> HIDE DEF top
  <2>3. ReachedBy(roomHacks, client') = top
    BY <1>3, <2>1, <2>2 DEF ReachedBy
  <2>4. top <= Top(DOMAIN messages)
    BY <2>1 DEF ImportInv, ImportTypes, HasTop
  <2>5. ASSUME NEW m \in DOMAIN messages, messages[m].room = r, ~messages[m].deleted, m <= top
        PROVE  Accounted(client', roomHacks, postgres, messages[m], m)
    <3>1. m \in Visible(r) /\ m \in Nat
      BY <1>3, <2>5 DEF Visible
    <3>2. CASE m \in new
      BY <1>3, <3>2 DEF Accounted
    <3>3. CASE client.after = 0 /\ m \notin new
      <4>1. \A n \in new : m < n
        BY <1>2, <3>1, <3>3
      <4>2. m \in client'.older
        BY <1>1, <1>8, <3>3, <4>1
      <4> QED BY <4>2 DEF Accounted
    <3>4. CASE client.after # 0 /\ m \notin new
      <4>1. m <= from
        BY <1>2, <1>3, <2>1, <2>5, <3>1, <3>4
      <4>2. CASE m <= reached
        <5>1. Accounted(client, roomHacks, postgres, messages[m], m)
          BY <1>4, <2>5, <3>4, <4>2 DEF Covers, r
        <5> QED BY <1>5, <3>4, <5>1
      <4>3. CASE ~(m <= reached)
        <5>1. client.after \in client.sent /\ client.after < m
          BY <1>3, <3>1, <4>1, <4>3 DEF ReachedBy, reached, from, r
        <5>2. client.after \in client'.asked \cap client'.sent
          BY <1>3, <3>4, <5>1
        <5>3. m <= Mapped(roomHacks, client'.room, client.after)
          BY <1>3, <4>1 DEF from
        <5>4. messages[m].old = 0 => postgres
          BY <1>1, <1>3, <4>1, <5>1, NoPostIsSkipped DEF from
        <5> QED BY <5>1, <5>2, <5>3, <5>4 DEF Accounted
      <4> QED BY <4>2, <4>3
    <3> QED BY <3>2, <3>3, <3>4
  <2>6. Covers(client', roomHacks, postgres, messages, top)
    BY <1>3, <2>5 DEF Covers
  <2> QED BY <1>1, <2>3, <2>4, <2>6 DEF CursorIsCovered
<1> QED BY <1>6, <1>7, <1>8

LEMMA ImportNextInv ==
    ASSUME ImportInv, CursorIsCovered, [ImportNext]_importVars
    PROVE  ImportInv' /\ CursorIsCovered'
<1>1. CASE ImportRoom
  BY <1>1, ImportRoomKeeps
<1>2. ASSUME NEW r \in RoomSet, Post(r) \/ Upload(r)
      PROVE  ImportInv' /\ CursorIsCovered'
  BY <1>2, PostKeeps, UploadKeeps
<1>3. ASSUME NEW m \in DOMAIN messages, Delete(m)
      PROVE  ImportInv' /\ CursorIsCovered'
  BY <1>3, DeleteKeeps
<1>4. ASSUME NEW f \in DOMAIN files, ExpireFile(f)
      PROVE  ImportInv' /\ CursorIsCovered'
  BY <1>4, ExpireFileKeeps
<1>5. CASE CompactPoll
  BY <1>5, CompactPollKeeps, CompactPollCovers
<1>6. CASE UNCHANGED importVars
  BY <1>6 DEF importVars, ImportInv, ImportTypes, NumbersGoOn, IdsAreMapped, FilesAreMapped,
     PostsComeLast, CursorIsCovered
<1> QED BY <1>1, <1>2, <1>3, <1>4, <1>5, <1>6 DEF ImportNext

-----------------------------------------------------------------------------
(* Theorems about Import.                                                  *)

\* The invariant of the import and of the server after it.
THEOREM ImportInvHolds == ImportSpec => [](ImportInv /\ CursorIsCovered)
<1>1. ImportInv /\ CursorIsCovered /\ [ImportNext]_importVars => ImportInv' /\ CursorIsCovered'
  BY ImportNextInv
<1> QED BY ImportInitInv, <1>1, PTL DEF ImportSpec

\* Every message of every old room is there, under an id that no other was given, for any
\* rooms and any gaps in their ids (import_from_0_1_x), and whatever is posted after it.
THEOREM OldMessagesAreKept == ImportSpec => []NothingOverwritten
<1>1. ImportInv => NothingOverwritten
  <2> SUFFICES ASSUME ImportInv, Up, NEW r \in RoomSet, NEW m \in old[r].messages
               PROVE  \E id \in DOMAIN messages : messages[id].room = r /\ messages[id].old = m
    BY DEF NothingOverwritten
  <2> QED BY UpHasAll DEF ImportInv, IdsAreMapped
<1> QED BY <1>1, ImportInvHolds, PTL

\* Files are found by their new ids and by their old ones, which lead to no other file,
\* whichever could be read, expired or were uploaded since (Room.get_file).
THEOREM OldFilesAreFound == ImportSpec => []FilesFound
<1>1. ImportInv => FilesFound
  <2> SUFFICES ASSUME ImportInv
               PROVE  FilesFound
    OBVIOUS
  <2>0. ASSUME NEW id \in OldFiles
        PROVE  id \notin DOMAIN files
    <3>1. id \in Nat /\ MaxFile \in Nat /\ id > MaxFile
      BY ImportAssumption
    <3>2. id \in DOMAIN files => id <= MaxFile
      BY DEF ImportInv, FilesAreMapped
    <3> QED BY <3>1, <3>2
  <2>1. ASSUME NEW f \in DOMAIN files
        PROVE  /\ GetFile(files[f].room, f) = {f}
               /\ files[f].old # 0 => GetFile(files[f].room, files[f].old) = {f}
    <3>1. GetFile(files[f].room, f) = {f}
      BY DEF GetFile
    <3>2. ASSUME files[f].old # 0
          PROVE  GetFile(files[f].room, files[f].old) = {f}
      <4> DEFINE x == <<files[f].room, files[f].old>>
      <4>1. x \in DOMAIN fileHacks /\ fileHacks[x] = f /\ files[f].old \in OldFiles
        BY <3>2 DEF ImportInv, FilesAreMapped
      <4>2. files[f].old \notin DOMAIN files
        BY <2>0, <4>1
      <4>3. GetFile(files[f].room, files[f].old) = {fileHacks[y] : y \in {x} \cap DOMAIN fileHacks}
        BY <4>2 DEF GetFile
      <4> HIDE DEF x
      <4> QED BY <4>1, <4>3
    <3> QED BY <3>1, <3>2
  <2>2. ASSUME NEW r \in RoomSet, NEW id \in OldFiles, NEW f \in GetFile(r, id)
        PROVE  f \in DOMAIN files /\ files[f].room = r /\ files[f].old = id
    <3>1. id \notin DOMAIN files
      BY <2>0
    <3>2. <<r, id>> \in DOMAIN fileHacks /\ f = fileHacks[<<r, id>>]
      BY <3>1 DEF GetFile
    <3>3. f \in DOMAIN files /\ files[f] = [room |-> r, old |-> id]
      BY <3>2 DEF ImportInv, FilesAreMapped
    <3> QED BY <3>3
  <2> QED BY <2>1, <2>2 DEF FilesFound
<1> QED BY <1>1, ImportInvHolds, PTL

\* A deletion is numbered above what any old client asks from (get_deletions_deprecated),
\* however many duplicates its old log of deletions had.
THEOREM DeletionsAreHeard == ImportSpec => LaterDeletionsHeard
<1> DEFINE Heard ==
      \A m \in DOMAIN messages \cap DOMAIN messages' :
        ~messages[m].deleted /\ messages'[m].deleted /\ messages[m].room = client.room
          => messages'[m].seqno > client.since
<1>1. ASSUME ImportInv, [ImportNext]_importVars
      PROVE  Heard
  <2>1. SUFFICES ASSUME NEW m \in DOMAIN messages, ~messages[m].deleted, messages'[m].deleted,
                        messages[m].room = client.room
                 PROVE  messages'[m].seqno > client.since
    OBVIOUS
  <2>2. messages'[m] # messages[m]
    BY <2>1
  <2>3. ~ImportRoom
    <3> SUFFICES ASSUME ImportRoom
                 PROVE  FALSE
      OBVIOUS
    <3> DEFINE r == Head(todo)
    <3>1. r \in RoomSet /\ r \in ToSet(todo) /\ ImportMessages(r)
      BY <1>1, TodoFacts DEF ImportRoom, ImportInv, ImportTypes
    <3>2. r \notin DOMAIN roomHacks
      BY <1>1, <3>1 DEF ImportInv, IdsAreMapped
    <3>3. messages'[m] = messages[m]
      BY <1>1, <3>1, <3>2, ImportedRows DEF ImportInv
    <3> QED BY <2>2, <3>3
  <2>4. \A r \in RoomSet : ~Post(r)
    <3> SUFFICES ASSUME NEW r \in RoomSet, Post(r)
                 PROVE  FALSE
      OBVIOUS
    <3> DEFINE id == NextId
               row == [room |-> r, old |-> 0, deleted |-> FALSE, seqno |-> sequence[r] + 1]
    <3>1. CASE id \in DOMAIN messages
      BY <2>2, <3>1 DEF Post
    <3>2. CASE id \notin DOMAIN messages
      <4>1. messages' = Extend(messages, [x \in {id} |-> row])
        BY <3>2 DEF Post
      <4> HIDE DEF id, row
      <4>2. messages'[m] = messages[m]
        BY <3>2, <4>1 DEF Extend
      <4> QED BY <2>2, <4>2
    <3> QED BY <3>1, <3>2
  <2>5. PICK d \in DOMAIN messages : Delete(d)
    BY <1>1, <2>2, <2>3, <2>4 DEF ImportNext, Upload, ExpireFile, CompactPoll, importVars
  <2>6. d = m
    <3>1. d # m => messages'[m] = messages[m]
      BY <2>5 DEF Delete
    <3> QED BY <2>2, <3>1
  <2> DEFINE r == client.room
             number == sequence[r] + 1
  <2>7. /\ ToSet(todo) = {}
        /\ messages' = [messages EXCEPT ![m].deleted = TRUE, ![m].seqno = number]
    BY <2>1, <2>5, <2>6, UpHasAll DEF Delete
  <2>8. messages'[m].seqno = number
    <3> HIDE DEF number
    <3>1. messages[m] \in [room : RoomSet, old : Nat, deleted : BOOLEAN, seqno : Nat]
      BY <1>1 DEF ImportInv, ImportTypes
    <3> QED BY <2>7, <3>1
  <2>9. sequence[r] \in Nat /\ client.since \in Nat /\ client.since <= sequence[r]
    BY <1>1, <2>7 DEF ImportInv, ImportTypes, NumbersGoOn
  <2> QED BY <2>8, <2>9
<1> QED BY <1>1, ImportInvHolds, PTL DEF ImportSpec, LaterDeletionsHeard

\* A client that goes on polling by the ids it knows, old or new, over answers that are cut,
\* has all there is up to the last message it has got, but for what an answer without an id
\* left out and for imported messages that a new id was mapped past (handle_one_compact_poll,
\* get_messages_for); on SQLite it misses no post, whatever rooms were imported and
\* whatever gaps their ids had.
THEOREM OldClientsMissNothing == ImportSpec => []OnlyRemappedMissed
<1>1. ImportInv /\ CursorIsCovered => OnlyRemappedMissed
  <2> SUFFICES ASSUME ImportInv, CursorIsCovered, Up, client.after # 0,
                      NEW m \in DOMAIN messages, messages[m].room = client.room,
                      ~messages[m].deleted, m <= Reached
               PROVE  \/ m \in client.sent \/ messages[m].old \in client.sentBefore
                      \/ m \in client.older
                      \/ Skipped(m)
                      \/ postgres /\ messages[m].old = 0
    BY DEF OnlyRemappedMissed
  <2>1. \A id : After(client.room, id) = Mapped(roomHacks, client.room, id)
    BY DEF After, Mapped
  <2>2. Reached = ReachedBy(roomHacks, client)
    BY <2>1 DEF Reached, ReachedBy
  <2>3. Accounted(client, roomHacks, postgres, messages[m], m)
    BY <2>2, UpHasAll DEF CursorIsCovered, Covers
  <2> QED BY <2>1, <2>3 DEF Accounted, Skipped
<1> QED BY <1>1, ImportInvHolds, PTL

=============================================================================
