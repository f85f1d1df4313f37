--------------------------------- MODULE Roles ---------------------------------
(***************************************************************************)
(* Moderators, admins and bans, of one room and of the whole server, and   *)
(* the scheduled ends of bans that the mule applies.                       *)
(*                                                                         *)
(* What a request knows of the server-wide roles of its user, and of its   *)
(* target's, is read when the request (or, in a batch, its first part)     *)
(* begins and is old by the time of the transaction; what it asks of the   *)
(* room is read in the transaction.  The legacy endpoints ask the room      *)
(* first and remember the answer: with them that too is old.               *)
(***************************************************************************)
EXTENDS Integers

CONSTANTS
    Users,
    NoUser,     \* no actor or target
    Root,       \* the server-wide admins there are at the start
    Timeouts,   \* how long a ban may be for, zero and less too
    Never,      \* no timeout: a ban for good, no unban scheduled
    Zero,       \* history: the sentence of a ban with a timeout of zero
    Workers,
    MaxTime,    \* bound: the clock
    MaxLookups  \* bound: how many times in all a target is looked up

ASSUME RolesAssumption ==
    /\ NoUser \notin Users
    /\ Root \subseteq Users
    /\ Timeouts \subseteq Int
    /\ Never \notin Int
    /\ Zero \notin Int \cup {Never}
    /\ MaxTime \in Nat
    /\ MaxLookups \in Nat

VARIABLES
    room,           \* user_permission_overrides of the room
    server,         \* the same columns of `users`
    roomUnban,      \* user_ban_futures of the room: when the user is to be unbanned
    serverUnban,    \* those with no room
    now,            \* the clock
    session,        \* what each worker knows of the request it runs
    roomSentence,   \* history: until when the ban from the room is to be
    serverSentence, \* history: the same of the ban from the server
    wasAdmin,       \* history: was an admin of the room since its legacy request began
    lookups         \* bound: how many targets were looked up

roleVars == <<room, server>>
futureVars == <<roomUnban, serverUnban>>
sentences == <<roomSentence, serverSentence>>
vars == <<roleVars, futureVars, now, session, sentences, wasAdmin, lookups>>

-----------------------------------------------------------------------------

Row == [mod : BOOLEAN, admin : BOOLEAN, banned : BOOLEAN]
Plain == [mod |-> FALSE, admin |-> FALSE, banned |-> FALSE]

\* The CHECK constraints of both tables: who breaks one is rolled back.
Admissible(row) == ~(row.banned /\ (row.mod \/ row.admin))

\* Altered form: without the constraint.
SetRoom_Unchecked(u, row) == room' = [room EXCEPT ![u] = row]

SetRoom(u, row) == Admissible(row) /\ room' = [room EXCEPT ![u] = row]
SetServer(u, row) == Admissible(row) /\ server' = [server EXCEPT ![u] = row]

Idle == [actor |-> NoUser, mod |-> FALSE, admin |-> FALSE, legacy |-> FALSE,
         target |-> NoUser, targetMod |-> FALSE, unbanning |-> FALSE]

Session ==
    [actor : Users \cup {NoUser}, mod : BOOLEAN, admin : BOOLEAN, legacy : BOOLEAN,
     target : Users \cup {NoUser}, targetMod : BOOLEAN, unbanning : BOOLEAN]

\* What the view user_permissions says of a user and the room.
RoomAdmin(u) == server[u].admin \/ room[u].admin
RoomModerator(u) == RoomAdmin(u) \/ server[u].mod \/ room[u].mod

Acting(w) == session[w].target # NoUser /\ ~session[w].unbanning

\* Room.check_permission of the actor: read now, by the first to ask, or what the
\* legacy request read when it was let in (Room._perm_cache).
ActsAsAdmin(w) ==
    IF session[w].legacy THEN session[w].admin ELSE RoomAdmin(session[w].actor)
ActsAsModerator(w) ==
    IF session[w].legacy THEN session[w].mod ELSE RoomModerator(session[w].actor)

\* The request is done; in a batch its user goes on to another.
Served(w) ==
    session' = [session EXCEPT ![w] = IF @.legacy THEN Idle
                                      ELSE [@ EXCEPT !.target = NoUser, !.unbanning = FALSE]]

\* What a ban schedules: nothing for a timeout of zero (`if timeout:`).
Unban(timeout) == IF timeout \in {0, Never} THEN Never ELSE now + timeout

Sentence(timeout) == IF timeout = 0 THEN Zero ELSE Unban(timeout)

\* Bound: no ban is to end after the clock stops.
InTime(timeout) == timeout # Never => now + timeout <= MaxTime

-----------------------------------------------------------------------------
(* The request's beginning and end.                                        *)

\* handle_http_auth: g.user, with the roles it has now.
Authenticate(w, u) ==
    /\ session[w] = Idle
    /\ ~server[u].banned
    /\ session' = [session EXCEPT ![w] =
         [Idle EXCEPT !.actor = u, !.mod = server[u].mod, !.admin = server[u].admin]]
    /\ UNCHANGED <<roleVars, futureVars, now, sentences>>

\* legacy_check_user_room: a moderator of the room is let in, banned from the server
\* or not; the room remembers what it read of it.
LegacyAuthenticate(w, u) ==
    /\ session[w] = Idle
    /\ RoomModerator(u)
    /\ session' = [session EXCEPT ![w] =
         [Idle EXCEPT !.actor = u, !.mod = TRUE, !.admin = RoomAdmin(u), !.legacy = TRUE]]
    /\ UNCHANGED <<roleVars, futureVars, now, sentences>>

\* User(session_id=...) of the user the request is about.
LoadTarget(w, u) ==
    /\ session[w].actor # NoUser
    /\ session[w].target = NoUser
    /\ lookups < MaxLookups
    /\ session' = [session EXCEPT ![w].target = u, ![w].targetMod = server[u].mod]
    /\ UNCHANGED <<roleVars, futureVars, now, sentences>>

\* The answer is sent, or the request fails, or its worker dies.
End(w) ==
    /\ session[w] # Idle
    /\ session' = [session EXCEPT ![w] = Idle]
    /\ UNCHANGED <<roleVars, futureVars, now, sentences>>

-----------------------------------------------------------------------------
(* Room roles.  `admin` is "keep" when the request says nothing of it.     *)

RoomSetModerator(w, admin) ==
    LET u == session[w].target
    IN  /\ Acting(w)
        /\ ActsAsAdmin(w)
        /\ session[w].legacy => admin = "yes"
        /\ SetRoom(u, [room[u] EXCEPT !.mod = TRUE,
                                      !.admin = IF admin = "keep" THEN @ ELSE admin = "yes"])
        /\ Served(w)
        /\ UNCHANGED <<server, futureVars, now, sentences>>

RoomRemoveModerator(w, adminOnly) ==
    LET u == session[w].target
    IN  /\ Acting(w)
        /\ ActsAsAdmin(w)
        /\ session[w].legacy => ~adminOnly
        /\ SetRoom(u, [room[u] EXCEPT !.mod = adminOnly /\ @, !.admin = FALSE])
        /\ Served(w)
        /\ UNCHANGED <<server, futureVars, now, sentences>>

\* admin=false with moderator=true: the second half asks again whether the
\* actor is an admin, which the first half has undone if it is its own target.
RoomDemote(w) ==
    LET u == session[w].target
        a == session[w].actor
    IN  /\ Acting(w)
        /\ ~session[w].legacy
        /\ RoomAdmin(a)
        /\ u # a \/ server[a].admin
        /\ SetRoom(u, [room[u] EXCEPT !.mod = TRUE, !.admin = FALSE])
        /\ Served(w)
        /\ UNCHANGED <<server, futureVars, now, sentences>>

\* Altered form: the unban scheduled by an earlier ban stays.
PutRoomBan_KeepsUnban(w, timeout) ==
    LET u == session[w].target
    IN  /\ SetRoom(u, [Plain EXCEPT !.banned = TRUE])
        /\ roomUnban' = [roomUnban EXCEPT ![u] = IF timeout \in {0, Never} THEN @ ELSE Unban(timeout)]
        /\ roomSentence' = [roomSentence EXCEPT ![u] = Sentence(timeout)]
        /\ Served(w)
        /\ UNCHANGED <<server, serverUnban, now, serverSentence>>

\* What Room.ban_user writes.
PutRoomBan(w, timeout) ==
    LET u == session[w].target
    IN  /\ SetRoom(u, [Plain EXCEPT !.banned = TRUE])
        /\ roomUnban' = [roomUnban EXCEPT ![u] = Unban(timeout)]
        /\ roomSentence' = [roomSentence EXCEPT ![u] = Sentence(timeout)]
        /\ Served(w)
        /\ UNCHANGED <<server, serverUnban, now, serverSentence>>

\* Altered form: trusts what was known of the target before the transaction.
RoomBan_TrustsTarget(w, timeout) ==
    /\ Acting(w)
    /\ ActsAsModerator(w)
    /\ session[w].target # session[w].actor
    /\ ~session[w].targetMod
    /\ InTime(timeout)
    /\ PutRoomBan(w, timeout)

\* Room.ban_user.
RoomBan(w, timeout) ==
    LET u == session[w].target
    IN  /\ Acting(w)
        /\ ActsAsModerator(w)
        /\ u # session[w].actor
        /\ ~session[w].targetMod
        /\ RoomModerator(u) => ActsAsAdmin(w)
        /\ session[w].legacy => timeout = Never
        /\ InTime(timeout)
        /\ PutRoomBan(w, timeout)

\* Room.unban_user: what was scheduled stays scheduled.
RoomUnban(w) ==
    LET u == session[w].target
    IN  /\ Acting(w)
        /\ ActsAsModerator(w)
        /\ SetRoom(u, [room[u] EXCEPT !.banned = FALSE])
        /\ roomSentence' = [roomSentence EXCEPT ![u] = Never]
        /\ Served(w)
        /\ UNCHANGED <<server, futureVars, now, serverSentence>>

-----------------------------------------------------------------------------
(* Server-wide roles, by the roles the session remembers.                  *)

ServerSetModerator(w, admin) ==
    LET u == session[w].target
    IN  /\ Acting(w)
        /\ ~session[w].legacy
        /\ session[w].admin
        /\ SetServer(u, [server[u] EXCEPT !.mod = TRUE,
                                          !.admin = IF admin = "keep" THEN @ ELSE admin = "yes"])
        /\ Served(w)
        /\ UNCHANGED <<room, futureVars, now, sentences>>

ServerRemoveModerator(w, adminOnly) ==
    LET u == session[w].target
    IN  /\ Acting(w)
        /\ ~session[w].legacy
        /\ session[w].admin
        /\ SetServer(u, [server[u] EXCEPT !.mod = adminOnly /\ @, !.admin = FALSE])
        /\ Served(w)
        /\ UNCHANGED <<room, futureVars, now, sentences>>

\* User.ban: that the target is no moderator is also a constraint of the table.
ServerBan(w, timeout) ==
    LET u == session[w].target
    IN  /\ Acting(w)
        /\ ~session[w].legacy
        /\ session[w].mod
        /\ ~session[w].targetMod
        /\ InTime(timeout)
        /\ SetServer(u, [server[u] EXCEPT !.banned = TRUE])
        /\ serverUnban' = [serverUnban EXCEPT ![u] = Unban(timeout)]
        /\ serverSentence' = [serverSentence EXCEPT ![u] = Sentence(timeout)]
        /\ Served(w)
        /\ UNCHANGED <<room, roomUnban, now, roomSentence>>

\* User.unban: two statements without a transaction around them.
ServerUnban(w) ==
    LET u == session[w].target
    IN  /\ Acting(w)
        /\ ~session[w].legacy
        /\ session[w].mod
        /\ SetServer(u, [server[u] EXCEPT !.banned = FALSE])
        /\ serverSentence' = [serverSentence EXCEPT ![u] = Never]
        /\ session' = [session EXCEPT ![w].unbanning = TRUE, ![w].targetMod = FALSE]
        /\ UNCHANGED <<room, futureVars, now, roomSentence>>

ServerUnbanForget(w) ==
    /\ session[w].unbanning
    /\ serverUnban' = [serverUnban EXCEPT ![session[w].target] = Never]
    /\ Served(w)
    /\ UNCHANGED <<roleVars, roomUnban, now, sentences>>

-----------------------------------------------------------------------------
(* The mule and the clock.                                                 *)

Due(unban, u) == unban[u] # Never /\ unban[u] <= now

Lifted(rows, unban) ==
    [u \in Users |-> IF Due(unban, u) THEN [rows[u] EXCEPT !.banned = FALSE] ELSE rows[u]]

Remaining(unban) == [u \in Users |-> IF Due(unban, u) THEN Never ELSE unban[u]]

\* History: a sentence is over when its ban has been lifted.
LiftSentences ==
    /\ roomSentence' = [u \in Users |->
          IF Due(roomUnban, u) /\ ~room'[u].banned THEN Never ELSE roomSentence[u]]
    /\ serverSentence' = [u \in Users |->
          IF Due(serverUnban, u) /\ ~server'[u].banned THEN Never ELSE serverSentence[u]]

\* Altered form: only the bans of the server are lifted, the rows of both deleted.
ApplyDueUnbans_ServerOnly ==
    /\ \E u \in Users : Due(roomUnban, u) \/ Due(serverUnban, u)
    /\ UNCHANGED <<room, now, session>>
    /\ server' = Lifted(server, serverUnban)
    /\ roomUnban' = Remaining(roomUnban)
    /\ serverUnban' = Remaining(serverUnban)
    /\ LiftSentences

\* The second half of apply_permission_updates: every future is an unban.
ApplyDueUnbans ==
    /\ \E u \in Users : Due(roomUnban, u) \/ Due(serverUnban, u)
    /\ room' = Lifted(room, roomUnban)
    /\ server' = Lifted(server, serverUnban)
    /\ roomUnban' = Remaining(roomUnban)
    /\ serverUnban' = Remaining(serverUnban)
    /\ LiftSentences
    /\ UNCHANGED <<now, session>>

Tick ==
    /\ now < MaxTime
    /\ now' = now + 1
    /\ UNCHANGED <<roleVars, futureVars, session, sentences>>

-----------------------------------------------------------------------------

Init ==
    /\ room = [u \in Users |-> Plain]
    /\ server = [u \in Users |-> IF u \in Root THEN [mod |-> TRUE, admin |-> TRUE, banned |-> FALSE]
                                 ELSE Plain]
    /\ roomUnban = [u \in Users |-> Never]
    /\ serverUnban = [u \in Users |-> Never]
    /\ now = 0
    /\ session = [w \in Workers |-> Idle]
    /\ roomSentence = [u \in Users |-> Never]
    /\ serverSentence = [u \in Users |-> Never]
    /\ wasAdmin = [w \in Workers |-> FALSE]
    /\ lookups = 0

Request(w) ==
    \/ \E u \in Users : Authenticate(w, u)
    \/ \E u \in Users : LegacyAuthenticate(w, u)
    \/ \E u \in Users : LoadTarget(w, u)
    \/ End(w)
    \/ \E admin \in {"yes", "keep"} : RoomSetModerator(w, admin)
    \/ \E adminOnly \in BOOLEAN : RoomRemoveModerator(w, adminOnly)
    \/ RoomDemote(w)
    \/ \E timeout \in Timeouts \cup {Never} : RoomBan(w, timeout)
    \/ RoomUnban(w)
    \/ \E admin \in {"yes", "no", "keep"} : ServerSetModerator(w, admin)
    \/ \E adminOnly \in BOOLEAN : ServerRemoveModerator(w, adminOnly)
    \/ \E timeout \in Timeouts \cup {Never} : ServerBan(w, timeout)
    \/ ServerUnban(w)
    \/ ServerUnbanForget(w)

\* History: a legacy request's user is an admin now, or was since it was let in.
Remember ==
    /\ wasAdmin' = [w \in Workers |->
         LET a == session'[w].actor
         IN  session'[w].legacy /\ (wasAdmin[w] \/ server'[a].admin \/ room'[a].admin)]
    /\ lookups' = IF \E w \in Workers : session[w].target = NoUser /\ session'[w].target # NoUser
                  THEN lookups + 1 ELSE lookups

Next == ((\E w \in Workers : Request(w)) \/ ApplyDueUnbans \/ Tick) /\ Remember

Spec == Init /\ [][Next]_vars

\* The clock goes on, and the mule's timer runs apply_permission_updates every 10 s.
Fairness == WF_vars(Tick /\ Remember) /\ WF_vars(ApplyDueUnbans /\ Remember)

FairSpec == Spec /\ Fairness

-----------------------------------------------------------------------------
(* Properties.                                                             *)

WellFormed(row) == Admissible(row) /\ (row.admin => row.mod)

\* Types; in both tables admins are moderators and no moderator is banned, whatever
\* order roles and bans are set in (schema.sqlite: the CHECKs and the triggers).
RolesTypeOK ==
    /\ room \in [Users -> Row]
    /\ server \in [Users -> Row]
    /\ \A u \in Users : WellFormed(room[u]) /\ WellFormed(server[u])
    /\ roomUnban \in [Users -> Int \cup {Never}]
    /\ serverUnban \in [Users -> Int \cup {Never}]
    /\ roomSentence \in [Users -> Int \cup {Never, Zero}]
    /\ serverSentence \in [Users -> Int \cup {Never, Zero}]
    /\ now \in Nat
    /\ session \in [Workers -> Session]
    /\ wasAdmin \in [Workers -> BOOLEAN]
    /\ lookups \in Nat

\* w, in this step, does something to u.
Does(w, u) == session[w].target = u /\ session'[w] # session[w]

Over(sentence, u) == sentence[u] \in Int /\ sentence[u] <= now

\* A ban is lifted by somebody who may, or by the mule when the last ban is served:
\* an unban scheduled by an earlier ban never ends a later one (Room.ban_user and
\* User.ban replace what is scheduled, Room.unban_user leaves it).  Who may lift it
\* is a moderator at that moment, or a legacy request let in as one's before.
BansServed ==
    [][ \A u \in Users :
          /\ room[u].banned /\ ~room'[u].banned =>
               \/ Over(roomSentence, u)
               \/ \E w \in Workers : /\ Does(w, u)
                                     /\ RoomModerator(session[w].actor) \/ session[w].legacy
          /\ server[u].banned /\ ~server'[u].banned =>
               \/ Over(serverSentence, u)
               \/ \E w \in Workers : Does(w, u) /\ session[w].mod ]_vars

\* Who is a moderator or an admin of the room changes only by somebody who is an
\* admin of it in the same transaction, and only an admin bans a moderator of the
\* room or of the server, also one made so after the request looked its target up;
\* except by a legacy request, which an admin who is removed while it runs can
\* still have served: it takes an admin at some moment since it was let in.
RoomRolesByAdmins ==
    [][ \A u \in Users :
          \/ room'[u].mod # room[u].mod
          \/ room'[u].admin # room[u].admin
          \/ RoomModerator(u) /\ ~room[u].banned /\ room'[u].banned
          => \E w \in Workers : /\ Does(w, u)
                                /\ IF session[w].legacy THEN wasAdmin[w]
                                   ELSE RoomAdmin(session[w].actor) ]_vars

\* What is scheduled for a user with a ban is the end of that ban, be it past, or
\* nothing; for the room nothing only if the ban is for good or for a timeout of
\* zero, which room.py says is reverted within seconds and never is.
UnbansMatchSentences ==
    \A u \in Users :
        /\ room[u].banned =>
             roomUnban[u] = IF roomSentence[u] = Zero THEN Never ELSE roomSentence[u]
        /\ server[u].banned => serverUnban[u] \in {Never, serverSentence[u]}

\* A ban from the room with a timeout, not zero, ends, or is made one for good,
\* unless moderators renew it for ever (MaxLookups bounds how often they do).
TimedRoomBansEnd ==
    \A u \in Users : []<>(room[u].banned => roomSentence[u] \in {Never, Zero})

\* user.py: "an unban will be scheduled to occur after the interval".  The code:
\* an unban of the user that began before the ban deletes it.
TimedServerBansScheduled ==
    \A u \in Users : server[u].banned => serverUnban[u] = serverSentence[u]

\* room.py: with a timeout of 0 "the ban will be reverted within a few seconds".
ZeroTimeoutScheduled ==
    \A u \in Users : room[u].banned /\ roomSentence[u] # Never => roomUnban[u] # Never

\* routes/users.py: "The invoking user must be a global admin in order to control
\* global mods/admins".  The code asks what the request knew when it began.
ServerRolesByAdmins ==
    [][ \A u \in Users : server'[u].admin /\ ~server[u].admin =>
          \E w \in Workers : Does(w, u) /\ server[session[w].actor].admin ]_vars

=============================================================================
