------------------------------- MODULE Blinding -------------------------------
(***************************************************************************)
(* People have two ids: the unblinded one ("05..."), by which moderators   *)
(* may name them, and the blinded one ("15..."), by which they log in once *)
(* the server requires it.  What was decided about the unblinded id moves  *)
(* to the blinded one when that first appears.                             *)
(***************************************************************************)
EXTENDS Naturals

CONSTANTS
    People,
    Nobody,
    Workers,
    Perms, Unset, Databases, MaxTime, MaxFutures    \* as in Schedules

ASSUME BlindingAssumption ==
    /\ Nobody \notin People
    /\ Unset \notin BOOLEAN
    /\ Databases \subseteq {"sqlite", "postgres"}
    /\ MaxTime \in Nat
    /\ MaxFutures \in Nat

Ids == People \X {"05", "15"}
Plain(p) == <<p, "05">>
Blinded(p) == <<p, "15">>

VARIABLES
    defaults, override, futures, now, database, \* as in Schedules, of Ids
    users,          \* the rows of `users`
    server,         \* their columns banned and moderator
    room,           \* those of user_permission_overrides
    needsBlinding,  \* needs_blinding, by person
    started,        \* the server has been started with blinded ids required
    work            \* what each worker is about

INSTANCE Schedules WITH Users <- Ids

standing == <<override, futures, server, room>>
blindVars == <<defaults, now, database, standing, users, needsBlinding, started, work>>

Role == {"none", "banned", "moderator"}
Idle == [kind |-> "idle", id |-> <<Nobody, "05">>]
Work == [kind : {"idle", "login", "create", "decide"}, id : Ids \cup {<<Nobody, "05">>}]

-----------------------------------------------------------------------------

\* What check_needs_blinding looks for.
Holds(id) ==
    \/ room[id] # "none"
    \/ \E p \in Perms : override[id][p] # Unset
    \/ \E f \in futures : f.user = id
    \/ server[id] # "none"

\* The server starts, with check_needs_blinding; what was in progress is gone.
Start ==
    /\ started' = TRUE
    /\ needsBlinding' = needsBlinding \cup {p \in People : Plain(p) \in users /\ Holds(Plain(p))}
    /\ work' = [w \in Workers |-> Idle]
    /\ UNCHANGED <<defaults, now, database, standing, users>>

\* User(session_id="15..."): there is no row yet.
LogIn(w, p) ==
    /\ started
    /\ work[w] = Idle
    /\ Blinded(p) \notin users
    /\ work' = [work EXCEPT ![w] = [kind |-> "login", id |-> Blinded(p)]]
    /\ UNCHANGED <<defaults, now, database, standing, users, needsBlinding, started>>

Moved(f, old, new) ==
    [id \in DOMAIN f |-> IF id = new THEN f[old] ELSE IF id = old THEN f[new] ELSE f[id]]

\* Altered form: the scheduled changes stay behind.
MoveStanding_KeepsFutures(old, new) ==
    /\ server' = Moved(server, old, new)
    /\ room' = Moved(room, old, new)
    /\ override' = Moved(override, old, new)
    /\ UNCHANGED futures

\* All there is of `new` is a row just inserted.
MoveStanding(old, new) ==
    /\ server' = Moved(server, old, new)
    /\ room' = Moved(room, old, new)
    /\ override' = Moved(override, old, new)
    /\ futures' = {IF f.user = old THEN [f EXCEPT !.user = new] ELSE f : f \in futures}

\* User._import_blinded: one transaction.  An id that appeared meanwhile breaks the
\* constraint of the table, and the request fails.
ImportBlinded(w) ==
    LET p == work[w].id[1]
    IN  /\ work[w].kind = "login"
        /\ IF p \notin needsBlinding
           THEN /\ work' = [work EXCEPT ![w].kind = "create"]
                /\ UNCHANGED <<standing, users, needsBlinding>>
           ELSE /\ work' = [work EXCEPT ![w] = Idle]
                /\ Blinded(p) \notin users
                /\ users' = users \cup {Blinded(p)}
                /\ MoveStanding(Plain(p), Blinded(p))
                /\ needsBlinding' = needsBlinding \ {p}
        /\ UNCHANGED <<defaults, now, database, started>>

\* Nothing was to be imported: a row of its own.
CreateUser(w) ==
    /\ work[w].kind = "create"
    /\ work[w].id \notin users
    /\ users' = users \cup {work[w].id}
    /\ work' = [work EXCEPT ![w] = Idle]
    /\ UNCHANGED <<defaults, now, database, standing, needsBlinding, started>>

\* The request fails, or its worker dies.
GiveUp(w) ==
    /\ work[w] # Idle
    /\ work' = [work EXCEPT ![w] = Idle]
    /\ UNCHANGED <<defaults, now, database, standing, users, needsBlinding, started>>

-----------------------------------------------------------------------------
(* A moderator decides about a person named by the unblinded id.           *)

\* User(session_id="05...", try_blinding=True): the blinded row if there is one, else
\* the unblinded one, which is created if need be.
LoadTarget(w, p) ==
    LET id == IF Blinded(p) \in users THEN Blinded(p) ELSE Plain(p)
    IN  /\ started
        /\ work[w] = Idle
        /\ work' = [work EXCEPT ![w] = [kind |-> "decide", id |-> id]]
        /\ users' = users \cup {id}
        /\ UNCHANGED <<defaults, now, database, standing, needsBlinding, started>>

\* Altered form: nothing is remembered of an unblinded id.
CheckBlinding_Forgets(w) ==
    /\ work[w].kind = "decide"
    /\ work' = [work EXCEPT ![w] = Idle]
    /\ UNCHANGED <<needsBlinding, defaults, now, database, users, started>>

\* User.check_blinding around the decision.  find_blinded does not look again for an
\* id that construction has looked for (`_tried_blinding`).
CheckBlinding(w) ==
    LET id == work[w].id
    IN  /\ work[w].kind = "decide"
        /\ needsBlinding' = IF id[2] = "05" THEN needsBlinding \cup {id[1]} ELSE needsBlinding
        /\ work' = [work EXCEPT ![w] = Idle]
        /\ UNCHANGED <<defaults, now, database, users, started>>

\* Room.set_moderator, ban_user, unban_user, remove_moderator.
DecideRoomRole(w, role) ==
    /\ CheckBlinding(w)
    /\ room' = [room EXCEPT ![work[w].id] = role]
    /\ UNCHANGED <<override, futures, server>>

\* User.set_moderator and User.ban, who are no moderators.
DecideServerRole(w, role) ==
    /\ CheckBlinding(w)
    /\ role = "banned" => server[work[w].id] # "moderator"
    /\ server' = [server EXCEPT ![work[w].id] = role]
    /\ UNCHANGED <<override, futures, room>>

\* User.unban and User.remove_moderator, without check_blinding.
DropServerRole(w) ==
    /\ work[w].kind = "decide"
    /\ server' = [server EXCEPT ![work[w].id] = "none"]
    /\ work' = [work EXCEPT ![w] = Idle]
    /\ UNCHANGED <<override, futures, room, needsBlinding, defaults, now, database, users, started>>

DecidePermissions(w) ==
    /\ CheckBlinding(w)
    /\ \/ \E P \in SUBSET Perms \ {{}}, unschedule \in BOOLEAN :
            SetPermissions(work[w].id, P, unschedule)
       \/ \E at \in 1..MaxTime, set \in [Perms -> Value] : AddFuture(work[w].id, at, set)
    /\ UNCHANGED <<server, room>>

Mule ==
    /\ started
    /\ ApplyFutures \/ TickTime
    /\ UNCHANGED <<server, room, users, needsBlinding, started, work>>

-----------------------------------------------------------------------------

\* A database from before blinding: decisions about unblinded ids.
BlindInit ==
    /\ defaults \in [Perms -> BOOLEAN]
    /\ users \in {P \X {"05"} : P \in SUBSET People}
    /\ server \in {s \in [Ids -> Role] : \A id \in Ids \ users : s[id] = "none"}
    /\ room \in {r \in [Ids -> Role] : \A id \in Ids \ users : r[id] = "none"}
    /\ override \in {o \in [Ids -> [Perms -> Value]] :
                       \A id \in Ids \ users : \A p \in Perms : o[id][p] = Unset}
    /\ futures = {}
    /\ now = 0
    /\ database \in Databases
    /\ needsBlinding = {}
    /\ started = FALSE
    /\ work = [w \in Workers |-> Idle]

BlindNext ==
    \/ Start
    \/ \E w \in Workers, p \in People : LogIn(w, p)
    \/ \E w \in Workers : ImportBlinded(w)
    \/ \E w \in Workers : CreateUser(w)
    \/ \E w \in Workers : GiveUp(w)
    \/ \E w \in Workers, p \in People : LoadTarget(w, p)
    \/ \E w \in Workers, role \in Role : DecideRoomRole(w, role)
    \/ \E w \in Workers, role \in Role \ {"none"} : DecideServerRole(w, role)
    \/ \E w \in Workers : DropServerRole(w)
    \/ \E w \in Workers : DecidePermissions(w)
    \/ Mule

BlindSpec == BlindInit /\ [][BlindNext]_blindVars

-----------------------------------------------------------------------------
(* Properties.                                                             *)

\* Types; whatever is decided is about an id that has a row, and only one who has
\* a row is waiting to be blinded.
BlindTypeOK ==
    /\ ScheduleTypeOK
    /\ users \subseteq Ids
    /\ server \in [Ids -> Role]
    /\ room \in [Ids -> Role]
    /\ needsBlinding \subseteq People
    /\ started \in BOOLEAN
    /\ work \in [Workers -> Work]
    /\ \A id \in Ids : Holds(id) => id \in users
    /\ \A p \in needsBlinding : Plain(p) \in users

\* Whatever is held by an unblinded id is remembered as to be moved, in whichever
\* order people log in, moderators decide, the mule applies changes and the server is
\* restarted (schema.sqlite: "will happen the first time the user authenticates").
HoldersAreTracked ==
    started => \A p \in People : Holds(Plain(p)) => p \in needsBlinding

\* What a person has, by either id.
Standing(p) ==
    [server |-> {server[Plain(p)], server[Blinded(p)]} \ {"none"},
     room |-> {room[Plain(p)], room[Blinded(p)]} \ {"none"},
     perms |-> {override[Plain(p)], override[Blinded(p)]},
     later |-> {[at |-> f.at, set |-> f.set] : f \in {g \in futures : g.user[1] = p}}]

\* Moving changes nothing of what people have, and leaves nothing behind.
MovingLosesNothing ==
    [][ \A p \in People : p \in needsBlinding /\ p \notin needsBlinding' =>
          /\ Standing(p)' = Standing(p)
          /\ ~Holds(Plain(p))' ]_blindVars

\* user.py: what is decided about somebody who has a blinded id is decided about that
\* id ("attempts to look up the blinded User record for this user").  The code: an id
\* that was looked for before the person logged in is not looked for again, and what
\* is decided about the unblinded id never takes effect.
DecisionsReachPeople ==
    \A p \in People : started /\ Blinded(p) \in users => ~Holds(Plain(p))

=============================================================================
