------------------------------ MODULE Schedules ------------------------------
(***************************************************************************)
(* The permissions of users in a room: the room's defaults, the overrides, *)
(* and the changes scheduled for later, which the mule applies when due.   *)
(* A unit of time is the interval of the mule.                             *)
(***************************************************************************)
EXTENDS Naturals

CONSTANTS
    Users,
    Perms,      \* read, write, upload
    Unset,      \* NULL
    Databases,  \* the databases there may be: "sqlite", "postgres"
    MaxTime,    \* bound: the clock
    MaxFutures  \* bound: scheduled changes

ASSUME SchedulesAssumption ==
    /\ Unset \notin BOOLEAN
    /\ Databases \subseteq {"sqlite", "postgres"}
    /\ MaxTime \in Nat
    /\ MaxFutures \in Nat

VARIABLES
    defaults,   \* rooms.read, .write, .upload
    override,   \* user_permission_overrides
    futures,    \* user_permission_futures
    now,
    database    \* the one there is

scheduleVars == <<defaults, override, futures, now, database>>

-----------------------------------------------------------------------------

Value == BOOLEAN \cup {Unset}
Future == [row : Nat, user : Users, at : Nat, set : [Perms -> Value]]

ScheduleInit ==
    /\ defaults \in [Perms -> BOOLEAN]
    /\ override = [u \in Users |-> [p \in Perms |-> Unset]]
    /\ futures = {}
    /\ now = 0
    /\ database \in Databases

\* clear_future_permissions: the DELETE after it compares with `= NULL`, which
\* is never true, so a row with nothing left to set stays.
Cleared(u, P) ==
    {IF f.user = u
     THEN [f EXCEPT !.set = [p \in Perms |-> IF p \in P THEN Unset ELSE f.set[p]]]
     ELSE f : f \in futures}

\* Altered form: the row of the user is written anew.
SetPermissions_Replaces(u, P, unschedule) ==
    /\ \E change \in [P -> Value] : override' = [override EXCEPT ![u] = change]
    /\ futures' = IF unschedule THEN Cleared(u, P) ELSE futures
    /\ UNCHANGED <<defaults, now, database>>

\* POST /room/R/permissions/SID, `unschedule` as given.
SetPermissions(u, P, unschedule) ==
    /\ \E change \in [P -> Value] :
         override' = [override EXCEPT ![u] =
             [p \in Perms |-> IF p \in P THEN change[p] ELSE override[u][p]]]
    /\ futures' = IF unschedule THEN Cleared(u, P) ELSE futures
    /\ UNCHANGED <<defaults, now, database>>

FreeRows == 1..MaxFutures \ {f.row : f \in futures}

\* Altered form: whatever `in` is.
AddFuture_Unchecked(u, at, set) ==
    /\ \E p \in Perms : set[p] # Unset
    /\ FreeRows # {}
    /\ futures' = futures \cup
         {[row |-> CHOOSE r \in FreeRows : TRUE, user |-> u, at |-> at, set |-> set]}
    /\ UNCHANGED <<defaults, override, now, database>>

\* POST /room/R/futurePermissions/SID: `in` is positive, and something is set.
AddFuture(u, at, set) ==
    /\ at > now
    /\ \E p \in Perms : set[p] # Unset
    /\ FreeRows # {}
    /\ futures' = futures \cup
         {[row |-> CHOOSE r \in FreeRows : TRUE, user |-> u, at |-> at, set |-> set]}
    /\ UNCHANGED <<defaults, override, now, database>>

SetDefault(p, value) ==
    /\ defaults[p] # value
    /\ defaults' = [defaults EXCEPT ![p] = value]
    /\ UNCHANGED <<override, futures, now, database>>

Due == {f \in futures : f.at <= now}
DueOf(u) == {f \in Due : f.user = u}
Crowded(u) == \E f, g \in DueOf(u) : f # g
LatestOf(u) == {f \in DueOf(u) : \A g \in DueOf(u) : g.at <= f.at}

\* What one row makes of an override, as read by the INSERT ... SELECT.
AppliedTo(f, row) ==
    [p \in Perms |-> CASE f.set[p] = Unset -> row[p]
                       [] f.set[p] = defaults[p] -> Unset
                       [] OTHER -> f.set[p]]

\* Altered form: a change is due only after its time.
ApplyFutures_Late ==
    /\ \E f \in futures : f.at < now
    /\ override' = [u \in Users |->
         IF \E f \in DueOf(u) : f.at < now
         THEN AppliedTo(CHOOSE f \in DueOf(u) : f.at < now, override[u]) ELSE override[u]]
    /\ futures' = {f \in futures : f.at >= now}
    /\ UNCHANGED <<defaults, now, database>>

\* The first half of apply_permission_updates.  Every row is computed from the
\* override there was before the statement: of several rows of a user the last
\* one written is what remains, and PostgreSQL refuses to write one twice.
ApplyFutures ==
    /\ Due # {}
    /\ database = "postgres" => \A u \in Users : ~Crowded(u)
    /\ \E last \in [Users -> Due] :
         /\ \A u \in Users : DueOf(u) # {} => last[u] \in LatestOf(u)
         /\ override' = [u \in Users |-> IF DueOf(u) = {} THEN override[u]
                                         ELSE AppliedTo(last[u], override[u])]
    /\ futures' = futures \ Due
    /\ UNCHANGED <<defaults, now, database>>

TickTime ==
    /\ now < MaxTime
    /\ now' = now + 1
    /\ UNCHANGED <<defaults, override, futures, database>>

ScheduleNext ==
    \/ \E u \in Users, P \in SUBSET Perms \ {{}}, unschedule \in BOOLEAN :
         SetPermissions(u, P, unschedule)
    \/ \E u \in Users, at \in 1..MaxTime, set \in [Perms -> Value] : AddFuture(u, at, set)
    \/ \E p \in Perms, value \in BOOLEAN : SetDefault(p, value)
    \/ ApplyFutures
    \/ TickTime

ScheduleSpec == ScheduleInit /\ [][ScheduleNext]_scheduleVars

\* The clock goes on, and the mule's timer runs apply_permission_updates.
ScheduleFairness == WF_scheduleVars(TickTime) /\ WF_scheduleVars(ApplyFutures)

FairScheduleSpec == ScheduleSpec /\ ScheduleFairness

-----------------------------------------------------------------------------
(* Properties.                                                             *)

\* Types; every row has all the permissions, set or not.
ScheduleTypeOK ==
    /\ defaults \in [Perms -> BOOLEAN]
    /\ override \in [Users -> [Perms -> Value]]
    /\ futures \subseteq Future
    /\ now \in Nat
    /\ database \in Databases

\* Each row is as many entries of the timetable as it sets permissions.
Entries ==
    UNION {{[user |-> f.user, perm |-> p, at |-> f.at, value |-> f.set[p]] :
              p \in {q \in Perms : f.set[q] # Unset}} : f \in futures}

Feed == INSTANCE Timetable WITH
    granted <- override, entries <- Entries, crowded <- {u \in Users : Crowded(u)}

\* Permissions change as decided, scheduled and cleared, one user's at a time, and
\* what was scheduled is for later (routes/rooms.py, Room.set_permissions).  When the
\* mule runs, a change that is the only one due of its user takes effect; of several
\* of one user some may be lost, and none takes effect over a later one.
TimetableSpec == Feed!Spec

\* PostgreSQL refuses the statement, for everybody, while two rows of a user are due.
Stuck == database = "postgres" /\ \E u \in Users : Crowded(u)

\* Every scheduled change is applied or cleared in the end, of however many users and
\* permissions, unless on PostgreSQL two changes of somebody have come due together.
ScheduledHappen ==
    \A u \in Users, t \in 1..MaxTime :
        (\E f \in futures : f.user = u /\ f.at = t) ~>
            (Stuck \/ ~(\E f \in futures : f.user = u /\ f.at = t))

\* room.py: "The permission change will occur at (or within a few seconds of) the unix
\* timestamp".  The code: every row is computed from the override of before the mule's
\* statement, and of two that are due the earlier one is lost.
DueInTurn ==
    [][ApplyFutures => \A u \in Users, p \in Perms : override'[u][p] \in Feed!Outcome(u, p)]_scheduleVars

\* room.py: clear_future_permissions leaves no row without a change.  The code
\* compares with `= NULL`, and leaves them all.
ClearedRowsGo == \A f \in futures : \E p \in Perms : f.set[p] # Unset

=============================================================================
