------------------------------ MODULE Timetable ------------------------------
(***************************************************************************)
(* What scheduling promises: a user's permissions are what was last        *)
(* decided, and at its time each scheduled change takes effect on top of   *)
(* those before it.  Of a user of whom several changes have come due       *)
(* together (`crowded`, which is not for this module to say) some may be   *)
(* lost, but none is undone and none comes true after a later one.         *)
(***************************************************************************)
EXTENDS Naturals

CONSTANTS Users, Perms, Unset

VARIABLES
    granted,    \* user, permission |-> TRUE, FALSE or Unset (the room's default)
    entries,    \* [user, perm, at, value]: one change of one permission
    defaults,
    now,
    crowded     \* the users of whom several changes are due

vars == <<granted, entries, defaults, now, crowded>>

Init ==
    /\ granted = [u \in Users |-> [p \in Perms |-> Unset]]
    /\ entries = {}
    /\ defaults \in [Perms -> BOOLEAN]
    /\ now = 0
    /\ crowded = {}

OfUser(u, P) == {e \in entries : e.user = u /\ e.perm \in P}

\* Permissions P of u are decided; what is scheduled for them is kept or cleared.
Decide(u, P) ==
    /\ \E change \in [P -> BOOLEAN \cup {Unset}] :
         granted' = [granted EXCEPT ![u] =
             [p \in Perms |-> IF p \in P THEN change[p] ELSE granted[u][p]]]
    /\ entries' \in {entries, entries \ OfUser(u, P)}
    /\ UNCHANGED <<defaults, now>>

Schedule(u) ==
    /\ entries \subseteq entries'
    /\ \A e \in entries' \ entries : e.user = u /\ e.at > now
    /\ UNCHANGED <<granted, defaults, now>>

DueOf(u, p) == {e \in entries : e.user = u /\ e.perm = p /\ e.at <= now}

\* What a permission comes to when all that is due for it has happened in turn.
Outcome(u, p) ==
    IF DueOf(u, p) = {} THEN {granted[u][p]}
    ELSE {IF e.value = defaults[p] THEN Unset ELSE e.value :
            e \in {l \in DueOf(u, p) : \A m \in DueOf(u, p) : m.at <= l.at}}

Fire ==
    /\ granted' \in [Users -> [Perms -> BOOLEAN \cup {Unset}]]
    /\ \A u \in Users, p \in Perms :
         \/ granted'[u][p] \in Outcome(u, p)
         \/ u \in crowded /\ granted'[u][p] = granted[u][p]
    /\ entries' = {e \in entries : e.at > now}
    /\ UNCHANGED <<defaults, now>>

SetDefault ==
    /\ defaults' \in [Perms -> BOOLEAN]
    /\ UNCHANGED <<granted, entries, now>>

Tick == now' = now + 1 /\ UNCHANGED <<granted, entries, defaults>>

Next ==
    \/ \E u \in Users, P \in SUBSET Perms : Decide(u, P)
    \/ \E u \in Users : Schedule(u)
    \/ Fire
    \/ SetDefault
    \/ Tick

Spec == Init /\ [][Next]_vars

=============================================================================
