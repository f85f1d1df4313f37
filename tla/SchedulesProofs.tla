---------------------------- MODULE SchedulesProofs ----------------------------
(* Theorems about Schedules, for any users, permissions, databases and clock. *)
EXTENDS Schedules, TLAPS

USE SchedulesAssumption

\* What is left of a change that was cleared.
Rest(f, u, P) ==
    IF f.user = u
    THEN [f EXCEPT !.set = [p \in Perms |-> IF p \in P THEN Unset ELSE f.set[p]]]
    ELSE f

LEMMA RestType ==
    ASSUME NEW f \in Future, NEW u \in Users, NEW P \in SUBSET Perms
    PROVE  /\ Rest(f, u, P) \in Future
           /\ Rest(f, u, P).user = f.user
           /\ Rest(f, u, P).at = f.at
           /\ \A p \in Perms :
                Rest(f, u, P).set[p] = IF f.user = u /\ p \in P THEN Unset ELSE f.set[p]
<1> DEFINE s == [p \in Perms |-> IF p \in P THEN Unset ELSE f.set[p]]
<1>1. s \in [Perms -> Value]
  BY DEF Future, Value
<1>2. \A p \in Perms : s[p] = IF p \in P THEN Unset ELSE f.set[p]
  OBVIOUS
<1> HIDE DEF s
<1>3. CASE f.user = u
  <2>1. Rest(f, u, P) = [row |-> f.row, user |-> f.user, at |-> f.at, set |-> s]
    BY <1>3 DEF Rest, Future, s
  <2> QED
    BY <1>1, <1>2, <1>3, <2>1 DEF Future
<1>4. CASE f.user # u
  BY <1>4 DEF Rest
<1> QED
  BY <1>3, <1>4

LEMMA ClearedRests ==
    ASSUME NEW u, NEW P
    PROVE  Cleared(u, P) = {Rest(f, u, P) : f \in futures}
  BY DEF Cleared, Rest

-----------------------------------------------------------------------------
(* Types.                                                                    *)

LEMMA SetPermissionsType ==
    ASSUME ScheduleTypeOK, NEW u \in Users, NEW P \in SUBSET Perms, NEW unschedule \in BOOLEAN,
           SetPermissions(u, P, unschedule)
    PROVE  ScheduleTypeOK'
<1>1. PICK change \in [P -> Value] :
        override' = [override EXCEPT ![u] =
            [p \in Perms |-> IF p \in P THEN change[p] ELSE override[u][p]]]
  BY DEF SetPermissions
<1>2. override' \in [Users -> [Perms -> Value]]
  <2>1. [p \in Perms |-> IF p \in P THEN change[p] ELSE override[u][p]] \in [Perms -> Value]
    BY DEF ScheduleTypeOK
  <2> QED
    BY <1>1, <2>1 DEF ScheduleTypeOK
<1>3. futures' \in {futures, {Rest(f, u, P) : f \in futures}} /\ UNCHANGED <<defaults, now, database>>
  BY ClearedRests DEF SetPermissions
<1>4. futures' \subseteq Future
  BY <1>3, RestType DEF ScheduleTypeOK
<1> QED
  BY <1>2, <1>3, <1>4 DEF ScheduleTypeOK

\* The row a change is put in, where its number is one the table has free.
LEMMA AddedFuture ==
    ASSUME NEW u \in Users, NEW at \in 1 .. MaxTime, NEW set \in [Perms -> Value],
           AddFuture(u, at, set)
    PROVE  \E f \in Future : /\ f.user = u /\ f.at = at /\ at > now
                             /\ futures' = futures \cup {f}
                             /\ UNCHANGED <<defaults, override, now, database>>
<1> DEFINE r == CHOOSE r \in FreeRows : TRUE
           f == [row |-> r, user |-> u, at |-> at, set |-> set]
<1>1. r \in FreeRows
  BY DEF AddFuture
<1>2. r \in Nat
  BY <1>1 DEF FreeRows
<1>3. futures' = futures \cup {f} /\ at > now /\ UNCHANGED <<defaults, override, now, database>>
  BY DEF AddFuture
<1> HIDE DEF r
<1>4. f \in Future /\ f.user = u /\ f.at = at
  BY <1>2 DEF Future
<1> QED
  BY <1>3, <1>4

LEMMA AppliedType ==
    ASSUME NEW f \in Future, NEW row \in [Perms -> Value], defaults \in [Perms -> BOOLEAN]
    PROVE  AppliedTo(f, row) \in [Perms -> Value]
<1>1. \A p \in Perms : f.set[p] \in Value /\ row[p] \in Value /\ Unset \in Value
  BY DEF Future, Value
<1> QED
  BY <1>1 DEF AppliedTo

LEMMA ApplyFuturesType ==
    ASSUME ScheduleTypeOK, ApplyFutures
    PROVE  ScheduleTypeOK'
<1>1. PICK last \in [Users -> Due] :
        override' = [u \in Users |-> IF DueOf(u) = {} THEN override[u]
                                     ELSE AppliedTo(last[u], override[u])]
  BY DEF ApplyFutures
<1>2. futures' \subseteq futures /\ UNCHANGED <<defaults, now, database>>
  BY DEF ApplyFutures
<1>3. \A u \in Users : AppliedTo(last[u], override[u]) \in [Perms -> Value]
  BY AppliedType DEF ScheduleTypeOK, Due
<1>4. override' \in [Users -> [Perms -> Value]]
  BY <1>1, <1>3 DEF ScheduleTypeOK
<1> QED
  BY <1>2, <1>4 DEF ScheduleTypeOK

\* The three tables keep their types, on either database and whatever comes due
\* together (Room.set_permissions, .add_future_permission, apply_permission_updates).
THEOREM ScheduleTypeCorrect == ScheduleSpec => []ScheduleTypeOK
<1>1. ScheduleInit => ScheduleTypeOK
  BY DEF ScheduleInit, ScheduleTypeOK, Value
<1>2. ScheduleTypeOK /\ [ScheduleNext]_scheduleVars => ScheduleTypeOK'
  <2> SUFFICES ASSUME ScheduleTypeOK, [ScheduleNext]_scheduleVars PROVE ScheduleTypeOK'
    OBVIOUS
  <2>1. CASE \E u \in Users, P \in SUBSET Perms \ {{}}, unschedule \in BOOLEAN :
               SetPermissions(u, P, unschedule)
    BY <2>1, SetPermissionsType
  <2>2. CASE \E u \in Users, at \in 1 .. MaxTime, set \in [Perms -> Value] :
               AddFuture(u, at, set)
    BY <2>2, AddedFuture DEF ScheduleTypeOK
  <2>3. CASE \E p \in Perms, value \in BOOLEAN : SetDefault(p, value)
    BY <2>3 DEF SetDefault, ScheduleTypeOK
  <2>4. CASE ApplyFutures
    BY <2>4, ApplyFuturesType
  <2>5. CASE TickTime
    BY <2>5 DEF TickTime, ScheduleTypeOK
  <2>6. CASE UNCHANGED scheduleVars
    BY <2>6 DEF scheduleVars, ScheduleTypeOK
  <2> QED
    BY <2>1, <2>2, <2>3, <2>4, <2>5, <2>6 DEF ScheduleNext
<1> QED
  BY <1>1, <1>2, PTL DEF ScheduleSpec

-----------------------------------------------------------------------------
(* What is scheduled, as the timetable has it.                               *)

Entry(f, p) == [user |-> f.user, perm |-> p, at |-> f.at, value |-> f.set[p]]

\* The entries of the rows F.
EntriesOf(F) == {e \in {Entry(f, p) : f \in F, p \in Perms} : e.value # Unset}

LEMMA EntriesMember ==
    ASSUME NEW F, NEW e
    PROVE  e \in EntriesOf(F) <=> \E f \in F, p \in Perms : f.set[p] # Unset /\ e = Entry(f, p)
  BY DEF EntriesOf, Entry

LEMMA EntriesAre == Entries = EntriesOf(futures) /\ Entries' = EntriesOf(futures')
<1>1. ASSUME NEW F
      PROVE  UNION {{[user |-> f.user, perm |-> p, at |-> f.at, value |-> f.set[p]] :
                       p \in {q \in Perms : f.set[q] # Unset}} : f \in F} = EntriesOf(F)
  <2> DEFINE U == UNION {{[user |-> f.user, perm |-> p, at |-> f.at, value |-> f.set[p]] :
                            p \in {q \in Perms : f.set[q] # Unset}} : f \in F}
  <2>1. \A e : e \in U <=> \E f \in F, p \in Perms : f.set[p] # Unset /\ e = Entry(f, p)
    BY DEF Entry
  <2> HIDE DEF U
  <2>2. U = EntriesOf(F)
    BY <2>1, EntriesMember
  <2> QED
    BY <2>2 DEF U
<1>2. Entries = EntriesOf(futures)
  BY <1>1 DEF Entries
<1>3. Entries' = EntriesOf(futures')
  BY <1>1 DEF Entries
<1> QED
  BY <1>2, <1>3

-----------------------------------------------------------------------------
(* Each action is one of the timetable's.                                    *)

LEMMA SetPermissionsDecides ==
    ASSUME ScheduleTypeOK, NEW u \in Users, NEW P \in SUBSET Perms, NEW unschedule \in BOOLEAN,
           SetPermissions(u, P, unschedule)
    PROVE  Feed!Decide(u, P)
<1>1. \E change \in [P -> BOOLEAN \cup {Unset}] :
        override' = [override EXCEPT ![u] =
            [p \in Perms |-> IF p \in P THEN change[p] ELSE override[u][p]]]
  BY DEF SetPermissions, Value
<1>2. UNCHANGED <<defaults, now, database>>
  BY DEF SetPermissions
<1>3. CASE futures' = futures
  BY <1>1, <1>2, <1>3, EntriesAre DEF Feed!Decide
<1>4. CASE futures' = {Rest(f, u, P) : f \in futures}
  <2>1. ASSUME NEW e
        PROVE  e \in EntriesOf(futures') <=> e \in EntriesOf(futures) /\ ~(e.user = u /\ e.perm \in P)
    <3>0. \A f \in futures : /\ Rest(f, u, P).user = f.user
                             /\ Rest(f, u, P).at = f.at
                             /\ \A p \in Perms :
                                  Rest(f, u, P).set[p] =
                                      IF f.user = u /\ p \in P THEN Unset ELSE f.set[p]
      BY RestType DEF ScheduleTypeOK
    <3>1. \A f \in futures, p \in Perms :
            Rest(f, u, P).set[p] # Unset <=> f.set[p] # Unset /\ ~(f.user = u /\ p \in P)
      BY <3>0
    <3>2. \A f \in futures, p \in Perms :
            Rest(f, u, P).set[p] # Unset => Entry(Rest(f, u, P), p) = Entry(f, p)
      BY <3>0 DEF Entry
    <3>3. \A f, p : Entry(f, p).user = f.user /\ Entry(f, p).perm = p
      BY DEF Entry
    <3>4. e \in EntriesOf(futures') <=>
            \E f \in futures, p \in Perms :
                Rest(f, u, P).set[p] # Unset /\ e = Entry(Rest(f, u, P), p)
      BY <1>4, EntriesMember
    <3>5. e \in EntriesOf(futures') <=>
            \E f \in futures, p \in Perms :
                f.set[p] # Unset /\ ~(f.user = u /\ p \in P) /\ e = Entry(f, p)
      BY <3>1, <3>2, <3>4
    <3>6. e \in EntriesOf(futures) <=>
            \E f \in futures, p \in Perms : f.set[p] # Unset /\ e = Entry(f, p)
      BY EntriesMember
    <3> QED
      BY <3>3, <3>5, <3>6
  <2>2. EntriesOf(futures') = EntriesOf(futures) \
          {e \in EntriesOf(futures) : e.user = u /\ e.perm \in P}
    BY <2>1
  <2> QED
    BY <1>1, <1>2, <2>2, EntriesAre DEF Feed!Decide, Feed!OfUser
<1> QED
  BY <1>3, <1>4, ClearedRests DEF SetPermissions

LEMMA AddFutureSchedules ==
    ASSUME ScheduleTypeOK, NEW u \in Users, NEW at \in 1 .. MaxTime, NEW set \in [Perms -> Value],
           AddFuture(u, at, set)
    PROVE  Feed!Schedule(u)
<1>1. PICK f \in Future : /\ f.user = u /\ f.at = at /\ at > now
                          /\ futures' = futures \cup {f}
                          /\ UNCHANGED <<defaults, override, now, database>>
  BY AddedFuture
<1>3. ASSUME NEW e \in EntriesOf(futures) PROVE e \in EntriesOf(futures')
  BY <1>1, EntriesMember
<1>4. ASSUME NEW e \in EntriesOf(futures') \ EntriesOf(futures) PROVE e.user = u /\ e.at > now
  <2>1. PICK g \in futures', p \in Perms : g.set[p] # Unset /\ e = Entry(g, p)
    BY EntriesMember
  <2>2. g = f
    BY <1>1, <1>4, <2>1, EntriesMember
  <2>3. e.user = f.user /\ e.at = f.at
    BY <2>1, <2>2 DEF Entry
  <2> QED
    BY <1>1, <2>3
<1> QED
  BY <1>1, <1>3, <1>4, EntriesAre DEF Feed!Schedule

\* The row that remains of a user is one of the last that are due: of a user who has
\* no other it is the outcome, and where it sets nothing the permission stays.
LEMMA ApplyFuturesFires ==
    ASSUME ScheduleTypeOK, ApplyFutures
    PROVE  Feed!Fire
<1>1. PICK last \in [Users -> Due] :
        /\ \A u \in Users : DueOf(u) # {} => last[u] \in LatestOf(u)
        /\ override' = [u \in Users |-> IF DueOf(u) = {} THEN override[u]
                                        ELSE AppliedTo(last[u], override[u])]
  BY DEF ApplyFutures
<1>2. futures' = futures \ Due /\ UNCHANGED <<defaults, now, database>>
  BY DEF ApplyFutures
<1>3. futures \subseteq Future /\ now \in Nat
  BY DEF ScheduleTypeOK
<1>4. \A f \in futures : f.at \in Nat /\ f.user \in Users /\ f.set \in [Perms -> Value]
  BY <1>3 DEF Future
<1>6. \A e : e \in EntriesOf(futures') <=> e \in EntriesOf(futures) /\ e.at > now
  <2> TAKE e
  <2>1. \A f \in futures : f \in futures' <=> f.at > now
    BY <1>2, <1>3, <1>4 DEF Due
  <2>2. \A f, p : Entry(f, p).at = f.at
    BY DEF Entry
  <2>3. futures' \subseteq futures
    BY <1>2
  <2> QED
    BY <2>1, <2>2, <2>3, EntriesMember
<1>7. override' \in [Users -> [Perms -> BOOLEAN \cup {Unset}]]
  BY ApplyFuturesType DEF ScheduleTypeOK, Value
<1>8. ASSUME NEW u \in Users, NEW p \in Perms
      PROVE  \/ override'[u][p] \in Feed!Outcome(u, p)
             \/ Crowded(u) /\ override'[u][p] = override[u][p]
  <2>1. \A e : e \in Feed!DueOf(u, p) <=>
                 \E f \in DueOf(u) : f.set[p] # Unset /\ e = Entry(f, p)
    <3>1. \A e : e \in Feed!DueOf(u, p) <=>
                   e \in EntriesOf(futures) /\ e.user = u /\ e.perm = p /\ e.at <= now
      BY EntriesAre DEF Feed!DueOf
    <3>2. \A f, q : Entry(f, q).user = f.user /\ Entry(f, q).perm = q /\ Entry(f, q).at = f.at
      BY DEF Entry
    <3>3. \A f : f \in DueOf(u) <=> f \in futures /\ f.user = u /\ f.at <= now
      BY DEF DueOf, Due
    <3> QED
      BY <3>1, <3>2, <3>3, EntriesMember
  <2>2. CASE DueOf(u) = {}
    <3>1. override'[u][p] = override[u][p]
      BY <1>1, <2>2
    <3>2. Feed!DueOf(u, p) = {}
      BY <2>1, <2>2
    <3> QED
      BY <3>1, <3>2 DEF Feed!Outcome
  <2>3. CASE DueOf(u) # {}
    <3> DEFINE f == last[u]
    <3>1. f \in DueOf(u) /\ f \in futures
      BY <1>1, <2>3 DEF LatestOf, DueOf, Due
    <3>2. \A g \in DueOf(u) : g.at <= f.at
      BY <1>1, <2>3 DEF LatestOf
    <3>3. override'[u] = AppliedTo(f, override[u])
      BY <1>1, <2>3
    <3> HIDE DEF f
    <3>4. override'[u][p] = CASE f.set[p] = Unset -> override[u][p]
                              [] f.set[p] = defaults[p] -> Unset
                              [] OTHER -> f.set[p]
      BY <3>3 DEF AppliedTo
    <3>5. CASE f.set[p] = Unset
      <4>1. defaults[p] # Unset
        BY DEF ScheduleTypeOK
      <4>2. override'[u][p] = override[u][p]
        BY <3>4, <3>5, <4>1
      <4>3. ~Crowded(u) => Feed!DueOf(u, p) = {}
        BY <2>1, <3>1, <3>5 DEF Crowded
      <4> QED
        BY <4>2, <4>3 DEF Feed!Outcome
    <3>6. CASE f.set[p] # Unset
      <4>1. Entry(f, p) \in Feed!DueOf(u, p)
        BY <2>1, <3>1, <3>6
      <4>2. Entry(f, p).at = f.at /\ Entry(f, p).value = f.set[p]
        BY DEF Entry
      <4>3. \A m \in Feed!DueOf(u, p) : m.at <= Entry(f, p).at
        <5>1. \A g : Entry(g, p).at = g.at
          BY DEF Entry
        <5> QED
          BY <2>1, <3>2, <5>1
      <4>4. override'[u][p] = IF f.set[p] = defaults[p] THEN Unset ELSE f.set[p]
        BY <3>4, <3>6
      <4>5. override'[u][p] \in Feed!Outcome(u, p)
        BY <4>1, <4>2, <4>3, <4>4 DEF Feed!Outcome
      <4> QED
        BY <4>5
    <3> QED
      BY <3>5, <3>6
  <2> QED
    BY <2>2, <2>3
<1>9. Entries' = {e \in Entries : e.at > now}
  BY <1>6, EntriesAre
<1> QED
  BY <1>2, <1>7, <1>8, <1>9 DEF Feed!Fire

-----------------------------------------------------------------------------
(* What follows.                                                             *)

\* The three tables and the mule do what the timetable promises: every operation of the
\* source is one of its steps (Room.set_permissions, Room.add_future_permission,
\* Room.clear_future_permissions, apply_permission_updates).  Only of a user of whom two
\* changes came due together can one be lost.
THEOREM ImplementsTimetable == ScheduleSpec => TimetableSpec
<1>1. ScheduleInit => Feed!Init
  <2>1. futures = {} => Entries = {}
    BY DEF Entries
  <2> QED
    BY <2>1 DEF ScheduleInit, Feed!Init, Crowded, DueOf, Due
<1>2. ScheduleTypeOK /\ [ScheduleNext]_scheduleVars => [Feed!Next]_(Feed!vars)
  <2> SUFFICES ASSUME ScheduleTypeOK, [ScheduleNext]_scheduleVars
               PROVE  [Feed!Next]_(Feed!vars)
    OBVIOUS
  <2>1. CASE \E u \in Users, P \in SUBSET Perms \ {{}}, unschedule \in BOOLEAN :
               SetPermissions(u, P, unschedule)
    BY <2>1, SetPermissionsDecides DEF Feed!Next
  <2>2. CASE \E u \in Users, at \in 1 .. MaxTime, set \in [Perms -> Value] :
               AddFuture(u, at, set)
    BY <2>2, AddFutureSchedules DEF Feed!Next
  <2>3. CASE \E p \in Perms, value \in BOOLEAN : SetDefault(p, value)
    <3>1. defaults' \in [Perms -> BOOLEAN] /\ UNCHANGED <<override, futures, now, database>>
      BY <2>3 DEF SetDefault, ScheduleTypeOK
    <3> QED
      BY <3>1, EntriesAre DEF Feed!Next, Feed!SetDefault
  <2>4. CASE ApplyFutures
    BY <2>4, ApplyFuturesFires DEF Feed!Next
  <2>5. CASE TickTime
    BY <2>5, EntriesAre DEF TickTime, Feed!Next, Feed!Tick
  <2>6. CASE UNCHANGED scheduleVars
    <3>1. {w \in Users : Crowded(w)}' = {w \in Users : Crowded(w)}
      BY <2>6 DEF scheduleVars, Crowded, DueOf, Due
    <3> QED
      BY <2>6, <3>1, EntriesAre DEF scheduleVars, Feed!vars
  <2> QED
    BY <2>1, <2>2, <2>3, <2>4, <2>5, <2>6 DEF ScheduleNext
<1> QED
  BY <1>1, <1>2, ScheduleTypeCorrect, PTL DEF ScheduleSpec, TimetableSpec, Feed!Spec

=============================================================================
