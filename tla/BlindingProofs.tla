---------------------------- MODULE BlindingProofs ----------------------------
(* Theorems about Blinding, for any people, workers, permissions and clock. *)
EXTENDS Blinding, TLAPS

S == INSTANCE SchedulesProofs WITH Users <- Ids

USE BlindingAssumption

-----------------------------------------------------------------------------
(* Schedules of ids.                                                         *)

LEMMA SameTypes ==
    /\ S!ScheduleTypeOK <=> ScheduleTypeOK
    /\ S!ScheduleTypeOK' <=> ScheduleTypeOK'
  BY DEF S!ScheduleTypeOK, ScheduleTypeOK, S!Future, Future, S!Value, Value

LEMMA SetPermissionsType ==
    ASSUME ScheduleTypeOK, NEW id \in Ids, NEW P \in SUBSET Perms, NEW unschedule \in BOOLEAN,
           SetPermissions(id, P, unschedule)
    PROVE  ScheduleTypeOK'
<1>1. S!SetPermissions(id, P, unschedule)
  BY DEF S!SetPermissions, SetPermissions, S!Value, Value, S!Cleared, Cleared
<1> QED
  BY <1>1, SameTypes, S!SetPermissionsType DEF S!SchedulesAssumption

LEMMA AddFutureType ==
    ASSUME ScheduleTypeOK, NEW id \in Ids, NEW at \in 1 .. MaxTime, NEW set \in [Perms -> Value],
           AddFuture(id, at, set)
    PROVE  ScheduleTypeOK'
<1>1. S!AddFuture(id, at, set) /\ set \in [Perms -> S!Value]
  BY DEF S!AddFuture, AddFuture, S!Value, Value, S!FreeRows, FreeRows
<1>2. PICK f \in S!Future : futures' = futures \cup {f} /\ UNCHANGED <<defaults, override, now, database>>
  BY <1>1, S!AddedFuture DEF S!SchedulesAssumption
<1> QED
  BY <1>2 DEF ScheduleTypeOK, S!Future, Future, S!Value, Value

LEMMA MuleType ==
    ASSUME ScheduleTypeOK, ApplyFutures \/ TickTime
    PROVE  ScheduleTypeOK'
<1>1. CASE ApplyFutures
  <2>1. S!ApplyFutures
    BY <1>1 DEF S!ApplyFutures, ApplyFutures, S!Due, Due, S!DueOf, DueOf, S!LatestOf, LatestOf,
       S!Crowded, Crowded, S!AppliedTo, AppliedTo
  <2> QED
    BY <2>1, SameTypes, S!ApplyFuturesType DEF S!SchedulesAssumption
<1>2. CASE TickTime
  BY <1>2 DEF TickTime, ScheduleTypeOK
<1> QED
  BY <1>1, <1>2

-----------------------------------------------------------------------------
(* The inductive invariant.                                                  *)

\* Whoever is decided about has a row; whoever logs in does so by a blinded id.
Working ==
    \A w \in Workers :
        /\ work[w].kind = "decide" => work[w].id \in users
        /\ work[w].kind \in {"login", "create"} => work[w].id \in {Blinded(p) : p \in People}

IInv == BlindTypeOK /\ HoldersAreTracked /\ Working

LEMMA IdKinds ==
    /\ \A p \in People : /\ Plain(p) \in Ids /\ Plain(p)[1] = p /\ Plain(p)[2] = "05"
                         /\ Blinded(p) \in Ids /\ Blinded(p)[1] = p /\ Blinded(p)[2] = "15"
                         /\ Plain(p) # Blinded(p)
    /\ \A id \in Ids : /\ id[1] \in People
                       /\ id = Plain(id[1]) \/ id = Blinded(id[1])
                       /\ id[2] = "05" <=> id = Plain(id[1])
    /\ \A p, q \in People : /\ Plain(p) = Plain(q) => p = q
                            /\ Plain(p) # Blinded(q)
  BY DEF Ids, Plain, Blinded

LEMMA WorkTypes ==
    ASSUME NEW kind \in {"login", "create", "decide"}, NEW id \in Ids
    PROVE  [kind |-> kind, id |-> id] \in Work /\ Idle \in Work /\ Idle.kind = "idle"
  BY DEF Work, Idle

\* The steps that change only rows and what workers are about.
LEMMA WorkersGoOn ==
    ASSUME IInv, UNCHANGED <<defaults, now, database, standing, needsBlinding, started>>,
           users \subseteq users', users' \subseteq Ids, work' \in [Workers -> Work], Working'
    PROVE  IInv'
<1>1. ScheduleTypeOK'
  BY DEF IInv, BlindTypeOK, standing, ScheduleTypeOK
<1>2. \A id \in Ids : Holds(id)' <=> Holds(id)
  BY DEF Holds, standing
<1>3. BlindTypeOK'
  BY <1>1, <1>2 DEF IInv, BlindTypeOK, standing
<1>4. HoldersAreTracked'
  BY <1>2, IdKinds DEF IInv, HoldersAreTracked
<1> QED
  BY <1>3, <1>4 DEF IInv

LEMMA WorkersPreserve ==
    ASSUME IInv, NEW w \in Workers,
           CreateUser(w) \/ GiveUp(w) \/ \E p \in People : LogIn(w, p) \/ LoadTarget(w, p)
    PROVE  IInv'
<1>1. work \in [Workers -> Work] /\ Working /\ users \subseteq Ids
  BY DEF IInv, BlindTypeOK
<1>2. ASSUME NEW p \in People, LogIn(w, p) PROVE IInv'
  <2>1. UNCHANGED <<defaults, now, database, standing, needsBlinding, started, users>>
          /\ work' = [work EXCEPT ![w] = [kind |-> "login", id |-> Blinded(p)]]
    BY <1>2 DEF LogIn
  <2>2. work' \in [Workers -> Work] /\ Working'
    BY <1>1, <2>1, WorkTypes, IdKinds DEF Working
  <2> QED
    BY <1>1, <2>1, <2>2, WorkersGoOn
<1>3. CASE CreateUser(w)
  <2>1. /\ UNCHANGED <<defaults, now, database, standing, needsBlinding, started>>
        /\ work' = [work EXCEPT ![w] = Idle]
        /\ users' = users \cup {work[w].id}
        /\ work[w].kind = "create"
    BY <1>3 DEF CreateUser
  <2>2. work[w].id \in Ids
    BY <1>1, <2>1, IdKinds DEF Working
  <2>3. work' \in [Workers -> Work] /\ Working'
    BY <1>1, <2>1, WorkTypes, IdKinds DEF Working, Work, Idle
  <2> QED
    BY <1>1, <2>1, <2>2, <2>3, WorkersGoOn
<1>4. CASE GiveUp(w)
  <2>1. UNCHANGED <<defaults, now, database, standing, needsBlinding, started, users>>
          /\ work' = [work EXCEPT ![w] = Idle]
    BY <1>4 DEF GiveUp
  <2>2. work' \in [Workers -> Work] /\ Working'
    BY <1>1, <2>1 DEF Working, Work, Idle
  <2> QED
    BY <1>1, <2>1, <2>2, WorkersGoOn
<1>5. ASSUME NEW p \in People, LoadTarget(w, p) PROVE IInv'
  <2> DEFINE id == IF Blinded(p) \in users THEN Blinded(p) ELSE Plain(p)
  <2>1. /\ UNCHANGED <<defaults, now, database, standing, needsBlinding, started>>
        /\ work' = [work EXCEPT ![w] = [kind |-> "decide", id |-> id]]
        /\ users' = users \cup {id}
    BY <1>5 DEF LoadTarget
  <2>2. id \in Ids
    BY IdKinds
  <2> HIDE DEF id
  <2>3. work' \in [Workers -> Work] /\ Working'
    BY <1>1, <2>1, <2>2, WorkTypes DEF Working
  <2> QED
    BY <1>1, <2>1, <2>2, <2>3, WorkersGoOn
<1> QED
  BY <1>2, <1>3, <1>4, <1>5

LEMMA StartPreserves ==
    ASSUME IInv, Start
    PROVE  IInv'
<1>1. /\ UNCHANGED <<defaults, now, database, standing, users>>
      /\ started' = TRUE
      /\ needsBlinding' = needsBlinding \cup {p \in People : Plain(p) \in users /\ Holds(Plain(p))}
      /\ work' = [w \in Workers |-> Idle]
  BY DEF Start
<1>2. \A id \in Ids : Holds(id)' <=> Holds(id)
  BY <1>1 DEF Holds, standing
<1>3. ScheduleTypeOK'
  BY <1>1 DEF IInv, BlindTypeOK, standing, ScheduleTypeOK
<1>4. work' \in [Workers -> Work] /\ Working'
  BY <1>1 DEF Work, Idle, Working
<1>5. BlindTypeOK'
  BY <1>1, <1>2, <1>3, <1>4 DEF IInv, BlindTypeOK, standing
<1>6. HoldersAreTracked'
  BY <1>1, <1>2, IdKinds DEF IInv, BlindTypeOK, HoldersAreTracked
<1> QED
  BY <1>4, <1>5, <1>6 DEF IInv

-----------------------------------------------------------------------------
(* Decisions.                                                                *)

LEMMA DecidedOne ==
    ASSUME IInv, NEW w \in Workers, CheckBlinding(w), ScheduleTypeOK',
           server' \in [Ids -> Role], room' \in [Ids -> Role],
           \A other \in Ids : other # work[w].id /\ Holds(other)' => Holds(other)
    PROVE  IInv'
<1> DEFINE id == work[w].id
<1>1. /\ id \in users /\ id \in Ids
      /\ work' = [work EXCEPT ![w] = Idle]
      /\ needsBlinding' = IF id[2] = "05" THEN needsBlinding \cup {id[1]} ELSE needsBlinding
      /\ UNCHANGED <<defaults, now, database, users, started>>
  BY DEF CheckBlinding, IInv, BlindTypeOK, Working
<1> HIDE DEF id
<1>2. work' \in [Workers -> Work] /\ Working'
  BY <1>1 DEF IInv, BlindTypeOK, Working, Work, Idle
<1>3. \A other \in Ids : other # id /\ Holds(other)' => Holds(other)
  BY DEF id
<1>4. needsBlinding' \subseteq People /\ \A p \in needsBlinding' : Plain(p) \in users'
  BY <1>1, IdKinds DEF IInv, BlindTypeOK
<1>5. BlindTypeOK'
  BY <1>1, <1>2, <1>3, <1>4 DEF IInv, BlindTypeOK
<1>6. HoldersAreTracked'
  <2> SUFFICES ASSUME started', NEW p \in People, Holds(Plain(p))' PROVE p \in needsBlinding'
    BY DEF HoldersAreTracked
  <2>1. CASE Plain(p) = id
    BY <1>1, <2>1, IdKinds
  <2>2. CASE Plain(p) # id
    BY <1>1, <1>3, <2>2, IdKinds DEF IInv, HoldersAreTracked
  <2> QED
    BY <2>1, <2>2
<1> QED
  BY <1>2, <1>5, <1>6 DEF IInv

LEMMA RoomRolePreserves ==
    ASSUME IInv, NEW w \in Workers, NEW role \in Role, DecideRoomRole(w, role)
    PROVE  IInv'
<1>1. /\ CheckBlinding(w)
      /\ room' = [room EXCEPT ![work[w].id] = role]
      /\ UNCHANGED <<override, futures, server, defaults, now, database>>
  BY DEF DecideRoomRole, CheckBlinding
<1>2. room' \in [Ids -> Role] /\ server' \in [Ids -> Role] /\ ScheduleTypeOK'
  BY <1>1 DEF IInv, BlindTypeOK, ScheduleTypeOK
<1>3. \A other \in Ids : other # work[w].id /\ Holds(other)' => Holds(other)
  BY <1>1 DEF Holds, IInv, BlindTypeOK
<1> QED
  BY <1>1, <1>2, <1>3, DecidedOne

LEMMA ServerRolePreserves ==
    ASSUME IInv, NEW w \in Workers, NEW role \in Role, DecideServerRole(w, role)
    PROVE  IInv'
<1>1. /\ CheckBlinding(w)
      /\ server' = [server EXCEPT ![work[w].id] = role]
      /\ UNCHANGED <<override, futures, room, defaults, now, database>>
  BY DEF DecideServerRole, CheckBlinding
<1>2. room' \in [Ids -> Role] /\ server' \in [Ids -> Role] /\ ScheduleTypeOK'
  BY <1>1 DEF IInv, BlindTypeOK, ScheduleTypeOK
<1>3. \A other \in Ids : other # work[w].id /\ Holds(other)' => Holds(other)
  BY <1>1 DEF Holds, IInv, BlindTypeOK
<1> QED
  BY <1>1, <1>2, <1>3, DecidedOne

LEMMA PermissionsPreserve ==
    ASSUME IInv, NEW w \in Workers, DecidePermissions(w)
    PROVE  IInv'
<1> DEFINE id == work[w].id
<1>1. CheckBlinding(w) /\ UNCHANGED <<server, room>> /\ id \in Ids
  BY DEF DecidePermissions, CheckBlinding, IInv, BlindTypeOK, Working
<1>2. room' \in [Ids -> Role] /\ server' \in [Ids -> Role] /\ ScheduleTypeOK
  BY <1>1 DEF IInv, BlindTypeOK
<1> HIDE DEF id
<1>3. CASE \E P \in SUBSET Perms \ {{}}, unschedule \in BOOLEAN : SetPermissions(id, P, unschedule)
  <2>1. PICK P \in SUBSET Perms, unschedule \in BOOLEAN : SetPermissions(id, P, unschedule)
    BY <1>3
  <2>2. ScheduleTypeOK'
    BY <1>1, <1>2, <2>1, SetPermissionsType
  <2>3. \A other \in Ids : other # id => override'[other] = override[other]
    BY <1>1, <1>2, <2>1 DEF SetPermissions, ScheduleTypeOK
  <2>4. \A f \in futures' : \E g \in futures : g.user = f.user
    <3>1. \A g \in futures : g \in Future
      BY <1>2 DEF ScheduleTypeOK
    <3>2. Cleared(id, P) = {S!Rest(f, id, P) : f \in futures}
      BY DEF Cleared, S!Rest
    <3>3. \A f \in Cleared(id, P) : \E g \in futures : g.user = f.user
      <4>1. \A g \in futures : g \in S!Future
        BY <3>1 DEF Future, S!Future, Value, S!Value
      <4>2. \A g \in futures : S!Rest(g, id, P).user = g.user
        BY <1>1, <4>1, S!RestType DEF S!SchedulesAssumption
      <4> QED
        BY <3>2, <4>2
    <3>4. futures' = futures \/ futures' = Cleared(id, P)
      BY <2>1 DEF SetPermissions
    <3> QED
      BY <3>3, <3>4
  <2>5. \A other \in Ids : other # id /\ Holds(other)' => Holds(other)
    BY <1>1, <2>3, <2>4 DEF Holds
  <2> QED
    BY <1>1, <1>2, <2>2, <2>5, DecidedOne DEF id
<1>4. CASE \E at \in 1 .. MaxTime, set \in [Perms -> Value] : AddFuture(id, at, set)
  <2>1. PICK at \in 1 .. MaxTime, set \in [Perms -> Value] : AddFuture(id, at, set)
    BY <1>4
  <2>2. ScheduleTypeOK'
    BY <1>1, <1>2, <2>1, AddFutureType
  <2>3. \A f \in futures' : f.user # id => f \in futures
    BY <2>1 DEF AddFuture
  <2>4. override' = override
    BY <2>1 DEF AddFuture
  <2>5. \A other \in Ids : other # id /\ Holds(other)' => Holds(other)
    BY <1>1, <2>3, <2>4 DEF Holds
  <2> QED
    BY <1>1, <1>2, <2>2, <2>5, DecidedOne DEF id
<1> QED
  BY <1>3, <1>4 DEF DecidePermissions, id

LEMMA DropServerRolePreserves ==
    ASSUME IInv, NEW w \in Workers, DropServerRole(w)
    PROVE  IInv'
<1>1. /\ server' = [server EXCEPT ![work[w].id] = "none"]
      /\ work' = [work EXCEPT ![w] = Idle]
      /\ UNCHANGED <<override, futures, room, needsBlinding, defaults, now, database, users, started>>
  BY DEF DropServerRole
<1>2. work' \in [Workers -> Work] /\ Working'
  BY <1>1 DEF IInv, BlindTypeOK, Working, Work, Idle
<1>3. server' \in [Ids -> Role] /\ ScheduleTypeOK'
  BY <1>1 DEF IInv, BlindTypeOK, ScheduleTypeOK, Role
<1>4. \A id \in Ids : Holds(id)' => Holds(id)
  BY <1>1 DEF Holds, IInv, BlindTypeOK
<1>5. BlindTypeOK'
  BY <1>1, <1>2, <1>3, <1>4 DEF IInv, BlindTypeOK
<1>6. HoldersAreTracked'
  BY <1>1, <1>4, IdKinds DEF IInv, HoldersAreTracked
<1> QED
  BY <1>2, <1>5, <1>6 DEF IInv

LEMMA MulePreserves ==
    ASSUME IInv, Mule
    PROVE  IInv'
<1>1. (ApplyFutures \/ TickTime) /\ UNCHANGED <<server, room, users, needsBlinding, started, work>>
  BY DEF Mule
<1>2. ScheduleTypeOK'
  BY <1>1, MuleType DEF IInv, BlindTypeOK
<1>3. \A id \in Ids : Holds(id)' => Holds(id)
  <2>1. futures' \subseteq futures
    BY <1>1 DEF ApplyFutures, TickTime
  <2>2. \A id \in Ids : override'[id] = override[id] \/ \E f \in futures : f.user = id
    <3>1. CASE ApplyFutures
      BY <3>1 DEF ApplyFutures, DueOf, Due
    <3>2. CASE TickTime
      BY <3>2 DEF TickTime
    <3> QED
      BY <1>1, <3>1, <3>2
  <2> QED
    BY <1>1, <2>1, <2>2 DEF Holds
<1>4. BlindTypeOK'
  BY <1>1, <1>2, <1>3 DEF IInv, BlindTypeOK
<1>5. HoldersAreTracked' /\ Working'
  BY <1>1, <1>3, IdKinds DEF IInv, HoldersAreTracked, Working
<1> QED
  BY <1>4, <1>5 DEF IInv

-----------------------------------------------------------------------------
(* The import of a person's rows.                                            *)

\* What a scheduled change is after the import.
Renamed(f, old, new) == IF f.user = old THEN [f EXCEPT !.user = new] ELSE f

LEMMA RenamedType ==
    ASSUME NEW f \in Future, NEW old \in Ids, NEW new \in Ids
    PROVE  /\ Renamed(f, old, new) \in Future
           /\ Renamed(f, old, new).user = IF f.user = old THEN new ELSE f.user
           /\ Renamed(f, old, new).at = f.at
           /\ Renamed(f, old, new).set = f.set
<1>1. CASE f.user = old
  <2>1. Renamed(f, old, new) = [row |-> f.row, user |-> new, at |-> f.at, set |-> f.set]
    BY <1>1 DEF Renamed, Future
  <2> QED
    BY <1>1, <2>1 DEF Future
<1>2. CASE f.user # old
  BY <1>2 DEF Renamed
<1> QED
  BY <1>1, <1>2

\* An import, and what becomes of the rows.
LEMMA ImportParts ==
    ASSUME IInv, NEW w \in Workers, ImportBlinded(w), NEW p \in needsBlinding, p = work[w].id[1]
    PROVE  /\ Blinded(p) \notin users /\ Plain(p) \in users
           /\ users' = users \cup {Blinded(p)}
           /\ needsBlinding' = needsBlinding \ {p}
           /\ work' = [work EXCEPT ![w] = Idle]
           /\ server' = Moved(server, Plain(p), Blinded(p))
           /\ room' = Moved(room, Plain(p), Blinded(p))
           /\ override' = Moved(override, Plain(p), Blinded(p))
           /\ futures' = {Renamed(f, Plain(p), Blinded(p)) : f \in futures}
           /\ UNCHANGED <<defaults, now, database, started>>
  BY DEF ImportBlinded, MoveStanding, Renamed, IInv, BlindTypeOK

LEMMA MovedType ==
    ASSUME NEW T, NEW f \in [Ids -> T], NEW old \in Ids, NEW new \in Ids, old # new
    PROVE  /\ Moved(f, old, new) \in [Ids -> T]
           /\ Moved(f, old, new)[new] = f[old]
           /\ Moved(f, old, new)[old] = f[new]
           /\ \A id \in Ids \ {old, new} : Moved(f, old, new)[id] = f[id]
  BY DEF Moved

\* After the import the blinded id holds what the unblinded one did, which holds nothing.
LEMMA ImportMoves ==
    ASSUME IInv, NEW p \in People, Blinded(p) \notin users,
           server' = Moved(server, Plain(p), Blinded(p)),
           room' = Moved(room, Plain(p), Blinded(p)),
           override' = Moved(override, Plain(p), Blinded(p)),
           futures' = {Renamed(f, Plain(p), Blinded(p)) : f \in futures}
    PROVE  /\ ~Holds(Plain(p))'
           /\ \A id \in Ids : id # Blinded(p) /\ Holds(id)' => Holds(id)
           /\ \A f \in futures : f \in Future /\ f.user # Blinded(p)
<1> DEFINE old == Plain(p)
           new == Blinded(p)
<1>1. old \in Ids /\ new \in Ids /\ old # new
  BY IdKinds
<1>2. ~Holds(new)
  BY <1>1 DEF IInv, BlindTypeOK
<1>3. /\ server \in [Ids -> Role] /\ room \in [Ids -> Role]
      /\ override \in [Ids -> [Perms -> Value]]
      /\ futures \subseteq Future
  BY DEF IInv, BlindTypeOK, ScheduleTypeOK
<1>4. \A f \in futures : f \in Future /\ f.user # new
  BY <1>2, <1>3 DEF Holds
<1>5. \A f \in futures' : f.user # old /\ (f.user # new => f \in futures)
  <2>1. \A f \in futures : Renamed(f, old, new).user = IF f.user = old THEN new ELSE f.user
    BY <1>1, <1>4, RenamedType
  <2>2. \A f \in futures : f.user # old => Renamed(f, old, new) = f
    BY DEF Renamed
  <2> QED
    BY <1>1, <2>1, <2>2
<1>6. server'[old] = server[new] /\ room'[old] = room[new] /\ override'[old] = override[new]
  BY <1>1, <1>3 DEF Moved
<1>7. \A id \in Ids \ {old, new} :
        server'[id] = server[id] /\ room'[id] = room[id] /\ override'[id] = override[id]
  BY <1>1, <1>3 DEF Moved
<1> HIDE DEF old, new
<1>8. ~Holds(old)'
  BY <1>1, <1>2, <1>5, <1>6 DEF Holds
<1>9. \A id \in Ids : id # new /\ Holds(id)' => Holds(id)
  <2> SUFFICES ASSUME NEW id \in Ids, id # new, id # old, Holds(id)' PROVE Holds(id)
    BY <1>8
  <2> QED
    BY <1>5, <1>7 DEF Holds
<1> QED
  BY <1>4, <1>8, <1>9 DEF old, new

LEMMA ImportBlindedPreserves ==
    ASSUME IInv, NEW w \in Workers, ImportBlinded(w)
    PROVE  IInv'
<1>1. CASE work[w].id[1] \notin needsBlinding
  <2>1. /\ work[w].kind = "login"
        /\ work' = [work EXCEPT ![w].kind = "create"]
        /\ UNCHANGED <<defaults, now, database, standing, users, needsBlinding, started>>
    BY <1>1 DEF ImportBlinded
  <2>2. work \in [Workers -> Work] /\ Working /\ users \subseteq Ids
    BY DEF IInv, BlindTypeOK
  <2>3. [work[w] EXCEPT !.kind = "create"] \in Work
          /\ [work[w] EXCEPT !.kind = "create"].id = work[w].id
          /\ [work[w] EXCEPT !.kind = "create"].kind = "create"
    BY <2>2 DEF Work
  <2>4. work' \in [Workers -> Work] /\ Working'
    BY <2>1, <2>2, <2>3 DEF Working
  <2> QED
    BY <2>1, <2>2, <2>4, WorkersGoOn
<1>2. CASE work[w].id[1] \in needsBlinding
  <2> PICK p \in needsBlinding : p = work[w].id[1]
    BY <1>2
  <2> DEFINE old == Plain(p)
             new == Blinded(p)
  <2>1. /\ p \in People
        /\ new \notin users /\ old \in users
        /\ users' = users \cup {new}
        /\ needsBlinding' = needsBlinding \ {p}
        /\ work' = [work EXCEPT ![w] = Idle]
        /\ server' = Moved(server, old, new)
        /\ room' = Moved(room, old, new)
        /\ override' = Moved(override, old, new)
        /\ futures' = {Renamed(f, old, new) : f \in futures}
        /\ UNCHANGED <<defaults, now, database, started>>
    BY ImportParts DEF IInv, BlindTypeOK
  <2>2. old \in Ids /\ new \in Ids /\ old # new
    BY <2>1, IdKinds
  <2>3. /\ ~Holds(old)'
        /\ \A id \in Ids : id # new /\ Holds(id)' => Holds(id)
        /\ \A f \in futures : f \in Future /\ f.user # new
    BY <2>1, ImportMoves
  <2>4. /\ server' \in [Ids -> Role] /\ room' \in [Ids -> Role]
        /\ override' \in [Ids -> [Perms -> Value]]
    BY <2>1, <2>2, MovedType DEF IInv, BlindTypeOK, ScheduleTypeOK
  <2>5. ScheduleTypeOK'
    <3>1. \A f \in futures : /\ Renamed(f, old, new) \in Future
                             /\ Renamed(f, old, new).user = IF f.user = old THEN new ELSE f.user
                             /\ Renamed(f, old, new).at = f.at
                             /\ Renamed(f, old, new).set = f.set
      BY <2>2, <2>3, RenamedType
    <3>2. futures' \subseteq Future
      BY <2>1, <3>1
    <3> QED
      BY <2>1, <2>4, <3>2 DEF IInv, BlindTypeOK, ScheduleTypeOK
  <2>6. work' \in [Workers -> Work] /\ Working'
    BY <2>1 DEF IInv, BlindTypeOK, Working, Work, Idle
  <2>7. \A id \in Ids : Holds(id)' => id \in users'
    BY <2>1, <2>3 DEF IInv, BlindTypeOK
  <2>8. BlindTypeOK'
    BY <2>1, <2>2, <2>4, <2>5, <2>6, <2>7 DEF IInv, BlindTypeOK
  <2>9. HoldersAreTracked'
    <3> SUFFICES ASSUME started', NEW q \in People, Holds(Plain(q))' PROVE q \in needsBlinding'
      BY DEF HoldersAreTracked
    <3>1. q # p
      BY <2>3
    <3>2. Holds(Plain(q))
      BY <2>1, <2>3, IdKinds
    <3> QED
      BY <2>1, <3>1, <3>2 DEF IInv, HoldersAreTracked
  <2> QED
    BY <2>6, <2>8, <2>9 DEF IInv
<1> QED
  BY <1>1, <1>2

-----------------------------------------------------------------------------
(* The theorems.                                                             *)

LEMMA IInvInit == BlindInit => IInv
<1> SUFFICES ASSUME BlindInit PROVE IInv
  OBVIOUS
<1>1. users \subseteq Ids
  BY DEF BlindInit, Ids
<1>2. \A id \in Ids : Holds(id) => id \in users
  BY DEF BlindInit, Holds
<1>3. ScheduleTypeOK
  BY DEF BlindInit, ScheduleTypeOK
<1>4. work \in [Workers -> Work] /\ Working
  BY DEF BlindInit, Work, Idle, Working
<1>5. BlindTypeOK
  BY <1>1, <1>2, <1>3, <1>4 DEF BlindInit, BlindTypeOK
<1> QED
  BY <1>4, <1>5 DEF BlindInit, IInv, HoldersAreTracked

LEMMA IInvNext == ASSUME IInv, [BlindNext]_blindVars PROVE IInv'
<1>1. CASE Start
  BY <1>1, StartPreserves
<1>2. CASE \E w \in Workers, p \in People : LogIn(w, p) \/ LoadTarget(w, p)
  BY <1>2, WorkersPreserve
<1>3. CASE \E w \in Workers : CreateUser(w) \/ GiveUp(w)
  BY <1>3, WorkersPreserve
<1>4. CASE \E w \in Workers : ImportBlinded(w)
  BY <1>4, ImportBlindedPreserves
<1>5. CASE \E w \in Workers, role \in Role : DecideRoomRole(w, role)
  BY <1>5, RoomRolePreserves
<1>6. CASE \E w \in Workers, role \in Role \ {"none"} : DecideServerRole(w, role)
  BY <1>6, ServerRolePreserves
<1>7. CASE \E w \in Workers : DropServerRole(w)
  BY <1>7, DropServerRolePreserves
<1>8. CASE \E w \in Workers : DecidePermissions(w)
  BY <1>8, PermissionsPreserve
<1>9. CASE Mule
  BY <1>9, MulePreserves
<1>10. CASE UNCHANGED blindVars
  <2>1. users' = users /\ work' = work
          /\ UNCHANGED <<defaults, now, database, standing, needsBlinding, started>>
    BY <1>10 DEF blindVars
  <2> QED
    BY <2>1, WorkersGoOn DEF IInv, BlindTypeOK, Working
<1> QED
  BY <1>1, <1>2, <1>3, <1>4, <1>5, <1>6, <1>7, <1>8, <1>9, <1>10 DEF BlindNext

\* The inductive invariant.
THEOREM IInvHolds == BlindSpec => []IInv
<1>1. IInv /\ [BlindNext]_blindVars => IInv'
  BY IInvNext
<1> QED
  BY <1>1, IInvInit, PTL DEF BlindSpec

\* Whoever is decided about by an unblinded id is remembered as to be blinded, however
\* many workers log people in and decide at once (User.check_blinding,
\* db.check_needs_blinding).
THEOREM NobodyIsForgotten == BlindSpec => []HoldersAreTracked
<1>1. IInv => HoldersAreTracked
  BY DEF IInv
<1> QED
  BY <1>1, IInvHolds, PTL

\* The import moves all that a person has, and only that (User._import_blinded).
THEOREM ImportMovesAll == BlindSpec => MovingLosesNothing
<1>1. ASSUME IInv, [BlindNext]_blindVars, NEW p \in People, p \in needsBlinding, p \notin needsBlinding'
      PROVE  Standing(p)' = Standing(p) /\ ~Holds(Plain(p))'
  <2>1. PICK w \in Workers : ImportBlinded(w) /\ work[w].id[1] = p
    BY <1>1 DEF BlindNext, Start, LogIn, ImportBlinded, CreateUser, GiveUp, LoadTarget, DecideRoomRole,
       DecideServerRole, DropServerRole, DecidePermissions, CheckBlinding, Mule, blindVars
  <2> DEFINE old == Plain(p)
             new == Blinded(p)
  <2>2. /\ new \notin users /\ old \in users
        /\ server' = Moved(server, old, new)
        /\ room' = Moved(room, old, new)
        /\ override' = Moved(override, old, new)
        /\ futures' = {Renamed(f, old, new) : f \in futures}
    BY <1>1, <2>1, ImportParts
  <2>3. old \in Ids /\ new \in Ids /\ old # new /\ old[1] = p /\ new[1] = p
    BY IdKinds
  <2>4. ~Holds(old)' /\ \A f \in futures : f \in Future
    BY <1>1, <2>2, ImportMoves
  <2>5. /\ server'[old] = server[new] /\ server'[new] = server[old]
        /\ room'[old] = room[new] /\ room'[new] = room[old]
        /\ override'[old] = override[new] /\ override'[new] = override[old]
    <3>1. /\ server \in [Ids -> Role] /\ room \in [Ids -> Role]
          /\ override \in [Ids -> [Perms -> Value]]
      BY <1>1 DEF IInv, BlindTypeOK, ScheduleTypeOK
    <3> QED
      BY <2>2, <2>3, <3>1 DEF Moved
  <2>6. {[at |-> f.at, set |-> f.set] : f \in {g \in futures' : g.user[1] = p}}
          = {[at |-> f.at, set |-> f.set] : f \in {g \in futures : g.user[1] = p}}
    <3>1. \A f \in futures :
            /\ Renamed(f, old, new).user[1] = f.user[1]
            /\ Renamed(f, old, new).at = f.at
            /\ Renamed(f, old, new).set = f.set
      BY <2>3, <2>4, RenamedType
    <3> HIDE DEF old, new
    <3> QED
      BY <2>2, <3>1
  <2>7. /\ {server'[old], server'[new]} = {server[old], server[new]}
        /\ {room'[old], room'[new]} = {room[old], room[new]}
        /\ {override'[old], override'[new]} = {override[old], override[new]}
    BY <2>5
  <2> QED
    BY <2>4, <2>6, <2>7 DEF Standing
<1>2. IInv /\ [BlindNext]_blindVars =>
        [\A p \in People : p \in needsBlinding /\ p \notin needsBlinding' =>
          /\ Standing(p)' = Standing(p)
          /\ ~Holds(Plain(p))' ]_blindVars
  BY <1>1
<1> QED
  BY <1>2, IInvHolds, PTL DEF BlindSpec, MovingLosesNothing

===============================================================================
