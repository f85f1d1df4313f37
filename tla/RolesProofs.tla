------------------------------ MODULE RolesProofs ------------------------------
(* Theorems about Roles, for any users, workers, timeouts and clock.        *)
EXTENDS Roles, TLAPS

USE RolesAssumption

\* The rows of both tables have the columns they should and obey the constraints.
RowsOK ==
    /\ room \in [Users -> Row]
    /\ server \in [Users -> Row]
    /\ \A u \in Users : WellFormed(room[u]) /\ WellFormed(server[u])

FuturesOK ==
    /\ roomUnban \in [Users -> Int \cup {Never}]
    /\ serverUnban \in [Users -> Int \cup {Never}]
    /\ roomSentence \in [Users -> Int \cup {Never, Zero}]
    /\ serverSentence \in [Users -> Int \cup {Never, Zero}]
    /\ now \in Nat

SessionsOK == session \in [Workers -> Session]

HistoryOK == wasAdmin \in [Workers -> BOOLEAN] /\ lookups \in Nat

\* All of the type invariant that the actions of requests and of the mule write.
TablesOK == RowsOK /\ FuturesOK /\ SessionsOK

\* RolesTypeOK is its parts, which different actions disturb.
LEMMA TypeParts == RolesTypeOK <=> TablesOK /\ HistoryOK
<1>1. RolesTypeOK => RowsOK /\ FuturesOK /\ SessionsOK /\ HistoryOK
  BY DEF RolesTypeOK, RowsOK, FuturesOK, SessionsOK, HistoryOK
<1>2. RowsOK /\ FuturesOK /\ SessionsOK /\ HistoryOK => RolesTypeOK
  BY DEF RolesTypeOK, RowsOK, FuturesOK, SessionsOK, HistoryOK
<1> QED
  BY <1>1, <1>2 DEF TablesOK

\* Who acts is a user, and so is who is acted upon.
LEMMA ActingUsers ==
    ASSUME SessionsOK, NEW w \in Workers, Acting(w)
    PROVE  session[w].target \in Users
  BY DEF SessionsOK, Acting, Session

\* Setting a row of a table to one that is well formed but for the CHECK leaves the
\* table well formed.
LEMMA SetRow ==
    ASSUME NEW rows \in [Users -> Row], NEW u \in Users, NEW row \in Row,
           \A v \in Users : WellFormed(rows[v]),
           Admissible(row), row.admin => row.mod
    PROVE  /\ [rows EXCEPT ![u] = row] \in [Users -> Row]
           /\ \A v \in Users : WellFormed([rows EXCEPT ![u] = row][v])
  BY DEF WellFormed

\* The end of a ban is a time or never.
LEMMA UnbanType ==
    ASSUME NEW timeout \in Timeouts \cup {Never}, now \in Nat
    PROVE  /\ Unban(timeout) \in Int \cup {Never}
           /\ Sentence(timeout) \in Int \cup {Never, Zero}
           /\ Unban(timeout) = IF Sentence(timeout) = Zero THEN Never ELSE Sentence(timeout)
<1>1. timeout # Never => timeout \in Int /\ now + timeout \in Int
  OBVIOUS
<1> QED
  BY <1>1 DEF Unban, Sentence

\* Lifting the bans that are due keeps the rows well formed, and who was not lifted
\* is as it was.
LEMMA LiftedRows ==
    ASSUME NEW rows \in [Users -> Row], NEW unban \in [Users -> Int \cup {Never}],
           \A v \in Users : WellFormed(rows[v])
    PROVE  /\ Lifted(rows, unban) \in [Users -> Row]
           /\ \A v \in Users : WellFormed(Lifted(rows, unban)[v])
           /\ Remaining(unban) \in [Users -> Int \cup {Never}]
<1>1. \A v \in Users : [rows[v] EXCEPT !.banned = FALSE] \in Row
                       /\ WellFormed([rows[v] EXCEPT !.banned = FALSE])
  BY DEF Row, WellFormed, Admissible
<1>2. /\ Lifted(rows, unban) \in [Users -> Row]
      /\ \A v \in Users : WellFormed(Lifted(rows, unban)[v])
  BY <1>1 DEF Lifted
<1>3. Remaining(unban) \in [Users -> Int \cup {Never}]
  BY DEF Remaining
<1> QED
  BY <1>2, <1>3

\* A request is done and its user still known.
LEMMA ServedSession ==
    ASSUME SessionsOK, NEW w \in Workers, Served(w)
    PROVE  SessionsOK'
<1>1. Idle \in Session /\ [session[w] EXCEPT !.target = NoUser, !.unbanning = FALSE] \in Session
  BY DEF SessionsOK, Session, Idle
<1>2. (IF session[w].legacy THEN Idle
       ELSE [session[w] EXCEPT !.target = NoUser, !.unbanning = FALSE]) \in Session
  BY <1>1
<1> QED
  BY <1>2 DEF SessionsOK, Served

-----------------------------------------------------------------------------

\* Every step of a request keeps the types and the constraints.
LEMMA RequestType ==
    ASSUME TablesOK, NEW w \in Workers, Request(w)
    PROVE  TablesOK'
<1> DEFINE u == session[w].target
<1>t. RowsOK /\ FuturesOK /\ SessionsOK
  BY DEF TablesOK
<1>1. ASSUME NEW v \in Users, Authenticate(w, v) \/ LegacyAuthenticate(w, v) \/ LoadTarget(w, v)
      PROVE  TablesOK'
  <2>1. server[v].mod \in BOOLEAN /\ server[v].admin \in BOOLEAN
    BY <1>t DEF RowsOK, Row
  <2>2. ASSUME Authenticate(w, v)
        PROVE  SessionsOK'
    <3>1. PICK mod \in BOOLEAN, admin \in BOOLEAN :
            session' = [session EXCEPT ![w] = [Idle EXCEPT !.actor = v, !.mod = mod, !.admin = admin]]
      BY <2>1, <2>2 DEF Authenticate
    <3>2. [Idle EXCEPT !.actor = v, !.mod = mod, !.admin = admin] \in Session
      BY DEF Session, Idle
    <3> QED
      BY <1>t, <3>1, <3>2 DEF SessionsOK
  <2>5. ASSUME LegacyAuthenticate(w, v)
        PROVE  SessionsOK'
    <3>1. RoomAdmin(v) \in BOOLEAN
      BY <2>1 DEF RoomAdmin
    <3>2. PICK admin \in BOOLEAN :
            session' = [session EXCEPT ![w] = [Idle EXCEPT !.actor = v, !.mod = TRUE,
                                                           !.admin = admin, !.legacy = TRUE]]
      BY <2>5, <3>1 DEF LegacyAuthenticate
    <3>3. [Idle EXCEPT !.actor = v, !.mod = TRUE, !.admin = admin, !.legacy = TRUE] \in Session
      BY DEF Session, Idle
    <3> QED
      BY <1>t, <3>2, <3>3 DEF SessionsOK
  <2>3. ASSUME LoadTarget(w, v)
        PROVE  SessionsOK'
    <3>1. PICK known \in BOOLEAN :
            session' = [session EXCEPT ![w].target = v, ![w].targetMod = known]
      BY <2>1, <2>3 DEF LoadTarget
    <3> QED
      BY <1>t, <3>1 DEF SessionsOK, Session
  <2>4. RowsOK' /\ FuturesOK'
    BY <1>t, <1>1 DEF RowsOK, FuturesOK, Authenticate, LegacyAuthenticate, LoadTarget, roleVars, futureVars, sentences
  <2> QED
    BY <1>1, <2>2, <2>3, <2>4, <2>5 DEF TablesOK
<1>2. CASE End(w)
  <2>1. SessionsOK'
    BY <1>t, <1>2 DEF SessionsOK, Session, End, Idle
  <2>2. RowsOK' /\ FuturesOK'
    BY <1>t, <1>2 DEF RowsOK, FuturesOK, End, roleVars, futureVars, sentences
  <2> QED
    BY <2>1, <2>2 DEF TablesOK
<1>3. ASSUME Acting(w)
      PROVE  u \in Users /\ room[u] \in Row /\ server[u] \in Row
             /\ WellFormed(room[u]) /\ WellFormed(server[u])
  BY <1>t, <1>3, ActingUsers DEF RowsOK
<1>4. ASSUME NEW row \in Row, u \in Users, row.admin => row.mod, SetRoom(u, row), server' = server
      PROVE  RowsOK'
  <2>1. Admissible(row) /\ room' = [room EXCEPT ![u] = row]
    BY <1>4 DEF SetRoom
  <2>2. /\ room' \in [Users -> Row]
        /\ \A v \in Users : WellFormed(room'[v])
    BY <1>t, <1>4, <2>1, SetRow DEF RowsOK
  <2> QED
    BY <1>t, <1>4, <2>2 DEF RowsOK
<1>5. ASSUME NEW row \in Row, u \in Users, row.admin => row.mod, SetServer(u, row), room' = room
      PROVE  RowsOK'
  <2>1. Admissible(row) /\ server' = [server EXCEPT ![u] = row]
    BY <1>5 DEF SetServer
  <2>2. /\ server' \in [Users -> Row]
        /\ \A v \in Users : WellFormed(server'[v])
    BY <1>t, <1>5, <2>1, SetRow DEF RowsOK
  <2> QED
    BY <1>t, <1>5, <2>2 DEF RowsOK
<1>6. ASSUME RowsOK', FuturesOK', Served(w)
      PROVE  TablesOK'
  BY <1>t, <1>6, ServedSession DEF TablesOK
<1>7. ASSUME UNCHANGED <<futureVars, now, sentences>>
      PROVE  FuturesOK'
  BY <1>t, <1>7 DEF FuturesOK, futureVars, sentences
<1>8. ASSUME NEW admin \in {"yes", "keep"}, RoomSetModerator(w, admin)
      PROVE  TablesOK'
  <2> DEFINE row == [room[u] EXCEPT !.mod = TRUE,
                                    !.admin = IF admin = "keep" THEN @ ELSE admin = "yes"]
  <2>1. Acting(w) /\ SetRoom(u, row) /\ Served(w) /\ server' = server
        /\ UNCHANGED <<futureVars, now, sentences>>
    BY <1>8 DEF RoomSetModerator
  <2>2. row \in Row /\ (row.admin => row.mod)
    BY <1>3, <2>1 DEF Row
  <2> QED
    BY <1>3, <1>4, <1>6, <1>7, <2>1, <2>2
<1>9. ASSUME NEW adminOnly \in BOOLEAN, RoomRemoveModerator(w, adminOnly)
      PROVE  TablesOK'
  <2> DEFINE row == [room[u] EXCEPT !.mod = adminOnly /\ @, !.admin = FALSE]
  <2>1. Acting(w) /\ SetRoom(u, row) /\ Served(w) /\ server' = server
        /\ UNCHANGED <<futureVars, now, sentences>>
    BY <1>9 DEF RoomRemoveModerator
  <2>2. row \in Row /\ (row.admin => row.mod)
    BY <1>3, <2>1 DEF Row
  <2> QED
    BY <1>3, <1>4, <1>6, <1>7, <2>1, <2>2
<1>10. CASE RoomDemote(w)
  <2> DEFINE row == [room[u] EXCEPT !.mod = TRUE, !.admin = FALSE]
  <2>1. Acting(w) /\ SetRoom(u, row) /\ Served(w) /\ server' = server
        /\ UNCHANGED <<futureVars, now, sentences>>
    BY <1>10 DEF RoomDemote
  <2>2. row \in Row /\ (row.admin => row.mod)
    BY <1>3, <2>1 DEF Row
  <2> QED
    BY <1>3, <1>4, <1>6, <1>7, <2>1, <2>2
<1>11. ASSUME NEW timeout \in Timeouts \cup {Never}, RoomBan(w, timeout)
       PROVE  TablesOK'
  <2> DEFINE row == [Plain EXCEPT !.banned = TRUE]
  <2>1. Acting(w) /\ PutRoomBan(w, timeout)
    BY <1>11 DEF RoomBan
  <2>2. row \in Row /\ (row.admin => row.mod)
    BY DEF Row, Plain
  <2>3. RowsOK'
    BY <1>3, <1>4, <2>1, <2>2 DEF PutRoomBan
  <2>4. Unban(timeout) \in Int \cup {Never} /\ Sentence(timeout) \in Int \cup {Never, Zero}
    BY <1>t, UnbanType DEF FuturesOK
  <2>5. FuturesOK'
    BY <1>t, <2>1, <2>4 DEF FuturesOK, PutRoomBan
  <2> QED
    BY <1>6, <2>1, <2>3, <2>5 DEF PutRoomBan
<1>12. CASE RoomUnban(w)
  <2> DEFINE row == [room[u] EXCEPT !.banned = FALSE]
  <2>1. Acting(w) /\ SetRoom(u, row) /\ Served(w) /\ server' = server
        /\ roomSentence' = [roomSentence EXCEPT ![u] = Never]
        /\ UNCHANGED <<futureVars, now, serverSentence>>
    BY <1>12 DEF RoomUnban
  <2>2. row \in Row /\ (row.admin => row.mod)
    BY <1>3, <2>1 DEF Row, WellFormed
  <2>3. FuturesOK'
    BY <1>t, <2>1 DEF FuturesOK, futureVars
  <2> QED
    BY <1>3, <1>4, <1>6, <2>1, <2>2, <2>3
<1>13. ASSUME NEW admin \in {"yes", "no", "keep"}, ServerSetModerator(w, admin)
       PROVE  TablesOK'
  <2> DEFINE row == [server[u] EXCEPT !.mod = TRUE,
                                      !.admin = IF admin = "keep" THEN @ ELSE admin = "yes"]
  <2>1. Acting(w) /\ SetServer(u, row) /\ Served(w) /\ room' = room
        /\ UNCHANGED <<futureVars, now, sentences>>
    BY <1>13 DEF ServerSetModerator
  <2>2. row \in Row /\ (row.admin => row.mod)
    BY <1>3, <2>1 DEF Row
  <2> QED
    BY <1>3, <1>5, <1>6, <1>7, <2>1, <2>2
<1>14. ASSUME NEW adminOnly \in BOOLEAN, ServerRemoveModerator(w, adminOnly)
       PROVE  TablesOK'
  <2> DEFINE row == [server[u] EXCEPT !.mod = adminOnly /\ @, !.admin = FALSE]
  <2>1. Acting(w) /\ SetServer(u, row) /\ Served(w) /\ room' = room
        /\ UNCHANGED <<futureVars, now, sentences>>
    BY <1>14 DEF ServerRemoveModerator
  <2>2. row \in Row /\ (row.admin => row.mod)
    BY <1>3, <2>1 DEF Row
  <2> QED
    BY <1>3, <1>5, <1>6, <1>7, <2>1, <2>2
<1>15. ASSUME NEW timeout \in Timeouts \cup {Never}, ServerBan(w, timeout)
       PROVE  TablesOK'
  <2> DEFINE row == [server[u] EXCEPT !.banned = TRUE]
  <2>1. Acting(w) /\ SetServer(u, row) /\ Served(w) /\ room' = room
    BY <1>15 DEF ServerBan
  <2>2. row \in Row /\ (row.admin => row.mod)
    BY <1>3, <2>1 DEF Row, WellFormed
  <2>3. RowsOK'
    BY <1>3, <1>5, <2>1, <2>2
  <2>4. Unban(timeout) \in Int \cup {Never} /\ Sentence(timeout) \in Int \cup {Never, Zero}
    BY <1>t, UnbanType DEF FuturesOK
  <2>5. FuturesOK'
    BY <1>t, <1>15, <2>4 DEF FuturesOK, ServerBan
  <2> QED
    BY <1>6, <2>1, <2>3, <2>5
<1>16. CASE ServerUnban(w)
  <2> DEFINE row == [server[u] EXCEPT !.banned = FALSE]
  <2>1. Acting(w) /\ SetServer(u, row) /\ room' = room
        /\ serverSentence' = [serverSentence EXCEPT ![u] = Never]
        /\ UNCHANGED <<futureVars, now, roomSentence>>
    BY <1>16 DEF ServerUnban
  <2>2. row \in Row /\ (row.admin => row.mod)
    BY <1>3, <2>1 DEF Row, WellFormed
  <2>3. RowsOK'
    BY <1>3, <1>5, <2>1, <2>2
  <2>4. SessionsOK'
    BY <1>t, <1>16 DEF SessionsOK, Session, ServerUnban
  <2>5. FuturesOK'
    BY <1>t, <2>1 DEF FuturesOK, futureVars
  <2> QED
    BY <2>3, <2>4, <2>5 DEF TablesOK
<1>17. CASE ServerUnbanForget(w)
  <2>1. RowsOK'
    BY <1>t, <1>17 DEF RowsOK, ServerUnbanForget, roleVars
  <2>2. FuturesOK'
    BY <1>t, <1>17 DEF FuturesOK, ServerUnbanForget, sentences
  <2> QED
    BY <1>6, <1>17, <2>1, <2>2 DEF ServerUnbanForget
<1> QED
  BY <1>1, <1>2, <1>8, <1>9, <1>10, <1>11, <1>12, <1>13, <1>14, <1>15, <1>16, <1>17 DEF Request

\* So do the mule and the clock.
LEMMA MuleType ==
    ASSUME TablesOK, ApplyDueUnbans \/ Tick \/ UNCHANGED vars
    PROVE  TablesOK'
<1>1. CASE ApplyDueUnbans
  <2>1. RowsOK' /\ roomUnban' \in [Users -> Int \cup {Never}] /\ serverUnban' \in [Users -> Int \cup {Never}]
    BY <1>1, LiftedRows DEF ApplyDueUnbans, RowsOK, FuturesOK, TablesOK
  <2>2. FuturesOK'
    BY <1>1, <2>1 DEF ApplyDueUnbans, LiftSentences, FuturesOK, TablesOK
  <2>3. SessionsOK'
    BY <1>1 DEF ApplyDueUnbans, SessionsOK, TablesOK
  <2> QED
    BY <2>1, <2>2, <2>3 DEF TablesOK
<1>2. CASE Tick
  BY <1>2 DEF Tick, TablesOK, RowsOK, FuturesOK, SessionsOK, roleVars, futureVars, sentences
<1>3. CASE UNCHANGED vars
  BY <1>3 DEF vars, TablesOK, RowsOK, FuturesOK, SessionsOK, roleVars, futureVars, sentences
<1> QED
  BY <1>1, <1>2, <1>3

\* The history is of the types it should be, whatever the step.
LEMMA HistoryType ==
    ASSUME HistoryOK, Remember \/ UNCHANGED vars
    PROVE  HistoryOK'
<1>1. CASE Remember
  BY <1>1 DEF Remember, HistoryOK
<1>2. CASE UNCHANGED vars
  BY <1>2 DEF vars, HistoryOK
<1> QED
  BY <1>1, <1>2

LEMMA InitType == Init => RolesTypeOK
<1> SUFFICES ASSUME Init PROVE RolesTypeOK
  OBVIOUS
<1>1. RowsOK
  BY DEF Init, RowsOK, Row, Plain, WellFormed, Admissible
<1>2. FuturesOK
  BY DEF Init, FuturesOK
<1>3. SessionsOK
  BY DEF Init, SessionsOK, Session, Idle
<1>4. HistoryOK
  BY DEF Init, HistoryOK
<1> QED
  BY <1>1, <1>2, <1>3, <1>4, TypeParts DEF TablesOK

LEMMA NextType == RolesTypeOK /\ [Next]_vars => RolesTypeOK'
<1> SUFFICES ASSUME RolesTypeOK, [Next]_vars PROVE RolesTypeOK'
  OBVIOUS
<1>1. TablesOK /\ HistoryOK
  BY TypeParts
<1>2. TablesOK'
  BY <1>1, RequestType, MuleType DEF Next
<1>3. HistoryOK'
  BY <1>1, HistoryType DEF Next
<1>4. TablesOK' /\ HistoryOK' => RolesTypeOK'
  BY TypeParts, PTL
<1> QED
  BY <1>2, <1>3, <1>4

\* The types of the tables and of the sessions, and the constraints: no order of
\* requests makes a banned user a moderator, or an admin that is no moderator.
THEOREM RolesTypeCorrect == Spec => []RolesTypeOK
<1> QED
  BY InitType, NextType, PTL DEF Spec

-----------------------------------------------------------------------------
(* Bans.                                                                   *)

\* Every step keeps what is scheduled for banned users: a new ban replaces it, and
\* what an unban leaves scheduled is of a user who is not banned.
LEMMA RequestSchedule ==
    ASSUME TablesOK, UnbansMatchSentences, NEW w \in Workers, Request(w)
    PROVE  UnbansMatchSentences'
<1> DEFINE u == session[w].target
<1>t. RowsOK /\ FuturesOK /\ SessionsOK
  BY DEF TablesOK
<1>1. ASSUME \A v \in Users : room'[v].banned => room[v].banned /\ roomSentence'[v] = roomSentence[v],
             \A v \in Users : server'[v].banned => server[v].banned /\ serverSentence'[v] = serverSentence[v],
             UNCHANGED futureVars
      PROVE  UnbansMatchSentences'
  BY <1>1 DEF UnbansMatchSentences, futureVars
<1>2. ASSUME UNCHANGED <<roleVars, futureVars, sentences>>
      PROVE  UnbansMatchSentences'
  BY <1>2 DEF UnbansMatchSentences, roleVars, futureVars, sentences
<1>3. CASE \/ \E v \in Users : Authenticate(w, v) \/ LegacyAuthenticate(w, v) \/ LoadTarget(w, v)
           \/ End(w)
  BY <1>2, <1>3 DEF Authenticate, LegacyAuthenticate, LoadTarget, End
<1>4. CASE \/ \E admin \in {"yes", "keep"} : RoomSetModerator(w, admin)
           \/ \E adminOnly \in BOOLEAN : RoomRemoveModerator(w, adminOnly)
           \/ RoomDemote(w)
           \/ RoomUnban(w)
  <2>1. Acting(w)
    BY <1>4 DEF RoomSetModerator, RoomRemoveModerator, RoomDemote, RoomUnban
  <2>2. u \in Users /\ room[u] \in Row
    BY <1>t, <2>1, ActingUsers DEF RowsOK
  <2>3. PICK row \in Row : (row.banned => room[u].banned) /\ room' = [room EXCEPT ![u] = row]
    <3>1. ASSUME NEW admin \in {"yes", "keep"}, RoomSetModerator(w, admin)
          PROVE  \E row \in Row : (row.banned => room[u].banned) /\ room' = [room EXCEPT ![u] = row]
      <4> DEFINE row == [room[u] EXCEPT !.mod = TRUE,
                                        !.admin = IF admin = "keep" THEN @ ELSE admin = "yes"]
      <4>1. row \in Row /\ (row.banned => room[u].banned)
        BY <2>2 DEF Row
      <4>2. room' = [room EXCEPT ![u] = row]
        BY <3>1 DEF RoomSetModerator, SetRoom
      <4> QED
        BY <4>1, <4>2
    <3>2. ASSUME NEW adminOnly \in BOOLEAN, RoomRemoveModerator(w, adminOnly)
          PROVE  \E row \in Row : (row.banned => room[u].banned) /\ room' = [room EXCEPT ![u] = row]
      <4> DEFINE row == [room[u] EXCEPT !.mod = adminOnly /\ @, !.admin = FALSE]
      <4>1. row \in Row /\ (row.banned => room[u].banned)
        BY <2>2 DEF Row
      <4>2. room' = [room EXCEPT ![u] = row]
        BY <3>2 DEF RoomRemoveModerator, SetRoom
      <4> QED
        BY <4>1, <4>2
    <3>3. ASSUME RoomDemote(w)
          PROVE  \E row \in Row : (row.banned => room[u].banned) /\ room' = [room EXCEPT ![u] = row]
      <4> DEFINE row == [room[u] EXCEPT !.mod = TRUE, !.admin = FALSE]
      <4>1. row \in Row /\ (row.banned => room[u].banned)
        BY <2>2 DEF Row
      <4>2. room' = [room EXCEPT ![u] = row]
        BY <3>3 DEF RoomDemote, SetRoom
      <4> QED
        BY <4>1, <4>2
    <3>4. ASSUME RoomUnban(w)
          PROVE  \E row \in Row : (row.banned => room[u].banned) /\ room' = [room EXCEPT ![u] = row]
      <4> DEFINE row == [room[u] EXCEPT !.banned = FALSE]
      <4>1. row \in Row /\ (row.banned => room[u].banned)
        BY <2>2 DEF Row
      <4>2. room' = [room EXCEPT ![u] = row]
        BY <3>4 DEF RoomUnban, SetRoom
      <4> QED
        BY <4>1, <4>2
    <3> QED
      BY <1>4, <3>1, <3>2, <3>3, <3>4
  <2>4. \A v \in Users : room'[v].banned => room[v].banned
    BY <1>t, <2>2, <2>3 DEF RowsOK
  <2>5. UNCHANGED <<server, futureVars, serverSentence>>
    BY <1>4 DEF RoomSetModerator, RoomRemoveModerator, RoomDemote, RoomUnban, sentences
  <2>6. \A v \in Users : room'[v].banned => roomSentence'[v] = roomSentence[v]
    <3>1. CASE RoomUnban(w)
      <4>1. ~room'[u].banned
        BY <1>t, <2>2, <3>1 DEF RoomUnban, SetRoom, RowsOK, Row
      <4> QED
        BY <1>t, <2>2, <3>1, <4>1 DEF RoomUnban, FuturesOK
    <3>2. CASE ~RoomUnban(w)
      BY <1>4, <3>2 DEF RoomSetModerator, RoomRemoveModerator, RoomDemote, sentences
    <3> QED
      BY <3>1, <3>2
  <2> QED
    BY <1>1, <2>4, <2>5, <2>6
<1>5. ASSUME NEW timeout \in Timeouts \cup {Never}, RoomBan(w, timeout)
      PROVE  UnbansMatchSentences'
  <2>1. u \in Users
    BY <1>t, <1>5, ActingUsers DEF RoomBan
  <2>2. room' = [room EXCEPT ![u] = [Plain EXCEPT !.banned = TRUE]]
    BY <1>5 DEF RoomBan, PutRoomBan, SetRoom
  <2>3. /\ roomUnban' = [roomUnban EXCEPT ![u] = Unban(timeout)]
        /\ roomSentence' = [roomSentence EXCEPT ![u] = Sentence(timeout)]
        /\ UNCHANGED <<server, serverUnban, serverSentence>>
    BY <1>5 DEF RoomBan, PutRoomBan
  <2>4. ASSUME NEW v \in Users, room'[v].banned
        PROVE  roomUnban'[v] = IF roomSentence'[v] = Zero THEN Never ELSE roomSentence'[v]
    <3>1. CASE v = u
      <4>1. Unban(timeout) = IF Sentence(timeout) = Zero THEN Never ELSE Sentence(timeout)
        BY <1>t, UnbanType DEF FuturesOK
      <4> QED
        BY <1>t, <2>3, <3>1, <4>1 DEF FuturesOK
    <3>2. CASE v # u
      BY <1>t, <2>1, <2>2, <2>3, <2>4, <3>2 DEF FuturesOK, RowsOK, UnbansMatchSentences
    <3> QED
      BY <3>1, <3>2
  <2> QED
    BY <2>3, <2>4 DEF UnbansMatchSentences
<1>6. CASE \/ \E admin \in {"yes", "no", "keep"} : ServerSetModerator(w, admin)
           \/ \E adminOnly \in BOOLEAN : ServerRemoveModerator(w, adminOnly)
           \/ ServerUnban(w)
  <2>1. Acting(w)
    BY <1>6 DEF ServerSetModerator, ServerRemoveModerator, ServerUnban
  <2>2. u \in Users /\ server[u] \in Row
    BY <1>t, <2>1, ActingUsers DEF RowsOK
  <2>3. PICK row \in Row : (row.banned => server[u].banned) /\ server' = [server EXCEPT ![u] = row]
    <3>1. ASSUME NEW admin \in {"yes", "no", "keep"}, ServerSetModerator(w, admin)
          PROVE  \E row \in Row : (row.banned => server[u].banned) /\ server' = [server EXCEPT ![u] = row]
      <4> DEFINE row == [server[u] EXCEPT !.mod = TRUE,
                                          !.admin = IF admin = "keep" THEN @ ELSE admin = "yes"]
      <4>1. row \in Row /\ (row.banned => server[u].banned)
        BY <2>2 DEF Row
      <4>2. server' = [server EXCEPT ![u] = row]
        BY <3>1 DEF ServerSetModerator, SetServer
      <4> QED
        BY <4>1, <4>2
    <3>2. ASSUME NEW adminOnly \in BOOLEAN, ServerRemoveModerator(w, adminOnly)
          PROVE  \E row \in Row : (row.banned => server[u].banned) /\ server' = [server EXCEPT ![u] = row]
      <4> DEFINE row == [server[u] EXCEPT !.mod = adminOnly /\ @, !.admin = FALSE]
      <4>1. row \in Row /\ (row.banned => server[u].banned)
        BY <2>2 DEF Row
      <4>2. server' = [server EXCEPT ![u] = row]
        BY <3>2 DEF ServerRemoveModerator, SetServer
      <4> QED
        BY <4>1, <4>2
    <3>3. ASSUME ServerUnban(w)
          PROVE  \E row \in Row : (row.banned => server[u].banned) /\ server' = [server EXCEPT ![u] = row]
      <4> DEFINE row == [server[u] EXCEPT !.banned = FALSE]
      <4>1. row \in Row /\ (row.banned => server[u].banned)
        BY <2>2 DEF Row
      <4>2. server' = [server EXCEPT ![u] = row]
        BY <3>3 DEF ServerUnban, SetServer
      <4> QED
        BY <4>1, <4>2
    <3> QED
      BY <1>6, <3>1, <3>2, <3>3
  <2>4. \A v \in Users : server'[v].banned => server[v].banned
    BY <1>t, <2>2, <2>3 DEF RowsOK
  <2>5. UNCHANGED <<room, futureVars, roomSentence>>
    BY <1>6 DEF ServerSetModerator, ServerRemoveModerator, ServerUnban, sentences
  <2>6. \A v \in Users : server'[v].banned => serverSentence'[v] = serverSentence[v]
    <3>1. CASE ServerUnban(w)
      <4>1. ~server'[u].banned
        BY <1>t, <2>2, <3>1 DEF ServerUnban, SetServer, RowsOK, Row
      <4> QED
        BY <1>t, <2>2, <3>1, <4>1 DEF ServerUnban, FuturesOK
    <3>2. CASE ~ServerUnban(w)
      BY <1>6, <3>2 DEF ServerSetModerator, ServerRemoveModerator, sentences
    <3> QED
      BY <3>1, <3>2
  <2> QED
    BY <1>1, <2>4, <2>5, <2>6
<1>7. ASSUME NEW timeout \in Timeouts \cup {Never}, ServerBan(w, timeout)
      PROVE  UnbansMatchSentences'
  <2>1. u \in Users
    BY <1>t, <1>7, ActingUsers DEF ServerBan
  <2>2. server' = [server EXCEPT ![u] = [server[u] EXCEPT !.banned = TRUE]]
    BY <1>7 DEF ServerBan, SetServer
  <2>3. /\ serverUnban' = [serverUnban EXCEPT ![u] = Unban(timeout)]
        /\ serverSentence' = [serverSentence EXCEPT ![u] = Sentence(timeout)]
        /\ UNCHANGED <<room, roomUnban, roomSentence>>
    BY <1>7 DEF ServerBan
  <2>4. ASSUME NEW v \in Users, server'[v].banned
        PROVE  serverUnban'[v] \in {Never, serverSentence'[v]}
    <3>1. CASE v = u
      <4>1. Unban(timeout) \in {Never, Sentence(timeout)}
        BY DEF Unban, Sentence
      <4> QED
        BY <1>t, <2>3, <3>1, <4>1 DEF FuturesOK
    <3>2. CASE v # u
      BY <1>t, <2>1, <2>2, <2>3, <2>4, <3>2 DEF FuturesOK, RowsOK, UnbansMatchSentences
    <3> QED
      BY <3>1, <3>2
  <2> QED
    BY <2>3, <2>4 DEF UnbansMatchSentences
<1>8. CASE ServerUnbanForget(w)
  <2>1. /\ serverUnban' = [serverUnban EXCEPT ![u] = Never]
        /\ UNCHANGED <<room, server, roomUnban, sentences>>
    BY <1>8 DEF ServerUnbanForget, roleVars
  <2> QED
    BY <1>t, <2>1 DEF UnbansMatchSentences, FuturesOK, sentences
<1> QED
  BY <1>3, <1>4, <1>5, <1>6, <1>7, <1>8 DEF Request

LEMMA MuleSchedule ==
    ASSUME TablesOK, UnbansMatchSentences, ApplyDueUnbans \/ Tick \/ UNCHANGED vars
    PROVE  UnbansMatchSentences'
<1>t. RowsOK /\ FuturesOK
  BY DEF TablesOK
<1>1. CASE ApplyDueUnbans
  <2>1. ASSUME NEW u \in Users, room'[u].banned
        PROVE  roomUnban'[u] = IF roomSentence'[u] = Zero THEN Never ELSE roomSentence'[u]
    <3>1. ~Due(roomUnban, u) /\ room'[u] = room[u]
      BY <1>t, <1>1, <2>1 DEF ApplyDueUnbans, Lifted, RowsOK, Row
    <3>2. roomUnban'[u] = roomUnban[u] /\ roomSentence'[u] = roomSentence[u]
      BY <1>1, <3>1 DEF ApplyDueUnbans, Remaining, LiftSentences
    <3> QED
      BY <2>1, <3>1, <3>2 DEF UnbansMatchSentences
  <2>2. ASSUME NEW u \in Users, server'[u].banned
        PROVE  serverUnban'[u] \in {Never, serverSentence'[u]}
    <3>1. ~Due(serverUnban, u) /\ server'[u] = server[u]
      BY <1>t, <1>1, <2>2 DEF ApplyDueUnbans, Lifted, RowsOK, Row
    <3>2. serverUnban'[u] = serverUnban[u] /\ serverSentence'[u] = serverSentence[u]
      BY <1>1, <3>1 DEF ApplyDueUnbans, Remaining, LiftSentences
    <3> QED
      BY <2>2, <3>1, <3>2 DEF UnbansMatchSentences
  <2> QED
    BY <2>1, <2>2 DEF UnbansMatchSentences
<1>2. CASE Tick \/ UNCHANGED vars
  BY <1>2 DEF Tick, vars, UnbansMatchSentences, roleVars, futureVars, sentences
<1> QED
  BY <1>1, <1>2

\* What is scheduled for a banned user is the end of that ban, past or to come: in
\* the room always but for a timeout of zero, on the server unless an unban that
\* raced with the ban has deleted it.
THEOREM UnbansMatch == Spec => []UnbansMatchSentences
<1>1. Init => UnbansMatchSentences
  BY DEF Init, UnbansMatchSentences, Plain
<1>2. RolesTypeOK /\ UnbansMatchSentences /\ [Next]_vars => UnbansMatchSentences'
  BY RequestSchedule, MuleSchedule, TypeParts DEF Next
<1> QED
  BY <1>1, <1>2, RolesTypeCorrect, PTL DEF Spec

\* A request that is served shows in its session.
LEMMA ServedShows ==
    ASSUME SessionsOK, NEW w \in Workers, Acting(w),
           Served(w) \/ session' = [session EXCEPT ![w].unbanning = TRUE, ![w].targetMod = FALSE]
    PROVE  Does(w, session[w].target)
<1>0. Idle.target = NoUser
  BY DEF Idle
<1>1. /\ session[w] \in Session
      /\ session[w].target # NoUser
      /\ ~session[w].unbanning
  BY DEF SessionsOK, Acting
<1>2. session'[w].target = NoUser \/ session'[w].unbanning
  <2>1. CASE Served(w)
    BY <1>0, <1>1, <2>1 DEF Served, SessionsOK, Session
  <2>2. CASE session' = [session EXCEPT ![w].unbanning = TRUE, ![w].targetMod = FALSE]
    BY <1>1, <2>2 DEF SessionsOK, Session
  <2> QED
    BY <2>1, <2>2
<1> QED
  BY <1>1, <1>2 DEF Does

\* A ban ends when it is served, or by somebody who may end it: never by an unban
\* that an earlier ban of the user scheduled, whatever was done in between.
THEOREM BansAreServed == Spec => BansServed
<1> DEFINE Lift(u) ==
      /\ room[u].banned /\ ~room'[u].banned =>
           \/ Over(roomSentence, u)
           \/ \E w \in Workers : /\ Does(w, u)
                                 /\ RoomModerator(session[w].actor) \/ session[w].legacy
      /\ server[u].banned /\ ~server'[u].banned =>
           \/ Over(serverSentence, u)
           \/ \E w \in Workers : Does(w, u) /\ session[w].mod
<1>1. ASSUME RolesTypeOK, UnbansMatchSentences, [Next]_vars, NEW u \in Users
      PROVE  Lift(u)
  <2>t. RowsOK /\ FuturesOK /\ SessionsOK
    BY <1>1, TypeParts DEF TablesOK
  <2>1. ASSUME room[u].banned => room'[u].banned, server[u].banned => server'[u].banned
        PROVE  Lift(u)
    BY <2>1
  <2>2. CASE Tick \/ UNCHANGED vars
    BY <2>1, <2>2 DEF Tick, vars, roleVars
  <2>3. CASE ApplyDueUnbans
    <3>1. ASSUME room[u].banned, ~room'[u].banned
          PROVE  Over(roomSentence, u)
      <4>1. roomUnban[u] # Never /\ roomUnban[u] <= now
        BY <2>3, <3>1 DEF ApplyDueUnbans, Lifted, Due
      <4> QED
        BY <1>1, <2>t, <3>1, <4>1 DEF Over, UnbansMatchSentences, FuturesOK
    <3>2. ASSUME server[u].banned, ~server'[u].banned
          PROVE  Over(serverSentence, u)
      <4>1. serverUnban[u] # Never /\ serverUnban[u] <= now
        BY <2>3, <3>2 DEF ApplyDueUnbans, Lifted, Due
      <4> QED
        BY <1>1, <2>t, <3>2, <4>1 DEF Over, UnbansMatchSentences, FuturesOK
    <3> QED
      BY <3>1, <3>2
  <2>4. ASSUME NEW w \in Workers, Request(w)
        PROVE  Lift(u)
    <3> DEFINE v == session[w].target
    <3>1. CASE UNCHANGED roleVars
      BY <2>1, <3>1 DEF roleVars
    <3>2. ASSUME Acting(w) PROVE v \in Users /\ room[v] \in Row /\ server[v] \in Row
      BY <2>t, <3>2, ActingUsers DEF RowsOK
    <3>3. ASSUME NEW admin \in {"yes", "keep"}, RoomSetModerator(w, admin)
          PROVE  Lift(u)
      BY <2>t, <2>1, <3>2, <3>3 DEF RoomSetModerator, SetRoom, RowsOK, Row
    <3>4. ASSUME NEW adminOnly \in BOOLEAN, RoomRemoveModerator(w, adminOnly)
          PROVE  Lift(u)
      BY <2>t, <2>1, <3>2, <3>4 DEF RoomRemoveModerator, SetRoom, RowsOK, Row
    <3>5. CASE RoomDemote(w)
      BY <2>t, <2>1, <3>2, <3>5 DEF RoomDemote, SetRoom, RowsOK, Row
    <3>6. ASSUME NEW timeout \in Timeouts \cup {Never}, RoomBan(w, timeout)
          PROVE  Lift(u)
      BY <2>t, <2>1, <3>2, <3>6 DEF RoomBan, PutRoomBan, SetRoom, RowsOK, Plain
    <3>7. CASE RoomUnban(w)
      <4>1. Acting(w) /\ (RoomModerator(session[w].actor) \/ session[w].legacy) /\ Does(w, v)
        BY <2>t, <3>7, ServedShows DEF RoomUnban, ActsAsModerator
      <4>2. server' = server /\ (u # v => room'[u] = room[u])
        BY <2>t, <3>7 DEF RoomUnban, SetRoom, RowsOK
      <4>3. CASE u = v
        BY <4>1, <4>2, <4>3
      <4>4. CASE u # v
        BY <2>1, <4>2, <4>4
      <4> QED
        BY <4>3, <4>4
    <3>8. ASSUME NEW admin \in {"yes", "no", "keep"}, ServerSetModerator(w, admin)
          PROVE  Lift(u)
      BY <2>t, <2>1, <3>2, <3>8 DEF ServerSetModerator, SetServer, RowsOK, Row
    <3>9. ASSUME NEW adminOnly \in BOOLEAN, ServerRemoveModerator(w, adminOnly)
          PROVE  Lift(u)
      BY <2>t, <2>1, <3>2, <3>9 DEF ServerRemoveModerator, SetServer, RowsOK, Row
    <3>10. ASSUME NEW timeout \in Timeouts \cup {Never}, ServerBan(w, timeout)
           PROVE  Lift(u)
      BY <2>t, <2>1, <3>2, <3>10 DEF ServerBan, SetServer, RowsOK, Row
    <3>11. CASE ServerUnban(w)
      <4>1. Acting(w) /\ session[w].mod /\ Does(w, v)
        BY <2>t, <3>11, ServedShows DEF ServerUnban
      <4>2. room' = room /\ (u # v => server'[u] = server[u])
        BY <2>t, <3>11 DEF ServerUnban, SetServer, RowsOK
      <4>3. CASE u = v
        BY <4>1, <4>2, <4>3
      <4>4. CASE u # v
        BY <2>1, <4>2, <4>4
      <4> QED
        BY <4>3, <4>4
    <3>12. CASE \/ \E x \in Users : Authenticate(w, x) \/ LegacyAuthenticate(w, x) \/ LoadTarget(w, x)
                \/ End(w)
                \/ ServerUnbanForget(w)
      BY <3>1, <3>12 DEF Authenticate, LegacyAuthenticate, LoadTarget, End, ServerUnbanForget
    <3> QED
      BY <2>4, <3>3, <3>4, <3>5, <3>6, <3>7, <3>8, <3>9, <3>10, <3>11, <3>12 DEF Request
  <2> QED
    BY <1>1, <2>2, <2>3, <2>4 DEF Next
<1>2. RolesTypeOK /\ UnbansMatchSentences /\ [Next]_vars => [\A u \in Users : Lift(u)]_vars
  BY <1>1
<1> QED
  BY RolesTypeCorrect, UnbansMatch, <1>2, PTL DEF Spec, BansServed

\* What a legacy request remembers was so: its user is an admin in its session only
\* if it was one of the room at some moment since it was let in.
LegacyKnown == \A w \in Workers : session[w].legacy /\ session[w].admin => wasAdmin[w]

\* Only being let in makes a session that of a legacy request, or that of an admin.
LEMMA SessionKeeps ==
    ASSUME TablesOK, NEW w \in Workers, NEW x \in Workers, Request(x),
           session'[w].legacy /\ session'[w].admin
    PROVE  \/ session[w].legacy /\ session[w].admin
           \/ \E u \in Users : w = x /\ LegacyAuthenticate(w, u)
<1>t. SessionsOK
  BY DEF TablesOK
<1>0. ~Idle.legacy
  BY DEF Idle
<1>1. CASE Served(x)
  BY <1>t, <1>0, <1>1 DEF Served, SessionsOK, Session
<1>2. CASE session' = [session EXCEPT ![x].unbanning = TRUE, ![x].targetMod = FALSE]
  BY <1>t, <1>2 DEF SessionsOK, Session
<1>3. ASSUME NEW u \in Users, Authenticate(x, u)
      PROVE  session[w].legacy /\ session[w].admin
  <2>1. w # x
    BY <1>t, <1>0, <1>3 DEF Authenticate, SessionsOK, Idle
  <2> QED
    BY <1>t, <1>3, <2>1 DEF Authenticate, SessionsOK
<1>4. ASSUME NEW u \in Users, LoadTarget(x, u)
      PROVE  session[w].legacy /\ session[w].admin
  BY <1>t, <1>4 DEF LoadTarget, SessionsOK, Session
<1>5. CASE End(x)
  BY <1>t, <1>0, <1>5 DEF End, SessionsOK
<1>6. ASSUME NEW u \in Users, LegacyAuthenticate(x, u), w # x
      PROVE  session[w].legacy /\ session[w].admin
  BY <1>t, <1>6 DEF LegacyAuthenticate, SessionsOK
<1> QED
  BY <1>1, <1>2, <1>3, <1>4, <1>5, <1>6
     DEF Request, RoomSetModerator, RoomRemoveModerator, RoomDemote, RoomBan, PutRoomBan, RoomUnban,
         ServerSetModerator, ServerRemoveModerator, ServerBan, ServerUnban, ServerUnbanForget

LEMMA LegacyKnownHolds == Spec => []LegacyKnown
<1>1. Init => LegacyKnown
  BY DEF Init, LegacyKnown, Idle
<1>2. ASSUME RolesTypeOK, LegacyKnown, [Next]_vars
      PROVE  LegacyKnown'
  <2>t. TablesOK /\ HistoryOK
    BY <1>2, TypeParts
  <2>1. CASE UNCHANGED vars
    BY <1>2, <2>1 DEF vars, LegacyKnown
  <2>2. ASSUME Remember, NEW w \in Workers, session'[w].legacy, wasAdmin[w]
        PROVE  wasAdmin'[w]
    BY <2>2 DEF Remember
  <2>3. CASE (ApplyDueUnbans \/ Tick) /\ Remember
    <3>1. session' = session
      BY <2>3 DEF ApplyDueUnbans, Tick
    <3> QED
      BY <1>2, <2>2, <2>3, <3>1 DEF LegacyKnown
  <2>4. ASSUME NEW x \in Workers, Request(x), Remember
        PROVE  LegacyKnown'
    <3> SUFFICES ASSUME NEW w \in Workers, session'[w].legacy /\ session'[w].admin
                 PROVE  wasAdmin'[w]
      BY DEF LegacyKnown
    <3>1. CASE session[w].legacy /\ session[w].admin
      BY <1>2, <2>2, <2>4, <3>1 DEF LegacyKnown
    <3>2. ASSUME NEW u \in Users, LegacyAuthenticate(w, u)
          PROVE  wasAdmin'[w]
      <4>1. session'[w].actor = u /\ (session'[w].admin <=> RoomAdmin(u))
        BY <2>t, <3>2 DEF LegacyAuthenticate, TablesOK, SessionsOK, Idle
      <4>2. server' = server /\ room' = room
        BY <3>2 DEF LegacyAuthenticate, roleVars
      <4>3. server'[u].admin \/ room'[u].admin
        BY <4>1, <4>2 DEF RoomAdmin
      <4> QED
        BY <2>4, <4>1, <4>3 DEF Remember
    <3> QED
      BY <2>t, <2>4, <3>1, <3>2, SessionKeeps
  <2> QED
    BY <1>2, <2>1, <2>3, <2>4 DEF Next
<1> QED
  BY <1>1, <1>2, RolesTypeCorrect, PTL DEF Spec

\* Who is a moderator or an admin of the room is changed only by its admins, and only
\* they ban moderators, of the room or of the server: admins at that moment, for a
\* legacy request at some moment since it was let in.
THEOREM RoomRolesAreByAdmins == Spec => RoomRolesByAdmins
<1> DEFINE Changed(u) ==
             \/ room'[u].mod # room[u].mod
             \/ room'[u].admin # room[u].admin
             \/ RoomModerator(u) /\ ~room[u].banned /\ room'[u].banned
<1> DEFINE ByAdmin(u) ==
             \E w \in Workers : /\ Does(w, u)
                                /\ IF session[w].legacy THEN wasAdmin[w]
                                   ELSE RoomAdmin(session[w].actor)
<1>1. ASSUME RolesTypeOK, LegacyKnown, [Next]_vars, NEW u \in Users, Changed(u)
      PROVE  ByAdmin(u)
  <2>t. RowsOK /\ FuturesOK /\ SessionsOK
    BY <1>1, TypeParts DEF TablesOK
  <2>1. room' # room
    BY <1>1
  <2>2. ~(ApplyDueUnbans \/ Tick \/ UNCHANGED vars)
    <3>1. ASSUME ApplyDueUnbans PROVE FALSE
      BY <1>1, <2>t, <3>1 DEF ApplyDueUnbans, Lifted, RowsOK, Row
    <3> QED
      BY <2>1, <3>1 DEF Tick, vars, roleVars
  <2>3. PICK w \in Workers : Request(w)
    BY <1>1, <2>2 DEF Next
  <2> DEFINE v == session[w].target
  <2>4. ASSUME Acting(w), ActsAsAdmin(w), Served(w), room'[u] # room[u] => u = v
        PROVE  ByAdmin(u)
    BY <1>1, <2>t, <2>4, ServedShows DEF ActsAsAdmin, LegacyKnown
  <2>5. ASSUME NEW admin \in {"yes", "keep"}, RoomSetModerator(w, admin)
        PROVE  ByAdmin(u)
    BY <2>t, <2>4, <2>5 DEF RoomSetModerator, SetRoom, RowsOK
  <2>6. ASSUME NEW adminOnly \in BOOLEAN, RoomRemoveModerator(w, adminOnly)
        PROVE  ByAdmin(u)
    BY <2>t, <2>4, <2>6 DEF RoomRemoveModerator, SetRoom, RowsOK
  <2>7. CASE RoomDemote(w)
    BY <2>t, <2>4, <2>7 DEF RoomDemote, ActsAsAdmin, SetRoom, RowsOK
  <2>8. ASSUME NEW timeout \in Timeouts \cup {Never}, RoomBan(w, timeout)
        PROVE  ByAdmin(u)
    <3>1. room'[u] # room[u] => u = v
      BY <2>t, <2>8 DEF RoomBan, PutRoomBan, SetRoom, RowsOK
    <3>2. room[u].mod \/ room[u].admin => RoomModerator(u)
      BY DEF RoomModerator, RoomAdmin
    <3>3. RoomModerator(u)
      BY <1>1, <2>t, <2>8, <3>1, <3>2 DEF RoomBan, PutRoomBan, SetRoom, RowsOK, Row, Plain
    <3>4. u = v
      BY <1>1, <3>1
    <3> QED
      BY <2>4, <2>8, <3>3, <3>4 DEF RoomBan, PutRoomBan
  <2>9. CASE RoomUnban(w)
    <3>1. room'[u].mod = room[u].mod /\ room'[u].admin = room[u].admin
          /\ (room'[u].banned => room[u].banned)
      BY <2>t, <2>9, ActingUsers DEF RoomUnban, SetRoom, RowsOK, Row
    <3> QED
      BY <1>1, <3>1
  <2> QED
    BY <2>1, <2>3, <2>5, <2>6, <2>7, <2>8, <2>9
       DEF Request, Authenticate, LegacyAuthenticate, LoadTarget, End, ServerSetModerator, ServerRemoveModerator,
           ServerBan, ServerUnban, ServerUnbanForget, roleVars
<1>2. RolesTypeOK /\ LegacyKnown /\ [Next]_vars => [\A u \in Users : Changed(u) => ByAdmin(u)]_vars
  BY <1>1
<1> QED
  BY RolesTypeCorrect, LegacyKnownHolds, <1>2, PTL DEF Spec, RoomRolesByAdmins

=============================================================================
