----------------------------- MODULE PollingProofs -----------------------------
(***************************************************************************)
(* What a client that polls holds, for any users, clients, ways to poll,   *)
(* messages and workers, and however answers are lost or delayed.          *)
(*                                                                         *)
(* The argument is about an answer under way.  What a client will ask from *)
(* next is the seqno of a row that was read, so it is not above the counter *)
(* of that time, and whatever has changed since then is numbered above it: *)
(* up to that number, the rows as they were read and the rows as they are  *)
(* now agree.                                                              *)
(***************************************************************************)
EXTENDS Polling, MessageLogProofs, WellFoundedInduction

-----------------------------------------------------------------------------
(* Numbers.                                                                *)

\* A set of numbers that is not empty has a least one.
LEMMA Least ==
    ASSUME NEW S \in SUBSET Nat, S # {}
    PROVE  \E n \in S : \A i \in S : n <= i
<1>1. PICK n \in S : \A i \in S : ~ (<<i, n>> \in OpToRel(<, Nat))
  <2> HIDE DEF OpToRel, IsWellFoundedOn
  <2> QED BY NatLessThanWellFounded, WFMin, Zenon
<1>2. \A i \in S : ~ (i < n)
  BY <1>1 DEF OpToRel
<1> QED BY <1>2

\* If it is bounded it has a greatest one.
LEMMA Greatest ==
    ASSUME NEW S \in SUBSET Nat, S # {}, NEW bound \in Nat, \A i \in S : i <= bound
    PROVE  \E n \in S : \A i \in S : i <= n
<1> DEFINE gaps == {g \in Nat : bound - g \in S}
<1>1. \A i \in S : i \in Nat /\ bound - i \in Nat /\ bound - (bound - i) = i
  OBVIOUS
<1>2. gaps \in SUBSET Nat /\ gaps # {}
  BY <1>1
<1>3. PICK g \in gaps : \A h \in gaps : g <= h
  <2> HIDE DEF gaps
  <2> QED BY <1>2, Least
<1>4. \A i \in S : bound - i \in gaps
  BY <1>1
<1>5. bound - g \in S /\ \A i \in S : g <= bound - i
  BY <1>3, <1>4
<1> QED BY <1>1, <1>5

-----------------------------------------------------------------------------
(* The inductive invariant.                                                *)

Body == Data \cup {ReplyBody, NoData}

PendingRow == [message : Nat, seqno : Nat, data : Body, full : BOOLEAN]

ClientTypes ==
    /\ way \in [Clients -> Ways]
    /\ since \in [Clients -> Nat]
    /\ copy \in [Clients -> [AllIds -> Body \cup {Absent}]]
    /\ seenReactions \in [Clients -> [AllIds -> SUBSET (Reactions \X Users)]]
    /\ pending \in [Clients -> SUBSET PendingRow]

\* The rows of an answer are above what was asked from, and not above the counter.
RowsAreNew(c) ==
    \A row \in pending[c] :
        /\ row.message \in Ids
        /\ since[c] < row.seqno
        /\ row.seqno <= messageSequence
        /\ messages[row.message].seqnoCreation <= row.seqno

\* What an answer says of a message's body is so, if its number is up to that of a row
\* of the answer: it is the body, or the client has had it before.
BodiesAreCurrent(c) ==
    \A row, last \in pending[c] :
        messages[row.message].seqnoData <= last.seqno =>
            IF row.full THEN row.data = messages[row.message].data
            ELSE messages[row.message].seqnoData <= since[c]

Sent(c, m) == \E row \in pending[c] : row.message = m

\* An answer leaves out what the client has, and the deletions of what it never had.
BodiesAreSent(c) ==
    c \in Unpaged =>
        \A last \in pending[c], m \in Ids :
            VisibleTo(c, m) /\ messages[m].seqnoData <= last.seqno =>
                \/ Sent(c, m)
                \/ messages[m].seqnoData <= since[c]
                \/ messages[m].data = NoData /\ messages[m].seqnoCreation > since[c]

\* Up to the last row of an answer, all messages whose reactions may have changed are sent.
ReactionsAreSent(c) ==
    way[c].reactions =>
        \A last \in pending[c], m \in Ids :
            VisibleTo(c, m) /\ messages[m].data # NoData /\ messages[m].seqno <= last.seqno =>
                Sent(c, m) \/ messages[m].seqno <= since[c]

\* The properties, of one client.
CopyIsCurrent(c) ==
    c \in Unpaged =>
        \A m \in Ids : VisibleTo(c, m) /\ messages[m].seqnoData <= since[c] => HoldsCurrent(c, m)

SeenIsCurrent(c) ==
    way[c].reactions =>
        \A m \in Ids :
            VisibleTo(c, m) /\ messages[m].data # NoData /\ messages[m].seqno <= since[c] =>
                seenReactions[c][m] = ReactionView(m)

KnownIsOld(c) ==
    /\ \A m \in Ids : copy[c][m] # Absent => messages[m].seqnoCreation <= since[c]
    /\ \A m \in AllIds \ Ids : copy[c][m] = Absent

AnswerInv(c) ==
    RowsAreNew(c) /\ BodiesAreCurrent(c) /\ BodiesAreSent(c) /\ ReactionsAreSent(c)

HeldInv(c) ==
    since[c] <= messageSequence /\ CopyIsCurrent(c) /\ SeenIsCurrent(c) /\ KnownIsOld(c)

PollInv ==
    /\ Inv
    /\ Ids \subseteq AllIds
    /\ ClientTypes
    /\ \A c \in Clients : AnswerInv(c) /\ HeldInv(c)

-----------------------------------------------------------------------------
(* What the log does under a client.                                       *)

\* Whatever a step changes of a message, or adds, is numbered above the counter.
ReadersStep ==
    /\ messageSequence <= messageSequence'
    /\ Ids \subseteq Ids'
    /\ \A m \in Ids :
         /\ messages'[m].user = messages[m].user
         /\ messages'[m].seqnoCreation = messages[m].seqnoCreation
         /\ SameAudience(messages'[m], messages[m])
         /\ \/ messages'[m].data = messages[m].data /\ messages'[m].seqnoData = messages[m].seqnoData
            \/ messages'[m].seqnoData > messageSequence
         /\ \/ messages'[m] = messages[m] /\ ReactionsOf(m)' = ReactionsOf(m)
            \/ messages'[m].seqno > messageSequence
    /\ \A m \in Ids' \ Ids : m <= MaxMessages /\ messages'[m].seqnoCreation > messageSequence

LEMMA LogStepForReaders ==
    ASSUME Inv, [Next]_vars
    PROVE  ReadersStep
<1>1. RowsGoOn
  BY StepIsLogStep DEF LogStep
<1>2. Ids' = DOMAIN messages'
  BY DEF Ids
<1>3. messageSequence \in Nat
  BY DEF Inv, TypeOK
<1>4. CASE Stamped
  <2>1. \A m \in Ids : m \in Ids /\ SameAudience(messages'[m], messages[m])
    BY <1>4 DEF Stamped
  <2>2. messageSequence <= messageSequence'
    BY <1>3, <1>4 DEF Stamped
  <2>3. \A m \in Ids : \/ messages'[m] = messages[m] /\ ReactionsOf(m)' = ReactionsOf(m)
                       \/ messages'[m].seqno > messageSequence
    <3> SUFFICES ASSUME NEW m \in Ids
                 PROVE  \/ messages'[m] = messages[m] /\ ReactionsOf(m)' = ReactionsOf(m)
                        \/ messages'[m].seqno > messageSequence
      OBVIOUS
    <3>1. m \in DOMAIN messages'
      BY <1>4 DEF Stamped
    <3>2. CASE RowFresh(messages'[m])
      <4>1. messages'[m].seqno \in Nat
        BY <1>4, <3>1, RowsOfSeq DEF Stamped, Message
      <4> QED BY <1>3, <3>2, <4>1 DEF RowFresh
    <3> QED BY <1>4, <3>1, <3>2 DEF Stamped
  <2> QED BY <1>1, <1>2, <2>1, <2>2, <2>3 DEF RowsGoOn, RowGoesOn, ReadersStep
<1>5. CASE Unchanged
  <2>1. messages' = messages /\ userReactions' = userReactions /\ messageSequence' = messageSequence
    BY <1>5 DEF Unchanged, logVars
  <2> QED BY <1>1, <1>2, <1>3, <2>1 DEF RowsGoOn, RowGoesOn, ReadersStep, SameAudience, ReactionsOf
<1>6. Stamped \/ Unchanged
  BY NextHasShape DEF StepShape, Unchanged, vars
<1> QED BY <1>4, <1>5, <1>6

\* A message that is numbered up to the counter before the step was there, and its
\* body is the same; so are its reactions if that is said of its seqno.
LEMMA NumberedBefore ==
    ASSUME Inv, Inv', ReadersStep, NEW m \in Ids', NEW n \in Nat, n <= messageSequence
    PROVE  /\ messages'[m].seqnoData <= n =>
                /\ m \in Ids
                /\ messages'[m].data = messages[m].data
                /\ messages'[m].seqnoData = messages[m].seqnoData
           /\ messages'[m].seqno <= n =>
                /\ m \in Ids
                /\ messages'[m] = messages[m]
                /\ ReactionsOf(m)' = ReactionsOf(m)
<1>1. /\ messages'[m].seqnoData \in Nat /\ messages'[m].seqno \in Nat
      /\ messages'[m].seqnoCreation \in Nat
      /\ messages'[m].seqnoCreation <= messages'[m].seqnoData
      /\ messages'[m].seqnoData <= messages'[m].seqno
  <2>1. messages'[m] \in Message
    BY RowsOfSeq DEF Inv, TypeOK, Ids
  <2>2. /\ messages'[m].seqno = Larger(messages'[m].seqnoData, messages'[m].seqnoReactions)
        /\ messages'[m].seqnoCreation <= messages'[m].seqnoData
    BY DEF Inv, LogInv, NumbersFollowCounter, Larger
  <2> QED BY <2>1, <2>2, LargerFacts DEF Message
<1>2. messageSequence \in Nat
  BY DEF Inv, TypeOK
<1> QED BY <1>1, <1>2 DEF ReadersStep

\* Who may see a message is settled when it is posted.
LEMMA VisibilityKept ==
    ASSUME ReadersStep, NEW c, NEW m \in Ids
    PROVE  VisibleTo(c, m)' <=> VisibleTo(c, m)
BY DEF ReadersStep, SameAudience, VisibleTo

\* A step of the log leaves what is said of an answer under way.
LEMMA LogStepKeepsAnswer ==
    ASSUME Inv, Inv', ReadersStep, ClientTypes, UNCHANGED clientVars,
           NEW c \in Clients, AnswerInv(c)
    PROVE  AnswerInv(c)'
<1>1. /\ messageSequence \in Nat /\ messageSequence' \in Nat /\ messageSequence <= messageSequence'
      /\ \A row \in pending[c] : row.seqno \in Nat /\ row.seqno <= messageSequence
      /\ since[c] \in Nat
  BY DEF Inv, TypeOK, ReadersStep, ClientTypes, PendingRow, AnswerInv, RowsAreNew
<1>2. UNCHANGED <<way, since, pending>> /\ Unpaged' = Unpaged
  BY DEF clientVars, Unpaged
<1>3. RowsAreNew(c)'
  BY <1>1, <1>2 DEF AnswerInv, RowsAreNew, ReadersStep
<1>4. BodiesAreCurrent(c)'
  <2> SUFFICES ASSUME NEW row \in pending[c], NEW last \in pending[c],
                      messages'[row.message].seqnoData <= last.seqno
               PROVE  IF row.full THEN row.data = messages'[row.message].data
                      ELSE messages'[row.message].seqnoData <= since[c]
    BY <1>2 DEF BodiesAreCurrent
  <2>1. row.message \in Ids'
    BY <1>2, <1>3 DEF RowsAreNew
  <2>2. /\ messages'[row.message].data = messages[row.message].data
        /\ messages'[row.message].seqnoData = messages[row.message].seqnoData
    BY <1>1, <2>1, NumberedBefore
  <2> QED BY <2>2 DEF AnswerInv, BodiesAreCurrent
<1>5. BodiesAreSent(c)'
  <2> SUFFICES ASSUME c \in Unpaged, NEW last \in pending[c], NEW m \in Ids',
                      VisibleTo(c, m)', messages'[m].seqnoData <= last.seqno
               PROVE  \/ Sent(c, m)
                      \/ messages'[m].seqnoData <= since[c]
                      \/ messages'[m].data = NoData /\ messages'[m].seqnoCreation > since[c]
    BY <1>2 DEF BodiesAreSent, Sent
  <2>1. /\ m \in Ids
        /\ messages'[m].data = messages[m].data
        /\ messages'[m].seqnoData = messages[m].seqnoData
    BY <1>1, NumberedBefore
  <2>2. VisibleTo(c, m) /\ messages'[m].seqnoCreation = messages[m].seqnoCreation
    BY <2>1, VisibilityKept DEF ReadersStep
  <2> QED BY <2>1, <2>2 DEF AnswerInv, BodiesAreSent
<1>6. ReactionsAreSent(c)'
  <2> SUFFICES ASSUME way[c].reactions, NEW last \in pending[c], NEW m \in Ids',
                      VisibleTo(c, m)', messages'[m].data # NoData,
                      messages'[m].seqno <= last.seqno
               PROVE  Sent(c, m) \/ messages'[m].seqno <= since[c]
    BY <1>2 DEF ReactionsAreSent, Sent
  <2>1. m \in Ids /\ messages'[m] = messages[m]
    BY <1>1, NumberedBefore
  <2>2. VisibleTo(c, m)
    BY <2>1, VisibilityKept
  <2> QED BY <2>1, <2>2 DEF AnswerInv, ReactionsAreSent
<1> QED BY <1>3, <1>4, <1>5, <1>6 DEF AnswerInv

\* Nor does it take anything away from what a client holds.
LEMMA LogStepKeepsHeld ==
    ASSUME Inv, Inv', ReadersStep, ClientTypes, Ids \subseteq AllIds, UNCHANGED clientVars,
           NEW c \in Clients, HeldInv(c)
    PROVE  HeldInv(c)'
<1>1. /\ messageSequence \in Nat /\ messageSequence' \in Nat /\ messageSequence <= messageSequence'
      /\ since[c] \in Nat /\ since[c] <= messageSequence
  BY DEF Inv, TypeOK, ReadersStep, ClientTypes, HeldInv
<1>2. UNCHANGED <<way, since, copy, seenReactions>> /\ Unpaged' = Unpaged
  BY DEF clientVars, Unpaged
<1>3. CopyIsCurrent(c)'
  <2> SUFFICES ASSUME c \in Unpaged, NEW m \in Ids', VisibleTo(c, m)',
                      messages'[m].seqnoData <= since[c]
               PROVE  HoldsCurrent(c, m)'
    BY <1>2 DEF CopyIsCurrent
  <2>1. /\ m \in Ids
        /\ messages'[m].data = messages[m].data
        /\ messages'[m].seqnoData = messages[m].seqnoData
    BY <1>1, NumberedBefore
  <2>2. VisibleTo(c, m)
    BY <2>1, VisibilityKept
  <2> QED BY <1>2, <2>1, <2>2 DEF HeldInv, CopyIsCurrent, HoldsCurrent
<1>4. SeenIsCurrent(c)'
  <2> SUFFICES ASSUME way[c].reactions, NEW m \in Ids', VisibleTo(c, m)',
                      messages'[m].data # NoData, messages'[m].seqno <= since[c]
               PROVE  seenReactions[c][m] = ReactionView(m)'
    BY <1>2 DEF SeenIsCurrent
  <2>1. m \in Ids /\ messages'[m] = messages[m] /\ ReactionsOf(m)' = ReactionsOf(m)
    BY <1>1, NumberedBefore
  <2>2. VisibleTo(c, m)
    BY <2>1, VisibilityKept
  <2> QED BY <2>1, <2>2 DEF HeldInv, SeenIsCurrent, ReactionView
<1>5. KnownIsOld(c)'
  <2>1. Ids' \ Ids \subseteq AllIds
    <3>1. Ids' = 1 .. Len(messages') /\ Len(messages') \in Nat
      BY IdsFacts DEF Inv, TypeOK, Ids
    <3> QED BY <3>1, BoundAssumption DEF ReadersStep, AllIds
  <2> QED BY <1>2, <2>1 DEF HeldInv, KnownIsOld, ReadersStep
<1> QED BY <1>1, <1>2, <1>3, <1>4, <1>5 DEF HeldInv

LEMMA LogStepInv ==
    ASSUME PollInv, [Next]_vars, UNCHANGED clientVars
    PROVE  PollInv'
<1>1. Inv'
  BY StepKeepsInv DEF PollInv
<1>2. ReadersStep
  BY LogStepForReaders DEF PollInv
<1>3. Ids' \subseteq AllIds
  <2>1. Ids' = 1 .. Len(messages') /\ Len(messages') \in Nat
    BY <1>1, IdsFacts DEF Inv, TypeOK, Ids
  <2> QED BY <1>2, <2>1, BoundAssumption DEF PollInv, ReadersStep, AllIds
<1>4. ClientTypes'
  BY DEF PollInv, ClientTypes, clientVars
<1>5. \A c \in Clients : AnswerInv(c)' /\ HeldInv(c)'
  BY <1>1, <1>2, LogStepKeepsAnswer, LogStepKeepsHeld DEF PollInv
<1> QED BY <1>1, <1>3, <1>4, <1>5 DEF PollInv, AllIds

-----------------------------------------------------------------------------
(* What the clients' steps leave alone.                                    *)

LEMMA SameAnswer ==
    ASSUME UNCHANGED <<vars, way>>, NEW c, since'[c] = since[c], pending'[c] = pending[c],
           AnswerInv(c)
    PROVE  AnswerInv(c)'
<1>1. /\ messages' = messages /\ messageSequence' = messageSequence
      /\ way' = way /\ Ids' = Ids /\ Unpaged' = Unpaged
  BY DEF vars, logVars, Ids, Unpaged
<1>2. \A m : VisibleTo(c, m)' <=> VisibleTo(c, m)
  BY <1>1 DEF VisibleTo
<1>3. RowsAreNew(c)' /\ BodiesAreCurrent(c)'
  BY <1>1 DEF AnswerInv, RowsAreNew, BodiesAreCurrent
<1>4. BodiesAreSent(c)' /\ ReactionsAreSent(c)'
  BY <1>1, <1>2 DEF AnswerInv, BodiesAreSent, ReactionsAreSent, Sent
<1> QED BY <1>3, <1>4 DEF AnswerInv

LEMMA NoAnswer ==
    ASSUME NEW c, pending'[c] = {}
    PROVE  AnswerInv(c)'
BY DEF AnswerInv, RowsAreNew, BodiesAreCurrent, BodiesAreSent, ReactionsAreSent

LEMMA SameHeld ==
    ASSUME UNCHANGED <<vars, way>>, NEW c, since'[c] = since[c], copy'[c] = copy[c],
           seenReactions'[c] = seenReactions[c], HeldInv(c)
    PROVE  HeldInv(c)'
<1>1. /\ messages' = messages /\ messageSequence' = messageSequence
      /\ userReactions' = userReactions
      /\ way' = way /\ Ids' = Ids /\ Unpaged' = Unpaged
  BY DEF vars, logVars, Ids, Unpaged
<1>2. \A m : VisibleTo(c, m)' <=> VisibleTo(c, m)
  BY <1>1 DEF VisibleTo
<1>3. \A m : /\ HoldsCurrent(c, m)' <=> HoldsCurrent(c, m)
             /\ ReactionView(m)' = ReactionView(m)
  BY <1>1 DEF HoldsCurrent, ReactionView, ReactionsOf
<1>4. CopyIsCurrent(c)'
  BY <1>1, <1>2, <1>3 DEF HeldInv, CopyIsCurrent
<1>5. SeenIsCurrent(c)'
  BY <1>1, <1>2, <1>3 DEF HeldInv, SeenIsCurrent
<1>6. KnownIsOld(c)'
  BY <1>1 DEF HeldInv, KnownIsOld, AllIds
<1> QED BY <1>1, <1>4, <1>5, <1>6 DEF HeldInv

-----------------------------------------------------------------------------
(* Pages.                                                                  *)

\* The rows of a page below a row of it are in it, too.
LEMMA PageIsLow ==
    ASSUME Inv, NEW c \in Clients, ClientTypes,
           NEW m \in Updates(c), NEW last \in Page(c), messages[m].seqno <= messages[last].seqno
    PROVE  m \in Page(c)
<1> DEFINE below(i) == {n \in Updates(c) : messages[n].seqno < messages[i].seqno}
<1>1. Updates(c) \subseteq Ids /\ Page(c) \subseteq Updates(c)
  BY DEF Updates, Page
<1>2. \A n \in Ids : messages[n].seqno \in Nat
  BY RowFacts DEF Inv
<1>3. below(m) \subseteq below(last)
  BY <1>1, <1>2
<1>4. IsFiniteSet(below(last))
  <2>1. Ids = 1 .. Len(messages) /\ Len(messages) \in Nat
    BY IdsFacts DEF Inv, TypeOK
  <2>2. IsFiniteSet(Ids)
    BY <2>1, FS_Interval
  <2>3. below(last) \subseteq Ids
    BY <1>1
  <2> QED BY <2>2, <2>3, FS_Subset
<1>5. /\ Cardinality(below(m)) \in Nat /\ Cardinality(below(last)) \in Nat
      /\ Cardinality(below(m)) <= Cardinality(below(last))
  BY <1>3, <1>4, FS_Subset, FS_CardinalityType
<1>6. Cardinality(below(last)) < way[c].limit
  BY DEF Page
<1>7. way[c].limit \in Nat
  BY ClientsAssumption DEF ClientTypes
<1>8. Cardinality(below(m)) < way[c].limit
  BY <1>5, <1>6, <1>7
<1> QED BY <1>8 DEF Page

\* Who asks for as many rows as there can be messages gets them all.
LEMMA PageIsAll ==
    ASSUME Inv, ClientTypes, Ids \subseteq AllIds, NEW c \in Unpaged
    PROVE  Page(c) = Updates(c)
<1> SUFFICES ASSUME NEW m \in Updates(c) PROVE m \in Page(c)
  BY DEF Page
<1> DEFINE below == {n \in Updates(c) : messages[n].seqno < messages[m].seqno}
<1>1. m \in AllIds /\ below \subseteq AllIds \ {m}
  <2>1. m \in Ids /\ Updates(c) \subseteq AllIds
    BY DEF Updates
  <2>2. messages[m].seqno \in Nat
    BY <2>1, RowFacts DEF Inv
  <2> QED BY <2>1, <2>2
<1>2. IsFiniteSet(AllIds) /\ Cardinality(AllIds) = MaxMessages
  BY FS_Interval, BoundAssumption DEF AllIds
<1>3. IsFiniteSet(AllIds \ {m}) /\ Cardinality(AllIds \ {m}) = MaxMessages - 1
  BY <1>1, <1>2, FS_RemoveElement
<1>4. Cardinality(below) \in Nat /\ Cardinality(below) <= MaxMessages - 1
  BY <1>1, <1>3, FS_Subset, FS_CardinalityType
<1>5. c \in Clients /\ way[c].limit \in Nat /\ MaxMessages <= way[c].limit
  BY ClientsAssumption DEF ClientTypes, Unpaged
<1>6. Cardinality(below) < way[c].limit
  BY <1>4, <1>5, BoundAssumption
<1> QED BY <1>6 DEF Page

-----------------------------------------------------------------------------
(* The clients' steps.                                                     *)

\* The numbers of a row are in order.
LEMMA RowOrder ==
    ASSUME Inv, NEW m \in Ids
    PROVE  /\ messages[m].seqno \in Nat /\ messages[m].seqno <= messageSequence
           /\ messages[m].seqnoData \in Nat /\ messages[m].seqnoReactions \in Nat
           /\ messages[m].seqnoCreation \in Nat
           /\ messages[m].seqnoCreation <= messages[m].seqnoData
           /\ messages[m].seqnoData <= messages[m].seqno
           /\ messages[m].seqnoReactions <= messages[m].seqno
<1>1. TypeOK /\ LogInv
  BY DEF Inv
<1>2. messages[m].seqno = Larger(messages[m].seqnoData, messages[m].seqnoReactions)
  BY <1>1 DEF LogInv, NumbersFollowCounter
<1> QED BY <1>1, <1>2, RowFacts, LargerFacts

\* The rows of an answer are what the log says at the time of the query.
LEMMA FetchInv ==
    ASSUME PollInv, NEW c \in Clients, FetchRows(c)
    PROVE  PollInv'
<1> DEFINE rowOf(m) == [message |-> m, seqno |-> messages[m].seqno, data |-> messages[m].data,
                        full |-> IsFullRow(c, m)]
           rows == {rowOf(m) : m \in Page(c)}
<1>1. /\ pending' = [pending EXCEPT ![c] = rows]
      /\ UNCHANGED <<vars, way, since, copy, seenReactions>>
  BY DEF FetchRows
<1>2. /\ messages' = messages /\ messageSequence' = messageSequence /\ Ids' = Ids
      /\ Unpaged' = Unpaged /\ way' = way /\ since' = since
      /\ \A m : VisibleTo(c, m)' <=> VisibleTo(c, m)
  BY <1>1 DEF vars, logVars, Ids, Unpaged, VisibleTo
<1>3. Inv /\ Inv' /\ Ids \subseteq AllIds /\ ClientTypes
  <2>1. [Next]_vars
    BY <1>1
  <2> QED BY <2>1, StepKeepsInv DEF PollInv
<1>4. Page(c) \subseteq Updates(c) /\ Updates(c) \subseteq Ids
  BY DEF Page, Updates
<1>5. \A m \in Page(c) :
        /\ rowOf(m) \in PendingRow
        /\ rowOf(m).message = m /\ rowOf(m).seqno = messages[m].seqno
        /\ rowOf(m).data = messages[m].data /\ rowOf(m).full = IsFullRow(c, m)
  <2> SUFFICES ASSUME NEW m \in Page(c) PROVE rowOf(m) \in PendingRow
    OBVIOUS
  <2>1. m \in Ids /\ messages[m] \in Message /\ m \in Nat
    BY <1>3, <1>4, RowFacts, IdsFacts DEF Inv, TypeOK
  <2>2. messages[m].data \in Body /\ messages[m].seqno \in Nat
    BY <2>1 DEF Message, Body
  <2>3. IsFullRow(c, m) \in BOOLEAN
    BY DEF IsFullRow
  <2> QED BY <2>1, <2>2, <2>3 DEF PendingRow
<1> HIDE DEF rowOf
<1>6. \A row \in rows : row.message \in Page(c) /\ row = rowOf(row.message)
  BY <1>5
<1>7. rows \subseteq PendingRow
  BY <1>5
<1>8. /\ ClientTypes'
      /\ pending'[c] = rows
      /\ \A d \in Clients : d # c => pending'[d] = pending[d]
  <2> HIDE DEF rows
  <2> QED BY <1>1, <1>3, <1>7 DEF ClientTypes, AllIds
<1>9. \A m \in Ids : Sent(c, m)' <=> m \in Page(c)
  BY <1>5, <1>6, <1>8 DEF Sent
<1> HIDE DEF rows
<1>10. RowsAreNew(c)'
  <2> SUFFICES ASSUME NEW row \in rows
               PROVE  /\ row.message \in Ids
                      /\ since[c] < row.seqno
                      /\ row.seqno <= messageSequence
                      /\ messages[row.message].seqnoCreation <= row.seqno
    BY <1>2, <1>8 DEF RowsAreNew
  <2>1. /\ row.message \in Updates(c) /\ row.message \in Ids
        /\ row.seqno = messages[row.message].seqno
    BY <1>4, <1>5, <1>6
  <2>2. since[c] \in Nat /\ messages[row.message].seqno > since[c]
    BY <1>3, <2>1 DEF Updates, ClientTypes
  <2> QED BY <1>3, <2>1, <2>2, RowOrder
<1>11. BodiesAreCurrent(c)'
  <2> SUFFICES ASSUME NEW row \in rows
               PROVE  IF row.full THEN row.data = messages[row.message].data
                      ELSE messages[row.message].seqnoData <= since[c]
    BY <1>2, <1>8 DEF BodiesAreCurrent
  <2>1. /\ row.message \in Ids
        /\ row.data = messages[row.message].data
        /\ row.full = IsFullRow(c, row.message)
    BY <1>4, <1>5, <1>6
  <2>2. since[c] \in Nat /\ messages[row.message].seqnoData \in Nat
    BY <1>3, <2>1, RowOrder DEF ClientTypes
  <2> QED BY <2>1, <2>2 DEF IsFullRow
<1>12. BodiesAreSent(c)'
  <2> SUFFICES ASSUME c \in Unpaged, NEW m \in Ids, VisibleTo(c, m), m \notin Page(c)
               PROVE  \/ messages[m].seqnoData <= since[c]
                      \/ messages[m].data = NoData /\ messages[m].seqnoCreation > since[c]
    BY <1>2, <1>9 DEF BodiesAreSent
  <2>1. m \notin Updates(c)
    BY <1>3, PageIsAll
  <2>2. since[c] \in Nat
    BY <1>3 DEF ClientTypes
  <2> QED BY <1>3, <2>1, <2>2, RowOrder DEF Updates
<1>13. ReactionsAreSent(c)'
  <2> SUFFICES ASSUME way[c].reactions, NEW last \in rows, NEW m \in Ids, VisibleTo(c, m),
                      messages[m].data # NoData, messages[m].seqno <= last.seqno,
                      ~ (messages[m].seqno <= since[c])
               PROVE  m \in Page(c)
    BY <1>2, <1>8, <1>9 DEF ReactionsAreSent
  <2>1. since[c] \in Nat
    BY <1>3 DEF ClientTypes
  <2>2. m \in Updates(c)
    BY <1>3, <2>1, RowOrder DEF Updates
  <2>3. last.message \in Page(c) /\ messages[m].seqno <= messages[last.message].seqno
    BY <1>5, <1>6
  <2> QED BY <1>3, <2>2, <2>3, PageIsLow
<1>14. \A d \in Clients : AnswerInv(d)'
  BY <1>1, <1>8, <1>10, <1>11, <1>12, <1>13, SameAnswer DEF AnswerInv, PollInv
<1>15. \A d \in Clients : HeldInv(d)'
  BY <1>1, SameHeld DEF PollInv
<1> QED BY <1>2, <1>3, <1>8, <1>14, <1>15 DEF PollInv, AllIds

LEMMA LoseInv ==
    ASSUME PollInv, NEW c \in Clients, LoseAnswer(c)
    PROVE  PollInv'
<1>1. /\ pending' = [pending EXCEPT ![c] = {}]
      /\ UNCHANGED <<vars, way, since, copy, seenReactions>>
  BY DEF LoseAnswer
<1>2. Inv' /\ Ids' \subseteq AllIds
  <2>1. [Next]_vars /\ Ids' = Ids
    BY <1>1 DEF vars, logVars, Ids
  <2> QED BY <2>1, StepKeepsInv DEF PollInv
<1>3. /\ ClientTypes'
      /\ pending'[c] = {}
      /\ \A d \in Clients : d # c => pending'[d] = pending[d]
  BY <1>1 DEF PollInv, ClientTypes, AllIds
<1>4. \A d \in Clients : AnswerInv(d)'
  BY <1>1, <1>3, NoAnswer, SameAnswer DEF PollInv
<1>5. \A d \in Clients : HeldInv(d)'
  BY <1>1, SameHeld DEF PollInv
<1> QED BY <1>2, <1>3, <1>4, <1>5 DEF PollInv, AllIds

\* An answer has a last row.
LEMMA LastRow ==
    ASSUME PollInv, NEW c \in Clients, pending[c] # {}
    PROVE  LET seqnos == {row.seqno : row \in pending[c]}
               top == CHOOSE n \in seqnos : \A row \in pending[c] : row.seqno <= n
           IN  /\ top \in Nat /\ since[c] < top /\ top <= messageSequence
               /\ \A row \in pending[c] : row.seqno \in Nat /\ row.seqno <= top
               /\ \E last \in pending[c] : last.seqno = top
<1> DEFINE seqnos == {row.seqno : row \in pending[c]}
<1>1. /\ pending[c] \subseteq PendingRow /\ messageSequence \in Nat
      /\ \A row \in pending[c] : row.seqno \in Nat /\ since[c] < row.seqno
                                  /\ row.seqno <= messageSequence
  BY DEF PollInv, ClientTypes, PendingRow, AnswerInv, RowsAreNew, Inv, TypeOK
<1>2. seqnos \in SUBSET Nat /\ seqnos # {} /\ \A n \in seqnos : n <= messageSequence
  BY <1>1
<1>3. \E n \in seqnos : \A i \in seqnos : i <= n
  <2> HIDE DEF seqnos
  <2> QED BY <1>1, <1>2, Greatest
<1>4. \E n \in seqnos : \A row \in pending[c] : row.seqno <= n
  BY <1>3
<1> DEFINE top == CHOOSE n \in seqnos : \A row \in pending[c] : row.seqno <= n
<1>5. top \in seqnos /\ \A row \in pending[c] : row.seqno <= top
  <2> HIDE DEF seqnos
  <2> QED BY <1>4
<1>6. \E last \in pending[c] : last.seqno = top
  BY <1>5
<1> HIDE DEF top
<1>7. top \in Nat /\ since[c] < top /\ top <= messageSequence
  BY <1>1, <1>6
<1> QED BY <1>1, <1>5, <1>6, <1>7 DEF top

\* The answer arrives: up to its last row, the client holds what the log says now.
LEMMA DeliverInv ==
    ASSUME PollInv, NEW c \in Clients, Deliver(c)
    PROVE  PollInv'
<1> DEFINE rows == pending[c]
           rowOf(m) == CHOOSE row \in rows : row.message = m
           received == {row.message : row \in rows}
           isTombstone(m) == rowOf(m).full /\ rowOf(m).data = NoData
           seqnos == {row.seqno : row \in rows}
           top == CHOOSE n \in seqnos : \A row \in rows : row.seqno <= n
           body(m) == IF m \in received /\ rowOf(m).full THEN rowOf(m).data ELSE copy[c][m]
           seen(m) == IF m \notin received THEN seenReactions[c][m]
                      ELSE IF isTombstone(m) THEN {} ELSE ReactionView(m)
<1>1. /\ rows # {}
      /\ since' = [since EXCEPT ![c] = top]
      /\ copy' = [copy EXCEPT ![c] = [m \in AllIds |-> body(m)]]
      /\ seenReactions' = [seenReactions EXCEPT ![c] = [m \in AllIds |-> seen(m)]]
      /\ pending' = [pending EXCEPT ![c] = {}]
      /\ UNCHANGED <<vars, way>>
  BY DEF Deliver
<1>2. /\ top \in Nat /\ since[c] < top /\ top <= messageSequence
      /\ \A row \in rows : row.seqno \in Nat /\ row.seqno <= top
      /\ \E last \in rows : last.seqno = top
  BY <1>1, LastRow
<1> HIDE DEF top, seqnos
<1>3. \A m \in received : rowOf(m) \in rows /\ rowOf(m).message = m
  <2> SUFFICES ASSUME NEW m \in received PROVE rowOf(m) \in rows /\ rowOf(m).message = m
    OBVIOUS
  <2>1. \E row \in rows : row.message = m
    OBVIOUS
  <2> HIDE DEF rows
  <2> QED BY <2>1
<1>4. \A m : Sent(c, m) <=> m \in received
  BY DEF Sent
<1> HIDE DEF rowOf, received
<1>5. Inv /\ ClientTypes /\ Ids \subseteq AllIds /\ AnswerInv(c) /\ HeldInv(c)
  BY DEF PollInv
<1>6. /\ messages' = messages /\ messageSequence' = messageSequence
      /\ userReactions' = userReactions /\ Ids' = Ids
      /\ Unpaged' = Unpaged /\ way' = way
      /\ \A m : VisibleTo(c, m)' <=> VisibleTo(c, m)
      /\ \A m : ReactionView(m)' = ReactionView(m)
  BY <1>1 DEF vars, logVars, Ids, Unpaged, VisibleTo, ReactionView, ReactionsOf
<1>7. Inv'
  BY <1>1, <1>5, StepKeepsInv
<1>8. \A m : ReactionView(m) \subseteq Reactions \X Users
  BY <1>5 DEF Inv, TypeOK, ReactionView, ReactionsOf
<1>9. \A m \in AllIds : body(m) \in Body \cup {Absent} /\ seen(m) \in SUBSET (Reactions \X Users)
  <2>1. \A m \in received : rowOf(m).data \in Body
    BY <1>3, <1>5 DEF ClientTypes, PendingRow
  <2> QED BY <1>5, <1>8, <2>1 DEF ClientTypes
<1>10. /\ ClientTypes'
       /\ since'[c] = top /\ pending'[c] = {}
       /\ \A m \in AllIds : copy'[c][m] = body(m) /\ seenReactions'[c][m] = seen(m)
       /\ \A d \in Clients : d # c =>
            /\ since'[d] = since[d] /\ copy'[d] = copy[d]
            /\ seenReactions'[d] = seenReactions[d] /\ pending'[d] = pending[d]
  <2> HIDE DEF body, seen, rows
  <2>1. /\ [m \in AllIds |-> body(m)] \in [AllIds -> Body \cup {Absent}]
        /\ [m \in AllIds |-> seen(m)] \in [AllIds -> SUBSET (Reactions \X Users)]
    BY <1>9
  <2> QED BY <1>1, <1>2, <1>5, <2>1 DEF ClientTypes, AllIds
<1>11. \A m \in Ids : VisibleTo(c, m) /\ messages[m].seqnoData <= top /\ m \in received =>
         IF rowOf(m).full THEN rowOf(m).data = messages[m].data
         ELSE messages[m].seqnoData <= since[c]
  BY <1>2, <1>3, <1>5 DEF AnswerInv, BodiesAreCurrent
<1>12. CopyIsCurrent(c)'
  <2> SUFFICES ASSUME c \in Unpaged, NEW m \in Ids, VisibleTo(c, m),
                      messages[m].seqnoData <= top
               PROVE  HoldsCurrent(c, m)'
    BY <1>6, <1>10 DEF CopyIsCurrent
  <2>1. copy'[c][m] = body(m)
    BY <1>5, <1>10
  <2>2. CASE m \in received /\ rowOf(m).full
    BY <1>6, <1>11, <2>1, <2>2 DEF HoldsCurrent
  <2>3. CASE messages[m].seqnoData <= since[c] /\ ~ (m \in received /\ rowOf(m).full)
    BY <1>5, <1>6, <2>1, <2>3 DEF HeldInv, CopyIsCurrent, HoldsCurrent
  <2>4. CASE messages[m].data = NoData /\ messages[m].seqnoCreation > since[c]
             /\ ~ (m \in received /\ rowOf(m).full)
    <3>1. since[c] \in Nat /\ messages[m].seqnoCreation \in Nat
      BY <1>5, RowOrder DEF ClientTypes
    <3>2. copy[c][m] = Absent
      BY <1>5, <2>4, <3>1 DEF HeldInv, KnownIsOld
    <3> QED BY <1>6, <2>1, <2>4, <3>2 DEF HoldsCurrent
  <2>5. \/ m \in received
        \/ messages[m].seqnoData <= since[c]
        \/ messages[m].data = NoData /\ messages[m].seqnoCreation > since[c]
    BY <1>2, <1>4, <1>5 DEF AnswerInv, BodiesAreSent
  <2> QED BY <1>11, <2>2, <2>3, <2>4, <2>5
<1>13. SeenIsCurrent(c)'
  <2> SUFFICES ASSUME way[c].reactions, NEW m \in Ids, VisibleTo(c, m),
                      messages[m].data # NoData, messages[m].seqno <= top
               PROVE  seenReactions'[c][m] = ReactionView(m)
    BY <1>6, <1>10 DEF SeenIsCurrent
  <2>1. seenReactions'[c][m] = seen(m)
    BY <1>5, <1>10
  <2>2. m \in received \/ messages[m].seqno <= since[c]
    BY <1>2, <1>4, <1>5 DEF AnswerInv, ReactionsAreSent
  <2>3. CASE m \notin received
    BY <1>5, <2>1, <2>2, <2>3 DEF HeldInv, SeenIsCurrent
  <2>4. CASE m \in received
    <3>1. messages[m].seqnoData <= top
      BY <1>2, <1>5, RowOrder
    <3>2. ~ isTombstone(m)
      BY <1>11, <2>4, <3>1
    <3> QED BY <2>1, <2>4, <3>2
  <2> QED BY <2>3, <2>4
<1>14. KnownIsOld(c)'
  <2>1. \A m \in Ids : copy'[c][m] # Absent => messages[m].seqnoCreation <= top
    <3> SUFFICES ASSUME NEW m \in Ids, body(m) # Absent
                 PROVE  messages[m].seqnoCreation <= top
      BY <1>5, <1>10
    <3>1. messages[m].seqnoCreation \in Nat /\ since[c] \in Nat
      BY <1>5, RowOrder DEF ClientTypes
    <3>2. CASE m \in received
      <4>1. messages[m].seqnoCreation <= rowOf(m).seqno
        BY <1>3, <1>5, <3>2 DEF AnswerInv, RowsAreNew
      <4> QED BY <1>2, <1>3, <3>1, <3>2, <4>1
    <3>3. CASE m \notin received
      <4>1. messages[m].seqnoCreation <= since[c]
        BY <1>5, <3>3 DEF HeldInv, KnownIsOld
      <4> QED BY <1>2, <3>1, <4>1
    <3> QED BY <3>2, <3>3
  <2>2. \A m \in AllIds \ Ids : copy'[c][m] = Absent
    <3>1. received \subseteq Ids
      BY <1>3, <1>5 DEF AnswerInv, RowsAreNew
    <3> QED BY <1>5, <1>10, <3>1 DEF HeldInv, KnownIsOld
  <2> QED BY <1>6, <1>10, <2>1, <2>2 DEF KnownIsOld, AllIds
<1>15. HeldInv(c)'
  BY <1>2, <1>6, <1>10, <1>12, <1>13, <1>14 DEF HeldInv
<1>16. \A d \in Clients : AnswerInv(d)'
  BY <1>1, <1>10, NoAnswer, SameAnswer DEF PollInv
<1>17. \A d \in Clients : HeldInv(d)'
  BY <1>1, <1>10, <1>15, SameHeld DEF PollInv
<1> QED BY <1>5, <1>6, <1>7, <1>10, <1>16, <1>17 DEF PollInv, AllIds

-----------------------------------------------------------------------------
(* Theorems.                                                               *)

LEMMA PollInitInv == PollInit => PollInv
<1> SUFFICES ASSUME PollInit PROVE PollInv
  OBVIOUS
<1>1. Init /\ Inv
  BY InitHasInv DEF PollInit
<1>2. Ids = {} /\ messageSequence = 0
  BY <1>1, EmptySeq DEF Init, Ids
<1>3. /\ since = [c \in Clients |-> 0]
      /\ copy = [c \in Clients |-> [m \in AllIds |-> Absent]]
      /\ seenReactions = [c \in Clients |-> [m \in AllIds |-> {}]]
      /\ pending = [c \in Clients |-> {}]
      /\ way \in [Clients -> Ways]
  BY DEF PollInit
<1>4. ClientTypes
  <2>1. {} \in SUBSET PendingRow /\ {} \in SUBSET (Reactions \X Users)
    OBVIOUS
  <2> QED BY <1>3, <2>1 DEF ClientTypes
<1>5. \A c \in Clients : AnswerInv(c)
  BY <1>3 DEF AnswerInv, RowsAreNew, BodiesAreCurrent, BodiesAreSent, ReactionsAreSent
<1>6. \A c \in Clients : HeldInv(c)
  BY <1>2, <1>3 DEF HeldInv, CopyIsCurrent, SeenIsCurrent, KnownIsOld
<1> QED BY <1>1, <1>2, <1>4, <1>5, <1>6 DEF PollInv

\* A step is the log's, with the clients as they were, or a client's.
LEMMA PollNextInv ==
    ASSUME PollInv, [PollNext]_pollVars
    PROVE  PollInv'
<1>1. CASE Next /\ UNCHANGED clientVars
  BY <1>1, LogStepInv
<1>2. CASE \E c \in Clients : FetchRows(c)
  BY <1>2, FetchInv
<1>3. CASE \E c \in Clients : Deliver(c)
  BY <1>3, DeliverInv
<1>4. CASE \E c \in Clients : LoseAnswer(c)
  BY <1>4, LoseInv
<1>5. CASE UNCHANGED pollVars
  BY <1>5, LogStepInv DEF pollVars
<1> QED BY <1>1, <1>2, <1>3, <1>4, <1>5 DEF PollNext

\* Polling takes nothing from the log and adds nothing to it: what is proved of the
\* log alone holds of a room that clients follow.
THEOREM PollingIsReading == PollSpec => Spec
<1>1. PollInit => Init
  BY DEF PollInit
<1>2. [PollNext]_pollVars => [Next]_vars
  BY DEF PollNext, pollVars, FetchRows, Deliver, LoseAnswer
<1> QED BY <1>1, <1>2, PTL DEF PollSpec, Spec

\* The invariant of the answers under way and of what clients hold.
THEOREM PollInvHolds == PollSpec => []PollInv
<1>1. PollInv /\ [PollNext]_pollVars => PollInv'
  BY PollNextInv
<1> QED BY PollInitInv, <1>1, PTL DEF PollSpec

\* A client that gets its updates in one answer holds every post, edit and deletion
\* numbered up to its `since` (get_messages_for), whatever is written between the two
\* queries of an answer and whichever answers are lost.
THEOREM CopiesAreCurrent == PollSpec => []CopyCurrent
<1>1. PollInv => CopyCurrent
  BY DEF PollInv, HeldInv, CopyIsCurrent, CopyCurrent, Unpaged
<1> QED BY <1>1, PollInvHolds, PTL

\* A client that asks for reactions, in pages of any size, holds the reactions of every
\* message numbered up to its `since` (get_messages_for and get_reactions).
THEOREM ReactionsAreCurrent == PollSpec => []ReactionsCurrent
<1>1. PollInv => ReactionsCurrent
  BY DEF PollInv, HeldInv, SeenIsCurrent, ReactionsCurrent
<1> QED BY <1>1, PollInvHolds, PTL

\* No client ever holds a message created after its `since`, which is what lets the
\* server keep such deletions from it (not_deleted_clause).
THEOREM NothingIsKnownEarly == PollSpec => []KnownWereCreatedBefore
<1>1. PollInv => KnownWereCreatedBefore
  BY DEF PollInv, HeldInv, KnownIsOld, KnownWereCreatedBefore
<1> QED BY <1>1, PollInvHolds, PTL

=============================================================================
