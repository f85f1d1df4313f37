--------------------------- MODULE MessageLogProofs ---------------------------
(***************************************************************************)
(* What holds of the message log for any users, bodies, reactions and      *)
(* workers, and whatever the bounds.                                       *)
(*                                                                         *)
(* Every step of the log either changes nothing or is Stamped: it moves    *)
(* the counter forward and gives the rows it changes numbers of their own  *)
(* above the old counter.  The invariants, and the implementation of       *)
(* ChangeFeed, follow from Stamped alone.                                  *)
(***************************************************************************)
EXTENDS MessageLog, FiniteSetTheorems, SequenceTheorems, TLAPS

-----------------------------------------------------------------------------
(* The inductive invariant.                                                *)

\* There are finitely many reactions, so that counting them means something.
ReactionsFinite == IsFiniteSet(userReactions)

\* A request that was admitted to something is a user's, and what it was
\* admitted to change the reactions of is a message everyone may see: deleted
\* perhaps, but neither filtered nor a whisper.
WorkInv ==
    \A w \in Workers :
        /\ work[w].kind # "idle" => work[w].user \in Users
        /\ work[w].kind = "react" =>
             LET m == work[w].message
             IN  /\ m \in Ids
                 /\ ~messages[m].filtered
                 /\ messages[m].whisper = NoUser
                 /\ ~messages[m].whisperMods

LogInv ==
    /\ NumbersFollowCounter
    /\ CounterIsTopSeqno
    /\ SeqnosDistinct

Inv ==
    /\ TypeOK
    /\ ReactionsFinite
    /\ WorkInv
    /\ ReactionsOnVisible
    /\ LogInv

-----------------------------------------------------------------------------
(* Stamped steps.                                                          *)

RowFresh(row) ==
    /\ row.seqno = Larger(row.seqnoData, row.seqnoReactions)
    /\ 0 < row.seqnoCreation
    /\ row.seqnoCreation <= row.seqnoData
    /\ messageSequence < row.seqno
    /\ row.seqno <= messageSequence'

SameAudience(row, old) ==
    /\ row.filtered = old.filtered
    /\ row.whisper = old.whisper
    /\ row.whisperMods = old.whisperMods

Stamped ==
    /\ messageSequence' \in Nat
    /\ messageSequence < messageSequence'
    /\ messages' \in Seq(Message)
    /\ Ids \subseteq DOMAIN messages'
    /\ \A m \in Ids : SameAudience(messages'[m], messages[m])
    /\ \A m \in DOMAIN messages' :
         \/ m \in Ids /\ messages'[m] = messages[m] /\ ReactionsOf(m)' = ReactionsOf(m)
         \/ RowFresh(messages'[m])
    /\ \A m, n \in DOMAIN messages' :
         m # n /\ messageSequence < messages'[m].seqno /\ messageSequence < messages'[n].seqno
           => messages'[m].seqno # messages'[n].seqno
    /\ \E m \in DOMAIN messages' : messages'[m].seqno = messageSequence'

Unchanged == UNCHANGED logVars

-----------------------------------------------------------------------------

\* The larger of two numbers is one of them and not below either.
LEMMA LargerFacts ==
    \A a, b \in Nat :
        /\ Larger(a, b) \in Nat
        /\ a <= Larger(a, b)
        /\ b <= Larger(a, b)
        /\ a >= b => Larger(a, b) = a
        /\ b >= a => Larger(a, b) = b
BY DEF Larger

\* The ids of the messages are an initial segment of the numbers.
LEMMA IdsFacts ==
    ASSUME messages \in Seq(Message)
    PROVE  /\ Ids = 1 .. Len(messages)
           /\ Len(messages) \in Nat
           /\ \A m \in Ids : messages[m] \in Message
           /\ messages = << >> <=> Ids = {}
BY EmptySeq DEF Ids

\* The rows of a sequence of messages are messages.
LEMMA RowsOfSeq ==
    ASSUME NEW s \in Seq(Message), NEW m \in DOMAIN s
    PROVE  s[m] \in Message
BY LenProperties, ElementOfSeq

\* A stamped step keeps the numbering of the log in order.
LEMMA StampedKeepsLog ==
    ASSUME TypeOK, LogInv, Stamped
    PROVE  LogInv'
<1>1. \A m \in DOMAIN messages' :
        \/ m \in Ids /\ messages'[m] = messages[m]
        \/ RowFresh(messages'[m])
  BY DEF Stamped
<1>2. /\ messageSequence \in Nat /\ messageSequence' \in Nat
      /\ messageSequence < messageSequence'
  BY DEF TypeOK, Stamped
<1>3. \A m \in Ids : messages[m].seqno \in Nat /\ messages[m].seqno <= messageSequence
  BY IdsFacts DEF TypeOK, LogInv, NumbersFollowCounter, Message
<1>4. \A m \in DOMAIN messages' : messages'[m].seqno \in Nat
  BY RowsOfSeq DEF Stamped, Message
<1>5. NumbersFollowCounter'
  <2> SUFFICES ASSUME NEW m \in DOMAIN messages'
               PROVE  /\ messages'[m].seqno =
                           Larger(messages'[m].seqnoData, messages'[m].seqnoReactions)
                      /\ 0 < messages'[m].seqnoCreation
                      /\ messages'[m].seqnoCreation <= messages'[m].seqnoData
                      /\ messages'[m].seqno <= messageSequence'
    BY DEF NumbersFollowCounter, Ids, Larger
  <2>1. CASE RowFresh(messages'[m])
    BY <2>1 DEF RowFresh
  <2>2. CASE m \in Ids /\ messages'[m] = messages[m]
    BY <2>2, <1>2, <1>3 DEF LogInv, NumbersFollowCounter
  <2> QED BY <1>1, <2>1, <2>2
<1>6. CounterIsTopSeqno'
  <2>1. PICK m \in DOMAIN messages' : messages'[m].seqno = messageSequence'
    BY DEF Stamped
  <2>2. messages' # << >>
    BY <2>1
  <2> QED BY <2>1, <2>2 DEF CounterIsTopSeqno, Ids
<1>7. SeqnosDistinct'
  <2> SUFFICES ASSUME NEW m \in DOMAIN messages', NEW n \in DOMAIN messages', m # n
               PROVE  messages'[m].seqno # messages'[n].seqno
    BY DEF SeqnosDistinct, Ids
  <2>1. CASE RowFresh(messages'[m]) /\ RowFresh(messages'[n])
    BY <2>1 DEF Stamped, RowFresh
  <2>2. CASE RowFresh(messages'[m]) /\ n \in Ids /\ messages'[n] = messages[n]
    BY <2>2, <1>2, <1>3, <1>4 DEF RowFresh
  <2>3. CASE RowFresh(messages'[n]) /\ m \in Ids /\ messages'[m] = messages[m]
    BY <2>3, <1>2, <1>3, <1>4 DEF RowFresh
  <2>4. CASE /\ m \in Ids /\ messages'[m] = messages[m]
             /\ n \in Ids /\ messages'[n] = messages[n]
    BY <2>4 DEF LogInv, SeqnosDistinct
  <2> QED BY <1>1, <2>1, <2>2, <2>3, <2>4
<1> QED BY <1>5, <1>6, <1>7 DEF LogInv

-----------------------------------------------------------------------------
(* Each operation of the log is stamped, or changes nothing.               *)

\* A new row is a message.
LEMMA NewMessageType ==
    ASSUME TypeOK, NEW u \in Users \cup {ServerUser}, NEW d \in Data \cup {ReplyBody},
           NEW f \in BOOLEAN, NEW whisper \in Users \cup {NoUser}, NEW mods \in BOOLEAN
    PROVE  NewMessage(u, d, f, whisper, mods) \in Message
BY DEF TypeOK, NewMessage, Message

\* An insertion is stamped.
LEMMA InsertStamped ==
    ASSUME TypeOK, LogInv, ReactionsFinite,
           NEW u \in Users \cup {ServerUser}, NEW d \in Data \cup {ReplyBody},
           NEW f \in BOOLEAN, NEW whisper \in Users \cup {NoUser}, NEW mods \in BOOLEAN,
           Insert(NewMessage(u, d, f, whisper, mods))
    PROVE  Stamped
<1> DEFINE row == NewMessage(u, d, f, whisper, mods)
<1>1. row \in Message
  BY NewMessageType
<1>2. /\ messageSequence \in Nat
      /\ messageSequence' = messageSequence + 1
      /\ messages \in Seq(Message)
      /\ messages' = Append(messages, row)
      /\ userReactions' = userReactions
  BY DEF TypeOK, Insert
<1>3. /\ row.seqno = messageSequence + 1
      /\ row.seqnoData = messageSequence + 1
      /\ row.seqnoReactions = 0
      /\ row.seqnoCreation = messageSequence + 1
  BY DEF NewMessage
<1> HIDE DEF row
<1>4. /\ messages' \in Seq(Message)
      /\ Len(messages) \in Nat
      /\ Ids = 1 .. Len(messages)
      /\ DOMAIN messages' = 1 .. Len(messages) + 1
      /\ \A m \in Ids : messages'[m] = messages[m]
      /\ messages'[Len(messages) + 1] = row
  BY <1>1, <1>2, IdsFacts
<1>5. \A m \in Ids : messages[m].seqno \in Nat /\ messages[m].seqno <= messageSequence
  BY IdsFacts DEF TypeOK, LogInv, NumbersFollowCounter, Message
<1>6. RowFresh(row)
  BY <1>2, <1>3, LargerFacts DEF RowFresh
<1>7. \A m \in Ids : SameAudience(messages'[m], messages[m])
  BY <1>4 DEF SameAudience
<1>8. \A m \in DOMAIN messages' : m \in Ids \/ m = Len(messages) + 1
  BY <1>4
<1>9. \A m, n \in DOMAIN messages' :
        m # n /\ messageSequence < messages'[m].seqno /\ messageSequence < messages'[n].seqno
          => messages'[m].seqno # messages'[n].seqno
  BY <1>2, <1>4, <1>5, <1>8
<1>10. \A m : ReactionsOf(m)' = ReactionsOf(m)
  BY <1>2 DEF ReactionsOf
<1> QED BY <1>2, <1>3, <1>4, <1>6, <1>7, <1>8, <1>9, <1>10 DEF Stamped

\* Giving one message a row numbered at the new counter is stamped, if the
\* other messages keep their reactions.
LEMMA RestampStamped ==
    ASSUME TypeOK, LogInv, NEW m \in Ids, NEW row \in Message,
           messageSequence' \in Nat, messageSequence < messageSequence',
           messages' = [messages EXCEPT ![m] = row],
           RowFresh(row), row.seqno = messageSequence', SameAudience(row, messages[m]),
           \A n \in Ids : n # m => ReactionsOf(n)' = ReactionsOf(n)
    PROVE  Stamped
<1>1. /\ messages \in Seq(Message)
      /\ Ids = 1 .. Len(messages)
  BY IdsFacts DEF TypeOK
<1>2. /\ messages' \in Seq(Message)
      /\ Len(messages') = Len(messages)
      /\ \A n \in 1 .. Len(messages) : messages'[n] = IF n = m THEN row ELSE messages[n]
  BY <1>1, ExceptSeq
<1>3. DOMAIN messages' = Ids
  BY <1>1, <1>2, LenProperties
<1>4. \A n \in Ids : messages[n].seqno \in Nat /\ messages[n].seqno <= messageSequence
  BY IdsFacts DEF TypeOK, LogInv, NumbersFollowCounter, Message
<1>5. messageSequence \in Nat
  BY DEF TypeOK
<1>6. \A n \in Ids : SameAudience(messages'[n], messages[n])
  BY <1>1, <1>2 DEF SameAudience
<1>7. \A n \in DOMAIN messages' :
        \/ n \in Ids /\ messages'[n] = messages[n] /\ ReactionsOf(n)' = ReactionsOf(n)
        \/ RowFresh(messages'[n])
  BY <1>1, <1>2, <1>3
<1>8. \A i, j \in DOMAIN messages' :
        i # j /\ messageSequence < messages'[i].seqno /\ messageSequence < messages'[j].seqno
          => messages'[i].seqno # messages'[j].seqno
  BY <1>1, <1>2, <1>3, <1>4, <1>5
<1>9. \E n \in DOMAIN messages' : messages'[n].seqno = messageSequence'
  BY <1>1, <1>2, <1>3
<1> QED BY <1>2, <1>3, <1>6, <1>7, <1>8, <1>9 DEF Stamped

\* The numbers of a row are in order below the counter.
LEMMA RowFacts ==
    ASSUME TypeOK, LogInv, NEW m \in Ids
    PROVE  /\ messages[m] \in Message
           /\ messageSequence \in Nat
           /\ messages[m].seqno \in Nat /\ messages[m].seqno <= messageSequence
           /\ messages[m].seqnoData \in Nat /\ messages[m].seqnoData <= messageSequence
           /\ messages[m].seqnoReactions \in Nat /\ messages[m].seqnoReactions <= messageSequence
           /\ messages[m].seqnoCreation \in Nat /\ 0 < messages[m].seqnoCreation
           /\ messages[m].seqnoCreation <= messages[m].seqnoData
<1>1. messages[m] \in Message /\ messageSequence \in Nat
  BY IdsFacts DEF TypeOK
<1>2. /\ messages[m].seqno \in Nat
      /\ messages[m].seqnoData \in Nat
      /\ messages[m].seqnoReactions \in Nat
      /\ messages[m].seqnoCreation \in Nat
  BY <1>1 DEF Message
<1>3. /\ messages[m].seqno = Larger(messages[m].seqnoData, messages[m].seqnoReactions)
      /\ messages[m].seqno <= messageSequence
      /\ 0 < messages[m].seqnoCreation
      /\ messages[m].seqnoCreation <= messages[m].seqnoData
  BY DEF LogInv, NumbersFollowCounter
<1>4. /\ messages[m].seqnoData <= messages[m].seqno
      /\ messages[m].seqnoReactions <= messages[m].seqno
  BY <1>2, <1>3 DEF Larger
<1> QED BY <1>1, <1>2, <1>3, <1>4

\* A changed body at the new counter is a fresh row for the same audience.
LEMMA WithDataFresh ==
    ASSUME TypeOK, LogInv, NEW m \in Ids, NEW d \in Data \cup {ReplyBody, NoData}, NEW n \in Nat,
           messageSequence < n, n <= messageSequence', messageSequence' \in Nat
    PROVE  LET row == WithData(messages[m], d, n)
           IN  /\ row \in Message
               /\ row.seqno = n
               /\ row.seqnoData = n
               /\ row.seqnoReactions = messages[m].seqnoReactions
               /\ row.seqnoCreation = messages[m].seqnoCreation
               /\ RowFresh(row)
               /\ SameAudience(row, messages[m])
<1>1. messages[m] \in Message
  BY RowFacts
<1>2. /\ messages[m].seqnoReactions \in Nat /\ messages[m].seqnoReactions <= n
      /\ messages[m].seqnoCreation \in Nat /\ messages[m].seqnoCreation <= n
      /\ 0 < messages[m].seqnoCreation
  BY RowFacts
<1>3. Larger(n, messages[m].seqnoReactions) = n
  BY <1>2, LargerFacts
<1> DEFINE row == WithData(messages[m], d, n)
<1>4. /\ row \in Message
      /\ row.seqno = n /\ row.seqnoData = n
      /\ row.seqnoReactions = messages[m].seqnoReactions
      /\ row.seqnoCreation = messages[m].seqnoCreation
      /\ SameAudience(row, messages[m])
  BY <1>1, <1>3 DEF WithData, Message, SameAudience
<1>5. RowFresh(row)
  BY <1>2, <1>3, <1>4 DEF RowFresh
<1> QED BY <1>4, <1>5

\* Changed reactions at the new counter make a fresh row for the same audience.
LEMMA WithReactionFresh ==
    ASSUME NEW old \in Message, NEW n \in Nat, messageSequence \in Nat,
           messageSequence < n, n <= messageSequence', messageSequence' \in Nat,
           old.seqnoData <= n, 0 < old.seqnoCreation, old.seqnoCreation <= old.seqnoData
    PROVE  LET row == WithReactionAt(old, n)
           IN  /\ row \in Message
               /\ row.seqno = n
               /\ RowFresh(row)
               /\ SameAudience(row, old)
<1>1. old.seqnoData \in Nat /\ Larger(old.seqnoData, n) = n
  BY LargerFacts DEF Message
<1> DEFINE row == WithReactionAt(old, n)
<1>2. /\ row \in Message
      /\ row.seqno = n /\ row.seqnoReactions = n
      /\ row.seqnoData = old.seqnoData
      /\ row.seqnoCreation = old.seqnoCreation
      /\ SameAudience(row, old)
  BY <1>1 DEF WithReactionAt, Message, SameAudience
<1>3. RowFresh(row)
  BY <1>1, <1>2 DEF RowFresh
<1> QED BY <1>2, <1>3

\* A set of the reactions of a log with finitely many is counted by a number,
\* which is zero only for none.
LEMMA ReactionCount ==
    ASSUME ReactionsFinite, NEW S \in SUBSET userReactions
    PROVE  /\ IsFiniteSet(S)
           /\ Cardinality(S) \in Nat
           /\ Cardinality(S) = 0 <=> S = {}
           /\ IsFiniteSet(userReactions \ S)
BY FS_Subset, FS_CardinalityType, FS_EmptySet DEF ReactionsFinite

\* Removing reactions of a message is stamped, or there were none to remove.
LEMMA RemoveReactionsStamped ==
    ASSUME TypeOK, LogInv, ReactionsFinite, NEW m \in Ids,
           NEW gone \in SUBSET ReactionsOf(m), RemoveReactions(m, gone)
    PROVE  Stamped \/ Unchanged
<1> DEFINE top == messageSequence + Cardinality(gone)
<1>1. /\ gone \subseteq userReactions
      /\ Cardinality(gone) \in Nat
      /\ Cardinality(gone) = 0 <=> gone = {}
  BY ReactionCount DEF ReactionsOf
<1>2. /\ messageSequence \in Nat /\ top \in Nat
      /\ messageSequence' = top
      /\ userReactions' = userReactions \ gone
  BY <1>1 DEF TypeOK, RemoveReactions
<1>3. CASE gone = {}
  BY <1>1, <1>2, <1>3 DEF RemoveReactions, Unchanged, logVars
<1>4. CASE gone # {}
  <2> DEFINE row == WithReactionAt(messages[m], top)
  <2>1. messageSequence < messageSequence' /\ messages' = [messages EXCEPT ![m] = row]
    BY <1>1, <1>2, <1>4 DEF RemoveReactions
  <2>2. /\ messages[m] \in Message
        /\ messages[m].seqnoData <= top
        /\ 0 < messages[m].seqnoCreation
        /\ messages[m].seqnoCreation <= messages[m].seqnoData
    BY <1>2, <2>1, RowFacts
  <2>3. /\ row \in Message /\ row.seqno = top
        /\ RowFresh(row) /\ SameAudience(row, messages[m])
    BY <1>2, <2>1, <2>2, WithReactionFresh
  <2>4. \A n \in Ids : n # m => ReactionsOf(n)' = ReactionsOf(n)
    BY <1>2 DEF ReactionsOf
  <2> QED BY <1>2, <2>1, <2>3, <2>4, RestampStamped
<1> QED BY <1>3, <1>4

\* Deleting messages is stamped, or there were none to delete.
LEMMA DeleteMessagesStamped ==
    ASSUME TypeOK, LogInv, ReactionsFinite, NEW doomed \in SUBSET Ids, DeleteMessages(doomed)
    PROVE  Stamped \/ Unchanged
<1> DEFINE gone == {x \in userReactions : x[1] \in doomed}
           count(m) == Cardinality(ReactionsOf(m))
           top == messageSequence + Cardinality(doomed) + Cardinality(gone)
           row(m, n) == IF count(m) = 0 THEN WithData(messages[m], NoData, n)
                        ELSE WithReactionAt(WithData(messages[m], NoData, n), n + count(m))
<1>1. /\ messages \in Seq(Message)
      /\ Ids = 1 .. Len(messages) /\ Len(messages) \in Nat
      /\ messageSequence \in Nat
  BY IdsFacts DEF TypeOK
<1>2. /\ IsFiniteSet(doomed)
      /\ Cardinality(doomed) \in Nat
      /\ Cardinality(doomed) = 0 <=> doomed = {}
  <2>1. IsFiniteSet(Ids)
    BY <1>1, FS_Interval
  <2> QED BY <2>1, FS_Subset, FS_CardinalityType, FS_EmptySet
<1>3. Cardinality(gone) \in Nat /\ (gone = {} => Cardinality(gone) = 0)
  BY ReactionCount
<1>4. \A m : count(m) \in Nat
  BY ReactionCount DEF ReactionsOf
<1> HIDE DEF gone, count
<1>5. top \in Nat /\ (doomed # {} => messageSequence < top)
  <2>1. \A a, b, c \in Nat : a + b + c \in Nat /\ (b # 0 => a < a + b + c)
    OBVIOUS
  <2> HIDE DEF row
  <2> QED BY <1>1, <1>2, <1>3, <2>1, Zenon
<1>6. /\ messageSequence' = top
      /\ userReactions' = userReactions \ gone
  BY DEF DeleteMessages, gone
<1>7. PICK first \in [doomed -> (messageSequence + 1) .. top] :
        /\ \A m, n \in doomed : m # n =>
             \/ first[m] + count(m) < first[n]
             \/ first[n] + count(n) < first[m]
        /\ doomed # {} => \E last \in doomed : first[last] + count(last) = top
        /\ messages' = [m \in Ids |-> IF m \notin doomed THEN messages[m]
                                      ELSE row(m, first[m])]
  BY Zenon DEF DeleteMessages, gone, count
<1>8. \A m \in doomed : first[m] \in Nat /\ messageSequence < first[m]
  BY <1>1, <1>5, <1>7
<1> HIDE DEF top
<1>9. CASE doomed = {}
  <2>1. gone = {}
    BY <1>9 DEF gone
  <2>2. messages' = messages
    <3>1. messages' = [m \in Ids |-> messages[m]]
      BY <1>7, <1>9
    <3> QED BY <1>1, <3>1, LenProperties DEF Ids
  <2> QED BY <1>1, <1>2, <1>3, <1>6, <1>9, <2>1, <2>2 DEF Unchanged, logVars, top
<1>10. CASE doomed # {}
  <2>1. \A m \in doomed : first[m] + count(m) <= top
    <3>1. PICK last \in doomed : first[last] + count(last) = top
      BY <1>7, <1>10
    <3> QED BY <1>4, <1>5, <1>7, <1>8, <3>1
  <2>2. \A m \in doomed :
          /\ row(m, first[m]) \in Message
          /\ row(m, first[m]).seqno = first[m] + count(m)
          /\ RowFresh(row(m, first[m]))
          /\ SameAudience(row(m, first[m]), messages[m])
    <3> SUFFICES ASSUME NEW m \in doomed
                 PROVE  /\ row(m, first[m]) \in Message
                        /\ row(m, first[m]).seqno = first[m] + count(m)
                        /\ RowFresh(row(m, first[m]))
                        /\ SameAudience(row(m, first[m]), messages[m])
      OBVIOUS
    <3> DEFINE plain == WithData(messages[m], NoData, first[m])
    <3>1. /\ first[m] \in Nat /\ count(m) \in Nat
          /\ messageSequence < first[m] /\ first[m] + count(m) <= messageSequence'
          /\ messageSequence' \in Nat /\ messageSequence \in Nat
      BY <1>1, <1>4, <1>5, <1>6, <1>8, <2>1
    <3>2. /\ plain \in Message
          /\ plain.seqno = first[m]
          /\ plain.seqnoData = first[m]
          /\ plain.seqnoCreation = messages[m].seqnoCreation
          /\ RowFresh(plain)
          /\ SameAudience(plain, messages[m])
      <4>1. /\ m \in Ids /\ first[m] <= messageSequence'
            /\ NoData \in Data \cup {ReplyBody, NoData}
        BY <3>1
      <4> HIDE DEF row
      <4> QED BY <3>1, <4>1, WithDataFresh
    <3> HIDE DEF plain
    <3>3. 0 < plain.seqnoCreation /\ plain.seqnoCreation <= plain.seqnoData
      BY <3>2 DEF RowFresh
    <3>4. CASE count(m) = 0
      BY <3>1, <3>2, <3>4 DEF plain
    <3>5. CASE count(m) # 0
      <4> DEFINE full == WithReactionAt(plain, first[m] + count(m))
      <4>1. /\ first[m] + count(m) \in Nat
            /\ messageSequence < first[m] + count(m)
            /\ plain.seqnoData <= first[m] + count(m)
        BY <3>1, <3>2
      <4>2. /\ full \in Message /\ full.seqno = first[m] + count(m)
            /\ RowFresh(full) /\ SameAudience(full, plain)
        BY <3>1, <3>2, <3>3, <4>1, WithReactionFresh
      <4>3. full = row(m, first[m])
        BY <3>5 DEF plain
      <4> HIDE DEF full
      <4> QED BY <3>2, <4>2, <4>3 DEF SameAudience
    <3> QED BY <3>4, <3>5
  <2> HIDE DEF row
  <2>3. /\ DOMAIN messages' = Ids
        /\ messages' \in Seq(Message)
        /\ \A m \in Ids : messages'[m] = IF m \notin doomed THEN messages[m]
                                         ELSE row(m, first[m])
    <3>1. \A m \in Ids : messages[m] \in Message
      BY IdsFacts, <1>1
    <3> QED BY <1>1, <1>7, <2>2, <3>1
  <2>4. \A m \in Ids : SameAudience(messages'[m], messages[m])
    BY <2>2, <2>3 DEF SameAudience
  <2>5. \A m \in Ids : m \notin doomed => ReactionsOf(m)' = ReactionsOf(m)
    BY <1>6 DEF ReactionsOf, gone
  <2>6. \A m, n \in DOMAIN messages' :
          m # n /\ messageSequence < messages'[m].seqno /\ messageSequence < messages'[n].seqno
            => messages'[m].seqno # messages'[n].seqno
    <3>1. \A m \in Ids \ doomed : ~(messageSequence < messages'[m].seqno)
      BY <2>3, RowFacts
    <3>2. \A m, n \in doomed : m # n => messages'[m].seqno # messages'[n].seqno
      <4> SUFFICES ASSUME NEW m \in doomed, NEW n \in doomed, m # n
                   PROVE  first[m] + count(m) # first[n] + count(n)
        BY <2>2, <2>3
      <4> QED BY <1>4, <1>7, <1>8
    <3> QED BY <2>3, <3>1, <3>2
  <2>7. \E m \in DOMAIN messages' : messages'[m].seqno = messageSequence'
    BY <1>6, <1>7, <1>10, <2>2, <2>3
  <2>8. messageSequence' \in Nat /\ messageSequence < messageSequence'
    BY <1>5, <1>6, <1>10
  <2> QED BY <2>2, <2>3, <2>4, <2>5, <2>6, <2>7, <2>8 DEF Stamped
<1> QED BY <1>9, <1>10

\* An edit is stamped, or leaves the body as it was.
LEMMA EditPostStamped ==
    ASSUME TypeOK, LogInv, NEW w \in Workers, NEW m \in Ids, NEW d \in Data, EditPost(w, m, d)
    PROVE  Stamped \/ Unchanged
<1> DEFINE row == WithData(messages[m], d, messageSequence + 1)
<1>1. messageSequence \in Nat /\ userReactions' = userReactions
  BY DEF TypeOK, EditPost
<1>2. CASE UNCHANGED <<messageSequence, messages>>
  BY <1>1, <1>2 DEF Unchanged, logVars
<1>3. CASE /\ messageSequence' = messageSequence + 1
           /\ messages' = [messages EXCEPT ![m] = row]
  <2>1. /\ messageSequence' \in Nat /\ messageSequence + 1 \in Nat
        /\ messageSequence < messageSequence + 1 /\ messageSequence + 1 <= messageSequence'
        /\ d \in Data \cup {ReplyBody, NoData}
    BY <1>1, <1>3
  <2>2. /\ row \in Message
        /\ row.seqno = messageSequence + 1
        /\ RowFresh(row) /\ SameAudience(row, messages[m])
    BY <2>1, WithDataFresh
  <2>3. \A n \in Ids : n # m => ReactionsOf(n)' = ReactionsOf(n)
    BY <1>1 DEF ReactionsOf
  <2> HIDE DEF row
  <2> QED BY <1>1, <1>3, <2>1, <2>2, <2>3, RestampStamped
<1> QED BY <1>2, <1>3 DEF EditPost

\* A reaction is stamped, or was there already.
LEMMA AddReactionStamped ==
    ASSUME TypeOK, LogInv, WorkInv, NEW w \in Workers, NEW r \in Reactions, AddReaction(w, r)
    PROVE  Stamped \/ Unchanged
<1> DEFINE m == work[w].message
           added == <<m, r, work[w].user>>
           row == WithReactionAt(messages[m], messageSequence + 1)
<1>1. messageSequence \in Nat /\ m \in Ids
  BY DEF TypeOK, WorkInv, AddReaction
<1>2. CASE UNCHANGED <<userReactions, messageSequence, messages>>
  BY <1>2 DEF Unchanged, logVars
<1>3. CASE /\ messageSequence' = messageSequence + 1
           /\ messages' = [messages EXCEPT ![m] = row]
           /\ userReactions' = userReactions \cup {added}
  <2>1. /\ messageSequence' \in Nat /\ messageSequence + 1 \in Nat
        /\ messageSequence < messageSequence + 1 /\ messageSequence + 1 <= messageSequence'
    BY <1>1, <1>3
  <2>2. /\ messages[m] \in Message
        /\ messages[m].seqnoData <= messageSequence + 1
        /\ 0 < messages[m].seqnoCreation
        /\ messages[m].seqnoCreation <= messages[m].seqnoData
    BY <1>1, RowFacts
  <2>3. /\ row \in Message
        /\ row.seqno = messageSequence + 1
        /\ RowFresh(row) /\ SameAudience(row, messages[m])
    BY <1>1, <2>1, <2>2, WithReactionFresh
  <2>4. \A n \in Ids : n # m => ReactionsOf(n)' = ReactionsOf(n)
    BY <1>3 DEF ReactionsOf
  <2> HIDE DEF row, m
  <2> QED BY <1>1, <1>3, <2>1, <2>3, <2>4, RestampStamped
<1> QED BY <1>2, <1>3 DEF AddReaction

-----------------------------------------------------------------------------
(* What any step does to the log, to the reactions and to the workers.     *)

\* Reactions only go, but for one that a worker was admitted to add.
ReactionStep ==
    \/ userReactions' \subseteq userReactions
    \/ \E w \in Workers, r \in Reactions :
         /\ work[w].kind = "react"
         /\ userReactions' = userReactions \cup {<<work[w].message, r, work[w].user>>}

\* A worker is admitted to change the reactions of regular messages only.
WorkStep ==
    \/ work' = work
    \/ \E w \in Workers, a \in Admission :
         /\ work' = [work EXCEPT ![w] = a]
         /\ a.kind # "idle" => a.user \in Users
         /\ a.kind = "react" => IsRegular(a.message) /\ Unchanged

StepShape ==
    /\ Stamped \/ Unchanged
    /\ ReactionStep
    /\ WorkStep
    /\ banned' \subseteq Users

\* A request that ends leaves its worker idle.
LEMMA DoneIsWorkStep ==
    ASSUME NEW w \in Workers, Done(w)
    PROVE  WorkStep
<1>1. Idle \in Admission
  BY DEF Idle, Admission, NoMessage
<1>2. Idle.kind = "idle"
  BY DEF Idle
<1> QED BY <1>1, <1>2, Zenon DEF Done, WorkStep

\* An admission of a user's request, to a regular message if to reactions.
LEMMA AdmitIsWorkStep ==
    ASSUME NEW w \in Workers, NEW kind \in {"write", "react", "reply"},
           NEW u \in Users, NEW m \in Nat, Admit(w, kind, u, m),
           kind = "react" => IsRegular(m) /\ Unchanged
    PROVE  WorkStep
<1> DEFINE a == [kind |-> kind, user |-> u, message |-> m]
<1>1. a \in Admission /\ a.kind = kind /\ a.user = u /\ a.message = m
  BY DEF Admission
<1>2. work' = [work EXCEPT ![w] = a]
  BY DEF Admit
<1> HIDE DEF a
<1> QED BY <1>1, <1>2 DEF WorkStep

\* Posting a filter's reply to a user is stamped and adds no reaction.
LEMMA ReplyToStamped ==
    ASSUME TypeOK, LogInv, ReactionsFinite, NEW u \in Users, ReplyTo(u)
    PROVE  Stamped /\ userReactions' = userReactions
<1> DEFINE to == IF FilterReply = "public" THEN NoUser ELSE u
<1>1. /\ ServerUser \in Users \cup {ServerUser}
      /\ ReplyBody \in Data \cup {ReplyBody}
      /\ to \in Users \cup {NoUser}
  OBVIOUS
<1>2. Insert(NewMessage(ServerUser, ReplyBody, FALSE, to, FALSE))
  BY DEF ReplyTo
<1> HIDE DEF to
<1>3. Stamped
  BY <1>1, <1>2, InsertStamped
<1> QED BY <1>2, <1>3 DEF Insert

\* Every step has the shape above.
LEMMA NextHasShape ==
    ASSUME Inv, Next
    PROVE  StepShape
<1>0. /\ TypeOK /\ LogInv /\ ReactionsFinite /\ WorkInv /\ banned \subseteq Users
      /\ 0 \in Nat /\ NoMessage \in Nat /\ Ids = 1 .. Len(messages) /\ Len(messages) \in Nat
  BY IdsFacts DEF Inv, TypeOK, NoMessage
<1>1. ASSUME NEW w \in Workers, NEW u \in Users, CheckWrite(w, u)
      PROVE  StepShape
  <2>1. Unchanged /\ ReactionStep /\ banned' = banned
    BY <1>1 DEF CheckWrite, Unchanged, ReactionStep, logVars
  <2>2. WorkStep
    BY <1>0, <1>1, AdmitIsWorkStep DEF CheckWrite
  <2> QED BY <1>0, <2>1, <2>2 DEF StepShape
<1>2. ASSUME NEW w \in Workers, NEW u \in Users, NEW m \in Ids, CheckReaction(w, u, m)
      PROVE  StepShape
  <2>1. Unchanged /\ ReactionStep /\ banned' = banned
    BY <1>2 DEF CheckReaction, Unchanged, ReactionStep, logVars
  <2>2. m \in Nat /\ IsRegular(m) /\ Admit(w, "react", u, m)
    BY <1>0, <1>2 DEF CheckReaction
  <2>3. WorkStep
    BY <2>1, <2>2, AdmitIsWorkStep
  <2> QED BY <1>0, <2>1, <2>3 DEF StepShape
<1>3. ASSUME NEW w \in Workers, Abandon(w)
      PROVE  StepShape
  <2>1. Unchanged /\ ReactionStep /\ banned' = banned /\ Done(w)
    BY <1>3 DEF Abandon, Unchanged, ReactionStep, logVars
  <2> QED BY <1>0, <2>1, DoneIsWorkStep DEF StepShape
<1>4. ASSUME NEW w \in Workers, NEW d \in Data, NEW whisper \in Users \cup {NoUser},
             NEW whisperMods \in BOOLEAN, AddPost(w, d, whisper, whisperMods)
      PROVE  StepShape
  <2> DEFINE u == work[w].user
             filtered == Trips(u, d)
  <2>1. u \in Users
    BY <1>0, <1>4 DEF AddPost, WorkInv
  <2>2. /\ Insert(NewMessage(u, d, filtered, whisper, whisperMods))
        /\ Admit(w, "reply", u, NoMessage) \/ Done(w)
        /\ banned' = banned
    BY <1>4 DEF AddPost
  <2>3. filtered \in BOOLEAN
    BY DEF Trips
  <2> HIDE DEF u, filtered
  <2>4. Stamped
    BY <1>0, <2>1, <2>2, <2>3, InsertStamped
  <2>5. ReactionStep
    BY <2>2 DEF Insert, ReactionStep
  <2>6. WorkStep
    BY <1>0, <2>1, <2>2, DoneIsWorkStep, AdmitIsWorkStep
  <2> QED BY <1>0, <2>2, <2>4, <2>5, <2>6 DEF StepShape
<1>5. ASSUME NEW w \in Workers, PostFilterReply(w)
      PROVE  StepShape
  <2>1. /\ work[w].user \in Users /\ ReplyTo(work[w].user)
        /\ Done(w) /\ banned' = banned
    BY <1>0, <1>5 DEF PostFilterReply, WorkInv
  <2>2. Stamped /\ userReactions' = userReactions
    BY <1>0, <2>1, ReplyToStamped
  <2> QED BY <1>0, <2>1, <2>2, DoneIsWorkStep DEF StepShape, ReactionStep
<1>6. ASSUME NEW w \in Workers, NEW d \in Data, RejectByFilter(w, d)
      PROVE  StepShape
  <2>1. /\ work[w].user \in Users /\ ReplyTo(work[w].user)
        /\ Done(w) /\ banned' = banned
    BY <1>0, <1>6 DEF RejectByFilter, WorkInv
  <2>2. Stamped /\ userReactions' = userReactions
    BY <1>0, <2>1, ReplyToStamped
  <2> QED BY <1>0, <2>1, <2>2, DoneIsWorkStep DEF StepShape, ReactionStep
<1>7. ASSUME NEW w \in Workers, NEW m \in Ids, NEW d \in Data, EditPost(w, m, d)
      PROVE  StepShape
  <2>1. Done(w) /\ banned' = banned /\ userReactions' = userReactions
    BY <1>7 DEF EditPost
  <2>2. Stamped \/ Unchanged
    BY <1>0, <1>7, EditPostStamped
  <2> QED BY <1>0, <2>1, <2>2, DoneIsWorkStep DEF StepShape, ReactionStep
<1>8. ASSUME NEW w \in Workers, NEW ids \in SUBSET Ids, DeletePosts(w, ids)
      PROVE  StepShape
  <2> DEFINE doomed == {m \in ids : messages[m].data # NoData}
  <2>1. Done(w) /\ banned' = banned /\ doomed \in SUBSET Ids /\ DeleteMessages(doomed)
    BY <1>8 DEF DeletePosts
  <2> HIDE DEF doomed
  <2>2. Stamped \/ Unchanged
    BY <1>0, <2>1, DeleteMessagesStamped
  <2>3. ReactionStep
    BY <2>1 DEF DeleteMessages, ReactionStep
  <2> QED BY <1>0, <2>1, <2>2, <2>3, DoneIsWorkStep DEF StepShape
<1>9. ASSUME NEW w \in Workers, NEW r \in Reactions, AddReaction(w, r)
      PROVE  StepShape
  <2>1. Done(w) /\ banned' = banned
    BY <1>9 DEF AddReaction
  <2>2. Stamped \/ Unchanged
    BY <1>0, <1>9, AddReactionStamped
  <2>3. ReactionStep
    BY <1>9 DEF AddReaction, ReactionStep
  <2> QED BY <1>0, <2>1, <2>2, <2>3, DoneIsWorkStep DEF StepShape
<1>10. ASSUME NEW w \in Workers, NEW gone \in SUBSET ReactionsOf(work[w].message),
              work[w].kind = "react", RemoveReactions(work[w].message, gone),
              Done(w), banned' = banned
       PROVE  StepShape
  <2>1. work[w].message \in Ids
    BY <1>0, <1>10 DEF WorkInv
  <2>2. Stamped \/ Unchanged
    BY <1>0, <1>10, <2>1, RemoveReactionsStamped
  <2>3. ReactionStep
    BY <1>10 DEF RemoveReactions, ReactionStep
  <2> QED BY <1>0, <1>10, <2>2, <2>3, DoneIsWorkStep DEF StepShape
<1>11. ASSUME NEW w \in Workers, NEW r \in Reactions, DeleteReaction(w, r)
       PROVE  StepShape
  BY <1>10, <1>11 DEF DeleteReaction
<1>12. ASSUME NEW w \in Workers, NEW which \in {Reactions} \cup {{r} : r \in Reactions},
              DeleteAllReactions(w, which)
       PROVE  StepShape
  BY <1>10, <1>12 DEF DeleteAllReactions
<1>13. ASSUME NEW deleter \in Users, NEW poster \in Users, DeleteAllPosts(deleter, poster)
       PROVE  StepShape
  <2> DEFINE doomed == {m \in Ids : messages[m].user = poster /\ messages[m].data # NoData}
  <2>1. work' = work /\ banned' = banned /\ doomed \in SUBSET Ids /\ DeleteMessages(doomed)
    BY <1>13 DEF DeleteAllPosts
  <2> HIDE DEF doomed
  <2>2. Stamped \/ Unchanged
    BY <1>0, <2>1, DeleteMessagesStamped
  <2>3. ReactionStep
    BY <2>1 DEF DeleteMessages, ReactionStep
  <2> QED BY <1>0, <2>1, <2>2, <2>3 DEF StepShape, WorkStep
<1>14. ASSUME NEW u \in Users, Ban(u) \/ Unban(u)
       PROVE  StepShape
  BY <1>0, <1>14 DEF Ban, Unban, StepShape, ReactionStep, WorkStep, Unchanged, logVars
<1>15. ASSUME NEW w \in Workers, Request(w)
       PROVE  StepShape
  BY <1>1, <1>2, <1>3, <1>4, <1>5, <1>6, <1>7, <1>8, <1>9, <1>11, <1>12, <1>15, Zenon DEF Request
<1> QED BY <1>13, <1>14, <1>15, Zenon DEF Next

-----------------------------------------------------------------------------
(* The invariant.                                                          *)

\* The empty log has it.
LEMMA InitHasInv ==
    Init => Inv
<1> SUFFICES ASSUME Init PROVE Inv
  OBVIOUS
<1>1. messages = << >> /\ Ids = {} /\ userReactions = {} /\ banned = {} /\ messageSequence = 0
  BY EmptySeq DEF Init, Ids
<1>2. Idle \in Admission /\ Idle.kind = "idle"
  BY DEF Idle, Admission, NoMessage
<1>3. work = [w \in Workers |-> Idle]
  BY DEF Init
<1>4. TypeOK
  BY <1>1, <1>2, <1>3, EmptySeq DEF TypeOK
<1>5. ReactionsFinite
  BY <1>1, FS_EmptySet DEF ReactionsFinite
<1>6. WorkInv
  BY <1>2, <1>3 DEF WorkInv
<1>7. ReactionsOnVisible /\ LogInv
  BY <1>1 DEF ReactionsOnVisible, LogInv, NumbersFollowCounter, CounterIsTopSeqno, SeqnosDistinct
<1> QED BY <1>4, <1>5, <1>6, <1>7 DEF Inv

\* A step of the shape above keeps every message, for the same audience.
LEMMA AudienceKept ==
    ASSUME StepShape, NEW m \in Ids
    PROVE  m \in DOMAIN messages' /\ SameAudience(messages'[m], messages[m])
<1>1. CASE Stamped
  BY <1>1 DEF Stamped
<1>2. CASE Unchanged
  BY <1>2 DEF Unchanged, logVars, SameAudience, Ids
<1> QED BY <1>1, <1>2 DEF StepShape

\* A step of the shape above keeps the invariant.
LEMMA ShapeKeepsInv ==
    ASSUME Inv, StepShape
    PROVE  Inv'
<1>1. /\ TypeOK /\ ReactionsFinite /\ WorkInv /\ ReactionsOnVisible /\ LogInv
      /\ Stamped \/ Unchanged
      /\ ReactionStep /\ WorkStep /\ banned' \subseteq Users
  BY DEF Inv, StepShape
<1>2. messageSequence' \in Nat /\ messages' \in Seq(Message)
  BY <1>1 DEF TypeOK, Stamped, Unchanged, logVars
<1> DEFINE OnVisible(x) == /\ x \in Ids \X Reactions \X Users
                           /\ ~messages[x[1]].filtered
                           /\ messages[x[1]].whisper = NoUser
                           /\ ~messages[x[1]].whisperMods
<1>3. \A x \in userReactions' : OnVisible(x)
  <2>1. \A x \in userReactions : OnVisible(x)
    BY <1>1 DEF TypeOK, ReactionsOnVisible
  <2>2. \A w \in Workers, r \in Reactions :
          work[w].kind = "react" => OnVisible(<<work[w].message, r, work[w].user>>)
    BY <1>1 DEF WorkInv
  <2> HIDE DEF OnVisible
  <2> QED BY <1>1, <2>1, <2>2 DEF ReactionStep
<1>4. TypeOK'
  <2>1. \A x \in userReactions' : x \in (DOMAIN messages') \X Reactions \X Users
    BY <1>3, AudienceKept
  <2>2. work' \in [Workers -> Admission]
    BY <1>1 DEF WorkStep, TypeOK
  <2> QED BY <1>1, <1>2, <2>1, <2>2 DEF TypeOK, Ids
<1>5. ReactionsFinite'
  <2>1. CASE userReactions' \subseteq userReactions
    BY <1>1, <2>1, FS_Subset DEF ReactionsFinite
  <2>2. CASE \E x : userReactions' = userReactions \cup {x}
    BY <1>1, <2>2, FS_AddElement DEF ReactionsFinite
  <2> QED BY <1>1, <2>1, <2>2 DEF ReactionStep
<1>6. WorkInv'
  <2> SUFFICES ASSUME NEW w \in Workers
               PROVE  /\ work'[w].kind # "idle" => work'[w].user \in Users
                      /\ work'[w].kind = "react" =>
                           /\ work'[w].message \in DOMAIN messages'
                           /\ ~messages'[work'[w].message].filtered
                           /\ messages'[work'[w].message].whisper = NoUser
                           /\ ~messages'[work'[w].message].whisperMods
    BY DEF WorkInv, Ids
  <2>1. CASE work'[w] = work[w]
    BY <1>1, <2>1, AudienceKept DEF WorkInv, SameAudience
  <2> DEFINE Admitted(a) == /\ a.kind # "idle" => a.user \in Users
                            /\ a.kind = "react" => IsRegular(a.message) /\ Unchanged
  <2>2. CASE Admitted(work'[w])
    BY <2>2 DEF IsRegular, Unchanged, logVars, Ids
  <2>3. work'[w] = work[w] \/ Admitted(work'[w])
    <3> HIDE DEF Admitted
    <3>1. \A a : /\ a.kind # "idle" => a.user \in Users
                 /\ a.kind = "react" => IsRegular(a.message) /\ Unchanged
                 => Admitted(a)
      BY DEF Admitted
    <3> QED BY <1>1, <3>1 DEF WorkStep, TypeOK
  <2> QED BY <2>1, <2>2, <2>3
<1>7. ReactionsOnVisible'
  <2>1. \A x \in userReactions' : x[1] \in Ids
    BY <1>3
  <2> QED BY <1>3, <2>1, AudienceKept DEF ReactionsOnVisible, SameAudience
<1>8. LogInv'
  <2>1. CASE Stamped
    BY <1>1, <2>1, StampedKeepsLog
  <2>2. CASE Unchanged
    BY <1>1, <2>2 DEF Unchanged, logVars, LogInv, NumbersFollowCounter, CounterIsTopSeqno,
                      SeqnosDistinct, Ids
  <2> QED BY <1>1, <2>1, <2>2
<1> QED BY <1>4, <1>5, <1>6, <1>7, <1>8 DEF Inv

\* Every step keeps the invariant, a stuttering step included.
LEMMA StepKeepsInv ==
    Inv /\ [Next]_vars => Inv'
<1> SUFFICES ASSUME Inv, [Next]_vars PROVE Inv'
  OBVIOUS
<1>1. CASE Next
  BY <1>1, NextHasShape, ShapeKeepsInv
<1>2. CASE UNCHANGED vars
  <2>1. StepShape
    BY <1>2 DEF vars, logVars, StepShape, Unchanged, ReactionStep, WorkStep, Inv, TypeOK
  <2> QED BY <2>1, ShapeKeepsInv
<1> QED BY <1>1, <1>2

-----------------------------------------------------------------------------
(* The results.                                                            *)

\* The invariant holds throughout: the theorems below are its parts.
THEOREM InvHolds == Spec => []Inv
<1> QED BY InitHasInv, StepKeepsInv, PTL DEF Spec

\* Every variable has its type in every reachable state; in particular no
\* interleaving of requests leaves a reaction on a message that is not there.
THEOREM TypeCorrect == Spec => []TypeOK
<1>1. Inv => TypeOK
  BY DEF Inv
<1> QED BY <1>1, InvHolds, PTL

\* Whatever the order in which the triggers of a statement run, the numbers of
\* every row agree and none is ahead of the counter a client polls with.
THEOREM NumbersAgree == Spec => []NumbersFollowCounter
<1>1. Inv => NumbersFollowCounter
  BY DEF Inv, LogInv
<1> QED BY <1>1, InvHolds, PTL

\* The counter is always the seqno of some message: nothing spends a number
\* that no poll can return.
THEOREM CounterIsCarried == Spec => []CounterIsTopSeqno
<1>1. Inv => CounterIsTopSeqno
  BY DEF Inv, LogInv
<1> QED BY <1>1, InvHolds, PTL

\* No two messages ever share a seqno, deletions of many messages with many
\* reactions included.
THEOREM SeqnosNeverTie == Spec => []SeqnosDistinct
<1>1. Inv => SeqnosDistinct
  BY DEF Inv, LogInv
<1> QED BY <1>1, InvHolds, PTL

\* No whisper and no filtered message ever has a reaction, although the check
\* of a reaction may be arbitrarily old when the reaction is inserted.
THEOREM ReactionsStayVisible == Spec => []ReactionsOnVisible
<1>1. Inv => ReactionsOnVisible
  BY DEF Inv
<1> QED BY <1>1, InvHolds, PTL

-----------------------------------------------------------------------------
(* The log implements the feed.                                            *)

\* What a reader of the feed sees of the log.
FeedOfLog == [m \in Ids |-> [content |-> <<messages[m].data, ReactionsOf(m)>>,
                            stamp |-> messages[m].seqno]]

\* A stamped step publishes.
LEMMA StampedPublishes ==
    ASSUME Inv, Inv', Stamped
    PROVE  Feed!Publish
<1>1. /\ DOMAIN FeedOfLog = Ids
      /\ DOMAIN FeedOfLog' = Ids'
      /\ \A m \in Ids : /\ FeedOfLog[m].stamp = messages[m].seqno
                        /\ FeedOfLog[m].content = <<messages[m].data, ReactionsOf(m)>>
                        /\ FeedOfLog[m] = [content |-> <<messages[m].data, ReactionsOf(m)>>,
                                          stamp |-> messages[m].seqno]
      /\ \A m \in Ids' : /\ FeedOfLog'[m].stamp = messages'[m].seqno
                         /\ FeedOfLog'[m] = [content |-> <<messages'[m].data, ReactionsOf(m)'>>,
                                            stamp |-> messages'[m].seqno]
  BY DEF FeedOfLog
<1>2. Ids' = DOMAIN messages'
  BY DEF Ids
<1>3. /\ messageSequence \in Nat /\ messageSequence' \in Nat
      /\ messageSequence' > messageSequence
  BY DEF Inv, TypeOK, Stamped
<1>4. DOMAIN FeedOfLog \subseteq DOMAIN FeedOfLog'
  BY <1>1, <1>2 DEF Stamped
<1>5. \A m \in DOMAIN FeedOfLog' :
        \/ m \in DOMAIN FeedOfLog /\ FeedOfLog'[m] = FeedOfLog[m]
        \/ /\ messageSequence < FeedOfLog'[m].stamp
           /\ FeedOfLog'[m].stamp <= messageSequence'
  <2> SUFFICES ASSUME NEW m \in DOMAIN messages'
               PROVE  \/ m \in Ids /\ FeedOfLog'[m] = FeedOfLog[m]
                      \/ /\ messageSequence < FeedOfLog'[m].stamp
                         /\ FeedOfLog'[m].stamp <= messageSequence'
    BY <1>1, <1>2
  <2>1. CASE m \in Ids /\ messages'[m] = messages[m] /\ ReactionsOf(m)' = ReactionsOf(m)
    BY <1>1, <1>2, <2>1
  <2>2. CASE RowFresh(messages'[m])
    BY <1>1, <1>2, <2>2 DEF RowFresh
  <2> QED BY <2>1, <2>2 DEF Stamped
<1>6. \A i, j \in DOMAIN FeedOfLog' : i # j => FeedOfLog'[i].stamp # FeedOfLog'[j].stamp
  BY <1>1, <1>2 DEF Inv, LogInv, SeqnosDistinct
<1>7. \E i \in DOMAIN FeedOfLog' : FeedOfLog'[i].stamp = messageSequence'
  BY <1>1, <1>2 DEF Stamped
<1> QED BY <1>3, <1>4, <1>5, <1>6, <1>7 DEF Feed!Publish, Feed!Kept, FeedOfLog

\* The log implements the feed it promises its readers: however requests of any
\* number of workers interleave, every change of what a client sees of a message
\* comes with a number above all earlier ones, that no other message carries.
THEOREM LogImplementsFeed == Spec => FeedSpec
<1>1. Init => Feed!Init
  BY EmptySeq DEF Init, Feed!Init, Ids
<1>2. Inv /\ Inv' /\ [Next]_vars => [Feed!Publish]_<<messageSequence, FeedOfLog>>
  <2> SUFFICES ASSUME Inv, Inv', [Next]_vars
               PROVE  [Feed!Publish]_<<messageSequence, FeedOfLog>>
    OBVIOUS
  <2>1. Stamped \/ Unchanged
    BY NextHasShape DEF StepShape, Unchanged, vars
  <2>2. CASE Stamped
    BY <2>2, StampedPublishes
  <2>3. CASE Unchanged
    BY <2>3 DEF Unchanged, logVars, FeedOfLog, Ids, ReactionsOf
  <2> QED BY <2>1, <2>2, <2>3
<1> QED BY <1>1, <1>2, InvHolds, PTL DEF Spec, FeedSpec, Feed!Spec, FeedOfLog

-----------------------------------------------------------------------------
(* What a single step may do to a message, and in whose name: a row keeps  *)
(* its author and its creation number, its reaction number never falls, a  *)
(* changed body is numbered anew and a deleted one stays deleted; who is   *)
(* banned writes only by what was admitted before.                         *)

RowGoesOn(row, old) ==
    /\ row.user = old.user
    /\ row.seqnoCreation = old.seqnoCreation
    /\ old.seqnoReactions <= row.seqnoReactions
    /\ old.data = NoData => row.data = NoData
    /\ \/ row.data = old.data /\ row.seqnoData = old.seqnoData
       \/ row.seqnoData > messageSequence

RowsGoOn ==
    /\ Ids \subseteq DOMAIN messages'
    /\ \A m \in Ids : RowGoesOn(messages'[m], messages[m])
    /\ \A m \in DOMAIN messages' \ Ids :
         m <= MaxMessages /\ messages'[m].seqnoCreation > messageSequence

\* A reaction comes with a number above that of its message's creation.
NewReactionsStamped ==
    \A x \in userReactions' \ userReactions :
        messages'[x[1]].seqnoReactions > messages'[x[1]].seqnoCreation

\* A row that stays as it is goes on.
LEMMA RowStays ==
    ASSUME TypeOK, LogInv, NEW m \in Ids
    PROVE  RowGoesOn(messages[m], messages[m])
BY RowFacts DEF RowGoesOn

\* A changed body leaves the rest of the row, and deletes for good.
LEMMA DataGoesOn ==
    ASSUME TypeOK, LogInv, NEW m \in Ids, NEW d, NEW n, n > messageSequence,
           messages[m].data = NoData => d = NoData
    PROVE  /\ RowGoesOn(WithData(messages[m], d, n), messages[m])
           /\ WithData(messages[m], d, n).data = d
<1>1. /\ messages[m] \in Message
      /\ messages[m].seqnoReactions \in Nat
  BY RowFacts
<1> DEFINE row == WithData(messages[m], d, n)
<1>2. /\ row.user = messages[m].user
      /\ row.data = d
      /\ row.seqnoData = n
      /\ row.seqnoReactions = messages[m].seqnoReactions
      /\ row.seqnoCreation = messages[m].seqnoCreation
  BY <1>1 DEF WithData, Message
<1> QED BY <1>1, <1>2 DEF RowGoesOn

\* A row whose reactions are numbered anew keeps the rest.
LEMMA ReactionGoesOn ==
    ASSUME NEW old \in Message, NEW n \in Nat, old.seqnoReactions <= n
    PROVE  /\ RowGoesOn(WithReactionAt(old, n), old)
           /\ WithReactionAt(old, n).data = old.data
           /\ WithReactionAt(old, n).seqnoReactions = n
<1> DEFINE row == WithReactionAt(old, n)
<1>1. /\ row.user = old.user
      /\ row.data = old.data
      /\ row.seqnoData = old.seqnoData
      /\ row.seqnoReactions = n
      /\ row.seqnoCreation = old.seqnoCreation
  BY DEF WithReactionAt, Message
<1> QED BY <1>1 DEF RowGoesOn

\* One row is replaced by one that goes on from it.
LEMMA ReplacedRow ==
    ASSUME TypeOK, LogInv, NEW m \in Ids, NEW row,
           messages' = [messages EXCEPT ![m] = row], RowGoesOn(row, messages[m])
    PROVE  /\ RowsGoOn
           /\ DOMAIN messages' = Ids
           /\ messages'[m] = row
           /\ \A n \in Ids : n # m => messages'[n] = messages[n]
<1>1. /\ DOMAIN messages' = Ids
      /\ \A n \in Ids : messages'[n] = IF n = m THEN row ELSE messages[n]
  BY DEF Ids
<1>2. \A n \in Ids : RowGoesOn(messages'[n], messages[n])
  <2> SUFFICES ASSUME NEW n \in Ids PROVE RowGoesOn(messages'[n], messages[n])
    OBVIOUS
  <2>1. CASE n = m
    BY <1>1, <2>1
  <2>2. CASE n # m
    BY <1>1, <2>2, RowStays
  <2> QED BY <2>1, <2>2
<1> QED BY <1>1, <1>2 DEF RowsGoOn

-----------------------------------------------------------------------------
(* Who a step writes as, and whose requests may still write.               *)

\* The step ends what w was admitted to, if it was to write.
Ends(w) == \A u : Writing(u)' = Writing(u) \ {w}

\* Only the user of w, who was admitted to write, is written as.
WrittenBy(w) == \A u \in Users : WritesAs(u) => w \in Writing(u)

NotWritten == \A u \in Users : ~WritesAs(u)

BanStep ==
    \A u \in banned :
        /\ Writing(u)' \subseteq Writing(u)
        /\ WritesAs(u) => Writing(u)' # Writing(u)

\* A worker that is done is no longer writing.
LEMMA DoneEnds ==
    ASSUME TypeOK, NEW w \in Workers, Done(w)
    PROVE  Ends(w)
<1>1. \A v \in Workers : work'[v] = IF v = w THEN Idle ELSE work[v]
  BY DEF TypeOK, Done
<1>2. Idle.kind \notin {"write", "react"}
  BY DEF Idle
<1> SUFFICES ASSUME NEW u, NEW v \in Workers
             PROVE  v \in Writing(u)' <=> v \in Writing(u) /\ v # w
  BY DEF Ends, Writing
<1> QED BY <1>1, <1>2 DEF Writing

\* One that still owes the filter's reply is not, either.
LEMMA ReplyEnds ==
    ASSUME TypeOK, NEW w \in Workers, NEW v, NEW m, Admit(w, "reply", v, m)
    PROVE  Ends(w)
<1>1. \A q \in Workers : work'[q] = IF q = w THEN [kind |-> "reply", user |-> v, message |-> m]
                                    ELSE work[q]
  BY DEF TypeOK, Admit
<1> SUFFICES ASSUME NEW u, NEW q \in Workers
             PROVE  q \in Writing(u)' <=> q \in Writing(u) /\ q # w
  BY DEF Ends, Writing
<1> QED BY <1>1 DEF Writing

\* The admission of somebody who is not banned lets nobody write who is.
LEMMA AdmitKeepsBan ==
    ASSUME TypeOK, NEW w \in Workers, NEW kind, NEW v, NEW m, v \notin banned,
           Admit(w, kind, v, m), NotWritten
    PROVE  BanStep
<1>1. \A q \in Workers : work'[q] = IF q = w THEN [kind |-> kind, user |-> v, message |-> m]
                                    ELSE work[q]
  BY DEF TypeOK, Admit
<1>2. \A u \in banned : Writing(u)' \subseteq Writing(u)
  BY <1>1 DEF Writing
<1> QED BY <1>2 DEF BanStep, NotWritten, TypeOK

\* What ends a request uses its admission up.
LEMMA EndKeepsBan ==
    ASSUME TypeOK, NEW w, Ends(w), WrittenBy(w) \/ NotWritten
    PROVE  BanStep
<1>1. banned \subseteq Users
  BY DEF TypeOK
<1>2. \A u : Writing(u)' \subseteq Writing(u)
  BY DEF Ends
<1>3. \A u \in Users : WritesAs(u) => w \in Writing(u) /\ w \notin Writing(u)'
  BY DEF Ends, WrittenBy, NotWritten
<1> QED BY <1>1, <1>2, <1>3 DEF BanStep

\* A step that changes nothing of the log writes as nobody.
LEMMA UnchangedNotWritten ==
    ASSUME Unchanged
    PROVE  NotWritten
BY DEF Unchanged, logVars, NotWritten, WritesAs, Ids

-----------------------------------------------------------------------------
(* The operations.                                                         *)

\* What every step does: to the rows, to the reactions, and to those who are banned.
LogStep == RowsGoOn /\ NewReactionsStamped /\ BanStep

\* Nothing of the log changes.
LEMMA UnchangedRows ==
    ASSUME TypeOK, LogInv, Unchanged
    PROVE  RowsGoOn /\ NewReactionsStamped
<1>1. messages' = messages /\ userReactions' = userReactions
  BY DEF Unchanged, logVars
<1>2. \A m \in Ids : RowGoesOn(messages[m], messages[m])
  BY RowStays
<1> QED BY <1>1, <1>2 DEF RowsGoOn, NewReactionsStamped, Ids

\* An insertion writes as the author of the row.
LEMMA InsertRows ==
    ASSUME TypeOK, LogInv, NEW row, row.seqnoCreation > messageSequence, Insert(row)
    PROVE  /\ RowsGoOn /\ NewReactionsStamped
           /\ \A u : WritesAs(u) => u = row.user
<1>1. /\ messages \in Seq(Message)
      /\ messages' = Append(messages, row)
      /\ userReactions' = userReactions
  BY DEF TypeOK, Insert
<1>2. Ids = 1 .. Len(messages) /\ Len(messages) \in Nat
  BY <1>1, IdsFacts
<1>3. /\ DOMAIN messages' = 1 .. Len(messages) + 1
      /\ \A m \in Ids : messages'[m] = messages[m]
      /\ messages'[Len(messages) + 1] = row
  BY <1>1, <1>2
<1>4. RowsGoOn
  <2>1. \A m \in Ids : RowGoesOn(messages'[m], messages[m])
    BY <1>3, RowStays
  <2>2. Len(messages) + 1 <= MaxMessages
    BY <1>2, BoundAssumption DEF Insert
  <2>3. \A m \in DOMAIN messages' \ Ids : m = Len(messages) + 1
    BY <1>2, <1>3
  <2> QED BY <1>2, <1>3, <2>1, <2>2, <2>3 DEF RowsGoOn
<1>5. \A u : WritesAs(u) => u = row.user
  <2>1. \A m \in DOMAIN messages' \ Ids : messages'[m] = row
    BY <1>2, <1>3
  <2> QED BY <1>1, <1>3, <2>1 DEF WritesAs
<1> QED BY <1>1, <1>4, <1>5 DEF NewReactionsStamped

\* A post is the worker's user's.
LEMMA AddPostStep ==
    ASSUME Inv, NEW w \in Workers, NEW d \in Data, NEW whisper \in Users \cup {NoUser},
           NEW whisperMods \in BOOLEAN, AddPost(w, d, whisper, whisperMods)
    PROVE  LogStep
<1> DEFINE u == work[w].user
           row == NewMessage(u, d, Trips(u, d), whisper, whisperMods)
<1>1. /\ work[w].kind = "write"
      /\ Insert(row)
      /\ Admit(w, "reply", u, NoMessage) \/ Done(w)
  BY DEF AddPost
<1>2. row.user = u /\ row.seqnoCreation > messageSequence
  BY DEF NewMessage, Inv, TypeOK
<1> HIDE DEF row
<1>3. /\ RowsGoOn /\ NewReactionsStamped
      /\ \A v : WritesAs(v) => v = u
  BY <1>1, <1>2, InsertRows DEF Inv
<1>4. WrittenBy(w)
  BY <1>1, <1>3 DEF WrittenBy, Writing
<1>5. Ends(w)
  BY <1>1, DoneEnds, ReplyEnds DEF Inv
<1> QED BY <1>3, <1>4, <1>5, EndKeepsBan DEF Inv, LogStep

\* The filter's reply is the server's, which nobody bans.
LEMMA ReplyStep ==
    ASSUME Inv, NEW w \in Workers, NEW u, ReplyTo(u), Done(w)
    PROVE  LogStep
<1> DEFINE to == IF FilterReply = "public" THEN NoUser ELSE u
           row == NewMessage(ServerUser, ReplyBody, FALSE, to, FALSE)
<1>1. Insert(row)
  BY DEF ReplyTo
<1>2. row.user = ServerUser /\ row.seqnoCreation > messageSequence
  BY DEF NewMessage, Inv, TypeOK
<1> HIDE DEF row
<1>3. /\ RowsGoOn /\ NewReactionsStamped
      /\ \A v : WritesAs(v) => v = ServerUser
  BY <1>1, <1>2, InsertRows DEF Inv
<1>4. NotWritten
  BY <1>3, UsersAssumption DEF NotWritten
<1>5. Ends(w)
  BY DoneEnds DEF Inv
<1> QED BY <1>3, <1>4, <1>5, EndKeepsBan DEF Inv, LogStep

\* An edit is its author's.
LEMMA EditPostStep ==
    ASSUME Inv, NEW w \in Workers, NEW m \in Ids, NEW d \in Data, EditPost(w, m, d)
    PROVE  LogStep
<1> DEFINE row == WithData(messages[m], d, messageSequence + 1)
<1>1. /\ work[w].kind = "write" /\ Done(w)
      /\ messages[m].user = work[w].user /\ messages[m].data # NoData
      /\ userReactions' = userReactions
      /\ \/ messages' = [messages EXCEPT ![m] = row]
         \/ UNCHANGED <<messageSequence, messages>>
  BY DEF EditPost
<1>2. Ends(w)
  BY <1>1, DoneEnds DEF Inv
<1>3. CASE UNCHANGED <<messageSequence, messages>>
  <2>1. Unchanged
    BY <1>1, <1>3 DEF Unchanged, logVars
  <2> QED BY <1>2, <2>1, UnchangedRows, UnchangedNotWritten, EndKeepsBan DEF Inv, LogStep
<1>4. CASE messages' = [messages EXCEPT ![m] = row]
  <2>1. RowGoesOn(row, messages[m])
    <3>1. messageSequence + 1 > messageSequence
      BY RowFacts DEF Inv
    <3> QED BY <1>1, <3>1, DataGoesOn DEF Inv
  <2> HIDE DEF row
  <2>2. /\ RowsGoOn
        /\ DOMAIN messages' = Ids
        /\ \A n \in Ids : n # m => messages'[n] = messages[n]
    BY <1>4, <2>1, ReplacedRow DEF Inv
  <2>3. \A u : WritesAs(u) => u = work[w].user
    BY <1>1, <2>2 DEF WritesAs
  <2>4. WrittenBy(w)
    BY <1>1, <2>3 DEF WrittenBy, Writing
  <2> QED BY <1>1, <1>2, <2>2, <2>4, EndKeepsBan DEF Inv, LogStep, NewReactionsStamped
<1> QED BY <1>1, <1>3, <1>4

\* A deletion takes bodies and reactions away, and writes as nobody.
LEMMA DeleteMessagesRows ==
    ASSUME Inv, NEW doomed \in SUBSET Ids, DeleteMessages(doomed)
    PROVE  RowsGoOn /\ NewReactionsStamped /\ NotWritten
<1> DEFINE gone == {x \in userReactions : x[1] \in doomed}
           count(m) == Cardinality(ReactionsOf(m))
           top == messageSequence + Cardinality(doomed) + Cardinality(gone)
           plain(m, n) == WithData(messages[m], NoData, n)
           row(m, n) == IF count(m) = 0 THEN plain(m, n)
                        ELSE WithReactionAt(plain(m, n), n + count(m))
<1>1. PICK first \in [doomed -> (messageSequence + 1) .. top] :
        messages' = [m \in Ids |-> IF m \notin doomed THEN messages[m] ELSE row(m, first[m])]
  BY Zenon DEF DeleteMessages
<1>2. userReactions' \subseteq userReactions
  BY DEF DeleteMessages
<1>3. \A m : count(m) \in Nat
  BY ReactionCount DEF Inv, ReactionsOf
<1>4. messageSequence \in Nat /\ top \in Nat
  <2>1. Ids = 1 .. Len(messages) /\ Len(messages) \in Nat
    BY IdsFacts DEF Inv, TypeOK
  <2>2. IsFiniteSet(Ids)
    BY <2>1, FS_Interval
  <2>3. Cardinality(doomed) \in Nat
    BY <2>2, FS_Subset, FS_CardinalityType
  <2>4. Cardinality(gone) \in Nat
    BY ReactionCount DEF Inv
  <2> QED BY <2>3, <2>4 DEF Inv, TypeOK
<1>5. \A m \in doomed : first[m] \in Nat /\ messageSequence < first[m]
  BY <1>1, <1>4
<1> HIDE DEF count, top
<1>6. \A m \in doomed : RowGoesOn(row(m, first[m]), messages[m]) /\ row(m, first[m]).data = NoData
  <2> SUFFICES ASSUME NEW m \in doomed
               PROVE  /\ RowGoesOn(row(m, first[m]), messages[m])
                      /\ row(m, first[m]).data = NoData
    OBVIOUS
  <2> DEFINE p == plain(m, first[m])
  <2>1. RowGoesOn(p, messages[m]) /\ p.data = NoData
    BY <1>5, DataGoesOn DEF Inv
  <2>2. /\ messages[m] \in Message
        /\ messages[m].seqnoReactions \in Nat
        /\ messages[m].seqnoReactions <= messageSequence
    BY RowFacts DEF Inv
  <2>3. p.seqnoReactions = messages[m].seqnoReactions
    BY <2>2 DEF WithData, Message
  <2>4. p \in Message
    <3>1. Larger(first[m], messages[m].seqnoReactions) \in Nat
      BY <1>5, <2>2, LargerFacts
    <3> QED BY <1>5, <2>2, <3>1 DEF WithData, Message
  <2>5. CASE count(m) = 0
    BY <2>1, <2>5
  <2>6. CASE count(m) # 0
    <3> DEFINE n == first[m] + count(m)
    <3>1. n \in Nat /\ p.seqnoReactions <= n
      BY <1>3, <1>4, <1>5, <2>2, <2>3
    <3> HIDE DEF p, n
    <3>2. RowGoesOn(WithReactionAt(p, n), p) /\ WithReactionAt(p, n).data = p.data
      BY <2>4, <3>1, ReactionGoesOn
    <3>3. /\ WithReactionAt(p, n).seqnoReactions = n
          /\ messages[m].seqnoReactions <= n
      BY <2>3, <2>4, <3>1, ReactionGoesOn
    <3>4. RowGoesOn(WithReactionAt(p, n), messages[m])
      BY <2>1, <3>2, <3>3 DEF RowGoesOn
    <3>5. row(m, first[m]) = WithReactionAt(p, n)
      BY <2>6 DEF p, n
    <3> HIDE DEF row
    <3> QED BY <2>1, <3>2, <3>4, <3>5
  <2> QED BY <2>5, <2>6
<1> HIDE DEF row
<1>7. /\ DOMAIN messages' = Ids
      /\ \A m \in Ids : messages'[m] = IF m \notin doomed THEN messages[m] ELSE row(m, first[m])
  BY <1>1
<1>8. RowsGoOn
  <2>1. \A m \in Ids : RowGoesOn(messages'[m], messages[m])
    BY <1>6, <1>7, RowStays DEF Inv
  <2> QED BY <1>7, <2>1 DEF RowsGoOn
<1>9. NotWritten
  BY <1>2, <1>6, <1>7 DEF NotWritten, WritesAs
<1> QED BY <1>2, <1>8, <1>9 DEF NewReactionsStamped

\* A reaction is its user's, and numbered above its message's creation.
LEMMA AddReactionStep ==
    ASSUME Inv, NEW w \in Workers, NEW r \in Reactions, AddReaction(w, r)
    PROVE  LogStep
<1> DEFINE m == work[w].message
           added == <<m, r, work[w].user>>
           n == messageSequence + 1
<1>1. /\ work[w].kind = "react" /\ Done(w)
      /\ \/ /\ messages' = [messages EXCEPT ![m] = WithReactionAt(messages[m], n)]
            /\ userReactions' = userReactions \cup {added}
         \/ UNCHANGED <<userReactions, messageSequence, messages>>
  BY DEF AddReaction
<1>2. Ends(w)
  BY <1>1, DoneEnds DEF Inv
<1>3. CASE UNCHANGED <<userReactions, messageSequence, messages>>
  <2>1. Unchanged
    BY <1>3 DEF Unchanged, logVars
  <2> QED BY <1>2, <2>1, UnchangedRows, UnchangedNotWritten, EndKeepsBan DEF Inv, LogStep
<1>4. CASE /\ messages' = [messages EXCEPT ![m] = WithReactionAt(messages[m], n)]
           /\ userReactions' = userReactions \cup {added}
  <2>1. m \in Ids
    BY <1>1 DEF Inv, WorkInv
  <2>2. /\ messages[m] \in Message /\ n \in Nat
        /\ messages[m].seqnoReactions <= n
        /\ messages[m].seqnoCreation \in Nat /\ messages[m].seqnoCreation < n
    BY <2>1, RowFacts DEF Inv
  <2> DEFINE row == WithReactionAt(messages[m], n)
  <2>3. /\ RowGoesOn(row, messages[m])
        /\ row.data = messages[m].data
        /\ row.seqnoReactions = n
    BY <2>2, ReactionGoesOn
  <2> HIDE DEF row
  <2>4. /\ RowsGoOn
        /\ DOMAIN messages' = Ids
        /\ messages'[m] = row
        /\ \A i \in Ids : i # m => messages'[i] = messages[i]
    BY <1>4, <2>1, <2>3, ReplacedRow DEF Inv, row
  <2>5. NewReactionsStamped
    <3>1. row.seqnoReactions > row.seqnoCreation
      BY <2>2, <2>3 DEF RowGoesOn
    <3>2. \A x \in userReactions' \ userReactions : x[1] = m
      BY <1>4
    <3> QED BY <2>4, <3>1, <3>2 DEF NewReactionsStamped
  <2>6. \A u : WritesAs(u) => u = work[w].user
    BY <1>4, <2>3, <2>4 DEF WritesAs
  <2>7. WrittenBy(w)
    BY <1>1, <2>6 DEF WrittenBy, Writing
  <2> QED BY <1>2, <2>4, <2>5, <2>7, EndKeepsBan DEF Inv, LogStep
<1> QED BY <1>1, <1>3, <1>4

\* Reactions are removed: the message's number goes up, nothing is written.
LEMMA RemoveReactionsStep ==
    ASSUME Inv, NEW w \in Workers, work[w].kind = "react",
           NEW gone \in SUBSET ReactionsOf(work[w].message),
           RemoveReactions(work[w].message, gone), Done(w)
    PROVE  LogStep
<1> DEFINE m == work[w].message
           top == messageSequence + Cardinality(gone)
<1>1. /\ m \in Ids
      /\ userReactions' = userReactions \ gone
      /\ messageSequence' = top
      /\ messages' = IF gone = {} THEN messages
                     ELSE [messages EXCEPT ![m] = WithReactionAt(messages[m], top)]
  BY DEF RemoveReactions, Inv, WorkInv
<1>2. Ends(w)
  BY DoneEnds DEF Inv
<1>3. gone \subseteq userReactions /\ Cardinality(gone) \in Nat
  BY ReactionCount DEF ReactionsOf, Inv
<1>4. NewReactionsStamped
  BY <1>1 DEF NewReactionsStamped
<1>5. CASE gone = {}
  <2>1. RowsGoOn
    BY <1>1, <1>5, RowStays DEF RowsGoOn, Inv, Ids
  <2>2. NotWritten
    BY <1>1, <1>5 DEF NotWritten, WritesAs, Ids
  <2> QED BY <1>2, <1>4, <2>1, <2>2, EndKeepsBan DEF Inv, LogStep
<1>6. CASE gone # {}
  <2>1. /\ messages[m] \in Message /\ top \in Nat
        /\ messages[m].seqnoReactions <= top
    BY <1>1, <1>3, RowFacts DEF Inv
  <2> DEFINE row == WithReactionAt(messages[m], top)
  <2>2. RowGoesOn(row, messages[m]) /\ row.data = messages[m].data
    BY <2>1, ReactionGoesOn
  <2>3. messages' = [messages EXCEPT ![m] = row]
    BY <1>1, <1>6
  <2> HIDE DEF row, top, m
  <2>4. /\ RowsGoOn
        /\ DOMAIN messages' = Ids
        /\ messages'[m] = row
        /\ \A i \in Ids : i # m => messages'[i] = messages[i]
    BY <1>1, <2>2, <2>3, ReplacedRow DEF Inv
  <2>5. NotWritten
    BY <1>1, <2>2, <2>4 DEF NotWritten, WritesAs
  <2> QED BY <1>2, <1>4, <2>4, <2>5, EndKeepsBan DEF Inv, LogStep
<1> QED BY <1>5, <1>6

-----------------------------------------------------------------------------

\* Every step is one.
LEMMA NextIsLogStep ==
    ASSUME Inv, Next
    PROVE  LogStep
<1>0. TypeOK /\ LogInv
  BY DEF Inv
<1>1. ASSUME NEW w \in Workers, NEW u \in Users, CheckWrite(w, u)
      PROVE  LogStep
  <2>1. Unchanged /\ u \notin banned /\ Admit(w, "write", u, NoMessage)
    BY <1>1 DEF CheckWrite, Unchanged
  <2> QED BY <1>0, <2>1, UnchangedRows, UnchangedNotWritten, AdmitKeepsBan DEF LogStep
<1>2. ASSUME NEW w \in Workers, NEW u \in Users, NEW m \in Ids, CheckReaction(w, u, m)
      PROVE  LogStep
  <2>1. Unchanged /\ u \notin banned /\ Admit(w, "react", u, m)
    BY <1>2 DEF CheckReaction, Unchanged
  <2> QED BY <1>0, <2>1, UnchangedRows, UnchangedNotWritten, AdmitKeepsBan DEF LogStep
<1>3. ASSUME NEW w \in Workers, Abandon(w)
      PROVE  LogStep
  <2>1. Unchanged /\ Done(w)
    BY <1>3 DEF Abandon, Unchanged
  <2> QED BY <1>0, <2>1, UnchangedRows, UnchangedNotWritten, DoneEnds, EndKeepsBan DEF LogStep
<1>4. ASSUME NEW w \in Workers, PostFilterReply(w) \/ \E d \in Data : RejectByFilter(w, d)
      PROVE  LogStep
  BY <1>4, ReplyStep DEF PostFilterReply, RejectByFilter
<1>5. ASSUME NEW w \in Workers, NEW ids \in SUBSET Ids, DeletePosts(w, ids)
      PROVE  LogStep
  <2> DEFINE doomed == {m \in ids : messages[m].data # NoData}
  <2>1. Done(w) /\ doomed \in SUBSET Ids /\ DeleteMessages(doomed)
    BY <1>5 DEF DeletePosts
  <2> HIDE DEF doomed
  <2> QED BY <1>0, <2>1, DeleteMessagesRows, DoneEnds, EndKeepsBan DEF LogStep
<1>6. ASSUME NEW w \in Workers, NEW r \in Reactions, DeleteReaction(w, r)
      PROVE  LogStep
  BY <1>6, RemoveReactionsStep DEF DeleteReaction
<1>7. ASSUME NEW w \in Workers, NEW which, DeleteAllReactions(w, which)
      PROVE  LogStep
  BY <1>7, RemoveReactionsStep DEF DeleteAllReactions
<1>8. ASSUME NEW w \in Workers, Request(w)
      PROVE  LogStep
  BY <1>1, <1>2, <1>3, <1>4, <1>5, <1>6, <1>7, <1>8, AddPostStep, EditPostStep, AddReactionStep,
     Zenon DEF Request
<1>9. ASSUME NEW deleter \in Users, NEW poster \in Users, DeleteAllPosts(deleter, poster)
      PROVE  LogStep
  <2> DEFINE doomed == {m \in Ids : messages[m].user = poster /\ messages[m].data # NoData}
  <2>1. work' = work /\ doomed \in SUBSET Ids /\ DeleteMessages(doomed)
    BY <1>9 DEF DeleteAllPosts
  <2> HIDE DEF doomed
  <2>2. RowsGoOn /\ NewReactionsStamped /\ NotWritten
    BY <2>1, DeleteMessagesRows
  <2>3. BanStep
    BY <1>0, <2>1, <2>2 DEF BanStep, NotWritten, Writing, TypeOK
  <2> QED BY <2>2, <2>3 DEF LogStep
<1>10. ASSUME NEW u \in Users, Ban(u) \/ Unban(u)
       PROVE  LogStep
  <2>1. Unchanged /\ work' = work
    BY <1>10 DEF Ban, Unban, Unchanged
  <2>2. BanStep
    BY <1>0, <2>1, UnchangedNotWritten DEF BanStep, NotWritten, Writing, TypeOK
  <2> QED BY <1>0, <2>1, <2>2, UnchangedRows DEF LogStep
<1> QED BY <1>8, <1>9, <1>10, Zenon DEF Next

\* And so is stuttering.
LEMMA StepIsLogStep ==
    ASSUME Inv, [Next]_vars
    PROVE  LogStep
<1>1. CASE Next
  BY <1>1, NextIsLogStep
<1>2. CASE UNCHANGED vars
  <2>1. Unchanged /\ work' = work
    BY <1>2 DEF vars, Unchanged
  <2>2. TypeOK /\ LogInv
    BY DEF Inv
  <2>3. BanStep
    BY <2>1, <2>2, UnchangedNotWritten DEF BanStep, NotWritten, Writing, TypeOK
  <2> QED BY <2>1, <2>2, <2>3, UnchangedRows DEF LogStep
<1> QED BY <1>1, <1>2

-----------------------------------------------------------------------------
(* The results about steps.                                                *)

\* A message that has a reaction has a reaction number above its creation's: a poll from
\* before the reaction returns it, however old the check of the reaction was.
THEOREM ReactionsStayStamped == Spec => []ReactionsAreStamped
<1>1. Init => ReactionsAreStamped
  BY DEF Init, ReactionsAreStamped
<1>2. Inv /\ ReactionsAreStamped /\ [Next]_vars => ReactionsAreStamped'
  <2> SUFFICES ASSUME Inv, ReactionsAreStamped, [Next]_vars, NEW x \in userReactions'
               PROVE  messages'[x[1]].seqnoReactions > messages'[x[1]].seqnoCreation
    BY DEF ReactionsAreStamped
  <2>1. RowsGoOn /\ NewReactionsStamped
    BY StepIsLogStep DEF LogStep
  <2>2. CASE x \notin userReactions
    BY <2>1, <2>2 DEF NewReactionsStamped
  <2>3. CASE x \in userReactions
    <3>1. x[1] \in Ids
      BY <2>3 DEF Inv, TypeOK
    <3>2. RowGoesOn(messages'[x[1]], messages[x[1]])
      BY <2>1, <3>1 DEF RowsGoOn
    <3>3. messages[x[1]].seqnoReactions \in Nat /\ messages[x[1]].seqnoCreation \in Nat
      BY <3>1, RowFacts DEF Inv
    <3>4. messages'[x[1]].seqnoReactions \in Nat
      <4>1. x[1] \in DOMAIN messages' /\ messages' \in Seq(Message)
        BY <2>1, <3>1, StepKeepsInv DEF RowsGoOn, Inv, TypeOK
      <4> QED BY <4>1, RowsOfSeq DEF Message
    <3> QED BY <2>3, <3>2, <3>3, <3>4 DEF ReactionsAreStamped, RowGoesOn
  <2> QED BY <2>2, <2>3
<1> QED BY <1>1, <1>2, InvHolds, PTL DEF Spec

\* No step brings the body of a deleted message back, whatever was checked before.
THEOREM DeletedStaysDeleted == Spec => TombstonesFinal
<1>1. Inv /\ [Next]_vars =>
        [\A m \in Ids : messages[m].data = NoData => messages'[m].data = NoData]_vars
  <2> SUFFICES ASSUME Inv, [Next]_vars
               PROVE  \A m \in Ids : messages[m].data = NoData => messages'[m].data = NoData
    OBVIOUS
  <2> QED BY StepIsLogStep DEF LogStep, RowsGoOn, RowGoesOn
<1> QED BY <1>1, InvHolds, PTL DEF Spec, TombstonesFinal

\* A ban holds: of a banned user nothing is written but by requests that were past their
\* check, each of which writes once, and no more of them appear.
THEOREM BansHold == Spec => BanHolds
<1>1. Inv /\ [Next]_vars =>
        [\A u \in banned :
            /\ Writing(u)' \subseteq Writing(u)
            /\ WritesAs(u) => Writing(u)' # Writing(u)]_vars
  <2> SUFFICES ASSUME Inv, [Next]_vars
               PROVE  \A u \in banned :
                        /\ Writing(u)' \subseteq Writing(u)
                        /\ WritesAs(u) => Writing(u)' # Writing(u)
    OBVIOUS
  <2> QED BY StepIsLogStep DEF LogStep, BanStep
<1> QED BY <1>1, InvHolds, PTL DEF Spec, BanHolds

-----------------------------------------------------------------------------
(* Reactions whose check is older than the deletion of their message.      *)

\* What a step may do about the reactions of m.
LateStep(m) ==
    IF messages[m].data = NoData
    THEN /\ Reacting(m)' \subseteq Reacting(m)
         /\ ReactionsOf(m)' \subseteq ReactionsOf(m) \/ Reacting(m)' # Reacting(m)
    ELSE messages'[m].data = NoData => ReactionsOf(m)' = {}

\* No body is deleted.
BodiesStay == \A m \in Ids : messages[m].data # NoData => messages'[m].data # NoData

\* Nobody is admitted to change reactions.
NobodyAdmitted == \A m \in Ids : Reacting(m)' \subseteq Reacting(m)

\* A worker that is done, or owes a reply, changes no reactions any more.
LEMMA NotAdmitted ==
    ASSUME TypeOK, NEW w \in Workers,
           \/ Done(w)
           \/ \E kind, u, m : kind # "react" /\ Admit(w, kind, u, m)
           \/ work' = work
    PROVE  NobodyAdmitted
<1>1. \A q \in Workers : work'[q] = work[q] \/ work'[q].kind # "react"
  BY DEF TypeOK, Done, Idle, Admit
<1> QED BY <1>1 DEF NobodyAdmitted, Reacting

\* Where no body goes, no reaction comes and nobody is admitted, there is no more to say.
LEMMA QuietIsLate ==
    ASSUME BodiesStay, NobodyAdmitted, userReactions' \subseteq userReactions
    PROVE  \A m \in Ids : LateStep(m)
<1>1. \A m : ReactionsOf(m)' \subseteq ReactionsOf(m)
  BY DEF ReactionsOf
<1> QED BY <1>1 DEF LateStep, BodiesStay, NobodyAdmitted

\* An insertion deletes nothing.
LEMMA InsertIsQuiet ==
    ASSUME TypeOK, NEW row, Insert(row)
    PROVE  BodiesStay /\ userReactions' = userReactions
<1>1. /\ messages \in Seq(Message)
      /\ messages' = Append(messages, row)
      /\ userReactions' = userReactions
  BY DEF TypeOK, Insert
<1>2. \A m \in Ids : messages'[m] = messages[m]
  BY <1>1, IdsFacts
<1> QED BY <1>1, <1>2 DEF BodiesStay

\* One row is replaced by one that is not deleted, if it was not.
LEMMA ReplacedStay ==
    ASSUME NEW m \in Ids, NEW row, messages' = [messages EXCEPT ![m] = row],
           messages[m].data # NoData => row.data # NoData
    PROVE  BodiesStay
BY DEF BodiesStay, Ids

\* A deletion deletes the reactions of what it deletes.
LEMMA DeleteIsLate ==
    ASSUME Inv, NEW doomed \in SUBSET Ids, DeleteMessages(doomed), NobodyAdmitted
    PROVE  \A m \in Ids : LateStep(m)
<1>1. userReactions' = userReactions \ {x \in userReactions : x[1] \in doomed}
  BY DEF DeleteMessages
<1>2. \A m \in Ids \ doomed : messages'[m] = messages[m]
  BY Zenon DEF DeleteMessages
<1>3. \A m : ReactionsOf(m)' \subseteq ReactionsOf(m)
  BY <1>1 DEF ReactionsOf
<1>4. \A m \in doomed : ReactionsOf(m)' = {}
  BY <1>1 DEF ReactionsOf
<1> QED BY <1>2, <1>3, <1>4 DEF LateStep, NobodyAdmitted

\* The reactions of a message are removed: its body stays.
LEMMA RemoveIsLate ==
    ASSUME Inv, NEW w \in Workers, work[w].kind = "react",
           NEW gone \in SUBSET ReactionsOf(work[w].message),
           RemoveReactions(work[w].message, gone), Done(w)
    PROVE  \A m \in Ids : LateStep(m)
<1> DEFINE m == work[w].message
           row == WithReactionAt(messages[m], messageSequence + Cardinality(gone))
<1>1. m \in Ids /\ messages[m] \in Message
  BY RowFacts DEF Inv, WorkInv
<1>2. row.data = messages[m].data
  BY <1>1 DEF WithReactionAt, Message
<1>3. /\ userReactions' \subseteq userReactions
      /\ messages' = messages \/ messages' = [messages EXCEPT ![m] = row]
  BY DEF RemoveReactions
<1> HIDE DEF row
<1>4. BodiesStay
  BY <1>1, <1>2, <1>3, ReplacedStay DEF BodiesStay
<1> QED BY <1>3, <1>4, NotAdmitted, QuietIsLate DEF Inv

\* A reaction is on the message its request was checked for, and uses that up.
LEMMA AddReactionIsLate ==
    ASSUME Inv, NEW w \in Workers, NEW r \in Reactions, AddReaction(w, r)
    PROVE  \A m \in Ids : LateStep(m)
<1> DEFINE target == work[w].message
           row == WithReactionAt(messages[target], messageSequence + 1)
<1>1. target \in Ids /\ messages[target] \in Message
  BY RowFacts DEF AddReaction, Inv, WorkInv
<1>2. row.data = messages[target].data
  BY <1>1 DEF WithReactionAt, Message
<1>3. /\ work[w].kind = "react" /\ Done(w)
      /\ \A x \in userReactions' \ userReactions : x[1] = target
      /\ messages' = messages \/ messages' = [messages EXCEPT ![target] = row]
  BY DEF AddReaction
<1> HIDE DEF row
<1>4. BodiesStay
  BY <1>1, <1>2, <1>3, ReplacedStay DEF BodiesStay
<1>5. NobodyAdmitted
  BY <1>3, NotAdmitted DEF Inv
<1>6. \A m \in Ids : m = target => w \in Reacting(m) /\ w \notin Reacting(m)'
  BY <1>3 DEF Reacting, Done, Idle, Inv, TypeOK
<1>7. \A m \in Ids : m # target => ReactionsOf(m)' \subseteq ReactionsOf(m)
  BY <1>3 DEF ReactionsOf
<1> SUFFICES ASSUME NEW m \in Ids PROVE LateStep(m)
  OBVIOUS
<1>8. CASE m = target
  BY <1>4, <1>5, <1>6, <1>8 DEF LateStep, BodiesStay, NobodyAdmitted
<1>9. CASE m # target
  BY <1>4, <1>5, <1>7, <1>9 DEF LateStep, BodiesStay, NobodyAdmitted
<1> QED BY <1>8, <1>9

\* Every step is late or quiet.
LEMMA NextIsLate ==
    ASSUME Inv, Next
    PROVE  \A m \in Ids : LateStep(m)
<1>0. TypeOK
  BY DEF Inv
<1>1. ASSUME NEW w \in Workers,
             \/ \E u \in Users : CheckWrite(w, u)
             \/ Abandon(w)
      PROVE  \A m \in Ids : LateStep(m)
  <2>1. NobodyAdmitted
    BY <1>0, <1>1, NotAdmitted DEF CheckWrite, Abandon
  <2>2. messages' = messages /\ userReactions' = userReactions
    BY <1>1 DEF CheckWrite, Abandon, logVars
  <2> QED BY <2>1, <2>2, QuietIsLate DEF BodiesStay
<1>2. ASSUME NEW w \in Workers, NEW u \in Users, NEW n \in Ids, CheckReaction(w, u, n)
      PROVE  \A m \in Ids : LateStep(m)
  <2>1. messages' = messages /\ userReactions' = userReactions
    BY <1>2 DEF CheckReaction, logVars
  <2>2. messages[n].data # NoData /\ Admit(w, "react", u, n)
    BY <1>2 DEF CheckReaction, IsRegular
  <2>3. \A m \in Ids : m # n => Reacting(m)' \subseteq Reacting(m)
    BY <1>0, <2>2 DEF Reacting, Admit, TypeOK
  <2>4. \A m : ReactionsOf(m)' \subseteq ReactionsOf(m)
    BY <2>1 DEF ReactionsOf
  <2> QED BY <2>1, <2>2, <2>3, <2>4 DEF LateStep
<1>3. ASSUME NEW w \in Workers,
             \/ \E d \in Data, whisper \in Users \cup {NoUser}, whisperMods \in BOOLEAN :
                  AddPost(w, d, whisper, whisperMods)
             \/ PostFilterReply(w)
             \/ \E d \in Data : RejectByFilter(w, d)
      PROVE  \A m \in Ids : LateStep(m)
  <2>1. \E row : Insert(row)
    BY <1>3 DEF AddPost, PostFilterReply, RejectByFilter, ReplyTo
  <2>2. BodiesStay /\ userReactions' = userReactions
    BY <1>0, <2>1, InsertIsQuiet
  <2>3. Done(w) \/ \E u : Admit(w, "reply", u, NoMessage)
    BY <1>3 DEF AddPost, PostFilterReply, RejectByFilter
  <2>4. NobodyAdmitted
    BY <1>0, <2>3, NotAdmitted
  <2> QED BY <2>2, <2>4, QuietIsLate
<1>4. ASSUME NEW w \in Workers, NEW n \in Ids, NEW d \in Data, EditPost(w, n, d)
      PROVE  \A m \in Ids : LateStep(m)
  <2> DEFINE row == WithData(messages[n], d, messageSequence + 1)
  <2>1. row.data = d /\ d # NoData
    BY <1>0, RowFacts, DataAssumption DEF WithData, Message, Inv
  <2>2. /\ Done(w) /\ userReactions' = userReactions
        /\ messages' = messages \/ messages' = [messages EXCEPT ![n] = row]
    BY <1>4 DEF EditPost
  <2> HIDE DEF row
  <2>3. BodiesStay
    BY <2>1, <2>2, ReplacedStay DEF BodiesStay
  <2> QED BY <1>0, <2>2, <2>3, NotAdmitted, QuietIsLate
<1>5. ASSUME NEW w \in Workers, NEW ids \in SUBSET Ids, DeletePosts(w, ids)
      PROVE  \A m \in Ids : LateStep(m)
  <2> DEFINE doomed == {m \in ids : messages[m].data # NoData}
  <2>1. Done(w) /\ doomed \in SUBSET Ids /\ DeleteMessages(doomed)
    BY <1>5 DEF DeletePosts
  <2> HIDE DEF doomed
  <2> QED BY <1>0, <2>1, NotAdmitted, DeleteIsLate
<1>6. ASSUME NEW w \in Workers,
             \/ \E r \in Reactions : DeleteReaction(w, r)
             \/ \E which : DeleteAllReactions(w, which)
      PROVE  \A m \in Ids : LateStep(m)
  BY <1>6, RemoveIsLate DEF DeleteReaction, DeleteAllReactions
<1>7. ASSUME NEW w \in Workers, Request(w)
      PROVE  \A m \in Ids : LateStep(m)
  BY <1>1, <1>2, <1>3, <1>4, <1>5, <1>6, <1>7, AddReactionIsLate, Zenon DEF Request
<1>8. ASSUME NEW deleter \in Users, NEW poster \in Users, DeleteAllPosts(deleter, poster)
      PROVE  \A m \in Ids : LateStep(m)
  <2> DEFINE doomed == {m \in Ids : messages[m].user = poster /\ messages[m].data # NoData}
  <2>1. work' = work /\ doomed \in SUBSET Ids /\ DeleteMessages(doomed)
    BY <1>8 DEF DeleteAllPosts
  <2> HIDE DEF doomed
  <2>2. NobodyAdmitted
    BY <2>1 DEF NobodyAdmitted, Reacting
  <2> QED BY <2>1, <2>2, DeleteIsLate
<1>9. ASSUME NEW u \in Users, Ban(u) \/ Unban(u)
      PROVE  \A m \in Ids : LateStep(m)
  BY <1>9, QuietIsLate DEF Ban, Unban, logVars, BodiesStay, NobodyAdmitted, Reacting
<1> QED BY <1>7, <1>8, <1>9, Zenon DEF Next

\* However old the checks: a deletion takes the reactions of its message with it, and what
\* it gets after that is of requests that were past their check, one reaction each.
THEOREM LateReactionsAreFew == Spec => LateReactionsHold
<1>1. Inv /\ [Next]_vars => [\A m \in Ids : LateStep(m)]_vars
  BY NextIsLate
<1> QED BY <1>1, InvHolds, PTL DEF Spec, LateReactionsHold, LateStep

=============================================================================
