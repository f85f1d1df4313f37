------------------------------ MODULE FilesProofs ------------------------------
(* Theorems about Files, for any users, messages, expiries, clock and uploads.   *)
EXTENDS Files, TLAPS

USE FilesAssumption

-----------------------------------------------------------------------------
(* The inductive invariant.                                                  *)

\* A row is what its message, the image and the pins make of it.
RowGood(f) ==
    /\ files[f] \in Row
    /\ files[f].uploaded <= now
    /\ files[f].message # None => poster[files[f].message] = files[f].uploader
    /\ files[f].expiry = Never => f = image \/ files[f].message \in pinned
    /\ files[f].message \in Live /\ f \notin wasImage /\ files[f].expiry # Never
         => files[f].expiry >= files[f].uploaded + Default

Rows == \A f \in DOMAIN files : RowGood(f)

Tables ==
    /\ poster \in [Messages -> Users \cup {None}]
    /\ deleted \subseteq Messages
    /\ pinned \subseteq Live
    /\ image \in DOMAIN files \cup {None}
    /\ now \in Nat

\* Every row has its file, now and when the mule is done, and so will the open upload,
\* but for ids that were given again.
Store ==
    /\ DOMAIN files \subseteq FileIds
    /\ disk \subseteq FileIds
    /\ unlinking \subseteq FileIds
    /\ DOMAIN files \ disk \subseteq reused
    /\ DOMAIN files \cap unlinking \subseteq reused
    /\ upload # None => /\ upload.id \in FileIds \ DOMAIN files
                        /\ upload.id \in disk \cup reused
                        /\ upload.id \in unlinking => upload.id \in reused
                        /\ upload.uploader \in Users

\* What a poll has loaded is still so if info_updates is.
Seen ==
    /\ client \in Info
    /\ load \in Info \cup {None}
    /\ client.same => client.image = image /\ client.pins = pinned
    /\ load # None /\ load.same => load.image = image

IInv == Rows /\ Tables /\ Store /\ Seen

-----------------------------------------------------------------------------
(* Lemmas.                                                                   *)

\* A row given another expiry.
LEMMA ExpiryOfRow ==
    ASSUME NEW row \in Row, NEW e \in Nat \cup {Never}
    PROVE  /\ [row EXCEPT !.expiry = e] \in Row
           /\ [row EXCEPT !.expiry = e].expiry = e
           /\ [row EXCEPT !.expiry = e].message = row.message
           /\ [row EXCEPT !.expiry = e].uploader = row.uploader
           /\ [row EXCEPT !.expiry = e].uploaded = row.uploaded
  BY DEF Row

LEMMA RowFields ==
    ASSUME NEW row \in Row
    PROVE  /\ row.uploader \in Users
           /\ row.message \in Messages \cup {None}
           /\ row.uploaded \in Nat
           /\ row.expiry \in Nat \cup {Never}
  BY DEF Row

\* What a counted update of info_updates leaves of what a client and a poll know.
LEMMA InfoUpdatedSeen ==
    ASSUME client \in Info, load \in Info \cup {None}, InfoUpdated
    PROVE  /\ client' \in Info /\ ~client'.same
           /\ load' \in Info \cup {None}
           /\ load' # None => ~load'.same
<1>1. ASSUME NEW i \in Info
      PROVE  [i EXCEPT !.same = FALSE] \in Info /\ ~[i EXCEPT !.same = FALSE].same
  BY DEF Info
<1>2. client' \in Info /\ ~client'.same
  BY <1>1 DEF InfoUpdated
<1>3. CASE load = None
  BY <1>2, <1>3 DEF InfoUpdated
<1>4. CASE load # None
  BY <1>1, <1>2, <1>4 DEF InfoUpdated
<1> QED
  BY <1>2, <1>3, <1>4

LEMMA SeenAfter ==
    ASSUME Seen, NEW changed \in BOOLEAN, InfoUpdatedIf(changed),
           ~changed => image' = image /\ pinned' = pinned
    PROVE  Seen'
<1>1. CASE changed
  BY <1>1, InfoUpdatedSeen DEF Seen, InfoUpdatedIf
<1>2. CASE ~changed
  BY <1>2 DEF Seen, InfoUpdatedIf
<1> QED
  BY <1>1, <1>2

\* Nothing that is stored moves while rows are only given other expiries and messages.
LEMMA StoreSame ==
    ASSUME Store, DOMAIN files' = DOMAIN files, UNCHANGED <<disk, unlinking, upload, reused>>
    PROVE  Store'
  BY DEF Store

-----------------------------------------------------------------------------
(* Uploads.                                                                  *)

LEMMA BeginUploadPreserves ==
    ASSUME IInv, NEW u \in Users, NEW id \in FileIds, BeginUpload(u, id)
    PROVE  IInv'
<1>1. /\ upload' = [id |-> id, uploader |-> u]
      /\ disk' = disk \cup {id}
      /\ reused' = IF id \in unlinking THEN reused \cup {id} ELSE reused \ {id}
      /\ UNCHANGED <<files, poster, deleted, pinned, image, wasImage, unlinking, client, load, now>>
  BY DEF BeginUpload
<1>2. Rows' /\ Tables'
  BY <1>1 DEF IInv, Rows, RowGood, Tables, Live
<1>3. Store'
  <2>1. id \notin DOMAIN files
    <3>1. \A f \in DOMAIN files : f < id
      BY DEF BeginUpload, IsNext
    <3> QED
      BY <3>1 DEF FileIds
  <2>2. upload'.id = id /\ upload'.uploader = u
    BY <1>1
  <2>3. reused \ {id} \subseteq reused' /\ (id \in unlinking => id \in reused')
    BY <1>1
  <2> QED
    BY <1>1, <2>1, <2>2, <2>3 DEF IInv, Store
<1>4. Seen'
  BY <1>1 DEF IInv, Seen
<1> QED
  BY <1>2, <1>3, <1>4 DEF IInv

LEMMA CommitUploadPreserves ==
    ASSUME IInv, CommitUpload
    PROVE  IInv'
<1> DEFINE row == [uploader |-> upload.uploader, message |-> None,
                   uploaded |-> now, expiry |-> now + Recent]
<1>1. /\ upload # None
      /\ files' = [f \in DOMAIN files \cup {upload.id} |->
                     IF f = upload.id THEN row ELSE files[f]]
      /\ upload' = None
      /\ wasImage' = wasImage \ {upload.id}
      /\ UNCHANGED <<poster, deleted, pinned, image, reused, disk, unlinking, client, load, now>>
  BY DEF CommitUpload
<1>2. DOMAIN files' = DOMAIN files \cup {upload.id}
  BY <1>1
<1>3. upload.uploader \in Users /\ upload.id \notin DOMAIN files /\ now \in Nat
  BY <1>1 DEF IInv, Store, Tables
<1>4. row \in Row /\ row.message = None /\ row.expiry # Never /\ row.uploaded = now
  BY <1>3 DEF Row
<1> HIDE DEF row
<1>5. files'[upload.id] = row /\ \A f \in DOMAIN files : files'[f] = files[f]
  BY <1>1, <1>3
<1>6. Rows'
  <2>1. ASSUME NEW f \in DOMAIN files PROVE RowGood(f)'
    <3>1. files'[f] = files[f] /\ RowGood(f)
      BY <1>5 DEF IInv, Rows
    <3>2. f \in wasImage' <=> f \in wasImage
      BY <1>1, <1>3, <2>1
    <3> QED
      BY <1>1, <3>1, <3>2 DEF RowGood, Live
  <2>2. ASSUME NEW f, f = upload.id PROVE RowGood(f)'
    <3>1. files'[f] = row
      BY <1>5, <2>2
    <3>2. None \notin Live'
      BY DEF Live
    <3> QED
      BY <1>1, <1>3, <1>4, <3>1, <3>2 DEF RowGood
  <2> QED
    BY <1>2, <2>1, <2>2 DEF Rows
<1>7. Tables'
  BY <1>1, <1>2 DEF IInv, Tables, Live
<1>8. Store'
  BY <1>1, <1>2 DEF IInv, Store
<1>9. Seen'
  BY <1>1 DEF IInv, Seen
<1> QED
  BY <1>6, <1>7, <1>8, <1>9 DEF IInv

LEMMA UploadEndsPreserve ==
    ASSUME IInv, FailUpload \/ Restart
    PROVE  IInv'
<1>1. UNCHANGED tables /\ now' = now
  BY DEF FailUpload, Restart
<1>2. Rows' /\ Tables'
  BY <1>1 DEF tables, history, IInv, Rows, RowGood, Tables, Live
<1>3. Store'
  <2>1. upload' = None /\ UNCHANGED <<files, reused>> /\ unlinking' \subseteq unlinking
    BY DEF FailUpload, Restart, tables, history
  <2>2. disk' \subseteq disk /\ DOMAIN files \ disk' \subseteq reused
    BY DEF FailUpload, Restart, IInv, Store
  <2> QED
    BY <2>1, <2>2 DEF IInv, Store
<1>4. Seen'
  BY DEF FailUpload, Restart, tables, IInv, Seen
<1> QED
  BY <1>2, <1>3, <1>4 DEF IInv

-----------------------------------------------------------------------------
(* Messages.                                                                 *)

\* What _own_files makes of a row of the same uploader.
LEMMA OwnedRows ==
    ASSUME IInv, NEW m \in Messages, NEW u \in Users, NEW F, files' = Owned(F, m, u),
           poster[m] \in {None, u}, poster' = [poster EXCEPT ![m] = u],
           UNCHANGED <<deleted, pinned, image, wasImage, now>>
    PROVE  Rows' /\ DOMAIN files' = DOMAIN files
<1>1. DOMAIN files' = DOMAIN files
  BY DEF Owned
<1>2. ASSUME NEW f \in DOMAIN files PROVE RowGood(f)'
  <2>0. RowGood(f) /\ files[f] \in Row
    BY DEF IInv, Rows, RowGood
  <2>1. now \in Nat
    BY DEF IInv, Tables
  <2>2. CASE files'[f] = files[f]
    <3>1. files[f].message # None => files[f].message \in Messages /\ files[f].uploader \in Users
      BY <2>0, RowFields
    <3>2. files[f].message # None => poster'[files[f].message] = files[f].uploader
      BY <2>0, <3>1 DEF RowGood, IInv, Tables
    <3>3. files[f].message \in Live' => files[f].message \in Live
      <4>1. files[f].message # None => poster[files[f].message] # None
        BY <2>0, <3>1 DEF RowGood
      <4> QED
        BY <4>1 DEF Live
    <3> QED
      BY <2>0, <2>2, <3>2, <3>3 DEF RowGood
  <2>3. CASE files'[f] # files[f]
    <3> DEFINE r == [files[f] EXCEPT !.message = m, !.expiry = now + Default]
    <3>1. files'[f] = r /\ files[f].uploader = u
      BY <2>3 DEF Owned
    <3>2. now + Default \in Nat
      BY <2>1
    <3>3. r \in Row /\ r.expiry = now + Default /\ r.message = m /\ r.uploader = u
            /\ r.uploaded = files[f].uploaded
      BY <2>0, <3>1, <3>2 DEF Row
    <3> HIDE DEF r
    <3>4. r.uploaded <= now /\ r.uploaded \in Nat
      BY <2>0, <3>3, RowFields DEF RowGood
    <3>5. r.expiry # Never /\ r.expiry >= r.uploaded + Default
      BY <2>1, <3>2, <3>3, <3>4
    <3> QED
      BY <3>1, <3>3, <3>4, <3>5 DEF RowGood, IInv, Tables
  <2> QED
    BY <2>2, <2>3
<1> QED
  BY <1>1, <1>2 DEF Rows

LEMMA AddPostPreserves ==
    ASSUME IInv, NEW u \in Users, NEW m \in Messages, NEW F, AddPost(u, m, F)
    PROVE  IInv'
<1>1. /\ poster[m] = None
      /\ poster' = [poster EXCEPT ![m] = u]
      /\ files' = Owned(F, m, u)
      /\ UNCHANGED <<deleted, pinned, image, wasImage, reused, disk, upload, unlinking, client, load, now>>
  BY DEF AddPost, history
<1>2. Rows' /\ DOMAIN files' = DOMAIN files
  BY <1>1, OwnedRows
<1>3. Tables'
  BY <1>1, <1>2 DEF IInv, Tables, Live
<1>4. Store' /\ Seen'
  BY <1>1, <1>2 DEF IInv, Store, Seen
<1> QED
  BY <1>2, <1>3, <1>4 DEF IInv

LEMMA EditPostPreserves ==
    ASSUME IInv, NEW m \in Messages, NEW F, EditPost(m, F)
    PROVE  IInv'
<1>1. /\ m \in Live
      /\ files' = Owned(F, m, poster[m])
      /\ UNCHANGED <<poster, deleted, pinned, image, wasImage, reused, disk, upload, unlinking, client, load, now>>
  BY DEF EditPost, history
<1>2. poster[m] \in Users /\ poster' = [poster EXCEPT ![m] = poster[m]]
  BY <1>1 DEF IInv, Tables, Live
<1>3. Rows' /\ DOMAIN files' = DOMAIN files
  BY <1>1, <1>2, OwnedRows
<1>4. Tables'
  BY <1>1, <1>3 DEF IInv, Tables, Live
<1>5. Store' /\ Seen'
  BY <1>1, <1>3 DEF IInv, Store, Seen
<1> QED
  BY <1>3, <1>4, <1>5 DEF IInv

\* Rows of F are given the expiry e(f) and the others are not, while messages go or pins
\* change: what this has to leave as it is, and what it has to see to.
LEMMA ExpiringRows ==
    ASSUME IInv, NEW F, NEW e,
           files' = [f \in DOMAIN files |->
                       IF f \in F THEN [files[f] EXCEPT !.expiry = e[f]] ELSE files[f]],
           \A f \in F : e[f] \in Nat \cup {Never},
           UNCHANGED <<poster, now>>, wasImage \subseteq wasImage', Live' \subseteq Live,
           \A f \in DOMAIN files \ F : files[f].expiry = Never
               => f = image' \/ files[f].message \in pinned',
           \A f \in DOMAIN files \cap F : e[f] = Never
               => f = image' \/ files[f].message \in pinned',
           \A f \in DOMAIN files \cap F : e[f] # Never
               => \/ files[f].message \notin Live'
                  \/ f \in wasImage'
                  \/ e[f] >= files[f].uploaded + Default
    PROVE  Rows' /\ DOMAIN files' = DOMAIN files
<1>1. DOMAIN files' = DOMAIN files
  OBVIOUS
<1>2. ASSUME NEW f \in DOMAIN files PROVE RowGood(f)'
  <2>1. RowGood(f) /\ files[f] \in Row
    BY DEF IInv, Rows, RowGood
  <2>2. CASE f \notin F
    <3>1. files'[f] = files[f]
      BY <2>2
    <3> QED
      BY <2>1, <2>2, <3>1 DEF RowGood
  <2>3. CASE f \in F
    <3> DEFINE r == [files[f] EXCEPT !.expiry = e[f]]
    <3>1. files'[f] = r
      BY <2>3
    <3>2. r \in Row /\ r.expiry = e[f] /\ r.message = files[f].message
            /\ r.uploader = files[f].uploader /\ r.uploaded = files[f].uploaded
      BY <2>1, <2>3, ExpiryOfRow
    <3> HIDE DEF r
    <3> QED
      BY <2>1, <2>3, <3>1, <3>2 DEF RowGood
  <2> QED
    BY <2>2, <2>3
<1> QED
  BY <1>1, <1>2 DEF Rows

LEMMA DeletePostPreserves ==
    ASSUME IInv, NEW m \in Messages, DeletePost(m)
    PROVE  IInv'
<1> DEFINE e == [f \in DOMAIN files |-> 0]
<1>1. /\ m \in Live
      /\ deleted' = deleted \cup {m}
      /\ pinned' = pinned \ {m}
      /\ InfoUpdatedIf(m \in pinned)
      /\ UNCHANGED <<poster, image, wasImage, reused, disk, upload, unlinking, now>>
  BY DEF DeletePost, history
<1>2. files' = [f \in DOMAIN files |->
                  IF f \in Of({m}) THEN [files[f] EXCEPT !.expiry = 0] ELSE files[f]]
  BY DEF DeletePost, Expiring, AtOnce
<1>3. files' = [f \in DOMAIN files |->
                  IF f \in Of({m}) THEN [files[f] EXCEPT !.expiry = e[f]] ELSE files[f]]
  BY <1>2
<1>4. Live' = Live \ {m}
  BY <1>1 DEF Live
<1>5. \A f \in Of({m}) : f \in DOMAIN files /\ files[f].message = m
  BY DEF Of
<1>6. \A f \in DOMAIN files : files[f].message = m => f \in Of({m})
  BY DEF Of
<1>7. \A f \in DOMAIN files : files[f].expiry = Never => f = image \/ files[f].message \in pinned
  BY DEF IInv, Rows, RowGood
<1>8. \A f \in Of({m}) : e[f] = 0
  BY <1>5
<1> HIDE DEF e
<1>9. Rows' /\ DOMAIN files' = DOMAIN files
  <2>1. \A f \in DOMAIN files \ Of({m}) : files[f].expiry = Never
          => f = image' \/ files[f].message \in pinned'
    BY <1>1, <1>6, <1>7
  <2>2. \A f \in Of({m}) : e[f] \in Nat /\ e[f] # Never /\ files[f].message \notin Live'
    BY <1>4, <1>5, <1>8
  <2>3. Live' \subseteq Live
    BY <1>4
  <2> QED
    BY <1>1, <1>3, <2>1, <2>2, <2>3, ExpiringRows
<1>10. Tables'
  BY <1>1, <1>4, <1>9 DEF IInv, Tables
<1>11. Store'
  BY <1>1, <1>9, StoreSame DEF IInv
<1>12. Seen'
  <2>1. (m \in pinned) \in BOOLEAN /\ (m \notin pinned => pinned' = pinned)
    BY <1>1
  <2> QED
    BY <1>1, <2>1, SeenAfter DEF IInv
<1> QED
  BY <1>9, <1>10, <1>11, <1>12 DEF IInv

LEMMA DeleteAllPostsPreserves ==
    ASSUME IInv, NEW u \in Users, DeleteAllPosts(u)
    PROVE  IInv'
<1> DEFINE M == {m \in Live : poster[m] = u}
           F == {f \in DOMAIN files : files[f].uploader = u} \cup Of(M)
           e == [f \in DOMAIN files |-> 0]
<1>1. /\ deleted' = deleted \cup M
      /\ pinned' = pinned \ M
      /\ InfoUpdatedIf(M \cap pinned # {})
      /\ UNCHANGED <<poster, image, wasImage, reused, disk, upload, unlinking, now>>
  BY DEF DeleteAllPosts, history
<1>2. files' = [f \in DOMAIN files |->
                  IF f \in F THEN [files[f] EXCEPT !.expiry = 0] ELSE files[f]]
  BY DEF DeleteAllPosts, Expiring, AtOnce
<1>3. F \subseteq DOMAIN files /\ M \subseteq Live
  BY DEF Of
<1>4. \A f \in DOMAIN files \ F : files[f].uploader # u /\ files[f].message \notin M
  BY DEF Of
<1>5. \A f \in F : files[f].message \notin Live \ M
  <2>1. \A f \in DOMAIN files : files[f].message \in Live => poster[files[f].message] = files[f].uploader
    BY DEF IInv, Rows, RowGood, Live
  <2>2. \A f \in F : files[f].uploader = u \/ files[f].message \in M
    BY DEF Of
  <2> QED
    BY <1>3, <2>1, <2>2
<1>6. \A f \in F : e[f] = 0
  BY <1>3
<1>7. files' = [f \in DOMAIN files |->
                  IF f \in F THEN [files[f] EXCEPT !.expiry = e[f]] ELSE files[f]]
  BY <1>2
<1>8. Live' = Live \ M
  BY <1>1 DEF Live
<1>9. \A f \in DOMAIN files : files[f].expiry = Never => f = image \/ files[f].message \in pinned
  BY DEF IInv, Rows, RowGood
<1> HIDE DEF e, F, M
<1>10. Rows' /\ DOMAIN files' = DOMAIN files
  <2>1. \A f \in DOMAIN files \ F : files[f].expiry = Never
          => f = image' \/ files[f].message \in pinned'
    BY <1>1, <1>4, <1>9
  <2>2. \A f \in F : e[f] \in Nat /\ e[f] # Never /\ files[f].message \notin Live'
    BY <1>5, <1>6, <1>8
  <2>3. Live' \subseteq Live
    BY <1>8
  <2> QED
    BY <1>1, <1>7, <2>1, <2>2, <2>3, ExpiringRows
<1>11. deleted' \subseteq Messages
  BY <1>1, <1>3 DEF IInv, Tables, Live
<1>12. Tables'
  BY <1>1, <1>8, <1>10, <1>11 DEF IInv, Tables
<1>13. Store'
  BY <1>1, <1>10, StoreSame DEF IInv
<1>14. Seen'
  <2>1. M \cap pinned = {} => pinned' = pinned
    BY <1>1
  <2> QED
    BY <1>1, <2>1, SeenAfter DEF IInv
<1> QED
  BY <1>10, <1>12, <1>13, <1>14 DEF IInv

-----------------------------------------------------------------------------
(* Pins.                                                                     *)

LEMMA PinPreserves ==
    ASSUME IInv, NEW m \in Messages, Pin(m)
    PROVE  IInv'
<1> DEFINE e == [f \in DOMAIN files |-> Never]
<1>1. /\ m \in Live
      /\ pinned' = pinned \cup {m}
      /\ InfoUpdated
      /\ UNCHANGED <<poster, deleted, image, wasImage, reused, disk, upload, unlinking, now>>
  BY DEF Pin, history
<1>2. files' = [f \in DOMAIN files |->
                  IF f \in Of({m}) THEN [files[f] EXCEPT !.expiry = Never] ELSE files[f]]
  BY DEF Pin, Expiring, Kept
<1>3. \A f \in Of({m}) : f \in DOMAIN files /\ files[f].message = m
  BY DEF Of
<1>4. files' = [f \in DOMAIN files |->
                  IF f \in Of({m}) THEN [files[f] EXCEPT !.expiry = e[f]] ELSE files[f]]
  BY <1>2
<1>5. \A f \in Of({m}) : e[f] = Never
  BY <1>3
<1>6. Live' = Live
  BY <1>1 DEF Live
<1>7. \A f \in DOMAIN files : files[f].expiry = Never => f = image \/ files[f].message \in pinned
  BY DEF IInv, Rows, RowGood
<1> HIDE DEF e
<1>8. Rows' /\ DOMAIN files' = DOMAIN files
  BY <1>1, <1>3, <1>4, <1>5, <1>6, <1>7, ExpiringRows
<1>9. Tables'
  BY <1>1, <1>6, <1>8 DEF IInv, Tables
<1>10. Store'
  BY <1>1, <1>8, StoreSame DEF IInv
<1>11. Seen'
  BY <1>1, SeenAfter DEF IInv, InfoUpdatedIf
<1> QED
  BY <1>8, <1>9, <1>10, <1>11 DEF IInv

LEMMA UnpinsPreserve ==
    ASSUME IInv, NEW M \in SUBSET Messages, pinned' = pinned \ M,
           files' = Expiring(Of(M), SinceUpload), InfoUpdatedIf(M \cap pinned # {}),
           UNCHANGED <<poster, deleted, image, wasImage, reused, disk, upload, unlinking, now>>
    PROVE  IInv'
<1> DEFINE e == [f \in DOMAIN files |-> files[f].uploaded + Default]
<1>2. files' = [f \in DOMAIN files |->
                  IF f \in Of(M) THEN [files[f] EXCEPT !.expiry = files[f].uploaded + Default] ELSE files[f]]
  BY DEF Expiring, SinceUpload
<1>3. \A f \in Of(M) : f \in DOMAIN files /\ files[f].message \in M
  BY DEF Of
<1>4. \A f \in DOMAIN files : files[f].message \in M => f \in Of(M)
  BY DEF Of
<1>5. files' = [f \in DOMAIN files |->
                  IF f \in Of(M) THEN [files[f] EXCEPT !.expiry = e[f]] ELSE files[f]]
  BY <1>2
<1>6. \A f \in Of(M) : e[f] = files[f].uploaded + Default /\ files[f].uploaded \in Nat
  BY <1>3 DEF IInv, Rows, RowGood, Row
<1>7. Live' = Live
  BY DEF Live
<1>8. \A f \in DOMAIN files : files[f].expiry = Never => f = image \/ files[f].message \in pinned
  BY DEF IInv, Rows, RowGood
<1> HIDE DEF e
<1>9. \A f \in Of(M) : e[f] \in Nat /\ e[f] # Never /\ e[f] >= files[f].uploaded + Default
  BY <1>6
<1>10. Rows' /\ DOMAIN files' = DOMAIN files
  BY <1>3, <1>4, <1>5, <1>7, <1>8, <1>9, ExpiringRows
<1>11. Tables'
  BY <1>7, <1>10 DEF IInv, Tables
<1>12. Store'
  BY <1>10, StoreSame DEF IInv
<1>13. Seen'
  <2>1. M \cap pinned = {} => pinned' = pinned
    OBVIOUS
  <2> QED
    BY <2>1, SeenAfter DEF IInv
<1> QED
  BY <1>10, <1>11, <1>12, <1>13 DEF IInv

LEMMA UnpinPreserves ==
    ASSUME IInv, NEW m \in Messages, Unpin(m)
    PROVE  IInv'
<1>1. InfoUpdatedIf({m} \cap pinned # {})
  <2>1. m \in pinned <=> {m} \cap pinned # {}
    OBVIOUS
  <2> QED
    BY <2>1 DEF Unpin, InfoUpdatedIf
<1> QED
  BY <1>1, UnpinsPreserve DEF Unpin, history

LEMMA UnpinAllPreserves ==
    ASSUME IInv, UnpinAll
    PROVE  IInv'
<1>1. pinned \in SUBSET Messages /\ pinned' = pinned \ pinned
  BY DEF UnpinAll, IInv, Tables, Live
<1>2. InfoUpdatedIf(pinned \cap pinned # {})
  BY DEF UnpinAll, InfoUpdatedIf
<1> QED
  BY <1>1, <1>2, UnpinsPreserve DEF UnpinAll, history

-----------------------------------------------------------------------------
(* The room image, the mule and the polls.                                   *)

LEMMA SetImagePreserves ==
    ASSUME IInv, NEW f \in FileIds, NEW seen, SetImage(f, seen)
    PROVE  IInv'
<1> DEFINE F == {g \in DOMAIN files : g = image \/ g = seen \/ g = f}
           e == [g \in DOMAIN files |-> IF g = image /\ g # f THEN 0
                                        ELSE IF g = seen THEN now + Default ELSE Never]
<1>1. /\ f \in DOMAIN files
      /\ image' = f
      /\ wasImage' = wasImage \cup ({image} \ {f, None})
      /\ InfoUpdatedIf(image # f)
      /\ UNCHANGED <<poster, deleted, pinned, reused, disk, upload, unlinking, now>>
  BY DEF SetImage, history
<1>2. files' = [g \in DOMAIN files |->
                  IF g \in F THEN [files[g] EXCEPT !.expiry = e[g]] ELSE files[g]]
  BY DEF SetImage
<1>3. now \in Nat /\ \A g \in DOMAIN files : files[g].uploaded \in Nat /\ files[g].uploaded <= now
  BY RowFields DEF IInv, Tables, Rows, RowGood
<1>4. \A g \in F : /\ g \in DOMAIN files
                   /\ e[g] \in Nat \cup {Never}
                   /\ e[g] = Never => g = f
  BY <1>3
<1>5. \A g \in F : e[g] # Never => g \in wasImage' \/ e[g] >= files[g].uploaded + Default
  <2> SUFFICES ASSUME NEW g \in F, e[g] # Never
               PROVE  g \in wasImage' \/ e[g] >= files[g].uploaded + Default
    OBVIOUS
  <2>1. CASE g = image /\ g # f
    <3>1. g # None
      BY <1>4 DEF IInv, Store, FileIds
    <3> QED
      BY <1>1, <2>1, <3>1
  <2>2. CASE ~(g = image /\ g # f)
    <3>1. e[g] = now + Default
      BY <2>2
    <3>2. files[g].uploaded \in Nat /\ files[g].uploaded <= now /\ now \in Nat /\ Default \in Nat
      BY <1>3 DEF FilesAssumption
    <3> HIDE DEF e, F
    <3> QED
      BY <3>1, <3>2
  <2> QED
    BY <2>1, <2>2
<1>6. \A g \in DOMAIN files \ F : files[g].expiry = Never
        => g = image' \/ files[g].message \in pinned'
  <2>1. \A g \in DOMAIN files \ F : g # image
    OBVIOUS
  <2> QED
    BY <1>1, <2>1 DEF IInv, Rows, RowGood
<1>7. Live' = Live
  BY <1>1 DEF Live
<1> HIDE DEF F, e
<1>8. Rows' /\ DOMAIN files' = DOMAIN files
  BY <1>1, <1>2, <1>4, <1>5, <1>6, <1>7, ExpiringRows
<1>9. Tables'
  BY <1>1, <1>7, <1>8 DEF IInv, Tables
<1>10. Store'
  BY <1>1, <1>8, StoreSame DEF IInv
<1>11. Seen'
  <2>1. (image # f) \in BOOLEAN /\ (image = f => image' = image /\ pinned' = pinned)
    BY <1>1
  <2> QED
    BY <1>1, <2>1, SeenAfter DEF IInv
<1> QED
  BY <1>8, <1>9, <1>10, <1>11 DEF IInv

LEMMA PruneFilesPreserves ==
    ASSUME IInv, PruneFiles
    PROVE  IInv'
<1> DEFINE F == {f \in DOMAIN files : Expired(f)}
<1>1. /\ unlinking = {}
      /\ files' = [f \in DOMAIN files \ F |-> files[f]]
      /\ unlinking' = F
      /\ image' = IF image \in F THEN None ELSE image
      /\ InfoUpdatedIf(image \in F)
      /\ UNCHANGED <<poster, deleted, pinned, wasImage, reused, disk, upload, now>>
  BY DEF PruneFiles, history
<1> HIDE DEF F
<1>2. DOMAIN files' = DOMAIN files \ F /\ \A f \in DOMAIN files' : files'[f] = files[f]
  BY <1>1
<1>3. Rows'
  <2> SUFFICES ASSUME NEW f \in DOMAIN files' PROVE RowGood(f)'
    BY DEF Rows
  <2>1. f \in DOMAIN files \ F /\ files'[f] = files[f]
    BY <1>2
  <2>2. RowGood(f)
    BY <2>1 DEF IInv, Rows
  <2>3. f = image => f = image'
    BY <1>1, <2>1
  <2>4. Live' = Live
    BY <1>1 DEF Live
  <2> QED
    BY <1>1, <2>1, <2>2, <2>3, <2>4 DEF RowGood
<1>4. Tables'
  <2>1. image' \in DOMAIN files' \cup {None}
    BY <1>1, <1>2 DEF IInv, Tables
  <2> QED
    BY <1>1, <2>1 DEF IInv, Tables, Live
<1>5. Store'
  <2>1. F \subseteq DOMAIN files
    BY DEF F
  <2> QED
    BY <1>1, <1>2, <2>1 DEF IInv, Store
<1>6. Seen'
  <2>1. (image \in F) \in BOOLEAN /\ (image \notin F => image' = image /\ pinned' = pinned)
    BY <1>1
  <2> QED
    BY <1>1, <2>1, SeenAfter DEF IInv
<1> QED
  BY <1>3, <1>4, <1>5, <1>6 DEF IInv

LEMMA UnlinkPreserves ==
    ASSUME IInv, NEW f \in FileIds, Unlink(f)
    PROVE  IInv'
<1>1. /\ f \in unlinking
      /\ disk' = disk \ {f}
      /\ unlinking' = unlinking \ {f}
      /\ UNCHANGED <<files, poster, deleted, pinned, image, wasImage, reused, upload, client, load, now>>
  BY DEF Unlink, tables, history
<1>2. Rows' /\ Tables'
  BY <1>1 DEF IInv, Rows, RowGood, Tables, Live
<1>3. Store'
  BY <1>1 DEF IInv, Store
<1>4. Seen'
  BY <1>1 DEF IInv, Seen
<1> QED
  BY <1>2, <1>3, <1>4 DEF IInv

LEMMA TickTimePreserves ==
    ASSUME IInv, TickTime
    PROVE  IInv'
<1>1. /\ now' = now + 1
      /\ UNCHANGED <<files, poster, deleted, pinned, image, wasImage, reused, disk, upload, unlinking,
                     client, load>>
  BY DEF TickTime, tables, history
<1>2. Rows'
  <2> SUFFICES ASSUME NEW f \in DOMAIN files PROVE RowGood(f)'
    BY <1>1 DEF Rows
  <2>1. RowGood(f) /\ now \in Nat /\ files[f].uploaded \in Nat
    BY RowFields DEF IInv, Rows, Tables, RowGood
  <2>2. files[f].uploaded <= now + 1
    BY <2>1 DEF RowGood
  <2>3. Live' = Live
    BY <1>1 DEF Live
  <2> QED
    BY <1>1, <2>1, <2>2, <2>3 DEF RowGood
<1>3. Tables'
  BY <1>1 DEF IInv, Tables, Live
<1>4. Store' /\ Seen'
  BY <1>1 DEF IInv, Store, Seen
<1> QED
  BY <1>2, <1>3, <1>4 DEF IInv

LEMMA PollsPreserve ==
    ASSUME IInv, LoadRoom \/ AnswerPoll
    PROVE  IInv'
<1>1. UNCHANGED <<files, poster, deleted, pinned, image, wasImage, reused, disk, upload, unlinking, now>>
  BY DEF LoadRoom, AnswerPoll, tables, history
<1>2. Rows' /\ Tables' /\ Store'
  BY <1>1 DEF IInv, Rows, RowGood, Tables, Live, Store
<1>3. image \in FileIds \cup {None} /\ pinned \subseteq Messages
  BY DEF IInv, Tables, Store, Live
<1>4. Seen'
  <2>1. CASE LoadRoom
    <3>1. load' = [image |-> image, pins |-> {}, same |-> TRUE] /\ UNCHANGED client
      BY <2>1 DEF LoadRoom
    <3>2. load' \in Info /\ load'.image = image
      BY <1>3, <3>1 DEF Info
    <3> QED
      BY <1>1, <3>1, <3>2 DEF IInv, Seen
  <2>2. CASE AnswerPoll
    <3>1. load # None /\ load \in Info /\ client' = [load EXCEPT !.pins = pinned] /\ load' = None
      BY <2>2 DEF AnswerPoll, IInv, Seen
    <3>2. /\ client' \in Info
          /\ client'.image = load.image
          /\ client'.pins = pinned
          /\ client'.same = load.same
      BY <1>3, <3>1 DEF Info
    <3> QED
      BY <1>1, <3>1, <3>2 DEF IInv, Seen
  <2> QED
    BY <2>1, <2>2
<1> QED
  BY <1>2, <1>4 DEF IInv

-----------------------------------------------------------------------------
(* The theorems.                                                             *)

LEMMA IInvInit == FilesInit => IInv
<1> SUFFICES ASSUME FilesInit PROVE IInv
  OBVIOUS
<1>1. DOMAIN files = {}
  BY DEF FilesInit
<1>2. client \in Info /\ client.image = None /\ client.pins = {}
  BY DEF FilesInit, Info
<1> QED
  BY <1>1, <1>2 DEF FilesInit, IInv, Rows, Tables, Store, Seen, Live

LEMMA IInvNext == ASSUME IInv, [FilesNext]_filesVars PROVE IInv'
<1>1. CASE \/ \E u \in Users, id \in FileIds : BeginUpload(u, id)
           \/ \E u \in Users : DeleteAllPosts(u)
  BY <1>1, BeginUploadPreserves, DeleteAllPostsPreserves
<1>2. CASE CommitUpload
  BY <1>2, CommitUploadPreserves
<1>3. CASE FailUpload \/ Restart
  BY <1>3, UploadEndsPreserve
<1>4. CASE \E u \in Users, m \in Messages, F \in SUBSET DOMAIN files : AddPost(u, m, F)
  BY <1>4, AddPostPreserves
<1>5. CASE \E m \in Messages, F \in SUBSET DOMAIN files : EditPost(m, F)
  BY <1>5, EditPostPreserves
<1>6. CASE \E m \in Messages : DeletePost(m) \/ Pin(m) \/ Unpin(m)
  BY <1>6, DeletePostPreserves, PinPreserves, UnpinPreserves
<1>7. CASE UnpinAll
  BY <1>7, UnpinAllPreserves
<1>8. CASE \E f \in FileIds, seen \in FileIds \cup {None} : SetImage(f, seen)
  BY <1>8, SetImagePreserves
<1>9. CASE \E f \in FileIds : Unlink(f)
  BY <1>9, UnlinkPreserves
<1>10. CASE PruneFiles
  BY <1>10, PruneFilesPreserves
<1>11. CASE TickTime
  BY <1>11, TickTimePreserves
<1>12. CASE LoadRoom \/ AnswerPoll
  BY <1>12, PollsPreserve
<1>13. CASE UNCHANGED filesVars
  BY <1>13 DEF filesVars, tables, history, IInv, Rows, RowGood, Tables, Store, Seen, Live
<1> QED
  BY <1>1, <1>2, <1>3, <1>4, <1>5, <1>6, <1>7, <1>8, <1>9, <1>10, <1>11, <1>12, <1>13
  DEF FilesNext, Mule

\* The inductive invariant.
THEOREM IInvHolds == FilesSpec => []IInv
<1>1. IInv /\ [FilesNext]_filesVars => IInv'
  BY IInvNext
<1> QED
  BY <1>1, IInvInit, PTL DEF FilesSpec

\* The rows keep their types; what is attached is of its message's author, what is pinned
\* is there, and the image is a row (the foreign keys and triggers of schema.sqlite).
THEOREM FilesTypeCorrect == FilesSpec => []FilesTypeOK
<1>1. IInv => FilesTypeOK
  <2> SUFFICES ASSUME IInv PROVE FilesTypeOK
    OBVIOUS
  <2>1. DOMAIN files \subseteq FileIds /\ disk \subseteq FileIds /\ unlinking \subseteq FileIds
    BY DEF IInv, Store
  <2>2. \A f \in DOMAIN files :
          /\ files[f] \in Row
          /\ files[f].message # None => poster[files[f].message] = files[f].uploader
    BY DEF IInv, Rows, RowGood
  <2> QED
    BY <2>1, <2>2 DEF IInv, Tables, Seen, FilesTypeOK
<1> QED
  BY <1>1, IInvHolds, PTL

\* Every row has its file, whatever uploads fail and whenever the server stops, unless its
\* id was given again while the mule was unlinking (Room.upload_file, prune_files).
THEOREM FilesAreThere == FilesSpec => []OnlyReusedLost
<1>1. IInv => OnlyReusedLost
  BY DEF IInv, Store, OnlyReusedLost
<1> QED
  BY <1>1, IInvHolds, PTL

\* Only the room image and the files of pinned messages are kept for ever (schema.sqlite,
\* messages_after_delete, room_image_update and the pin triggers).
THEOREM NothingIsForgotten == FilesSpec => []KeptForAReason
<1>1. IInv => KeptForAReason
  BY DEF IInv, Rows, RowGood, KeptForAReason
<1> QED
  BY <1>1, IInvHolds, PTL

\* A client whose info_updates is the room's knows the room's image and pins
\* (routes/rooms.py, poll_room_info).
THEOREM PollsAreCurrent == FilesSpec => []InfoCurrent
<1>1. IInv => InfoCurrent
  BY DEF IInv, Seen, InfoCurrent
<1> QED
  BY <1>1, IInvHolds, PTL

\* A file of a message that is there outlives its default expiry (cleanup.py,
\* prune_files).
THEOREM AttachmentsAreKept == FilesSpec => AttachmentsLast
<1> DEFINE Pruned(f) == files[f].message \in Live /\ f \notin wasImage
                          => files[f].uploaded + Default < now
<1>1. ASSUME IInv, [FilesNext]_filesVars, NEW f \in DOMAIN files \ DOMAIN files'
      PROVE  Pruned(f)
  <2>1. CASE PruneFiles
    <3>1. f \in DOMAIN files /\ Expired(f)
      BY <2>1 DEF PruneFiles
    <3>2. RowGood(f) /\ now \in Nat
      BY <1>1, <3>1 DEF IInv, Rows, Tables
    <3>3. /\ files[f].uploaded \in Nat
          /\ files[f].expiry \in Nat /\ files[f].expiry < now
      BY <3>1, <3>2, RowFields DEF RowGood, Expired
    <3>4. SUFFICES ASSUME files[f].message \in Live, f \notin wasImage
                   PROVE  files[f].uploaded + Default < now
      OBVIOUS
    <3>5. files[f].expiry >= files[f].uploaded + Default
      BY <3>2, <3>3, <3>4 DEF RowGood
    <3> QED
      BY <3>2, <3>3, <3>5
  <2>2. CASE ~PruneFiles
    <3>1. DOMAIN files \subseteq DOMAIN files'
      BY <1>1, <2>2 DEF FilesNext, Mule, BeginUpload, CommitUpload, FailUpload, Restart, AddPost, EditPost,
         DeletePost, DeleteAllPosts, Pin, Unpin, UnpinAll, SetImage, Unlink, TickTime, LoadRoom,
         AnswerPoll, filesVars, tables, history, Owned, Expiring
    <3> QED
      BY <3>1
  <2> QED
    BY <2>1, <2>2
<1>2. IInv /\ [FilesNext]_filesVars =>
        [\A f \in DOMAIN files \ DOMAIN files' :
            files[f].message \in Live /\ f \notin wasImage => files[f].uploaded + Default < now]_filesVars
  BY <1>1
<1> QED
  BY <1>2, IInvHolds, PTL DEF FilesSpec, AttachmentsLast

=============================================================================
