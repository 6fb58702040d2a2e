----------------------------- MODULE RecordsProofs -----------------------------
(***************************************************************************)
(* What the records of an office keep to, whoever changes them side by     *)
(* side and wherever it fails: what a transaction leaves in a store        *)
(* (Tables), what is decided about a person (People), the rooms, staff and *)
(* arrows an office is drawn with (Organisation), the keys of its services *)
(* (Credentials), and the documents on its desks (Documents).              *)
(***************************************************************************)
EXTENDS Tables, People, Organisation, Credentials, Documents, FiniteSetTheorems, SequenceTheorems,
        WellFoundedInduction, TLAPS

-------------------------------------------------------------------------------
(* Transactions, whichever store they run on: a version of its own for     *)
(* each, and the whole of one change or none of it.                        *)
(*                                                                         *)
(* The invariant says of an open transaction how the tables it works on    *)
(* differ from those that are there for good, step by step: in nothing,    *)
(* then in the version, then in one snapshot; and, unless somebody wrote   *)
(* outside meanwhile, in what it was asked to write and has written.  What *)
(* it says of versions holds until an old row of the office is put back.   *)

Apart(image) ==
  /\ \A s, t \in image.snapshots : s.version = t.version => s = t
  /\ \A s \in image.snapshots : s.version <= image.version

Edited(config, before) ==
  \E r \in Records, c \in Content : config = [before EXCEPT ![r] = c]

\* Records the transaction has read back are as it reads them.
ReadRight(t, image) == \A r \in Records : t.read[r] \in {NotRead, image.config[r]}

\* What it has put is what it was to restore, what it has not is as it was read.
Replaced(t, image) ==
  \A r \in Records : image.config[r] = IF r \in t.done THEN t.target[r] ELSE t.read[r]

\* The version and the snapshots of the tables it works on, against those there
\* for good.
Ahead(t, image, before, clash, old) ==
  /\ ~old => /\ t.step # "replace" => t.office \in {0, image.version}
             /\ image.version = IF t.step \in {"mutate", "bump", "survey"} THEN before.version
                                ELSE before.version + 1
  /\ t.step # "commit" => image.snapshots = before.snapshots
  /\ t.step = "commit" =>
       \E s \in Snapshot :
         /\ image.snapshots = before.snapshots \cup {s}
         /\ ~old => s.version = image.version
         /\ ~clash => s.config = image.config

\* And the records, when nobody wrote outside.
Written(t, image, before) ==
  /\ t.step = "mutate" => image.config = before.config
  /\ t.step = "bump" => Edited(image.config, before.config)
  /\ t.step \in {"survey", "read"} => ReadRight(t, image)
  /\ t.step = "replace" => Replaced(t, image)
  /\ t.step \in {"read", "commit"} =>
       IF t.kind = "restore" THEN image.config = t.target
       ELSE Edited(image.config, before.config)

Underway(t, image, before, clash, old) ==
  /\ t.step \in {"mutate", "bump"} => t.kind = "change"
  /\ t.step \in {"survey", "replace"} => t.kind = "restore"
  /\ t.step = "survey" => t.done = {}
  /\ Ahead(t, image, before, clash, old)
  /\ ~clash => Written(t, image, before)

TablesInv ==
  /\ TypeOK /\ crossed \in BOOLEAN /\ setBack \in BOOLEAN
  /\ ~setBack => Apart(Committed)
  /\ tx # NoTx => Underway(tx, Its, Committed, crossed, setBack)

-------------------------------------------------------------------------------
(* The images of a store.                                                      *)

LEMMA ImagesTyped ==
  ASSUME TypeOK
  PROVE  /\ stored \in Image /\ Committed \in Image
         /\ tx # NoTx => tx \in Transaction /\ Its \in Image /\ tx.image \in Image
         /\ stored = Committed \/ (tx # NoTx /\ stored = Its)
<1>1. stored \in Image /\ (tx # NoTx => tx \in Transaction)
  BY DEF TypeOK
<1>2. tx # NoTx => tx.image \in Image
  BY <1>1 DEF Transaction
<1> QED
  BY <1>1, <1>2 DEF Committed, Its

\* A write inside the transaction changes what it works on, and nothing that is
\* there for good.
LEMMA WritesInside ==
  ASSUME TableConstants, TypeOK, tx # NoTx, adapter' = adapter,
         NEW image \in Image, NEW now \in Transaction, now.image = tx.image,
         Writes(image, now)
  PROVE  /\ tx' \in Transaction /\ tx' # NoTx /\ stored' \in Image
         /\ Its' = image /\ Committed' = Committed
         /\ tx'.kind = now.kind /\ tx'.target = now.target /\ tx'.read = now.read
         /\ tx'.done = now.done /\ tx'.step = now.step /\ tx'.office = now.office
<1>1. stored \in Image
  BY DEF TypeOK
<1>2. CASE adapter = "memory"
  <2>1. tx' = [now EXCEPT !.image = image] /\ stored' = stored
    BY <1>2 DEF Writes
  <2>2. tx' \in Transaction /\ tx'.image = image /\ tx'.kind = now.kind
        /\ tx'.target = now.target /\ tx'.read = now.read
        /\ tx'.done = now.done /\ tx'.step = now.step /\ tx'.office = now.office
    BY <2>1 DEF Transaction
  <2>3. tx' # NoTx
    BY <2>2 DEF TableConstants
  <2> QED
    BY <1>1, <1>2, <2>1, <2>2, <2>3 DEF Its, Committed
<1>3. CASE adapter # "memory"
  <2>1. tx' = now /\ stored' = image
    BY <1>3 DEF Writes
  <2>2. tx' # NoTx
    BY <2>1 DEF TableConstants
  <2> QED
    BY <1>3, <2>1, <2>2 DEF Its, Committed
<1> QED
  BY <1>2, <1>3

\* A transaction under way leaves every snapshot its version.
LEMMA UnderwayApart ==
  ASSUME NEW t \in Transaction, NEW image \in Image, NEW before \in Image, NEW clash \in BOOLEAN,
         Apart(before), Ahead(t, image, before, clash, FALSE)
  PROVE  Apart(image)
<1>1. /\ image.version \in Nat /\ before.version \in Nat
      /\ \A s \in before.snapshots : s.version \in Nat
  BY DEF Image, Snapshot
<1>2. CASE t.step # "commit"
  <2>1. image.snapshots = before.snapshots /\ before.version <= image.version
    BY <1>1, <1>2 DEF Ahead
  <2> QED
    BY <1>1, <2>1 DEF Apart
<1>3. CASE t.step = "commit"
  <2>1. PICK s \in Snapshot : image.snapshots = before.snapshots \cup {s} /\ s.version = image.version
    BY <1>3 DEF Ahead
  <2>2. image.version = before.version + 1
    BY <1>3 DEF Ahead
  <2>3. \A u \in before.snapshots : u.version < s.version
    BY <1>1, <2>1, <2>2 DEF Apart
  <2> QED
    BY <1>1, <2>1, <2>2, <2>3 DEF Apart
<1> QED
  BY <1>2, <1>3

\* What a transaction under way is to its tables rests on their records, their
\* snapshots and, until an old row is put back, their versions.
LEMMA UnderwayAlike ==
  ASSUME NEW t, NEW image, NEW before, NEW image2, NEW before2, NEW clash, NEW old, NEW old2,
         Underway(t, image, before, clash, old),
         image2.config = image.config, image2.snapshots = image.snapshots,
         before2.config = before.config, before2.snapshots = before.snapshots,
         ~old2 => ~old /\ image2.version = image.version /\ before2.version = before.version
  PROVE  Underway(t, image2, before2, clash, old2)
<1>1. Ahead(t, image2, before2, clash, old2)
  BY DEF Underway, Ahead
<1>2. ~clash => Written(t, image2, before2)
  BY DEF Underway, Written, Edited, ReadRight, Replaced
<1> QED
  BY <1>1, <1>2 DEF Underway

-------------------------------------------------------------------------------
(* Each step, inside a transaction and outside.                                *)

\* The invariant after a write inside, from what it makes of the transaction.
LEMMA Kept ==
  ASSUME TablesInv, tx # NoTx, tx' # NoTx, tx' \in Transaction, stored' \in Image,
         Its' \in Image, Committed' = Committed, UNCHANGED <<adapter, requestVars>>,
         Underway(tx', Its', Committed, crossed, setBack)
  PROVE  TablesInv' /\ Committed' = Committed
<1>1. TypeOK'
  BY DEF TablesInv, TypeOK, requestVars
<1> QED
  BY <1>1 DEF TablesInv, requestVars

LEMMA MutateKeeps ==
  ASSUME TableConstants, TablesInv, NEW r \in Records, NEW c \in Content, Mutate(r, c)
  PROVE  TablesInv' /\ Committed' = Committed
<1> DEFINE image == [Its EXCEPT !.config[r] = c]
           now == Then("bump")
<1>1. TypeOK /\ tx # NoTx /\ tx.step = "mutate" /\ UNCHANGED <<adapter, requestVars>>
      /\ Writes(image, now)
  BY DEF Mutate, At, TablesInv
<1>2. tx \in Transaction /\ Its \in Image /\ Committed \in Image
  BY <1>1, ImagesTyped
<1>3. /\ image \in Image /\ image.version = Its.version /\ image.snapshots = Its.snapshots
      /\ image.config = [Its.config EXCEPT ![r] = c]
  BY <1>2 DEF Image, Config
<1>4. /\ now \in Transaction /\ now.image = tx.image /\ now.kind = tx.kind
      /\ now.step = "bump" /\ now.office = 0
  BY <1>2 DEF Then, Transaction, Unread
<1>5. /\ tx' \in Transaction /\ tx' # NoTx /\ stored' \in Image
      /\ Its' = image /\ Committed' = Committed
      /\ tx'.kind = now.kind /\ tx'.step = now.step /\ tx'.office = now.office
  <2> HIDE DEF image, now
  <2> QED
    BY <1>1, <1>3, <1>4, WritesInside
<1>6. Underway(tx, Its, Committed, crossed, setBack)
  BY <1>1 DEF TablesInv
<1>7. tx'.kind = "change" /\ tx'.step = "bump" /\ tx'.office = 0
  BY <1>1, <1>4, <1>5, <1>6 DEF Underway
<1>8. Ahead(tx', image, Committed, crossed, setBack)
  BY <1>1, <1>3, <1>6, <1>7 DEF Ahead, Underway
<1>9. ~crossed => Written(tx', image, Committed)
  BY <1>1, <1>3, <1>6, <1>7 DEF Underway, Written, Edited
<1>10. Underway(tx', Its', Committed, crossed, setBack)
  BY <1>5, <1>7, <1>8, <1>9 DEF Underway
<1> QED
  BY <1>1, <1>3, <1>5, <1>10, Kept

LEMMA ReadRecordKeeps ==
  ASSUME TableConstants, TablesInv, NEW r \in Records, ReadRecord(r)
  PROVE  TablesInv' /\ Committed' = Committed
<1>1. TypeOK /\ tx # NoTx /\ tx.step \in {"survey", "read"}
      /\ UNCHANGED <<adapter, stored, requestVars>>
      /\ tx' = [tx EXCEPT !.read[r] = Its.config[r]]
  BY DEF ReadRecord, At, TablesInv
<1>2. tx \in Transaction /\ Its \in Image /\ Committed \in Image /\ stored \in Image
  BY <1>1, ImagesTyped
<1>3. /\ tx' \in Transaction /\ tx'.image = tx.image /\ tx'.kind = tx.kind
      /\ tx'.step = tx.step /\ tx'.target = tx.target /\ tx'.office = tx.office
      /\ tx'.read = [tx.read EXCEPT ![r] = Its.config[r]]
  BY <1>1, <1>2 DEF Transaction, Image, Config
<1>4. tx' # NoTx
  BY <1>3 DEF TableConstants
<1>5. Its' = Its /\ Committed' = Committed
  BY <1>1, <1>3, <1>4 DEF Its, Committed
<1>6. Underway(tx, Its, Committed, crossed, setBack)
  BY <1>1 DEF TablesInv
<1>7. Ahead(tx', Its, Committed, crossed, setBack)
  BY <1>1, <1>3, <1>6 DEF Ahead, Underway
<1>8. ASSUME ~crossed PROVE Written(tx', Its, Committed)
  <2>1. ReadRight(tx, Its)
    BY <1>1, <1>6, <1>8 DEF Underway, Written
  <2>2. ReadRight(tx', Its)
    BY <1>2, <1>3, <2>1 DEF ReadRight, Transaction
  <2> QED
    BY <1>1, <1>3, <1>6, <1>8, <2>2 DEF Underway, Written
<1>9. Underway(tx', Its', Committed, crossed, setBack)
  BY <1>1, <1>3, <1>5, <1>6, <1>7, <1>8 DEF Underway
<1> QED
  BY <1>1, <1>2, <1>3, <1>4, <1>5, <1>9, Kept

LEMMA ReadOfficeKeeps ==
  ASSUME TableConstants, TablesInv, ReadOffice
  PROVE  TablesInv' /\ Committed' = Committed
<1>1. TypeOK /\ tx # NoTx /\ tx.step \in {"bump", "survey", "read"}
      /\ UNCHANGED <<adapter, stored, requestVars>>
      /\ tx' = [tx EXCEPT !.office = Its.version]
  BY DEF ReadOffice, At, TablesInv
<1>2. tx \in Transaction /\ Its \in Image /\ Committed \in Image /\ stored \in Image
  BY <1>1, ImagesTyped
<1>3. /\ tx' \in Transaction /\ tx'.image = tx.image /\ tx'.kind = tx.kind
      /\ tx'.step = tx.step /\ tx'.target = tx.target /\ tx'.office = Its.version
      /\ tx'.read = tx.read /\ tx'.done = tx.done
  BY <1>1, <1>2 DEF Transaction, Image
<1>4. tx' # NoTx
  BY <1>3 DEF TableConstants
<1>5. Its' = Its /\ Committed' = Committed
  BY <1>1, <1>3, <1>4 DEF Its, Committed
<1>6. Underway(tx, Its, Committed, crossed, setBack)
  BY <1>1 DEF TablesInv
<1>7. Ahead(tx', Its, Committed, crossed, setBack)
  BY <1>1, <1>3, <1>6 DEF Ahead, Underway
<1>8. ~crossed => Written(tx', Its, Committed)
  BY <1>1, <1>3, <1>6 DEF Underway, Written, ReadRight
<1>9. Underway(tx', Its', Committed, crossed, setBack)
  BY <1>1, <1>3, <1>5, <1>6, <1>7, <1>8 DEF Underway
<1> QED
  BY <1>1, <1>2, <1>3, <1>4, <1>5, <1>9, Kept

LEMMA BumpKeeps ==
  ASSUME TableConstants, TablesInv, Bump
  PROVE  TablesInv' /\ Committed' = Committed
<1> DEFINE image == [Its EXCEPT !.version = tx.office + 1]
           now == Bumped
<1>1. TypeOK /\ tx # NoTx /\ UNCHANGED <<adapter, requestVars>> /\ Writes(image, now)
      /\ (tx.step = "bump" \/ (tx.step = "survey" /\ \A r \in Records : tx.read[r] # NotRead))
      /\ tx.office # 0
  BY DEF Bump, At, TablesInv, Read
<1>2. tx \in Transaction /\ Its \in Image /\ Committed \in Image
  BY <1>1, ImagesTyped
<1>3. /\ image \in Image /\ image.version = tx.office + 1 /\ image.snapshots = Its.snapshots
      /\ image.config = Its.config
  BY <1>2 DEF Image, Transaction
<1>4. /\ now \in Transaction /\ now.image = tx.image /\ now.kind = tx.kind /\ now.target = tx.target
      /\ now.step = (IF tx.kind = "restore" THEN "replace" ELSE "read")
      /\ now.read = (IF tx.kind = "restore" THEN tx.read ELSE Unread)
      /\ now.kind = "restore" => now.done = tx.done /\ now.office = tx.office
      /\ now.kind # "restore" => now.office = 0
  <2>1. Unread \in [Records -> Content \cup {NotRead}]
    BY DEF Unread
  <2>2. CASE tx.kind = "restore"
    BY <1>2, <2>2 DEF Transaction, Bumped
  <2>3. CASE tx.kind # "restore"
    BY <1>2, <2>1, <2>3 DEF Transaction, Bumped, Then
  <2> QED
    BY <2>2, <2>3
<1>5. /\ tx' \in Transaction /\ tx' # NoTx /\ stored' \in Image
      /\ Its' = image /\ Committed' = Committed
      /\ tx'.kind = now.kind /\ tx'.step = now.step /\ tx'.target = now.target
      /\ tx'.read = now.read /\ tx'.done = now.done /\ tx'.office = now.office
  <2> HIDE DEF image, now
  <2> QED
    BY <1>1, <1>3, <1>4, WritesInside
<1>6. Underway(tx, Its, Committed, crossed, setBack)
  BY <1>1 DEF TablesInv
<1>7. CASE tx.step = "bump"
  <2>1. tx'.kind = "change" /\ tx'.step = "read" /\ tx'.read = Unread /\ tx'.office = 0
    BY <1>4, <1>5, <1>6, <1>7 DEF Underway
  <2>2. Ahead(tx', image, Committed, crossed, setBack)
    BY <1>1, <1>3, <1>6, <1>7, <2>1 DEF Ahead, Underway
  <2>3. ~crossed => Written(tx', image, Committed)
    BY <1>3, <1>6, <1>7, <2>1 DEF Underway, Written, ReadRight, Unread
  <2>4. Underway(tx', Its', Committed, crossed, setBack)
    BY <1>5, <2>1, <2>2, <2>3 DEF Underway
  <2> QED
    BY <1>1, <1>3, <1>5, <2>4, Kept
<1>8. CASE tx.step = "survey"
  <2>1. tx'.kind = "restore" /\ tx'.step = "replace" /\ tx'.read = tx.read /\ tx'.done = tx.done
    BY <1>4, <1>5, <1>6, <1>8 DEF Underway
  <2>2. Ahead(tx', image, Committed, crossed, setBack)
    BY <1>1, <1>3, <1>6, <1>8, <2>1 DEF Ahead, Underway
  <2>3. tx.done = {}
    BY <1>6, <1>8 DEF Underway
  <2>4. ~crossed => Replaced(tx', image)
    BY <1>1, <1>3, <1>6, <1>8, <2>1, <2>3 DEF Underway, Written, ReadRight, Replaced
  <2>5. Underway(tx', Its', Committed, crossed, setBack)
    BY <1>5, <2>1, <2>2, <2>4 DEF Underway, Written
  <2> QED
    BY <1>1, <1>3, <1>5, <2>5, Kept
<1> QED
  BY <1>1, <1>7, <1>8

LEMMA ReplaceRecordKeeps ==
  ASSUME TableConstants, TablesInv, NEW r \in Records, ReplaceRecord(r)
  PROVE  TablesInv' /\ Committed' = Committed
<1> DEFINE put == IF tx.target[r] = Absent /\ tx.read[r] = Absent THEN Its.config[r]
                  ELSE tx.target[r]
           with == [tx EXCEPT !.done = @ \cup {r}]
           image == [Its EXCEPT !.config[r] = put]
           now == IF with.done = Records THEN [with EXCEPT !.step = "read", !.office = 0, !.read = Unread, !.done = {}]
                  ELSE with
<1>1. /\ TypeOK /\ tx # NoTx /\ UNCHANGED <<adapter, requestVars>>
      /\ tx.step = "replace" /\ r \notin tx.done
  BY DEF ReplaceRecord, At, TablesInv
<1>2. tx \in Transaction /\ Its \in Image /\ Committed \in Image
  BY <1>1, ImagesTyped
<1>3. put \in Content
  BY <1>2 DEF Transaction, Image, Config
<1>4. /\ image \in Image /\ image.version = Its.version /\ image.snapshots = Its.snapshots
      /\ image.config = [Its.config EXCEPT ![r] = put]
  <2> HIDE DEF put
  <2> QED
    BY <1>2, <1>3 DEF Image, Config
<1>5. Underway(tx, Its, Committed, crossed, setBack) /\ tx.kind = "restore"
  BY <1>1 DEF TablesInv, Underway
\* Whether a record is put or was never there, it is then as the snapshot has it.
<1>6. ~crossed => \A q \in Records :
        image.config[q] = IF q \in tx.done \cup {r} THEN tx.target[q] ELSE tx.read[q]
  <2> SUFFICES ASSUME ~crossed, NEW q \in Records
               PROVE image.config[q] = IF q \in tx.done \cup {r} THEN tx.target[q] ELSE tx.read[q]
    OBVIOUS
  <2>1. \A u \in Records : Its.config[u] = IF u \in tx.done THEN tx.target[u] ELSE tx.read[u]
    BY <1>1, <1>5 DEF Underway, Written, Replaced
  <2>2. put = tx.target[r]
    BY <1>1, <2>1
  <2> HIDE DEF put
  <2> QED
    BY <1>2, <1>4, <2>1, <2>2 DEF Image, Config
<1>7. /\ with \in Transaction /\ with.image = tx.image /\ with.kind = tx.kind
      /\ with.target = tx.target /\ with.read = tx.read /\ with.step = "replace"
      /\ with.done = tx.done \cup {r}
  BY <1>1, <1>2 DEF Transaction
<1>8. Writes(image, now)
  BY DEF ReplaceRecord, Then
<1>9. CASE with.done # Records
  <2>1. now = with
    BY <1>9
  <2>2. /\ tx' \in Transaction /\ tx' # NoTx /\ stored' \in Image
        /\ Its' = image /\ Committed' = Committed
        /\ tx'.kind = "restore" /\ tx'.step = "replace" /\ tx'.target = tx.target
        /\ tx'.read = tx.read /\ tx'.done = tx.done \cup {r}
    <3> HIDE DEF image, now, with
    <3> QED
      BY <1>1, <1>4, <1>5, <1>7, <1>8, <2>1, WritesInside
  <2> HIDE DEF image
  <2>3. Ahead(tx', image, Committed, crossed, setBack)
    BY <1>1, <1>4, <1>5, <2>2 DEF Ahead, Underway
  <2>4. ~crossed => Replaced(tx', image)
    BY <1>6, <2>2 DEF Replaced
  <2>5. Underway(tx', Its', Committed, crossed, setBack)
    BY <2>2, <2>3, <2>4 DEF Underway, Written
  <2> QED
    BY <1>1, <1>4, <2>2, <2>5, Kept
<1>10. CASE with.done = Records
  <2> DEFINE after == [with EXCEPT !.step = "read", !.office = 0, !.read = Unread, !.done = {}]
  <2>1. now = after
    BY <1>10
  <2>2. /\ after \in Transaction /\ after.image = tx.image /\ after.kind = "restore"
        /\ after.step = "read" /\ after.target = tx.target /\ after.read = Unread
        /\ after.office = 0
    <3>1. Unread \in [Records -> Content \cup {NotRead}]
      BY DEF Unread
    <3> HIDE DEF with
    <3> QED
      BY <1>5, <1>7, <3>1 DEF Transaction
  <2>3. /\ tx' \in Transaction /\ tx' # NoTx /\ stored' \in Image
        /\ Its' = image /\ Committed' = Committed
        /\ tx'.kind = "restore" /\ tx'.step = "read" /\ tx'.target = tx.target
        /\ tx'.read = Unread /\ tx'.office = 0
    <3> HIDE DEF image, now, with, after
    <3> QED
      BY <1>1, <1>4, <1>8, <2>1, <2>2, WritesInside
  <2> HIDE DEF image
  <2>4. Ahead(tx', image, Committed, crossed, setBack)
    BY <1>1, <1>4, <1>5, <2>3 DEF Ahead, Underway
  <2>5. ~crossed => image.config = tx.target
    <3>1. \A q \in Records : q \in tx.done \cup {r}
      BY <1>7, <1>10
    <3>2. image.config \in [Records -> Content] /\ tx.target \in [Records -> Content]
      BY <1>2, <1>4 DEF Transaction, Image, Config
    <3> QED
      BY <1>6, <3>1, <3>2
  <2>6. ~crossed => Written(tx', image, Committed)
    BY <2>3, <2>5 DEF Written, ReadRight, Unread
  <2>7. Underway(tx', Its', Committed, crossed, setBack)
    BY <2>3, <2>4, <2>6 DEF Underway
  <2> QED
    BY <1>1, <1>4, <2>3, <2>7, Kept
<1> QED
  BY <1>9, <1>10

LEMMA TakeSnapshotKeeps ==
  ASSUME TableConstants, TablesInv, TakeSnapshot
  PROVE  TablesInv' /\ Committed' = Committed
<1> DEFINE s == [version |-> tx.office, config |-> tx.read]
           image == [Its EXCEPT !.snapshots = @ \cup {s}]
           now == Then("commit")
<1>1. TypeOK /\ tx # NoTx /\ tx.step = "read" /\ UNCHANGED <<adapter, requestVars>>
      /\ Writes(image, now) /\ tx.office # 0 /\ \A r \in Records : tx.read[r] # NotRead
  BY DEF TakeSnapshot, At, TablesInv, Read
<1>2. tx \in Transaction /\ Its \in Image /\ Committed \in Image
  BY <1>1, ImagesTyped
<1>3. tx.read \in Config /\ s \in Snapshot
  <2>1. tx.read \in [Records -> Content \cup {NotRead}] /\ tx.office \in Nat
    BY <1>2 DEF Transaction
  <2>2. tx.read \in Config
    BY <1>1, <2>1 DEF Config
  <2> QED
    BY <2>1, <2>2 DEF Snapshot
<1>4. /\ image \in Image /\ image.version = Its.version
      /\ image.snapshots = Its.snapshots \cup {s} /\ image.config = Its.config
  <2> HIDE DEF s
  <2> QED
    BY <1>2, <1>3 DEF Image
<1>5. /\ now \in Transaction /\ now.image = tx.image /\ now.kind = tx.kind
      /\ now.step = "commit" /\ now.target = tx.target /\ now.office = 0
  BY <1>2 DEF Then, Transaction, Unread
<1>6. /\ tx' \in Transaction /\ tx' # NoTx /\ stored' \in Image
      /\ Its' = image /\ Committed' = Committed
      /\ tx'.kind = tx.kind /\ tx'.step = "commit" /\ tx'.target = tx.target /\ tx'.office = 0
  <2> HIDE DEF image, now
  <2> QED
    BY <1>1, <1>4, <1>5, WritesInside
<1>7. Underway(tx, Its, Committed, crossed, setBack)
  BY <1>1 DEF TablesInv
<1>8. ~crossed => s.config = Its.config
  <2> SUFFICES ASSUME ~crossed PROVE tx.read = Its.config
    OBVIOUS
  <2>1. \A r \in Records : tx.read[r] = Its.config[r]
    BY <1>1, <1>7 DEF Underway, Written, ReadRight
  <2>2. Its.config \in [Records -> Content] /\ tx.read \in [Records -> Content]
    BY <1>2, <1>3 DEF Image, Config
  <2> QED
    BY <2>1, <2>2
<1>9. ~setBack => s.version = image.version
  BY <1>1, <1>4, <1>7 DEF Underway, Ahead
<1> HIDE DEF s, image
<1>10. Ahead(tx', image, Committed, crossed, setBack)
  <2>1. /\ ~setBack => image.version = Committed.version + 1
        /\ image.snapshots = Committed.snapshots \cup {s}
    BY <1>1, <1>4, <1>7 DEF Underway, Ahead
  <2> QED
    BY <1>3, <1>4, <1>6, <1>8, <1>9, <2>1 DEF Ahead
<1>11. ~crossed => Written(tx', image, Committed)
  BY <1>1, <1>4, <1>6, <1>7 DEF Underway, Written
<1>12. Underway(tx', Its', Committed, crossed, setBack)
  BY <1>6, <1>10, <1>11 DEF Underway
<1> QED
  BY <1>1, <1>4, <1>6, <1>12, Kept

LEMMA BeginKeeps ==
  ASSUME TableConstants, TablesInv, NEW kind \in {"change", "restore"}, NEW target \in Config,
         Begin(kind, target)
  PROVE  TablesInv' /\ Committed' = Committed
<1> DEFINE begun == [kind |-> kind, target |-> target, image |-> stored, office |-> 0,
                     read |-> Unread, done |-> {}, step |-> IF kind = "change" THEN "mutate" ELSE "survey"]
<1>1. TypeOK /\ tx = NoTx /\ tx' = begun /\ crossed' = FALSE
      /\ UNCHANGED <<adapter, stored, officeRow, outside, setBack>>
  BY DEF Begin, TablesInv
<1>2. stored \in Image /\ Committed = stored
  BY <1>1, ImagesTyped DEF Committed
<1>3. begun \in Transaction
  <2>1. Unread \in [Records -> Content \cup {NotRead}]
    BY DEF Unread
  <2> QED
    BY <1>2, <2>1 DEF Transaction
<1>4. tx' # NoTx
  BY <1>1, <1>3 DEF TableConstants
<1>5. Its' = stored /\ Committed' = stored
  BY <1>1, <1>4 DEF Its, Committed
<1>6. Underway(tx', stored, stored, FALSE, setBack)
  BY <1>1 DEF Underway, Ahead, Written, ReadRight, Unread
<1>7. TypeOK'
  BY <1>1, <1>3 DEF TypeOK
<1> QED
  BY <1>1, <1>2, <1>5, <1>6, <1>7 DEF TablesInv

LEMMA CommitKeeps ==
  ASSUME TableConstants, TablesInv, Commit
  PROVE  TablesInv'
<1>1. TypeOK /\ tx # NoTx /\ tx' = NoTx /\ stored' = Its /\ UNCHANGED <<adapter, requestVars>>
  BY DEF Commit, At, TablesInv
<1>2. tx \in Transaction /\ Its \in Image /\ Committed \in Image
  BY <1>1, ImagesTyped
<1>3. ~setBack => Apart(Its)
  BY <1>1, <1>2, UnderwayApart DEF TablesInv, Underway
<1>4. Committed' = Its
  BY <1>1 DEF Committed
<1>5. TypeOK'
  BY <1>1, <1>2 DEF TypeOK, requestVars
<1> QED
  BY <1>1, <1>3, <1>4, <1>5 DEF TablesInv, requestVars

LEMMA RollbackKeeps ==
  ASSUME TablesInv, Rollback
  PROVE  TablesInv' /\ Committed' = Committed
<1>1. TypeOK /\ tx # NoTx /\ tx' = NoTx /\ stored' = Committed /\ UNCHANGED <<adapter, requestVars>>
  BY DEF Rollback, TablesInv
<1>2. Committed \in Image
  BY <1>1, ImagesTyped
<1>3. Committed' = Committed
  BY <1>1 DEF Committed
<1>4. TypeOK'
  BY <1>1, <1>2 DEF TypeOK, requestVars
<1> QED
  BY <1>1, <1>3, <1>4 DEF TablesInv, requestVars

\* A write outside is at once there for good, unless SQLite has a transaction
\* open, which takes it in.
LEMMA PutOutsideKeeps ==
  ASSUME TableConstants, TablesInv, NEW r \in Records, NEW c \in Content, PutOutside(r, c)
  PROVE  TablesInv' /\ (Committed' = Committed \/ OneWrite)
<1> DEFINE put == [stored EXCEPT !.config[r] = c]
<1>1. /\ TypeOK /\ UNCHANGED <<adapter, tx, officeRow, setBack>> /\ stored' = put /\ crossed' = (tx # NoTx)
      /\ outside' \in 0 .. MaxOutside
  BY DEF PutOutside, TablesInv, TypeOK, TableConstants
<1>2. stored \in Image
  BY <1>1, ImagesTyped
<1>3. /\ put \in Image /\ put.version = stored.version /\ put.snapshots = stored.snapshots
      /\ put.config = [stored.config EXCEPT ![r] = c]
  BY <1>2 DEF Image, Config
<1>4. TypeOK'
  BY <1>1, <1>3 DEF TypeOK
<1> HIDE DEF put
<1>5. CASE tx = NoTx \/ adapter = "memory"
  <2>1. Committed = stored /\ Committed' = put
    BY <1>1, <1>5 DEF Committed
  <2>2. OneWrite
    BY <1>3, <2>1 DEF OneWrite
  <2>3. ~setBack => Apart(put)
    BY <1>3, <2>1 DEF Apart, TablesInv
  <2>4. tx # NoTx => Underway(tx, Its, Committed, crossed, setBack) /\ Its' = Its
    BY <1>1, <1>5 DEF TablesInv, Its
  <2>5. tx # NoTx => Underway(tx, Its, put, TRUE, setBack)
    BY <1>3, <2>1, <2>4 DEF Underway, Ahead
  <2> QED
    BY <1>1, <1>4, <2>1, <2>2, <2>3, <2>4, <2>5 DEF TablesInv
<1>6. CASE tx # NoTx /\ adapter # "memory"
  <2>1. Committed = tx.image /\ Committed' = tx.image /\ Its = stored /\ Its' = put
    BY <1>1, <1>6 DEF Committed, Its
  <2>2. Underway(tx, stored, Committed, crossed, setBack)
    BY <1>6, <2>1 DEF TablesInv
  <2>3. Underway(tx, put, Committed, TRUE, setBack)
    BY <1>3, <2>2 DEF Underway, Ahead
  <2> QED
    BY <1>1, <1>4, <1>6, <2>1, <2>3 DEF TablesInv
<1> QED
  BY <1>5, <1>6

LEMMA LookUpOfficeKeeps ==
  ASSUME TableConstants, TablesInv, NEW q \in Clients, LookUpOffice(q)
  PROVE  TablesInv' /\ Committed' = Committed
<1>1. TypeOK /\ UNCHANGED <<adapter, stored, tx, crossed, setBack>>
  BY DEF LookUpOffice, TablesInv
<1>2. stored.version \in Nat
  BY <1>1, ImagesTyped DEF Image
<1>3. officeRow' \in [Clients -> Nat] /\ outside' \in 0 .. MaxOutside
  BY <1>1, <1>2 DEF LookUpOffice, TypeOK, TableConstants
<1>4. TypeOK'
  BY <1>1, <1>3 DEF TypeOK
<1>5. Its' = Its /\ Committed' = Committed
  BY <1>1 DEF Its, Committed
<1> QED
  BY <1>1, <1>4, <1>5 DEF TablesInv

\* The office's row put back: until one is put with another version than it had,
\* the tables are what they were.
LEMMA PutOfficeKeeps ==
  ASSUME TableConstants, TablesInv, NEW q \in Clients, PutOffice(q)
  PROVE  TablesInv' /\ (Committed' = Committed \/ OneWrite)
<1> DEFINE put == [stored EXCEPT !.version = officeRow[q]]
<1>1. /\ TypeOK /\ UNCHANGED <<adapter, tx, outside, crossed>> /\ stored' = put
      /\ setBack' = (setBack \/ officeRow[q] # stored.version)
      /\ officeRow' = [officeRow EXCEPT ![q] = 0]
  BY DEF PutOffice, TablesInv
<1>2. stored \in Image /\ officeRow \in [Clients -> Nat]
  BY <1>1, ImagesTyped DEF TypeOK
<1>3. /\ put \in Image /\ put.version = officeRow[q] /\ put.snapshots = stored.snapshots
      /\ put.config = stored.config
  BY <1>2 DEF Image
<1> HIDE DEF put
<1>4. TypeOK' /\ setBack' \in BOOLEAN
  BY <1>1, <1>2, <1>3 DEF TypeOK, TablesInv
<1>5. ~setBack' => ~setBack /\ put.version = stored.version
  BY <1>1, <1>3
<1>6. CASE tx = NoTx \/ adapter = "memory"
  <2>1. Committed = stored /\ Committed' = put
    BY <1>1, <1>6 DEF Committed
  <2>2. OneWrite
    BY <1>3, <2>1 DEF OneWrite
  <2>3. ~setBack' => Apart(put)
    BY <1>3, <1>5, <2>1 DEF Apart, TablesInv
  <2>4. tx # NoTx => Underway(tx, Its, stored, crossed, setBack) /\ Its' = Its
    BY <1>1, <1>6, <2>1 DEF TablesInv, Its
  <2>5. tx # NoTx => Underway(tx, Its, put, crossed, setBack')
    BY <1>3, <1>5, <2>4, UnderwayAlike
  <2> QED
    BY <1>1, <1>4, <2>1, <2>2, <2>3, <2>4, <2>5 DEF TablesInv
<1>7. CASE tx # NoTx /\ adapter # "memory"
  <2>1. Committed = tx.image /\ Committed' = tx.image /\ Its = stored /\ Its' = put
    BY <1>1, <1>7 DEF Committed, Its
  <2>2. Underway(tx, stored, Committed, crossed, setBack)
    BY <1>7, <2>1 DEF TablesInv
  <2>3. Underway(tx, put, Committed, crossed, setBack')
    BY <1>3, <1>5, <2>2, UnderwayAlike
  <2> QED
    BY <1>1, <1>4, <1>5, <1>7, <2>1, <2>3 DEF TablesInv
<1> QED
  BY <1>6, <1>7

-------------------------------------------------------------------------------
(* The invariant.                                                              *)

LEMMA TablesStartRight == TableConstants /\ Init => TablesInv
<1> SUFFICES ASSUME TableConstants, Init PROVE TablesInv
  OBVIOUS
<1>1. stored \in Image /\ stored.snapshots = {}
  BY DEF Init, Image, Config, Content
<1>2. Committed = stored
  BY DEF Init, Committed
<1>3. TypeOK
  BY <1>1 DEF Init, TypeOK, TableConstants
<1> QED
  BY <1>1, <1>2, <1>3 DEF Init, TablesInv, Apart

LEMMA TablesKeep == TableConstants /\ TablesInv /\ [Next]_vars => TablesInv'
<1> SUFFICES ASSUME TableConstants, TablesInv, [Next]_vars PROVE TablesInv'
  OBVIOUS
<1>1. CASE ApplyChange
  <2>1. [r \in Records |-> Absent] \in Config
    BY DEF Config, Content
  <2> QED
    BY <1>1, <2>1, BeginKeeps DEF ApplyChange
<1>2. CASE RestoreSnapshot
  <2>1. PICK s \in stored.snapshots : Begin("restore", s.config)
    BY <1>2 DEF RestoreSnapshot
  <2>2. s.config \in Config
    BY <2>1, ImagesTyped DEF TablesInv, Image, Snapshot
  <2> QED
    BY <2>1, <2>2, BeginKeeps
<1>3. CASE ReadOffice \/ Bump \/ TakeSnapshot \/ Commit \/ Rollback
  BY <1>3, ReadOfficeKeeps, BumpKeeps, TakeSnapshotKeeps, CommitKeeps, RollbackKeeps
<1>4. ASSUME NEW r \in Records, ReadRecord(r) \/ ReplaceRecord(r) PROVE TablesInv'
  BY <1>4, ReadRecordKeeps, ReplaceRecordKeeps
<1>5. ASSUME NEW r \in Records, NEW c \in Content, Mutate(r, c) \/ PutOutside(r, c) PROVE TablesInv'
  BY <1>5, MutateKeeps, PutOutsideKeeps
<1>6. ASSUME NEW q \in Clients, LookUpOffice(q) \/ PutOffice(q) PROVE TablesInv'
  BY <1>6, LookUpOfficeKeeps, PutOfficeKeeps
<1>7. CASE UNCHANGED vars
  BY <1>7 DEF vars, TablesInv, TypeOK, Apart, Committed, Its
<1> QED
  BY <1>1, <1>2, <1>3, <1>4, <1>5, <1>6, <1>7 DEF Next

\* What a step makes of the tables that are there for good.
Whole ==
  \/ OneWrite
  \/ /\ OneVersion
     /\ \/ crossed
        \/ tx.kind = "restore" /\ Committed'.config = tx.target
        \/ \E r \in Records, c \in Content : Committed'.config = [Committed.config EXCEPT ![r] = c]

LEMMA CommitIsWhole ==
  ASSUME TablesInv, Commit
  PROVE  Whole
<1>1. TypeOK /\ tx # NoTx /\ tx.step = "commit" /\ tx' = NoTx /\ stored' = Its
  BY DEF Commit, At, TablesInv
<1>2. Underway(tx, Its, Committed, crossed, setBack) /\ tx \in Transaction /\ crossed \in BOOLEAN
  BY <1>1, ImagesTyped DEF TablesInv
<1>3. Committed' = Its
  BY <1>1 DEF Committed
<1>4. OneVersion
  <2>1. PICK s \in Snapshot : /\ Its.snapshots = Committed.snapshots \cup {s}
                              /\ ~setBack => s.version = Its.version
                              /\ ~crossed => s.config = Its.config
    BY <1>1, <1>2 DEF Underway, Ahead
  <2>2. (~setBack => Its.version = Committed.version + 1) /\ s \in Its.snapshots
    BY <1>1, <1>2, <2>1 DEF Underway, Ahead
  <2> QED
    BY <1>3, <2>1, <2>2 DEF OneVersion
<1>5. CASE ~crossed
  <2>1. Written(tx, Its, Committed)
    BY <1>2, <1>5 DEF Underway
  <2>2. CASE tx.kind = "restore"
    BY <1>1, <1>3, <1>4, <2>1, <2>2 DEF Written, Whole
  <2>3. CASE tx.kind # "restore"
    BY <1>1, <1>3, <1>4, <2>1, <2>3 DEF Written, Edited, Whole
  <2> QED
    BY <2>2, <2>3
<1> QED
  BY <1>2, <1>4, <1>5 DEF Whole

LEMMA StepIsWhole == TableConstants /\ TablesInv /\ [Next]_vars => [Whole]_Committed
<1> SUFFICES ASSUME TableConstants, TablesInv, [Next]_vars PROVE Whole \/ Committed' = Committed
  OBVIOUS
<1>1. CASE ApplyChange
  <2>1. [r \in Records |-> Absent] \in Config
    BY DEF Config, Content
  <2> QED
    BY <1>1, <2>1, BeginKeeps DEF ApplyChange
<1>2. CASE RestoreSnapshot
  <2>1. PICK s \in stored.snapshots : Begin("restore", s.config)
    BY <1>2 DEF RestoreSnapshot
  <2>2. s.config \in Config
    BY <2>1, ImagesTyped DEF TablesInv, Image, Snapshot
  <2> QED
    BY <2>1, <2>2, BeginKeeps
<1>3. CASE ReadOffice \/ Bump \/ TakeSnapshot \/ Rollback
  BY <1>3, ReadOfficeKeeps, BumpKeeps, TakeSnapshotKeeps, RollbackKeeps
<1>4. CASE Commit
  BY <1>4, CommitIsWhole
<1>5. ASSUME NEW r \in Records, ReadRecord(r) \/ ReplaceRecord(r) PROVE Committed' = Committed
  BY <1>5, ReadRecordKeeps, ReplaceRecordKeeps
<1>6. ASSUME NEW r \in Records, NEW c \in Content, Mutate(r, c) \/ PutOutside(r, c)
      PROVE  Whole \/ Committed' = Committed
  BY <1>6, MutateKeeps, PutOutsideKeeps DEF Whole
<1>7. ASSUME NEW q \in Clients, LookUpOffice(q) \/ PutOffice(q)
      PROVE  Whole \/ Committed' = Committed
  BY <1>7, LookUpOfficeKeeps, PutOfficeKeeps DEF Whole
<1>8. CASE UNCHANGED vars
  BY <1>8 DEF vars, Committed
<1> QED
  BY <1>1, <1>2, <1>3, <1>4, <1>5, <1>6, <1>7, <1>8 DEF Next

THEOREM TablesInvariance ==
  ASSUME TableConstants
  PROVE  Spec => []TablesInv
<1>1. Init => TablesInv
  BY TablesStartRight
<1>2. TablesInv /\ [Next]_vars => TablesInv'
  BY TablesKeep
<1> QED
  BY <1>1, <1>2, PTL DEF Spec

\* Every snapshot has a version of its own, through changes, restores, transactions
\* that fail half way and offices renamed meanwhile, in what everybody reads, until a
\* route puts back an old row of the office (snapshots.ts, the routes of the office).
THEOREM SnapshotsApart ==
  ASSUME TableConstants
  PROVE  Spec => []VersionsApart
<1>1. TablesInv => VersionsApart
  <2> SUFFICES ASSUME TablesInv, ~setBack PROVE Apart(stored)
    BY DEF VersionsApart, Apart
  <2>1. Apart(Committed)
    BY DEF TablesInv
  <2>2. CASE stored = Committed
    BY <2>1, <2>2
  <2>3. CASE tx # NoTx /\ stored = Its
    <3>1. tx \in Transaction /\ Its \in Image /\ Committed \in Image /\ crossed \in BOOLEAN
      BY <2>3, ImagesTyped DEF TablesInv
    <3>2. Ahead(tx, Its, Committed, crossed, FALSE)
      BY <2>3 DEF TablesInv, Underway
    <3> QED
      BY <2>1, <2>3, <3>1, <3>2, UnderwayApart
  <2> QED
    BY <2>2, <2>3, ImagesTyped DEF TablesInv
<1> QED
  BY <1>1, TablesInvariance, PTL

\* What is there for good changes by one write made outside, or by one change or
\* restore in full, whichever store it is and wherever the transaction fails
\* (in-memory.ts, sqlite-store.ts).
THEOREM WholeOrNothing ==
  ASSUME TableConstants
  PROVE  Spec => AllOrNothing
<1>1. TablesInv /\ [Next]_vars => [Whole]_Committed
  BY StepIsWhole
<1>2. Spec => [][Whole]_Committed
  BY <1>1, TablesInvariance, PTL DEF Spec
<1> QED
  BY <1>2, PTL DEF AllOrNothing, Whole

\* The store has the right types whatever is asked of it.
THEOREM TypeCorrect ==
  ASSUME TableConstants
  PROVE  Spec => []TypeOK
<1>1. TablesInv => TypeOK
  BY DEF TablesInv
<1> QED BY <1>1, TablesInvariance, PTL

\* What the stores promise together: versions that are one configuration each for as
\* long as no old row of the office is put back, and transactions that are there in full or not at all, in memory and in SQLite, for
\* every set of records and whatever they may say.
THEOREM StoresKeepTheirWord ==
  ASSUME TableConstants
  PROVE  Spec => StoresHold
BY TypeCorrect, SnapshotsApart, WholeOrNothing, PTL DEF StoresHold

-------------------------------------------------------------------------------
(* People: what is decided about a person stays decided, for any number of *)
(* requests under way at once, any words and any number of proposals.      *)
(*                                                                         *)
(* Every request works on copies, so the invariant says what a copy still  *)
(* tells: what a route makes of the employee it read, and, of a proposal   *)
(* only one request decides, that it stands as it was read.                *)

Proposals ==
  [status : {"waiting", "accepted", "declined", "reverted"}, before : Texts, after : Texts]

Routes ==
  Changes \cup [field : {"status"}, as : {"active", "paused", "terminated"}]
    \cup [field : {"card", "heard"}, to : {TRUE}]

\* What a request may be doing.
Writers == [step : {"write"}, read : EmployeeRecords, write : EmployeeRecords, on : Routes]
Lookers == [step : {"looking"}, words : Texts, by : {"server", "worker"}]
Answers == {"decline", "accept", "revert"}
Readers == [step : {"read"}, of : DOMAIN proposals, what : Answers, copy : Proposals]
Deciders ==
  [step : {"both", "put"}, of : DOMAIN proposals, what : Answers, read : EmployeeRecords,
   write : EmployeeRecords, copy : Proposals]

Typed ==
  /\ employee \in EmployeeRecords
  /\ proposals \in Seq(Proposals)
  /\ asked \in [Requests -> {Idle} \cup Writers \cup Lookers \cup Readers \cup Deciders]
  /\ held \subseteq DOMAIN proposals /\ contested \subseteq DOMAIN proposals
  /\ count \in 0 .. MaxAsked /\ halts \in 0 .. MaxStops

\* A route leaves whoever was let go so, and gives nobody a voice but by an edit
\* that says so.
Modest(a) ==
  /\ a.read.status = "terminated" => a.write.status = "terminated"
  /\ a.read.voice = NoVoice => a.write.voice = NoVoice \/ (a.step = "write" /\ a.on.field = "voice")

\* What an answer that is not yet written rests on.
Answering(a, written) ==
  /\ a.copy.status = StatusOf(a.what)
  /\ a.step = "both" => a.what # "decline" /\ Modest(a)
  /\ a.step = "both" /\ a.what = "revert" => a.read.words = a.copy.after
  /\ a.step = "put" /\ a.what # "decline" => a.of \in written

Prior(what) == IF what = "revert" THEN "accepted" ELSE "waiting"

\* A proposal that one request alone decides is as that request read it.
Undisturbed(a, list) ==
  /\ a.step = "read" => a.copy = list[a.of]
  /\ a.step \in {"both", "put"} => list[a.of].status = Prior(a.what)

Copies ==
  \A r \in Requests :
    /\ asked[r].step = "write" => Modest(asked[r])
    /\ asked[r].step \in {"both", "put"} => Answering(asked[r], held)
    /\ \A p \in DOMAIN proposals \ contested : Deciding(r, p) => Undisturbed(asked[r], proposals)

Alone ==
  \A q, r \in Requests, p \in DOMAIN proposals :
    q # r /\ Deciding(q, p) /\ Deciding(r, p) => p \in contested

PeopleInv == Typed /\ AcceptedTookHold /\ Copies /\ Alone

-------------------------------------------------------------------------------
(* What the routes make of the copy they read.                               *)

LEMMA EmployeeTypes ==
  ASSUME NEW e \in EmployeeRecords
  PROVE  /\ e.status \in {"active", "paused", "terminated"} /\ e.words \in Texts
         /\ e.voice \in Voices /\ e.improving \in BOOLEAN /\ e.budget \in BOOLEAN
BY DEF EmployeeRecords

LEMMA VoiceTypes ==
  ASSUME PeopleConstants
  PROVE  /\ NoVoice \in Voices
         /\ \A c \in BOOLEAN, h \in 0 .. MaxHeard :
              Voice(c, h) \in Voices /\ Voice(c, h) # NoVoice
         /\ \A v \in Voices : v # NoVoice => v.card \in BOOLEAN /\ v.heard \in 0 .. MaxHeard
                                           /\ v = Voice(v.card, v.heard)
BY DEF PeopleConstants, Voices, Voice

\* An edit changes nobody's status, and only one of the voice gives a voice.
LEMMA EditIsModest ==
  ASSUME PeopleConstants, NEW e \in EmployeeRecords, NEW change \in Changes
  PROVE  /\ UpdateEmployee(e, change) \in EmployeeRecords
         /\ UpdateEmployee(e, change).status = e.status
         /\ UpdateEmployee(e, change).voice = e.voice \/ change.field = "voice"
<1>1. CASE change.field = "words"
  <2>1. change.to \in Texts
    BY <1>1 DEF Changes
  <2> QED
    BY <1>1, <2>1 DEF UpdateEmployee, EmployeeRecords
<1>2. CASE change.field = "voice"
  <2> DEFINE to == change.as
  <2>1. WithVoice(e.voice, to) \in Voices
    <3>1. CASE to = "none"
      BY <3>1, VoiceTypes DEF WithVoice
    <3>2. CASE to # "none" /\ e.voice = NoVoice
      <4>1. (to = "card") \in BOOLEAN /\ 0 \in 0 .. MaxHeard
        BY DEF PeopleConstants
      <4> QED BY <3>2, <4>1, VoiceTypes DEF WithVoice
    <3>3. CASE to # "none" /\ e.voice # NoVoice
      <4>1. (to = "card") \in BOOLEAN /\ e.voice.heard \in 0 .. MaxHeard
        BY <3>3, VoiceTypes, EmployeeTypes
      <4> QED BY <3>3, <4>1, VoiceTypes DEF WithVoice
    <3> QED BY <3>1, <3>2, <3>3
  <2> HIDE DEF to
  <2>2. UpdateEmployee(e, change) = [e EXCEPT !.voice = WithVoice(@, to)]
    BY <1>2 DEF UpdateEmployee, to
  <2> QED
    BY <1>2, <2>1, <2>2 DEF EmployeeRecords
<1>3. CASE change.field = "improving"
  <2>1. change.to \in BOOLEAN
    BY <1>3 DEF Changes
  <2> QED
    BY <1>3, <2>1 DEF UpdateEmployee, EmployeeRecords
<1>4. CASE change.field = "budget"
  BY <1>4 DEF UpdateEmployee
<1> QED
  BY <1>1, <1>2, <1>3, <1>4 DEF Changes

LEMMA StudyIsModest ==
  ASSUME PeopleConstants, NEW e \in EmployeeRecords, e.voice # NoVoice
  PROVE  Studied(e) \in EmployeeRecords /\ Studied(e).status = e.status
<1> DEFINE V == [card : BOOLEAN, heard : 0 .. MaxHeard]
<1>1. Voices = {NoVoice} \cup V
  BY DEF Voices, Voice
<1>2. e.voice \in V
  BY <1>1, EmployeeTypes
<1>3. [e.voice EXCEPT !.card = TRUE] \in V
  BY <1>2
<1>4. [e.voice EXCEPT !.card = TRUE] \in Voices
  BY <1>1, <1>3
<1>5. Studied(e) = [e EXCEPT !.voice = [e.voice EXCEPT !.card = TRUE]]
  BY DEF Studied, EmployeeRecords
<1> QED
  BY <1>4, <1>5 DEF EmployeeRecords

LEMMA CorrectionIsModest ==
  ASSUME PeopleConstants, NEW e \in EmployeeRecords, e.voice # NoVoice
  PROVE  RecordCorrection(e) \in EmployeeRecords /\ RecordCorrection(e).status = e.status
<1> DEFINE n == Heard(e.voice.heard)
<1>1. /\ e.voice = Voice(e.voice.card, e.voice.heard)
      /\ e.voice.card \in BOOLEAN /\ e.voice.heard \in 0 .. MaxHeard
  BY VoiceTypes, EmployeeTypes
<1>2. n \in 0 .. MaxHeard
  BY <1>1 DEF Heard, PeopleConstants
<1> HIDE DEF n
<1>3. [e.voice EXCEPT !.heard = n] = Voice(e.voice.card, n)
  BY <1>1 DEF Voice
<1>4. [e.voice EXCEPT !.heard = n] \in Voices
  BY <1>1, <1>2, <1>3, VoiceTypes
<1>5. RecordCorrection(e) = [e EXCEPT !.voice = [e.voice EXCEPT !.heard = n]]
  BY DEF RecordCorrection, EmployeeRecords, n
<1> QED
  BY <1>4, <1>5 DEF EmployeeRecords

-------------------------------------------------------------------------------
(* One request's step: what it does not touch.                               *)

Doing == {Idle} \cup Writers \cup Lookers \cup Readers \cup Deciders

\* What a request is doing tells by its step.
LEMMA Steps ==
  ASSUME NEW a \in Doing
  PROVE  /\ a.step = "idle" => a = Idle
         /\ a.step = "write" => a \in Writers
         /\ a.step = "looking" => a \in Lookers
         /\ a.step = "read" => a \in Readers
         /\ a.step \in {"both", "put"} => a \in Deciders
BY DEF Doing, Idle, Writers, Lookers, Readers, Deciders

\* A longer list of proposals leaves room for all that is under way.
LEMMA DoingGrows ==
  ASSUME DOMAIN proposals \subseteq DOMAIN proposals'
  PROVE  Doing \subseteq Doing'
BY DEF Doing, Readers, Deciders, Writers, Lookers, Idle

LEMMA OneMoves ==
  ASSUME Typed, NEW r \in Requests, NEW a, asked' = [asked EXCEPT ![r] = a]
  PROVE  /\ asked'[r] = a
         /\ \A q \in Requests \ {r} : asked'[q] = asked[q]
         /\ a \in Doing' /\ DOMAIN proposals \subseteq DOMAIN proposals' => asked' \in [Requests -> Doing']
<1>1. asked \in [Requests -> Doing]
  BY DEF Typed, Doing
<1> QED BY <1>1, DoingGrows

\* A step after which the request decides nothing keeps the invariant, whatever
\* it writes onto the employee.
LEMMA QuietStep ==
  ASSUME PeopleInv, NEW r \in Requests, NEW a \in {Idle} \cup Writers \cup Lookers,
         a.step = "write" => Modest(a), asked' = [asked EXCEPT ![r] = a],
         UNCHANGED <<proposals, held, contested>>, employee' \in EmployeeRecords,
         count' \in 0 .. MaxAsked, halts' \in 0 .. MaxStops
  PROVE  PeopleInv'
<1>1. a.step \in {"idle", "write", "looking"}
  BY DEF Idle, Writers, Lookers
<1>2. /\ asked'[r] = a /\ \A q \in Requests \ {r} : asked'[q] = asked[q]
      /\ asked' \in [Requests -> Doing']
  BY OneMoves DEF PeopleInv, Doing, Writers, Lookers
<1>3. Typed'
  BY <1>2 DEF PeopleInv, Typed, Doing
<1>4. AcceptedTookHold'
  BY DEF PeopleInv, AcceptedTookHold
<1>5. Copies'
  BY <1>1, <1>2 DEF PeopleInv, Copies, Deciding, Undisturbed, Modest, Answering
<1>6. Alone'
  BY <1>1, <1>2 DEF PeopleInv, Alone, Deciding
<1> QED BY <1>3, <1>4, <1>5, <1>6 DEF PeopleInv

-------------------------------------------------------------------------------
(* The routes that change the employee.                                      *)

LEMMA WritingIs ==
  ASSUME NEW e \in EmployeeRecords, NEW f \in EmployeeRecords, NEW on \in Routes
  PROVE  /\ Writing(e, f, on) \in Writers
         /\ Writing(e, f, on).step = "write" /\ Writing(e, f, on).read = e
         /\ Writing(e, f, on).write = f /\ Writing(e, f, on).on = on
BY DEF Writing, Writers

\* A route that reads the employee and will write what it makes of them.
LEMMA RouteBegins ==
  ASSUME PeopleInv, PeopleConstants, NEW r \in Requests, NEW f \in EmployeeRecords, NEW on \in Routes,
         Ask(r, Writing(employee, f, on)), UNCHANGED <<employee, proposals, halts, held, contested>>,
         f.status = employee.status \/ employee.status # "terminated",
         f.voice = employee.voice \/ on.field = "voice" \/ employee.voice # NoVoice
  PROVE  PeopleInv'
<1> DEFINE a == Writing(employee, f, on)
<1>1. employee \in EmployeeRecords /\ count \in Nat /\ count < MaxAsked /\ MaxAsked \in Nat
  BY DEF PeopleInv, Typed, Ask, PeopleConstants
<1>2. a \in Writers /\ Modest(a)
  BY <1>1, WritingIs DEF Modest
<1>3. asked' = [asked EXCEPT ![r] = a] /\ count' \in 0 .. MaxAsked
  BY <1>1 DEF Ask
<1> QED
  BY <1>1, <1>2, <1>3, QuietStep DEF PeopleInv, Typed

LEMMA PatchKeeps ==
  ASSUME PeopleInv, PeopleConstants, NEW r \in Requests, PatchEmployee(r)
  PROVE  PeopleInv'
<1>1. PICK change \in Changes : Ask(r, Writing(employee, UpdateEmployee(employee, change), change))
  BY DEF PatchEmployee
<1>2. employee \in EmployeeRecords /\ change \in Routes
  BY DEF PeopleInv, Typed, Routes
<1> QED
  BY <1>1, <1>2, EditIsModest, RouteBegins DEF PatchEmployee

LEMMA PutStatusKeeps ==
  ASSUME PeopleInv, PeopleConstants, NEW r \in Requests, PutStatus(r)
  PROVE  PeopleInv'
<1>1. PICK to \in {"active", "paused", "terminated"} :
        /\ MayMove(employee, to)
        /\ Ask(r, Writing(employee, [employee EXCEPT !.status = to], [field |-> "status", as |-> to]))
  BY DEF PutStatus
<1> DEFINE f == [employee EXCEPT !.status = to]
           on == [field |-> "status", as |-> to]
<1>2. f \in EmployeeRecords /\ f.voice = employee.voice /\ on \in Routes
  BY DEF PeopleInv, Typed, EmployeeRecords, Routes
<1>3. Ask(r, Writing(employee, f, on)) /\ employee.status # "terminated"
  BY <1>1 DEF MayMove
<1> HIDE DEF f, on
<1> QED
  BY <1>2, <1>3, RouteBegins DEF PutStatus

LEMMA StudyKeeps ==
  ASSUME PeopleInv, PeopleConstants, NEW r \in Requests, Study(r)
  PROVE  PeopleInv'
<1> DEFINE on == [field |-> "card", to |-> TRUE]
<1>1. employee \in EmployeeRecords /\ employee.voice # NoVoice /\ on \in Routes
  BY DEF PeopleInv, Typed, Study, Routes
<1>2. Ask(r, Writing(employee, Studied(employee), on))
  BY DEF Study
<1> HIDE DEF on
<1> QED
  BY <1>1, <1>2, StudyIsModest, RouteBegins DEF Study

LEMMA CorrectKeeps ==
  ASSUME PeopleInv, PeopleConstants, NEW r \in Requests, Correct(r)
  PROVE  PeopleInv'
<1> DEFINE on == [field |-> "heard", to |-> TRUE]
<1>1. employee \in EmployeeRecords /\ employee.voice # NoVoice /\ on \in Routes
  BY DEF PeopleInv, Typed, Correct, Routes
<1>2. Ask(r, Writing(employee, RecordCorrection(employee), on))
  BY DEF Correct
<1> HIDE DEF on
<1> QED
  BY <1>1, <1>2, CorrectionIsModest, RouteBegins DEF Correct

LEMMA WriteKeeps ==
  ASSUME PeopleInv, NEW r \in Requests, GiveUp(r) \/ WriteEmployee(r)
  PROVE  PeopleInv'
<1>1. employee' \in EmployeeRecords
  <2>1. CASE GiveUp(r)
    BY <2>1 DEF GiveUp, PeopleInv, Typed
  <2>2. CASE WriteEmployee(r)
    <3>1. asked[r] \in Writers
      BY <2>2, Steps DEF WriteEmployee, PeopleInv, Typed, Doing
    <3> QED BY <2>2, <3>1 DEF WriteEmployee, Writers
  <2> QED BY <2>1, <2>2
<1>2. asked' = [asked EXCEPT ![r] = Idle] /\ Idle.step # "write"
  BY DEF GiveUp, WriteEmployee, Ends, Idle
<1> QED
  BY <1>1, <1>2, QuietStep DEF GiveUp, WriteEmployee, PeopleInv, Typed

LEMMA LookBackKeeps ==
  ASSUME PeopleInv, PeopleConstants, NEW r \in Requests, LookBack(r)
  PROVE  PeopleInv'
<1>1. PICK by \in {"server", "worker"} :
        Ask(r, [step |-> "looking", words |-> employee.words, by |-> by])
  BY DEF LookBack
<1> DEFINE a == [step |-> "looking", words |-> employee.words, by |-> by]
<1>2. a \in Lookers /\ a.step # "write"
  BY EmployeeTypes DEF PeopleInv, Typed, Lookers
<1>3. asked' = [asked EXCEPT ![r] = a] /\ count' \in 0 .. MaxAsked
  BY <1>1 DEF Ask, PeopleInv, Typed, PeopleConstants
<1> HIDE DEF a
<1> QED
  BY <1>2, <1>3, QuietStep DEF LookBack, PeopleInv, Typed

LEMMA HaltKeeps ==
  ASSUME PeopleInv, PeopleConstants, Halt
  PROVE  PeopleInv'
<1>1. \A r \in Requests : asked'[r].step = "idle"
  BY DEF Halt, Idle
<1>2. Typed'
  BY DEF Halt, PeopleInv, Typed, PeopleConstants, Readers, Deciders
<1>3. AcceptedTookHold'
  BY DEF Halt, PeopleInv, AcceptedTookHold
<1>4. Copies' /\ Alone'
  BY <1>1 DEF Copies, Alone, Deciding
<1> QED BY <1>2, <1>3, <1>4 DEF PeopleInv

-------------------------------------------------------------------------------
(* The proposals and the answers to them.                                    *)

\* A proposal more leaves the ones there are as they are.
LEMMA ProposeKeeps ==
  ASSUME PeopleInv, PeopleConstants, NEW r \in Requests, Propose(r)
  PROVE  PeopleInv'
<1>1. /\ asked[r] \in Lookers /\ asked' = [asked EXCEPT ![r] = Idle]
      /\ UNCHANGED <<employee, count, halts, held, contested>>
  BY Steps DEF Propose, Ends, PeopleInv, Typed, Doing
<1>2. CASE UNCHANGED proposals
  BY <1>1, <1>2, QuietStep DEF PeopleInv, Typed, Idle
<1>3. CASE \E after \in Words : proposals' = Append(proposals, Proposal(asked[r].words, after))
  <2>1. PICK after \in Words : proposals' = Append(proposals, Proposal(asked[r].words, after))
    BY <1>3
  <2> DEFINE new == Proposal(asked[r].words, after)
  <2>2. new \in Proposals /\ new.status = "waiting" /\ proposals \in Seq(Proposals)
    BY <1>1 DEF Proposal, Proposals, Lookers, Texts, PeopleInv, Typed
  <2> HIDE DEF new
  <2>3. /\ proposals' \in Seq(Proposals) /\ DOMAIN proposals \subseteq DOMAIN proposals'
        /\ \A p \in DOMAIN proposals : proposals'[p] = proposals[p]
        /\ \A p \in DOMAIN proposals' \ DOMAIN proposals : proposals'[p].status = "waiting"
    BY <2>1, <2>2 DEF new
  <2>4. /\ asked'[r].step = "idle" /\ \A q \in Requests \ {r} : asked'[q] = asked[q]
        /\ asked' \in [Requests -> Doing']
    BY <1>1, <2>3, OneMoves DEF PeopleInv, Doing, Idle
  <2>5. \A q \in Requests : \A p : asked[q].step \in {"read", "both", "put"} /\ asked[q].of = p
          => p \in DOMAIN proposals
    BY Steps DEF PeopleInv, Typed, Doing, Readers, Deciders
  <2>6. Typed'
    BY <1>1, <2>3, <2>4 DEF PeopleInv, Typed, Doing
  <2>7. AcceptedTookHold'
    BY <1>1, <2>3 DEF PeopleInv, AcceptedTookHold
  <2>8. Copies'
    BY <1>1, <2>3, <2>4, <2>5 DEF PeopleInv, Copies, Deciding, Undisturbed, Modest, Answering
  <2>9. Alone'
    BY <1>1, <2>3, <2>4, <2>5 DEF PeopleInv, Alone, Deciding
  <2> QED BY <2>6, <2>7, <2>8, <2>9 DEF PeopleInv
<1> QED BY <1>2, <1>3 DEF Propose

LEMMA ReadProposalKeeps ==
  ASSUME PeopleInv, PeopleConstants, NEW r \in Requests, ReadProposal(r)
  PROVE  PeopleInv'
<1>1. PICK p \in DOMAIN proposals, what \in Answers :
        /\ Ask(r, [step |-> "read", of |-> p, what |-> what, copy |-> proposals[p]])
        /\ contested' = IF \E q \in Requests \ {r} : Deciding(q, p)
                        THEN contested \cup {p} ELSE contested
  BY DEF ReadProposal, Answers
<1> DEFINE a == [step |-> "read", of |-> p, what |-> what, copy |-> proposals[p]]
<1>2. a \in Readers
  BY DEF Readers, PeopleInv, Typed
<1>3. a.step = "read" /\ a.of = p /\ a.copy = proposals[p]
  OBVIOUS
<1>4. asked' = [asked EXCEPT ![r] = a] /\ count' \in 0 .. MaxAsked
  BY <1>1 DEF Ask, PeopleInv, Typed, PeopleConstants
<1> HIDE DEF a
<1>5. /\ asked'[r] = a /\ \A q \in Requests \ {r} : asked'[q] = asked[q]
      /\ asked' \in [Requests -> Doing']
  BY <1>2, <1>4, OneMoves DEF ReadProposal, PeopleInv, Doing, Readers
<1>6. contested \subseteq contested' /\ contested' \subseteq DOMAIN proposals
  BY <1>1 DEF PeopleInv, Typed
<1>7. Typed'
  BY <1>4, <1>5, <1>6 DEF ReadProposal, PeopleInv, Typed, Doing
<1>8. AcceptedTookHold'
  BY DEF ReadProposal, PeopleInv, AcceptedTookHold
<1>9. Copies'
  BY <1>3, <1>5, <1>6 DEF ReadProposal, PeopleInv, Copies, Deciding, Undisturbed, Modest, Answering
<1>10. Alone'
  <2> SUFFICES ASSUME NEW q \in Requests, NEW s \in Requests, NEW o \in DOMAIN proposals,
                      q # s, Deciding(q, o)', Deciding(s, o)'
               PROVE  o \in contested'
    BY DEF Alone, ReadProposal
  <2>1. CASE q # r /\ s # r
    BY <2>1, <1>5, <1>6 DEF PeopleInv, Alone, Deciding
  <2>2. CASE q = r \/ s = r
    BY <2>2, <1>1, <1>3, <1>5 DEF Deciding
  <2> QED BY <2>1, <2>2
<1> QED BY <1>7, <1>8, <1>9, <1>10 DEF PeopleInv

\* The answer is judged against what was read: what it will write undoes nobody's
\* leaving, gives nobody a voice, and puts back only the words it gave.
LEMMA ReadEmployeeKeeps ==
  ASSUME PeopleInv, NEW r \in Requests, ReadEmployee(r)
  PROVE  PeopleInv'
<1> DEFINE b == asked[r]
           to == IF b.what = "accept" THEN b.copy.after ELSE b.copy.before
           a == [step |-> IF b.what = "decline" THEN "put" ELSE "both", of |-> b.of,
                 what |-> b.what, read |-> employee, write |-> [employee EXCEPT !.words = to],
                 copy |-> [b.copy EXCEPT !.status = StatusOf(b.what)]]
<1>1. b \in Readers /\ employee \in EmployeeRecords
  BY Steps DEF ReadEmployee, PeopleInv, Typed, Doing
<1>2. /\ b.of \in DOMAIN proposals /\ b.what \in Answers /\ b.copy \in Proposals
      /\ b.copy.before \in Texts /\ b.copy.after \in Texts
  BY <1>1 DEF Readers, Proposals
<1>3. CASE ~MayDecide(b.what, b.copy, employee)
  <2>1. asked' = [asked EXCEPT ![r] = Idle] /\ Idle.step # "write"
    BY <1>3 DEF ReadEmployee, Ends, Idle
  <2> QED
    BY <1>1, <2>1, QuietStep DEF ReadEmployee, PeopleInv, Typed
<1>4. CASE MayDecide(b.what, b.copy, employee)
  <2>1. StatusOf(b.what) \in {"accepted", "declined", "reverted"} /\ to \in Texts
    BY <1>2 DEF StatusOf, Answers
  <2> DEFINE w == [employee EXCEPT !.words = to]
             c == [b.copy EXCEPT !.status = StatusOf(b.what)]
  <2>2. w \in EmployeeRecords /\ w.status = employee.status /\ w.voice = employee.voice
    BY <1>1, <2>1 DEF EmployeeRecords
  <2>3. c \in Proposals /\ c.status = StatusOf(b.what) /\ c.after = b.copy.after
    BY <1>2, <2>1 DEF Proposals
  <2> HIDE DEF w, c
  <2>4. a = [step |-> IF b.what = "decline" THEN "put" ELSE "both", of |-> b.of,
             what |-> b.what, read |-> employee, write |-> w, copy |-> c]
    BY DEF w, c
  <2>5. /\ a.step = (IF b.what = "decline" THEN "put" ELSE "both") /\ a.of = b.of
        /\ a.what = b.what /\ a.read = employee /\ a.write = w /\ a.copy = c
    BY <2>4
  <2>6. a \in Deciders
    BY <1>1, <1>2, <2>2, <2>3, <2>4 DEF Deciders
  <2>7. asked' = [asked EXCEPT ![r] = a]
    BY <1>4 DEF ReadEmployee
  <2> HIDE DEF a
  <2>8. /\ asked'[r] = a /\ \A q \in Requests \ {r} : asked'[q] = asked[q]
        /\ asked' \in [Requests -> Doing']
    BY <2>6, <2>7, OneMoves DEF ReadEmployee, PeopleInv, Doing, Deciders
  <2>9. a.step \in {"both", "put"} /\ Answering(a, held)
    BY <1>2, <1>4, <2>2, <2>3, <2>5 DEF Answering, Modest, MayDecide, Answers
  <2>10. b.of \notin contested => Undisturbed(a, proposals)
    <3> SUFFICES ASSUME b.of \notin contested PROVE proposals[b.of].status = Prior(b.what)
      BY <2>5, <2>9 DEF Undisturbed
    <3>1. b.step = "read"
      BY DEF ReadEmployee
    <3>2. b.copy = proposals[b.of]
      BY <1>2, <3>1 DEF PeopleInv, Copies, Deciding, Undisturbed
    <3> QED BY <1>4, <3>2 DEF MayDecide, Prior
  <2>11. Typed'
    BY <2>8 DEF ReadEmployee, PeopleInv, Typed, Doing
  <2>12. AcceptedTookHold'
    BY DEF ReadEmployee, PeopleInv, AcceptedTookHold
  <2>13. UNCHANGED <<proposals, held, contested>>
    BY DEF ReadEmployee
  <2>14. Copies'
    <3> SUFFICES ASSUME NEW q \in Requests
                 PROVE  /\ asked'[q].step = "write" => Modest(asked'[q])
                        /\ asked'[q].step \in {"both", "put"} => Answering(asked'[q], held)
                        /\ \A p \in DOMAIN proposals \ contested :
                             Deciding(q, p)' => Undisturbed(asked'[q], proposals)
      BY <2>13 DEF Copies, Answering, Undisturbed
    <3>1. CASE q = r
      BY <3>1, <2>5, <2>8, <2>9, <2>10 DEF Deciding
    <3>2. CASE q # r
      BY <3>2, <2>8 DEF PeopleInv, Copies, Deciding
    <3> QED BY <3>1, <3>2
  <2>15. b.step = "read"
    BY DEF ReadEmployee
  <2>16. Alone'
    BY <2>5, <2>8, <2>9, <2>13, <2>15 DEF PeopleInv, Alone, Deciding
  <2> QED BY <2>11, <2>12, <2>14, <2>16 DEF PeopleInv
<1> QED BY <1>3, <1>4

LEMMA ChangeThemKeeps ==
  ASSUME PeopleInv, NEW r \in Requests, ChangeThem(r)
  PROVE  PeopleInv'
<1> DEFINE b == asked[r]
           a == [b EXCEPT !.step = "put"]
<1>1. b \in Deciders /\ b.step = "both"
  BY Steps DEF ChangeThem, PeopleInv, Typed, Doing
<1>2. /\ a \in Deciders /\ a.step = "put" /\ a.of = b.of /\ a.what = b.what
      /\ a.copy = b.copy
  BY <1>1 DEF Deciders
<1>3. b.of \in DOMAIN proposals /\ b.write \in EmployeeRecords
  BY <1>1 DEF Deciders
<1>4. asked' = [asked EXCEPT ![r] = a]
  BY <1>1 DEF ChangeThem, PeopleInv, Typed
<1>5. Answering(b, held)
  BY <1>1 DEF PeopleInv, Copies
<1> HIDE DEF a, b
<1>6. /\ asked'[r] = a /\ \A q \in Requests \ {r} : asked'[q] = asked[q]
      /\ asked' \in [Requests -> Doing']
  BY <1>2, <1>4, OneMoves DEF ChangeThem, PeopleInv, Doing, Deciders
<1>7. held' = held \cup {b.of} /\ UNCHANGED <<proposals, contested>>
  BY DEF ChangeThem, b
<1>8. Typed'
  BY <1>3, <1>6, <1>7 DEF ChangeThem, PeopleInv, Typed, Doing, b
<1>9. AcceptedTookHold'
  BY <1>7 DEF PeopleInv, AcceptedTookHold
<1>10. Copies'
  <2> SUFFICES ASSUME NEW q \in Requests
               PROVE  /\ asked'[q].step = "write" => Modest(asked'[q])
                      /\ asked'[q].step \in {"both", "put"} => Answering(asked'[q], held')
                      /\ \A p \in DOMAIN proposals \ contested :
                           Deciding(q, p)' => Undisturbed(asked'[q], proposals)
    BY <1>7 DEF Copies, Answering, Undisturbed
  <2>1. CASE q = r
    <3>1. Answering(a, held')
      BY <1>2, <1>5, <1>7 DEF Answering
    <3>2. \A p \in DOMAIN proposals \ contested : Deciding(r, p) => Undisturbed(b, proposals)
      BY DEF PeopleInv, Copies, b
    <3>3. \A p : Deciding(q, p)' => Deciding(r, p)
      BY <2>1, <1>1, <1>2, <1>6 DEF Deciding, b
    <3>4. Undisturbed(b, proposals) => Undisturbed(a, proposals)
      BY <1>1, <1>2 DEF Undisturbed, b
    <3> QED BY <2>1, <3>1, <3>2, <3>3, <3>4, <1>2, <1>6 DEF Answering
  <2>2. CASE q # r
    BY <2>2, <1>6, <1>7 DEF PeopleInv, Copies, Deciding, Answering
  <2> QED BY <2>1, <2>2
<1>11. Alone'
  BY <1>1, <1>2, <1>6, <1>7 DEF PeopleInv, Alone, Deciding, b
<1> QED BY <1>8, <1>9, <1>10, <1>11 DEF PeopleInv

\* What is put of a proposal only one request decides follows what was there.
LEMMA PutDecides ==
  ASSUME PeopleInv, NEW r \in Requests, PutProposal(r)
  PROVE  /\ asked[r] \in Deciders /\ asked[r].of \in DOMAIN proposals
         /\ asked[r].copy \in Proposals /\ asked[r].what \in Answers
         /\ Answering(asked[r], held) /\ asked[r].step = "put"
         /\ DOMAIN proposals' = DOMAIN proposals
         /\ proposals' = [proposals EXCEPT ![asked[r].of] = asked[r].copy]
         /\ proposals'[asked[r].of] = asked[r].copy
         /\ \A p \in DOMAIN proposals : p # asked[r].of => proposals'[p] = proposals[p]
         /\ asked[r].of \notin contested =>
              proposals[asked[r].of].status = Prior(asked[r].what)
<1>1. asked[r] \in Deciders /\ asked[r].step = "put"
  BY Steps DEF PutProposal, PeopleInv, Typed, Doing
<1>2. asked[r].of \in DOMAIN proposals /\ asked[r].copy \in Proposals /\ asked[r].what \in Answers
  BY <1>1 DEF Deciders
<1>3. Answering(asked[r], held)
  BY <1>1 DEF PeopleInv, Copies
<1>4. asked[r].of \notin contested => Undisturbed(asked[r], proposals)
  BY <1>1, <1>2 DEF PeopleInv, Copies, Deciding
<1> QED
  BY <1>1, <1>2, <1>3, <1>4 DEF PutProposal, PeopleInv, Typed, Undisturbed

LEMMA PutProposalKeeps ==
  ASSUME PeopleInv, NEW r \in Requests, PutProposal(r)
  PROVE  PeopleInv'
<1> DEFINE b == asked[r]
<1>1. asked' = [asked EXCEPT ![r] = Idle] /\ UNCHANGED <<employee, count, halts, held, contested>>
  BY DEF PutProposal, Ends
<1>2. DOMAIN proposals' = DOMAIN proposals
  BY PutDecides
<1>3. /\ asked'[r] = Idle /\ \A q \in Requests \ {r} : asked'[q] = asked[q]
      /\ asked' \in [Requests -> Doing']
  BY <1>1, <1>2, OneMoves DEF PeopleInv, Doing, Idle
<1>4. proposals' \in Seq(Proposals)
  BY PutDecides DEF PeopleInv, Typed
<1>5. Typed'
  BY <1>1, <1>2, <1>3, <1>4 DEF PeopleInv, Typed, Doing
<1>6. AcceptedTookHold'
  <2> SUFFICES ASSUME NEW p \in DOMAIN proposals, proposals'[p].status \in {"accepted", "reverted"}
               PROVE  p \in held
    BY <1>1, <1>2 DEF AcceptedTookHold
  <2>1. CASE p = b.of
    BY <2>1, PutDecides DEF Answering, StatusOf, Answers
  <2>2. CASE p # b.of
    BY <2>2, PutDecides DEF PeopleInv, AcceptedTookHold
  <2> QED BY <2>1, <2>2
<1>7. Copies'
  <2> SUFFICES ASSUME NEW q \in Requests
               PROVE  /\ asked'[q].step = "write" => Modest(asked'[q])
                      /\ asked'[q].step \in {"both", "put"} => Answering(asked'[q], held)
                      /\ \A p \in DOMAIN proposals \ contested :
                           Deciding(q, p)' => Undisturbed(asked'[q], proposals')
    BY <1>1, <1>2 DEF Copies, Answering
  <2>1. CASE q = r
    BY <2>1, <1>3 DEF Idle, Deciding
  <2>2. CASE q # r
    <3>1. asked'[q] = asked[q]
      BY <2>2, <1>3
    <3>2. ASSUME NEW p \in DOMAIN proposals \ contested, Deciding(q, p)
          PROVE  Undisturbed(asked[q], proposals')
      <4>1. Undisturbed(asked[q], proposals) /\ asked[q].of = p
        BY <3>2 DEF PeopleInv, Copies, Deciding
      <4>2. p # b.of
        BY <2>2, <3>2, PutDecides DEF PeopleInv, Alone, Deciding
      <4>3. proposals'[p] = proposals[p]
        BY <4>2, PutDecides
      <4> QED BY <3>1, <4>1, <4>3 DEF Undisturbed
    <3> QED BY <3>1, <3>2 DEF PeopleInv, Copies, Deciding
  <2> QED BY <2>1, <2>2
<1>8. Alone'
  BY <1>1, <1>2, <1>3 DEF PeopleInv, Alone, Deciding, Idle
<1> QED BY <1>5, <1>6, <1>7, <1>8 DEF PeopleInv

LEMMA PeopleKeep ==
  ASSUME PeopleConstants
  PROVE  PeopleInv /\ [PeopleNext]_peopleVars => PeopleInv'
<1> SUFFICES ASSUME PeopleInv, [PeopleNext]_peopleVars PROVE PeopleInv'
  OBVIOUS
<1>1. CASE Halt
  BY <1>1, HaltKeeps
<1>2. ASSUME NEW r \in Requests, PatchEmployee(r) \/ PutStatus(r) \/ Study(r) \/ Correct(r)
      PROVE  PeopleInv'
  BY <1>2, PatchKeeps, PutStatusKeeps, StudyKeeps, CorrectKeeps
<1>3. ASSUME NEW r \in Requests, GiveUp(r) \/ WriteEmployee(r) \/ LookBack(r) \/ Propose(r)
      PROVE  PeopleInv'
  BY <1>3, WriteKeeps, LookBackKeeps, ProposeKeeps
<1>4. ASSUME NEW r \in Requests,
             ReadProposal(r) \/ ReadEmployee(r) \/ ChangeThem(r) \/ PutProposal(r)
      PROVE  PeopleInv'
  BY <1>4, ReadProposalKeeps, ReadEmployeeKeeps, ChangeThemKeeps, PutProposalKeeps
<1>5. CASE UNCHANGED peopleVars
  BY <1>5 DEF peopleVars, PeopleInv, Typed, AcceptedTookHold, Copies, Alone, Deciding, Readers, Deciders
<1> QED BY <1>1, <1>2, <1>3, <1>4, <1>5 DEF PeopleNext

LEMMA PeopleStartRight ==
  ASSUME PeopleConstants
  PROVE  PeopleInit => PeopleInv
<1> SUFFICES ASSUME PeopleInit PROVE PeopleInv
  OBVIOUS
<1>1. Voice(FALSE, 0) \in Voices
  <2>1. FALSE \in BOOLEAN /\ 0 \in 0 .. MaxHeard
    BY DEF PeopleConstants
  <2> QED BY <2>1, VoiceTypes
<1>2. employee \in EmployeeRecords
  BY <1>1 DEF PeopleInit, EmployeeRecords, Texts
<1>3. proposals \in Seq(Proposals) /\ DOMAIN proposals = {}
  BY DEF PeopleInit
<1>4. Typed
  BY <1>2, <1>3 DEF PeopleInit, Typed, PeopleConstants
<1>5. \A r \in Requests : asked[r].step = "idle"
  BY DEF PeopleInit, Idle
<1> QED
  BY <1>3, <1>4, <1>5 DEF PeopleInv, AcceptedTookHold, Copies, Alone, Deciding

THEOREM PeopleInvariance ==
  ASSUME PeopleConstants
  PROVE  PeopleSpec => []PeopleInv
<1>1. PeopleInit => PeopleInv
  BY PeopleStartRight
<1>2. PeopleInv /\ [PeopleNext]_peopleVars => PeopleInv'
  BY PeopleKeep
<1> QED
  BY <1>1, <1>2, PTL DEF PeopleSpec

\* The employee and the proposals keep their types, whatever is asked at once, and a
\* proposal that counts as accepted was written onto the person, also when the
\* server stops between the two writes (server.ts, proposal.ts).
THEOREM AcceptedIsWritten ==
  ASSUME PeopleConstants
  PROVE  PeopleSpec => [](PeopleTypeOK /\ AcceptedTookHold)
<1>1. PeopleInv => PeopleTypeOK /\ AcceptedTookHold
  <2> SUFFICES ASSUME PeopleInv PROVE PeopleTypeOK
    BY DEF PeopleInv
  <2>1. \A p \in DOMAIN proposals : proposals[p] \in Proposals
    BY DEF PeopleInv, Typed
  <2> QED BY <2>1 DEF PeopleInv, Typed, PeopleTypeOK, Proposals
<1> QED
  BY <1>1, PeopleInvariance, PTL

-------------------------------------------------------------------------------
(* What a step may not do.                                                   *)

\* Only the writing steps change the employee, and only putting one, a proposal.
LEMMA WhoChanges ==
  ASSUME PeopleInv, [PeopleNext]_peopleVars
  PROVE  /\ \/ employee' = employee
            \/ \E r \in Requests : WriteEmployee(r) \/ ChangeThem(r)
         /\ \/ proposals' = proposals
            \/ \E r \in Requests : PutProposal(r) \/ Propose(r)
BY DEF PeopleNext, peopleVars, Halt, PatchEmployee, PutStatus, Study, Correct, GiveUp, WriteEmployee,
       LookBack, Propose, ReadProposal, ReadEmployee, ChangeThem, PutProposal

\* A write of the employee is a modest one, of a copy that was read.
LEMMA WritesModestly ==
  ASSUME PeopleInv, NEW r \in Requests, WriteEmployee(r) \/ ChangeThem(r)
  PROVE  WritesBack(r) /\ Modest(asked[r])
<1>1. CASE WriteEmployee(r)
  BY <1>1 DEF WriteEmployee, WritesBack, PeopleInv, Copies
<1>2. CASE ChangeThem(r)
  BY <1>2 DEF ChangeThem, WritesBack, PeopleInv, Copies, Answering
<1> QED BY <1>1, <1>2

Final ==
  employee.status = "terminated" /\ employee'.status # "terminated" =>
    \E r \in Requests : WritesBack(r) /\ Stale(r) /\ asked[r].read.status # "terminated"

Given ==
  employee.voice = NoVoice /\ employee'.voice # NoVoice =>
    \E r \in Requests :
      /\ WritesBack(r)
      /\ \/ asked[r].step = "write" /\ asked[r].on.field = "voice"
         \/ Stale(r) /\ asked[r].read.voice # NoVoice

Decided ==
  \A p \in DOMAIN proposals :
    proposals'[p].status # proposals[p].status =>
      \/ <<proposals[p].status, proposals'[p].status>> \in
           {<<"waiting", "accepted">>, <<"waiting", "declined">>, <<"accepted", "reverted">>}
      \/ p \in contested

Own ==
  \A r \in Requests :
    asked[r].step = "both" /\ asked[r].what = "revert" /\ ChangeThem(r) =>
      employee.words = asked[r].copy.after \/ Stale(r)

LEMMA StepIsFinal ==
  PeopleInv /\ [PeopleNext]_peopleVars => Final /\ Given
<1> SUFFICES ASSUME PeopleInv, [PeopleNext]_peopleVars, employee' # employee PROVE Final /\ Given
  BY DEF Final, Given
<1>1. PICK r \in Requests : WriteEmployee(r) \/ ChangeThem(r)
  BY WhoChanges
<1>2. WritesBack(r) /\ Modest(asked[r])
  BY <1>1, WritesModestly
<1>3. asked[r].step \in {"write", "both"} /\ employee' = asked[r].write
  BY <1>2 DEF WritesBack
<1>4. asked[r].read = employee \/ Stale(r)
  BY <1>3 DEF Stale
<1> QED
  BY <1>2, <1>3, <1>4 DEF Final, Given, Modest

LEMMA StepDecides ==
  PeopleInv /\ [PeopleNext]_peopleVars => Decided
<1> SUFFICES ASSUME PeopleInv, [PeopleNext]_peopleVars, NEW p \in DOMAIN proposals,
                    proposals'[p].status # proposals[p].status, p \notin contested
             PROVE  <<proposals[p].status, proposals'[p].status>> \in
                      {<<"waiting", "accepted">>, <<"waiting", "declined">>, <<"accepted", "reverted">>}
  BY DEF Decided
<1>1. PICK r \in Requests : PutProposal(r) \/ Propose(r)
  BY WhoChanges
<1>2. CASE Propose(r)
  <2>1. PICK new : proposals' = Append(proposals, new)
    BY <1>2 DEF Propose
  <2>2. proposals \in Seq(Proposals)
    BY DEF PeopleInv, Typed
  <2>3. proposals'[p] = proposals[p]
    BY <2>1, <2>2
  <2> QED BY <2>3
<1>3. CASE PutProposal(r)
  <2>1. p = asked[r].of
    BY <1>3, PutDecides
  <2>2. /\ proposals'[p].status = StatusOf(asked[r].what)
        /\ proposals[p].status = Prior(asked[r].what) /\ asked[r].what \in Answers
    BY <1>3, <2>1, PutDecides DEF Answering
  <2> QED BY <2>2 DEF StatusOf, Prior, Answers
<1> QED BY <1>1, <1>2, <1>3

LEMMA StepIsOwn ==
  PeopleInv => Own
BY DEF PeopleInv, Own, Copies, Answering, Stale

\* What was decided about a person stays decided, for any number of requests under
\* way at once, any words, and wherever the server stops: a proposal is answered
\* once and put back over nobody else's words, letting somebody go is final, and
\* nobody stands in for another unless somebody said so (server.ts, proposal.ts,
\* employee.ts).
THEOREM WordsAreKept ==
  ASSUME PeopleConstants
  PROVE  PeopleSpec => WordIsKept
<1>1. PeopleSpec => DecidedOnce
  BY PeopleInvariance, StepDecides, PTL DEF PeopleSpec, DecidedOnce, Decided
<1>2. PeopleSpec => RevertsItsOwn
  BY PeopleInvariance, StepIsOwn, PTL DEF PeopleSpec, RevertsItsOwn, Own
<1>3. PeopleSpec => TerminationIsFinal /\ VoiceIsGiven
  BY PeopleInvariance, StepIsFinal, PTL DEF PeopleSpec, TerminationIsFinal, VoiceIsGiven, Final, Given
<1> QED
  BY <1>1, <1>2, <1>3, AcceptedIsWritten DEF WordIsKept

-------------------------------------------------------------------------------
(* The office: its checks, made one at a time, are those of the whole.     *)
(*                                                                         *)
(* The invariant is about the writes that have been allowed and not made.  *)
(* Unless requests crossed, no write touches what another was checked      *)
(* against, so that each still fits when it is made.                       *)

TableNames == {"rooms", "staff", "connectors", "arrows"}

Edits(name, ids, values) ==
  [table : {name}, id : ids, value : values, reads : {s \in SUBSET TableNames : name \in s}]

Changed(records) == {v \in records : v.state # "unmade"}

AnEdit(w) ==
  \/ w \in Edits("rooms", Rooms, Changed(RoomRecords))
  \/ w \in Edits("staff", Staff, Changed(StaffRecords))
  \/ w \in Edits("connectors", Connectors, Changed(ConnectorRecords))
  \/ w \in Edits("arrows", 0 .. MaxEdits, Arrows \cup {Nothing})

OfficeTypes ==
  /\ OfficeTypeOK
  /\ DOMAIN edits = Editors
  /\ \A r \in Editors : edits[r] = Nothing \/ AnEdit(edits[r])

\* Arrows are numbered by the request that drew them.
NumberedBy(w) == w.table = "arrows" /\ w.value # Nothing => w.value.id <= edited

Numbered ==
  /\ \A a \in arrows : a.id <= edited
  /\ \A r \in Editors : NumberedBy(edits[r])

\* Nobody moves to another room, and only people of the room come on its bench.
KeepsBenches(w) ==
  /\ w.table = "rooms" => w.value.bench \subseteq StaffOf(staff, w.id)
  /\ w.table = "staff" /\ w.id \in Hired => w.value.room = staff[w.id].room

HiredOnce(v, w) == v.table = "staff" /\ w.table = "staff" /\ v.id = w.id => v.id \in Hired

Benches ==
  /\ \A r \in Rooms : rooms[r].bench \subseteq StaffOf(staff, r)
  /\ \A r \in Editors : KeepsBenches(edits[r])
  /\ \A q, r \in Editors : q # r => HiredOnce(edits[q], edits[r])

\* A write that was allowed still passes its check, against what that check read.
Granted(grant, w) == grant = None \/ ("connectors" \in w.reads /\ Grantable(grant, connectors))

FitsRoom(w) ==
  /\ \/ w.id \in There(rooms) /\ w.value.name = rooms[w.id].name
     \/ NameIsFree(rooms, w.id, w.value.name)
  /\ \/ w.id \in There(rooms) /\ w.value.grant = rooms[w.id].grant
     \/ Granted(w.value.grant, w)

FitsStaff(w) ==
  /\ \/ w.id \in Hired /\ w.value.room = staff[w.id].room
     \/ "rooms" \in w.reads /\ w.value.room \in There(rooms)
  /\ \/ w.id \in Hired /\ w.value.boss = staff[w.id].boss
     \/ MayBeBoss(w.value.boss, staff, w.id)
  /\ \/ w.id \in Hired /\ w.value.grant = staff[w.id].grant
     \/ Granted(w.value.grant, w)

FitsArrow(w) ==
  w.value # Nothing =>
    \/ w.value \in arrows
    \/ /\ "rooms" \in w.reads /\ EdgeFits(w.value, There(rooms), arrows)
       /\ \A a \in arrows : a.id < w.value.id

Fits(w) ==
  /\ w.table = "rooms" => FitsRoom(w)
  /\ w.table = "staff" => FitsStaff(w)
  /\ w.table = "arrows" => FitsArrow(w)

Acyclic(edges) == \A a \in edges : ~HasPath(edges, a.to, a.from)

Unraced ==
  /\ \A q, r \in Editors : q # r /\ Busy(q) /\ Busy(r) => ~Conflict(edits[q], edits[r])
  /\ \A r \in Editors : Fits(edits[r])
  /\ Acyclic(Edges(arrows, "escalates_to"))
  /\ loose \/ Imports

OfficeInv == OfficeTypes /\ Numbered /\ Benches /\ (raced \/ Unraced)

-------------------------------------------------------------------------------
(* The checks.                                                             *)

\* The least of some numbers.
LEMMA FirstIsLeast ==
  ASSUME NEW ids, ids \subseteq Nat, ids # {}
  PROVE  First(ids) \in ids /\ \A other \in ids : First(ids) <= other
<1>1. IsWellFoundedOn(OpToRel(<, Nat), Nat)
  BY NatLessThanWellFounded
<1>2. PICK n \in ids : \A y \in Nat : <<y, n>> \in OpToRel(<, Nat) => ~(y \in ids)
  BY <1>1, WFMin
<1>3. ASSUME NEW k \in ids PROVE n <= k
  <2>1. n \in Nat /\ k \in Nat
    OBVIOUS
  <2>2. SUFFICES ASSUME k < n PROVE FALSE
    BY <2>1
  <2>3. <<k, n>> \in OpToRel(<, Nat)
    BY <2>1, <2>2 DEF OpToRel
  <2> QED
    BY <1>2, <2>1, <2>3
<1> QED
  BY <1>3 DEF First

\* More arrows, more paths.
LEMMA FewerPaths ==
  ASSUME NEW edges, NEW more, edges \subseteq more, NEW from, NEW to, HasPath(edges, from, to)
  PROVE  HasPath(more, from, to)
BY DEF HasPath

\* With fewer arrows before it, and more rooms, an arrow fits the more.
LEMMA FitsBesideFewer ==
  ASSUME NEW edge, NEW there, NEW kept, NEW before, NEW fewer,
         EdgeFits(edge, there, before), fewer \subseteq before, {edge.from, edge.to} \subseteq kept
  PROVE  EdgeFits(edge, kept, fewer)
<1>1. Edges(fewer, "escalates_to") \subseteq Edges(before, "escalates_to")
  BY DEF Edges
<1> QED
  BY <1>1, FewerPaths DEF EdgeFits

LEMMA AcyclicFewer ==
  ASSUME NEW edges, NEW fewer, fewer \subseteq edges, Acyclic(edges)
  PROVE  Acyclic(fewer)
BY FewerPaths DEF Acyclic

\* An arrow closes no circle unless its end already leads to its start.
LEMMA NoCircleClosed ==
  ASSUME NEW edges, NEW edge, edge.from \in Rooms, edge.to \in Rooms,
         Acyclic(edges), ~HasPath(edges, edge.to, edge.from)
  PROVE  Acyclic(edges \cup {edge})
<1> DEFINE Closed(s) == \A a \in edges : a.from \in s => a.to \in s
<1>1. PICK far \in SUBSET Rooms : edge.to \in far /\ Closed(far) /\ edge.from \notin far
  BY DEF HasPath
<1>2. ASSUME NEW a \in edges PROVE ~HasPath(edges \cup {edge}, a.to, a.from)
  <2>1. PICK near \in SUBSET Rooms : a.to \in near /\ Closed(near) /\ a.from \notin near
    BY DEF Acyclic, HasPath
  <2>2. CASE edge.from \notin near
    BY <2>1, <2>2 DEF HasPath
  <2>3. CASE edge.from \in near /\ a.from \notin far
    <3>1. near \cup far \in SUBSET Rooms
      OBVIOUS
    <3>2. /\ a.to \in near \cup far /\ a.from \notin near \cup far
          /\ \A b \in edges \cup {edge} : b.from \in near \cup far => b.to \in near \cup far
      BY <1>1, <2>1, <2>3
    <3> QED
      BY <3>1, <3>2 DEF HasPath
  <2>4. CASE a.from \in far
    <3>1. near \cap far \in SUBSET Rooms
      OBVIOUS
    <3>2. /\ a.to \in near \cap far /\ a.from \notin near \cap far
          /\ \A b \in edges \cup {edge} : b.from \in near \cap far => b.to \in near \cap far
      BY <1>1, <2>1, <2>4
    <3> QED
      BY <3>1, <3>2 DEF HasPath
  <2> QED
    BY <2>2, <2>3, <2>4
<1>3. ~HasPath(edges \cup {edge}, edge.to, edge.from)
  BY <1>1 DEF HasPath
<1> QED
  BY <1>2, <1>3 DEF Acyclic

-------------------------------------------------------------------------------
(* A request is checked.                                                   *)

\* What makes a write good to be allowed to r.
Sound(r, w) ==
  /\ AnEdit(w)
  /\ w.table = "arrows" /\ w.value # Nothing => w.value.id <= edited + 1
  /\ KeepsBenches(w)
  /\ \A q \in Editors \ {r} : HiredOnce(edits[q], w)
  /\ Fits(w)

LEMMA AllowKeeps ==
  ASSUME OrganisationConstants, OfficeInv, NEW r \in Editors, Ready(r), NEW w, Allow(r, w),
         Sound(r, w)
  PROVE  OfficeInv'
<1>1. /\ edits' = [edits EXCEPT ![r] = w] /\ edited' = edited + 1
      /\ raced' = (raced \/ \E q \in Editors : Busy(q) /\ Conflict(edits[q], w))
      /\ rooms' = rooms /\ staff' = staff /\ connectors' = connectors /\ arrows' = arrows
      /\ loose' = loose
  BY DEF Allow
<1>2. edits'[r] = w /\ \A q \in Editors : q # r => edits'[q] = edits[q]
  BY <1>1 DEF OfficeInv, OfficeTypes
<1>3. edited \in Nat /\ edited' \in 0 .. MaxEdits
  BY <1>1 DEF OfficeInv, OfficeTypes, OfficeTypeOK, Ready, OrganisationConstants
<1>4. w.table \in {"rooms", "staff", "connectors", "arrows"}
  BY DEF Sound, AnEdit, Edits
<1>5. OfficeTypes'
  <2>1. OfficeTypeOK'
    BY <1>1, <1>2, <1>3, <1>4 DEF OfficeInv, OfficeTypes, OfficeTypeOK
  <2>2. DOMAIN edits' = Editors /\ \A q \in Editors : edits'[q] = Nothing \/ AnEdit(edits'[q])
    BY <1>1, <1>2 DEF OfficeInv, OfficeTypes, Sound
  <2> QED
    BY <2>1, <2>2 DEF OfficeTypes, AnEdit
<1>6. Numbered'
  <2>1. \A a \in arrows : a.id \in Nat /\ a.id <= edited
    BY DEF OfficeInv, OfficeTypes, OfficeTypeOK, Arrows, Numbered
  <2>2. \A a \in arrows' : a.id <= edited'
    BY <1>1, <1>3, <2>1
  <2>3. ASSUME NEW q \in Editors PROVE NumberedBy(edits[q])'
    <3>1. CASE q = r
      BY <1>1, <1>2, <3>1 DEF NumberedBy, Sound
    <3>2. CASE q # r
      <4>1. edits[q] = Nothing \/ AnEdit(edits[q])
        BY DEF OfficeInv, OfficeTypes
      <4>2. edits[q].table = "arrows" /\ edits[q].value # Nothing => edits[q].value.id \in Nat
        BY <4>1 DEF AnEdit, Edits, Arrows, Nothing
      <4>3. NumberedBy(edits[q])
        BY DEF OfficeInv, Numbered
      <4> QED
        BY <1>1, <1>2, <1>3, <3>2, <4>2, <4>3 DEF NumberedBy
    <3> QED
      BY <3>1, <3>2
  <2> QED
    BY <2>2, <2>3 DEF Numbered
<1>7. Benches'
  <2>1. Hired' = Hired /\ \A room \in Rooms : StaffOf(staff, room)' = StaffOf(staff, room)
    BY <1>1 DEF Hired, StaffOf
  <2>2. \A x \in Rooms : rooms'[x].bench \subseteq StaffOf(staff', x)
    BY <1>1 DEF OfficeInv, Benches
  <2>3. \A q \in Editors : KeepsBenches(edits[q])'
    BY <1>1, <1>2, <2>1 DEF OfficeInv, Benches, Sound, KeepsBenches, StaffOf
  <2>4. \A q, p \in Editors : q # p => HiredOnce(edits[q], edits[p])'
    BY <1>1, <1>2, <2>1 DEF OfficeInv, Benches, Sound, HiredOnce
  <2> QED
    BY <2>2, <2>3, <2>4 DEF Benches, StaffOf
<1>8. ASSUME ~raced' PROVE Unraced'
  <2>1. Unraced /\ \A q \in Editors : Busy(q) => ~Conflict(edits[q], w)
    BY <1>1, <1>8 DEF OfficeInv
  <2>2. \A q, p \in Editors : q # p /\ Busy(q)' /\ Busy(p)' => ~Conflict(edits[q], edits[p])'
    BY <1>2, <2>1 DEF Unraced, Conflict, Busy
  <2>3. \A q \in Editors : Fits(edits[q])'
    <3> SUFFICES ASSUME NEW q \in Editors PROVE Fits(edits[q])'
      OBVIOUS
    <3>1. CASE q = r
      BY <1>1, <1>2, <3>1 DEF Sound, Fits, FitsRoom, FitsStaff, FitsArrow, Granted, Hired
    <3>2. CASE q # r
      <4>1. Fits(edits[q]) /\ edits'[q] = edits[q]
        BY <1>2, <2>1, <3>2 DEF Unraced
      <4> QED
        BY <1>1, <4>1 DEF Fits, FitsRoom, FitsStaff, FitsArrow, Granted, Hired
    <3> QED
      BY <3>1, <3>2
  <2>4. Acyclic(Edges(arrows', "escalates_to"))
    BY <1>1, <2>1 DEF Unraced
  <2>5. (loose \/ Imports)'
    BY <1>1, <2>1 DEF Unraced, Imports, DepartmentsRead, EmployeesRead, ConnectionsRead, Hired
  <2> QED
    BY <2>2, <2>3, <2>4, <2>5 DEF Unraced
<1> QED
  BY <1>5, <1>6, <1>7, <1>8 DEF OfficeInv

\* What the office that a request reads is like.
LEMMA ReadsTypes ==
  ASSUME OfficeInv
  PROVE  /\ \A id \in Rooms : rooms[id] \in RoomRecords
         /\ \A id \in Staff : staff[id] \in StaffRecords
         /\ \A id \in Connectors : connectors[id] \in ConnectorRecords
         /\ DOMAIN rooms = Rooms /\ DOMAIN staff = Staff /\ DOMAIN connectors = Connectors
         /\ edited \in Nat
BY DEF OfficeInv, OfficeTypes, OfficeTypeOK

LEMMA RoomChangeIsSound ==
  ASSUME OfficeInv, NEW r \in Editors, NEW id \in Rooms, NEW value \in RoomRecords,
         value.state # "unmade", NEW reads \in SUBSET TableNames, "rooms" \in reads,
         value.bench \subseteq StaffOf(staff, id),
         \/ id \in There(rooms) /\ value.name = rooms[id].name
         \/ NameIsFree(rooms, id, value.name),
         \/ id \in There(rooms) /\ value.grant = rooms[id].grant
         \/ "connectors" \in reads /\ Grantable(value.grant, connectors)
  PROVE  Sound(r, Put("rooms", id, value, reads))
<1> DEFINE w == Put("rooms", id, value, reads)
<1>1. w.table = "rooms" /\ w.id = id /\ w.value = value /\ w.reads = reads
  BY DEF Put
<1>2. AnEdit(w)
  BY DEF AnEdit, Edits, Put, Changed
<1> HIDE DEF w
<1>3. KeepsBenches(w) /\ Fits(w) /\ \A q \in Editors \ {r} : HiredOnce(edits[q], w)
  BY <1>1 DEF KeepsBenches, Fits, FitsRoom, Granted, HiredOnce
<1>4. Sound(r, w)
  BY <1>1, <1>2, <1>3 DEF Sound
<1> QED
  BY <1>4 DEF w

LEMMA StaffChangeIsSound ==
  ASSUME OfficeInv, NEW r \in Editors, NEW id \in Hired, NEW value \in StaffRecords,
         value.state # "unmade", NEW reads \in SUBSET TableNames, "staff" \in reads,
         value.room = staff[id].room,
         value.boss = staff[id].boss \/ MayBeBoss(value.boss, staff, id),
         \/ value.grant = staff[id].grant
         \/ "connectors" \in reads /\ Grantable(value.grant, connectors)
  PROVE  Sound(r, Put("staff", id, value, reads))
<1> DEFINE w == Put("staff", id, value, reads)
<1>1. w.table = "staff" /\ w.id = id /\ w.value = value /\ w.reads = reads
  BY DEF Put
<1>2. AnEdit(w)
  BY DEF AnEdit, Edits, Put, Changed, Hired
<1> HIDE DEF w
<1>3. KeepsBenches(w) /\ Fits(w) /\ \A q \in Editors \ {r} : HiredOnce(edits[q], w)
  BY <1>1 DEF KeepsBenches, Fits, FitsStaff, Granted, HiredOnce
<1>4. Sound(r, w)
  BY <1>1, <1>2, <1>3 DEF Sound
<1> QED
  BY <1>4 DEF w

LEMMA ConnectorChangeIsSound ==
  ASSUME NEW r \in Editors, NEW id \in Connectors, NEW value \in ConnectorRecords,
         value.state # "unmade"
  PROVE  Sound(r, Put("connectors", id, value, {"connectors"}))
<1> DEFINE w == Put("connectors", id, value, {"connectors"})
<1>1. w.table = "connectors"
  BY DEF Put
<1>2. AnEdit(w)
  BY DEF AnEdit, Edits, Put, Changed, TableNames
<1> HIDE DEF w
<1>3. KeepsBenches(w) /\ Fits(w) /\ \A q \in Editors \ {r} : HiredOnce(edits[q], w)
  BY <1>1 DEF KeepsBenches, Fits, HiredOnce
<1>4. Sound(r, w)
  BY <1>1, <1>2, <1>3 DEF Sound
<1> QED
  BY <1>4 DEF w

LEMMA ArrowChangeIsSound ==
  ASSUME OfficeInv, NEW r \in Editors, NEW id \in 0 .. MaxEdits, NEW value \in Arrows \cup {Nothing},
         NEW reads \in SUBSET TableNames, "arrows" \in reads,
         \/ value \in arrows
         \/ value = Nothing
         \/ /\ "rooms" \in reads /\ EdgeFits(value, There(rooms), arrows)
            /\ value.id = edited + 1
  PROVE  Sound(r, Put("arrows", id, value, reads))
<1> DEFINE w == Put("arrows", id, value, reads)
<1>1. w.table = "arrows" /\ w.value = value /\ w.reads = reads
  BY DEF Put
<1>2. AnEdit(w)
  BY DEF AnEdit, Edits, Put
<1> HIDE DEF w
<1>3. edited \in Nat /\ \A a \in arrows : a.id \in Nat /\ a.id <= edited
  BY DEF OfficeInv, OfficeTypes, OfficeTypeOK, Numbered, Arrows
<1>4. value # Nothing => value.id <= edited + 1
  BY <1>3
<1>5. FitsArrow(w)
  BY <1>1, <1>3 DEF FitsArrow
<1>6. KeepsBenches(w) /\ Fits(w) /\ \A q \in Editors \ {r} : HiredOnce(edits[q], w)
  BY <1>1, <1>5 DEF KeepsBenches, Fits, HiredOnce
<1>7. Sound(r, w)
  BY <1>1, <1>2, <1>4, <1>6 DEF Sound
<1> QED
  BY <1>7 DEF w

LEMMA PostRoomKeeps ==
  ASSUME OrganisationConstants, OfficeInv, NEW r \in Editors, Ready(r), PostRoom(r)
  PROVE  OfficeInv'
<1>1. PICK id \in Rooms, name \in Names, grant \in Connectors \cup {None} :
        /\ NameIsFree(rooms, id, name) /\ Grantable(grant, connectors)
        /\ Allow(r, Put("rooms", id, [state |-> "there", name |-> name, grant |-> grant, bench |-> {}],
                        {"rooms", "connectors"}))
  BY DEF PostRoom
<1> DEFINE value == [state |-> "there", name |-> name, grant |-> grant, bench |-> {}]
<1>2. /\ value \in RoomRecords /\ value.state = "there" /\ value.name = name /\ value.grant = grant
      /\ value.bench = {}
  BY DEF RoomRecords
<1> HIDE DEF value
<1>3. Sound(r, Put("rooms", id, value, {"rooms", "connectors"}))
  BY <1>1, <1>2, RoomChangeIsSound DEF TableNames
<1> QED
  BY <1>1, <1>3, AllowKeeps DEF value

LEMMA PatchRoomKeeps ==
  ASSUME OrganisationConstants, OfficeInv, NEW r \in Editors, Ready(r), PatchRoom(r)
  PROVE  OfficeInv'
<1>1. PICK id \in There(rooms) :
        \/ \E name \in Names :
             /\ NameIsFree(rooms, id, name)
             /\ Allow(r, Put("rooms", id, [rooms[id] EXCEPT !.name = name], {"rooms"}))
        \/ \E grant \in Connectors \cup {None} :
             /\ Grantable(grant, connectors)
             /\ Allow(r, Put("rooms", id, [rooms[id] EXCEPT !.grant = grant],
                             {"rooms", "connectors"}))
        \/ \E bench \in SUBSET Staff :
             /\ BenchFits(bench, staff, id)
             /\ Allow(r, Put("rooms", id, [rooms[id] EXCEPT !.bench = bench], {"rooms", "staff"}))
  BY DEF PatchRoom
<1>2. /\ id \in Rooms /\ rooms[id] \in RoomRecords /\ rooms[id].state = "there"
      /\ rooms[id].bench \subseteq StaffOf(staff, id)
  BY ReadsTypes DEF There, OfficeInv, Benches
<1>3. ASSUME NEW name \in Names, NameIsFree(rooms, id, name),
             Allow(r, Put("rooms", id, [rooms[id] EXCEPT !.name = name], {"rooms"}))
      PROVE  OfficeInv'
  <2> DEFINE value == [rooms[id] EXCEPT !.name = name]
  <2>1. /\ value \in RoomRecords /\ value.state = "there" /\ value.name = name
        /\ value.grant = rooms[id].grant /\ value.bench = rooms[id].bench
    BY <1>2 DEF RoomRecords
  <2> HIDE DEF value
  <2>2. Sound(r, Put("rooms", id, value, {"rooms"}))
    BY <1>2, <1>3, <2>1, RoomChangeIsSound DEF TableNames
  <2> QED
    BY <1>3, <2>2, AllowKeeps DEF value
<1>4. ASSUME NEW grant \in Connectors \cup {None}, Grantable(grant, connectors),
             Allow(r, Put("rooms", id, [rooms[id] EXCEPT !.grant = grant], {"rooms", "connectors"}))
      PROVE  OfficeInv'
  <2> DEFINE value == [rooms[id] EXCEPT !.grant = grant]
  <2>1. /\ value \in RoomRecords /\ value.state = "there" /\ value.name = rooms[id].name
        /\ value.grant = grant /\ value.bench = rooms[id].bench
    BY <1>2 DEF RoomRecords
  <2> HIDE DEF value
  <2>2. Sound(r, Put("rooms", id, value, {"rooms", "connectors"}))
    BY <1>2, <1>4, <2>1, RoomChangeIsSound DEF TableNames
  <2> QED
    BY <1>4, <2>2, AllowKeeps DEF value
<1>5. ASSUME NEW bench \in SUBSET Staff, BenchFits(bench, staff, id),
             Allow(r, Put("rooms", id, [rooms[id] EXCEPT !.bench = bench], {"rooms", "staff"}))
      PROVE  OfficeInv'
  <2> DEFINE value == [rooms[id] EXCEPT !.bench = bench]
  <2>1. /\ value \in RoomRecords /\ value.state = "there" /\ value.name = rooms[id].name
        /\ value.grant = rooms[id].grant /\ value.bench = bench
    BY <1>2 DEF RoomRecords
  <2> HIDE DEF value
  <2>2. Sound(r, Put("rooms", id, value, {"rooms", "staff"}))
    BY <1>2, <1>5, <2>1, RoomChangeIsSound DEF TableNames, BenchFits
  <2> QED
    BY <1>5, <2>2, AllowKeeps DEF value
<1> QED
  BY <1>1, <1>3, <1>4, <1>5

LEMMA DeleteRoomKeeps ==
  ASSUME OrganisationConstants, OfficeInv, NEW r \in Editors, Ready(r), DeleteRoom(r)
  PROVE  OfficeInv'
<1>1. PICK id \in There(rooms) :
        Allow(r, Put("rooms", id, [rooms[id] EXCEPT !.state = "gone"], {"rooms"}))
  BY DEF DeleteRoom
<1>2. /\ id \in Rooms /\ rooms[id] \in RoomRecords
      /\ rooms[id].bench \subseteq StaffOf(staff, id)
  BY ReadsTypes DEF There, OfficeInv, Benches
<1> DEFINE value == [rooms[id] EXCEPT !.state = "gone"]
<1>3. /\ value \in RoomRecords /\ value.state = "gone" /\ value.name = rooms[id].name
      /\ value.grant = rooms[id].grant /\ value.bench = rooms[id].bench
  BY <1>2 DEF RoomRecords
<1> HIDE DEF value
<1>4. Sound(r, Put("rooms", id, value, {"rooms"}))
  BY <1>2, <1>3, RoomChangeIsSound DEF TableNames
<1> QED
  BY <1>1, <1>4, AllowKeeps DEF value

LEMMA HireKeeps ==
  ASSUME OrganisationConstants, OfficeInv, NEW r \in Editors, Ready(r), Hire(r)
  PROVE  OfficeInv'
<1>1. PICK id \in Staff, room \in There(rooms), boss \in Hired \cup {None} :
        /\ NewId(id, "staff", staff) /\ MayAppoint(boss, id)
        /\ Allow(r, Put("staff", id,
                        [state |-> "active", room |-> room, boss |-> boss, grant |-> None],
                        {"rooms", "staff"}))
  BY DEF Hire
<1> DEFINE value == [state |-> "active", room |-> room, boss |-> boss, grant |-> None]
           w == Put("staff", id, value, {"rooms", "staff"})
<1>2. /\ value \in StaffRecords /\ value.state = "active" /\ value.room = room
      /\ value.boss = boss /\ value.grant = None
  BY ReadsTypes DEF StaffRecords, There, Hired
<1>3. id \notin Hired /\ \A q \in Editors : edits[q].table = "staff" => edits[q].id # id
  <2> DEFINE taken == {edits[q].id : q \in {p \in Editors : edits[p].table = "staff"}}
             free == {other \in DOMAIN staff : staff[other].state = "unmade"} \ taken
  <2>1. free # {} /\ id = First(free)
    BY <1>1 DEF NewId
  <2>2. free \subseteq Nat
    BY ReadsTypes DEF OrganisationConstants
  <2>3. id \in free
    BY <2>1, <2>2, FirstIsLeast
  <2> QED
    BY <2>3 DEF Hired
<1>4. w.table = "staff" /\ w.id = id /\ w.value = value /\ w.reads = {"rooms", "staff"}
  BY DEF Put
<1> HIDE DEF value
<1>5. AnEdit(w)
  BY <1>2 DEF AnEdit, Edits, Put, Changed, TableNames
<1> HIDE DEF w
<1>6. KeepsBenches(w) /\ \A q \in Editors \ {r} : HiredOnce(edits[q], w)
  BY <1>3, <1>4 DEF KeepsBenches, HiredOnce
<1>7. Fits(w)
  BY <1>1, <1>2, <1>4 DEF Fits, FitsStaff, Granted, MayAppoint
<1>8. Sound(r, w)
  BY <1>4, <1>5, <1>6, <1>7 DEF Sound
<1> QED
  BY <1>1, <1>8, AllowKeeps DEF w, value

LEMMA PatchStaffKeeps ==
  ASSUME OrganisationConstants, OfficeInv, NEW r \in Editors, Ready(r), PatchStaff(r)
  PROVE  OfficeInv'
<1>1. PICK id \in Hired :
        \/ \E boss \in Hired \cup {None} :
             /\ MayAppoint(boss, id)
             /\ Allow(r, Put("staff", id, [staff[id] EXCEPT !.boss = boss], {"staff"}))
        \/ \E grant \in Connectors \cup {None} :
             /\ Grantable(grant, connectors)
             /\ Allow(r, Put("staff", id, [staff[id] EXCEPT !.grant = grant],
                             {"staff", "connectors"}))
  BY DEF PatchStaff
<1>2. staff[id] \in StaffRecords /\ staff[id].state # "unmade"
  BY ReadsTypes DEF Hired
<1>3. ASSUME NEW boss \in Hired \cup {None}, MayAppoint(boss, id),
             Allow(r, Put("staff", id, [staff[id] EXCEPT !.boss = boss], {"staff"}))
      PROVE  OfficeInv'
  <2> DEFINE value == [staff[id] EXCEPT !.boss = boss]
  <2>1. /\ value \in StaffRecords /\ value.state # "unmade" /\ value.room = staff[id].room
        /\ value.boss = boss /\ value.grant = staff[id].grant
    BY <1>2 DEF StaffRecords, Hired
  <2> HIDE DEF value
  <2>2. Sound(r, Put("staff", id, value, {"staff"}))
    BY <1>3, <2>1, StaffChangeIsSound DEF TableNames, MayAppoint
  <2> QED
    BY <1>3, <2>2, AllowKeeps DEF value
<1>4. ASSUME NEW grant \in Connectors \cup {None}, Grantable(grant, connectors),
             Allow(r, Put("staff", id, [staff[id] EXCEPT !.grant = grant], {"staff", "connectors"}))
      PROVE  OfficeInv'
  <2> DEFINE value == [staff[id] EXCEPT !.grant = grant]
  <2>1. /\ value \in StaffRecords /\ value.state # "unmade" /\ value.room = staff[id].room
        /\ value.boss = staff[id].boss /\ value.grant = grant
    BY <1>2 DEF StaffRecords
  <2> HIDE DEF value
  <2>2. Sound(r, Put("staff", id, value, {"staff", "connectors"}))
    BY <1>4, <2>1, StaffChangeIsSound DEF TableNames
  <2> QED
    BY <1>4, <2>2, AllowKeeps DEF value
<1> QED
  BY <1>1, <1>3, <1>4

LEMMA LetGoKeeps ==
  ASSUME OrganisationConstants, OfficeInv, NEW r \in Editors, Ready(r), LetGo(r)
  PROVE  OfficeInv'
<1>1. PICK id \in Hired :
        Allow(r, Put("staff", id, [staff[id] EXCEPT !.state = "terminated"], {"staff"}))
  BY DEF LetGo
<1> DEFINE value == [staff[id] EXCEPT !.state = "terminated"]
<1>2. /\ value \in StaffRecords /\ value.state # "unmade" /\ value.room = staff[id].room
      /\ value.boss = staff[id].boss /\ value.grant = staff[id].grant
  BY ReadsTypes DEF StaffRecords, Hired
<1> HIDE DEF value
<1>3. Sound(r, Put("staff", id, value, {"staff"}))
  BY <1>2, StaffChangeIsSound DEF TableNames
<1> QED
  BY <1>1, <1>3, AllowKeeps DEF value

LEMMA DiscoverKeeps ==
  ASSUME OrganisationConstants, OfficeInv, NEW r \in Editors, Ready(r), Discover(r)
  PROVE  OfficeInv'
<1>1. PICK id \in There(connectors), tool \in BOOLEAN :
        Allow(r, Put("connectors", id, [connectors[id] EXCEPT !.tool = tool], {"connectors"}))
  BY DEF Discover
<1>2. id \in Connectors /\ connectors[id] \in ConnectorRecords /\ connectors[id].state = "there"
  BY ReadsTypes DEF There
<1> DEFINE value == [connectors[id] EXCEPT !.tool = tool]
<1>3. value \in ConnectorRecords /\ value.state # "unmade"
  BY <1>2 DEF ConnectorRecords
<1> HIDE DEF value
<1>4. Sound(r, Put("connectors", id, value, {"connectors"}))
  BY <1>2, <1>3, ConnectorChangeIsSound
<1> QED
  BY <1>1, <1>4, AllowKeeps DEF value

LEMMA DeleteConnectorKeeps ==
  ASSUME OrganisationConstants, OfficeInv, NEW r \in Editors, Ready(r), DeleteConnector(r)
  PROVE  OfficeInv'
<1>1. PICK id \in There(connectors) :
        Allow(r, Put("connectors", id, [connectors[id] EXCEPT !.state = "gone"], {"connectors"}))
  BY DEF DeleteConnector
<1>2. id \in Connectors /\ connectors[id] \in ConnectorRecords
  BY ReadsTypes DEF There
<1> DEFINE value == [connectors[id] EXCEPT !.state = "gone"]
<1>3. value \in ConnectorRecords /\ value.state # "unmade"
  BY <1>2 DEF ConnectorRecords
<1> HIDE DEF value
<1>4. Sound(r, Put("connectors", id, value, {"connectors"}))
  BY <1>2, <1>3, ConnectorChangeIsSound
<1> QED
  BY <1>1, <1>4, AllowKeeps DEF value

LEMMA ConnectKeeps ==
  ASSUME OrganisationConstants, OfficeInv, NEW r \in Editors, Ready(r), Connect(r)
  PROVE  OfficeInv'
<1>1. PICK from \in Rooms, to \in Rooms, kind \in Kinds : \E edge \in Drawn(from, to, kind) :
        Allow(r, Put("arrows", edge.id, edge, {"rooms", "arrows"}))
  BY DEF Connect
<1>2. PICK edge \in Drawn(from, to, kind) :
        Allow(r, Put("arrows", edge.id, edge, {"rooms", "arrows"}))
  BY <1>1
<1>3. /\ edge = [id |-> edited + 1, from |-> from, to |-> to, kind |-> kind]
      /\ EdgeFits(edge, There(rooms), arrows)
  BY <1>2 DEF Drawn
<1>4. edited + 1 \in 0 .. MaxEdits
  BY ReadsTypes DEF Ready, OrganisationConstants
<1>5. edge \in Arrows /\ edge.id = edited + 1
  BY <1>3, <1>4 DEF Arrows
<1>6. Sound(r, Put("arrows", edge.id, edge, {"rooms", "arrows"}))
  BY <1>3, <1>4, <1>5, ArrowChangeIsSound DEF TableNames
<1> QED
  BY <1>2, <1>6, AllowKeeps

LEMMA PatchConnectionKeeps ==
  ASSUME OrganisationConstants, OfficeInv, NEW r \in Editors, Ready(r), PatchConnection(r)
  PROVE  OfficeInv'
<1>1. PICK edge \in arrows : Allow(r, Put("arrows", edge.id, edge, {"arrows"}))
  BY DEF PatchConnection
<1>2. edge \in Arrows /\ edge.id \in 0 .. MaxEdits
  BY DEF OfficeInv, OfficeTypes, OfficeTypeOK, Arrows
<1>3. Sound(r, Put("arrows", edge.id, edge, {"arrows"}))
  BY <1>2, ArrowChangeIsSound DEF TableNames
<1> QED
  BY <1>1, <1>3, AllowKeeps

LEMMA DisconnectKeeps ==
  ASSUME OrganisationConstants, OfficeInv, NEW r \in Editors, Ready(r), Disconnect(r)
  PROVE  OfficeInv'
<1>1. PICK edge \in arrows : Allow(r, Put("arrows", edge.id, Nothing, {"arrows"}))
  BY DEF Disconnect
<1>2. edge.id \in 0 .. MaxEdits
  BY DEF OfficeInv, OfficeTypes, OfficeTypeOK, Arrows
<1>3. Sound(r, Put("arrows", edge.id, Nothing, {"arrows"}))
  BY <1>2, ArrowChangeIsSound DEF TableNames
<1> QED
  BY <1>1, <1>3, AllowKeeps

-------------------------------------------------------------------------------
(* A write that was allowed is made.                                       *)

LEMMA WriteDoes ==
  ASSUME OfficeInv, NEW r \in Editors, Write(r), NEW w, w = edits[r]
  PROVE  /\ AnEdit(w) /\ Busy(r)
         /\ rooms' = IF w.table = "rooms" THEN [rooms EXCEPT ![w.id] = w.value] ELSE rooms
         /\ staff' = IF w.table = "staff" THEN [staff EXCEPT ![w.id] = w.value] ELSE staff
         /\ connectors' = IF w.table = "connectors" THEN [connectors EXCEPT ![w.id] = w.value]
                                                    ELSE connectors
         /\ arrows' = IF w.table # "arrows" THEN arrows
                      ELSE {a \in arrows : a.id # w.id}
                             \cup (IF w.value = Nothing THEN {} ELSE {w.value})
         /\ loose' = (loose \/ TakesAway(w))
         /\ edits'[r] = Nothing /\ (\A q \in Editors \ {r} : edits'[q] = edits[q])
         /\ DOMAIN edits' = Editors /\ edited' = edited /\ raced' = raced
<1>1. Busy(r) /\ AnEdit(w)
  BY DEF Write, OfficeInv, OfficeTypes, Busy, Nothing
<1>2. edits' = [edits EXCEPT ![r] = Nothing] /\ edited' = edited /\ raced' = raced
  BY DEF Write
<1>3. DOMAIN edits = Editors
  BY DEF OfficeInv, OfficeTypes
<1> QED
  BY <1>1, <1>2, <1>3 DEF Write

\* What was allowed is of the kind of record its table holds.
LEMMA EditTypes ==
  ASSUME NEW w, AnEdit(w)
  PROVE  /\ w.table \in TableNames /\ w.table \in w.reads
         /\ w.table = "rooms" =>
              w.id \in Rooms /\ w.value \in RoomRecords /\ w.value.state \in {"there", "gone"}
         /\ w.table = "staff" =>
              w.id \in Staff /\ w.value \in StaffRecords
              /\ w.value.state \in {"active", "terminated"}
         /\ w.table = "connectors" =>
              w.id \in Connectors /\ w.value \in ConnectorRecords
              /\ w.value.state \in {"there", "gone"}
         /\ w.table = "arrows" => w.value \in Arrows \cup {Nothing}
<1>1. CASE w \in Edits("rooms", Rooms, Changed(RoomRecords))
  BY <1>1 DEF Edits, Changed, RoomRecords, TableNames
<1>2. CASE w \in Edits("staff", Staff, Changed(StaffRecords))
  BY <1>2 DEF Edits, Changed, StaffRecords, TableNames
<1>3. CASE w \in Edits("connectors", Connectors, Changed(ConnectorRecords))
  BY <1>3 DEF Edits, Changed, ConnectorRecords, TableNames
<1>4. CASE w \in Edits("arrows", 0 .. MaxEdits, Arrows \cup {Nothing})
  BY <1>4 DEF Edits, TableNames
<1> QED
  BY <1>1, <1>2, <1>3, <1>4 DEF AnEdit

LEMMA WriteKeepsTypes ==
  ASSUME OfficeInv, NEW r \in Editors, Write(r)
  PROVE  OfficeTypes'
<1> DEFINE w == edits[r]
<1>1. AnEdit(w)
  BY WriteDoes
<1>2. rooms' \in [Rooms -> RoomRecords]
  BY <1>1, WriteDoes, EditTypes DEF OfficeInv, OfficeTypes, OfficeTypeOK
<1>3. staff' \in [Staff -> StaffRecords]
  BY <1>1, WriteDoes, EditTypes DEF OfficeInv, OfficeTypes, OfficeTypeOK
<1>4. connectors' \in [Connectors -> ConnectorRecords]
  BY <1>1, WriteDoes, EditTypes DEF OfficeInv, OfficeTypes, OfficeTypeOK
<1>5. arrows' \subseteq Arrows
  BY <1>1, WriteDoes, EditTypes DEF OfficeInv, OfficeTypes, OfficeTypeOK
<1>6. /\ DOMAIN edits' = Editors
      /\ \A q \in Editors : edits'[q] = Nothing \/ AnEdit(edits'[q])
  BY WriteDoes DEF OfficeInv, OfficeTypes
<1>7. \A q \in Editors : edits'[q].table \in {"none", "rooms", "staff", "connectors", "arrows"}
  BY <1>6, EditTypes DEF Nothing, TableNames
<1>8. edited' \in 0 .. MaxEdits
  BY WriteDoes DEF OfficeInv, OfficeTypes, OfficeTypeOK
<1>9. OfficeTypeOK'
  BY <1>2, <1>3, <1>4, <1>5, <1>7, <1>8 DEF OfficeTypeOK
<1> QED
  BY <1>6, <1>9 DEF OfficeTypes, AnEdit

LEMMA WriteKeepsNumbers ==
  ASSUME OfficeInv, NEW r \in Editors, Write(r)
  PROVE  Numbered'
<1>1. \A a \in arrows' : a.id <= edited'
  BY WriteDoes DEF OfficeInv, Numbered, NumberedBy
<1>2. \A q \in Editors : NumberedBy(edits[q])'
  BY WriteDoes DEF OfficeInv, Numbered, NumberedBy, Nothing
<1> QED
  BY <1>1, <1>2 DEF Numbered

\* Nobody who works in a room is lost to it.
LEMMA StaffStay ==
  ASSUME OfficeInv, NEW r \in Editors, Write(r)
  PROVE  /\ Hired \subseteq Hired'
         /\ \A p \in Hired : staff'[p].room = staff[p].room
         /\ \A room \in Rooms : StaffOf(staff, room) \subseteq StaffOf(staff', room)
<1> DEFINE w == edits[r]
<1>1. /\ AnEdit(w) /\ KeepsBenches(w) /\ DOMAIN staff = Staff
      /\ staff' = IF w.table = "staff" THEN [staff EXCEPT ![w.id] = w.value] ELSE staff
  BY WriteDoes, ReadsTypes DEF OfficeInv, Benches
<1> HIDE DEF w
<1>2. \A p \in Hired : staff'[p].state # "unmade" /\ staff'[p].room = staff[p].room
  BY <1>1, EditTypes DEF KeepsBenches, Hired
<1> QED
  BY <1>2 DEF Hired, StaffOf

LEMMA WriteKeepsBenches ==
  ASSUME OfficeInv, NEW r \in Editors, Write(r)
  PROVE  Benches'
<1> DEFINE w == edits[r]
<1>1. /\ AnEdit(w) /\ DOMAIN rooms = Rooms
      /\ rooms' = IF w.table = "rooms" THEN [rooms EXCEPT ![w.id] = w.value] ELSE rooms
  BY WriteDoes, ReadsTypes
<1>2. \A room \in Rooms : rooms'[room].bench \subseteq StaffOf(staff, room)
  BY <1>1, EditTypes DEF OfficeInv, Benches, KeepsBenches
<1>3. \A room \in Rooms : rooms'[room].bench \subseteq StaffOf(staff', room)
  BY <1>2, StaffStay
<1>4. ASSUME NEW q \in Editors PROVE KeepsBenches(edits[q])'
  <2>1. CASE q = r
    BY <2>1, WriteDoes DEF KeepsBenches, Nothing
  <2>2. CASE q # r
    <3> DEFINE v == edits[q]
    <3>1. edits'[q] = v /\ KeepsBenches(v) /\ HiredOnce(v, w) /\ (v = Nothing \/ AnEdit(v))
      BY <2>2, WriteDoes DEF OfficeInv, Benches, OfficeTypes
    <3>2. v.table = "rooms" => v.value.bench \subseteq StaffOf(staff', v.id)
      BY <3>1, StaffStay, EditTypes DEF KeepsBenches, Nothing
    <3>3. ASSUME v.table = "staff", v.id \in Hired' PROVE v.id \in Hired
      <4>1. /\ DOMAIN staff = Staff
            /\ staff' = IF w.table = "staff" THEN [staff EXCEPT ![w.id] = w.value] ELSE staff
        BY WriteDoes, ReadsTypes
      <4> HIDE DEF w, v
      <4> QED
        BY <3>1, <3>3, <4>1 DEF HiredOnce, Hired
    <3>4. v.table = "staff" /\ v.id \in Hired' => v.value.room = staff'[v.id].room
      BY <3>1, <3>3, StaffStay DEF KeepsBenches
    <3> QED
      BY <3>1, <3>2, <3>4 DEF KeepsBenches
  <2> QED
    BY <2>1, <2>2
<1>5. \A q, p \in Editors : q # p => HiredOnce(edits[q], edits[p])'
  BY WriteDoes, StaffStay DEF OfficeInv, Benches, HiredOnce, Nothing
<1> QED
  BY <1>3, <1>4, <1>5 DEF Benches

\* The other writes that were allowed still fit.
LEMMA OthersStillFit ==
  ASSUME OfficeInv, NEW r \in Editors, Write(r), Unraced, NEW q \in Editors \ {r}
  PROVE  Fits(edits[q])'
<1>w. PICK w : w = edits[r]
  OBVIOUS
<1>v. PICK v : v = edits[q]
  OBVIOUS
<1>1. AnEdit(w) /\ edits'[q] = v /\ Fits(v) /\ (v = Nothing \/ AnEdit(v))
  BY <1>w, <1>v, WriteDoes DEF OfficeInv, OfficeTypes, Unraced
<1>2. CASE v = Nothing
  <2>1. edits'[q].table = "none"
    BY <1>1, <1>2 DEF Nothing
  <2> QED
    BY <2>1 DEF Fits
<1>3. CASE AnEdit(v)
  <2>1. v.table \in v.reads /\ v.table \in TableNames /\ w.table \in TableNames
    BY <1>1, <1>3, EditTypes
  <2>2. w.table \notin v.reads
    <3>1. Busy(q) /\ Busy(r)
      BY <1>w, <1>v, <2>1 DEF Busy, TableNames
    <3> QED
      BY <1>w, <1>v, <3>1 DEF Unraced, Conflict
  <2>3. /\ w.table # "rooms" => rooms' = rooms
        /\ w.table # "staff" => staff' = staff
        /\ w.table # "connectors" => connectors' = connectors
        /\ w.table # "arrows" => arrows' = arrows
    BY <1>w, WriteDoes
  <2>4. ASSUME v.table = "rooms" PROVE FitsRoom(v)'
    <3>1. rooms' = rooms /\ ("connectors" \in v.reads => connectors' = connectors)
      BY <2>1, <2>2, <2>3, <2>4
    <3> QED
      BY <1>1, <2>4, <3>1 DEF Fits, FitsRoom, Granted
  <2>5. ASSUME v.table = "staff" PROVE FitsStaff(v)'
    <3>1. /\ staff' = staff /\ ("connectors" \in v.reads => connectors' = connectors)
          /\ "rooms" \in v.reads => rooms' = rooms
      BY <2>1, <2>2, <2>3, <2>5
    <3> QED
      BY <1>1, <2>5, <3>1 DEF Fits, FitsStaff, Granted, Hired
  <2>6. ASSUME v.table = "arrows" PROVE FitsArrow(v)'
    <3>1. arrows' = arrows /\ ("rooms" \in v.reads => rooms' = rooms)
      BY <2>1, <2>2, <2>3, <2>6
    <3> QED
      BY <1>1, <2>6, <3>1 DEF Fits, FitsArrow
  <2>7. Fits(v)'
    BY <2>4, <2>5, <2>6 DEF Fits
  <2> QED
    BY <1>1, <2>7 DEF Fits, FitsRoom, FitsStaff, FitsArrow, Granted, Hired
<1> QED
  BY <1>1, <1>2, <1>3

\* What is drawn is what was drawn, but for the arrow this write was allowed for.
LEMMA ArrowsAfter ==
  ASSUME OfficeInv, NEW r \in Editors, Write(r), Unraced
  PROVE  \/ arrows' \subseteq arrows
         \/ \E edge \in Arrows :
              /\ arrows' \subseteq arrows \cup {edge} /\ edge \in arrows'
              /\ rooms' = rooms
              /\ EdgeFits(edge, There(rooms), arrows)
              /\ \A a \in arrows : a.id < edge.id
<1> DEFINE w == edits[r]
<1>1. AnEdit(w) /\ Fits(w)
  BY WriteDoes DEF Unraced
<1>2. CASE w.table # "arrows"
  BY <1>2, WriteDoes
<1>3. CASE w.table = "arrows"
  <2>1. arrows' = {a \in arrows : a.id # w.id}
                    \cup (IF w.value = Nothing THEN {} ELSE {w.value})
    BY <1>3, WriteDoes
  <2>2. w.value \in Arrows \cup {Nothing} /\ FitsArrow(w) /\ rooms' = rooms
    BY <1>1, <1>3, EditTypes, WriteDoes DEF Fits
  <2> HIDE DEF w
  <2>3. CASE w.value = Nothing \/ w.value \in arrows
    BY <2>1, <2>3
  <2>4. CASE w.value # Nothing /\ w.value \notin arrows
    BY <2>1, <2>2, <2>4 DEF FitsArrow
  <2> QED
    BY <2>3, <2>4
<1> QED
  BY <1>2, <1>3

LEMMA WriteClosesNoCircle ==
  ASSUME OfficeInv, NEW r \in Editors, Write(r), Unraced
  PROVE  Acyclic(Edges(arrows', "escalates_to"))
<1> DEFINE old == Edges(arrows, "escalates_to")
           new == Edges(arrows', "escalates_to")
<1>1. Acyclic(old)
  BY DEF Unraced
<1>2. CASE arrows' \subseteq arrows
  <2>1. new \subseteq old
    BY <1>2 DEF Edges
  <2> QED
    BY <1>1, <2>1, AcyclicFewer
<1>3. CASE ~(arrows' \subseteq arrows)
  <2>1. PICK edge \in Arrows :
          arrows' \subseteq arrows \cup {edge} /\ EdgeFits(edge, There(rooms), arrows)
    BY <1>3, ArrowsAfter
  <2>2. CASE edge.kind = "escalates_to"
    <3>1. edge.from \in Rooms /\ edge.to \in Rooms
      BY DEF Arrows
    <3>2. ~HasPath(old, edge.to, edge.from)
      BY <2>1, <2>2 DEF EdgeFits
    <3>3. Acyclic(old \cup {edge})
      BY <1>1, <3>1, <3>2, NoCircleClosed
    <3>4. new \subseteq old \cup {edge}
      BY <2>1 DEF Edges
    <3> QED
      BY <3>3, <3>4, AcyclicFewer
  <2>3. CASE edge.kind # "escalates_to"
    <3>1. new \subseteq old
      BY <2>1, <2>3 DEF Edges
    <3> QED
      BY <1>1, <3>1, AcyclicFewer
  <2> QED
    BY <2>2, <2>3
<1> QED
  BY <1>2, <1>3

\* Rooms that others are in, or arrows lead to, stay.
LEMMA WriteKeepsRoomsNamed ==
  ASSUME OfficeInv, NEW r \in Editors, Write(r), ~loose', NEW id \in There(rooms),
         StaffOf(staff, id) # {} \/ \E a \in arrows : id \in {a.from, a.to}
  PROVE  id \in There(rooms')
<1> DEFINE w == edits[r]
<1>1. /\ AnEdit(w) /\ ~TakesAway(w) /\ DOMAIN rooms = Rooms
      /\ rooms' = IF w.table = "rooms" THEN [rooms EXCEPT ![w.id] = w.value] ELSE rooms
  BY WriteDoes, ReadsTypes
<1> HIDE DEF w
<1>2. id \in Rooms /\ rooms[id].state = "there"
  BY <1>1 DEF There
<1>3. CASE w.table = "rooms" /\ w.id = id
  <2>1. w.value.state # "gone"
    BY <1>1, <1>3 DEF TakesAway
  <2>2. w.value.state = "there"
    BY <1>1, <1>3, <2>1, EditTypes
  <2> QED
    BY <1>1, <1>2, <1>3, <2>2 DEF There
<1>4. CASE ~(w.table = "rooms" /\ w.id = id)
  BY <1>1, <1>2, <1>4 DEF There
<1> QED
  BY <1>3, <1>4

\* Tools that are granted stay on offer.
LEMMA WriteKeepsGrants ==
  ASSUME OfficeInv, NEW r \in Editors, Write(r), ~loose', NEW grant, Grantable(grant, connectors),
         \/ grant \in {rooms[id].grant : id \in There(rooms)}
         \/ grant \in {staff[p].grant : p \in Hired}
         \/ edits[r].table # "connectors"
  PROVE  Grantable(grant, connectors')
<1> DEFINE w == edits[r]
<1>1. /\ AnEdit(w) /\ ~TakesAway(w) /\ DOMAIN connectors = Connectors
      /\ connectors' = IF w.table = "connectors" THEN [connectors EXCEPT ![w.id] = w.value]
                                                 ELSE connectors
  BY WriteDoes, ReadsTypes
<1>2. CASE w.table = "connectors" /\ w.id = grant
  <2>1. w.value.state # "gone" /\ w.value.tool
    BY <1>1, <1>2 DEF TakesAway
  <2> HIDE DEF w
  <2>2. w.value.state = "there" /\ w.id \in Connectors
    BY <1>1, <1>2, <2>1, EditTypes
  <2> QED
    BY <1>1, <1>2, <2>1, <2>2 DEF Grantable, There
<1>3. CASE ~(w.table = "connectors" /\ w.id = grant)
  <2> HIDE DEF w
  <2> QED
    BY <1>1, <1>3 DEF Grantable, There
<1> QED
  BY <1>2, <1>3

LEMMA DepartmentsStillRead ==
  ASSUME OfficeInv, NEW r \in Editors, Write(r), Unraced, Imports, ~loose', Benches'
  PROVE  DepartmentsRead(There(rooms))'
<1>w. PICK w : w = edits[r]
  OBVIOUS
<1>1. /\ AnEdit(w) /\ Fits(w) /\ DOMAIN rooms = Rooms
      /\ rooms' = IF w.table = "rooms" THEN [rooms EXCEPT ![w.id] = w.value] ELSE rooms
      /\ w.table = "rooms" => connectors' = connectors
  BY <1>w, WriteDoes, ReadsTypes DEF Unraced
<1>2. \A id \in There(rooms) : /\ \A other \in There(rooms) : rooms[id].name = rooms[other].name
                                                              => id = other
                               /\ Grantable(rooms[id].grant, connectors)
  BY DEF Imports, DepartmentsRead
<1>3. \A id \in There(rooms) : Grantable(rooms[id].grant, connectors')
  BY <1>2, WriteKeepsGrants
<1>4. \A id \in There(rooms') : id \in Rooms /\ rooms'[id].bench \subseteq StaffOf(staff', id)
  <2>1. DOMAIN rooms' = Rooms
    BY <1>1
  <2> QED
    BY <2>1 DEF Benches, There
<1>5. CASE w.table # "rooms"
  <2>1. rooms' = rooms
    BY <1>1, <1>5
  <2> QED
    BY <1>2, <1>3, <1>4, <2>1 DEF DepartmentsRead, BenchFits
<1>6. CASE w.table = "rooms"
  <2>1. w.id \in Rooms /\ FitsRoom(w)
    BY <1>1, <1>6, EditTypes DEF Fits
  <2>2. /\ rooms'[w.id] = w.value
        /\ \A id \in There(rooms') : id # w.id => id \in There(rooms) /\ rooms'[id] = rooms[id]
    BY <1>1, <1>6, <2>1 DEF There
  <2>3. \A other \in There(rooms) : w.value.name = rooms[other].name => other = w.id
    BY <1>2, <2>1 DEF FitsRoom, NameIsFree
  <2>4. \A id, other \in There(rooms') : rooms'[id].name = rooms'[other].name => id = other
    BY <1>2, <2>2, <2>3
  <2>5. Grantable(w.value.grant, connectors)
    BY <1>2, <2>1 DEF FitsRoom, Granted, Grantable
  <2>6. \A id \in There(rooms') : Grantable(rooms'[id].grant, connectors')
    BY <1>1, <1>2, <1>6, <2>2, <2>5
  <2> QED
    BY <1>4, <2>4, <2>6 DEF DepartmentsRead, BenchFits
<1> QED
  BY <1>5, <1>6

LEMMA EmployeesStillRead ==
  ASSUME OfficeInv, NEW r \in Editors, Write(r), Unraced, Imports, ~loose', OrganisationConstants
  PROVE  EmployeesRead(There(rooms))'
<1>w. PICK w : w = edits[r]
  OBVIOUS
<1>1. /\ AnEdit(w) /\ Fits(w) /\ ~TakesAway(w) /\ DOMAIN staff = Staff
      /\ staff' = IF w.table = "staff" THEN [staff EXCEPT ![w.id] = w.value] ELSE staff
      /\ w.table = "staff" => connectors' = connectors /\ rooms' = rooms
      /\ None \notin Staff
  BY <1>w, WriteDoes, ReadsTypes DEF Unraced, OrganisationConstants, None
<1>2. \A p \in Hired : /\ staff[p].room \in There(rooms)
                       /\ MayBeBoss(staff[p].boss, staff, p)
                       /\ Grantable(staff[p].grant, connectors)
  BY DEF Imports, EmployeesRead
<1>3. CASE w.table # "staff"
  <2>1. staff' = staff /\ Hired' = Hired
    BY <1>1, <1>3 DEF Hired
  <2>2. \A p \in Hired : p \in StaffOf(staff, staff[p].room)
    BY DEF Hired, StaffOf
  <2>3. \A p \in Hired : staff[p].room \in There(rooms')
    BY <1>2, <2>2, WriteKeepsRoomsNamed
  <2>4. \A p \in Hired : Grantable(staff[p].grant, connectors')
    BY <1>2, WriteKeepsGrants
  <2> QED
    BY <1>2, <2>1, <2>3, <2>4 DEF EmployeesRead, MayBeBoss
<1>4. CASE w.table = "staff"
  <2>1. w.id \in Staff /\ FitsStaff(w) /\ w.value.state \in {"active", "terminated"}
    BY <1>1, <1>4, EditTypes DEF Fits
  <2>2. /\ staff'[w.id] = w.value
        /\ \A p \in Staff : p # w.id => staff'[p] = staff[p]
        /\ rooms' = rooms /\ connectors' = connectors
    BY <1>1, <1>4, <2>1
  <2>3. w.value.state = "terminated" => \A p \in Staff : staff[p].boss # w.id
    BY <1>1, <1>4 DEF TakesAway
  <2>4. \A p \in Hired' : p # w.id => p \in Hired
    BY <2>2 DEF Hired
  <2>5. ASSUME NEW p \in Hired', p # w.id
        PROVE  /\ staff'[p].room \in There(rooms')
               /\ MayBeBoss(staff'[p].boss, staff', p)
               /\ Grantable(staff'[p].grant, connectors')
    <3>1. p \in Hired /\ p \in Staff /\ staff'[p] = staff[p]
      BY <2>2, <2>4, <2>5 DEF Hired
    <3>2. ASSUME staff[p].boss # None
          PROVE  staff[p].boss # p /\ staff'[staff[p].boss].state = "active"
      <4>1. staff[p].boss # p /\ staff[staff[p].boss].state = "active"
        BY <1>2, <3>1, <3>2 DEF MayBeBoss
      <4>2. staff[p].boss \in Staff
        BY <3>1, <3>2, ReadsTypes DEF StaffRecords
      <4>3. CASE staff[p].boss = w.id
        BY <2>1, <2>2, <2>3, <3>1, <4>1, <4>3
      <4>4. CASE staff[p].boss # w.id
        BY <2>2, <4>1, <4>2, <4>4
      <4> QED
        BY <4>3, <4>4
    <3> QED
      BY <1>2, <2>2, <3>1, <3>2 DEF MayBeBoss
  <2>6. /\ w.value.room \in There(rooms)
        /\ MayBeBoss(w.value.boss, staff, w.id)
        /\ Grantable(w.value.grant, connectors)
    BY <1>2, <2>1 DEF FitsStaff, Granted, Grantable
  <2>7. MayBeBoss(w.value.boss, staff', w.id)
    <3>1. w.value.boss \in Staff \cup {None}
      BY <1>1, <1>4, EditTypes DEF StaffRecords
    <3> QED
      BY <2>2, <2>6, <3>1 DEF MayBeBoss
  <2> QED
    BY <2>2, <2>5, <2>6, <2>7 DEF EmployeesRead
<1> QED
  BY <1>3, <1>4

LEMMA ConnectionsStillRead ==
  ASSUME OfficeInv, NEW r \in Editors, Write(r), Unraced, Imports, ~loose'
  PROVE  ConnectionsRead(There(rooms))'
<1>1. \A a \in arrows : /\ EdgeFits(a, There(rooms), {b \in arrows : b.id < a.id})
                        /\ {a.from, a.to} \subseteq There(rooms)
  BY DEF Imports, ConnectionsRead, EdgeFits
<1>2. \A a \in arrows : {a.from, a.to} \subseteq There(rooms')
  BY <1>1, WriteKeepsRoomsNamed
<1>3. \A a \in arrows : a.id \in Nat
  BY DEF OfficeInv, OfficeTypes, OfficeTypeOK, Arrows
<1>4. CASE arrows' \subseteq arrows
  <2>1. ASSUME NEW a \in arrows'
        PROVE  EdgeFits(a, There(rooms'), {b \in arrows' : b.id < a.id})
    <3>1. {b \in arrows' : b.id < a.id} \subseteq {b \in arrows : b.id < a.id}
      BY <1>4
    <3> QED
      BY <1>1, <1>2, <1>4, <3>1, FitsBesideFewer
  <2> QED
    BY <2>1 DEF ConnectionsRead
<1>5. ASSUME NEW edge \in Arrows, arrows' \subseteq arrows \cup {edge}, rooms' = rooms,
             EdgeFits(edge, There(rooms), arrows), \A a \in arrows : a.id < edge.id
      PROVE  ConnectionsRead(There(rooms))'
  <2>1. ASSUME NEW a \in arrows', a \in arrows
        PROVE  EdgeFits(a, There(rooms'), {b \in arrows' : b.id < a.id})
    <3>1. {b \in arrows' : b.id < a.id} \subseteq {b \in arrows : b.id < a.id}
      <4>1. ~(edge.id < a.id)
        BY <1>3, <1>5, <2>1 DEF Arrows
      <4> QED
        BY <1>5, <4>1
    <3> QED
      BY <1>1, <1>2, <2>1, <3>1, FitsBesideFewer
  <2>2. EdgeFits(edge, There(rooms'), {b \in arrows' : b.id < edge.id})
    <3>1. {b \in arrows' : b.id < edge.id} \subseteq arrows
      <4>1. ~(edge.id < edge.id)
        BY DEF Arrows
      <4> QED
        BY <1>5, <4>1
    <3>2. {edge.from, edge.to} \subseteq There(rooms')
      BY <1>5 DEF EdgeFits
    <3> QED
      BY <1>5, <3>1, <3>2, FitsBesideFewer
  <2> QED
    BY <1>5, <2>1, <2>2 DEF ConnectionsRead
<1> QED
  BY <1>4, <1>5, ArrowsAfter

LEMMA WriteKeepsOffice ==
  ASSUME OrganisationConstants, OfficeInv, NEW r \in Editors, Write(r)
  PROVE  OfficeInv'
<1>1. OfficeTypes' /\ Numbered' /\ Benches'
  BY WriteKeepsTypes, WriteKeepsNumbers, WriteKeepsBenches
<1>2. ASSUME ~raced' PROVE Unraced'
  <2>1. Unraced
    BY <1>2, WriteDoes DEF OfficeInv
  <2>2. /\ \A q \in Editors \ {r} : edits'[q] = edits[q]
        /\ edits'[r].table = "none"
    BY WriteDoes DEF Nothing
  <2>3. \A q, p \in Editors : q # p /\ Busy(q)' /\ Busy(p)' => ~Conflict(edits[q], edits[p])'
    BY <2>1, <2>2 DEF Unraced, Busy, Conflict
  <2>4. Fits(edits[r])'
    BY <2>2 DEF Fits
  <2>5. \A q \in Editors : Fits(edits[q])'
    BY <2>1, <2>4, OthersStillFit
  <2>6. Acyclic(Edges(arrows', "escalates_to"))
    BY <2>1, WriteClosesNoCircle
  <2>7. ASSUME ~loose' PROVE Imports'
    <3>1. ~loose
      BY <2>7, WriteDoes
    <3>2. Imports
      BY <2>1, <3>1 DEF Unraced
    <3> QED
      BY <1>1, <2>1, <2>7, <3>2, DepartmentsStillRead, EmployeesStillRead, ConnectionsStillRead
         DEF Imports
  <2> QED
    BY <2>3, <2>5, <2>6, <2>7 DEF Unraced
<1> QED
  BY <1>1, <1>2 DEF OfficeInv

-------------------------------------------------------------------------------

LEMMA OfficeStartsRight == OrganisationConstants /\ OfficeInit => OfficeInv
<1> SUFFICES ASSUME OrganisationConstants, OfficeInit PROVE OfficeInv
  OBVIOUS
<1>1. /\ Rooms \subseteq Nat \ {0} /\ 1 \in Rooms /\ 2 \in Rooms /\ 1 \in Staff /\ MaxEdits \in Nat
      /\ 0 \notin Staff /\ 0 \notin Connectors
  BY DEF OrganisationConstants
<1> DEFINE named == CHOOSE f \in [Rooms -> Names] : \A a, b \in Rooms : f[a] = f[b] => a = b
<1>2. named \in [Rooms -> Names] /\ \A a, b \in Rooms : named[a] = named[b] => a = b
  BY DEF OrganisationConstants
<1>3. rooms = [r \in Rooms |-> [state |-> IF r <= 2 THEN "there" ELSE "unmade",
                                name |-> named[r], grant |-> None, bench |-> {}]]
  BY DEF OfficeInit
<1> HIDE DEF named
<1>4. First(Rooms) = 1
  <2>1. First(Rooms) \in Rooms /\ First(Rooms) <= 1
    BY <1>1, FirstIsLeast
  <2>2. First(Rooms) \in Nat \ {0}
    BY <1>1, <2>1
  <2> QED
    BY <2>1, <2>2
<1>5. /\ staff = [p \in Staff |-> [state |-> IF p = 1 THEN "active" ELSE "unmade",
                                   room |-> 1, boss |-> None, grant |-> None]]
      /\ connectors = [c \in Connectors |-> [state |-> "there", tool |-> TRUE]]
      /\ arrows = {[id |-> 0, from |-> 1, to |-> 2, kind |-> "escalates_to"]}
      /\ edits = [r \in Editors |-> Nothing]
      /\ edited = 0 /\ raced = FALSE /\ loose = FALSE
  BY <1>4 DEF OfficeInit
<1>6. \A r \in Editors : edits[r] = Nothing /\ edits[r].table = "none"
  BY <1>5 DEF Nothing
<1>7. OfficeTypes
  <2>1. rooms \in [Rooms -> RoomRecords]
    BY <1>1, <1>2, <1>3 DEF RoomRecords
  <2>2. staff \in [Staff -> StaffRecords]
    BY <1>1, <1>5 DEF StaffRecords
  <2>3. connectors \in [Connectors -> ConnectorRecords]
    BY <1>5 DEF ConnectorRecords
  <2>4. arrows \subseteq Arrows
    BY <1>1, <1>5 DEF Arrows, Kinds
  <2>5. edited \in 0 .. MaxEdits
    BY <1>1, <1>5
  <2> QED
    BY <1>5, <1>6, <2>1, <2>2, <2>3, <2>4, <2>5 DEF OfficeTypes, OfficeTypeOK
<1>8. Numbered
  BY <1>5, <1>6 DEF Numbered, NumberedBy
<1>9. Benches
  BY <1>3, <1>6 DEF Benches, KeepsBenches, HiredOnce
<1>10. 1 \in There(rooms) /\ 2 \in There(rooms)
  BY <1>1, <1>3 DEF There
<1>far. PICK far \in SUBSET Rooms : 2 \in far /\ 1 \notin far
  <2>1. {2} \in SUBSET Rooms /\ 2 \in {2} /\ 1 \notin {2}
    BY <1>1
  <2> QED
    BY <2>1
<1>11. Acyclic(Edges(arrows, "escalates_to"))
  <2>1. ~HasPath(Edges(arrows, "escalates_to"), 2, 1)
    <3>1. \A a \in Edges(arrows, "escalates_to") : a.from \in far => a.to \in far
      BY <1>5, <1>far DEF Edges
    <3> QED
      BY <1>far, <3>1 DEF HasPath
  <2> QED
    BY <1>5, <2>1 DEF Acyclic, Edges
<1>12. Imports
  <2>1. DepartmentsRead(There(rooms))
    BY <1>2, <1>3 DEF DepartmentsRead, Grantable, BenchFits, There
  <2>2. EmployeesRead(There(rooms))
    BY <1>5, <1>10 DEF EmployeesRead, MayBeBoss, Grantable, Hired
  <2>3. ConnectionsRead(There(rooms))
    <3>1. PICK edge : edge = [id |-> 0, from |-> 1, to |-> 2, kind |-> "escalates_to"]
      OBVIOUS
    <3>2. {b \in arrows : b.id < edge.id} = {}
      BY <1>5, <3>1
    <3>3. ~HasPath(Edges({}, "escalates_to"), edge.to, edge.from)
      <4>1. Edges({}, "escalates_to") = {}
        BY DEF Edges
      <4> QED
        BY <1>far, <3>1, <4>1 DEF HasPath
    <3>4. EdgeFits(edge, There(rooms), {})
      BY <1>10, <3>1, <3>3 DEF EdgeFits
    <3> QED
      BY <1>5, <3>1, <3>2, <3>4 DEF ConnectionsRead
  <2> QED
    BY <2>1, <2>2, <2>3 DEF Imports
<1>13. Unraced
  BY <1>6, <1>11, <1>12 DEF Unraced, Busy, Fits
<1> QED
  BY <1>7, <1>8, <1>9, <1>13 DEF OfficeInv

LEMMA OfficeKeeps == OrganisationConstants /\ OfficeInv /\ [OfficeNext]_organisationVars => OfficeInv'
<1> SUFFICES ASSUME OrganisationConstants, OfficeInv, [OfficeNext]_organisationVars
             PROVE  OfficeInv'
  OBVIOUS
<1>1. ASSUME NEW r \in Editors, Ready(r),
             \/ PostRoom(r) \/ PatchRoom(r) \/ DeleteRoom(r) \/ Hire(r) \/ PatchStaff(r)
             \/ LetGo(r) \/ Discover(r) \/ DeleteConnector(r) \/ Connect(r)
             \/ PatchConnection(r) \/ Disconnect(r)
      PROVE  OfficeInv'
  BY <1>1, PostRoomKeeps, PatchRoomKeeps, DeleteRoomKeeps, HireKeeps, PatchStaffKeeps,
     LetGoKeeps, DiscoverKeeps, DeleteConnectorKeeps, ConnectKeeps, PatchConnectionKeeps,
     DisconnectKeeps
<1>2. ASSUME NEW r \in Editors, Write(r) PROVE OfficeInv'
  BY <1>2, WriteKeepsOffice
<1>3. CASE UNCHANGED organisationVars
  <2>1. /\ rooms' = rooms /\ staff' = staff /\ connectors' = connectors /\ arrows' = arrows
        /\ edits' = edits /\ edited' = edited /\ raced' = raced /\ loose' = loose
    BY <1>3 DEF organisationVars
  <2>2. OfficeTypes'
    BY <2>1 DEF OfficeInv, OfficeTypes, OfficeTypeOK, AnEdit
  <2>3. Numbered' /\ Benches'
    BY <2>1 DEF OfficeInv, Numbered, NumberedBy, Benches, KeepsBenches, HiredOnce, StaffOf, Hired
  <2>4. ASSUME Unraced PROVE Unraced'
    <3>1. \A q \in Editors : Fits(edits[q])'
      BY <2>1, <2>4 DEF Unraced, Fits, FitsRoom, FitsStaff, FitsArrow, Granted, Hired
    <3>2. (loose \/ Imports)'
      BY <2>1, <2>4 DEF Unraced, Imports, DepartmentsRead, EmployeesRead, ConnectionsRead, Hired
    <3> QED
      BY <2>1, <2>4, <3>1, <3>2 DEF Unraced, Busy
  <2> QED
    BY <2>1, <2>2, <2>3, <2>4 DEF OfficeInv
<1> QED
  BY <1>1, <1>2, <1>3 DEF OfficeNext

\* Every write that was allowed still passes its checks when it is made, unless
\* requests crossed (server.ts).
THEOREM OfficeInvariance ==
  ASSUME OrganisationConstants
  PROVE  OfficeSpec => []OfficeInv
<1>1. OfficeInit => OfficeInv
  BY OfficeStartsRight
<1>2. OfficeInv /\ [OfficeNext]_organisationVars => OfficeInv'
  BY OfficeKeeps
<1> QED
  BY <1>1, <1>2, PTL DEF OfficeSpec

\* However many rooms, people and requests there are: an office that is edited one
\* request at a time reads back from its file, escalation never comes back to the
\* room it left, and whoever is on a bench works in its room (office-file.ts,
\* connection.ts, bench.ts).
THEOREM OfficeKeepsStanding ==
  ASSUME OrganisationConstants
  PROVE  OfficeSpec => []OfficeStands
<1>1. OfficeInv => OfficeStands
  <2> SUFFICES ASSUME OfficeInv PROVE OfficeStands
    OBVIOUS
  <2>1. OfficeTypeOK /\ ReadsBack
    BY DEF OfficeInv, OfficeTypes, Unraced, ReadsBack
  <2>2. NoLoops
    BY DEF OfficeInv, Unraced, Acyclic, NoLoops
  <2>3. BenchesWorkHere
    BY ReadsTypes DEF OfficeInv, Benches, BenchesWorkHere, There
  <2> QED
    BY <2>1, <2>2, <2>3 DEF OfficeStands
<1> QED
  BY <1>1, OfficeInvariance, PTL

-------------------------------------------------------------------------------
(* Keys: what a service says it has opens, and nothing else is kept.       *)
(*                                                                         *)
(* The invariant follows a service that one request at a time works on:    *)
(* how far that request is with the vault says which key of the service    *)
(* the file has, and which the vault answers from.                         *)

ToSave == {<<"save", "keep", "write">>, <<"save", "keep", "remove">>, <<"save", "keep">>}
ToKeep == {<<"keep", "write">>, <<"keep", "remove">>, <<"keep">>}
ToPut == {<<"write">>, <<"found">>, <<"remove">>}

ServiceCopies == {c \in ServiceRecords : c.state = "kept" /\ (c.named => c.ref = NoKey)}
Files == [Refs -> Keys]

CallRecords ==
  [of : Services, todo : ToSave \cup ToKeep \cup ToPut, copy : ServiceCopies,
   file : Files \cup {NoFile}, drop : Keys]

Filing(w) == w.todo \in ToSave \cup ToKeep
Dropping(w) == w.todo \in {<<"save", "keep">>, <<"keep">>}
Removing(w) == w.todo \in {<<"save", "keep", "remove">>, <<"keep", "remove">>, <<"remove">>}

Signature == SUBSET (Services \X BOOLEAN \X Keys \X BOOLEAN)
ProviderKeys == [Services -> Keys \cup {Named, Keyless}]

KeyTypes ==
  /\ KeysTypeOK
  /\ DOMAIN calls = Callers
  /\ \A r \in Callers : calls[r] = Done \/ calls[r] \in CallRecords
  /\ \A r \in Callers : Serving(r) /\ Filing(calls[r]) => calls[r].file \in Files \ {NoFile}
  /\ owner \in [Refs -> Services \cup {NoKey}]
  /\ worker \in [step : {"resting", "fetching"}, of : Signature, keys : ProviderKeys,
                 left : SUBSET Services, missed : SUBSET Services]
  /\ worker.step = "fetching" => worker.left # {}
  /\ providers \in [of : Signature, keys : ProviderKeys]

\* Every reference is somebody's.
Owns(s, ref) == ref # NoKey => owner[ref] = s

Owned ==
  /\ \A ref \in Refs : owner[ref] # NoKey => ref <= called
  /\ \A ref \in Refs : disk[ref] # NoKey \/ memory[ref] # NoKey => owner[ref] # NoKey
  /\ \A s \in Services : /\ Owns(s, services[s].ref)
                         /\ services[s].state # "kept" => services[s].ref = NoKey
  /\ \A r \in Callers : Serving(r) =>
       /\ Owns(calls[r].of, calls[r].copy.ref) /\ Owns(calls[r].of, calls[r].drop)
       /\ services[calls[r].of].state # "unmade"
       /\ Removing(calls[r]) => calls[r].copy.ref = NoKey
       /\ Filing(calls[r]) =>
            \A ref \in Refs : calls[r].file[ref] # NoKey => owner[ref] # NoKey

\* Two requests that are in each other's way have their services marked.
Beside(v, w) == v.of = w.of \/ (AtTheVault(v) /\ AtTheVault(w))

Marked ==
  \A q, r \in Callers :
    q # r /\ Serving(q) /\ Serving(r) /\ Beside(calls[q], calls[r]) =>
      calls[q].of \in mixed /\ calls[r].of \in mixed

\* Of the keys of s the file m has the one under `ref` and no other.
OneKey(m, s, ref) == \A x \in Refs : owner[x] = s => (m[x] # NoKey <=> x = ref)

\* The files say the same of s.
Same(m, n, s) == \A x \in Refs : owner[x] = s => m[x] = n[x]

Quiet(s) == \A r \in Callers : Serving(r) => calls[r].of # s

AtRest(s) == Same(disk, memory, s) /\ OneKey(memory, s, services[s].ref)

\* What the vault holds for s before the request w is kept there.
Before(w) == IF Dropping(w) THEN w.drop ELSE services[w.of].ref

\* How far the one request for a service is.
Halfway(w) ==
  LET s == w.of
      ref == services[s].ref
  IN /\ services[s].state = "kept"
     /\ Filing(w) => /\ OneKey(memory, s, Before(w)) /\ OneKey(w.file, s, w.copy.ref)
                     /\ Same(disk, IF w.todo \in ToSave THEN memory ELSE w.file, s)
     /\ ~Filing(w) /\ w.file = NoFile =>
          AtRest(s) /\ ((w.copy.ref = ref /\ w.drop = NoKey) \/ (w.copy.ref = NoKey /\ w.drop = ref))
     /\ ~Filing(w) /\ w.file # NoFile => Same(disk, memory, s) /\ OneKey(memory, s, w.copy.ref)
     /\ Dropping(w) => ref = NoKey /\ w.copy.ref = NoKey
     /\ ~Dropping(w) /\ w.file # NoFile =>
          /\ ref \in {NoKey, w.copy.ref} \/ (w.copy.ref = NoKey /\ ~w.copy.named)
          /\ w.drop = NoKey
     /\ w.drop # NoKey => ~Removing(w)
     /\ w.todo = <<"found">> => w.file = NoFile

Tracked ==
  \A s \in Services \ mixed :
    /\ Quiet(s) => AtRest(s)
    /\ \A r \in Callers : Serving(r) /\ calls[r].of = s => Halfway(calls[r])
    /\ \A r \in Callers : Serving(r) /\ calls[r].of # s /\ Filing(calls[r]) =>
         Same(calls[r].file, memory, s)

\* What a worker was told of a service, and has not been told since.
Told(of) ==
  \A s \in Services, n, e \in BOOLEAN, ref \in Keys : <<s, n, ref, e>> \in of =>
    /\ Owns(s, ref) /\ (n => ref = NoKey)
    /\ s \notin mixed /\ ref # NoKey =>
         \A r \in Callers : Serving(r) /\ calls[r].of = s /\ calls[r].copy.ref = ref =>
           services[s].ref = ref

\* What it makes of that, but for the services left out.
Gathered(keys, of, out) ==
  \A s \in Services \ (mixed \cup out), n, e \in BOOLEAN, ref \in Keys :
    <<s, n, ref, e>> \in of /\ e =>
      /\ n => keys[s] = Named
      /\ ~n /\ ref = NoKey => keys[s] = Keyless
      /\ ref # NoKey /\ services[s].ref = ref => keys[s] = memory[ref]

Remembered ==
  /\ Told(providers.of) /\ Told(worker.of)
  /\ Gathered(providers.keys, providers.of, missed)
  /\ Gathered(worker.keys, worker.of, worker.missed \cup worker.left)
  /\ \A s \in worker.left, n, e \in BOOLEAN, ref \in Keys :
       <<s, n, ref, e>> \in worker.of => ref # NoKey

KeysInv == KeyTypes /\ Owned /\ Marked /\ Tracked /\ Remembered

-------------------------------------------------------------------------------
(* Requests.                                                               *)

LEMMA AFileIsNotNone ==
  ASSUME NEW ref \in Refs, NEW file \in Files
  PROVE  file # NoFile
<1>1. DOMAIN file = Refs
  BY DEF Files
<1>2. DOMAIN NoFile = {}
  BY DEF NoFile
<1> QED
  BY <1>1, <1>2

\* What is left to do, and what is next.
LEMMA Todo ==
  ASSUME NEW w \in CallRecords
  PROVE  /\ w.todo # << >>
         /\ Head(w.todo) = "save" <=> w.todo \in ToSave
         /\ Head(w.todo) = "keep" <=> w.todo \in ToKeep
         /\ Head(w.todo) \in {"write", "found"} <=> w.todo \in {<<"write">>, <<"found">>}
         /\ Head(w.todo) = "remove" <=> w.todo = <<"remove">>
         /\ Len(w.todo) = 1 <=> w.todo \in ToPut \cup {<<"keep">>}
         /\ ~(w.todo \in ToSave /\ w.todo \in ToKeep)
         /\ ~(w.todo \in ToPut /\ Filing(w))
         /\ ~(w.todo \in ToPut /\ Dropping(w))
         /\ Dropping(w) => Filing(w)
         /\ w.todo \in ToPut \/ Filing(w)
<1>1. w.todo \in ToSave \cup ToKeep \cup ToPut
  BY DEF CallRecords
<1> HIDE DEF CallRecords
<1>2. CASE w.todo \in ToSave
  BY <1>2 DEF ToSave, ToKeep, ToPut, Filing, Dropping
<1>3. CASE w.todo \in ToKeep
  BY <1>3 DEF ToSave, ToKeep, ToPut, Filing, Dropping
<1>4. CASE w.todo \in ToPut
  BY <1>4 DEF ToSave, ToKeep, ToPut, Filing, Dropping
<1> QED
  BY <1>1, <1>2, <1>3, <1>4

LEMMA Tails ==
  ASSUME NEW todo \in ToSave \cup ToKeep, todo # <<"keep">>
  PROVE  /\ todo \in ToSave => Tail(todo) \in ToKeep
         /\ todo \in ToKeep => Tail(todo) \in {<<"write">>, <<"remove">>}
         /\ todo = <<"save", "keep">> <=> Tail(todo) = <<"keep">>
         /\ Tail(todo) \in {<<"keep", "remove">>, <<"remove">>} <=>
              todo \in {<<"save", "keep", "remove">>, <<"keep", "remove">>}
<1>1. CASE todo = <<"save", "keep", "write">>
  <2>1. Tail(todo) = <<"keep", "write">>
    BY <1>1
  <2> QED
    BY <1>1, <2>1 DEF ToSave, ToKeep
<1>2. CASE todo = <<"save", "keep", "remove">>
  <2>1. Tail(todo) = <<"keep", "remove">>
    BY <1>2
  <2> QED
    BY <1>2, <2>1 DEF ToSave, ToKeep
<1>3. CASE todo = <<"save", "keep">>
  <2>1. Tail(todo) = <<"keep">>
    BY <1>3
  <2> QED
    BY <1>3, <2>1 DEF ToSave, ToKeep
<1>4. CASE todo = <<"keep", "write">>
  <2>1. Tail(todo) = <<"write">>
    BY <1>4
  <2> QED
    BY <1>4, <2>1 DEF ToSave, ToKeep
<1>5. CASE todo = <<"keep", "remove">>
  <2>1. Tail(todo) = <<"remove">>
    BY <1>5
  <2> QED
    BY <1>5, <2>1 DEF ToSave, ToKeep
<1> QED
  BY <1>1, <1>2, <1>3, <1>4, <1>5 DEF ToSave, ToKeep

\* A request that is under way, and what the invariant says of it.
LEMMA CallTypes ==
  ASSUME KeysInv, NEW r \in Callers, Serving(r), NEW w, w = calls[r]
  PROVE  /\ w \in CallRecords
         /\ w.of \in Services /\ w.copy \in ServiceCopies /\ w.file \in Files \cup {NoFile}
         /\ w.drop \in Keys
         /\ Filing(w) => w.file \in Files /\ w.file # NoFile /\ AtTheVault(w)
<1>1. w \in CallRecords
  BY DEF KeysInv, KeyTypes, Serving, Done
<1>2. Filing(w) => w.file \in Files /\ w.file # NoFile /\ AtTheVault(w)
  BY DEF KeysInv, KeyTypes, AtTheVault
<1> QED
  BY <1>1, <1>2 DEF CallRecords

\* A request is begun: the services of those it meets are marked.
LEMMA ServeDoes ==
  ASSUME KeysInv, NEW r \in Callers, NEW w \in CallRecords, Serve(r, w)
  PROVE  /\ ~Serving(r) /\ called \in Nat /\ called < MaxCalls /\ called' = called + 1
         /\ calls'[r] = w /\ (\A q \in Callers \ {r} : calls'[q] = calls[q])
         /\ DOMAIN calls' = Callers
         /\ mixed \subseteq mixed' /\ mixed' \subseteq Services
         /\ \A q \in Callers \ {r} : Serving(q) /\ Beside(calls[q], w) =>
              calls[q].of \in mixed' /\ w.of \in mixed'
<1>1. ~Serving(r) /\ called < MaxCalls /\ called' = called + 1 /\ calls' = [calls EXCEPT ![r] = w]
  BY DEF Serve
<1>2. called \in Nat /\ DOMAIN calls = Callers /\ mixed \subseteq Services
  BY DEF KeysInv, KeyTypes, KeysTypeOK
<1> DEFINE others == {q \in Callers \ {r} : Serving(q)}
           same == {q \in others : calls[q].of = w.of}
           beside == {q \in others : AtTheVault(w) /\ AtTheVault(calls[q])}
<1>3. mixed' = mixed \cup {calls[q].of : q \in same \cup beside}
                     \cup (IF same \cup beside = {} THEN {} ELSE {w.of})
  BY DEF Serve
<1>4. \A q \in Callers : Serving(q) => calls[q].of \in Services
  BY CallTypes
<1>5. w.of \in Services
  BY DEF CallRecords
<1>6. \A q \in Callers \ {r} : Serving(q) /\ Beside(calls[q], w) => q \in same \cup beside
  BY DEF Beside
<1> HIDE DEF others
<1>7. mixed \subseteq mixed' /\ mixed' \subseteq Services
  <2>1. \A q \in same \cup beside : q \in Callers /\ Serving(q)
    BY DEF others
  <2> HIDE DEF same, beside
  <2> QED
    BY <1>2, <1>3, <1>4, <1>5, <2>1
<1> HIDE DEF same, beside
<1>8. \A q \in Callers \ {r} : Serving(q) /\ Beside(calls[q], w) =>
        calls[q].of \in mixed' /\ w.of \in mixed'
  BY <1>3, <1>6
<1> QED
  BY <1>1, <1>2, <1>7, <1>8

LEMMA ServeKeeps ==
  ASSUME CredentialConstants, KeysInv, NEW r \in Callers, NEW w \in CallRecords, Serve(r, w),
         UNCHANGED <<services, disk, memory, worker, providers, faults, missed>>,
         services[w.of].state = "kept",
         owner' \in [Refs -> Services \cup {NoKey}],
         \A x \in Refs : owner'[x] = owner[x] \/ (x = called + 1 /\ owner'[x] = w.of),
         w.file = NoFile => owner' = owner,
         Owns(w.of, w.copy.ref)', Owns(w.of, w.drop),
         w.copy.ref \in {NoKey, services[w.of].ref, called + 1},
         Removing(w) => w.copy.ref = NoKey,
         Filing(w) => w.file \in Files /\ \A x \in Refs : w.file[x] # NoKey => owner'[x] # NoKey,
         \A t \in Services \ {w.of} : Filing(w) => Same(w.file, memory, t),
         w.of \notin mixed /\ AtRest(w.of)' => Halfway(w)'
  PROVE  KeysInv'
<1> DEFINE s == w.of
<1>1. /\ ~Serving(r) /\ called \in Nat /\ called < MaxCalls /\ called' = called + 1
      /\ calls'[r] = w /\ (\A q \in Callers \ {r} : calls'[q] = calls[q])
      /\ DOMAIN calls' = Callers
      /\ mixed \subseteq mixed' /\ mixed' \subseteq Services
      /\ \A q \in Callers \ {r} : Serving(q) /\ Beside(calls[q], w) =>
           calls[q].of \in mixed' /\ w.of \in mixed'
  BY ServeDoes
<1>2. /\ services' = services /\ disk' = disk /\ memory' = memory /\ worker' = worker
      /\ providers' = providers /\ faults' = faults /\ missed' = missed
  OBVIOUS
<1>3. /\ s \in Services /\ w.todo # << >> /\ Serving(r)'
      /\ \A q \in Callers \ {r} : Serving(q)' <=> Serving(q)
  BY <1>1, Todo DEF CallRecords, Serving
<1>4. 0 \notin Services /\ MaxCalls \in Nat
  BY DEF CredentialConstants
\* What becomes somebody's was nobody's, and is in no file.
<1>5. \A x \in Refs : owner'[x] # owner[x] =>
        /\ owner[x] = NoKey /\ disk[x] = NoKey /\ memory[x] = NoKey
        /\ owner'[x] = s /\ x = called + 1
  <2> SUFFICES ASSUME NEW x \in Refs, owner'[x] # owner[x]
               PROVE  /\ owner[x] = NoKey /\ disk[x] = NoKey /\ memory[x] = NoKey
                      /\ owner'[x] = s /\ x = called + 1
    OBVIOUS
  <2>1. x = called + 1 /\ owner'[x] = s
    OBVIOUS
  <2>2. ~(x <= called)
    BY <1>1, <2>1
  <2> QED
    BY <2>1, <2>2 DEF KeysInv, Owned
<1>6. \A x \in Refs : owner[x] # NoKey => owner'[x] = owner[x]
  BY <1>5
<1>7. KeyTypes'
  <2>1. KeysTypeOK'
    BY <1>1, <1>2, <1>4 DEF KeysInv, KeyTypes, KeysTypeOK
  <2>2. \A q \in Callers : calls'[q] = Done \/ calls'[q] \in CallRecords
    BY <1>1 DEF KeysInv, KeyTypes
  <2>0. called + 1 \in Refs
    BY <1>1, <1>4 DEF Refs
  <2>3. ASSUME NEW q \in Callers, Serving(q)', Filing(calls'[q])
        PROVE  calls'[q].file \in Files \ {NoFile}
    <3>1. CASE q = r
      BY <1>1, <2>0, <2>3, <3>1, AFileIsNotNone
    <3>2. CASE q # r
      BY <1>1, <1>3, <2>3, <3>2 DEF KeysInv, KeyTypes
    <3> QED
      BY <3>1, <3>2
  <2> QED
    BY <1>1, <1>2, <2>1, <2>2, <2>3 DEF KeysInv, KeyTypes
<1>8. ASSUME NEW t \in Services, NEW ref \in Keys, Owns(t, ref) PROVE Owns(t, ref)'
  BY <1>4, <1>6, <1>8 DEF Owns, Keys, NoKey
<1>9. Owned'
  <2>1. \A x \in Refs : owner'[x] # NoKey => x <= called'
    <3> SUFFICES ASSUME NEW x \in Refs, owner'[x] # NoKey PROVE x <= called'
      OBVIOUS
    <3>1. CASE owner'[x] = owner[x]
      <4>1. x <= called /\ x \in Nat
        BY <3>1 DEF KeysInv, Owned, Refs
      <4> QED
        BY <1>1, <4>1
    <3>2. CASE owner'[x] # owner[x]
      BY <1>1, <1>5, <3>2
    <3> QED
      BY <3>1, <3>2
  <2>2. \A x \in Refs : disk'[x] # NoKey \/ memory'[x] # NoKey => owner'[x] # NoKey
    BY <1>2, <1>6 DEF KeysInv, Owned
  <2>3. \A t \in Services : services[t].ref \in Keys
    BY DEF KeysInv, KeyTypes, KeysTypeOK, ServiceRecords
  <2>4. \A t \in Services : /\ Owns(t, services[t].ref)'
                            /\ services'[t].state # "kept" => services'[t].ref = NoKey
    BY <1>2, <1>6, <1>4, <2>3 DEF KeysInv, Owned, Owns, Keys, NoKey
  <2>5. ASSUME NEW q \in Callers, Serving(q)'
        PROVE  /\ Owns(calls[q].of, calls[q].copy.ref)' /\ Owns(calls[q].of, calls[q].drop)'
               /\ services'[calls'[q].of].state # "unmade"
               /\ Removing(calls'[q]) => calls'[q].copy.ref = NoKey
               /\ Filing(calls'[q]) =>
                    \A ref \in Refs : calls'[q].file[ref] # NoKey => owner'[ref] # NoKey
    <3>1. CASE q = r
      <4>1. w.drop # NoKey => owner'[w.drop] = s
        BY <1>3, <1>4, <1>6 DEF Owns, CallRecords, Keys, NoKey
      <4> QED
        BY <1>1, <1>2, <3>1, <4>1 DEF Owns
    <3>2. CASE q # r
      <4>1. Serving(q) /\ calls'[q] = calls[q]
        BY <1>1, <1>3, <2>5, <3>2
      <4>2. /\ calls[q].of \in Services /\ calls[q].copy.ref \in Keys /\ calls[q].drop \in Keys
        BY <4>1, CallTypes DEF ServiceCopies, ServiceRecords
      <4>3. /\ Owns(calls[q].of, calls[q].copy.ref) /\ Owns(calls[q].of, calls[q].drop)
            /\ services[calls[q].of].state # "unmade"
            /\ Removing(calls[q]) => calls[q].copy.ref = NoKey
            /\ Filing(calls[q]) =>
                 \A ref \in Refs : calls[q].file[ref] # NoKey => owner[ref] # NoKey
        BY <4>1 DEF KeysInv, Owned
      <4>4. /\ calls[q].copy.ref # NoKey => owner'[calls[q].copy.ref] = calls[q].of
            /\ calls[q].drop # NoKey => owner'[calls[q].drop] = calls[q].of
        BY <1>4, <1>6, <4>2, <4>3 DEF Owns, Keys, NoKey
      <4> QED
        BY <1>2, <1>6, <4>1, <4>3, <4>4 DEF Owns
    <3> QED
      BY <3>1, <3>2
  <2> QED
    BY <2>1, <2>2, <2>4, <2>5 DEF Owned
<1>10. Marked'
  <2> SUFFICES ASSUME NEW q \in Callers, NEW p \in Callers, q # p, Serving(q)', Serving(p)',
                      Beside(calls'[q], calls'[p])
               PROVE  calls'[q].of \in mixed' /\ calls'[p].of \in mixed'
    BY DEF Marked, Beside, AtTheVault
  <2>1. CASE q = r
    BY <1>1, <1>3, <2>1 DEF Beside
  <2>2. CASE p = r
    BY <1>1, <1>3, <2>2
  <2>3. CASE q # r /\ p # r
    BY <1>1, <1>3, <2>3 DEF KeysInv, Marked
  <2> QED
    BY <2>1, <2>2, <2>3
<1>11. ASSUME NEW t \in Services \ mixed', t = s
       PROVE  Quiet(t) /\ (w.file # NoFile => \A q \in Callers : Serving(q) => ~Filing(calls[q]))
  <2> SUFFICES ASSUME NEW q \in Callers, Serving(q)
               PROVE  calls[q].of # t /\ (w.file # NoFile => ~Filing(calls[q]))
    BY DEF Quiet
  <2>1. q # r /\ ~Beside(calls[q], w)
    BY <1>1, <1>11
  <2>2. Filing(calls[q]) /\ w.file # NoFile => AtTheVault(calls[q]) /\ AtTheVault(w)
    BY CallTypes DEF AtTheVault
  <2> QED
    BY <1>11, <2>1, <2>2 DEF Beside
<1>12. ASSUME NEW t \in Services \ mixed', AtRest(t) PROVE AtRest(t)'
  <2>1. services[t].ref # NoKey => owner[services[t].ref] = t /\ services[t].ref \in Refs
    BY DEF KeysInv, Owned, Owns, KeyTypes, KeysTypeOK, ServiceRecords, Keys
  <2>2. ASSUME NEW x \in Refs, owner'[x] = t
        PROVE  disk[x] = memory[x] /\ (memory[x] # NoKey <=> x = services[t].ref)
    <3>1. CASE owner'[x] = owner[x]
      BY <1>12, <2>2, <3>1 DEF AtRest, Same, OneKey
    <3>2. CASE owner'[x] # owner[x]
      <4>1. owner[x] = NoKey /\ disk[x] = NoKey /\ memory[x] = NoKey /\ x # 0
        BY <1>5, <3>2 DEF Refs
      <4>2. x # services[t].ref
        BY <1>4, <2>1, <4>1 DEF NoKey
      <4> QED
        BY <4>1, <4>2
    <3> QED
      BY <3>1, <3>2
  <2> QED
    BY <1>2, <2>2 DEF AtRest, Same, OneKey
\* Nothing changes for the services it is not for.
<1>13. ASSUME NEW t \in Services, t # s, NEW x \in Refs
       PROVE  owner'[x] = t <=> owner[x] = t
  BY <1>4, <1>5, <1>13 DEF NoKey
<1>14. Tracked'
  <2> SUFFICES ASSUME NEW t \in Services \ mixed'
               PROVE  /\ Quiet(t)' => AtRest(t)'
                      /\ \A q \in Callers : Serving(q)' /\ calls'[q].of = t => Halfway(calls[q])'
                      /\ \A q \in Callers : Serving(q)' /\ calls'[q].of # t /\ Filing(calls'[q]) =>
                           Same(calls[q].file, memory, t)'
    BY DEF Tracked
  <2>0. t \notin mixed
    BY <1>1
  <2>1. CASE t = s
    <3>1. Quiet(t) /\ (w.file # NoFile => \A q \in Callers : Serving(q) => ~Filing(calls[q]))
      BY <1>11, <2>1
    <3>2. AtRest(t)'
      BY <1>12, <2>0, <3>1 DEF KeysInv, Tracked
    <3>3. Halfway(w)'
      BY <2>0, <2>1, <3>2
    <3>4. ASSUME NEW q \in Callers, Serving(q)', calls'[q].of = t PROVE Halfway(calls[q])'
      <4>1. q = r
        BY <1>1, <1>3, <3>1, <3>4 DEF Quiet
      <4> QED
        BY <1>1, <3>3, <4>1 DEF Halfway, Before, AtRest, OneKey, Same
    <3>5. ASSUME NEW q \in Callers, Serving(q)', calls'[q].of # t, Filing(calls'[q])
          PROVE  Same(calls[q].file, memory, t)'
      <4>1. q # r /\ Serving(q) /\ calls'[q] = calls[q]
        BY <1>1, <1>3, <2>1, <3>5
      <4>2. owner' = owner
        BY <3>1, <3>5, <4>1
      <4> QED
        BY <1>2, <2>0, <3>5, <4>1, <4>2 DEF KeysInv, Tracked, Same
    <3> QED
      BY <3>2, <3>4, <3>5
  <2>2. CASE t # s
    <3>1. ASSUME Quiet(t)' PROVE AtRest(t)'
      <4>1. Quiet(t)
        BY <1>1, <1>3, <3>1 DEF Quiet
      <4> QED
        BY <1>12, <2>0, <4>1 DEF KeysInv, Tracked
    <3>2. ASSUME NEW q \in Callers, Serving(q)', calls'[q].of = t PROVE Halfway(calls[q])'
      <4>1. q # r /\ Serving(q) /\ calls'[q] = calls[q]
        BY <1>1, <1>3, <2>2, <3>2
      <4>2. Halfway(calls[q])
        BY <2>0, <3>2, <4>1 DEF KeysInv, Tracked
      <4>3. PICK v : v = calls[q]
        OBVIOUS
      <4>4. v.of = t /\ Halfway(v)
        BY <3>2, <4>1, <4>2, <4>3
      <4>5. /\ \A m, ref : OneKey(m, t, ref)' <=> OneKey(m, t, ref)
            /\ \A m, n : Same(m, n, t)' <=> Same(m, n, t)
        BY <1>13, <2>2 DEF OneKey, Same
      <4>6. Halfway(v)'
        BY <1>2, <1>13, <2>2, <4>4 DEF Halfway, Before, AtRest, OneKey, Same
      <4> QED
        BY <4>1, <4>3, <4>6 DEF Halfway, Before, AtRest, OneKey, Same
    <3>3. ASSUME NEW q \in Callers, Serving(q)', calls'[q].of # t, Filing(calls'[q])
          PROVE  Same(calls[q].file, memory, t)'
      <4>1. CASE q = r
        BY <1>1, <1>2, <1>13, <2>2, <3>3, <4>1 DEF Same
      <4>2. CASE q # r
        BY <1>1, <1>2, <1>3, <1>13, <2>0, <2>2, <3>3, <4>2 DEF KeysInv, Tracked, Same
      <4> QED
        BY <4>1, <4>2
    <3> QED
      BY <3>1, <3>2, <3>3
  <2> QED
    BY <2>1, <2>2
<1>15. ASSUME NEW of \in Signature, Told(of) PROVE Told(of)'
  <2> SUFFICES ASSUME NEW t \in Services, NEW n \in BOOLEAN, NEW e \in BOOLEAN, NEW ref \in Keys,
                      <<t, n, ref, e>> \in of
               PROVE  /\ Owns(t, ref)' /\ (n => ref = NoKey)
                      /\ t \notin mixed' /\ ref # NoKey =>
                           \A q \in Callers :
                             Serving(q)' /\ calls'[q].of = t /\ calls'[q].copy.ref = ref =>
                               services'[t].ref = ref
    BY DEF Told
  <2>1. Owns(t, ref) /\ (n => ref = NoKey)
    BY <1>15 DEF Told
  <2>2. Owns(t, ref)'
    BY <1>8, <2>1
  <2>3. ASSUME t \notin mixed', ref # NoKey, NEW q \in Callers,
               Serving(q)', calls'[q].of = t, calls'[q].copy.ref = ref
        PROVE  services'[t].ref = ref
    <3>1. CASE q = r
      <4>1. ref # called + 1
        <5>1. owner[ref] # NoKey /\ ref \in Refs
          BY <1>4, <2>1, <2>3 DEF Owns, Keys, NoKey
        <5>2. ref <= called
          BY <5>1 DEF KeysInv, Owned
        <5> QED
          BY <1>1, <5>2
      <4> QED
        BY <1>1, <1>2, <2>3, <3>1, <4>1
    <3>2. CASE q # r
      BY <1>1, <1>2, <1>3, <1>15, <2>3, <3>2 DEF Told
    <3> QED
      BY <3>1, <3>2
  <2> QED
    BY <2>1, <2>2, <2>3
<1>16. Remembered'
  <2>1. worker.of \in Signature /\ providers.of \in Signature
    BY DEF KeysInv, KeyTypes
  <2>2. Told(worker.of)' /\ Told(providers.of)'
    BY <1>2, <1>15, <2>1 DEF KeysInv, Remembered, Told, Owns
  <2>3. /\ Gathered(providers.keys, providers.of, missed)'
        /\ Gathered(worker.keys, worker.of, worker.missed \cup worker.left)'
    BY <1>1, <1>2 DEF KeysInv, Remembered, Gathered
  <2>4. \A t \in worker'.left, n, e \in BOOLEAN, ref \in Keys :
          <<t, n, ref, e>> \in worker'.of => ref # NoKey
    BY <1>2 DEF KeysInv, Remembered
  <2> QED
    BY <2>2, <2>3, <2>4 DEF Remembered
<1> QED
  BY <1>7, <1>9, <1>10, <1>14, <1>16 DEF KeysInv

LEMMA KeptServices ==
  ASSUME KeysInv, NEW s \in Services, services[s].state = "kept"
  PROVE  /\ services[s] \in ServiceCopies /\ services[s].ref \in Keys /\ Owns(s, services[s].ref)
         /\ called \in Nat
BY DEF KeysInv, KeyTypes, KeysTypeOK, Owned, ServiceCopies, ServiceRecords

LEMMA WorkIs ==
  ASSUME NEW s \in Services, NEW todo \in ToSave \cup ToKeep \cup ToPut, NEW copy \in ServiceCopies,
         NEW file \in Files \cup {NoFile}, NEW drop \in Keys
  PROVE  /\ Work(s, todo, copy, file, drop) \in CallRecords
         /\ Work(s, todo, copy, file, drop).of = s
         /\ Work(s, todo, copy, file, drop).todo = todo
         /\ Work(s, todo, copy, file, drop).copy = copy
         /\ Work(s, todo, copy, file, drop).file = file
         /\ Work(s, todo, copy, file, drop).drop = drop
BY DEF Work, CallRecords

\* A request that is not at the vault yet puts, or removes, the record it read.
LEMMA PlainRequestKeeps ==
  ASSUME CredentialConstants, KeysInv, NEW r \in Callers, NEW s \in Services,
         services[s].state = "kept", NEW copy \in ServiceCopies, NEW drop \in {NoKey, services[s].ref},
         NEW todo \in ToPut, copy.ref \in {NoKey, services[s].ref},
         todo = <<"remove">> => copy.ref = NoKey, drop # NoKey => todo = <<"write">>,
         AtRest(s) => \/ copy.ref = services[s].ref /\ drop = NoKey
                      \/ copy.ref = NoKey /\ drop = services[s].ref,
         Serve(r, Work(s, todo, copy, NoFile, drop)),
         UNCHANGED <<services, disk, memory, worker, providers, faults, owner, missed>>
  PROVE  KeysInv'
<1>w. PICK w : w = Work(s, todo, copy, NoFile, drop)
  OBVIOUS
<1>0. drop \in Keys
  BY KeptServices DEF Keys
<1>1. /\ w \in CallRecords /\ w.of = s /\ w.todo = todo /\ w.copy = copy /\ w.file = NoFile
      /\ w.drop = drop
  BY <1>w, <1>0, WorkIs
<1>2. ~Filing(w) /\ ~Dropping(w) /\ (Removing(w) => todo = <<"remove">>)
  BY <1>1, Todo DEF ToPut, Removing
<1>3. Owns(s, copy.ref) /\ Owns(s, w.drop)
  BY <1>1, KeptServices DEF Owns
<1>4. Owns(s, copy.ref)'
  BY <1>3 DEF Owns
<1>5. ASSUME AtRest(s)' PROVE Halfway(w)'
  <2>1. AtRest(s)
    BY <1>5 DEF AtRest, Same, OneKey
  <2>2. drop # NoKey => ~Removing(w)
    BY <1>2
  <2> QED
    BY <1>1, <1>2, <1>5, <2>1, <2>2 DEF Halfway, AtRest
<1>6. owner' \in [Refs -> Services \cup {NoKey}]
  BY DEF KeysInv, KeyTypes
<1> QED
  BY <1>w, <1>1, <1>2, <1>3, <1>4, <1>5, <1>6, ServeKeeps

LEMMA ChangeServiceKeeps ==
  ASSUME CredentialConstants, KeysInv, NEW r \in Callers, NEW s \in Services, ChangeService(r, s)
  PROVE  KeysInv'
<1> DEFINE copy == [services[s] EXCEPT !.enabled = ~services[s].enabled]
<1>1. services[s] \in ServiceCopies
  BY KeptServices DEF ChangeService
<1>2. copy \in ServiceCopies /\ copy.ref = services[s].ref
  BY <1>1 DEF ServiceCopies, ServiceRecords
<1>3. Serve(r, Work(s, <<"write">>, copy, NoFile, NoKey)) /\ services[s].state = "kept"
  BY DEF ChangeService
<1>4. UNCHANGED <<services, disk, memory, worker, providers, faults, owner, missed>>
  BY DEF ChangeService
<1> HIDE DEF copy
<1> QED
  BY <1>2, <1>3, <1>4, PlainRequestKeeps DEF ToPut

LEMMA DiscoverModelsKeeps ==
  ASSUME CredentialConstants, KeysInv, NEW r \in Callers, NEW s \in Services, DiscoverModels(r, s)
  PROVE  KeysInv'
<1>1. services[s] \in ServiceCopies
  BY KeptServices DEF DiscoverModels
<1> QED
  BY <1>1, PlainRequestKeeps DEF DiscoverModels, ToPut

LEMMA NameVariableKeeps ==
  ASSUME CredentialConstants, KeysInv, NEW r \in Callers, NEW s \in Services, NameVariable(r, s)
  PROVE  KeysInv'
<1> DEFINE old == services[s].ref
<1>c. PICK copy : copy = [services[s] EXCEPT !.ref = NoKey, !.named = TRUE]
  OBVIOUS
<1>1. services[s].state = "kept" /\ Serve(r, Work(s, <<"write">>, copy, NoFile, old))
  BY <1>c DEF NameVariable, Naming
<1>2. UNCHANGED <<services, disk, memory, worker, providers, faults, owner, missed>>
  BY DEF NameVariable
<1>3. services[s] \in ServiceCopies
  BY <1>1, KeptServices
<1>4. copy \in ServiceCopies /\ copy.ref = NoKey
  BY <1>c, <1>3 DEF ServiceCopies, ServiceRecords, Keys
<1> HIDE DEF old
<1>5. old = services[s].ref
  BY DEF old
<1> QED
  BY <1>1, <1>2, <1>4, <1>5, PlainRequestKeeps DEF ToPut

LEMMA PasteKeyKeeps ==
  ASSUME CredentialConstants, KeysInv, NEW r \in Callers, NEW s \in Services, PasteKey(r, s)
  PROVE  KeysInv'
<1>r. PICK ref : ref = RefFor(s)
  OBVIOUS
<1>c. PICK copy : copy = [services[s] EXCEPT !.ref = ref, !.named = FALSE]
  OBVIOUS
<1>f. PICK file : file = PutSecret(ref, called + 1)
  OBVIOUS
<1> DEFINE todo == <<"save", "keep", "write">>
<1>w. PICK w : w = Work(s, todo, copy, file, NoKey)
  OBVIOUS
<1>1. /\ services[s].state = "kept" /\ (services[s].ref # NoKey => Has(services[s].ref))
      /\ Serve(r, w) /\ owner' = [owner EXCEPT ![ref] = s]
      /\ UNCHANGED <<services, disk, memory, worker, providers, faults, missed>>
  BY <1>r, <1>c, <1>f, <1>w DEF PasteKey
<1>2. called + 1 \in Refs /\ called \in Nat
  BY <1>1, KeptServices DEF Serve, CredentialConstants, Refs
<1>3. services[s] \in ServiceCopies /\ services[s].ref \in Keys /\ Owns(s, services[s].ref)
  BY <1>1, KeptServices
<1>4. ref \in Refs /\ ref \in {services[s].ref, called + 1}
  BY <1>2, <1>3, <1>r DEF RefFor, Keys
<1>5. copy \in ServiceCopies /\ copy.ref = ref
  BY <1>c, <1>3, <1>4 DEF ServiceCopies, ServiceRecords, Keys
<1>6. memory \in Files /\ owner \in [Refs -> Services \cup {NoKey}]
  BY DEF KeysInv, KeyTypes, KeysTypeOK, Files
<1>7. file \in Files /\ file[ref] = called + 1 /\ \A x \in Refs \ {ref} : file[x] = memory[x]
  BY <1>f, <1>2, <1>4, <1>6 DEF PutSecret, Files, Keys
<1>8. NoKey \in Keys /\ NoKey # called + 1 /\ NoKey \notin Refs
  BY <1>2 DEF Keys, NoKey, Refs
<1>9. /\ w \in CallRecords /\ w.of = s /\ w.todo = todo /\ w.copy = copy /\ w.file = file
      /\ w.drop = NoKey
  BY <1>w, <1>5, <1>7, <1>8, WorkIs DEF ToSave
<1>10. Filing(w) /\ ~Removing(w) /\ ~Dropping(w) /\ w.todo \in ToSave
  BY <1>9 DEF Filing, ToSave, Removing, Dropping
<1>11. /\ owner' \in [Refs -> Services \cup {NoKey}] /\ owner'[ref] = s
       /\ \A x \in Refs \ {ref} : owner'[x] = owner[x]
  BY <1>1, <1>4, <1>6
<1>12. ref # called + 1 => owner[ref] = s
  BY <1>3, <1>4, <1>8 DEF Owns
<1>13. \A x \in Refs : owner'[x] = owner[x] \/ (x = called + 1 /\ owner'[x] = w.of)
  BY <1>9, <1>11, <1>12
<1>14. Owns(w.of, w.copy.ref)' /\ Owns(w.of, w.drop)
  BY <1>5, <1>9, <1>11 DEF Owns
<1>15. \A x \in Refs : w.file[x] # NoKey => owner'[x] # NoKey
  <2> SUFFICES ASSUME NEW x \in Refs, w.file[x] # NoKey PROVE owner'[x] # NoKey
    OBVIOUS
  <2>1. CASE x = ref
    BY <1>8, <1>11, <2>1 DEF CredentialConstants, NoKey
  <2>2. CASE x # ref
    BY <1>7, <1>9, <1>11, <2>2 DEF KeysInv, Owned
  <2> QED
    BY <2>1, <2>2
<1>16. \A t \in Services \ {w.of} : Same(w.file, memory, t)
  <2> SUFFICES ASSUME NEW t \in Services, t # s, NEW x \in Refs, owner[x] = t
               PROVE  file[x] = memory[x]
    BY <1>9 DEF Same
  <2>1. x # ref
    <3>1. CASE ref # called + 1
      BY <1>12, <3>1
    <3>2. CASE ref = called + 1
      <4>1. owner[x] # NoKey
        BY DEF CredentialConstants, NoKey
      <4>2. x <= called
        BY <4>1 DEF KeysInv, Owned
      <4> QED
        BY <1>2, <3>2, <4>2
    <3> QED
      BY <3>1, <3>2
  <2> QED
    BY <1>7, <2>1
<1>17. w.file # NoFile
  BY <1>2, <1>7, <1>9, AFileIsNotNone
<1>18. ASSUME AtRest(w.of)' PROVE Halfway(w)'
  <2>1. Same(disk, memory, s)' /\ OneKey(memory, s, services[s].ref)'
    BY <1>9, <1>18 DEF AtRest
  <2>2. OneKey(w.file, s, ref)'
    <3> SUFFICES ASSUME NEW x \in Refs, owner'[x] = s PROVE file[x] # NoKey <=> x = ref
      BY <1>9 DEF OneKey
    <3>1. CASE x = ref
      BY <1>7, <1>8, <3>1
    <3>2. CASE x # ref
      <4>1. memory[x] # NoKey <=> x = services[s].ref
        BY <1>1, <2>1 DEF OneKey
      <4>2. x = services[s].ref => ref = x
        BY <1>8, <1>r DEF RefFor
      <4> QED
        BY <1>7, <3>2, <4>1, <4>2
    <3> QED
      BY <3>1, <3>2
  <2>3. services[s].ref \in {NoKey, ref}
    BY <1>r DEF RefFor
  <2>4. w.todo # <<"found">>
    BY <1>9
  <2> QED
    BY <1>1, <1>5, <1>9, <1>10, <2>1, <2>2, <2>3, <2>4 DEF Halfway, Before, OneKey, Same
<1>19. w.file = NoFile => owner' = owner
  BY <1>17
<1>20. w.copy.ref \in {NoKey, services[w.of].ref, called + 1}
  BY <1>4, <1>5, <1>9
<1>21. services[w.of].state = "kept" /\ w.file \in Files
  BY <1>1, <1>7, <1>9
<1> QED
  BY <1>1, <1>9, <1>10, <1>11, <1>13, <1>14, <1>15, <1>16, <1>18, <1>19, <1>20, <1>21, ServeKeeps

\* The key is about to go, and the service after it.
LEMMA ForgetKeyKeeps ==
  ASSUME CredentialConstants, KeysInv, NEW r \in Callers, NEW s \in Services, ForgetKey(r, s)
  PROVE  KeysInv'
<1>c. PICK copy : copy = [services[s] EXCEPT !.ref = NoKey, !.named = FALSE]
  OBVIOUS
<1>l. PICK last \in {"write", "remove"} : Serve(r, WithoutKey(s, last, copy))
  BY <1>c DEF ForgetKey
<1>o. PICK old : old = services[s].ref
  OBVIOUS
<1>1. /\ services[s].state = "kept"
      /\ UNCHANGED <<services, disk, memory, worker, providers, faults, owner, missed>>
  BY DEF ForgetKey
<1>2. /\ services[s] \in ServiceCopies /\ old \in Keys /\ Owns(s, old) /\ called \in Nat
  BY <1>o, <1>1, KeptServices
<1>3. copy \in ServiceCopies /\ copy.ref = NoKey /\ ~copy.named
  BY <1>c, <1>2 DEF ServiceCopies, ServiceRecords, Keys
<1>4. CASE ~Has(old)
  <2>1. Serve(r, Work(s, <<last>>, copy, NoFile, NoKey))
    BY <1>l, <1>o, <1>4 DEF WithoutKey
  <2>2. <<last>> \in ToPut
    BY <1>l DEF ToPut
  <2>3. AtRest(s) => old = NoKey
    <3>1. old # NoKey => old \in Refs /\ owner[old] = s
      BY <1>2 DEF Keys, Owns
    <3> QED
      BY <1>o, <1>4, <3>1 DEF AtRest, OneKey, Has
  <2> QED
    BY <1>o, <1>1, <1>3, <2>1, <2>2, <2>3, PlainRequestKeeps
<1>5. CASE Has(old)
  <2>f. PICK file : file = DropSecret(old)
    OBVIOUS
  <2>t. PICK todo : todo = <<"save", "keep", last>>
    OBVIOUS
  <2>w. PICK w : w = Work(s, todo, copy, file, NoKey)
    OBVIOUS
  <2>1. Serve(r, w)
    BY <1>l, <1>o, <1>5, <2>f, <2>t, <2>w DEF WithoutKey
  <2>2. old \in Refs /\ owner[old] = s /\ memory[old] # NoKey
    BY <1>2, <1>5 DEF Has, Owns, Keys
  <2>3. memory \in Files /\ owner \in [Refs -> Services \cup {NoKey}]
    BY DEF KeysInv, KeyTypes, KeysTypeOK, Files
  <2>4. NoKey \in Keys /\ NoKey \notin Refs
    BY <1>2 DEF Keys, NoKey, Refs
  <2>5. file \in Files /\ file[old] = NoKey /\ \A x \in Refs \ {old} : file[x] = memory[x]
    BY <2>f, <2>2, <2>3, <2>4 DEF DropSecret, Files
  <2>6. todo \in ToSave
    BY <2>t DEF ToSave
  <2>7. /\ w \in CallRecords /\ w.of = s /\ w.todo = todo /\ w.copy = copy /\ w.file = file
        /\ w.drop = NoKey
    BY <2>w, <1>3, <2>4, <2>5, <2>6, WorkIs
  <2>8. Filing(w) /\ ~Dropping(w) /\ w.todo # <<"found">>
    BY <2>6, <2>7, <2>t DEF Filing, Dropping
  <2>9. \A x \in Refs : w.file[x] # NoKey => owner'[x] # NoKey
    BY <1>1, <2>5, <2>7 DEF KeysInv, Owned
  <2>10. \A t \in Services \ {w.of} : Same(w.file, memory, t)
    BY <2>2, <2>5, <2>7 DEF Same
  <2>11. Owns(w.of, w.copy.ref)' /\ Owns(w.of, w.drop)
    BY <1>3, <2>7 DEF Owns
  <2>12. w.file # NoFile
    BY <2>2, <2>5, <2>7, AFileIsNotNone
  <2>13. ASSUME AtRest(w.of)' PROVE Halfway(w)'
    <3>1. /\ \A x \in Refs : owner[x] = s => disk[x] = memory[x]
          /\ \A x \in Refs : owner[x] = s => (memory[x] # NoKey <=> x = old)
      BY <1>o, <1>1, <2>7, <2>13 DEF AtRest, OneKey, Same
    <3>2. OneKey(w.file, s, NoKey)'
      BY <1>1, <2>4, <2>5, <2>7, <3>1 DEF OneKey
    <3>3. OneKey(memory, s, services[s].ref)' /\ Same(disk, memory, s)'
      BY <2>7, <2>13 DEF AtRest
    <3> QED
      BY <1>1, <1>3, <2>6, <2>7, <2>8, <3>2, <3>3 DEF Halfway, Before, OneKey, Same
  <2>14. owner' \in [Refs -> Services \cup {NoKey}] /\ owner' = owner
    BY <1>1, <2>3
  <2>15. services[w.of].state = "kept" /\ w.copy.ref = NoKey /\ w.file \in Files
    BY <1>1, <1>3, <2>5, <2>7
  <2> QED
    BY <1>1, <2>1, <2>7, <2>8, <2>9, <2>10, <2>11, <2>13, <2>14, <2>15, ServeKeeps
<1> QED
  BY <1>4, <1>5

\* One step of a request that is under way: what it leaves to do, which services are
\* said to miss their key, and what becomes of its own service and of the others.
TakesAStep(r, w, v, more) ==
  LET s == w.of
  IN /\ Serving(r) /\ w = calls[r] /\ calls' = [calls EXCEPT ![r] = v]
     /\ \/ v = Done
        \/ /\ v \in CallRecords /\ v.of = s /\ v.copy = w.copy /\ v.drop = w.drop
           /\ AtTheVault(v) => AtTheVault(w)
           /\ Removing(v) => Removing(w)
           /\ Filing(v) => /\ v.file \in Files \ {NoFile}
                           /\ \A x \in Refs : v.file[x] # NoKey => owner[x] # NoKey
                           /\ \A t \in Services \ mixed, x \in Refs :
                                t # s /\ owner[x] = t => v.file[x] = memory'[x]
     /\ UNCHANGED <<called, mixed, owner, providers>>
     /\ services' \in [Services -> ServiceRecords] /\ disk' \in Files /\ memory' \in Files
     /\ faults' = faults
     /\ \/ services'[s] = services[s]
        \/ services'[s] = w.copy
        \/ v = Done /\ services'[s].state = "gone" /\ services'[s].ref = NoKey
     /\ more \subseteq Services /\ missed' = missed \cup more
     /\ worker' = [worker EXCEPT !.missed = worker.missed \cup more]
     /\ \A x \in Refs : disk'[x] # NoKey \/ memory'[x] # NoKey => owner[x] # NoKey
     /\ \A t \in Services : t # s => services'[t] = services[t]
     /\ \A t \in Services \ mixed, x \in Refs :
          t # s /\ owner[x] = t => disk'[x] = disk[x] /\ memory'[x] = memory[x]
     /\ memory' # memory => AtTheVault(w)
     /\ \A t \in Services \ mixed :
          services[t].ref # NoKey /\ memory'[services[t].ref] # memory[services[t].ref] => t \in more

\* For the services it is not for nothing changes, and its own is as its invariant says.
LEMMA StepKeeps ==
  ASSUME CredentialConstants, KeysInv, NEW r \in Callers, NEW w, NEW s, s = w.of, NEW v, NEW more,
         TakesAStep(r, w, v, more),
         s \notin mixed /\ v = Done => AtRest(s)',
         s \notin mixed /\ v # Done => Halfway(v)'
  PROVE  KeysInv'
<1>0. /\ Serving(r) /\ w = calls[r] /\ calls' = [calls EXCEPT ![r] = v]
      /\ \/ v = Done
         \/ /\ v \in CallRecords /\ v.of = s /\ v.copy = w.copy /\ v.drop = w.drop
            /\ AtTheVault(v) => AtTheVault(w)
            /\ Removing(v) => Removing(w)
            /\ Filing(v) => /\ v.file \in Files \ {NoFile}
                            /\ \A x \in Refs : v.file[x] # NoKey => owner[x] # NoKey
                            /\ \A t \in Services \ mixed, x \in Refs :
                                 t # s /\ owner[x] = t => v.file[x] = memory'[x]
      /\ UNCHANGED <<called, mixed, owner, providers>>
      /\ services' \in [Services -> ServiceRecords] /\ disk' \in Files /\ memory' \in Files
      /\ faults' = faults
      /\ \/ services'[s] = services[s]
         \/ services'[s] = w.copy
         \/ v = Done /\ services'[s].state = "gone" /\ services'[s].ref = NoKey
      /\ more \subseteq Services /\ missed' = missed \cup more
      /\ worker' = [worker EXCEPT !.missed = worker.missed \cup more]
      /\ \A x \in Refs : disk'[x] # NoKey \/ memory'[x] # NoKey => owner[x] # NoKey
      /\ \A t \in Services : t # s => services'[t] = services[t]
      /\ \A t \in Services \ mixed, x \in Refs :
           t # s /\ owner[x] = t => disk'[x] = disk[x] /\ memory'[x] = memory[x]
      /\ memory' # memory => AtTheVault(w)
      /\ \A t \in Services \ mixed :
           services[t].ref # NoKey /\ memory'[services[t].ref] # memory[services[t].ref] => t \in more
  BY DEF TakesAStep
<1>1. /\ calls'[r] = v /\ (\A q \in Callers \ {r} : calls'[q] = calls[q]) /\ DOMAIN calls' = Callers
  BY <1>0 DEF KeysInv, KeyTypes
<1>2. /\ w \in CallRecords /\ s \in Services /\ w.copy \in ServiceCopies /\ w.drop \in Keys
      /\ w.copy.ref \in Keys
  BY <1>0, CallTypes DEF ServiceCopies, ServiceRecords
<1>3. /\ \A q \in Callers \ {r} : Serving(q)' <=> Serving(q)
      /\ Serving(r)' <=> v # Done
  BY <1>0, <1>1, Todo DEF Serving, Done
<1>4. owner' = owner /\ mixed' = mixed /\ called' = called /\ providers' = providers
  BY <1>0
<1>5. ASSUME NEW q \in Callers, Serving(q)'
      PROVE  /\ Serving(q)
             /\ calls'[q].of = calls[q].of /\ calls'[q].copy = calls[q].copy
             /\ calls'[q].drop = calls[q].drop
             /\ AtTheVault(calls'[q]) => AtTheVault(calls[q])
  BY <1>0, <1>1, <1>3, <1>5
<1>6. KeyTypes'
  <2>0. KeysTypeOK'
    <3>1. \A t \in Services : services'[t].named => services'[t].ref = NoKey
      BY <1>0, <1>2 DEF KeysInv, KeyTypes, KeysTypeOK, ServiceCopies
    <3> QED
      BY <1>0, <3>1 DEF KeysInv, KeyTypes, KeysTypeOK, Files
  <2>1. \A q \in Callers : calls'[q] = Done \/ calls'[q] \in CallRecords
    BY <1>0, <1>1 DEF KeysInv, KeyTypes
  <2>2. \A q \in Callers : Serving(q)' /\ Filing(calls'[q]) => calls'[q].file \in Files \ {NoFile}
    <3> SUFFICES ASSUME NEW q \in Callers, Serving(q)', Filing(calls'[q]) PROVE  calls'[q].file \in Files \ {NoFile}
      OBVIOUS
    <3>1. CASE q = r
      BY <1>0, <1>1, <1>3, <3>1
    <3>2. CASE q # r
      BY <1>1, <1>3, <3>2 DEF KeysInv, KeyTypes
    <3> QED
      BY <3>1, <3>2
  <2>3. /\ worker' \in [step : {"resting", "fetching"}, of : Signature, keys : ProviderKeys,
                        left : SUBSET Services, missed : SUBSET Services]
        /\ worker'.step = "fetching" => worker'.left # {}
    BY <1>0 DEF KeysInv, KeyTypes
  <2> QED
    BY <1>1, <1>4, <2>0, <2>1, <2>2, <2>3 DEF KeysInv, KeyTypes
<1>7. \A t \in Services : services[t].ref \in Keys /\ services'[t].ref \in Keys
  BY <1>6 DEF KeysInv, KeyTypes, KeysTypeOK, ServiceRecords
<1>8. Owned'
  <2>1. /\ \A x \in Refs : owner[x] # NoKey => x <= called
        /\ \A t \in Services : /\ Owns(t, services[t].ref)
                               /\ services[t].state # "kept" => services[t].ref = NoKey
    BY DEF KeysInv, Owned
  <2>2. \A q \in Callers : Serving(q) =>
          /\ Owns(calls[q].of, calls[q].copy.ref) /\ Owns(calls[q].of, calls[q].drop)
          /\ services[calls[q].of].state # "unmade"
          /\ Removing(calls[q]) => calls[q].copy.ref = NoKey
          /\ Filing(calls[q]) => \A x \in Refs : calls[q].file[x] # NoKey => owner[x] # NoKey
    BY DEF KeysInv, Owned
  <2>3. w.copy.state = "kept" /\ Owns(s, w.copy.ref) /\ (Removing(w) => w.copy.ref = NoKey)
    BY <1>0, <1>2, <2>2 DEF ServiceCopies
  <2>4. ASSUME NEW t \in Services
        PROVE  /\ Owns(t, services'[t].ref)
               /\ services'[t].state # "kept" => services'[t].ref = NoKey
               /\ services[t].state # "unmade" => services'[t].state # "unmade"
    <3>1. CASE t # s
      BY <1>0, <2>1, <3>1
    <3>2. CASE t = s
      BY <1>0, <2>1, <2>3, <3>2 DEF Owns
    <3> QED
      BY <3>1, <3>2
  <2>5. \A t \in Services : Owns(t, services[t].ref)'
    BY <1>4, <2>4 DEF Owns
  <2>6. ASSUME NEW q \in Callers, Serving(q)'
        PROVE  /\ Owns(calls[q].of, calls[q].copy.ref)' /\ Owns(calls[q].of, calls[q].drop)'
               /\ services'[calls'[q].of].state # "unmade"
               /\ Removing(calls'[q]) => calls'[q].copy.ref = NoKey
               /\ Filing(calls'[q]) => \A x \in Refs : calls'[q].file[x] # NoKey => owner'[x] # NoKey
    <3>1. Serving(q) /\ calls'[q].of = calls[q].of /\ calls'[q].copy = calls[q].copy
          /\ calls'[q].drop = calls[q].drop /\ calls[q].of \in Services
      BY <1>5, <2>6, CallTypes
    <3>2. Owns(calls[q].of, calls[q].copy.ref)' /\ Owns(calls[q].of, calls[q].drop)'
      BY <1>4, <2>2, <3>1 DEF Owns
    <3>3. services'[calls'[q].of].state # "unmade"
      BY <2>2, <2>4, <3>1
    <3>4. CASE q = r
      BY <1>0, <1>1, <1>3, <1>4, <2>3, <2>6, <3>2, <3>3, <3>4
    <3>5. CASE q # r
      BY <1>1, <1>4, <2>2, <3>1, <3>2, <3>3, <3>5
    <3> QED
      BY <3>4, <3>5
  <2>7. /\ \A x \in Refs : owner'[x] # NoKey => x <= called'
        /\ \A x \in Refs : disk'[x] # NoKey \/ memory'[x] # NoKey => owner'[x] # NoKey
    BY <1>0, <1>4, <2>1
  <2> QED
    BY <2>4, <2>5, <2>6, <2>7 DEF Owned
<1>9. Marked'
  <2> SUFFICES ASSUME NEW q \in Callers, NEW p \in Callers, q # p, Serving(q)', Serving(p)',
                      Beside(calls'[q], calls'[p])
               PROVE  calls'[q].of \in mixed' /\ calls'[p].of \in mixed'
    BY DEF Marked, Beside, AtTheVault
  <2>1. Beside(calls[q], calls[p]) /\ Serving(q) /\ Serving(p)
    BY <1>5 DEF Beside
  <2> QED
    BY <1>4, <1>5, <2>1 DEF KeysInv, Marked
<1>10. ASSUME NEW q \in Callers, q # r, Serving(q), s \notin mixed
       PROVE  calls[q].of # s /\ (Filing(calls[q]) => memory' = memory)
  <2>1. ~Beside(calls[q], w)
    BY <1>0, <1>10 DEF KeysInv, Marked
  <2>2. Filing(calls[q]) => AtTheVault(calls[q])
    BY <1>10, CallTypes
  <2> QED
    BY <1>0, <2>1, <2>2 DEF Beside
<1>11. Tracked'
  <2> SUFFICES ASSUME NEW t \in Services \ mixed
               PROVE  /\ Quiet(t)' => AtRest(t)'
                      /\ \A q \in Callers : Serving(q)' /\ calls'[q].of = t => Halfway(calls[q])'
                      /\ \A q \in Callers : Serving(q)' /\ calls'[q].of # t /\ Filing(calls'[q]) =>
                           Same(calls[q].file, memory, t)'
    BY <1>4 DEF Tracked
  <2>1. CASE t = s
    <3>1. Quiet(t)' => AtRest(t)'
      BY <1>0, <1>1, <1>3, <2>1 DEF Quiet
    <3>2. ASSUME NEW q \in Callers, Serving(q)', calls'[q].of = t PROVE Halfway(calls[q])'
      <4>1. q = r
        BY <1>5, <1>10, <2>1, <3>2
      <4>2. Halfway(v)'
        BY <1>3, <2>1, <3>2, <4>1
      <4> QED
        BY <1>1, <4>1, <4>2 DEF Halfway, Before, AtRest, OneKey, Same
    <3>3. ASSUME NEW q \in Callers, Serving(q)', calls'[q].of # t, Filing(calls'[q])
          PROVE  Same(calls[q].file, memory, t)'
      <4>1. q # r
        BY <1>0, <1>5, <2>1, <3>3
      <4>2. Serving(q) /\ calls'[q] = calls[q] /\ memory' = memory
        BY <1>1, <1>3, <1>10, <2>1, <3>3, <4>1
      <4>3. Same(calls[q].file, memory, t)
        BY <3>3, <4>2 DEF KeysInv, Tracked
      <4> QED
        BY <1>4, <4>2, <4>3 DEF Same
    <3> QED
      BY <3>1, <3>2, <3>3
  <2>2. CASE t # s
    <3>0. /\ services'[t] = services[t]
          /\ \A x \in Refs : owner[x] = t => disk'[x] = disk[x] /\ memory'[x] = memory[x]
      BY <1>0, <2>2
    <3>1. ASSUME Quiet(t)' PROVE AtRest(t)'
      <4>1. Quiet(t)
        BY <1>0, <1>1, <1>3, <2>2, <3>1 DEF Quiet
      <4>2. AtRest(t)
        BY <4>1 DEF KeysInv, Tracked
      <4> QED
        BY <1>4, <3>0, <4>2 DEF AtRest, Same, OneKey
    <3>2. ASSUME NEW q \in Callers, Serving(q)', calls'[q].of = t PROVE Halfway(calls[q])'
      <4>1. q # r /\ Serving(q) /\ calls'[q] = calls[q]
        BY <1>0, <1>1, <1>3, <1>5, <2>2, <3>2
      <4>2. Halfway(calls[q])
        BY <3>2, <4>1 DEF KeysInv, Tracked
      <4>3. PICK u : u = calls[q]
        OBVIOUS
      <4>4. u.of = t /\ Halfway(u)
        BY <3>2, <4>1, <4>2, <4>3
      <4>5. Halfway(u)'
        BY <1>4, <3>0, <4>4 DEF Halfway, Before, AtRest, OneKey, Same
      <4> QED
        BY <4>1, <4>3, <4>5 DEF Halfway, Before, AtRest, OneKey, Same
    <3>3. ASSUME NEW q \in Callers, Serving(q)', calls'[q].of # t, Filing(calls'[q])
          PROVE  Same(calls[q].file, memory, t)'
      <4>1. CASE q = r
        BY <1>0, <1>1, <1>3, <2>2, <3>3, <4>1 DEF Same
      <4>2. CASE q # r
        <5>1. Serving(q) /\ calls'[q] = calls[q] /\ Same(calls[q].file, memory, t)
          BY <1>1, <1>3, <3>3, <4>2 DEF KeysInv, Tracked
        <5> QED
          BY <1>4, <3>0, <5>1 DEF Same
      <4> QED
        BY <4>1, <4>2
    <3> QED
      BY <3>1, <3>2, <3>3
  <2> QED
    BY <2>1, <2>2
<1>12. ASSUME NEW of \in Signature, Told(of) PROVE Told(of)'
  <2> SUFFICES ASSUME NEW t \in Services, NEW n \in BOOLEAN, NEW e \in BOOLEAN, NEW ref \in Keys,
                      <<t, n, ref, e>> \in of
               PROVE  /\ Owns(t, ref)' /\ (n => ref = NoKey)
                      /\ t \notin mixed' /\ ref # NoKey =>
                           \A q \in Callers :
                             Serving(q)' /\ calls'[q].of = t /\ calls'[q].copy.ref = ref =>
                               services'[t].ref = ref
    BY DEF Told
  <2>1. Owns(t, ref)' /\ (n => ref = NoKey)
    BY <1>4, <1>12 DEF Told, Owns
  <2>2. ASSUME t \notin mixed, ref # NoKey, NEW q \in Callers,
               Serving(q)', calls'[q].of = t, calls'[q].copy.ref = ref
        PROVE  services'[t].ref = ref
    <3>1. Serving(q) /\ calls[q].of = t /\ calls[q].copy.ref = ref
      BY <1>5, <2>2
    <3>2. services[t].ref = ref
      BY <1>12, <2>2, <3>1 DEF Told
    <3>3. CASE t # s
      BY <1>0, <3>2, <3>3
    <3>4. CASE t = s
      <4>1. q = r
        BY <1>10, <2>2, <3>1, <3>4
      <4> QED
        BY <1>0, <1>1, <1>3, <2>2, <3>1, <3>2, <3>4, <4>1
    <3> QED
      BY <3>3, <3>4
  <2> QED
    BY <1>4, <2>1, <2>2
<1>13. ASSUME NEW of \in Signature, Told(of), NEW keys, NEW out, Gathered(keys, of, out),
              NEW now, out \cup more \subseteq now
       PROVE  Gathered(keys, of, now)'
  <2> SUFFICES \A t \in Services \ (mixed \cup now), n, e \in BOOLEAN, ref \in Keys :
                 <<t, n, ref, e>> \in of /\ e =>
                   /\ n => keys[t] = Named
                   /\ ~n /\ ref = NoKey => keys[t] = Keyless
                   /\ ref # NoKey /\ services'[t].ref = ref => keys[t] = memory'[ref]
    BY <1>4 DEF Gathered
  <2> TAKE t \in Services \ (mixed \cup now), n, e \in BOOLEAN, ref \in Keys
  <2>0. HAVE <<t, n, ref, e>> \in of /\ e
  <2>1. /\ n => keys[t] = Named
        /\ ~n /\ ref = NoKey => keys[t] = Keyless
        /\ ref # NoKey /\ services[t].ref = ref => keys[t] = memory[ref]
    BY <1>13, <2>0 DEF Gathered
  <2>2. ASSUME ref # NoKey, services'[t].ref = ref PROVE keys[t] = memory'[ref]
    <3>1. services[t].ref = ref
      <4>1. CASE t # s
        BY <1>0, <2>2, <4>1
      <4>2. CASE t = s
        <5>1. \A q \in Callers :
                Serving(q) /\ calls[q].of = t /\ calls[q].copy.ref = ref => services[t].ref = ref
          BY <1>13, <2>0, <2>2 DEF Told
        <5>2. services'[s] = services[s] \/ services'[s] = w.copy \/ services'[s].ref = NoKey
          BY <1>0
        <5> QED
          BY <1>0, <2>2, <4>2, <5>1, <5>2
      <4> QED
        BY <4>1, <4>2
    <3>2. t \notin more /\ memory'[ref] = memory[ref]
      BY <1>0, <1>13, <2>2, <3>1
    <3> QED
      BY <2>1, <2>2, <3>1, <3>2
  <2> QED
    BY <2>1, <2>2
<1>14. Remembered'
  <2>1. /\ worker.of \in Signature /\ providers.of \in Signature
        /\ worker'.of = worker.of /\ worker'.keys = worker.keys /\ worker'.left = worker.left
        /\ worker'.missed = worker.missed \cup more
    BY <1>0 DEF KeysInv, KeyTypes
  <2>2. Told(worker.of)' /\ Told(providers.of)'
    <3>1. PICK a : a = worker.of
      OBVIOUS
    <3>2. PICK b : b = providers.of
      OBVIOUS
    <3>3. Told(a)' /\ Told(b)'
      BY <1>12, <2>1, <3>1, <3>2 DEF KeysInv, Remembered
    <3> QED
      BY <1>4, <2>1, <3>1, <3>2, <3>3
  <2>3. Gathered(providers.keys, providers.of, missed)'
    <3>1. PICK a : a = providers
      OBVIOUS
    <3>2. PICK out : out = missed
      OBVIOUS
    <3>3. Gathered(a.keys, a.of, out \cup more)'
      BY <1>13, <2>1, <3>1, <3>2 DEF KeysInv, Remembered
    <3> QED
      BY <1>0, <1>4, <3>1, <3>2, <3>3
  <2>4. Gathered(worker.keys, worker.of, worker.missed \cup worker.left)'
    <3>1. PICK a : a = worker
      OBVIOUS
    <3>2. Gathered(a.keys, a.of, (a.missed \cup more) \cup a.left)'
      BY <1>13, <2>1, <3>1 DEF KeysInv, Remembered
    <3> QED
      BY <2>1, <3>1, <3>2
  <2>5. \A t \in worker'.left, n, e \in BOOLEAN, ref \in Keys :
          <<t, n, ref, e>> \in worker'.of => ref # NoKey
    BY <2>1 DEF KeysInv, Remembered
  <2> QED
    BY <2>2, <2>3, <2>4, <2>5 DEF Remembered
<1> QED
  BY <1>6, <1>8, <1>9, <1>11, <1>14 DEF KeysInv

\* While one request is at the vault nobody changes the keys of other services.
LEMMA Elsewhere ==
  ASSUME KeysInv, NEW r \in Callers, Serving(r), NEW w, w = calls[r], AtTheVault(w),
         NEW t \in Services \ mixed, t # w.of
  PROVE  Same(disk, memory, t)
<1>1. CASE Quiet(t)
  BY <1>1 DEF KeysInv, Tracked, AtRest
<1>2. CASE ~Quiet(t)
  <2>1. PICK q \in Callers : Serving(q) /\ calls[q].of = t
    BY <1>2 DEF Quiet
  <2>2. ~AtTheVault(calls[q])
    BY <2>1 DEF KeysInv, Marked, Beside
  <2>3. PICK u : u = calls[q]
    OBVIOUS
  <2>4. ~Filing(u) /\ u.file = NoFile /\ u.of = t
    BY <2>1, <2>2, <2>3, CallTypes DEF AtTheVault
  <2>5. Halfway(u)
    BY <2>1, <2>3 DEF KeysInv, Tracked
  <2> QED
    BY <2>4, <2>5 DEF Halfway, AtRest
<1> QED
  BY <1>1, <1>2

\* The step of a request that has been taken is off its list.
LEMMA GoesOn ==
  ASSUME KeysInv, NEW r \in Callers, Serving(r), NEW w, w = calls[r], calls' = Goes(r)
  PROVE  \E v : /\ calls' = [calls EXCEPT ![r] = v]
                /\ w.todo \in ToPut \cup {<<"keep">>} => v = Done
                /\ w.todo \notin ToPut \cup {<<"keep">>} =>
                     /\ v \in CallRecords /\ v.of = w.of /\ v.copy = w.copy /\ v.file = w.file
                     /\ v.drop = w.drop /\ v.todo = Tail(w.todo) /\ v # Done
                     /\ w.todo \in ToSave => v.todo \in ToKeep
                     /\ w.todo \in ToKeep => v.todo \in {<<"write">>, <<"remove">>}
                     /\ Dropping(v) <=> w.todo = <<"save", "keep">>
                     /\ Removing(v) <=> Removing(w)
                     /\ AtTheVault(v) <=> AtTheVault(w)
<1>1. w \in CallRecords
  BY CallTypes
<1>2. CASE w.todo \in ToPut \cup {<<"keep">>}
  <2>1. Len(w.todo) = 1
    BY <1>1, <1>2, Todo
  <2>2. calls' = [calls EXCEPT ![r] = Done]
    BY <2>1 DEF Goes
  <2> QED
    BY <1>2, <2>2
<1>3. CASE w.todo \notin ToPut \cup {<<"keep">>}
  <2>1. Len(w.todo) # 1 /\ w.todo \in ToSave \cup ToKeep
    BY <1>1, <1>3, Todo DEF CallRecords
  <2>2. PICK v : v = [w EXCEPT !.todo = Tail(w.todo)]
    OBVIOUS
  <2>3. calls' = [calls EXCEPT ![r] = v]
    BY <2>1, <2>2 DEF Goes
  <2>4. /\ w.todo \in ToSave => Tail(w.todo) \in ToKeep
        /\ w.todo \in ToKeep => Tail(w.todo) \in {<<"write">>, <<"remove">>}
        /\ w.todo = <<"save", "keep">> <=> Tail(w.todo) = <<"keep">>
        /\ Tail(w.todo) \in {<<"keep", "remove">>, <<"remove">>} <=>
             w.todo \in {<<"save", "keep", "remove">>, <<"keep", "remove">>}
    BY <1>3, <2>1, Tails
  <2>5. Tail(w.todo) \in ToSave \cup ToKeep \cup ToPut
    BY <2>1, <2>4 DEF ToPut
  <2>6. /\ v \in CallRecords /\ v.of = w.of /\ v.copy = w.copy /\ v.file = w.file
        /\ v.drop = w.drop /\ v.todo = Tail(w.todo)
    BY <1>1, <2>2, <2>5 DEF CallRecords
  <2>7. v # Done
    BY <2>6, Todo DEF Done
  <2>8. Tail(w.todo) # <<"save", "keep">> /\ Tail(w.todo) # <<"save", "keep", "remove">>
    BY <2>1, <2>4 DEF ToKeep
  <2>9. Dropping(v) <=> w.todo = <<"save", "keep">>
    BY <2>4, <2>6, <2>8 DEF Dropping
  <2>10. w.todo # <<"remove">>
    BY <1>3 DEF ToPut
  <2>11. Removing(v) <=> Removing(w)
    BY <2>4, <2>6, <2>8, <2>10 DEF Removing
  <2>12. AtTheVault(v) <=> AtTheVault(w)
    BY <2>6 DEF AtTheVault
  <2> QED
    BY <1>3, <2>3, <2>4, <2>6, <2>7, <2>9, <2>11, <2>12
<1> QED
  BY <1>2, <1>3

\* What a step of a request leaves alone.
LEMMA WorkerStays ==
  ASSUME KeysInv
  PROVE  worker = [worker EXCEPT !.missed = worker.missed \cup {}] /\ missed = missed \cup {}
BY DEF KeysInv, KeyTypes

LEMMA KeyOwners ==
  ASSUME KeysInv
  PROVE  /\ \A x \in Refs : disk[x] # NoKey \/ memory[x] # NoKey => owner[x] # NoKey
         /\ disk \in Files /\ memory \in Files /\ services \in [Services -> ServiceRecords]
         /\ \A s \in Services : services[s].ref # NoKey => services[s].ref \in Refs
         /\ \A s \in Services : Owns(s, services[s].ref)
BY DEF KeysInv, KeyTypes, KeysTypeOK, Owned, Files, ServiceRecords, Keys

LEMMA DiscoverFailsKeeps ==
  ASSUME CredentialConstants, KeysInv, NEW r \in Callers, DiscoverFails(r)
  PROVE  KeysInv'
<1>w. PICK w : w = calls[r]
  OBVIOUS
<1>s. PICK s : s = w.of
  OBVIOUS
<1>1. /\ w.todo = <<"found">> /\ calls' = [calls EXCEPT ![r] = Done]
      /\ UNCHANGED <<services, disk, memory, called, worker, providers, faults, mixed, owner, missed>>
  BY <1>w DEF DiscoverFails
<1>2. Serving(r)
  BY <1>w, <1>1 DEF Serving
<1>3. ASSUME s \notin mixed PROVE AtRest(s)'
  <2>1. w \in CallRecords /\ s \in Services
    BY <1>w, <1>s, <1>2, CallTypes
  <2>2. Halfway(w)
    BY <1>w, <1>s, <1>2, <1>3, <2>1 DEF KeysInv, Tracked
  <2>3. ~Filing(w)
    BY <1>1, <2>1, Todo DEF ToPut
  <2> QED
    BY <1>s, <1>1, <2>2, <2>3 DEF Halfway, AtRest, OneKey, Same
<1>4. TakesAStep(r, w, Done, {})
  <2>1. /\ worker' = [worker EXCEPT !.missed = worker.missed \cup {}] /\ missed' = missed \cup {}
        /\ services \in [Services -> ServiceRecords] /\ disk \in Files /\ memory \in Files
        /\ \A x \in Refs : disk[x] # NoKey \/ memory[x] # NoKey => owner[x] # NoKey
    BY <1>1, WorkerStays, KeyOwners
  <2> QED
    BY <1>w, <1>s, <1>1, <1>2, <2>1 DEF TakesAStep
<1> QED
  BY <1>s, <1>3, <1>4, StepKeeps

LEMMA SaveFileKeeps ==
  ASSUME CredentialConstants, KeysInv, NEW r \in Callers, SaveFile(r)
  PROVE  KeysInv'
<1>w. PICK w : w = calls[r]
  OBVIOUS
<1>s. PICK s : s = w.of
  OBVIOUS
<1>1. /\ Serving(r) /\ Head(w.todo) = "save" /\ calls' = Goes(r) /\ disk' = w.file
      /\ UNCHANGED <<services, memory, called, worker, providers, faults, mixed, owner, missed>>
  BY <1>w DEF SaveFile, AtStep
<1>2. w \in CallRecords /\ s \in Services
  BY <1>w, <1>s, <1>1, CallTypes
<1>3. /\ w.todo \in ToSave /\ Filing(w) /\ w.todo \notin ToPut \cup {<<"keep">>}
  BY <1>1, <1>2, Todo DEF Filing, ToKeep
<1>4. w.file \in Files /\ w.file # NoFile /\ AtTheVault(w)
  BY <1>w, <1>1, <1>3, CallTypes
<1>5. PICK v : /\ calls' = [calls EXCEPT ![r] = v]
               /\ v \in CallRecords /\ v.of = w.of /\ v.copy = w.copy /\ v.file = w.file
               /\ v.drop = w.drop /\ v # Done /\ v.todo \in ToKeep
               /\ Dropping(v) <=> w.todo = <<"save", "keep">>
               /\ Removing(v) <=> Removing(w)
               /\ AtTheVault(v) <=> AtTheVault(w)
  BY <1>w, <1>1, <1>3, GoesOn
<1>6. \A x \in Refs : w.file[x] # NoKey => owner[x] # NoKey
  BY <1>w, <1>1, <1>3 DEF KeysInv, Owned
<1>7. \A t \in Services \ mixed : t # s => Same(w.file, memory, t)
  BY <1>w, <1>s, <1>1, <1>3 DEF KeysInv, Tracked
<1>8. ASSUME NEW t \in Services \ mixed, NEW x \in Refs, t # s, owner[x] = t
      PROVE  disk'[x] = disk[x] /\ memory'[x] = memory[x]
  <2>1. Same(disk, memory, t)
    BY <1>w, <1>s, <1>1, <1>4, <1>8, Elsewhere
  <2> QED
    BY <1>1, <1>7, <1>8, <2>1 DEF Same
<1>9. ASSUME s \notin mixed PROVE Halfway(v)'
  <2>1. Halfway(w)
    BY <1>w, <1>s, <1>1, <1>2, <1>9 DEF KeysInv, Tracked
  <2>2. Filing(v) /\ v.todo \notin ToSave /\ v.todo # <<"found">>
    BY <1>5 DEF Filing, ToKeep, ToSave
  <2>3. Dropping(v) <=> Dropping(w)
    BY <1>3, <1>5 DEF Dropping, ToSave
  <2>4. /\ services[s].state = "kept"
        /\ OneKey(memory, s, Before(w)) /\ OneKey(w.file, s, w.copy.ref)
        /\ Dropping(w) => services[s].ref = NoKey /\ w.copy.ref = NoKey
        /\ ~Dropping(w) =>
             /\ services[s].ref \in {NoKey, w.copy.ref} \/ (w.copy.ref = NoKey /\ ~w.copy.named)
             /\ w.drop = NoKey
        /\ w.drop # NoKey => ~Removing(w)
    BY <1>s, <1>3, <1>4, <2>1 DEF Halfway
  <2> QED
    BY <1>s, <1>1, <1>5, <2>2, <2>3, <2>4 DEF Halfway, Before, OneKey, Same
<1>10. TakesAStep(r, w, v, {})
  <2>1. /\ worker' = [worker EXCEPT !.missed = worker.missed \cup {}] /\ missed' = missed \cup {}
        /\ services \in [Services -> ServiceRecords] /\ memory \in Files
        /\ \A x \in Refs : memory[x] # NoKey => owner[x] # NoKey
    BY <1>1, WorkerStays, KeyOwners
  <2>2. \A t \in Services \ mixed, x \in Refs : t # s /\ owner[x] = t => v.file[x] = memory'[x]
    BY <1>1, <1>5, <1>7 DEF Same
  <2> QED
    BY ZenonT(60), <1>w, <1>s, <1>1, <1>4, <1>5, <1>6, <1>8, <2>1, <2>2 DEF TakesAStep
<1> QED
  BY <1>s, <1>5, <1>9, <1>10, StepKeeps

LEMMA KeepFileKeeps ==
  ASSUME CredentialConstants, KeysInv, NEW r \in Callers, KeepFile(r)
  PROVE  KeysInv'
<1>w. PICK w : w = calls[r]
  OBVIOUS
<1>s. PICK s : s = w.of
  OBVIOUS
<1>m. PICK more : more = {t \in Services : /\ Has(services[t].ref)
                                           /\ memory'[services[t].ref] # memory[services[t].ref]}
  OBVIOUS
<1>1. /\ Serving(r) /\ Head(w.todo) = "keep" /\ calls' = Goes(r) /\ memory' = w.file
      /\ missed' = missed \cup more /\ worker' = [worker EXCEPT !.missed = worker.missed \cup more]
      /\ UNCHANGED <<services, disk, called, providers, faults, mixed, owner>>
  BY <1>w, <1>m DEF KeepFile, AtStep
<1>2. w \in CallRecords /\ s \in Services
  BY <1>w, <1>s, <1>1, CallTypes
<1>3. w.todo \in ToKeep /\ Filing(w) /\ w.todo \notin ToSave
  BY <1>1, <1>2, Todo DEF Filing
<1>4. w.file \in Files /\ w.file # NoFile /\ AtTheVault(w)
  BY <1>w, <1>1, <1>3, CallTypes
<1>5. PICK v : /\ calls' = [calls EXCEPT ![r] = v]
               /\ w.todo = <<"keep">> => v = Done
               /\ w.todo # <<"keep">> =>
                    /\ v \in CallRecords /\ v.of = w.of /\ v.copy = w.copy /\ v.file = w.file
                    /\ v.drop = w.drop /\ v # Done /\ v.todo \in {<<"write">>, <<"remove">>}
                    /\ Removing(v) <=> Removing(w)
                    /\ AtTheVault(v) <=> AtTheVault(w)
  <2>1. w.todo # <<"keep">> => w.todo \notin ToPut \cup {<<"keep">>}
    BY <1>2, <1>3, Todo
  <2> QED
    BY <1>w, <1>1, <1>3, <2>1, GoesOn
<1>6. w.todo # <<"keep">> =>
        ~Filing(v) /\ ~Dropping(v) /\ ~Dropping(w) /\ v.todo # <<"found">>
  <2>1. w.todo # <<"keep">> => v.todo \in ToPut /\ v \in CallRecords /\ v.todo # <<"found">>
    BY <1>5 DEF ToPut
  <2>2. w.todo # <<"keep">> => ~Dropping(w)
    BY <1>3 DEF Dropping, ToSave
  <2> QED
    BY <2>1, <2>2, Todo
<1>7. \A x \in Refs : w.file[x] # NoKey => owner[x] # NoKey
  BY <1>w, <1>1, <1>3 DEF KeysInv, Owned
<1>8. ASSUME NEW t \in Services \ mixed, NEW x \in Refs, t # s, owner[x] = t
      PROVE  disk'[x] = disk[x] /\ memory'[x] = memory[x]
  <2>1. Same(w.file, memory, t)
    BY <1>w, <1>s, <1>1, <1>3, <1>8 DEF KeysInv, Tracked
  <2> QED
    BY <1>1, <1>8, <2>1 DEF Same
<1>9. ASSUME s \notin mixed
      PROVE  /\ services[s].state = "kept"
             /\ OneKey(memory, s, Before(w)) /\ OneKey(w.file, s, w.copy.ref)
             /\ Same(disk, w.file, s)
             /\ Dropping(w) => services[s].ref = NoKey /\ w.copy.ref = NoKey
             /\ ~Dropping(w) =>
                  /\ services[s].ref \in {NoKey, w.copy.ref} \/ (w.copy.ref = NoKey /\ ~w.copy.named)
                  /\ w.drop = NoKey
             /\ w.drop # NoKey => ~Removing(w)
  <2>1. Halfway(w)
    BY <1>w, <1>s, <1>1, <1>2, <1>9 DEF KeysInv, Tracked
  <2> QED
    BY <1>s, <1>3, <1>4, <2>1 DEF Halfway
<1>10. ASSUME s \notin mixed, v = Done PROVE AtRest(s)'
  <2>1. Dropping(w)
    BY <1>5, <1>10 DEF Dropping
  <2>2. Same(disk, w.file, s) /\ OneKey(w.file, s, services[s].ref)
    BY <1>9, <1>10, <2>1
  <2> QED
    BY <1>1, <2>2 DEF AtRest, Same, OneKey
<1>11. ASSUME s \notin mixed, v # Done PROVE Halfway(v)'
  <2>1. w.todo # <<"keep">>
    BY <1>5, <1>11
  <2>2. /\ v.of = s /\ v.copy = w.copy /\ v.file = w.file /\ v.drop = w.drop
        /\ Removing(v) <=> Removing(w)
    BY <1>s, <1>5, <2>1
  <2> QED
    BY <1>1, <1>4, <1>6, <1>9, <1>11, <2>1, <2>2 DEF Halfway, Same, OneKey
<1>12. ASSUME NEW t \in Services \ mixed, services[t].ref # NoKey,
              memory'[services[t].ref] # memory[services[t].ref]
       PROVE  t \in more
  <2>1. services[t].ref \in Refs /\ owner[services[t].ref] = t
    BY <1>12, KeyOwners DEF Owns
  <2>2. t = s
    BY <1>8, <1>12, <2>1
  <2>3. ~Dropping(w) /\ OneKey(memory, s, services[s].ref)
    BY <1>s, <1>9, <1>12, <2>2 DEF Before
  <2>4. memory[services[t].ref] # NoKey
    BY <2>1, <2>2, <2>3 DEF OneKey
  <2> QED
    BY <1>m, <1>12, <2>4 DEF Has
<1>13. TakesAStep(r, w, v, more)
  <2>1. /\ services \in [Services -> ServiceRecords] /\ disk \in Files
        /\ \A x \in Refs : disk[x] # NoKey => owner[x] # NoKey
    BY KeyOwners
  <2>2. \/ v = Done
        \/ /\ v \in CallRecords /\ v.of = s /\ v.copy = w.copy /\ v.drop = w.drop
           /\ AtTheVault(v) => AtTheVault(w)
           /\ Removing(v) => Removing(w)
           /\ ~Filing(v)
    BY <1>s, <1>5, <1>6
  <2>3. more \subseteq Services
    BY <1>m
  <2> QED
    BY <1>w, <1>s, <1>1, <1>4, <1>5, <1>7, <1>8, <1>12, <2>1, <2>2, <2>3 DEF TakesAStep
<1> QED
  BY <1>s, <1>10, <1>11, <1>13, StepKeeps

LEMMA WriteServiceKeeps ==
  ASSUME CredentialConstants, KeysInv, NEW r \in Callers, WriteService(r)
  PROVE  KeysInv'
<1>w. PICK w : w = calls[r]
  OBVIOUS
<1>s. PICK s : s = w.of
  OBVIOUS
<1>1. /\ Serving(r) /\ Head(w.todo) \in {"write", "found"}
      /\ services' = [services EXCEPT ![s] = w.copy]
      /\ calls' = IF Has(w.drop)
                     THEN [calls EXCEPT ![r] =
                            [w EXCEPT !.todo = <<"save", "keep">>, !.file = DropSecret(w.drop)]]
                     ELSE Goes(r)
      /\ UNCHANGED <<disk, memory, called, worker, providers, faults, mixed, owner, missed>>
  BY <1>w, <1>s DEF WriteService, AtStep
<1>2. w \in CallRecords /\ s \in Services /\ w.copy \in ServiceCopies /\ w.drop \in Keys
  BY <1>w, <1>s, <1>1, CallTypes
<1>3. /\ w.todo \in {<<"write">>, <<"found">>} /\ w.todo \in ToPut /\ ~Filing(w) /\ ~Dropping(w)
      /\ ~Removing(w)
  BY <1>1, <1>2, Todo DEF ToPut, Removing
<1>4. /\ disk \in Files /\ memory \in Files /\ services \in [Services -> ServiceRecords]
      /\ \A x \in Refs : disk[x] # NoKey \/ memory[x] # NoKey => owner[x] # NoKey
      /\ worker' = [worker EXCEPT !.missed = worker.missed \cup {}] /\ missed' = missed \cup {}
  BY <1>1, KeyOwners, WorkerStays
<1>5. /\ services' \in [Services -> ServiceRecords] /\ services'[s] = w.copy
      /\ \A t \in Services : t # s => services'[t] = services[t]
  BY <1>1, <1>2, <1>4 DEF ServiceCopies
<1>6. s \notin mixed => Halfway(w)
  BY <1>w, <1>s, <1>1, <1>2 DEF KeysInv, Tracked
<1>7. Owns(s, w.drop)
  BY <1>w, <1>s, <1>1 DEF KeysInv, Owned
<1>8. CASE Has(w.drop)
  <2>f. PICK file : file = DropSecret(w.drop)
    OBVIOUS
  <2>v. PICK v : v = [w EXCEPT !.todo = <<"save", "keep">>, !.file = file]
    OBVIOUS
  <2>1. calls' = [calls EXCEPT ![r] = v]
    BY <1>1, <1>8, <2>f, <2>v
  <2>2. w.drop \in Refs /\ w.drop # NoKey /\ owner[w.drop] = s /\ NoKey \in Keys
    BY <1>2, <1>7, <1>8 DEF Has, Owns, Keys
  <2>3. file \in Files /\ file[w.drop] = NoKey /\ \A x \in Refs \ {w.drop} : file[x] = memory[x]
    BY <1>4, <2>2, <2>f DEF DropSecret, Files
  <2>4. file # NoFile /\ AtTheVault(w)
    BY <2>2, <2>3, AFileIsNotNone DEF AtTheVault
  <2>5. /\ v \in CallRecords /\ v.of = s /\ v.copy = w.copy /\ v.drop = w.drop /\ v.file = file
        /\ v.todo = <<"save", "keep">>
    BY <1>s, <1>2, <2>3, <2>v DEF CallRecords, ToSave
  <2>6. v # Done /\ v.todo \in ToSave /\ v.todo # <<"found">> /\ Filing(v) /\ Dropping(v)
    <3>1. v # Done
      BY <2>5, Todo DEF Done
    <3> QED
      BY <2>5, <3>1 DEF ToSave, Filing, Dropping
  <2>7. ~Removing(v)
    BY <2>5 DEF Removing
  <2>8. TakesAStep(r, w, v, {})
    <3>1. \A x \in Refs : file[x] # NoKey => owner[x] # NoKey
      BY <1>4, <2>3
    <3>2. \A t \in Services \ mixed, x \in Refs : t # s /\ owner[x] = t => file[x] = memory'[x]
      BY <1>1, <2>2, <2>3
    <3> QED
      BY ZenonT(60), <1>w, <1>s, <1>1, <1>4, <1>5, <2>1, <2>3, <2>4, <2>5, <2>7, <3>1, <3>2 DEF TakesAStep
  <2>9. ASSUME s \notin mixed PROVE Halfway(v)'
    <3>1. w.file = NoFile
      BY <1>3, <1>6, <2>2, <2>9 DEF Halfway
    <3>2. AtRest(s) /\ w.copy.ref = NoKey /\ w.drop = services[s].ref
      BY <1>s, <1>3, <1>6, <2>2, <2>9, <3>1 DEF Halfway
    <3>3. /\ \A x \in Refs : owner[x] = s => disk[x] = memory[x]
          /\ \A x \in Refs : owner[x] = s => (memory[x] # NoKey <=> x = w.drop)
      BY <3>2 DEF AtRest, Same, OneKey
    <3>4. OneKey(memory, s, w.drop)' /\ Same(disk, memory, s)'
      BY <1>1, <3>3 DEF Same, OneKey
    <3>5. OneKey(file, s, NoKey)'
      <4>1. NoKey \notin Refs
        BY <2>2 DEF Refs, NoKey
      <4> QED
        BY <1>1, <2>3, <3>3, <4>1 DEF OneKey
    <3>6. services'[s].state = "kept" /\ services'[s].ref = NoKey
      BY <1>2, <1>5, <3>2 DEF ServiceCopies
    <3> QED
      BY <1>1, <2>4, <2>5, <2>6, <2>7, <3>2, <3>4, <3>5, <3>6 DEF Halfway, Before
  <2> QED
    BY <1>s, <2>6, <2>8, <2>9, StepKeeps
<1>9. CASE ~Has(w.drop)
  <2>1. calls' = [calls EXCEPT ![r] = Done]
    BY <1>w, <1>1, <1>3, <1>9, GoesOn
  <2>2. TakesAStep(r, w, Done, {})
    BY <1>w, <1>s, <1>1, <1>4, <1>5, <2>1 DEF TakesAStep
  <2>3. ASSUME s \notin mixed PROVE AtRest(s)'
    <3>1. Same(disk, memory, s) /\ OneKey(memory, s, w.copy.ref)
      <4>1. CASE w.file # NoFile
        BY <1>s, <1>3, <1>6, <2>3, <4>1 DEF Halfway
      <4>2. CASE w.file = NoFile
        <5>1. /\ AtRest(s)
              /\ \/ w.copy.ref = services[s].ref /\ w.drop = NoKey
                 \/ w.copy.ref = NoKey /\ w.drop = services[s].ref
          BY <1>s, <1>3, <1>6, <2>3, <4>2 DEF Halfway
        <5>2. w.drop # NoKey => w.drop \in Refs /\ owner[w.drop] = s
          BY <1>2, <1>7 DEF Owns, Keys
        <5>3. w.drop = services[s].ref => w.drop = NoKey
          BY <1>9, <5>1, <5>2 DEF AtRest, OneKey, Has
        <5> QED
          BY <5>1, <5>3 DEF AtRest
      <4> QED
        BY <4>1, <4>2
    <3> QED
      BY <1>1, <1>5, <3>1 DEF AtRest, Same, OneKey
  <2> QED
    BY <1>s, <2>2, <2>3, StepKeeps
<1> QED
  BY <1>8, <1>9

LEMMA RemoveServiceKeeps ==
  ASSUME CredentialConstants, KeysInv, NEW r \in Callers, RemoveService(r)
  PROVE  KeysInv'
<1>w. PICK w : w = calls[r]
  OBVIOUS
<1>s. PICK s : s = w.of
  OBVIOUS
<1>1. /\ Serving(r) /\ Head(w.todo) = "remove" /\ calls' = Goes(r)
      /\ services' = [services EXCEPT ![s] = [w.copy EXCEPT !.state = "gone"]]
      /\ UNCHANGED <<disk, memory, called, worker, providers, faults, mixed, owner, missed>>
  BY <1>w, <1>s DEF RemoveService, AtStep
<1>2. w \in CallRecords /\ s \in Services /\ w.copy \in ServiceCopies /\ w.drop \in Keys
  BY <1>w, <1>s, <1>1, CallTypes
<1>3. w.todo = <<"remove">> /\ w.todo \in ToPut /\ ~Filing(w) /\ Removing(w)
  BY <1>1, <1>2, Todo DEF ToPut, Removing
<1>4. /\ disk \in Files /\ memory \in Files /\ services \in [Services -> ServiceRecords]
      /\ \A x \in Refs : disk[x] # NoKey \/ memory[x] # NoKey => owner[x] # NoKey
      /\ worker' = [worker EXCEPT !.missed = worker.missed \cup {}] /\ missed' = missed \cup {}
  BY <1>1, KeyOwners, WorkerStays
<1>5. w.copy.ref = NoKey
  BY <1>w, <1>1, <1>3 DEF KeysInv, Owned
<1>6. calls' = [calls EXCEPT ![r] = Done]
  BY <1>w, <1>1, <1>3, GoesOn
<1>7. /\ services' \in [Services -> ServiceRecords] /\ services'[s].state = "gone"
      /\ services'[s].ref = NoKey
      /\ \A t \in Services : t # s => services'[t] = services[t]
  BY <1>1, <1>2, <1>4, <1>5 DEF ServiceCopies, ServiceRecords
<1>8. TakesAStep(r, w, Done, {})
  BY <1>w, <1>s, <1>1, <1>4, <1>6, <1>7 DEF TakesAStep
<1>9. ASSUME s \notin mixed PROVE AtRest(s)'
  <2>1. Halfway(w)
    BY <1>w, <1>s, <1>1, <1>2, <1>9 DEF KeysInv, Tracked
  <2>2. Same(disk, memory, s) /\ OneKey(memory, s, NoKey)
    BY <1>s, <1>3, <1>5, <2>1 DEF Halfway, AtRest
  <2> QED
    BY <1>1, <1>7, <2>2 DEF AtRest, Same, OneKey
<1> QED
  BY <1>s, <1>8, <1>9, StepKeeps

LEMMA CreateServiceKeeps ==
  ASSUME CredentialConstants, KeysInv, NEW s \in Services, NEW named \in BOOLEAN,
         CreateService(s, named)
  PROVE  KeysInv'
<1>1. /\ services[s].state = "unmade"
      /\ services' = [services EXCEPT ![s] = [services[s] EXCEPT !.state = "kept", !.named = named]]
      /\ UNCHANGED <<disk, memory, calls, called, worker, providers, faults, mixed, owner, missed>>
  BY DEF CreateService
<1>2. services \in [Services -> ServiceRecords] /\ services[s].ref = NoKey
  BY <1>1 DEF KeysInv, KeyTypes, KeysTypeOK, Owned
<1>3. /\ services' \in [Services -> ServiceRecords]
      /\ services'[s].state = "kept" /\ services'[s].ref = NoKey
      /\ \A t \in Services : t # s => services'[t] = services[t]
      /\ \A t \in Services : services'[t].ref = services[t].ref
  BY <1>1, <1>2 DEF ServiceRecords
<1>4. ASSUME NEW r \in Callers, Serving(r) PROVE calls[r].of \in Services \ {s}
  BY <1>1, <1>4, CallTypes DEF KeysInv, Owned
<1>5. KeyTypes'
  <2>1. KeysTypeOK'
    BY <1>1, <1>3 DEF KeysInv, KeyTypes, KeysTypeOK
  <2> QED
    BY <1>1, <2>1 DEF KeysInv, KeyTypes, Serving
<1>6. Owned'
  <2>1. \A t \in Services : /\ Owns(t, services[t].ref)'
                            /\ services'[t].state # "kept" => services'[t].ref = NoKey
    BY <1>1, <1>3 DEF KeysInv, Owned, Owns
  <2>2. \A r \in Callers : Serving(r)' =>
          /\ Owns(calls[r].of, calls[r].copy.ref)' /\ Owns(calls[r].of, calls[r].drop)'
          /\ services'[calls'[r].of].state # "unmade"
          /\ Removing(calls'[r]) => calls'[r].copy.ref = NoKey
          /\ Filing(calls'[r]) =>
               \A x \in Refs : calls'[r].file[x] # NoKey => owner'[x] # NoKey
    BY <1>1, <1>3, <1>4 DEF KeysInv, Owned, Owns, Serving
  <2> QED
    BY <1>1, <2>1, <2>2 DEF KeysInv, Owned
<1>7. Marked'
  BY <1>1 DEF KeysInv, Marked, Serving
<1>8. \A t : AtRest(t) /\ t \in Services => AtRest(t)'
  BY <1>1, <1>3 DEF AtRest, Same, OneKey
<1>9. Tracked'
  <2> SUFFICES ASSUME NEW t \in Services \ mixed
               PROVE  /\ Quiet(t)' => AtRest(t)'
                      /\ \A q \in Callers : Serving(q)' /\ calls'[q].of = t => Halfway(calls[q])'
                      /\ \A q \in Callers : Serving(q)' /\ calls'[q].of # t /\ Filing(calls'[q]) =>
                           Same(calls[q].file, memory, t)'
    BY <1>1 DEF Tracked
  <2>1. Quiet(t)' => AtRest(t)'
    BY <1>1, <1>8 DEF KeysInv, Tracked, Quiet, Serving
  <2>2. ASSUME NEW q \in Callers, Serving(q)', calls'[q].of = t PROVE Halfway(calls[q])'
    <3>1. Serving(q) /\ calls[q].of = t
      BY <1>1, <2>2 DEF Serving
    <3>2. PICK u : u = calls[q]
      OBVIOUS
    <3>3. Halfway(u) /\ u.of = t /\ services'[t] = services[t]
      BY <1>3, <1>4, <3>1, <3>2 DEF KeysInv, Tracked
    <3>4. Halfway(u)'
      BY <1>1, <3>3 DEF Halfway, Before, AtRest, OneKey, Same
    <3>5. calls' = calls
      BY <1>1
    <3> QED
      BY <3>2, <3>4, <3>5 DEF Halfway, Before, AtRest, OneKey, Same
  <2>3. \A q \in Callers : Serving(q)' /\ calls'[q].of # t /\ Filing(calls'[q]) =>
          Same(calls[q].file, memory, t)'
    BY <1>1 DEF KeysInv, Tracked, Serving, Same
  <2> QED
    BY <2>1, <2>2, <2>3
<1>10. Remembered'
  <2>1. worker' = worker /\ providers' = providers /\ missed' = missed
    BY <1>1
  <2>2. Told(worker.of)' /\ Told(providers.of)'
    BY <1>1, <1>3 DEF KeysInv, Remembered, Told, Owns, Serving
  <2>3. /\ Gathered(providers.keys, providers.of, missed)'
        /\ Gathered(worker.keys, worker.of, worker.missed \cup worker.left)'
    BY <1>1, <1>3 DEF KeysInv, Remembered, Gathered
  <2>4. \A t \in worker'.left, n, e \in BOOLEAN, ref \in Keys :
          <<t, n, ref, e>> \in worker'.of => ref # NoKey
    BY <2>1 DEF KeysInv, Remembered
  <2> QED
    BY <2>2, <2>3, <2>4 DEF Remembered
<1> QED
  BY <1>5, <1>6, <1>7, <1>9, <1>10 DEF KeysInv

\* Whatever was under way is gone; services nobody worked on are as they were.
LEMMA ReopenKeeps ==
  ASSUME CredentialConstants, KeysInv, Reopen
  PROVE  KeysInv'
<1>1. /\ faults < MaxFaults /\ faults' = faults + 1 /\ memory' = disk
      /\ mixed' = mixed \cup {calls[r].of : r \in {q \in Callers : Serving(q)}}
      /\ calls' = [r \in Callers |-> Done]
      /\ UNCHANGED <<services, disk, called, worker, providers, owner, missed>>
  BY DEF Reopen
<1>2. \A r \in Callers : ~Serving(r)'
  BY <1>1 DEF Serving, Done
<1>3. mixed \subseteq mixed' /\ mixed' \subseteq Services
  BY <1>1, CallTypes DEF KeysInv, KeyTypes, KeysTypeOK
<1>4. ASSUME NEW t \in Services \ mixed' PROVE AtRest(t)
  <2>1. t \notin mixed /\ Quiet(t)
    BY <1>1, <1>4 DEF Quiet
  <2> QED
    BY <2>1 DEF KeysInv, Tracked
<1>5. KeyTypes'
  <2>1. KeysTypeOK'
    BY <1>1, <1>3 DEF KeysInv, KeyTypes, KeysTypeOK, CredentialConstants
  <2>2. DOMAIN calls' = Callers /\ \A r \in Callers : calls'[r] = Done
    BY <1>1
  <2> QED
    BY <1>1, <1>2, <2>1, <2>2 DEF KeysInv, KeyTypes
<1>6. Owned'
  BY <1>1, <1>2 DEF KeysInv, Owned, Owns
<1>7. Marked'
  BY <1>2 DEF Marked
<1>8. Tracked'
  <2>1. ASSUME NEW t \in Services \ mixed' PROVE AtRest(t)'
    BY <1>1, <1>4, <2>1 DEF AtRest, Same, OneKey
  <2> QED
    BY <1>2, <2>1 DEF Tracked
<1>9. ASSUME NEW of, NEW keys, NEW out, Told(of), Gathered(keys, of, out)
      PROVE  Told(of)' /\ Gathered(keys, of, out)'
  <2>1. Told(of)'
    BY <1>1, <1>2, <1>9 DEF Told, Owns
  <2>2. \A t \in Services \ mixed', ref \in Keys :
          Owns(t, ref) /\ ref # NoKey => memory'[ref] = memory[ref]
    BY <1>1, <1>4 DEF AtRest, Same, Owns, Keys
  <2>3. \A t \in Services, n, e \in BOOLEAN, ref \in Keys : <<t, n, ref, e>> \in of => Owns(t, ref)
    BY <1>9 DEF Told
  <2>4. Gathered(keys, of, out)'
    <3> SUFFICES \A t \in Services \ (mixed' \cup out), n, e \in BOOLEAN, ref \in Keys :
                   <<t, n, ref, e>> \in of /\ e =>
                     /\ n => keys[t] = Named
                     /\ ~n /\ ref = NoKey => keys[t] = Keyless
                     /\ ref # NoKey /\ services'[t].ref = ref => keys[t] = memory'[ref]
      BY DEF Gathered
    <3> TAKE t \in Services \ (mixed' \cup out), n, e \in BOOLEAN, ref \in Keys
    <3>1. HAVE <<t, n, ref, e>> \in of /\ e
    <3>2. t \in Services \ (mixed \cup out) /\ (ref # NoKey => memory'[ref] = memory[ref])
      BY <1>3, <2>2, <2>3, <3>1
    <3> QED
      <4>1. services'[t].ref = services[t].ref
        BY <1>1
      <4>2. /\ n => keys[t] = Named
            /\ ~n /\ ref = NoKey => keys[t] = Keyless
            /\ ref # NoKey /\ services[t].ref = ref => keys[t] = memory[ref]
        BY <1>9, <3>1, <3>2 DEF Gathered
      <4> QED
        BY <3>2, <4>1, <4>2
  <2> QED
    BY <2>1, <2>4
<1>10. Remembered'
  <2>1. PICK a : a = worker
    OBVIOUS
  <2>2. PICK b : b = providers
    OBVIOUS
  <2>3. PICK out : out = missed
    OBVIOUS
  <2>4. /\ Told(a.of)' /\ Gathered(a.keys, a.of, a.missed \cup a.left)'
        /\ Told(b.of)' /\ Gathered(b.keys, b.of, out)'
    BY <1>9, <2>1, <2>2, <2>3 DEF KeysInv, Remembered
  <2>5. worker' = worker /\ providers' = providers /\ missed' = missed
    BY <1>1
  <2>6. \A t \in worker'.left, n, e \in BOOLEAN, ref \in Keys :
          <<t, n, ref, e>> \in worker'.of => ref # NoKey
    BY <2>5 DEF KeysInv, Remembered
  <2> QED
    BY <2>1, <2>2, <2>3, <2>4, <2>5, <2>6 DEF Remembered
<1> QED
  BY <1>5, <1>6, <1>7, <1>8, <1>10 DEF KeysInv

-------------------------------------------------------------------------------
(* The worker.                                                             *)

\* A step of the worker leaves the office as it is.
LEMMA OfficeSideStays ==
  ASSUME KeysInv, UNCHANGED <<services, disk, memory, calls, called, mixed, owner>>
  PROVE  Owned' /\ Marked' /\ Tracked'
<1>1. /\ services' = services /\ disk' = disk /\ memory' = memory /\ calls' = calls
      /\ called' = called /\ mixed' = mixed /\ owner' = owner
  OBVIOUS
<1>2. Owned'
  BY <1>1 DEF KeysInv, Owned, Owns, Serving
<1>3. Marked'
  BY <1>1 DEF KeysInv, Marked, Serving
<1>4. ASSUME NEW t PROVE AtRest(t) => AtRest(t)'
  BY <1>1 DEF AtRest, Same, OneKey
<1>5. ASSUME NEW u PROVE Halfway(u) => Halfway(u)'
  BY <1>1 DEF Halfway, Before, AtRest, Same, OneKey
<1>6. Tracked'
  <2> SUFFICES ASSUME NEW t \in Services \ mixed
               PROVE  /\ Quiet(t)' => AtRest(t)'
                      /\ \A q \in Callers : Serving(q)' /\ calls'[q].of = t => Halfway(calls[q])'
                      /\ \A q \in Callers : Serving(q)' /\ calls'[q].of # t /\ Filing(calls'[q]) =>
                           Same(calls[q].file, memory, t)'
    BY <1>1 DEF Tracked
  <2>1. Quiet(t)' => AtRest(t)'
    BY <1>1, <1>4 DEF KeysInv, Tracked, Quiet, Serving
  <2>2. ASSUME NEW q \in Callers, Serving(q)', calls'[q].of = t PROVE Halfway(calls[q])'
    <3>1. PICK u : u = calls[q]
      OBVIOUS
    <3>2. Halfway(u)'
      BY <1>1, <1>5, <2>2, <3>1 DEF KeysInv, Tracked, Serving
    <3> QED
      BY <1>1, <3>1, <3>2
  <2>3. \A q \in Callers : Serving(q)' /\ calls'[q].of # t /\ Filing(calls'[q]) =>
          Same(calls[q].file, memory, t)'
    BY <1>1 DEF KeysInv, Tracked, Serving, Same
  <2> QED
    BY <2>1, <2>2, <2>3
<1> QED
  BY <1>2, <1>3, <1>6

\* What a worker puts together counts once nothing is left to fetch.
LEMMA GathersKeeps ==
  ASSUME KeysInv, NEW w, Gathers(w),
         w \in [step : {"fetching"}, of : Signature, keys : ProviderKeys,
                left : SUBSET Services, missed : SUBSET Services],
         Told(w.of), Gathered(w.keys, w.of, w.missed \cup w.left),
         \A t \in w.left, n, e \in BOOLEAN, ref \in Keys : <<t, n, ref, e>> \in w.of => ref # NoKey,
         faults' \in 0 .. MaxFaults,
         UNCHANGED <<services, disk, memory, calls, called, mixed, owner>>
  PROVE  KeysInv'
<1>1. /\ services' = services /\ disk' = disk /\ memory' = memory /\ calls' = calls
      /\ called' = called /\ mixed' = mixed /\ owner' = owner
  OBVIOUS
<1>2. /\ w.step = "fetching" /\ w.of \in Signature /\ w.keys \in ProviderKeys
      /\ w.left \in SUBSET Services /\ w.missed \in SUBSET Services
  OBVIOUS
<1>3. ASSUME NEW of PROVE Told(of) => Told(of)'
  BY <1>1 DEF Told, Owns, Serving
<1>4. ASSUME NEW keys, NEW of, NEW out, Gathered(keys, of, out) PROVE Gathered(keys, of, out)'
  <2> SUFFICES \A t \in Services \ (mixed' \cup out), n, e \in BOOLEAN, ref \in Keys :
                 <<t, n, ref, e>> \in of /\ e =>
                   /\ n => keys[t] = Named
                   /\ ~n /\ ref = NoKey => keys[t] = Keyless
                   /\ ref # NoKey /\ services'[t].ref = ref => keys[t] = memory'[ref]
    BY DEF Gathered
  <2> TAKE t \in Services \ (mixed' \cup out), n, e \in BOOLEAN, ref \in Keys
  <2>1. HAVE <<t, n, ref, e>> \in of /\ e
  <2>2. t \in Services \ (mixed \cup out)
    BY <1>1
  <2>3. /\ n => keys[t] = Named
        /\ ~n /\ ref = NoKey => keys[t] = Keyless
        /\ ref # NoKey /\ services[t].ref = ref => keys[t] = memory[ref]
    BY <1>4, <2>1, <2>2 DEF Gathered
  <2> QED
    BY <1>1, <2>3
<1>5. Resting.of = {} /\ Resting.left = {} /\ Resting.step = "resting"
  BY DEF Resting
<1>6. CASE w.left = {}
  <2>1. /\ providers' = [of |-> w.of, keys |-> w.keys] /\ missed' = w.missed
        /\ worker' = Resting
    BY <1>6 DEF Gathers
  <2>2. KeyTypes'
    <3>1. KeysTypeOK'
      BY <1>1, <1>2, <2>1 DEF KeysInv, KeyTypes, KeysTypeOK
    <3>2. providers' \in [of : Signature, keys : ProviderKeys]
      BY <1>2, <2>1
    <3>3. worker' \in [step : {"resting", "fetching"}, of : Signature, keys : ProviderKeys,
                       left : SUBSET Services, missed : SUBSET Services]
      <4>1. NoKeys \in ProviderKeys /\ {} \in Signature
        BY DEF NoKeys, ProviderKeys, Keys, Signature
      <4> QED
        BY <2>1, <4>1 DEF Resting
    <3>4. worker'.step = "fetching" => worker'.left # {}
      BY <1>5, <2>1
    <3> QED
      BY <1>1, <3>1, <3>2, <3>3, <3>4 DEF KeysInv, KeyTypes, Serving
  <2>3. Remembered'
    <3>1. PICK a : a = [of |-> w.of, keys |-> w.keys]
      OBVIOUS
    <3>2. PICK out : out = w.missed
      OBVIOUS
    <3>3. a.of = w.of /\ a.keys = w.keys
      BY <3>1
    <3>4. Told(a.of)' /\ Gathered(a.keys, a.of, out)'
      <4>1. Told(a.of) /\ Gathered(a.keys, a.of, out)
        BY <1>6, <3>2, <3>3 DEF Gathered
      <4> QED
        BY <1>3, <1>4, <4>1
    <3>5. PICK b : b = Resting
      OBVIOUS
    <3>6. Told(b.of)' /\ Gathered(b.keys, b.of, b.missed \cup b.left)'
      BY <1>5, <3>5 DEF Told, Gathered
    <3>7. providers' = a /\ missed' = out /\ worker' = b
      BY <2>1, <3>1, <3>2, <3>5
    <3> QED
      BY <1>5, <3>4, <3>5, <3>6, <3>7 DEF Remembered
  <2> QED
    BY <1>1, <2>2, <2>3, OfficeSideStays DEF KeysInv
<1>7. CASE w.left # {}
  <2>1. worker' = w /\ providers' = providers /\ missed' = missed
    BY <1>7 DEF Gathers
  <2>2. KeyTypes'
    <3>1. KeysTypeOK'
      BY <1>1, <1>2, <2>1 DEF KeysInv, KeyTypes, KeysTypeOK
    <3> QED
      BY <1>1, <1>7, <2>1, <3>1 DEF KeysInv, KeyTypes, Serving
  <2>3. Remembered'
    <3>1. PICK a : a = providers
      OBVIOUS
    <3>2. PICK out : out = missed
      OBVIOUS
    <3>3. Told(a.of)' /\ Gathered(a.keys, a.of, out)'
      BY <1>3, <1>4, <3>1, <3>2 DEF KeysInv, Remembered
    <3>4. Told(w.of)' /\ Gathered(w.keys, w.of, w.missed \cup w.left)'
      BY <1>3, <1>4
    <3> QED
      BY <2>1, <3>1, <3>2, <3>3, <3>4 DEF Remembered
  <2> QED
    BY <1>1, <2>2, <2>3, OfficeSideStays DEF KeysInv
<1> QED
  BY <1>6, <1>7

\* What a worker is told is what the services say.
LEMMA SignatureSays ==
  ASSUME KeysInv
  PROVE  /\ SignatureOf(services) \in Signature
         /\ \A s \in Services, n, e \in BOOLEAN, ref \in Keys :
              <<s, n, ref, e>> \in SignatureOf(services) =>
                /\ services[s].state = "kept" /\ services[s].named = n
                /\ services[s].ref = ref /\ services[s].enabled = e
<1>1. services \in [Services -> ServiceRecords]
  BY DEF KeysInv, KeyTypes, KeysTypeOK
<1>2. SignatureOf(services) \in Signature
  BY <1>1 DEF SignatureOf, KeptIn, Signature, ServiceRecords
<1>3. ASSUME NEW s \in Services, NEW n \in BOOLEAN, NEW e \in BOOLEAN, NEW ref \in Keys,
             <<s, n, ref, e>> \in SignatureOf(services)
      PROVE  /\ services[s].state = "kept" /\ services[s].named = n
             /\ services[s].ref = ref /\ services[s].enabled = e
  <2>1. PICK t \in KeptIn(services) :
          <<s, n, ref, e>> = <<t, services[t].named, services[t].ref, services[t].enabled>>
    BY <1>3 DEF SignatureOf
  <2>2. s = t
    BY <2>1
  <2> QED
    BY <2>1, <2>2 DEF KeptIn
<1> QED
  BY <1>2, <1>3

LEMMA ListServicesKeeps ==
  ASSUME KeysInv, ListServices
  PROVE  KeysInv'
<1>o. PICK on : on = {s \in KeptIn(services) : services[s].enabled}
  OBVIOUS
<1>k. PICK keys : keys = [s \in Services |->
                            IF s \notin on \/ services[s].ref # NoKey THEN NoKey
                            ELSE IF services[s].named THEN Named ELSE Keyless]
  OBVIOUS
<1>l. PICK left : left = {s \in on : services[s].ref # NoKey}
  OBVIOUS
<1>g. PICK of : of = SignatureOf(services)
  OBVIOUS
<1>w. PICK w : w = [step |-> "fetching", of |-> of, missed |-> {}, left |-> left, keys |-> keys]
  OBVIOUS
<1>1. Gathers(w) /\ UNCHANGED <<services, disk, memory, calls, called, faults, mixed, owner>>
  BY <1>o, <1>k, <1>l, <1>g, <1>w DEF ListServices
<1>2. /\ of \in Signature
      /\ \A s \in Services, n, e \in BOOLEAN, ref \in Keys : <<s, n, ref, e>> \in of =>
           /\ services[s].state = "kept" /\ services[s].named = n
           /\ services[s].ref = ref /\ services[s].enabled = e
  BY <1>g, SignatureSays
<1>3. keys \in ProviderKeys /\ left \subseteq Services
  BY <1>k, <1>l, <1>o DEF ProviderKeys, Keys, KeptIn
<1>4. /\ w \in [step : {"fetching"}, of : Signature, keys : ProviderKeys,
                left : SUBSET Services, missed : SUBSET Services]
      /\ w.of = of /\ w.keys = keys /\ w.left = left /\ w.missed = {}
  BY <1>w, <1>2, <1>3
<1>5. Told(of)
  <2>1. \A s \in Services : services[s].named => services[s].ref = NoKey
    BY DEF KeysInv, KeyTypes, KeysTypeOK
  <2> QED
    BY <1>2, <2>1, KeyOwners DEF Told
<1>6. Gathered(keys, of, left)
  <2> SUFFICES \A s \in Services \ (mixed \cup left), n, e \in BOOLEAN, ref \in Keys :
                 <<s, n, ref, e>> \in of /\ e =>
                   /\ n => keys[s] = Named
                   /\ ~n /\ ref = NoKey => keys[s] = Keyless
                   /\ ref # NoKey /\ services[s].ref = ref => keys[s] = memory[ref]
    BY DEF Gathered
  <2> TAKE s \in Services \ (mixed \cup left), n, e \in BOOLEAN, ref \in Keys
  <2>1. HAVE <<s, n, ref, e>> \in of /\ e
  <2>2. /\ services[s].state = "kept" /\ services[s].named = n
        /\ services[s].ref = ref /\ services[s].enabled = e
    BY <1>2, <2>1
  <2>3. s \in on
    BY <1>o, <2>1, <2>2 DEF KeptIn
  <2>4. ref = NoKey
    BY <1>l, <2>2, <2>3
  <2>5. keys[s] = IF services[s].named THEN Named ELSE Keyless
    BY <1>k, <2>2, <2>3, <2>4
  <2> QED
    BY <2>2, <2>4, <2>5
<1>7. \A s \in w.left, n, e \in BOOLEAN, ref \in Keys : <<s, n, ref, e>> \in w.of => ref # NoKey
  BY <1>l, <1>2, <1>3, <1>4
<1>8. faults' \in 0 .. MaxFaults
  BY <1>1 DEF KeysInv, KeyTypes, KeysTypeOK
<1>9. Gathered(w.keys, w.of, w.missed \cup w.left) /\ Told(w.of)
  <2>1. w.missed \cup w.left = left
    BY <1>4
  <2> QED
    BY <1>4, <1>5, <1>6, <2>1
<1> QED
  BY <1>1, <1>4, <1>7, <1>8, <1>9, GathersKeeps

\* The next service to fetch a key for is one of those left.
LEMMA NextToFetch ==
  ASSUME NEW ids, ids \subseteq Nat, ids # {}
  PROVE  (CHOOSE one \in ids : \A other \in ids : one <= other) \in ids
<1>1. IsWellFoundedOn(OpToRel(<, Nat), Nat)
  BY NatLessThanWellFounded
<1>2. PICK n \in ids : \A y \in Nat : <<y, n>> \in OpToRel(<, Nat) => ~(y \in ids)
  BY <1>1, WFMin
<1>3. ASSUME NEW k \in ids PROVE n <= k
  <2>1. n \in Nat /\ k \in Nat
    OBVIOUS
  <2>2. SUFFICES ASSUME k < n PROVE FALSE
    BY <2>1
  <2>3. <<k, n>> \in OpToRel(<, Nat)
    BY <2>1, <2>2 DEF OpToRel
  <2> QED
    BY <1>2, <2>1, <2>3
<1> QED
  BY <1>3

LEMMA FetchKeyKeeps ==
  ASSUME CredentialConstants, KeysInv, FetchKey
  PROVE  KeysInv'
<1>v. PICK v : v = worker
  OBVIOUS
<1>1. /\ v \in [step : {"resting", "fetching"}, of : Signature, keys : ProviderKeys,
                left : SUBSET Services, missed : SUBSET Services]
      /\ v.step = "fetching" /\ v.left # {}
      /\ Told(v.of) /\ Gathered(v.keys, v.of, v.missed \cup v.left)
      /\ \A t \in v.left, n, e \in BOOLEAN, ref \in Keys : <<t, n, ref, e>> \in v.of => ref # NoKey
  BY <1>v DEF FetchKey, KeysInv, KeyTypes, Remembered
<1>s. PICK s : s = CHOOSE one \in v.left : \A other \in v.left : one <= other
  OBVIOUS
<1>2. s \in v.left /\ s \in Services
  <2>1. v.left \subseteq Nat
    BY <1>1 DEF CredentialConstants
  <2> QED
    BY <1>1, <1>s, <2>1, NextToFetch
<1>c. PICK key : key = Credential(s)
  OBVIOUS
<1>w. PICK w : w = [v EXCEPT !.left = v.left \ {s}]
  OBVIOUS
<1>3. /\ \/ Gathers([w EXCEPT !.keys = [w.keys EXCEPT ![s] = key], !.missed = w.missed \ {s}]) /\ UNCHANGED faults
         \/ faults < MaxFaults /\ faults' = faults + 1 /\ Gathers([w EXCEPT !.missed = w.missed \cup {s}])
      /\ UNCHANGED <<services, disk, memory, calls, called, mixed, owner>>
  BY <1>v, <1>s, <1>c, <1>w DEF FetchKey
<1>4. faults' \in 0 .. MaxFaults
  BY <1>3 DEF KeysInv, KeyTypes, KeysTypeOK, CredentialConstants
<1>5. key \in Keys \cup {Named, Keyless}
  BY <1>2, <1>c, KeyOwners DEF Credential, Get, Files, Keys
<1>6. /\ w \in [step : {"fetching"}, of : Signature, keys : ProviderKeys,
                left : SUBSET Services, missed : SUBSET Services]
      /\ w.of = v.of /\ w.keys = v.keys /\ w.left = v.left \ {s} /\ w.missed = v.missed
  BY <1>1, <1>w
\* What the key is, as of now.
<1>7. ASSUME NEW ref \in Keys, ref # NoKey, services[s].ref = ref PROVE key = memory[ref]
  <2>1. services[s].state = "kept" /\ ~services[s].named
    BY <1>2, <1>7 DEF KeysInv, KeyTypes, KeysTypeOK, ServiceRecords, Owned
  <2> QED
    BY <1>7, <1>c, <2>1 DEF Credential, Get
<1>8. CASE /\ Gathers([w EXCEPT !.keys = [w.keys EXCEPT ![s] = key], !.missed = w.missed \ {s}])
           /\ UNCHANGED faults
  <2>k. PICK keys : keys = [w.keys EXCEPT ![s] = key]
    OBVIOUS
  <2>u. PICK u : u = [w EXCEPT !.keys = [w.keys EXCEPT ![s] = key], !.missed = w.missed \ {s}]
    OBVIOUS
  <2>1. keys \in ProviderKeys /\ keys[s] = key /\ \A t \in Services : t # s => keys[t] = w.keys[t]
    BY <1>2, <1>5, <1>6, <2>k DEF ProviderKeys
  <2>2. u = [w EXCEPT !.keys = keys, !.missed = w.missed \ {s}]
    BY <2>k, <2>u
  <2>3. /\ u \in [step : {"fetching"}, of : Signature, keys : ProviderKeys,
                  left : SUBSET Services, missed : SUBSET Services]
        /\ u.of = v.of /\ u.keys = keys /\ u.left = v.left \ {s} /\ u.missed = v.missed \ {s}
    BY <1>6, <2>1, <2>2
  <2>4. Gathered(u.keys, u.of, u.missed \cup u.left)
    <3> SUFFICES \A t \in Services \ (mixed \cup (u.missed \cup u.left)), n, e \in BOOLEAN, ref \in Keys :
                   <<t, n, ref, e>> \in u.of /\ e =>
                     /\ n => u.keys[t] = Named
                     /\ ~n /\ ref = NoKey => u.keys[t] = Keyless
                     /\ ref # NoKey /\ services[t].ref = ref => u.keys[t] = memory[ref]
      BY DEF Gathered
    <3> TAKE t \in Services \ (mixed \cup (u.missed \cup u.left)), n, e \in BOOLEAN, ref \in Keys
    <3>h. HAVE <<t, n, ref, e>> \in u.of /\ e
    <3>1. <<t, n, ref, e>> \in v.of /\ e
      BY <2>3, <3>h
    <3>2. CASE t # s
      <4>1. t \in Services \ (mixed \cup (v.missed \cup v.left))
        BY <2>3, <3>2
      <4>2. /\ n => v.keys[t] = Named
            /\ ~n /\ ref = NoKey => v.keys[t] = Keyless
            /\ ref # NoKey /\ services[t].ref = ref => v.keys[t] = memory[ref]
        BY <1>1, <3>1, <4>1 DEF Gathered
      <4> QED
        BY <1>6, <2>1, <2>3, <3>2, <4>2
    <3>3. CASE t = s
      <4>1. ref # NoKey
        BY <1>1, <1>2, <3>1, <3>3
      <4>2. ~n
        BY <1>1, <1>2, <3>1, <3>3, <4>1 DEF Told
      <4> QED
        BY <1>7, <2>1, <2>3, <3>3, <4>1, <4>2
    <3> QED
      BY <3>2, <3>3
  <2>5. \A t \in u.left, n, e \in BOOLEAN, ref \in Keys : <<t, n, ref, e>> \in u.of => ref # NoKey
    BY <1>1, <2>3
  <2>6. Told(u.of) /\ Gathers(u)
    BY <1>1, <1>8, <2>3, <2>u
  <2> QED
    BY <1>3, <1>4, <2>3, <2>4, <2>5, <2>6, GathersKeeps
<1>9. CASE Gathers([w EXCEPT !.missed = w.missed \cup {s}])
  <2>u. PICK u : u = [w EXCEPT !.missed = w.missed \cup {s}]
    OBVIOUS
  <2>1. /\ u \in [step : {"fetching"}, of : Signature, keys : ProviderKeys,
                  left : SUBSET Services, missed : SUBSET Services]
        /\ u.of = v.of /\ u.keys = v.keys /\ u.left = v.left \ {s} /\ u.missed = v.missed \cup {s}
    BY <1>2, <1>6, <2>u
  <2>2. u.missed \cup u.left = v.missed \cup v.left
    BY <1>2, <2>1
  <2>3. \A t \in u.left, n, e \in BOOLEAN, ref \in Keys : <<t, n, ref, e>> \in u.of => ref # NoKey
    BY <1>1, <2>1
  <2>4. Told(u.of) /\ Gathered(u.keys, u.of, u.missed \cup u.left) /\ Gathers(u)
    BY <1>1, <1>9, <2>1, <2>2, <2>u
  <2> QED
    BY <1>3, <1>4, <2>1, <2>3, <2>4, GathersKeeps
<1> QED
  BY <1>3, <1>8, <1>9

-------------------------------------------------------------------------------
(* All of it.                                                              *)

LEMMA KeysStartRight ==
  ASSUME CredentialConstants, KeysInit
  PROVE  KeysInv
<1>1. /\ services = [s \in Services |-> [state |-> IF s \in Made THEN "kept" ELSE "unmade",
                                         ref |-> NoKey, named |-> FALSE, enabled |-> TRUE]]
      /\ disk = [r \in Refs |-> NoKey] /\ memory = disk /\ calls = [r \in Callers |-> Done]
      /\ called = 0 /\ faults = 0 /\ worker = Resting
      /\ providers = [of |-> {}, keys |-> NoKeys]
      /\ mixed = {} /\ missed = {} /\ owner = [r \in Refs |-> NoKey]
  BY DEF KeysInit
<1>2. \A r \in Callers : calls[r] = Done /\ ~Serving(r)
  BY <1>1 DEF Serving, Done
<1>3. MaxCalls \in Nat /\ MaxFaults \in Nat /\ NoKey \in Keys /\ NoKey \notin Refs /\ NoKey \notin Services
  BY DEF CredentialConstants, Keys, Refs, NoKey
<1>4. NoKeys \in ProviderKeys /\ {} \in Signature
  BY DEF NoKeys, ProviderKeys, Keys, Signature
<1>5. KeyTypes
  <2>1. KeysTypeOK
    BY <1>1, <1>3 DEF KeysTypeOK, ServiceRecords
  <2>2. worker \in [step : {"resting", "fetching"}, of : Signature, keys : ProviderKeys,
                    left : SUBSET Services, missed : SUBSET Services]
    BY <1>1, <1>4 DEF Resting
  <2>3. worker.step = "resting"
    BY <1>1 DEF Resting
  <2> QED
    BY <1>1, <1>2, <1>4, <2>1, <2>2, <2>3 DEF KeyTypes
<1>6. Owned
  BY <1>1, <1>2, <1>3 DEF Owned, Owns
<1>7. Marked
  BY <1>2 DEF Marked
<1>8. Tracked
  BY <1>1, <1>2, <1>3 DEF Tracked, AtRest, Same, OneKey
<1>9. Remembered
  <2>1. worker.of = {} /\ worker.left = {} /\ providers.of = {}
    BY <1>1 DEF Resting
  <2> QED
    BY <2>1 DEF Remembered, Told, Gathered
<1> QED
  BY <1>5, <1>6, <1>7, <1>8, <1>9 DEF KeysInv

LEMMA KeysStay ==
  ASSUME KeysInv, UNCHANGED credentialVars
  PROVE  KeysInv'
<1>1. /\ services' = services /\ disk' = disk /\ memory' = memory /\ calls' = calls
      /\ called' = called /\ mixed' = mixed /\ owner' = owner /\ faults' = faults
      /\ worker' = worker /\ providers' = providers /\ missed' = missed
  BY DEF credentialVars
<1>2. KeyTypes'
  <2>1. KeysTypeOK'
    BY <1>1 DEF KeysInv, KeyTypes, KeysTypeOK
  <2> QED
    BY <1>1, <2>1 DEF KeysInv, KeyTypes, Serving
<1>3. ASSUME NEW keys, NEW of, NEW out, Gathered(keys, of, out) PROVE Gathered(keys, of, out)'
  <2> SUFFICES \A t \in Services \ (mixed' \cup out), n, e \in BOOLEAN, ref \in Keys :
                 <<t, n, ref, e>> \in of /\ e =>
                   /\ n => keys[t] = Named
                   /\ ~n /\ ref = NoKey => keys[t] = Keyless
                   /\ ref # NoKey /\ services'[t].ref = ref => keys[t] = memory'[ref]
    BY DEF Gathered
  <2> TAKE t \in Services \ (mixed' \cup out), n, e \in BOOLEAN, ref \in Keys
  <2>1. HAVE <<t, n, ref, e>> \in of /\ e
  <2>2. t \in Services \ (mixed \cup out)
    BY <1>1
  <2>3. /\ n => keys[t] = Named
        /\ ~n /\ ref = NoKey => keys[t] = Keyless
        /\ ref # NoKey /\ services[t].ref = ref => keys[t] = memory[ref]
    BY <1>3, <2>1, <2>2 DEF Gathered
  <2> QED
    BY <1>1, <2>3
<1>4. ASSUME NEW of PROVE Told(of) => Told(of)'
  BY <1>1 DEF Told, Owns, Serving
<1>5. Remembered'
  <2>1. PICK a : a = worker
    OBVIOUS
  <2>2. PICK b : b = providers
    OBVIOUS
  <2>3. PICK out : out = missed
    OBVIOUS
  <2>4. /\ Told(a.of)' /\ Gathered(a.keys, a.of, a.missed \cup a.left)'
        /\ Told(b.of)' /\ Gathered(b.keys, b.of, out)'
    BY <1>3, <1>4, <2>1, <2>2, <2>3 DEF KeysInv, Remembered
  <2>5. \A t \in worker'.left, n, e \in BOOLEAN, ref \in Keys :
          <<t, n, ref, e>> \in worker'.of => ref # NoKey
    BY <1>1 DEF KeysInv, Remembered
  <2> QED
    BY <1>1, <2>1, <2>2, <2>3, <2>4, <2>5 DEF Remembered
<1> QED
  BY <1>1, <1>2, <1>5, OfficeSideStays DEF KeysInv

LEMMA KeysNextKeeps ==
  ASSUME CredentialConstants, KeysInv, [KeysNext]_credentialVars
  PROVE  KeysInv'
<1>1. CASE Reopen
  BY <1>1, ReopenKeeps
<1>2. CASE ListServices
  BY <1>2, ListServicesKeeps
<1>3. CASE FetchKey
  BY <1>3, FetchKeyKeeps
<1>4. ASSUME NEW s \in Services, NEW named \in BOOLEAN, CreateService(s, named) PROVE KeysInv'
  BY <1>4, CreateServiceKeeps
<1>5. ASSUME NEW r \in Callers, NEW s \in Services,
             \/ ChangeService(r, s)
             \/ DiscoverModels(r, s)
             \/ PasteKey(r, s)
             \/ NameVariable(r, s)
             \/ ForgetKey(r, s)
      PROVE  KeysInv'
  BY <1>5, ChangeServiceKeeps, DiscoverModelsKeeps, PasteKeyKeeps, NameVariableKeeps, ForgetKeyKeeps
<1>6. ASSUME NEW r \in Callers,
             \/ DiscoverFails(r)
             \/ SaveFile(r)
             \/ KeepFile(r)
             \/ WriteService(r)
             \/ RemoveService(r)
      PROVE  KeysInv'
  BY <1>6, DiscoverFailsKeeps, SaveFileKeeps, KeepFileKeeps, WriteServiceKeeps, RemoveServiceKeeps
<1>7. CASE UNCHANGED credentialVars
  BY <1>7, KeysStay
<1> QED
  BY <1>1, <1>2, <1>3, <1>4, <1>5, <1>6, <1>7 DEF KeysNext

\* Every key of a service that one request at a time works on is where that request
\* has got to with it (server.ts, vault.ts).
THEOREM KeysInvariance ==
  ASSUME CredentialConstants
  PROVE  KeysSpec => []KeysInv
<1>1. KeysInit => KeysInv
  BY KeysStartRight
<1>2. KeysInv /\ [KeysNext]_credentialVars => KeysInv'
  BY KeysNextKeeps
<1> QED
  BY <1>1, <1>2, PTL DEF KeysSpec

\* However many services, requests and stops of the server there are: a key a service
\* says it has opens, none is kept that nobody names, and a worker calls every service
\* with what the office has for it (server.ts, vault.ts, office-providers.ts).
THEOREM KeysAreInOrder ==
  ASSUME CredentialConstants
  PROVE  KeysSpec => []KeysFit
<1>1. KeysInv => KeysFit
  <2> SUFFICES ASSUME KeysInv PROVE KeysFit
    OBVIOUS
  <2>1. ASSUME NEW s \in Services, OneKey(memory, s, services[s].ref), services[s].ref # NoKey
        PROVE  Has(services[s].ref)
    <3>1. services[s].ref \in Refs /\ owner[services[s].ref] = s
      BY <2>1, KeyOwners DEF Owns
    <3> QED
      BY <2>1, <3>1 DEF OneKey, Has
  <2>2. HeldKeysOpen
    <3> SUFFICES ASSUME NEW s \in Services \ mixed, services[s].ref # NoKey
                 PROVE  \/ Has(services[s].ref)
                        \/ \E r \in Callers : Serving(r) /\ calls[r].of = s /\ ~calls[r].copy.named
                                                        /\ calls[r].copy.ref = NoKey
      BY DEF HeldKeysOpen
    <3>1. CASE Quiet(s)
      BY <2>1, <3>1 DEF KeysInv, Tracked, AtRest
    <3>2. CASE ~Quiet(s)
      <4>1. PICK r \in Callers : Serving(r) /\ calls[r].of = s
        BY <3>2 DEF Quiet
      <4>2. PICK w : w = calls[r]
        OBVIOUS
      <4>3. Halfway(w) /\ w.of = s /\ w \in CallRecords
        BY <4>1, <4>2, CallTypes DEF KeysInv, Tracked
      <4>4. Dropping(w) => Filing(w)
        BY <4>3, Todo
      <4>5. CASE Filing(w)
        <5>1. ~Dropping(w) /\ OneKey(memory, s, services[s].ref)
          BY <4>3, <4>5 DEF Halfway, Before
        <5> QED
          BY <2>1, <5>1
      <4>6. CASE ~Filing(w) /\ w.file = NoFile
        <5>1. OneKey(memory, s, services[s].ref)
          BY <4>3, <4>6 DEF Halfway, AtRest
        <5> QED
          BY <2>1, <5>1
      <4>7. CASE ~Filing(w) /\ w.file # NoFile
        <5>1. /\ OneKey(memory, s, w.copy.ref)
              /\ services[s].ref = w.copy.ref \/ (w.copy.ref = NoKey /\ ~w.copy.named)
          BY <4>3, <4>4, <4>7 DEF Halfway
        <5> QED
          BY <2>1, <4>1, <4>2, <5>1
      <4> QED
        BY <4>5, <4>6, <4>7
    <3> QED
      BY <3>1, <3>2
  <2>3. NoStrayKeys
    <3> SUFFICES ASSUME NEW ref \in Refs, memory[ref] # NoKey, owner[ref] \notin mixed,
                        ~WorkedOn(owner[ref])
                 PROVE  services[owner[ref]].state = "kept" /\ services[owner[ref]].ref = ref
      BY DEF NoStrayKeys
    <3>1. PICK s : s = owner[ref]
      OBVIOUS
    <3>2. s \in Services \ mixed
      BY <3>1, KeyOwners DEF KeysInv, KeyTypes
    <3>3. Quiet(s)
      BY <3>1 DEF WorkedOn, Quiet
    <3>4. services[s].ref = ref
      BY <3>1, <3>2, <3>3 DEF KeysInv, Tracked, AtRest, OneKey
    <3>5. ref # NoKey
      BY DEF Refs, NoKey
    <3> QED
      BY <3>1, <3>2, <3>4, <3>5 DEF KeysInv, Owned
  <2>4. FollowsTheOffice
    <3> SUFFICES ASSUME providers.of = SignatureOf(services),
                        NEW s \in KeptIn(services) \ (mixed \cup missed), services[s].enabled
                 PROVE  providers.keys[s] = IF services[s].ref = NoKey /\ ~services[s].named
                                              THEN Keyless ELSE Credential(s)
      BY DEF FollowsTheOffice
    <3>n. PICK n : n = services[s].named
      OBVIOUS
    <3>r. PICK ref : ref = services[s].ref
      OBVIOUS
    <3>1. s \in Services \ (mixed \cup missed) /\ services[s].state = "kept" /\ services[s] \in ServiceRecords
      BY KeyOwners DEF KeptIn
    <3>2. n \in BOOLEAN /\ ref \in Keys /\ TRUE \in BOOLEAN /\ services[s].enabled = TRUE
      BY <3>1, <3>n, <3>r DEF ServiceRecords
    <3>3. <<s, n, ref, TRUE>> \in providers.of
      BY <3>1, <3>2, <3>n, <3>r DEF SignatureOf, KeptIn
    <3>4. /\ n => providers.keys[s] = Named
          /\ ~n /\ ref = NoKey => providers.keys[s] = Keyless
          /\ ref # NoKey => providers.keys[s] = memory[ref]
      BY <3>1, <3>2, <3>3, <3>r DEF KeysInv, Remembered, Gathered
    <3> QED
      BY <3>1, <3>4, <3>n, <3>r DEF Credential, Get
  <2> QED
    BY <2>2, <2>3, <2>4 DEF KeysFit, KeysInv, KeyTypes
<1> QED
  BY <1>1, KeysInvariance, PTL

-------------------------------------------------------------------------------
(* Trays, whoever files, removes, lists and carries documents at once.     *)
(*                                                                         *)
(* An id is given out once.  It is known as soon as nobody is filing it    *)
(* any more, and what is known of a document only ever comes true again    *)
(* or is gone: its row stays as it is or is taken away, and no new row     *)
(* takes its place.  What a request remembers is about known documents, so *)
(* whatever the others do it remembers rightly.                            *)

Known == {id \in drawn : \A r \in Handlers : filing[r].op = "file" => filing[r].id # id}

\* What one request is in the middle of, against the rows.
Recalled(w) ==
  /\ w.op \in {"remove", "count", "body"} => {w.id, w.ref} \subseteq Known
  /\ w.op = "remove" => (w.id \in Held => rows[w.id].ref = w.ref)
  /\ w.op = "body" => RowsNaming(w.ref) \subseteq late
  /\ w.op = "paste" =>
       {w.from, w.ref} \subseteq Known /\ (w.from \in Held => rows[w.from].ref = w.ref)

\* Its list is of known documents, each once; whatever was in the tray all along is
\* on it or behind the cursor, and what is on it is not behind the cursor.
Listed(w) ==
  w.op \in {"list", "listed"} =>
    /\ w.due \cup ToSet(w.found) \subseteq Known
    /\ IsInjective(w.found)
    /\ \A id \in w.due \cap Held : rows[id].tray = w.tray
    /\ w.op = "list" =>
         /\ w.due \cap Held \subseteq ToSet(w.found) \cup Behind(w.tray, w.cursor)
         /\ ToSet(w.found) \cap Behind(w.tray, w.cursor) = {}
    /\ w.op = "listed" => w.due \cap Held \subseteq ToSet(w.found)

\* The body of a document being filed is there and nobody else is filing it.
FiledOnce ==
  \A r \in Handlers : filing[r].op = "file" =>
    /\ filing[r].id \in bodies /\ filing[r].row.ref = filing[r].id
    /\ \A q \in Handlers : filing[q].op = "file" /\ filing[q].id = filing[r].id => q = r

RowsKnown == \A id \in Held : {id, rows[id].ref} \subseteq Known

DocumentsInv ==
  /\ DocumentsTypeOK /\ FiledOnce /\ RowsKnown
  /\ \A r \in Handlers : Recalled(filing[r]) /\ Listed(filing[r])
  /\ BrokenOnlyInFlight /\ NothingWasted

\* What every step leaves of what was known.
StillKnown ==
  /\ Known \subseteq Known'
  /\ \A id \in Known : rows'[id] \in {rows[id], NoRow}
  /\ late \subseteq late'
  /\ \A id \in Held' \ late' :
       \/ rows'[id].ref \notin Known
       \/ \E source \in Held \ late : rows[source].ref = rows'[id].ref

LEMMA RowsFit ==
  ASSUME DocumentsTypeOK, NEW id \in Held
  PROVE  /\ id \in DocumentIds /\ rows[id] \in Row
         /\ rows[id].tray \in Trays /\ rows[id].ref \in DocumentIds
         /\ rows[id].at \in ToSet(Arrivals)
BY DEF DocumentsTypeOK, Held, Row

LEMMA InstantsAreNumbers ==
  ASSUME DocumentConstants PROVE ToSet(Arrivals) \subseteq Nat
BY DEF DocumentConstants, ToSet

LEMMA NowIsAnInstant ==
  ASSUME DocumentConstants, DocumentsTypeOK, NEW id \in DocumentIds \ drawn
  PROVE  Now \in ToSet(Arrivals)
<1>1. IsFiniteSet(DocumentIds) /\ drawn \subseteq DocumentIds
  BY DEF DocumentConstants, DocumentsTypeOK
<1>2. IsFiniteSet(drawn) /\ Cardinality(drawn) \in Nat
  BY <1>1, FS_Subset, FS_CardinalityType
<1>3. Cardinality(drawn \cup {id}) = Cardinality(drawn) + 1
  BY <1>2, FS_AddElement
<1>4. Cardinality(drawn \cup {id}) <= Cardinality(DocumentIds)
  BY <1>1, FS_Subset
<1>5. Cardinality(DocumentIds) \in Nat /\ Cardinality(DocumentIds) <= Len(Arrivals)
      /\ Len(Arrivals) \in Nat /\ DOMAIN Arrivals = 1 .. Len(Arrivals)
  BY <1>1, FS_CardinalityType DEF DocumentConstants
<1>6. Cardinality(drawn) + 1 \in 1 .. Len(Arrivals)
  BY <1>2, <1>3, <1>4, <1>5
<1> QED
  BY <1>5, <1>6 DEF Now, ToSet

\* Of what kind a request's work is, by its operation.
LEMMA WorkKinds ==
  ASSUME DocumentsTypeOK, NEW r \in Handlers
  PROVE  /\ filing[r].op = "file" => filing[r] \in Filings
         /\ filing[r].op \in {"remove", "count", "body"} => filing[r] \in Removals
         /\ filing[r].op \in {"list", "listed"} => filing[r] \in Listings
         /\ filing[r].op = "copy" => filing[r] \in Carryings
         /\ filing[r].op = "paste" => filing[r] \in Pastes
BY DEF DocumentsTypeOK, Handling, Free, Filings, Removals, Listings, Carryings, Pastes

\* Remembering is about known documents: a step that leaves what was known leaves
\* what is remembered.
LEMMA RecalledStays ==
  ASSUME NEW w, Recalled(w), StillKnown, RowsKnown,
         Known \subseteq DocumentIds
  PROVE  Recalled(w)'
<1>1. \A id \in Known : id \in Held' => id \in Held /\ rows'[id] = rows[id]
  BY DEF StillKnown, Held
<1>2. ASSUME w.op = "body" PROVE RowsNaming(w.ref)' \subseteq late'
  <2> SUFFICES ASSUME NEW id \in Held', rows'[id].ref = w.ref, id \notin late' PROVE FALSE
    BY DEF RowsNaming
  <2>1. w.ref \in Known /\ RowsNaming(w.ref) \subseteq late
    BY <1>2 DEF Recalled
  <2>2. PICK source \in Held \ late : rows[source].ref = w.ref
    BY <2>1 DEF StillKnown
  <2> QED
    BY <2>1, <2>2 DEF RowsNaming
<1>3. Known \subseteq Known'
  BY DEF StillKnown
<1> QED
  BY <1>1, <1>2, <1>3 DEF Recalled

LEMMA ListedStays ==
  ASSUME NEW w, Listed(w), StillKnown, Known \subseteq DocumentIds
  PROVE  Listed(w)'
<1>1. \A id \in Known : id \in Held' => id \in Held /\ rows'[id] = rows[id]
  BY DEF StillKnown, Held
<1>2. Known \subseteq Known'
  BY DEF StillKnown
<1>3. SUFFICES ASSUME w.op \in {"list", "listed"} PROVE Listed(w)'
  BY DEF Listed
<1>4. w.due \cup ToSet(w.found) \subseteq Known /\ IsInjective(w.found)
  BY <1>3 DEF Listed
<1>5. \A id \in Known : id \in Behind(w.tray, w.cursor)' => id \in Behind(w.tray, w.cursor)
  BY <1>1 DEF Behind, InTray
<1>6. \A id \in Known : id \in Held' /\ id \in Behind(w.tray, w.cursor) => id \in Behind(w.tray, w.cursor)'
  BY <1>1 DEF Behind, InTray
<1>7. \A id \in w.due \cap Held' : id \in Held /\ rows'[id] = rows[id]
  BY <1>1, <1>4
<1>8. \A id \in w.due \cap Held' : rows'[id].tray = w.tray
  BY <1>7, <1>3 DEF Listed
<1>9. ASSUME w.op = "list"
      PROVE  /\ w.due \cap Held' \subseteq ToSet(w.found) \cup Behind(w.tray, w.cursor)'
             /\ ToSet(w.found) \cap Behind(w.tray, w.cursor)' = {}
  BY <1>9, <1>4, <1>5, <1>6, <1>7, <1>3 DEF Listed
<1>10. ASSUME w.op = "listed" PROVE w.due \cap Held' \subseteq ToSet(w.found)
  BY <1>10, <1>7, <1>3 DEF Listed
<1> QED
  BY <1>2, <1>4, <1>8, <1>9, <1>10 DEF Listed


\* The requests a step does not concern remember on.
LEMMA OthersStay ==
  ASSUME DocumentsInv, DocumentsTypeOK', StillKnown, NEW r \in Handlers, NEW w, Proceeds(r, w),
         Recalled(w)', Listed(w)'
  PROVE  \A q \in Handlers : Recalled(filing[q])' /\ Listed(filing[q])'
<1>1. Known \subseteq DocumentIds
  BY DEF Known, DocumentsInv, DocumentsTypeOK
<1> TAKE q \in Handlers
<1>2. CASE q = r
  <2>1. filing'[q] = w
    BY <1>2 DEF Proceeds, DocumentsInv, DocumentsTypeOK
  <2> QED
    BY <2>1 DEF Recalled, Listed
<1>3. CASE q # r
  <2> PICK v : v = filing[q]
    OBVIOUS
  <2>1. filing'[q] = v
    BY <1>3 DEF Proceeds, DocumentsInv, DocumentsTypeOK
  <2>2. Recalled(v) /\ Listed(v) /\ RowsKnown
    BY DEF DocumentsInv
  <2>3. Recalled(v)' /\ Listed(v)'
    BY <2>2, <1>1, RecalledStays, ListedStays
  <2> QED
    BY <2>1, <2>3 DEF Recalled, Listed
<1> QED
  BY <1>2, <1>3

\* A request that files nothing goes on: what is known stays.
LEMMA SameKnown ==
  ASSUME DocumentsTypeOK, FiledOnce, NEW r \in Handlers, NEW w, Proceeds(r, w),
         filing[r].op # "file", w.op # "file", drawn' = drawn
  PROVE  /\ Known' = Known
         /\ \A q \in Handlers : filing'[q].op = "file" => filing[q] = filing'[q] /\ q # r
         /\ (bodies \subseteq bodies' => FiledOnce')
<1>1. \A q \in Handlers : filing'[q] = IF q = r THEN w ELSE filing[q]
  BY DEF Proceeds, DocumentsTypeOK
<1>2. Known' = Known
  BY <1>1 DEF Known
<1>3. ASSUME bodies \subseteq bodies' PROVE FiledOnce'
  BY <1>1, <1>3 DEF FiledOnce
<1> QED
  BY <1>1, <1>2, <1>3

\* A step that writes nothing.
LEMMA UnwrittenStep ==
  ASSUME DocumentsInv, NEW r \in Handlers, NEW w \in Handling, Proceeds(r, w),
         UNCHANGED <<rows, bodies, drawn, filingStops, late>>,
         filing[r].op # "file", w.op # "file", Recalled(w), Listed(w),
         filing[r].op \in {"count", "body"} =>
           \/ RowsNaming(filing[r].ref) # {}
           \/ w.op \in {"count", "body"} /\ w.ref = filing[r].ref
  PROVE  DocumentsInv'
<1>0. DocumentsTypeOK /\ FiledOnce /\ RowsKnown /\ BrokenOnlyInFlight /\ NothingWasted
  BY DEF DocumentsInv
<1>1. Held' = Held /\ \A ref : RowsNaming(ref)' = RowsNaming(ref)
  BY DEF Held, RowsNaming
<1>2. \A q \in Handlers : filing'[q] = IF q = r THEN w ELSE filing[q]
  BY <1>0 DEF Proceeds, DocumentsTypeOK
<1>3. DocumentsTypeOK'
  BY <1>0, <1>1 DEF Proceeds, DocumentsTypeOK, Handling
<1>4. Known' = Known /\ FiledOnce'
  BY <1>0, SameKnown
<1>5. RowsKnown' /\ BrokenOnlyInFlight'
  BY <1>0, <1>1, <1>4 DEF RowsKnown, BrokenOnlyInFlight
<1>6. StillKnown
  BY <1>4, <1>1 DEF StillKnown
<1>7. Known \subseteq DocumentIds
  BY <1>0 DEF Known, DocumentsTypeOK
<1>8. Recalled(w)' /\ Listed(w)'
  BY <1>0, <1>6, <1>7, RecalledStays, ListedStays
<1>9. \A q \in Handlers : Recalled(filing[q])' /\ Listed(filing[q])'
  BY <1>3, <1>6, <1>8, OthersStay
<1>10. NothingWasted'
  <2> SUFFICES ASSUME filingStops = 0, NEW ref \in bodies, RowsNaming(ref) = {}
               PROVE  \E q \in Handlers : \/ filing'[q].op = "file" /\ filing'[q].id = ref
                                          \/ filing'[q].op \in {"count", "body"} /\ filing'[q].ref = ref
    BY <1>1 DEF NothingWasted
  <2>1. PICK q \in Handlers : \/ filing[q].op = "file" /\ filing[q].id = ref
                              \/ filing[q].op \in {"count", "body"} /\ filing[q].ref = ref
    BY <1>0 DEF NothingWasted
  <2>2. CASE q = r
    BY <2>1, <2>2, <1>2
  <2>3. CASE q # r
    BY <2>1, <2>3, <1>2
  <2> QED
    BY <2>2, <2>3
<1> QED
  BY <1>3, <1>4, <1>5, <1>9, <1>10 DEF DocumentsInv

LEMMA RemoveReadStep ==
  ASSUME DocumentsInv, NEW r \in Handlers, NEW id \in DocumentIds, RemoveRead(r, id)
  PROVE  DocumentsInv'
<1>0. DocumentsTypeOK /\ RowsKnown
  BY DEF DocumentsInv
<1> PICK w : w = [op |-> "remove", id |-> id, ref |-> rows[id].ref]
  OBVIOUS
<1>1. id \in Held /\ filing[r] = Free /\ Proceeds(r, w) /\ filing[r].op = "nothing"
      /\ UNCHANGED <<rows, bodies, drawn, filingStops, late>>
  BY DEF RemoveRead, Free
<1>2. w \in Handling /\ w.op = "remove"
  BY <1>0, <1>1, RowsFit DEF Handling, Removals
<1>3. Recalled(w) /\ Listed(w)
  BY <1>0, <1>1, <1>2 DEF Recalled, Listed, RowsKnown
<1> QED
  BY <1>1, <1>2, <1>3, UnwrittenStep

LEMMA RemoveCountStep ==
  ASSUME DocumentsInv, NEW r \in Handlers, RemoveCount(r) PROVE DocumentsInv'
<1>0. DocumentsTypeOK /\ filing[r].op = "count" /\ filing[r] \in Removals /\ Recalled(filing[r])
      /\ UNCHANGED <<rows, bodies, drawn, filingStops, late>>
  BY WorkKinds DEF DocumentsInv, RemoveCount
<1>1. CASE RowsNaming(filing[r].ref) = {}
  <2> PICK w : w = [filing[r] EXCEPT !.op = "body"]
    OBVIOUS
  <2>1. /\ w \in Handling /\ w.op = "body" /\ w.ref = filing[r].ref /\ w.id = filing[r].id
        /\ Proceeds(r, w)
    BY <1>0, <1>1 DEF Handling, Removals, RemoveCount
  <2>2. Recalled(w) /\ Listed(w)
    BY <1>0, <1>1, <2>1 DEF Recalled, Listed
  <2> QED
    BY <1>0, <2>1, <2>2, UnwrittenStep
<1>2. CASE RowsNaming(filing[r].ref) # {}
  <2>1. Proceeds(r, Free) /\ Free \in Handling /\ Free.op = "nothing"
    BY <1>2 DEF RemoveCount, Handling, Free
  <2>2. Recalled(Free) /\ Listed(Free)
    BY <2>1 DEF Recalled, Listed
  <2> QED
    BY <1>0, <1>2, <2>1, <2>2, UnwrittenStep
<1> QED
  BY <1>1, <1>2

LEMMA ListStartStep ==
  ASSUME DocumentsInv, NEW r \in Handlers, NEW tray \in Trays, NEW to \in Trays,
         ListStart(r, tray, to)
  PROVE  DocumentsInv'
<1>0. DocumentsTypeOK /\ RowsKnown
  BY DEF DocumentsInv
<1> PICK w : w = [op |-> "list", tray |-> tray, to |-> to, cursor |-> << >>, found |-> << >>,
                  due |-> InTray(tray)]
  OBVIOUS
<1>1. Proceeds(r, w) /\ filing[r].op = "nothing"
      /\ UNCHANGED <<rows, bodies, drawn, filingStops, late>>
  BY DEF ListStart, Free
<1>2. w \in Handling
  BY DEF Handling, Listings, Cursor, InTray, Held
<1>3. ToSet(<< >>) = {} /\ IsInjective(<< >>)
  BY DEF ToSet, IsInjective
<1>4. Behind(tray, << >>) = InTray(tray)
  BY DEF Behind
<1>5. InTray(tray) \subseteq Known /\ \A id \in InTray(tray) : rows[id].tray = tray
  BY <1>0 DEF InTray, RowsKnown
<1>6. Recalled(w) /\ Listed(w)
  BY <1>3, <1>4, <1>5 DEF Recalled, Listed
<1> QED
  BY <1>1, <1>2, <1>6, UnwrittenStep

LEMMA ListEndStep ==
  ASSUME DocumentsInv, NEW r \in Handlers, ListEnd(r) PROVE DocumentsInv'
<1>0. DocumentsTypeOK /\ filing[r].op = "listed" /\ filing[r] \in Listings
      /\ UNCHANGED <<rows, bodies, drawn, filingStops, late>>
  BY WorkKinds DEF DocumentsInv, ListEnd
<1> PICK w : w = IF filing[r].to = filing[r].tray THEN Free
                 ELSE [op |-> "copy", to |-> filing[r].to, todo |-> filing[r].found]
  OBVIOUS
<1>1. Proceeds(r, w)
  BY DEF ListEnd
<1>2. w \in Handling /\ w.op \in {"nothing", "copy"}
  BY <1>0 DEF Handling, Listings, Carryings, Free
<1>3. Recalled(w) /\ Listed(w)
  BY <1>2 DEF Recalled, Listed
<1> QED
  BY <1>0, <1>1, <1>2, <1>3, UnwrittenStep

LEMMA CopyReadStep ==
  ASSUME DocumentsInv, NEW r \in Handlers, CopyRead(r) PROVE DocumentsInv'
<1>0. DocumentsTypeOK /\ RowsKnown /\ filing[r].op = "copy" /\ filing[r] \in Carryings
      /\ UNCHANGED <<rows, bodies, drawn, filingStops, late>>
  BY WorkKinds DEF DocumentsInv, CopyRead
<1>1. CASE filing[r].todo = << >>
  <2>1. Proceeds(r, Free) /\ Free \in Handling /\ Free.op = "nothing"
    BY <1>1 DEF CopyRead, Handling, Free
  <2>2. Recalled(Free) /\ Listed(Free)
    BY <2>1 DEF Recalled, Listed
  <2> QED
    BY <1>0, <2>1, <2>2, UnwrittenStep
<1>2. CASE filing[r].todo # << >>
  <2> PICK todo \in Seq(DocumentIds), to \in Trays :
         filing[r] = [op |-> "copy", to |-> to, todo |-> todo]
    BY <1>0 DEF Carryings
  <2> PICK id, rest : id = Head(todo) /\ rest = Tail(todo)
    OBVIOUS
  <2>1. rest \in Seq(DocumentIds) /\ id \in DocumentIds
    BY <1>2, HeadTailProperties
  <2>2. CASE id \in Held
    <3> PICK w : w = [op |-> "paste", to |-> to, todo |-> rest, from |-> id, ref |-> rows[id].ref]
      OBVIOUS
    <3>1. Proceeds(r, w)
      BY <1>2, <2>2 DEF CopyRead
    <3>2. w \in Handling /\ w.op = "paste"
      BY <1>0, <2>1, <2>2, RowsFit DEF Handling, Pastes
    <3>3. Recalled(w) /\ Listed(w)
      BY <1>0, <2>2 DEF Recalled, Listed, RowsKnown
    <3> QED
      BY <1>0, <3>1, <3>2, <3>3, UnwrittenStep
  <2>3. CASE id \notin Held
    <3> PICK w : w = [op |-> "copy", to |-> to, todo |-> rest]
      OBVIOUS
    <3>1. Proceeds(r, w)
      BY <1>2, <2>3 DEF CopyRead
    <3>2. w \in Handling /\ w.op = "copy"
      BY <2>1 DEF Handling, Carryings
    <3>3. Recalled(w) /\ Listed(w)
      BY <3>2 DEF Recalled, Listed
    <3> QED
      BY <1>0, <3>1, <3>2, <3>3, UnwrittenStep
  <2> QED
    BY <2>2, <2>3
<1> QED
  BY <1>1, <1>2
\* Joined lists hold what either does, each once when they share nothing.
LEMMA Joined ==
  ASSUME NEW S, NEW s \in Seq(S), NEW t \in Seq(S)
  PROVE  /\ s \o t \in Seq(S)
         /\ ToSet(s \o t) = ToSet(s) \cup ToSet(t)
         /\ IsInjective(s) /\ IsInjective(t) /\ ToSet(s) \cap ToSet(t) = {} => IsInjective(s \o t)
<1>1. s \o t \in Seq(S) /\ Len(s \o t) = Len(s) + Len(t) /\ Len(s) \in Nat /\ Len(t) \in Nat
      /\ DOMAIN s = 1 .. Len(s) /\ DOMAIN t = 1 .. Len(t) /\ DOMAIN (s \o t) = 1 .. Len(s) + Len(t)
  BY ConcatProperties
<1>2. \A i \in 1 .. Len(s) + Len(t) : (s \o t)[i] = IF i <= Len(s) THEN s[i] ELSE t[i - Len(s)]
  BY <1>1, ConcatProperties
<1>3. ToSet(s \o t) \subseteq ToSet(s) \cup ToSet(t)
  <2> SUFFICES ASSUME NEW i \in 1 .. Len(s) + Len(t)
               PROVE  (s \o t)[i] \in ToSet(s) \cup ToSet(t)
    BY <1>1 DEF ToSet
  <2>1. CASE i <= Len(s)
    BY <1>1, <1>2, <2>1 DEF ToSet
  <2>2. CASE i > Len(s)
    <3>1. i - Len(s) \in 1 .. Len(t) /\ (s \o t)[i] = t[i - Len(s)]
      BY <1>1, <1>2, <2>2
    <3> QED
      BY <1>1, <3>1 DEF ToSet
  <2> QED
    BY <1>1, <2>1, <2>2
<1>4. ToSet(s) \subseteq ToSet(s \o t)
  BY <1>1, <1>2 DEF ToSet
<1>5. ToSet(t) \subseteq ToSet(s \o t)
  <2> SUFFICES ASSUME NEW i \in 1 .. Len(t) PROVE t[i] \in ToSet(s \o t)
    BY <1>1 DEF ToSet
  <2>1. i + Len(s) \in 1 .. Len(s) + Len(t) /\ (s \o t)[i + Len(s)] = t[i]
    BY <1>1, <1>2
  <2> QED
    BY <1>1, <2>1 DEF ToSet
<1>6. ASSUME IsInjective(s), IsInjective(t), ToSet(s) \cap ToSet(t) = {},
             NEW i \in 1 .. Len(s) + Len(t), NEW j \in 1 .. Len(s) + Len(t),
             (s \o t)[i] = (s \o t)[j]
      PROVE  i = j
  <2>1. CASE i <= Len(s) /\ j <= Len(s)
    BY <1>1, <1>2, <1>6, <2>1 DEF IsInjective
  <2>2. CASE i > Len(s) /\ j > Len(s)
    <3>1. i - Len(s) \in 1 .. Len(t) /\ j - Len(s) \in 1 .. Len(t) /\ t[i - Len(s)] = t[j - Len(s)]
      BY <1>1, <1>2, <1>6, <2>2
    <3>2. i - Len(s) = j - Len(s)
      BY <1>1, <1>6, <3>1 DEF IsInjective
    <3> QED
      BY <1>1, <3>2
  <2>3. ASSUME NEW k \in 1 .. Len(s) + Len(t), NEW l \in 1 .. Len(s) + Len(t),
               k <= Len(s), l > Len(s), (s \o t)[k] = (s \o t)[l]
        PROVE  FALSE
    <3>1. (s \o t)[k] = s[k] /\ k \in 1 .. Len(s)
      BY <1>1, <1>2, <2>3
    <3>2. (s \o t)[l] = t[l - Len(s)] /\ l - Len(s) \in 1 .. Len(t)
      BY <1>1, <1>2, <2>3
    <3>3. s[k] \in ToSet(s) /\ t[l - Len(s)] \in ToSet(t)
      BY <1>1, <3>1, <3>2 DEF ToSet
    <3> QED
      BY <1>6, <2>3, <3>1, <3>2, <3>3
  <2>4. (i <= Len(s) \/ i > Len(s)) /\ (j <= Len(s) \/ j > Len(s))
    BY <1>1
  <2> QED
    BY <1>6, <2>1, <2>2, <2>3, <2>4
<1>7. IsInjective(s) /\ IsInjective(t) /\ ToSet(s) \cap ToSet(t) = {} => IsInjective(s \o t)
  BY <1>1, <1>6 DEF IsInjective
<1> QED
  BY <1>1, <1>3, <1>4, <1>5, <1>7

\* A page has each of its rows once, and whatever is left of the tray is behind its
\* last row, and nothing on it is.
LEMMA PagesInOrder ==
  ASSUME DocumentConstants, DocumentsTypeOK, NEW tray \in Trays, NEW cursor \in Cursor,
         NEW size \in 0 .. Page, NEW page \in [1 .. size -> Behind(tray, cursor)],
         FirstPage(Behind(tray, cursor), page, size)
  PROVE  /\ page \in Seq(DocumentIds) /\ ToSet(page) \subseteq Behind(tray, cursor)
         /\ IsInjective(page)
         /\ Behind(tray, cursor) \ ToSet(page) # {} =>
              /\ <<rows[page[size]].at, page[size]>> \in Cursor
              /\ Behind(tray, <<rows[page[size]].at, page[size]>>) =
                   Behind(tray, cursor) \ ToSet(page)
<1> DEFINE rest == Behind(tray, cursor)
<1>1. rest \subseteq Held /\ Held \subseteq DocumentIds /\ \A id \in rest : rows[id].tray = tray
  BY DEF Behind, InTray, Held
<1>2. size \in Nat /\ Page \in Nat \ {0}
  BY DEF DocumentConstants
<1>3. page \in Seq(DocumentIds) /\ DOMAIN page = 1 .. size
  BY <1>1, <1>2
<1>4. ToSet(page) \subseteq rest
  BY <1>3 DEF ToSet
<1>5. \A id \in Held : id \in Nat /\ rows[id].at \in Nat /\ rows[id].at \in ToSet(Arrivals)
  BY <1>1, RowsFit, InstantsAreNumbers DEF DocumentConstants
<1>6. \A i, j \in 1 .. size : i < j => Precedes(page[i], page[j])
  BY DEF FirstPage
<1>7. \A i \in 1 .. size : page[i] \in Held
  BY <1>1, <1>2
<1>8. IsInjective(page)
  <2> SUFFICES ASSUME NEW i \in 1 .. size, NEW j \in 1 .. size, i < j PROVE page[i] # page[j]
    BY <1>2, <1>3 DEF IsInjective
  <2>1. Precedes(page[i], page[j]) /\ page[i] \in Nat /\ rows[page[i]].at \in Nat
    BY <1>5, <1>6, <1>7
  <2> QED
    BY <2>1 DEF Precedes
<1>9. ASSUME rest \ ToSet(page) # {}
      PROVE  /\ <<rows[page[size]].at, page[size]>> \in Cursor
             /\ Behind(tray, <<rows[page[size]].at, page[size]>>) = rest \ ToSet(page)
  <2>1. size = Page /\ size \in 1 .. size /\ \A i \in 1 .. size, id \in rest \ ToSet(page) : Precedes(page[i], id)
    BY <1>2, <1>9 DEF FirstPage
  <2> PICK end, at : end = page[size] /\ at = rows[end].at
    OBVIOUS
  <2>2. end \in Held /\ end \in Nat /\ at \in Nat /\ at \in ToSet(Arrivals) /\ end \in rest /\ end \in DocumentIds
    BY <1>1, <1>5, <1>7, <2>1
  <2>3. <<at, end>> \in Cursor
    BY <2>2 DEF Cursor
  <2>4. \A id \in rest \ ToSet(page) : id \in Behind(tray, <<at, end>>)
    <3> TAKE id \in rest \ ToSet(page)
    <3>1. Precedes(end, id) /\ id \in InTray(tray) /\ id \in Held
      BY <1>1, <2>1 DEF Behind
    <3>2. rows[id].at \in Nat /\ id \in Nat
      BY <1>5, <3>1
    <3>3. rows[id].at > at \/ (rows[id].at = at /\ id > end)
      BY <2>2, <3>1, <3>2 DEF Precedes
    <3> QED
      BY <3>1, <3>3 DEF Behind
  <2>5. ASSUME NEW id \in Behind(tray, <<at, end>>) PROVE id \in rest
    <3>1. id \in InTray(tray) /\ id \in Held /\ id \in Nat /\ rows[id].at \in Nat
      BY <1>5 DEF Behind, InTray
    <3>2. rows[id].at > at \/ (rows[id].at = at /\ id > end)
      BY <2>5 DEF Behind
    <3>3. CASE cursor = << >>
      BY <3>1, <3>3 DEF Behind
    <3>4. CASE cursor # << >>
      <4> PICK a \in ToSet(Arrivals), n \in DocumentIds : cursor = <<a, n>>
        BY <3>4 DEF Cursor
      <4>1. a \in Nat /\ n \in Nat
        BY InstantsAreNumbers DEF DocumentConstants
      <4>2. at > a \/ (at = a /\ end > n)
        BY <2>2, <3>4 DEF Behind
      <4>3. rows[id].at > a \/ (rows[id].at = a /\ id > n)
        <5>1. PICK m \in Nat : m = rows[id].at
          BY <3>1
        <5>2. m > at \/ (m = at /\ id > end)
          BY <3>2, <5>1
        <5>3. at \in Nat /\ end \in Nat /\ id \in Nat
          BY <2>2, <3>1
        <5>4. m > a \/ (m = a /\ id > n)
          BY <4>1, <4>2, <5>2, <5>3
        <5> QED
          BY <5>1, <5>4
      <4> QED
        BY <3>1, <4>3 DEF Behind
    <3> QED
      BY <3>3, <3>4
  <2>6. ASSUME NEW i \in 1 .. size PROVE page[i] \notin Behind(tray, <<at, end>>)
    <3>1. page[i] \in Nat /\ rows[page[i]].at \in Nat
      BY <1>5, <1>7
    <3>2. i = size \/ Precedes(page[i], end)
      BY <1>2, <1>6, <2>1
    <3>3. ~(rows[page[i]].at > at \/ (rows[page[i]].at = at /\ page[i] > end))
      BY <2>2, <3>1, <3>2 DEF Precedes
    <3> QED
      BY <3>3 DEF Behind
  <2>7. ToSet(page) \cap Behind(tray, <<at, end>>) = {}
    BY <1>3, <2>6 DEF ToSet
  <2> QED
    BY <2>3, <2>4, <2>5, <2>7
<1> QED
  BY <1>3, <1>4, <1>8, <1>9

LEMMA ListPageStep ==
  ASSUME DocumentConstants, DocumentsInv, NEW r \in Handlers, ListPage(r) PROVE DocumentsInv'
<1>0. DocumentsTypeOK /\ RowsKnown /\ filing[r].op = "list" /\ filing[r] \in Listings
      /\ Listed(filing[r]) /\ UNCHANGED <<rows, bodies, drawn, filingStops, late>>
  BY WorkKinds DEF DocumentsInv, ListPage
<1>1. PICK tray \in Trays, to \in Trays, cursor \in Cursor, found \in Seq(DocumentIds),
           due \in SUBSET DocumentIds :
        filing[r] = [op |-> "list", tray |-> tray, to |-> to, cursor |-> cursor,
                     found |-> found, due |-> due]
  BY <1>0 DEF Listings
<1> DEFINE rest == Behind(tray, cursor)
           On(size, page) == <<rows[page[size]].at, page[size]>>
           Turn(size, page) ==
             Proceeds(r, IF rest \ ToSet(page) # {}
                         THEN [filing[r] EXCEPT !.found = found \o page, !.cursor = On(size, page)]
                         ELSE [filing[r] EXCEPT !.found = found \o page, !.op = "listed"])
<1>2. \E size \in 0 .. Page : \E page \in [1 .. size -> rest] :
       FirstPage(rest, page, size) /\ Turn(size, page)
  <2>1. filing[r].tray = tray /\ filing[r].cursor = cursor /\ filing[r].found = found
    BY <1>1
  <2> QED
    BY <2>1 DEF ListPage
<1>3. PICK size \in 0 .. Page : \E page \in [1 .. size -> rest] :
        FirstPage(rest, page, size) /\ Turn(size, page)
  BY <1>2
<1>4. PICK page \in [1 .. size -> rest] : FirstPage(rest, page, size) /\ Turn(size, page)
  BY <1>3
<1>5. /\ page \in Seq(DocumentIds) /\ ToSet(page) \subseteq rest /\ IsInjective(page)
      /\ rest \ ToSet(page) # {} =>
           On(size, page) \in Cursor /\ Behind(tray, On(size, page)) = rest \ ToSet(page)
  BY <1>0, <1>4, PagesInOrder
<1>6. /\ due \cup ToSet(found) \subseteq Known /\ IsInjective(found)
      /\ \A id \in due \cap Held : rows[id].tray = tray
      /\ due \cap Held \subseteq ToSet(found) \cup rest
      /\ ToSet(found) \cap rest = {}
  BY <1>0, <1>1 DEF Listed
<1>7. PICK all, on : all = found \o page /\ on = On(size, page)
  OBVIOUS
<1>8. all \in Seq(DocumentIds) /\ ToSet(all) = ToSet(found) \cup ToSet(page) /\ IsInjective(all)
  <2>1. ToSet(found) \cap ToSet(page) = {}
    BY <1>5, <1>6
  <2> QED
    BY <1>5, <1>6, <1>7, <2>1, Joined
<1>9. rest \subseteq Known
  BY <1>0 DEF Behind, InTray, RowsKnown
<1>10. CASE rest \ ToSet(page) # {}
  <2>1. PICK w : w = [filing[r] EXCEPT !.found = all, !.cursor = on]
    OBVIOUS
  <2>2. Proceeds(r, w)
    BY <1>4, <1>7, <1>10, <2>1
  <2>3. /\ w \in Listings /\ w.op = "list" /\ w.tray = tray /\ w.due = due
        /\ w.found = all /\ w.cursor = on
    <3>1. filing[r] \in Listings /\ all \in Seq(DocumentIds) /\ on \in Cursor
      BY <1>0, <1>5, <1>7, <1>8, <1>10
    <3>2. /\ w \in Listings /\ w.op = filing[r].op /\ w.tray = filing[r].tray
          /\ w.due = filing[r].due /\ w.found = all /\ w.cursor = on
      <4>1. PICK was : was = filing[r]
        OBVIOUS
      <4>2. was \in Listings /\ w = [was EXCEPT !.found = all, !.cursor = on]
        BY <2>1, <3>1, <4>1
      <4>3. /\ w \in Listings /\ w.op = was.op /\ w.tray = was.tray /\ w.due = was.due
            /\ w.found = all /\ w.cursor = on
        BY <3>1, <4>2 DEF Listings
      <4> QED
        BY <4>1, <4>3
    <3> QED
      BY <1>1, <3>2
  <2>4. /\ due \cap Held \subseteq ToSet(all) \cup Behind(tray, on)
        /\ ToSet(all) \cap Behind(tray, on) = {}
        /\ due \cup ToSet(all) \subseteq Known
    BY <1>5, <1>6, <1>7, <1>8, <1>9, <1>10
  <2>5. Recalled(w) /\ Listed(w)
    BY <1>6, <1>8, <2>3, <2>4 DEF Recalled, Listed
  <2> QED
    BY <1>0, <2>2, <2>3, <2>5, UnwrittenStep DEF Handling
<1>11. CASE rest \ ToSet(page) = {}
  <2>1. PICK w : w = [filing[r] EXCEPT !.found = all, !.op = "listed"]
    OBVIOUS
  <2>2. Proceeds(r, w)
    BY <1>4, <1>7, <1>11, <2>1
  <2>3. w \in Listings /\ w.op = "listed" /\ w.tray = tray /\ w.due = due /\ w.found = all
    <3>1. filing[r] \in Listings /\ all \in Seq(DocumentIds)
      BY <1>0, <1>8
    <3>2. /\ w \in Listings /\ w.op = "listed" /\ w.tray = filing[r].tray
          /\ w.due = filing[r].due /\ w.found = all
      <4>1. PICK was : was = filing[r]
        OBVIOUS
      <4>2. was \in Listings /\ w = [was EXCEPT !.found = all, !.op = "listed"]
        BY <2>1, <3>1, <4>1
      <4>3. /\ w \in Listings /\ w.op = "listed" /\ w.tray = was.tray /\ w.due = was.due
            /\ w.found = all
        BY <3>1, <4>2 DEF Listings
      <4> QED
        BY <4>1, <4>3
    <3> QED
      BY <1>1, <3>2
  <2>4. due \cap Held \subseteq ToSet(all) /\ due \cup ToSet(all) \subseteq Known
    BY <1>5, <1>6, <1>8, <1>9, <1>11
  <2>5. Recalled(w) /\ Listed(w)
    BY <1>6, <1>8, <2>3, <2>4 DEF Recalled, Listed
  <2> QED
    BY <1>0, <2>2, <2>3, <2>5, UnwrittenStep DEF Handling
<1> QED
  BY <1>10, <1>11
LEMMA FreeForgets == Free \in Handling /\ Free.op = "nothing" /\ Recalled(Free) /\ Listed(Free)
BY DEF Handling, Free, Recalled, Listed

\* What the invariant asks after a step of one request that leaves what was known.
LEMMA WritingStep ==
  ASSUME DocumentsInv, NEW r \in Handlers, NEW w \in Handling, Proceeds(r, w), StillKnown,
         DocumentsTypeOK', FiledOnce', RowsKnown', BrokenOnlyInFlight', NothingWasted',
         Recalled(w)', Listed(w)'
  PROVE  DocumentsInv'
BY OthersStay DEF DocumentsInv

LEMMA FileBodyStep ==
  ASSUME DocumentConstants, DocumentsInv, NEW r \in Handlers, NEW tray \in Trays, FileBody(r, tray)
  PROVE  DocumentsInv'
<1>0. /\ DocumentsTypeOK /\ FiledOnce /\ RowsKnown /\ BrokenOnlyInFlight /\ NothingWasted
      /\ UNCHANGED <<rows, filingStops, late>> /\ filing[r].op = "nothing"
  BY DEF DocumentsInv, FileBody, Free
<1>1. PICK id \in DocumentIds \ drawn :
        /\ drawn' = drawn \cup {id} /\ bodies' = bodies \cup {id}
        /\ Proceeds(r, [op |-> "file", id |-> id, row |-> [tray |-> tray, ref |-> id, at |-> Now]])
  BY DEF FileBody
<1>2. PICK w : w = [op |-> "file", id |-> id, row |-> [tray |-> tray, ref |-> id, at |-> Now]]
  OBVIOUS
<1>3. Proceeds(r, w) /\ w.op = "file" /\ w.id = id /\ w.row.ref = id
  BY <1>1, <1>2
<1>4. w \in Filings
  BY <1>0, <1>2, NowIsAnInstant DEF Filings, Row
<1>5. \A q \in Handlers : filing'[q] = IF q = r THEN w ELSE filing[q]
  BY <1>0, <1>3 DEF Proceeds, DocumentsTypeOK
<1>6. Held' = Held /\ \A ref : RowsNaming(ref)' = RowsNaming(ref)
  BY <1>0 DEF Held, RowsNaming
<1>7. DocumentsTypeOK'
  BY <1>0, <1>1, <1>3, <1>4, <1>6 DEF Handling, DocumentsTypeOK, Proceeds
<1>8. Known \subseteq Known'
  BY <1>0, <1>1, <1>3, <1>5 DEF Known
<1>9. \A q \in Handlers : filing[q].op = "file" => filing[q].id # id
  BY <1>0, <1>1 DEF FiledOnce, DocumentsTypeOK
<1>10. FiledOnce'
  BY <1>0, <1>1, <1>3, <1>5, <1>9 DEF FiledOnce
<1>11. RowsKnown' /\ BrokenOnlyInFlight'
  BY <1>0, <1>1, <1>6, <1>8 DEF RowsKnown, BrokenOnlyInFlight
<1>12. NothingWasted'
  <2> SUFFICES ASSUME filingStops = 0, NEW ref \in bodies', RowsNaming(ref) = {}
               PROVE  \E q \in Handlers : \/ filing'[q].op = "file" /\ filing'[q].id = ref
                                          \/ filing'[q].op \in {"count", "body"} /\ filing'[q].ref = ref
    BY <1>0, <1>6 DEF NothingWasted
  <2>1. CASE ref = id
    BY <1>3, <1>5, <2>1
  <2>2. CASE ref # id
    <3>1. PICK q \in Handlers : \/ filing[q].op = "file" /\ filing[q].id = ref
                                \/ filing[q].op \in {"count", "body"} /\ filing[q].ref = ref
      BY <1>0, <1>1, <2>2 DEF NothingWasted
    <3> QED
      BY <1>0, <1>5, <3>1
  <2> QED
    BY <2>1, <2>2
<1>13. StillKnown
  BY <1>0, <1>6, <1>8 DEF StillKnown
<1>14. Recalled(w)' /\ Listed(w)'
  BY <1>3 DEF Recalled, Listed
<1>15. w \in Handling
  BY <1>4 DEF Handling
<1> QED
  BY <1>3, <1>7, <1>10, <1>11, <1>12, <1>13, <1>14, <1>15, WritingStep

LEMMA FileRowStep ==
  ASSUME DocumentConstants, DocumentsInv, NEW r \in Handlers, FileRow(r) PROVE DocumentsInv'
<1>0. /\ DocumentsTypeOK /\ FiledOnce /\ RowsKnown /\ BrokenOnlyInFlight /\ NothingWasted
      /\ UNCHANGED <<bodies, drawn, filingStops, late>> /\ filing[r].op = "file"
      /\ filing[r] \in Filings /\ Proceeds(r, Free)
  BY WorkKinds DEF DocumentsInv, FileRow
<1>1. PICK id, row : id = filing[r].id /\ row = filing[r].row
  OBVIOUS
<1>2. id \in DocumentIds /\ row \in Row /\ id \in bodies /\ row.ref = id /\ id \in drawn
  BY <1>0, <1>1 DEF FiledOnce, Filings, DocumentsTypeOK
<1>3. rows' = [rows EXCEPT ![id] = row]
  BY <1>1 DEF FileRow
<1>4. \A q \in Handlers : filing'[q] = IF q = r THEN Free ELSE filing[q]
  BY <1>0 DEF Proceeds, DocumentsTypeOK
<1>5. id \notin Known
  BY <1>0, <1>1 DEF Known
<1>6. id \notin Held
  BY <1>0, <1>5 DEF RowsKnown
<1>7. \A jd \in DocumentIds : rows'[jd] = IF jd = id THEN row ELSE rows[jd]
  BY <1>0, <1>3 DEF DocumentsTypeOK
<1>8. Held' \subseteq Held \cup {id} /\ Held \subseteq Held'
  BY <1>6, <1>7 DEF Held
<1>9. DocumentsTypeOK'
  BY <1>0, <1>2, <1>3, <1>8, FreeForgets DEF DocumentsTypeOK, Proceeds
<1>10. Known \subseteq Known' /\ id \in Known'
  <2>1. \A q \in Handlers : filing'[q].op = "file" => q # r /\ filing'[q] = filing[q]
    BY <1>4, FreeForgets
  <2>2. \A q \in Handlers : filing'[q].op = "file" => filing'[q].id # id
    BY <1>0, <1>1, <2>1 DEF FiledOnce
  <2>3. Known \subseteq Known'
    BY <1>0, <2>1 DEF Known
  <2> QED
    BY <1>0, <1>2, <2>2, <2>3 DEF Known
<1>11. FiledOnce'
  BY <1>0, <1>4, FreeForgets DEF FiledOnce
<1>12. RowsKnown'
  <2> SUFFICES ASSUME NEW jd \in Held' PROVE {jd, rows'[jd].ref} \subseteq Known'
    BY DEF RowsKnown
  <2>1. CASE jd = id
    BY <1>2, <1>7, <1>10, <2>1
  <2>2. CASE jd # id
    <3>1. jd \in Held /\ jd \in DocumentIds /\ rows'[jd] = rows[jd]
      BY <1>7, <1>8, <2>2 DEF Held
    <3> QED
      BY <1>0, <1>10, <3>1 DEF RowsKnown
  <2> QED
    BY <2>1, <2>2
<1>13. BrokenOnlyInFlight'
  BY <1>0, <1>2, <1>7, <1>8 DEF BrokenOnlyInFlight, Held
<1>14. NothingWasted'
  <2> SUFFICES ASSUME filingStops = 0, NEW ref \in bodies
               PROVE  \/ RowsNaming(ref)' # {}
                      \/ \E q \in Handlers :
                           \/ filing'[q].op = "file" /\ filing'[q].id = ref
                           \/ filing'[q].op \in {"count", "body"} /\ filing'[q].ref = ref
    BY <1>0 DEF NothingWasted
  <2>1. CASE ref = id
    <3>1. id \in Held' /\ rows'[id].ref = id
      BY <1>2, <1>7 DEF DocumentConstants, Held
    <3> QED
      BY <2>1, <3>1 DEF RowsNaming
  <2>2. CASE RowsNaming(ref) # {}
    <3>1. PICK jd \in Held : rows[jd].ref = ref
      BY <2>2 DEF RowsNaming
    <3>2. jd \in Held' /\ rows'[jd].ref = ref
      BY <1>6, <1>7, <1>8, <3>1 DEF Held
    <3> QED
      BY <3>2 DEF RowsNaming
  <2>3. CASE ref # id /\ RowsNaming(ref) = {}
    <3>1. PICK q \in Handlers : \/ filing[q].op = "file" /\ filing[q].id = ref
                                \/ filing[q].op \in {"count", "body"} /\ filing[q].ref = ref
      BY <1>0, <2>3 DEF NothingWasted
    <3>2. q # r
      BY <1>0, <1>1, <2>3, <3>1
    <3> QED
      BY <1>4, <3>1, <3>2
  <2> QED
    BY <2>1, <2>2, <2>3
<1>15. StillKnown
  <2>1. \A jd \in Known : rows'[jd] \in {rows[jd], NoRow}
    BY <1>0, <1>5, <1>7 DEF Known, DocumentsTypeOK
  <2>2. \A jd \in Held' \ late' :
          \/ rows'[jd].ref \notin Known
          \/ \E source \in Held \ late : rows[source].ref = rows'[jd].ref
    BY <1>0, <1>2, <1>5, <1>7, <1>8 DEF Held
  <2> QED
    BY <1>0, <1>10, <2>1, <2>2 DEF StillKnown
<1>16. Recalled(Free)' /\ Listed(Free)'
  BY FreeForgets DEF Recalled, Listed
<1> QED
  BY <1>0, <1>9, <1>11, <1>12, <1>13, <1>14, <1>15, <1>16, FreeForgets, WritingStep
LEMMA RemoveRowStep ==
  ASSUME DocumentsInv, NEW r \in Handlers, RemoveRow(r) PROVE DocumentsInv'
<1>0. /\ DocumentsTypeOK /\ FiledOnce /\ RowsKnown /\ BrokenOnlyInFlight /\ NothingWasted
      /\ UNCHANGED <<bodies, drawn, filingStops, late>> /\ filing[r].op = "remove"
      /\ filing[r] \in Removals /\ Recalled(filing[r])
  BY WorkKinds DEF DocumentsInv, RemoveRow
<1>1. PICK id, w : id = filing[r].id /\ w = IF id \in Held THEN [filing[r] EXCEPT !.op = "count"] ELSE Free
  OBVIOUS
<1>2. Proceeds(r, w) /\ rows' = [rows EXCEPT ![id] = NoRow] /\ id \in DocumentIds
  BY <1>0, <1>1 DEF RemoveRow, Removals
<1>3. /\ id \in Held => w \in Removals /\ w.op = "count" /\ w.id = id /\ w.ref = rows[id].ref
      /\ id \notin Held => w = Free
  <2>1. filing[r].id = id /\ (id \in Held => rows[id].ref = filing[r].ref)
    BY <1>0, <1>1 DEF Recalled
  <2> QED
    BY <1>0, <1>1, <2>1 DEF Removals
<1>4. w \in Handling /\ w.op \in {"nothing", "count"}
  BY <1>3, FreeForgets DEF Handling
<1>5. \A q \in Handlers : filing'[q] = IF q = r THEN w ELSE filing[q]
  BY <1>0, <1>2 DEF Proceeds, DocumentsTypeOK
<1>6. \A jd \in DocumentIds : rows'[jd] = IF jd = id THEN NoRow ELSE rows[jd]
  BY <1>0, <1>2 DEF DocumentsTypeOK
<1>7. Held' = Held \ {id} /\ \A jd \in Held' : rows'[jd] = rows[jd]
  BY <1>6 DEF Held
<1>8. DocumentsTypeOK'
  BY <1>0, <1>2, <1>4, <1>7 DEF DocumentsTypeOK, Proceeds, Handling
<1>9. Known' = Known /\ FiledOnce'
  BY <1>0, <1>2, <1>4, SameKnown
<1>10. RowsKnown' /\ BrokenOnlyInFlight'
  BY <1>0, <1>7, <1>9 DEF RowsKnown, BrokenOnlyInFlight
<1>11. NothingWasted'
  <2> SUFFICES ASSUME filingStops = 0, NEW ref \in bodies
               PROVE  \/ RowsNaming(ref)' # {}
                      \/ \E q \in Handlers :
                           \/ filing'[q].op = "file" /\ filing'[q].id = ref
                           \/ filing'[q].op \in {"count", "body"} /\ filing'[q].ref = ref
    BY <1>0 DEF NothingWasted
  <2>1. CASE \E jd \in Held : rows[jd].ref = ref /\ jd # id
    BY <1>7, <2>1 DEF RowsNaming
  <2>2. CASE id \in Held /\ rows[id].ref = ref
    BY <1>3, <1>5, <2>2
  <2>3. CASE RowsNaming(ref) = {}
    <3>1. PICK q \in Handlers : \/ filing[q].op = "file" /\ filing[q].id = ref
                                \/ filing[q].op \in {"count", "body"} /\ filing[q].ref = ref
      BY <1>0, <2>3 DEF NothingWasted
    <3> QED
      BY <1>0, <1>5, <3>1
  <2> QED
    BY <2>1, <2>2, <2>3 DEF RowsNaming
<1>12. StillKnown
  <2>1. \A jd \in Known : rows'[jd] \in {rows[jd], NoRow}
    BY <1>0, <1>6 DEF Known, DocumentsTypeOK
  <2> QED
    BY <1>0, <1>7, <1>9, <2>1 DEF StillKnown
<1>13. Recalled(w)' /\ Listed(w)'
  <2>1. w.op = "count" => {w.id, w.ref} \subseteq Known'
    BY <1>0, <1>3, <1>9, FreeForgets DEF RowsKnown
  <2> QED
    BY <1>4, <2>1 DEF Recalled, Listed
<1> QED
  BY <1>0, <1>2, <1>4, <1>8, <1>9, <1>10, <1>11, <1>12, <1>13, WritingStep

\* Every row that still names the body was written when its source had gone.
LEMMA RemoveBodyStep ==
  ASSUME DocumentsInv, NEW r \in Handlers, RemoveBody(r) PROVE DocumentsInv'
<1>0. /\ DocumentsTypeOK /\ FiledOnce /\ RowsKnown /\ BrokenOnlyInFlight /\ NothingWasted
      /\ UNCHANGED <<rows, drawn, filingStops, late>> /\ filing[r].op = "body"
      /\ Recalled(filing[r]) /\ Proceeds(r, Free)
  BY DEF DocumentsInv, RemoveBody
<1>1. PICK ref : ref = filing[r].ref
  OBVIOUS
<1>2. bodies' = bodies \ {ref} /\ ref \in Known /\ RowsNaming(ref) \subseteq late
  BY <1>0, <1>1 DEF RemoveBody, Recalled
<1>3. Held' = Held /\ \A body : RowsNaming(body)' = RowsNaming(body)
  BY <1>0 DEF Held, RowsNaming
<1>4. \A q \in Handlers : filing'[q] = IF q = r THEN Free ELSE filing[q]
  BY <1>0 DEF Proceeds, DocumentsTypeOK
<1>5. DocumentsTypeOK'
  BY <1>0, <1>2, <1>3, FreeForgets DEF DocumentsTypeOK, Proceeds, Handling
<1>6. Known' = Known
  BY <1>0, FreeForgets, SameKnown
<1>7. FiledOnce'
  <2>1. \A q \in Handlers : filing'[q].op = "file" => filing'[q] = filing[q] /\ filing[q].id # ref
    BY <1>2, <1>4, FreeForgets DEF Known
  <2> QED
    BY <1>0, <1>2, <2>1 DEF FiledOnce
<1>8. RowsKnown' /\ BrokenOnlyInFlight'
  BY <1>0, <1>2, <1>3, <1>6 DEF RowsKnown, BrokenOnlyInFlight, RowsNaming
<1>9. NothingWasted'
  <2> SUFFICES ASSUME filingStops = 0, NEW body \in bodies \ {ref}, RowsNaming(body) = {}
               PROVE  \E q \in Handlers : \/ filing'[q].op = "file" /\ filing'[q].id = body
                                          \/ filing'[q].op \in {"count", "body"} /\ filing'[q].ref = body
    BY <1>0, <1>2, <1>3 DEF NothingWasted
  <2>1. PICK q \in Handlers : \/ filing[q].op = "file" /\ filing[q].id = body
                              \/ filing[q].op \in {"count", "body"} /\ filing[q].ref = body
    BY <1>0 DEF NothingWasted
  <2> QED
    BY <1>0, <1>1, <1>4, <2>1
<1>10. StillKnown
  BY <1>0, <1>3, <1>6 DEF StillKnown
<1>11. Recalled(Free)' /\ Listed(Free)'
  BY FreeForgets DEF Recalled, Listed
<1> QED
  BY <1>0, <1>5, <1>7, <1>8, <1>9, <1>10, <1>11, FreeForgets, WritingStep

LEMMA CopyWriteStep ==
  ASSUME DocumentConstants, DocumentsInv, NEW r \in Handlers, CopyWrite(r) PROVE DocumentsInv'
<1>0. /\ DocumentsTypeOK /\ FiledOnce /\ RowsKnown /\ BrokenOnlyInFlight /\ NothingWasted
      /\ UNCHANGED <<bodies, filingStops>> /\ filing[r].op = "paste"
      /\ filing[r] \in Pastes /\ Recalled(filing[r])
  BY WorkKinds DEF DocumentsInv, CopyWrite
<1>1. PICK to \in Trays, todo \in Seq(DocumentIds), from \in DocumentIds, ref \in DocumentIds :
        /\ filing[r].to = to /\ filing[r].todo = todo
        /\ filing[r].from = from /\ filing[r].ref = ref
  BY <1>0 DEF Pastes
<1>2. PICK w : w = [op |-> "copy", to |-> to, todo |-> todo]
  OBVIOUS
<1>3. Proceeds(r, w) /\ w \in Carryings /\ w.op = "copy"
  BY <1>1, <1>2 DEF CopyWrite, Carryings
<1>4. PICK id \in DocumentIds \ drawn :
        /\ drawn' = drawn \cup {id}
        /\ rows' = [rows EXCEPT ![id] = [tray |-> to, ref |-> ref, at |-> Now]]
        /\ late' = IF from \in Held \ late THEN late ELSE late \cup {id}
  BY <1>1 DEF CopyWrite
<1>5. PICK row : row = [tray |-> to, ref |-> ref, at |-> Now]
  OBVIOUS
<1>6. row \in Row /\ row.ref = ref /\ row # NoRow
  <2>1. row \in Row
    BY <1>0, <1>4, <1>5, NowIsAnInstant DEF Row
  <2> QED
    BY <1>5, <2>1 DEF DocumentConstants
<1>7. {from, ref} \subseteq Known /\ (from \in Held => rows[from].ref = ref)
  BY <1>0, <1>1 DEF Recalled
<1>8. \A q \in Handlers : filing'[q] = IF q = r THEN w ELSE filing[q]
  BY <1>0, <1>3 DEF Proceeds, DocumentsTypeOK
<1>9. \A jd \in DocumentIds : rows'[jd] = IF jd = id THEN row ELSE rows[jd]
  BY <1>0, <1>4, <1>5 DEF DocumentsTypeOK
<1>10. id \notin Held /\ Held \subseteq DocumentIds /\ Held' = Held \cup {id}
  BY <1>0, <1>4, <1>6, <1>9 DEF Held, DocumentsTypeOK
<1>11. rows' \in [DocumentIds -> Row \cup {NoRow}]
  BY <1>0, <1>4, <1>5, <1>6 DEF DocumentsTypeOK
<1>12. filing' \in [Handlers -> Handling]
  BY <1>0, <1>3 DEF DocumentsTypeOK, Proceeds, Handling
<1>13. DocumentsTypeOK'
  <2>1. bodies' \subseteq drawn' /\ Held' \subseteq drawn' /\ drawn' \subseteq DocumentIds
        /\ late' \subseteq drawn' /\ filingStops' \in 0 .. MaxFilingStops
    BY <1>0, <1>4, <1>10 DEF DocumentsTypeOK
  <2> QED
    BY <1>11, <1>12, <2>1 DEF DocumentsTypeOK, Handling
<1>14. \A q \in Handlers : filing'[q].op = "file" => filing'[q] = filing[q] /\ q # r
  BY <1>3, <1>8
<1>15. FiledOnce'
  BY <1>0, <1>14 DEF FiledOnce
<1>16. id \notin Known /\ Known \subseteq Known' /\ id \in Known'
  <2>1. \A q \in Handlers : filing[q].op = "file" => filing[q].id # id
    BY <1>0, <1>4 DEF FiledOnce, DocumentsTypeOK
  <2>2. Known \subseteq Known'
    BY <1>4, <1>14 DEF Known
  <2>3. id \in Known'
    BY <1>4, <1>14, <2>1 DEF Known
  <2> QED
    BY <1>4, <2>2, <2>3 DEF Known
<1>17. \A jd \in Held : rows'[jd] = rows[jd]
  BY <1>9, <1>10
<1>18. RowsKnown'
  BY <1>0, <1>6, <1>7, <1>9, <1>10, <1>16, <1>17 DEF RowsKnown
<1>19. \A jd \in Held' \ late' : \E source \in Held \ late : rows[source].ref = rows'[jd].ref
  <2> SUFFICES ASSUME NEW jd \in Held' \ late'
               PROVE  \E source \in Held \ late : rows[source].ref = rows'[jd].ref
    OBVIOUS
  <2>1. CASE jd = id
    <3>1. from \in Held \ late
      BY <1>4, <2>1
    <3> QED
      BY <1>6, <1>7, <1>9, <2>1, <3>1
  <2>2. CASE jd # id
    BY <1>4, <1>10, <1>17, <2>2
  <2> QED
    BY <2>1, <2>2
<1>20. BrokenOnlyInFlight'
  BY <1>0, <1>19 DEF BrokenOnlyInFlight
<1>21. NothingWasted'
  <2> SUFFICES ASSUME filingStops = 0, NEW body \in bodies
               PROVE  \/ RowsNaming(body)' # {}
                      \/ \E q \in Handlers :
                           \/ filing'[q].op = "file" /\ filing'[q].id = body
                           \/ filing'[q].op \in {"count", "body"} /\ filing'[q].ref = body
    BY <1>0 DEF NothingWasted
  <2>1. CASE RowsNaming(body) # {}
    BY <1>10, <1>17, <2>1 DEF RowsNaming
  <2>2. CASE RowsNaming(body) = {}
    <3>1. PICK q \in Handlers : \/ filing[q].op = "file" /\ filing[q].id = body
                                \/ filing[q].op \in {"count", "body"} /\ filing[q].ref = body
      BY <1>0, <2>2 DEF NothingWasted
    <3> QED
      BY <1>0, <1>8, <3>1
  <2> QED
    BY <2>1, <2>2
<1>22. StillKnown
  <2>1. \A jd \in Known : rows'[jd] \in {rows[jd], NoRow}
    BY <1>0, <1>9, <1>16 DEF Known, DocumentsTypeOK
  <2> QED
    BY <1>4, <1>16, <1>19, <2>1 DEF StillKnown
<1>23. Recalled(w)' /\ Listed(w)'
  BY <1>3 DEF Recalled, Listed
<1>24. w \in Handling
  BY <1>3 DEF Handling
<1> QED
  BY <1>3, <1>13, <1>15, <1>18, <1>20, <1>21, <1>22, <1>23, <1>24, WritingStep

LEMMA StopStep ==
  ASSUME DocumentConstants, DocumentsInv, Stop PROVE DocumentsInv'
<1>0. /\ DocumentsTypeOK /\ RowsKnown /\ BrokenOnlyInFlight
      /\ UNCHANGED <<rows, bodies, drawn, late>>
  BY DEF DocumentsInv, Stop
<1>1. filingStops' \in 0 .. MaxFilingStops /\ filingStops' # 0
  BY <1>0 DEF Stop, DocumentsTypeOK, DocumentConstants
<1>2. \A q \in Handlers : filing'[q] = Free
  BY DEF Stop
<1>3. Held' = Held
  BY <1>0 DEF Held
<1>4. filing' \in [Handlers -> Handling]
  BY FreeForgets DEF Stop
<1>5. DocumentsTypeOK'
  BY <1>0, <1>1, <1>3, <1>4 DEF DocumentsTypeOK, Handling
<1>6. FiledOnce' /\ Known \subseteq Known'
  BY <1>0, <1>2, FreeForgets DEF FiledOnce, Known
<1>7. RowsKnown' /\ BrokenOnlyInFlight' /\ NothingWasted'
  BY <1>0, <1>1, <1>3, <1>6 DEF RowsKnown, BrokenOnlyInFlight, NothingWasted
<1>8. \A q \in Handlers : Recalled(filing[q])' /\ Listed(filing[q])'
  BY <1>2, FreeForgets DEF Recalled, Listed
<1> QED
  BY <1>5, <1>6, <1>7, <1>8 DEF DocumentsInv

LEMMA DocumentsStep ==
  ASSUME DocumentConstants, DocumentsInv, DocumentsNext PROVE DocumentsInv'
<1>1. CASE Stop
  BY <1>1, StopStep
<1>2. ASSUME NEW r \in Handlers, FileRow(r) PROVE DocumentsInv'
  BY <1>2, FileRowStep
<1>3. ASSUME NEW r \in Handlers, RemoveRow(r) PROVE DocumentsInv'
  BY <1>3, RemoveRowStep
<1>4. ASSUME NEW r \in Handlers, RemoveCount(r) PROVE DocumentsInv'
  BY <1>4, RemoveCountStep
<1>5. ASSUME NEW r \in Handlers, RemoveBody(r) PROVE DocumentsInv'
  BY <1>5, RemoveBodyStep
<1>6. ASSUME NEW r \in Handlers, ListPage(r) PROVE DocumentsInv'
  BY <1>6, ListPageStep
<1>7. ASSUME NEW r \in Handlers, ListEnd(r) PROVE DocumentsInv'
  BY <1>7, ListEndStep
<1>8. ASSUME NEW r \in Handlers, CopyRead(r) PROVE DocumentsInv'
  BY <1>8, CopyReadStep
<1>9. ASSUME NEW r \in Handlers, CopyWrite(r) PROVE DocumentsInv'
  BY <1>9, CopyWriteStep
<1>10. ASSUME NEW r \in Handlers, NEW tray \in Trays, FileBody(r, tray) PROVE DocumentsInv'
  BY <1>10, FileBodyStep
<1>11. ASSUME NEW r \in Handlers, NEW id \in DocumentIds, RemoveRead(r, id) PROVE DocumentsInv'
  BY <1>11, RemoveReadStep
<1>12. ASSUME NEW r \in Handlers, NEW tray \in Trays, NEW to \in Trays, ListStart(r, tray, to)
       PROVE  DocumentsInv'
  BY <1>12, ListStartStep
<1> QED
  BY <1>1, <1>2, <1>3, <1>4, <1>5, <1>6, <1>7, <1>8, <1>9, <1>10, <1>11, <1>12 DEF DocumentsNext

LEMMA DocumentsStart ==
  ASSUME DocumentConstants, DocumentsInit PROVE DocumentsInv
<1>1. Held = {} /\ filing \in [Handlers -> Handling] /\ \A q \in Handlers : filing[q] = Free
  BY FreeForgets DEF DocumentsInit, Held
<1>2. DocumentsTypeOK
  BY <1>1 DEF DocumentsInit, DocumentsTypeOK, DocumentConstants, Handling
<1>3. FiledOnce /\ RowsKnown /\ BrokenOnlyInFlight /\ NothingWasted
  BY <1>1, FreeForgets DEF DocumentsInit, FiledOnce, RowsKnown, BrokenOnlyInFlight, NothingWasted
<1> QED
  BY <1>1, <1>2, <1>3, FreeForgets DEF DocumentsInv

\* Every reachable state of the trays satisfies the inductive invariant.
THEOREM DocumentsInvariance ==
  ASSUME DocumentConstants PROVE DocumentsSpec => []DocumentsInv
<1>1. DocumentsInit => DocumentsInv
  BY DocumentsStart
<1>2. DocumentsInv /\ [DocumentsNext]_documentVars => DocumentsInv'
  <2> SUFFICES ASSUME DocumentsInv, [DocumentsNext]_documentVars PROVE DocumentsInv'
    OBVIOUS
  <2>1. CASE DocumentsNext
    BY <2>1, DocumentsStep
  <2>2. CASE UNCHANGED documentVars
    BY <2>2 DEF documentVars, DocumentsInv, DocumentsTypeOK, FiledOnce, RowsKnown, Recalled,
         Listed, BrokenOnlyInFlight, NothingWasted, Known, Held, RowsNaming, Behind, InTray
  <2> QED
    BY <2>1, <2>2
<1> QED
  BY <1>1, <1>2, PTL DEF DocumentsSpec

\* However many requests file, remove, list and carry documents at once, and
\* wherever the server stops: a document is broken only when it is a copy made while
\* its source was taken away, no body lies about unless the server stopped or
\* somebody is at it, and a list has every document that lay there all along, once
\* (documents.ts).
THEOREM TraysKeepTheirDocuments ==
  ASSUME DocumentConstants PROVE DocumentsSpec => []ListsHold
<1>1. DocumentsInv => ListsHold
  <2> SUFFICES ASSUME DocumentsInv PROVE ListedOnce
    BY DEF DocumentsInv, ListsHold
  <2> QED
    BY DEF DocumentsInv, Listed, ListedOnce
<1> QED
  BY <1>1, DocumentsInvariance, PTL
================================================================================
