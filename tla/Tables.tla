-------------------------------- MODULE Tables --------------------------------
(***************************************************************************)
(* The relational store under its transactions (relational/in-memory.ts,   *)
(* adapters/sqlite/sqlite-store.ts) and the snapshots of an office's       *)
(* configuration that are taken in them (snapshots/snapshots.ts).          *)
(*                                                                         *)
(* Transactions wait for each other, so one at most is open; a write made  *)
(* outside one does not wait.  The store in memory works on a copy which   *)
(* replaces the tables at the end; SQLite writes in place on the one       *)
(* connection, and a rollback brings back what there was at BEGIN.         *)
(*                                                                         *)
(* Outside a transaction the routes put and delete records, and rename,    *)
(* start and stop the office: those read its row and put the whole of it   *)
(* back, its version as they read it included.                             *)
(***************************************************************************)
EXTENDS Naturals, FiniteSets, SequencesExt

CONSTANTS
  Records,     \* departments, employees, arrows, connectors, services
  Contents,    \* what a record may say
  Absent,      \* no such record
  NotRead,     \* a record the transaction has not read back
  NoTx,        \* no transaction is open
  Clients,     \* who asks for the office to be renamed, started or stopped
  MaxVersion,  \* bound: changes of the configuration
  MaxOutside   \* bound: requests that write outside a transaction

VARIABLES
  adapter,   \* "memory" or "sqlite"
  stored,    \* the tables as everybody reads them
  tx,        \* the transaction that is open, or NoTx
  officeRow, \* [Clients -> the version in the office's row each has read, or 0]
  outside,   \* requests that wrote outside, or are to
  crossed,   \* history: somebody wrote a record while this transaction was open
  setBack    \* history: an office's row was put with another version than it had

requestVars == <<officeRow, outside, crossed, setBack>>
vars == <<adapter, stored, tx, officeRow, outside, crossed, setBack>>

Content == Contents \cup {Absent}
Config == [Records -> Content]

\* An image of the tables: the office's configVersion, its configuration and the
\* snapshots taken of it.
Snapshot == [version : Nat, config : Config]
Image == [version : Nat, config : Config, snapshots : SUBSET Snapshot]

Transaction ==
  [ kind : {"change", "restore"}, target : Config, image : Image, office : Nat,
    read : [Records -> Content \cup {NotRead}], done : SUBSET Records,
    step : {"mutate", "bump", "survey", "replace", "read", "commit"} ]

\* What the constants have to be.
TableConstants ==
  NotRead \notin Content /\ NoTx \notin Transaction /\ {MaxVersion, MaxOutside} \subseteq Nat

TypeOK ==
  /\ adapter \in {"memory", "sqlite"}
  /\ stored \in Image
  /\ tx \in Transaction \cup {NoTx}
  /\ officeRow \in [Clients -> Nat]
  /\ outside \in 0 .. MaxOutside

Init ==
  /\ adapter \in {"memory", "sqlite"}
  /\ stored = [version |-> 1, config |-> [r \in Records |-> Absent], snapshots |-> {}]
  /\ tx = NoTx /\ outside = 0 /\ crossed = FALSE /\ setBack = FALSE
  /\ officeRow = [q \in Clients |-> 0]

Unread == [r \in Records |-> NotRead]
Read == tx # NoTx /\ tx.office # 0 /\ \A r \in Records : tx.read[r] # NotRead

\* The tables the transaction reads and writes.
Its == IF adapter = "memory" THEN tx.image ELSE stored

At(step) == tx # NoTx /\ tx.step = step
Then(step) == [tx EXCEPT !.step = step, !.office = 0, !.read = Unread, !.done = {}]

Writes(image, now) ==
  IF adapter = "memory"
    THEN tx' = [now EXCEPT !.image = image] /\ UNCHANGED stored
    ELSE tx' = now /\ stored' = image

\* What is there for good: SQLite's open transaction is not.
Committed == IF tx = NoTx \/ adapter = "memory" THEN stored ELSE tx.image

-------------------------------------------------------------------------------
(* OfficeConfigService.applyChange and restoreSnapshot, each in a transaction. *)

Begin(kind, target) ==
  /\ tx = NoTx /\ stored.version < MaxVersion
  /\ tx' = [kind |-> kind, target |-> target, image |-> stored, office |-> 0,
            read |-> Unread, done |-> {},
            step |-> IF kind = "change" THEN "mutate" ELSE "survey"]
  /\ crossed' = FALSE
  /\ UNCHANGED <<adapter, stored, officeRow, outside, setBack>>

ApplyChange == Begin("change", [r \in Records |-> Absent])
RestoreSnapshot == \E s \in stored.snapshots : Begin("restore", s.config)

Mutate(r, content) ==
  /\ At("mutate")
  /\ Writes([Its EXCEPT !.config[r] = content], Then("bump"))
  /\ UNCHANGED <<adapter, requestVars>>

\* The office's row, on its own or first of a configuration.
ReadOffice ==
  /\ At("bump") \/ At("survey") \/ At("read")
  /\ tx.office = 0
  /\ tx' = [tx EXCEPT !.office = Its.version]
  /\ UNCHANGED <<adapter, stored, requestVars>>

\* readOfficeConfig reads each collection in a call of its own.
ReadRecord(r) ==
  /\ At("survey") \/ At("read")
  /\ tx.office # 0
  /\ tx.read[r] = NotRead
  /\ tx' = [tx EXCEPT !.read[r] = Its.config[r]]
  /\ UNCHANGED <<adapter, stored, requestVars>>

\* What is read of the configuration is kept for a restore to compare with.
Bumped == IF tx.kind = "restore" THEN [tx EXCEPT !.step = "replace"] ELSE Then("read")

\* Mutant: the new version is put through the store and not the transaction.
BumpOutside ==
  /\ (At("bump") /\ tx.office # 0) \/ (At("survey") /\ Read)
  /\ tx' = Bumped
  /\ stored' = [stored EXCEPT !.version = tx.office + 1]
  /\ UNCHANGED <<adapter, requestVars>>

\* Mutant: a restore puts the office's row back as it was, its version included.
BumpToTheOld ==
  /\ (At("bump") /\ tx.office # 0) \/ (At("survey") /\ Read)
  /\ Writes([Its EXCEPT !.version = IF tx.kind = "restore" THEN 2 ELSE tx.office + 1], Bumped)
  /\ UNCHANGED <<adapter, requestVars>>

Bump ==
  /\ (At("bump") /\ tx.office # 0) \/ (At("survey") /\ Read)
  /\ Writes([Its EXCEPT !.version = tx.office + 1], Bumped)
  /\ UNCHANGED <<adapter, requestVars>>

\* replaceCollection: what the snapshot does not have goes, if it was there when
\* the configuration was read; what it has is put.
ReplaceRecord(r) ==
  /\ At("replace") /\ r \notin tx.done
  /\ LET put == IF tx.target[r] = Absent /\ tx.read[r] = Absent THEN Its.config[r]
                ELSE tx.target[r]
         now == [tx EXCEPT !.done = @ \cup {r}]
     IN Writes([Its EXCEPT !.config[r] = put],
               IF now.done = Records THEN Then("read") ELSE now)
  /\ UNCHANGED <<adapter, requestVars>>

TakeSnapshot ==
  /\ At("read") /\ Read
  /\ Writes([Its EXCEPT !.snapshots = @ \cup {[version |-> tx.office, config |-> tx.read]}],
            Then("commit"))
  /\ UNCHANGED <<adapter, requestVars>>

Commit ==
  /\ At("commit")
  /\ stored' = Its /\ tx' = NoTx
  /\ UNCHANGED <<adapter, requestVars>>

\* Anything in the callback may throw.
Rollback ==
  /\ tx # NoTx
  /\ stored' = Committed /\ tx' = NoTx
  /\ UNCHANGED <<adapter, requestVars>>

-------------------------------------------------------------------------------

\* A request that puts or deletes a record, in no transaction.
PutOutside(r, content) ==
  /\ outside < MaxOutside
  /\ outside' = outside + 1
  /\ stored' = [stored EXCEPT !.config[r] = content]
  /\ crossed' = (tx # NoTx)
  /\ UNCHANGED <<adapter, tx, officeRow, setBack>>

\* A request reads the office's row, as it stands in a transaction half done too...
LookUpOffice(q) ==
  /\ outside < MaxOutside /\ officeRow[q] = 0
  /\ outside' = outside + 1
  /\ officeRow' = [officeRow EXCEPT ![q] = stored.version]
  /\ UNCHANGED <<adapter, stored, tx, crossed, setBack>>

\* ...and puts the whole of it, renamed, started or stopped.
PutOffice(q) ==
  /\ officeRow[q] # 0
  /\ stored' = [stored EXCEPT !.version = officeRow[q]]
  /\ setBack' = (setBack \/ officeRow[q] # stored.version)
  /\ officeRow' = [officeRow EXCEPT ![q] = 0]
  /\ UNCHANGED <<adapter, tx, outside, crossed>>

Next ==
  \/ ApplyChange \/ RestoreSnapshot \/ ReadOffice \/ Bump \/ TakeSnapshot \/ Commit \/ Rollback
  \/ \E r \in Records :
       \/ ReadRecord(r) \/ ReplaceRecord(r)
       \/ \E content \in Content : Mutate(r, content) \/ PutOutside(r, content)
  \/ \E q \in Clients : LookUpOffice(q) \/ PutOffice(q)

Spec == Init /\ [][Next]_vars

-------------------------------------------------------------------------------
(* Safety.                                                                     *)

\* Every snapshot has a version of its own, none newer than the office's, through
\* changes, restores, transactions that fail half way and offices renamed, started
\* and stopped meanwhile; until a route puts back a row that is no longer the
\* office's, and its version with it.
VersionsApart ==
  ~setBack =>
    /\ \A s, t \in stored.snapshots : s.version = t.version => s = t
    /\ \A s \in stored.snapshots : s.version <= stored.version

\* One record, or the office's row as a request had read it.
OneWrite ==
  /\ Committed'.snapshots = Committed.snapshots
  /\ \/ /\ Committed'.version = Committed.version
        /\ \E r \in Records, c \in Content :
             Committed'.config = [Committed.config EXCEPT ![r] = c]
     \/ /\ Committed'.config = Committed.config
        /\ \E q \in Clients : Committed'.version = officeRow[q]

OneVersion ==
  \E s \in Committed'.snapshots :
    /\ Committed'.snapshots = Committed.snapshots \cup {s}
    /\ ~setBack => Committed'.version = Committed.version + 1 /\ s.version = Committed'.version
    /\ ~crossed => s.config = Committed'.config

\* What is there for good changes by one write made outside, or by one change or
\* restore in full: the version, the snapshot that carries it and, unless somebody
\* wrote a record meanwhile, in the snapshot exactly the configuration committed,
\* which is the one it changes by a record or the one of the snapshot it restores.
AllOrNothing ==
  [][ \/ OneWrite
      \/ /\ OneVersion
         /\ \/ crossed
            \/ tx.kind = "restore" /\ Committed'.config = tx.target
            \/ \E r \in Records, c \in Content :
                 Committed'.config = [Committed.config EXCEPT ![r] = c] ]_Committed

\* A version of the configuration is one configuration for as long as no old row of
\* the office is put back, and a transaction that writes it is there in full or not
\* at all (snapshots.ts, in-memory.ts, sqlite-store.ts, the routes of the office).
StoresHold == [](TypeOK /\ VersionsApart) /\ AllOrNothing
===============================================================================
