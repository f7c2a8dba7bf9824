----------------------------- MODULE StateStore -----------------------------
(***************************************************************************)
(* StateStore (core/state): the SQLite database that every run of the      *)
(* window and of bumpcap-cli opens, how the first of them creates its      *)
(* tables, and bumpcap-cli notes-import, its longest series of writes.     *)
(*                                                                         *)
(* open() migrates in one deferred transaction: BEGIN takes no lock, the   *)
(* query for the schema version takes a SHARED lock, the first CREATE      *)
(* TABLE a RESERVED one, and COMMIT a PENDING one, which it holds until    *)
(* nobody reads any more.  SQLite waits five seconds for a lock, but a     *)
(* reader that wants to write while another does is refused at once.  A    *)
(* process that dies loses its locks, and what it has not committed is     *)
(* rolled back by the next reader.                                         *)
(*                                                                         *)
(* Time is left out: five seconds may pass whenever a lock is not free.    *)
(***************************************************************************)

CONSTANTS
    Processes,      \* the runs of either program
    Versions,       \* the kernel versions an imported file has notes for
    NoNote          \* the note of a version that has none

ASSUME StoreAssumption == NoNote \notin Processes

VARIABLES
    schema,     \* the committed database: its tables, and the schema version in them
    notes,      \* the table notes: who wrote the note of each version
    pc,         \* where each process is in open()
    lock,       \* the lock it holds on the database
    found,      \* the schema version it read
    import,     \* where it is in notes-import
    left        \* the versions of its file it has not written yet

opening == <<pc, lock, found>>
vars    == <<schema, notes, opening, import, left>>

Places == {"closed", "begun", "read", "created", "versioned", "open", "failed"}

Init ==
    /\ schema = [tables |-> FALSE, version |-> 0]
    /\ notes = [v \in Versions |-> NoNote]
    /\ pc = [p \in Processes |-> "closed"]
    /\ lock = [p \in Processes |-> "none"]
    /\ found = [p \in Processes |-> 0]
    /\ import = [p \in Processes |-> "none"]
    /\ left = [p \in Processes |-> Versions]

Go(p, place) == pc' = [pc EXCEPT ![p] = place]

Hold(p, level) == lock' = [lock EXCEPT ![p] = level]

Others(p) == Processes \ {p}

-----------------------------------------------------------------------------
(***************************************************************************)
(* SQLite.                                                                 *)
(***************************************************************************)

\* A SHARED lock is given unless somebody waits to commit.
MayRead(p) == \A q \in Others(p) : lock[q] # "pending"

\* A RESERVED lock is given to one process.
MayWrite(p) == \A q \in Others(p) : lock[q] \notin {"reserved", "pending"}

\* COMMIT waits until nobody else holds a lock.
MayCommit(p) == \A q \in Others(p) : lock[q] = "none"

(***************************************************************************)
(* StateStore::open.                                                       *)
(***************************************************************************)

\* Mutant: the transaction stays open.
giveUp_NoRollback(p) == Go(p, "failed") /\ UNCHANGED lock

\* rollback, and close() in open(), which ends the transaction of a failed commit too.
giveUp(p) == Go(p, "failed") /\ Hold(p, "none")

\* ensureDatabaseDirectory, addDatabase and transaction, any of which may fail.  A
\* process that failed begins anew: it is the next run.
begin(p) ==
    /\ pc[p] \in {"closed", "failed"}
    /\ Go(p, "begun") \/ Go(p, "failed")
    /\ UNCHANGED <<schema, notes, lock, found, import, left>>

schemaVersion(p) ==
    /\ pc[p] = "begun"
    /\ \/ /\ MayRead(p)
          /\ Hold(p, "shared")
          /\ found' = [found EXCEPT ![p] = IF schema.tables THEN schema.version ELSE 0]
          /\ Go(p, "read")
       \/ /\ ~MayRead(p)
          /\ giveUp(p)
          /\ UNCHANGED found
    /\ UNCHANGED <<schema, notes, import, left>>

\* Mutant: every statement is a transaction of its own.
createTables_AutoCommit(p) ==
    /\ schema' = [schema EXCEPT !.tables = TRUE]
    /\ Hold(p, "reserved")

\* What the CREATE statements do before COMMIT, which nobody else can see.
createTables(p) == Hold(p, "reserved") /\ UNCHANGED schema

\* The script fails on the table that exists already, on a lock, or on the disk.
executeSqlScript(p) ==
    /\ pc[p] = "read"
    /\ found[p] = 0
    /\ \/ /\ MayWrite(p) /\ ~schema.tables
          /\ createTables(p)
          /\ Go(p, "created")
       \/ giveUp(p) /\ UNCHANGED schema
    /\ UNCHANGED <<notes, found, import, left>>

setSchemaVersion(p) ==
    /\ pc[p] = "created"
    /\ \/ Go(p, "versioned") /\ UNCHANGED lock
       \/ giveUp(p)
    /\ UNCHANGED <<schema, notes, found, import, left>>

\* COMMIT of a transaction that has only read.
commitNothing(p) ==
    /\ pc[p] = "read"
    /\ found[p] = 1
    /\ Hold(p, "none")
    /\ Go(p, "open")
    /\ UNCHANGED <<schema, notes, found, import, left>>

askToCommit(p) ==
    /\ pc[p] = "versioned"
    /\ lock[p] = "reserved"
    /\ Hold(p, "pending")
    /\ UNCHANGED <<schema, notes, pc, found, import, left>>

\* Mutant: the version is counted on before it is stored.
Migrated_Ahead == [tables |-> TRUE, version |-> 2]

Migrated == [tables |-> TRUE, version |-> 1]

commit(p) ==
    /\ lock[p] = "pending"
    /\ MayCommit(p)
    /\ schema' = Migrated
    /\ Hold(p, "none")
    /\ Go(p, "open")
    /\ UNCHANGED <<notes, found, import, left>>

\* Mutant: the result of commit() is not looked at.
commitFails_Ignored(p) ==
    /\ lock[p] = "pending"
    /\ ~MayCommit(p)
    /\ Go(p, "open")
    /\ Hold(p, "none")
    /\ UNCHANGED <<schema, notes, found, import, left>>

\* Somebody read for five seconds.
commitFails(p) ==
    /\ lock[p] = "pending"
    /\ ~MayCommit(p)
    /\ giveUp(p)
    /\ UNCHANGED <<schema, notes, found, import, left>>

(***************************************************************************)
(* What an open store does.                                                *)
(***************************************************************************)

\* NotesImportCommand, with a file of a note for every version.
beginImport(p) ==
    /\ pc[p] = "open"
    /\ import[p] = "none"
    /\ import' = [import EXCEPT ![p] = "importing"]
    /\ UNCHANGED <<schema, notes, opening, left>>

\* Mutant: a note that was not written is passed over.
importFails_Continues(p, v) ==
    /\ left' = [left EXCEPT ![p] = @ \ {v}]
    /\ UNCHANGED import

\* The command reports the error; the notes before this one stay.
importFails(p, v) ==
    /\ import' = [import EXCEPT ![p] = "error"]
    /\ UNCHANGED left

\* setNote is a transaction of its own.  It fails when the lock is not free for five
\* seconds, or the disk is full.
setNote(p, v) ==
    /\ import[p] = "importing"
    /\ v \in left[p]
    /\ \/ /\ MayCommit(p)
          /\ notes' = [notes EXCEPT ![v] = p]
          /\ left' = [left EXCEPT ![p] = @ \ {v}]
          /\ UNCHANGED import
       \/ importFails(p, v) /\ UNCHANGED notes
    /\ UNCHANGED <<schema, opening>>

finishImport(p) ==
    /\ import[p] = "importing"
    /\ left[p] = {}
    /\ import' = [import EXCEPT ![p] = "ok"]
    /\ UNCHANGED <<schema, notes, opening, left>>

\* The process ends or dies; the next run starts with nothing.
ends(p) ==
    /\ pc[p] # "closed"
    /\ Go(p, "closed")
    /\ Hold(p, "none")
    /\ found' = [found EXCEPT ![p] = 0]
    /\ import' = [import EXCEPT ![p] = "none"]
    /\ left' = [left EXCEPT ![p] = Versions]
    /\ UNCHANGED <<schema, notes>>

-----------------------------------------------------------------------------

Open(p) ==
    \/ begin(p) \/ schemaVersion(p) \/ executeSqlScript(p) \/ setSchemaVersion(p)
    \/ commitNothing(p) \/ askToCommit(p) \/ commit(p) \/ commitFails(p)

Next ==
    \E p \in Processes :
        \/ Open(p)
        \/ beginImport(p) \/ finishImport(p) \/ \E v \in Versions : setNote(p, v)
        \/ ends(p)

Spec == Init /\ [][Next]_vars

-----------------------------------------------------------------------------
(***************************************************************************)
(* Properties.                                                             *)
(***************************************************************************)

\* The state has its types.
TypeOK ==
    /\ schema \in [tables : BOOLEAN, version : {0, 1}]
    /\ notes \in [Versions -> Processes \cup {NoNote}]
    /\ pc \in [Processes -> Places]
    /\ lock \in [Processes -> {"none", "shared", "reserved", "pending"}]
    /\ found \in [Processes -> {0, 1}]
    /\ import \in [Processes -> {"none", "importing", "ok", "error"}]
    /\ left \in [Processes -> SUBSET Versions]

\* A process holds a lock only inside open(), and nobody writes beside another: an
\* open() that failed does not keep the others from the database.
LocksAreReleased ==
    /\ \A p \in Processes : pc[p] \in {"closed", "begun", "open", "failed"} => lock[p] = "none"
    /\ \A p, q \in Processes :
          {lock[p], lock[q]} \subseteq {"reserved", "pending"} => p = q

\* A crash or an error in the middle of open() never leaves a database with tables
\* and no version, which no later open() could migrate.
SchemaIsWhole == schema.tables <=> schema.version = 1

\* A store that is open has its tables, whoever created them.
OpenIsMigrated == \A p \in Processes : pc[p] = "open" => schema.tables

\* An import that reports success has written every note of its file, whatever other
\* processes did in between.
ImportOkMeansAll ==
    \A p \in Processes : import[p] = "ok" => \A v \in Versions : notes[v] # NoNote

=============================================================================
