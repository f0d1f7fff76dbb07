------------------------------ MODULE FileStorage ------------------------------
(***************************************************************************)
(* Bytes attributes kept in files (BytesFileSystemStorage, AddFileOp and   *)
(* DeleteFileOp of cubicweb/server/sources/storages.py) under the          *)
(* transactions of several connections.                                    *)
(*                                                                         *)
(* A row holds the path of a file.  The database can undo a write, the     *)
(* file system cannot: a file that was created is unlinked by an operation *)
(* on rollback, a file that is replaced by one after the commit.           *)
(***************************************************************************)
CONSTANTS
    Cnx,       \* the repository connections
    Entity,    \* the entities whose attribute is in the storage
    Path,      \* bound: the file names there are
    Imports,   \* files that exist and are imported under their own name
    Null,      \* the attribute has no value
    Absent,    \* the entity does not exist
    Nobody,
    None,      \* no statement
    StorageFaults  \* the faults a behaviour may meet

(* dbrollback: a statement fails, or the server hung up, and the writes of *)
(*     the transaction are lost while its operations stay;                 *)
(* commitfails: COMMIT raises;                                             *)
(* diskfull: the content of a new file cannot be written;                  *)
(* crash: the process dies.                                                *)
AllStorageFaults == {"dbrollback", "commitfails", "diskfull", "crash"}

ASSUME ImportsAssumption == Imports \subseteq Path
ASSUME ValueAssumption == Null \notin Path /\ Absent \notin Path /\ Null # Absent
ASSUME NobodyAssumption == Nobody \notin Cnx
ASSUME StorageFaultsAssumption == StorageFaults \subseteq AllStorageFaults

VARIABLES
    files,        \* the files on disk
    row,          \* row[e]: committed value of the column
    written,      \* written[c]: rows the transaction of c wrote
    lock,         \* lock[e]: the connection that holds the row
    statement,    \* the statement that c is about to execute, or None
    addFiles,     \* data of the AddFileOp of c
    deleteFiles,  \* data of its DeleteFileOp
    stage,        \* where the transaction of c is
    doomed,       \* history: files to be removed although a row has them, or will
    forgotten     \* history: new or replaced files that nothing will unlink

transaction == <<written, statement, addFiles, deleteFiles, stage>>
history == <<doomed, forgotten>>
storageVars == <<files, row, lock, transaction, history>>

Value == Path \cup {Null, Absent}
NoWrites == [e \in {} |-> Null]
\* old, the value the storage read when it prepared the statement, is history.
Statement == [kind : {"insert", "update", "delete"}, entity : Entity, value : Value,
              old : Value]
Stages == {"query", "postcommit", "rollback"}

ASSUME StatementAssumption == None \notin Statement

StorageInit ==
    /\ files = Imports
    /\ row = [e \in Entity |-> Absent]
    /\ written = [c \in Cnx |-> NoWrites]
    /\ lock = [e \in Entity |-> Nobody]
    /\ statement = [c \in Cnx |-> None]
    /\ addFiles = [c \in Cnx |-> {}]
    /\ deleteFiles = [c \in Cnx |-> {}]
    /\ stage = [c \in Cnx |-> "query"]
    /\ doomed = {}
    /\ forgotten = {}

\* What c reads.
Seen(c, e) == IF e \in DOMAIN written[c] THEN written[c][e] ELSE row[e]

\* c runs ordinary code and no statement of it waits for a row.
Free(c) == stage[c] = "query" /\ statement[c] = None

--------------------------------------------------------------------------------
(* The storage, called before the statement is executed.                   *)

Prepare(c, k, e, v) ==
    statement' = [statement EXCEPT
                     ![c] = [kind |-> k, entity |-> e, value |-> v, old |-> Seen(c, e)]]

\* Mutant: the file that is replaced stays on disk.
Obsolete_Kept(c, p) == UNCHANGED deleteFiles

\* DeleteFileOp learns that p, if it is a file, is not needed any more.
Obsolete(c, p) ==
    deleteFiles' = IF p \in Path THEN [deleteFiles EXCEPT ![c] = @ \cup {p}]
                   ELSE deleteFiles

\* mkstemp draws names at random: p is not the name of a file and nothing recalls it.
FreshName(p) ==
    /\ p \notin files \cup Imports
    /\ \A e \in Entity : row[e] # p
    /\ \A c \in Cnx : /\ p \notin addFiles[c] \cup deleteFiles[c]
                      /\ \A e \in Entity : Seen(c, e) # p

\* new_fs_path and _writecontent.
NewFile(c, p) ==
    /\ FreshName(p)
    /\ files' = files \cup {p}
    /\ addFiles' = [addFiles EXCEPT ![c] = @ \cup {p}]
    /\ doomed' = doomed \ {p}
    /\ forgotten' = forgotten \ {p}

\* e is a new eid: no transaction deals with it.
New(e) ==
    /\ row[e] = Absent
    /\ lock[e] = Nobody
    /\ \A c \in Cnx : statement[c] # None => statement[c].entity # e

\* A file to import that no other entity has, or had in an open transaction.
Importable(e, p) ==
    /\ p \in Imports \cap files
    /\ \A x \in Entity \ {e} : row[x] # p /\ \A c \in Cnx : Seen(c, x) # p
    /\ \A c \in Cnx : statement[c] # None /\ statement[c].value = p
                         => statement[c].entity = e

\* entity_added; the value None has no file.
Add(c, e) ==
    /\ Free(c)
    /\ New(e)
    /\ \/ \E p \in Path : NewFile(c, p) /\ Prepare(c, "insert", e, p)
       \/ Prepare(c, "insert", e, Null) /\ UNCHANGED <<files, addFiles, history>>
    /\ UNCHANGED <<row, written, lock, deleteFiles, stage>>

\* entity_added under fsimport
AddImported(c, e) ==
    /\ Free(c)
    /\ New(e)
    /\ \E p \in Path : Importable(e, p) /\ Prepare(c, "insert", e, p)
    /\ UNCHANGED <<files, row, written, lock, addFiles, deleteFiles, stage, history>>

\* entity_updated
Update(c, e) ==
    /\ Free(c)
    /\ Seen(c, e) # Absent
    /\ \E p \in Path : NewFile(c, p) /\ Prepare(c, "update", e, p)
    /\ Obsolete(c, Seen(c, e))
    /\ UNCHANGED <<row, written, lock, stage>>

\* entity_updated with the value None
UpdateToNull(c, e) ==
    /\ Free(c)
    /\ Seen(c, e) # Absent
    /\ Prepare(c, "update", e, Null)
    /\ Obsolete(c, Seen(c, e))
    /\ UNCHANGED <<files, row, written, lock, addFiles, stage, history>>

\* entity_updated under fsimport.  The path to import is bytes, the one that the row
\* holds str: they never compare equal, and a file that is imported again under the
\* path the row holds already is to be removed like any other.
UpdateImported(c, e) ==
    /\ Free(c)
    /\ Seen(c, e) # Absent
    /\ \E p \in Path : Importable(e, p) /\ Prepare(c, "update", e, p)
    /\ Obsolete(c, Seen(c, e))
    /\ UNCHANGED <<files, row, written, lock, addFiles, stage, history>>

\* entity_deleted
Delete(c, e) ==
    /\ Free(c)
    /\ Seen(c, e) # Absent
    /\ Prepare(c, "delete", e, Absent)
    /\ Obsolete(c, Seen(c, e))
    /\ UNCHANGED <<files, row, written, lock, addFiles, stage, history>>

\* _writecontent raises: the file is there and no operation knows it.
DiskFull(c) ==
    /\ "diskfull" \in StorageFaults
    /\ Free(c)
    /\ \E p \in Path : /\ FreshName(p)
                      /\ files' = files \cup {p}
                      /\ forgotten' = forgotten \cup {p}
    /\ UNCHANGED <<row, lock, transaction, doomed>>

--------------------------------------------------------------------------------
(* The database.                                                           *)

\* Imported files that some transaction replaced.
Replaced == Imports \cap ((UNION {deleteFiles[c] : c \in Cnx}) \cup (Imports \ files))

\* The statement gets its row; a row deleted meanwhile is not found any more.
Execute(c) ==
    /\ statement[c] # None
    /\ LET s == statement[c]
           now == Seen(c, s.entity)
       IN /\ lock[s.entity] \in {c, Nobody}
          /\ IF s.kind # "insert" /\ now = Absent
             THEN /\ forgotten' = forgotten \cup ({s.value} \cap Path)
                  /\ UNCHANGED <<lock, written, doomed>>
             ELSE /\ lock' = [lock EXCEPT ![s.entity] = c]
                  /\ written' = [written EXCEPT ![c] =
                                     [e \in DOMAIN written[c] \cup {s.entity} |->
                                         IF e = s.entity THEN s.value ELSE written[c][e]]]
                  /\ forgotten' = forgotten \cup (({now} \ {s.old}) \cap Path)
                  /\ doomed' = doomed \cup ({s.value} \cap Replaced)
    /\ statement' = [statement EXCEPT ![c] = None]
    /\ UNCHANGED <<files, row, addFiles, deleteFiles, stage>>

\* The database transaction of c is over.
Unlocked(c) == [e \in Entity |-> IF lock[e] = c THEN Nobody ELSE lock[e]]

Undone(c) ==
    /\ written' = [written EXCEPT ![c] = NoWrites]
    /\ statement' = [statement EXCEPT ![c] = None]
    /\ lock' = Unlocked(c)

\* doexec rolls back or system_sql reconnects, and the caller goes on.
DbRollback(c) ==
    /\ "dbrollback" \in StorageFaults
    /\ stage[c] = "query"
    /\ Undone(c)
    /\ doomed' = doomed \cup deleteFiles[c]
    /\ forgotten' = forgotten \cup addFiles[c]
    /\ UNCHANGED <<files, row, addFiles, deleteFiles, stage>>

--------------------------------------------------------------------------------
(* The end of a transaction.                                               *)

\* Mutant: the data of AddFileOp outlives the transaction.
Clear_KeepAdded(c) ==
    /\ deleteFiles' = [deleteFiles EXCEPT ![c] = {}]
    /\ stage' = [stage EXCEPT ![c] = "query"]
    /\ UNCHANGED addFiles

\* Connection.clear
Clear(c) ==
    /\ addFiles' = [addFiles EXCEPT ![c] = {}]
    /\ deleteFiles' = [deleteFiles EXCEPT ![c] = {}]
    /\ stage' = [stage EXCEPT ![c] = "query"]

DbCommit(c) ==
    /\ Free(c)
    /\ row' = [e \in Entity |-> Seen(c, e)]
    /\ Undone(c)
    /\ stage' = [stage EXCEPT ![c] = "postcommit"]
    /\ UNCHANGED <<files, addFiles, deleteFiles, history>>

\* COMMIT raises: clear() drops the operations.
DbCommitFails(c) ==
    /\ "commitfails" \in StorageFaults
    /\ Free(c)
    /\ Undone(c)
    /\ Clear(c)
    /\ forgotten' = forgotten \cup addFiles[c]
    /\ UNCHANGED <<files, row, doomed>>

\* Mutant: the files are unlinked in the precommit event.
UnlinkReplaced_Precommit(c) ==
    /\ \E p \in deleteFiles[c] :
          /\ files' = files \ {p}
          /\ deleteFiles' = [deleteFiles EXCEPT ![c] = @ \ {p}]
    /\ UNCHANGED <<row, written, lock, statement, addFiles, stage, history>>

\* DeleteFileOp.postcommit_event, file by file.
UnlinkReplaced(c) ==
    /\ stage[c] = "postcommit"
    /\ \E p \in deleteFiles[c] :
          /\ files' = files \ {p}
          /\ deleteFiles' = [deleteFiles EXCEPT ![c] = @ \ {p}]
    /\ UNCHANGED <<row, written, lock, statement, addFiles, stage, history>>

CommitReturns(c) ==
    /\ stage[c] = "postcommit"
    /\ deleteFiles[c] = {}
    /\ Clear(c)
    /\ UNCHANGED <<files, row, written, lock, statement, history>>

Rollback(c) ==
    /\ Free(c)
    /\ stage' = [stage EXCEPT ![c] = "rollback"]
    /\ UNCHANGED <<files, row, written, lock, statement, addFiles, deleteFiles, history>>

\* AddFileOp.rollback_event, file by file.
UnlinkAdded(c) ==
    /\ stage[c] = "rollback"
    /\ \E p \in addFiles[c] :
          /\ files' = files \ {p}
          /\ addFiles' = [addFiles EXCEPT ![c] = @ \ {p}]
    /\ UNCHANGED <<row, written, lock, statement, deleteFiles, stage, history>>

RollbackReturns(c) ==
    /\ stage[c] = "rollback"
    /\ addFiles[c] = {}
    /\ Undone(c)
    /\ Clear(c)
    /\ UNCHANGED <<files, row, history>>

\* The process of all the connections dies; it starts again.
Crash ==
    /\ "crash" \in StorageFaults
    /\ written' = [c \in Cnx |-> NoWrites]
    /\ statement' = [c \in Cnx |-> None]
    /\ lock' = [e \in Entity |-> Nobody]
    /\ addFiles' = [c \in Cnx |-> {}]
    /\ deleteFiles' = [c \in Cnx |-> {}]
    /\ stage' = [c \in Cnx |-> "query"]
    /\ forgotten' = forgotten \cup (UNION {addFiles[c] : c \in Cnx})
                       \cup (UNION {deleteFiles[c] :
                                    c \in {d \in Cnx : stage[d] = "postcommit"}})
    /\ UNCHANGED <<files, row, doomed>>

Step(c) ==
    \/ \E e \in Entity : Add(c, e) \/ AddImported(c, e) \/ Update(c, e)
                         \/ UpdateToNull(c, e) \/ UpdateImported(c, e) \/ Delete(c, e)
    \/ DiskFull(c)
    \/ Execute(c)
    \/ DbRollback(c)
    \/ DbCommit(c)
    \/ DbCommitFails(c)
    \/ UnlinkReplaced(c)
    \/ CommitReturns(c)
    \/ Rollback(c)
    \/ UnlinkAdded(c)
    \/ RollbackReturns(c)

StorageNext == (\E c \in Cnx : Step(c)) \/ Crash

StorageSpec == StorageInit /\ [][StorageNext]_storageVars

--------------------------------------------------------------------------------

\* storages.py:170-178: the storage "expects to be able to retrieve the current value
\* of the attribute at anytime by reading the file on disk".  Every path a connection
\* can read in the database is a file on disk, while others commit and roll back, but
\* for two ways to lose it: its replacement was undone behind the back of the
\* transaction, whose operation stays; or it was imported while an operation was to
\* remove it, as every file is that is imported under the path the row holds already.
ValueOnDisk ==
    \A c \in Cnx, e \in Entity :
        stage[c] = "query" /\ Seen(c, e) \in Path => Seen(c, e) \in files \cup doomed

\* storages.py:257-276.  A file the committed database refers to is never unlinked by
\* the rollback of a transaction, not even of a later one on the same connection; and
\* by a transaction that committed only if it is one of the files that are lost in the
\* two ways above, whatever failed before.
OnlyCommitUnlinks ==
    [][\A p \in files \ files' :
          (\E e \in Entity : row[e] = p)
             => /\ p \in doomed
                /\ \E c \in Cnx : stage[c] = "postcommit" /\ p \in deleteFiles[c]]_storageVars

\* No transaction is under way.
Quiet == \A c \in Cnx : Free(c) /\ written[c] = NoWrites /\ addFiles[c] = {}
                        /\ deleteFiles[c] = {}

\* storages.py:190-191, 203-206.  Once no transaction is under way, the files of the
\* storage are those the database knows: a rollback removed the new ones, a commit
\* the replaced ones.  Left behind are only those whose content could not be written,
\* whose operation was lost with its process or with a COMMIT or statement that
\* failed, or whose row another transaction changed before this one locked it.
NoOrphan == Quiet => files \subseteq Imports \cup {row[e] : e \in Entity} \cup forgotten
================================================================================
