----------------------------- MODULE EidTypeCache ------------------------------
(***************************************************************************)
(* The cache `eid -> entity type' that the connections of a repository     *)
(* share, and the caches of the other instances running on the same        *)
(* database (Repository._type_cache of cubicweb/server/repository.py, the  *)
(* Cleanup*EidsCacheOp operations of hook.py, eid_type of native.py, the   *)
(* `delete' messages of hooks/zmq.py).                                     *)
(*                                                                         *)
(* The type of an entity never changes and an eid is never used twice, so  *)
(* the cache is the set of the eids it knows.  What matters is whether it  *)
(* still knows an entity that does not exist.                              *)
(***************************************************************************)
EXTENDS FiniteSets

CONSTANTS
    Instance,  \* the instances (processes) of the application
    Cnx,       \* their repository connections
    Eid,       \* bound: the eids the sequence will deliver
    NoEid,
    Faults     \* the faults a behaviour may meet

(* refused: a hook or the edition check refuses an entity being added;     *)
(* sqlerror: a statement fails, the database transaction is rolled back    *)
(*     and the caller swallows the exception;                              *)
(* commitfails: COMMIT raises;                                             *)
(* lost: a message to another instance is lost.                            *)
AllFaults == {"refused", "sqlerror", "commitfails", "lost"}

ASSUME NoEidAssumption == NoEid \notin Eid
ASSUME CacheFaultsAssumption == Faults \subseteq AllFaults

VARIABLES
    home,         \* home[c]: the instance c belongs to
    cache,        \* cache[i]: the keys of _type_cache in instance i
    rows,         \* committed rows of the table `entities'
    used,         \* eids drawn from the sequence
    adding,       \* the entity c is adding and has not written yet, or NoEid
    added,        \* rows inserted by the open database transaction of c
    removed,      \* rows deleted by it
    neweids,      \* transaction_data['neweids'] of c
    pendingeids,  \* transaction_data['pendingeids'] of c
    lookup,       \* the eid c has read the type of and not cached yet, or NoEid
    stage,        \* where the transaction of c is
    messages,     \* `delete' messages on their way: instance and eids
    ever,         \* history: eids that were committed some day
    missed,       \* history: missed[i], deletions that i could not notice
    abandoned     \* history: eids added in vain that no cleanup operation knows

transaction == <<added, removed, neweids, pendingeids>>
history == <<ever, missed, abandoned>>
vars == <<home, cache, rows, used, adding, transaction, lookup, stage, messages, history>>

\* refused: the transaction is uncommitable; postcommit: the database committed.
Stages == {"query", "refused", "postcommit"}

\* An instance starts on a database that holds some entities.
Init ==
    /\ home \in [Cnx -> Instance]
    /\ cache = [i \in Instance |-> {}]
    /\ rows \in SUBSET Eid
    /\ used = rows
    /\ adding = [c \in Cnx |-> NoEid]
    /\ added = [c \in Cnx |-> {}]
    /\ removed = [c \in Cnx |-> {}]
    /\ neweids = [c \in Cnx |-> {}]
    /\ pendingeids = [c \in Cnx |-> {}]
    /\ lookup = [c \in Cnx |-> NoEid]
    /\ stage = [c \in Cnx |-> "query"]
    /\ messages = {}
    /\ ever = rows
    /\ missed = [i \in Instance |-> {}]
    /\ abandoned = {}

\* What a SELECT of c sees.
Visible(c) == (rows \cup added[c]) \ removed[c]

\* c runs ordinary code, between two calls.
Free(c) == stage[c] \in {"query", "refused"} /\ adding[c] = NoEid /\ lookup[c] = NoEid

--------------------------------------------------------------------------------
(* Adding and deleting entities.                                           *)

\* glob_add_entity draws an eid and sets the caches `asap', before any hook.
AllocateEid(c, e) ==
    /\ stage[c] = "query"
    /\ Free(c)
    /\ e \notin used
    /\ used' = used \cup {e}
    /\ adding' = [adding EXCEPT ![c] = e]
    /\ cache' = [cache EXCEPT ![home[c]] = @ \cup {e}]
    /\ UNCHANGED <<home, rows, transaction, lookup, stage, messages, history>>

\* before_add_entity hooks, preprocess_inlined_relations or edited.check raise.
RefuseAdd(c) ==
    /\ "refused" \in Faults
    /\ adding[c] # NoEid
    /\ adding' = [adding EXCEPT ![c] = NoEid]
    /\ stage' = [stage EXCEPT ![c] = "refused"]
    /\ abandoned' = abandoned \cup {adding[c]}
    /\ UNCHANGED <<home, cache, rows, used, transaction, lookup, messages, ever,
                   missed>>

\* Mutant: the cleanup operation does not learn of the entity.
AddInfo_NoCleanup(c) ==
    /\ adding[c] # NoEid
    /\ added' = [added EXCEPT ![c] = @ \cup {adding[c]}]
    /\ adding' = [adding EXCEPT ![c] = NoEid]
    /\ UNCHANGED <<home, cache, rows, used, removed, neweids, pendingeids, lookup,
                   stage, messages, history>>

\* add_info: the cleanup operation learns of the entity, which is inserted.
AddInfo(c) ==
    /\ adding[c] # NoEid
    /\ neweids' = [neweids EXCEPT ![c] = @ \cup {adding[c]}]
    /\ added' = [added EXCEPT ![c] = @ \cup {adding[c]}]
    /\ adding' = [adding EXCEPT ![c] = NoEid]
    /\ UNCHANGED <<home, cache, rows, used, removed, pendingeids, lookup, stage, messages,
                   history>>

\* glob_delete_entities; it looks up the type of what it deletes.
Delete(c, e) ==
    /\ stage[c] = "query"
    /\ Free(c)
    /\ e \in Visible(c) \ pendingeids[c]
    /\ pendingeids' = [pendingeids EXCEPT ![c] = @ \cup {e}]
    /\ removed' = [removed EXCEPT ![c] = @ \cup {e}]
    /\ cache' = [cache EXCEPT ![home[c]] = @ \cup {e}]
    /\ UNCHANGED <<home, rows, used, adding, added, neweids, lookup, stage, messages,
                   history>>

\* doexec fails and rolls the database back; the operations stay.
SqlError(c) ==
    /\ "sqlerror" \in Faults
    /\ Free(c)
    /\ added' = [added EXCEPT ![c] = {}]
    /\ removed' = [removed EXCEPT ![c] = {}]
    /\ UNCHANGED <<home, cache, rows, used, adding, neweids, pendingeids, lookup,
                   stage, messages, history>>

--------------------------------------------------------------------------------
(* type_from_eid, when the cache does not know the eid.                    *)

\* eid_type reads the table.
LookupRead(c, e) ==
    /\ Free(c)
    /\ e \in Visible(c) \ cache[home[c]]
    /\ lookup' = [lookup EXCEPT ![c] = e]
    /\ UNCHANGED <<home, cache, rows, used, adding, transaction, stage, messages,
                   history>>

LookupFill(c) ==
    /\ lookup[c] # NoEid
    /\ cache' = [cache EXCEPT ![home[c]] = @ \cup {lookup[c]}]
    /\ lookup' = [lookup EXCEPT ![c] = NoEid]
    /\ UNCHANGED <<home, rows, used, adding, transaction, stage, messages, history>>

--------------------------------------------------------------------------------
(* The end of a transaction.                                               *)

\* Connection.clear
Clear(c) ==
    /\ neweids' = [neweids EXCEPT ![c] = {}]
    /\ pendingeids' = [pendingeids EXCEPT ![c] = {}]

DatabaseDone(c) ==
    /\ added' = [added EXCEPT ![c] = {}]
    /\ removed' = [removed EXCEPT ![c] = {}]

\* What the connections of i are reading the type of.
Reading(i) == {lookup[c] : c \in {d \in Cnx : home[d] = i}}

\* Repository.clear_caches(eids) in instance i; a lookup under way misses it.
ClearCaches(i, eids) ==
    /\ cache' = [cache EXCEPT ![i] = @ \ eids]
    /\ missed' = [missed EXCEPT ![i] = (@ \ eids) \cup (eids \cap Reading(i))]

DbCommit(c) ==
    /\ stage[c] = "query"
    /\ Free(c)
    /\ rows' = (rows \cup added[c]) \ removed[c]
    /\ ever' = ever \cup added[c]
    /\ abandoned' = abandoned \cup (neweids[c] \ added[c])
    /\ DatabaseDone(c)
    /\ stage' = [stage EXCEPT ![c] = "postcommit"]
    /\ UNCHANGED <<home, cache, used, adding, neweids, pendingeids, lookup,
                   messages, missed>>

\* COMMIT raises: clear() drops the operations.
DbCommitFails(c) ==
    /\ "commitfails" \in Faults
    /\ stage[c] = "query"
    /\ Free(c)
    /\ DatabaseDone(c)
    /\ Clear(c)
    /\ abandoned' = abandoned \cup neweids[c]
    /\ UNCHANGED <<home, cache, rows, used, adding, lookup, stage, messages, ever,
                   missed>>

\* The other instances; one without connections has nothing in its cache.
Others(c) == {home[d] : d \in Cnx} \ {home[c]}

\* Mutant: the deleting instance keeps its own entries.
Postcommit_OthersOnly(c) ==
    /\ stage[c] = "postcommit"
    /\ messages' = IF pendingeids[c] = {} THEN messages
                   ELSE messages \cup {[to |-> i, eids |-> pendingeids[c]] :
                                       i \in Others(c)}
    /\ Clear(c)
    /\ stage' = [stage EXCEPT ![c] = "query"]
    /\ UNCHANGED <<home, cache, rows, used, adding, added, removed, lookup, ever,
                   missed, abandoned>>

\* CleanupDeletedEidsCacheOp.postcommit_event
Postcommit(c) ==
    /\ stage[c] = "postcommit"
    /\ ClearCaches(home[c], pendingeids[c])
    /\ messages' = IF pendingeids[c] = {} THEN messages
                   ELSE messages \cup {[to |-> i, eids |-> pendingeids[c]] :
                                       i \in Others(c)}
    /\ Clear(c)
    /\ stage' = [stage EXCEPT ![c] = "query"]
    /\ UNCHANGED <<home, rows, used, adding, added, removed, lookup, ever,
                   abandoned>>

\* rollback(): CleanupNewEidsCacheOp.rollback_event, then the database, which is one
\* step because nobody else sees what the database forgets.
Rollback(c) ==
    /\ Free(c)
    /\ ClearCaches(home[c], neweids[c])
    /\ Clear(c)
    /\ DatabaseDone(c)
    /\ stage' = [stage EXCEPT ![c] = "query"]
    /\ UNCHANGED <<home, rows, used, adding, lookup, messages, ever, abandoned>>

--------------------------------------------------------------------------------
(* The event bus of the instances.                                         *)

Deliver(m) ==
    /\ m \in messages
    /\ messages' = messages \ {m}
    /\ ClearCaches(m.to, m.eids)
    /\ UNCHANGED <<home, rows, used, adding, transaction, lookup, stage, ever,
                   abandoned>>

Lose(m) ==
    /\ "lost" \in Faults
    /\ m \in messages
    /\ messages' = messages \ {m}
    /\ LET kept == cache[m.to] \cup Reading(m.to)
       IN  missed' = [missed EXCEPT ![m.to] = @ \cup (m.eids \cap kept)]
    /\ UNCHANGED <<home, cache, rows, used, adding, transaction, lookup, stage,
                   ever, abandoned>>

Step(c) ==
    \/ \E e \in Eid : AllocateEid(c, e) \/ Delete(c, e) \/ LookupRead(c, e)
    \/ RefuseAdd(c)
    \/ AddInfo(c)
    \/ SqlError(c)
    \/ LookupFill(c)
    \/ DbCommit(c)
    \/ DbCommitFails(c)
    \/ Postcommit(c)
    \/ Rollback(c)

Next ==
    \/ \E c \in Cnx : Step(c)
    \/ \E m \in messages : Deliver(m) \/ Lose(m)

Spec == Init /\ [][Next]_vars

--------------------------------------------------------------------------------

\* hook.py:975-976: "on rollback of a insert query we have to remove from
\* repository's type/source cache eids of entities added in that transaction".  A
\* cache knows an entity that was never committed only while it is being added, or
\* for good when the addition was refused before add_info, its COMMIT raised, or a
\* failing statement, whose exception was swallowed, took its row away before.
RolledBackForgotten ==
    \A i \in Instance : \A e \in cache[i] \ ever :
        e \in abandoned \/ \E c \in Cnx : adding[c] = e \/ e \in neweids[c]

\* hook.py:996-997: "on commit of delete query, we have to remove from repository's
\* type/source cache eids of entities deleted in that transaction".  A cache knows a
\* deleted entity only while the deleting transaction or its message is under way,
\* or for good when the instance was reading its type as it was told of the deletion,
\* or was never told.
DeletedForgotten ==
    \A i \in Instance : \A e \in (cache[i] \cap ever) \ rows :
        \/ \E c \in Cnx : e \in pendingeids[c]
        \/ \E m \in messages : m.to = i /\ e \in m.eids
        \/ e \in missed[i]
================================================================================
