------------------------- MODULE UniqueConstraintLock --------------------------
(***************************************************************************)
(* The lock under which RQLUniqueConstraints are checked                   *)
(* (cubicweb/hooks/integrity.py:38-66, 179-203), among the other late      *)
(* operations of the precommit event.                                      *)
(*                                                                         *)
(* A transaction does not see what others have not committed, so a check   *)
(* proves nothing unless no other transaction commits between the check    *)
(* and its own COMMIT.  The lock lives in a process, the table may be      *)
(* shared.  It is a Python lock: the database, which does detect its own   *)
(* deadlocks, knows nothing of who waits for it.                           *)
(***************************************************************************)
EXTENDS Sequences

CONSTANTS
    Process,   \* the processes that run the application
    Cnx,
    home,      \* home[c]: the process of c
    Entity,    \* entities with an attribute under the constraint
    Value,     \* its values
    NoValue,
    Unwritten, \* in the writes of a transaction: not written
    Nobody,
    Faults     \* the faults a behaviour may meet

(* commitfails: COMMIT raises;                                             *)
(* lateindex: a transaction may register its full text operation after its *)
(*     check operation.                                                    *)
ASSUME HomeAssumption == home \in [Cnx -> Process]
ASSUME NobodyAssumption == Nobody \notin Cnx
ASSUME NoValueAssumption ==
    NoValue \notin Value /\ Unwritten \notin Value \cup {NoValue}
ASSUME UniqueFaultsAssumption == Faults \subseteq {"commitfails", "lateindex"}

VARIABLES
    lock,      \* _UNIQUE_CONSTRAINTS_LOCK of each process: who acquired it
    holder,    \* the connections with 'uniquecstrholder' in transaction_data
    value,     \* committed values
    written,   \* written[c]: values the transaction of c wrote
    indexRow,  \* who wrote the full text row of the container of the entities
    late,      \* late operations of c still to precommit
    toCheck,   \* data of its _CheckConstraintsOp
    stage      \* where the transaction of c is

transaction == <<holder, written, late, toCheck, stage>>
vars == <<lock, value, indexRow, transaction>>

NoWrites == [e \in Entity |-> Unwritten]
Wrote(c) == {e \in Entity : written[c][e] # Unwritten}

Init ==
    /\ lock = [p \in Process |-> Nobody]
    /\ holder = {}
    /\ value = [e \in Entity |-> NoValue]
    /\ written = [c \in Cnx |-> NoWrites]
    /\ indexRow = Nobody
    /\ late = [c \in Cnx |-> <<>>]
    /\ toCheck = [c \in Cnx |-> {}]
    /\ stage = [c \in Cnx |-> "query"]

Seen(c, e) == IF e \in Wrote(c) THEN written[c][e] ELSE value[e]
Registered(c, op) == \E i \in DOMAIN late[c] : late[c][i] = op

--------------------------------------------------------------------------------
(* Before the commit.                                                      *)

\* The attribute is set; CheckAttributeConstraintHook adds to the check operation.
Write(c, e, v) ==
    /\ stage[c] = "query"
    /\ \A d \in Cnx \ {c} : e \notin Wrote(d)
    /\ written' = [written EXCEPT ![c][e] = v]
    /\ toCheck' = [toCheck EXCEPT ![c] = @ \cup {e}]
    /\ late' = IF Registered(c, "check") THEN late
               ELSE [late EXCEPT ![c] = Append(@, "check")]
    /\ UNCHANGED <<lock, holder, value, indexRow, stage>>

\* A text is edited: index_entity registers FTIndexEntityOp.
Edit(c) ==
    /\ stage[c] = "query"
    /\ ~Registered(c, "index")
    /\ Registered(c, "check") => "lateindex" \in Faults
    /\ late' = [late EXCEPT ![c] = Append(@, "index")]
    /\ UNCHANGED <<lock, holder, value, indexRow, written, toCheck, stage>>

Commit(c) ==
    /\ stage[c] = "query"
    /\ late[c] # <<>>
    /\ stage' = [stage EXCEPT ![c] = "precommit"]
    /\ UNCHANGED <<lock, holder, value, indexRow, written, late, toCheck>>

Rollback(c) ==
    /\ stage[c] = "query"
    /\ stage' = [stage EXCEPT ![c] = "rollback"]
    /\ UNCHANGED <<lock, holder, value, indexRow, written, late, toCheck>>

--------------------------------------------------------------------------------
(* The precommit event of the late operations, in the order of their       *)
(* registration.                                                           *)

Runs(c, op) == stage[c] = "precommit" /\ late[c] # <<>> /\ Head(late[c]) = op
Processed(c) == late' = [late EXCEPT ![c] = Tail(@)]

\* _acquire_unique_cstr_lock, called for the first datum to check.
Acquire(c) ==
    /\ Runs(c, "check")
    /\ toCheck[c] # {}
    /\ c \notin holder
    /\ lock[home[c]] = Nobody
    /\ lock' = [lock EXCEPT ![home[c]] = c]
    /\ holder' = holder \cup {c}
    /\ UNCHANGED <<value, indexRow, written, late, toCheck, stage>>

Duplicate(c, e) ==
    Seen(c, e) # NoValue /\ \E x \in Entity \ {e} : Seen(c, x) = Seen(c, e)

\* RQLUniqueConstraint.repo_check of a datum.
Accept(c) ==
    /\ Runs(c, "check")
    /\ c \in holder
    /\ \E e \in toCheck[c] : ~Duplicate(c, e) /\ toCheck' = [toCheck EXCEPT ![c] = @ \ {e}]
    /\ UNCHANGED <<lock, holder, value, indexRow, written, late, stage>>

\* Mutant: the check is tried again until the duplicate is gone.
Refuse_Retry(c) ==
    /\ Runs(c, "check")
    /\ c \in holder
    /\ \E e \in toCheck[c] : Duplicate(c, e)
    /\ UNCHANGED vars

\* The duplicate is an error: the caller rolls back.
Refuse(c) ==
    /\ Runs(c, "check")
    /\ c \in holder
    /\ \E e \in toCheck[c] : Duplicate(c, e)
    /\ stage' = [stage EXCEPT ![c] = "rollback"]
    /\ UNCHANGED <<lock, holder, value, indexRow, written, late, toCheck>>

\* The lock of c is given back.
Freed(c) == [p \in Process |-> IF c \in holder /\ p = home[c] THEN Nobody ELSE lock[p]]

\* Mutant: the lock is released by the operation that acquired it.
Checked_Release(c) ==
    /\ Runs(c, "check")
    /\ toCheck[c] = {}
    /\ Processed(c)
    /\ lock' = Freed(c)
    /\ holder' = holder \ {c}
    /\ UNCHANGED <<value, indexRow, written, toCheck, stage>>

Checked(c) ==
    /\ Runs(c, "check")
    /\ toCheck[c] = {}
    /\ Processed(c)
    /\ UNCHANGED <<lock, holder, value, indexRow, written, toCheck, stage>>

\* FTIndexEntityOp.precommit_event writes the row of the container.
Index(c) ==
    /\ Runs(c, "index")
    /\ indexRow \in {c, Nobody}
    /\ indexRow' = c
    /\ Processed(c)
    /\ UNCHANGED <<lock, holder, value, written, toCheck, stage>>

--------------------------------------------------------------------------------
(* The end of the transaction.                                             *)

DbDone(c) ==
    /\ written' = [written EXCEPT ![c] = NoWrites]
    /\ indexRow' = IF indexRow = c THEN Nobody ELSE indexRow

\* Connection.clear
Clear(c) ==
    /\ holder' = holder \ {c}
    /\ late' = [late EXCEPT ![c] = <<>>]
    /\ toCheck' = [toCheck EXCEPT ![c] = {}]
    /\ stage' = [stage EXCEPT ![c] = "query"]

DbCommit(c) ==
    /\ stage[c] = "precommit"
    /\ late[c] = <<>>
    /\ value' = [e \in Entity |-> Seen(c, e)]
    /\ DbDone(c)
    /\ stage' = [stage EXCEPT ![c] = "postcommit"]
    /\ UNCHANGED <<lock, holder, late, toCheck>>

\* COMMIT raises; clear() drops the operation that would release the lock.
DbCommitFails(c) ==
    /\ "commitfails" \in Faults
    /\ stage[c] = "precommit"
    /\ late[c] = <<>>
    /\ DbDone(c)
    /\ Clear(c)
    /\ UNCHANGED <<lock, value>>

\* _ReleaseUniqueConstraintsOperation.postcommit_event
CommitReturns(c) ==
    /\ stage[c] = "postcommit"
    /\ lock' = Freed(c)
    /\ Clear(c)
    /\ UNCHANGED <<value, indexRow, written>>

\* Mutant: the operation has no rollback event.
RollbackReturns_KeepLock(c) ==
    /\ stage[c] = "rollback"
    /\ DbDone(c)
    /\ Clear(c)
    /\ UNCHANGED <<lock, value>>

\* _ReleaseUniqueConstraintsOperation.rollback_event
RollbackReturns(c) ==
    /\ stage[c] = "rollback"
    /\ lock' = Freed(c)
    /\ DbDone(c)
    /\ Clear(c)
    /\ UNCHANGED value

\* What the code does by itself once the commit or the rollback has been called.
Conclude(c) ==
    \/ Acquire(c)
    \/ Accept(c)
    \/ Refuse(c)
    \/ Checked(c)
    \/ Index(c)
    \/ DbCommit(c)
    \/ DbCommitFails(c)
    \/ CommitReturns(c)
    \/ RollbackReturns(c)

Next ==
    \E c \in Cnx :
        \/ \E e \in Entity, v \in Value \cup {NoValue} : Write(c, e, v)
        \/ Edit(c)
        \/ Commit(c)
        \/ Rollback(c)
        \/ Conclude(c)

Spec == Init /\ [][Next]_vars

(* A thread that is not blocked goes on; commit() and rollback() wait for  *)
(* nobody else.  The database queues those who wait for a row, so that     *)
(* nobody is overtaken for ever.                                           *)
FairSpec == Spec /\ \A c \in Cnx : WF_vars(Conclude(c)) /\ SF_vars(Index(c))

--------------------------------------------------------------------------------

TypeOK ==
    /\ lock \in [Process -> Cnx \cup {Nobody}]
    /\ holder \subseteq Cnx
    /\ \A c \in holder : lock[home[c]] = c
    /\ value \in [Entity -> Value \cup {NoValue}]
    /\ written \in [Cnx -> [Entity -> Value \cup {NoValue, Unwritten}]]
    /\ indexRow \in Cnx \cup {Nobody}
    /\ late \in [Cnx -> Seq({"check", "index"})]
    /\ toCheck \in [Cnx -> SUBSET Entity]
    /\ stage \in [Cnx -> {"query", "precommit", "postcommit", "rollback"}]

\* definition.rst:296, integrity.py:42-47.  No two entities of the committed table have
\* the same value, whatever transactions overlap.
UniqueCommitted ==
    \A e, x \in Entity : e # x /\ value[e] = value[x] => value[e] = NoValue

\* Who has the lock of p is a connection that is concluding a transaction.
HeldInTransaction(p) == lock[p] # Nobody => lock[p] \in holder

\* integrity.py:53.  Nobody leaves a transaction with the lock, and nobody else takes
\* it away from the one that it protects, but for a COMMIT that raises.
LockFollowsTransaction ==
    [][\A p \in Process : HeldInTransaction(p) =>
          HeldInTransaction(p)' \/ \E c \in Cnx : DbCommitFails(c)]_vars

\* The holder of the lock of p waits for a row of the database whose owner waits for
\* that lock.
Deadlocked(p) ==
    \E c, d \in Cnx : /\ lock[p] = c /\ c \in holder
                      /\ Runs(c, "index") /\ indexRow = d
                      /\ Runs(d, "check") /\ home[d] = p /\ d \notin holder

\* integrity.py:38-66.  The lock is given back, and the transactions that wait for it
\* all the application over go on, unless a COMMIT that raised left it behind or a full
\* text operation registered after the check closed a cycle with the database.
LockGivenBack ==
    \A p \in Process :
        lock[p] # Nobody ~> \/ lock[p] = Nobody
                           \/ ~HeldInTransaction(p)
                           \/ Deadlocked(p)
================================================================================
