---------------------- MODULE UniqueConstraintLockProofs -----------------------
(***************************************************************************)
(* The value of a RQLUniqueConstraint is unique in the committed table as  *)
(* long as all the connections live in one process, whatever they write,   *)
(* whichever COMMIT fails and in whatever order their operations run.      *)
(***************************************************************************)
EXTENDS UniqueConstraintLock, Integers, TLAPS

(* What is not to be checked any more was accepted under the lock, that    *)
(* the transaction still holds.                                            *)
AcceptedInv ==
    \A c \in Cnx : \A e \in Wrote(c) :
        e \notin toCheck[c] => c \in holder /\ ~Duplicate(c, e)

(* What is to be checked will be: the operation is in the queue.           *)
QueueInv ==
    \A c \in Cnx :
        /\ toCheck[c] # {} => Registered(c, "check")
        /\ stage[c] = "query" => c \notin holder
        /\ stage[c] = "postcommit" => Wrote(c) = {} /\ toCheck[c] = {}

IInv == TypeOK /\ AcceptedInv /\ QueueInv /\ UniqueCommitted

\* One process: two connections share their lock.
OneProcess == \A c, d \in Cnx : home[c] = home[d]

--------------------------------------------------------------------------------

\* An element of a queue that is not its head stays when the head is taken.
LEMMA HeadInQueue ==
    ASSUME NEW q \in Seq({"check", "index"}), NEW x, NEW i \in DOMAIN q,
           q # <<>>, Head(q) # x, q[i] = x
    PROVE  \E j \in DOMAIN Tail(q) : Tail(q)[j] = x
<1>1. i \in 2..Len(q)
  OBVIOUS
<1>2. i - 1 \in DOMAIN Tail(q) /\ Tail(q)[i - 1] = x
  BY <1>1
<1> QED
  BY <1>2

THEOREM InitInv == Init => IInv
BY HomeAssumption DEF Init, IInv, TypeOK, AcceptedInv, QueueInv, UniqueCommitted, NoWrites, Wrote

(* Type correctness, action by action.                                     *)
LEMMA TypeStep == TypeOK /\ [Next]_vars => TypeOK'
<1> SUFFICES ASSUME TypeOK, [Next]_vars PROVE TypeOK'
  OBVIOUS
<1> USE HomeAssumption, NobodyAssumption DEF TypeOK, NoWrites
<1>1. ASSUME NEW c \in Cnx, NEW e \in Entity, NEW v \in Value \cup {NoValue}, Write(c, e, v)
      PROVE  TypeOK'
  <2>2. late' \in [Cnx -> Seq({"check", "index"})] /\ toCheck' \in [Cnx -> SUBSET Entity]
    BY <1>1 DEF Write
  <2> QED
    BY <1>1, <2>2 DEF Write
<1>2. ASSUME NEW c \in Cnx, Edit(c) PROVE TypeOK'
  BY <1>2 DEF Edit
<1>3. ASSUME NEW c \in Cnx, Commit(c) \/ Rollback(c) \/ Refuse(c) PROVE TypeOK'
  BY <1>3 DEF Commit, Rollback, Refuse
<1>4. ASSUME NEW c \in Cnx, Acquire(c) PROVE TypeOK'
  BY <1>4 DEF Acquire
<1>5. ASSUME NEW c \in Cnx, Accept(c) PROVE TypeOK'
  BY <1>5 DEF Accept
<1>6. ASSUME NEW c \in Cnx, Checked(c) PROVE TypeOK'
  BY <1>6 DEF Checked, Runs, Processed
<1>7. ASSUME NEW c \in Cnx, Index(c) PROVE TypeOK'
  BY <1>7 DEF Index, Runs, Processed
<1>8. ASSUME NEW c \in Cnx, DbCommit(c) PROVE TypeOK'
  <2>1. \A e \in Entity : Seen(c, e) \in Value \cup {NoValue}
    BY DEF Seen, Wrote
  <2> QED
    BY <1>8, <2>1 DEF DbCommit, DbDone, NoWrites
<1>9. ASSUME NEW c \in Cnx, DbCommitFails(c) PROVE TypeOK'
  BY <1>9 DEF DbCommitFails, DbDone, Clear, NoWrites
<1>10. ASSUME NEW c \in Cnx, CommitReturns(c) PROVE TypeOK'
  BY <1>10 DEF CommitReturns, Clear, Freed
<1>11. ASSUME NEW c \in Cnx, RollbackReturns(c) PROVE TypeOK'
  BY <1>11 DEF RollbackReturns, DbDone, Clear, Freed, NoWrites
<1>12. CASE UNCHANGED vars
  BY <1>12 DEF vars, transaction
<1> QED
  BY <1>1, <1>2, <1>3, <1>4, <1>5, <1>6, <1>7, <1>8, <1>9, <1>10, <1>11, <1>12 DEF Next, Conclude

(* The queue of a transaction holds the check of what it wrote.            *)
LEMMA RegisteredSame ==
    ASSUME NEW c \in Cnx, late'[c] = late[c]
    PROVE  Registered(c, "check")' <=> Registered(c, "check")
BY DEF Registered

LEMMA QueueStep == TypeOK /\ QueueInv /\ [Next]_vars => QueueInv'
<1> SUFFICES ASSUME TypeOK, QueueInv, [Next]_vars PROVE QueueInv'
  OBVIOUS
<1> USE DEF TypeOK, QueueInv, Wrote
<1>1. ASSUME NEW c \in Cnx, NEW e \in Entity, NEW v \in Value \cup {NoValue}, Write(c, e, v)
      PROVE  QueueInv'
  <2>1. Registered(c, "check")'
    <3>1. CASE Registered(c, "check")
      BY <1>1, <3>1 DEF Write, Registered
    <3>2. CASE ~Registered(c, "check")
      <4>1. late'[c] = Append(late[c], "check") /\ late[c] \in Seq({"check", "index"})
        BY <1>1, <3>2 DEF Write
      <4>2. Len(late[c]) + 1 \in DOMAIN late'[c] /\ late'[c][Len(late[c]) + 1] = "check"
        BY <4>1
      <4> QED
        BY <4>2 DEF Registered
    <3> QED
      BY <3>1, <3>2
  <2>2. \A d \in Cnx \ {c} : late'[d] = late[d]
    BY <1>1 DEF Write
  <2> QED
    BY <1>1, <2>1, <2>2, RegisteredSame DEF Write
<1>2. ASSUME NEW c \in Cnx, Edit(c) PROVE QueueInv'
  <2>1. Registered(c, "check") => Registered(c, "check")'
    <3>1. late'[c] = Append(late[c], "index") /\ late[c] \in Seq({"check", "index"})
      BY <1>2 DEF Edit
    <3>2. \A i \in DOMAIN late[c] : i \in DOMAIN late'[c] /\ late'[c][i] = late[c][i]
      BY <3>1
    <3> QED
      BY <3>2 DEF Registered
  <2>2. \A d \in Cnx \ {c} : late'[d] = late[d]
    BY <1>2 DEF Edit
  <2>3. \A d \in Cnx : Registered(d, "check") => Registered(d, "check")'
    BY <2>1, <2>2, RegisteredSame
  <2>4. /\ holder' = holder /\ toCheck' = toCheck /\ written' = written
        /\ stage' = stage
    BY <1>2 DEF Edit
  <2> QED
    BY <2>2, <2>3, <2>4
<1>3. ASSUME NEW c \in Cnx, Commit(c) \/ Rollback(c) \/ Refuse(c) PROVE QueueInv'
  <2>1. \A d \in Cnx : late'[d] = late[d]
    BY <1>3 DEF Commit, Rollback, Refuse
  <2>2. \A d \in Cnx : Registered(d, "check")' <=> Registered(d, "check")
    BY <2>1, RegisteredSame
  <2>3. holder' = holder /\ toCheck' = toCheck
    BY <1>3 DEF Commit, Rollback, Refuse
  <2>4. \A d \in Cnx : stage'[d] = "query" => stage[d] = "query"
    BY <1>3 DEF Commit, Rollback, Refuse
  <2>5. \A d \in Cnx : stage'[d] = "postcommit" => stage[d] = "postcommit"
    BY <1>3 DEF Commit, Rollback, Refuse
  <2>6. written' = written
    BY <1>3 DEF Commit, Rollback, Refuse
  <2> QED
    BY <2>2, <2>3, <2>4, <2>5, <2>6
<1>4. ASSUME NEW c \in Cnx, Acquire(c) \/ Accept(c) PROVE QueueInv'
  <2>1. late' = late
    BY <1>4 DEF Acquire, Accept
  <2>2. stage[c] = "precommit" /\ stage' = stage /\ written' = written
    BY <1>4 DEF Acquire, Accept, Runs
  <2>3. holder' \ {c} = holder \ {c}
    BY <1>4 DEF Acquire, Accept
  <2>4. \A d \in Cnx : toCheck'[d] \subseteq toCheck[d]
    <3>1. CASE Acquire(c)
      BY <3>1 DEF Acquire
    <3>2. CASE Accept(c)
      BY <3>2 DEF Accept
    <3> QED
      BY <1>4, <3>1, <3>2
  <2> QED
    BY <2>1, <2>2, <2>3, <2>4, RegisteredSame
<1>5. ASSUME NEW c \in Cnx, Checked(c) PROVE QueueInv'
  <2>1. \A d \in Cnx \ {c} : late'[d] = late[d]
    BY <1>5 DEF Checked, Processed
  <2>2. \A d \in Cnx \ {c} : Registered(d, "check") => Registered(d, "check")'
    BY <2>1, RegisteredSame
  <2>3. /\ holder' = holder /\ toCheck' = toCheck /\ written' = written
        /\ stage' = stage /\ toCheck[c] = {} /\ c \in Cnx
    BY <1>5 DEF Checked
  <2>4. \A d \in Cnx : toCheck'[d] # {} => Registered(d, "check")'
    BY <2>2, <2>3
  <2> QED
    BY <2>3, <2>4
<1>6. ASSUME NEW c \in Cnx, Index(c) PROVE QueueInv'
  <2>1. Registered(c, "check") => Registered(c, "check")'
    <3>1. late[c] \in Seq({"check", "index"}) /\ late[c] # <<>> /\ Head(late[c]) # "check"
      BY <1>6 DEF Index, Runs
    <3>2. late'[c] = Tail(late[c])
      BY <1>6 DEF Index, Processed
    <3>3. ASSUME NEW i \in DOMAIN late[c], late[c][i] = "check"
          PROVE  \E j \in DOMAIN Tail(late[c]) : Tail(late[c])[j] = "check"
      BY <3>1, <3>3, HeadInQueue
    <3> QED
      BY <3>2, <3>3 DEF Registered
  <2>2. \A d \in Cnx \ {c} : late'[d] = late[d]
    BY <1>6 DEF Index, Processed
  <2> QED
    BY <1>6, <2>1, <2>2, RegisteredSame DEF Index, Runs
<1>7. ASSUME NEW c \in Cnx, DbCommit(c) PROVE QueueInv'
  <2>1. late[c] = <<>>
    BY <1>7 DEF DbCommit
  <2>2. ~Registered(c, "check")
    BY <2>1 DEF Registered
  <2>3. toCheck[c] = {}
    BY <2>2
  <2>4. \A d \in Cnx : late'[d] = late[d]
    BY <1>7 DEF DbCommit
  <2> QED
    BY <1>7, <2>3, <2>4, RegisteredSame DEF DbCommit, DbDone, NoWrites
<1>8. ASSUME NEW c \in Cnx, DbCommitFails(c) \/ CommitReturns(c) \/ RollbackReturns(c)
      PROVE  QueueInv'
  <2>1. \A d \in Cnx \ {c} : late'[d] = late[d]
    BY <1>8 DEF DbCommitFails, CommitReturns, RollbackReturns, Clear
  <2>2. /\ toCheck' = [toCheck EXCEPT ![c] = {}]
        /\ stage' = [stage EXCEPT ![c] = "query"]
        /\ holder' = holder \ {c}
    BY <1>8 DEF DbCommitFails, CommitReturns, RollbackReturns, Clear
  <2>3. \A d \in Cnx \ {c} : written'[d] = written[d]
    BY <1>8 DEF DbCommitFails, CommitReturns, RollbackReturns, DbDone
  <2> QED
    BY <2>1, <2>2, <2>3, RegisteredSame
<1>9. CASE UNCHANGED vars
  <2>1. \A d \in Cnx : late'[d] = late[d]
    BY <1>9 DEF vars, transaction
  <2> QED
    BY <1>9, <2>1, RegisteredSame DEF vars, transaction
<1> QED
  BY <1>1, <1>2, <1>3, <1>4, <1>5, <1>6, <1>7, <1>8, <1>9 DEF Next, Conclude

(* What a transaction sees of what it wrote does not depend on the others. *)
LEMMA AcceptedSame ==
    ASSUME TypeOK, AcceptedInv, NEW d \in Cnx,
           written'[d] = written[d], value' = value,
           toCheck'[d] = toCheck[d], d \in holder => d \in holder'
    PROVE  \A e \in Wrote(d)' :
              e \notin toCheck'[d] => d \in holder' /\ ~Duplicate(d, e)'
<1>1. Wrote(d)' = Wrote(d) /\ \A e \in Entity : Seen(d, e)' = Seen(d, e)
  BY DEF Wrote, Seen
<1>2. \A e \in Entity : Duplicate(d, e)' = Duplicate(d, e)
  BY <1>1 DEF Duplicate
<1>3. Wrote(d) \subseteq Entity
  BY DEF Wrote
<1> QED
  BY <1>1, <1>2, <1>3 DEF AcceptedInv

(* The transaction that holds the lock is the only one that has anything   *)
(* accepted, and the only one whose commit can change the table.           *)
LEMMA OneHolder ==
    ASSUME OneProcess, TypeOK, NEW c \in holder, NEW d \in holder
    PROVE  c = d
<1>1. c \in Cnx /\ d \in Cnx /\ lock[home[c]] = c /\ lock[home[d]] = d
  BY DEF TypeOK
<1> QED
  BY <1>1 DEF OneProcess

\* When every late operation was processed, everything was checked.
LEMMA NothingLeft ==
    ASSUME TypeOK, QueueInv, NEW c \in Cnx, late[c] = <<>>
    PROVE  toCheck[c] = {}
<1>1. ~Registered(c, "check")
  BY DEF Registered
<1> QED
  BY <1>1 DEF QueueInv

LEMMA AcceptedStep == OneProcess /\ IInv /\ [Next]_vars => AcceptedInv'
<1> SUFFICES ASSUME OneProcess, IInv, [Next]_vars, NEW d \in Cnx
             PROVE  \A e \in Wrote(d)' :
                       e \notin toCheck'[d] => d \in holder' /\ ~Duplicate(d, e)'
  BY DEF AcceptedInv
<1> USE DEF IInv, TypeOK
<1>1. ASSUME NEW c \in Cnx, NEW x \in Entity, NEW v \in Value \cup {NoValue}, Write(c, x, v)
      PROVE  \A e \in Wrote(d)' :
                e \notin toCheck'[d] => d \in holder' /\ ~Duplicate(d, e)'
  <2>1. CASE d = c
    <3>1. Wrote(c) \subseteq toCheck[c]
      BY <1>1 DEF Write, QueueInv, AcceptedInv
    <3>2. Wrote(c)' \subseteq Wrote(c) \cup {x}
      BY <1>1 DEF Write, Wrote
    <3> QED
      BY <1>1, <2>1, <3>1, <3>2 DEF Write
  <2>2. CASE d # c
    BY <1>1, <2>2, AcceptedSame DEF Write
  <2> QED
    BY <2>1, <2>2
<1>2. ASSUME NEW c \in Cnx,
             Edit(c) \/ Commit(c) \/ Rollback(c) \/ Acquire(c) \/ Refuse(c) \/ Checked(c) \/ Index(c)
      PROVE  \A e \in Wrote(d)' :
                e \notin toCheck'[d] => d \in holder' /\ ~Duplicate(d, e)'
  <2>1. written' = written /\ value' = value /\ toCheck' = toCheck /\ holder \subseteq holder'
    BY <1>2 DEF Edit, Commit, Rollback, Acquire, Refuse, Checked, Index
  <2> QED
    BY <2>1, AcceptedSame
<1>3. ASSUME NEW c \in Cnx, Accept(c)
      PROVE  \A e \in Wrote(d)' :
                e \notin toCheck'[d] => d \in holder' /\ ~Duplicate(d, e)'
  <2>1. CASE d = c
    <3>1. PICK x \in toCheck[c] :
              ~Duplicate(c, x) /\ toCheck' = [toCheck EXCEPT ![c] = @ \ {x}]
      BY <1>3 DEF Accept
    <3>2. c \in holder /\ holder' = holder /\ written' = written /\ value' = value
      BY <1>3 DEF Accept
    <3>3. Wrote(c)' = Wrote(c) /\ \A e \in Entity : Seen(c, e)' = Seen(c, e)
      BY <3>2 DEF Wrote, Seen
    <3>4. \A e \in Entity : Duplicate(c, e)' = Duplicate(c, e)
      BY <3>3 DEF Duplicate
    <3>5. Wrote(c) \subseteq Entity
      BY DEF Wrote
    <3> QED
      BY <2>1, <3>1, <3>2, <3>3, <3>4, <3>5 DEF AcceptedInv
  <2>2. CASE d # c
    BY <1>3, <2>2, AcceptedSame DEF Accept
  <2> QED
    BY <2>1, <2>2
<1>4. ASSUME NEW c \in Cnx, DbCommit(c)
      PROVE  \A e \in Wrote(d)' :
                e \notin toCheck'[d] => d \in holder' /\ ~Duplicate(d, e)'
  <2>1. CASE d = c
    <3>1. Wrote(c)' = {}
      BY <1>4 DEF DbCommit, DbDone, NoWrites, Wrote
    <3> QED
      BY <2>1, <3>1
  <2>2. CASE d # c /\ c \in holder
    <3>1. d \notin holder
      BY <2>2, OneHolder
    <3>2. Wrote(d) \subseteq toCheck[d]
      BY <3>1 DEF AcceptedInv
    <3>3. Wrote(d)' = Wrote(d) /\ toCheck' = toCheck
      BY <1>4, <2>2 DEF DbCommit, DbDone, Wrote
    <3> QED
      BY <3>2, <3>3
  <2>3. CASE d # c /\ c \notin holder
    <3>1. Wrote(c) = {}
      <4>1. toCheck[c] = {}
        BY <1>4, NothingLeft DEF DbCommit
      <4> QED
        BY <2>3, <4>1 DEF AcceptedInv
    <3>2. value' = value
      BY <1>4, <3>1 DEF DbCommit, Seen
    <3> QED
      BY <1>4, <2>3, <3>2, AcceptedSame DEF DbCommit, DbDone
  <2> QED
    BY <2>1, <2>2, <2>3
<1>5. ASSUME NEW c \in Cnx, DbCommitFails(c) \/ CommitReturns(c) \/ RollbackReturns(c)
      PROVE  \A e \in Wrote(d)' :
                e \notin toCheck'[d] => d \in holder' /\ ~Duplicate(d, e)'
  <2>1. CASE d = c
    <3>1. Wrote(c)' = {}
      BY <1>5 DEF DbCommitFails, CommitReturns, RollbackReturns, DbDone, NoWrites, Wrote, QueueInv
    <3> QED
      BY <2>1, <3>1
  <2>2. CASE d # c
    <3>1. /\ written'[d] = written[d] /\ value' = value
          /\ toCheck'[d] = toCheck[d] /\ (d \in holder => d \in holder')
      BY <1>5, <2>2 DEF DbCommitFails, CommitReturns, RollbackReturns, DbDone, Clear
    <3> QED
      BY <3>1, AcceptedSame
  <2> QED
    BY <2>1, <2>2
<1>6. CASE UNCHANGED vars
  BY <1>6, AcceptedSame DEF vars, transaction
<1> QED
  BY <1>1, <1>2, <1>3, <1>4, <1>5, <1>6 DEF Next, Conclude

LEMMA UniqueStep == IInv /\ [Next]_vars => UniqueCommitted'
<1> SUFFICES ASSUME IInv, [Next]_vars PROVE UniqueCommitted'
  OBVIOUS
<1> USE DEF IInv, TypeOK
<1>1. ASSUME NEW c \in Cnx, DbCommit(c) PROVE UniqueCommitted'
  <2> SUFFICES ASSUME NEW e \in Entity, NEW x \in Entity, e # x, value'[e] = value'[x],
                      value'[e] # NoValue
               PROVE  FALSE
    BY DEF UniqueCommitted
  <2>1. Seen(c, e) = Seen(c, x) /\ Seen(c, e) # NoValue
    BY <1>1 DEF DbCommit
  <2>2. Duplicate(c, e) /\ Duplicate(c, x)
    BY <2>1 DEF Duplicate
  <2>3. toCheck[c] = {}
    BY <1>1, NothingLeft DEF DbCommit
  <2>4. e \notin Wrote(c) /\ x \notin Wrote(c)
    BY <2>2, <2>3 DEF AcceptedInv
  <2> QED
    BY <2>1, <2>4 DEF UniqueCommitted, Seen
<1>2. CASE value' = value
  BY <1>2 DEF UniqueCommitted
<1>3. value' = value \/ \E c \in Cnx : DbCommit(c)
  BY DEF Next, Conclude, Write, Edit, Commit, Rollback, Acquire, Accept, Refuse, Checked, Index,
         DbCommitFails, CommitReturns, RollbackReturns, vars
<1> QED
  BY <1>1, <1>2, <1>3

THEOREM Invariance == OneProcess /\ IInv /\ [Next]_vars => IInv'
BY TypeStep, QueueStep, AcceptedStep, UniqueStep DEF IInv

--------------------------------------------------------------------------------

\* The invariant holds all along, in a single process.
THEOREM InvariantCorrect ==
    ASSUME OneProcess
    PROVE  Spec => []IInv
<1>1. Init => IInv
  BY InitInv
<1>2. IInv /\ [Next]_vars => IInv'
  BY Invariance
<1> QED
  BY <1>1, <1>2, PTL DEF Spec

\* The variables have their types, whatever the processes.
THEOREM TypeCorrect == Spec => []TypeOK
<1>1. Init => TypeOK
  BY InitInv DEF IInv
<1>2. TypeOK /\ [Next]_vars => TypeOK'
  BY TypeStep
<1> QED
  BY <1>1, <1>2, PTL DEF Spec

\* RQLUniqueConstraint under _UNIQUE_CONSTRAINTS_LOCK (integrity.py:38-66, 179-203): in one
\* process no two committed entities have the same value, whatever the number of
\* connections, entities and values, even when the lock leaks or the process deadlocks.
THEOREM UniqueCorrect ==
    ASSUME OneProcess
    PROVE  Spec => []UniqueCommitted
<1>1. IInv => UniqueCommitted
  BY DEF IInv
<1> QED
  BY <1>1, InvariantCorrect, PTL

--------------------------------------------------------------------------------
(* Who has a lock and who gives it back, whatever the processes.           *)

LockAtHome == \A p \in Process : lock[p] # Nobody => home[lock[p]] = p

LEMMA LockAtHomeStep == TypeOK /\ LockAtHome /\ [Next]_vars => LockAtHome'
<1> SUFFICES ASSUME TypeOK, LockAtHome, [Next]_vars PROVE LockAtHome'
  OBVIOUS
<1>1. CASE UNCHANGED vars
  BY <1>1 DEF vars, LockAtHome
<1>2. ASSUME NEW c \in Cnx, Acquire(c) PROVE LockAtHome'
  BY <1>2 DEF Acquire, LockAtHome, TypeOK
<1>3. ASSUME NEW c \in Cnx, lock' = Freed(c) PROVE LockAtHome'
  BY <1>3 DEF Freed, LockAtHome, TypeOK
<1>4. ASSUME UNCHANGED lock PROVE LockAtHome'
  BY <1>4 DEF LockAtHome
<1> QED
  BY <1>1, <1>2, <1>3, <1>4 DEF Next, Write, Edit, Commit, Rollback, Conclude, Accept, Refuse,
     Checked, Index, DbCommit, DbCommitFails, CommitReturns, RollbackReturns

\* integrity.py:53, 57-66: nobody leaves a transaction with the lock of its process and
\* nobody else takes it away, but for a COMMIT that raises.
THEOREM LockFollowsCorrect == Spec => LockFollowsTransaction
<1>1. Init => LockAtHome
  BY DEF Init, LockAtHome
<1>2. ASSUME TypeOK, LockAtHome, NEW c \in Cnx, lock' = Freed(c), holder' = holder \ {c},
             NEW p \in Process, HeldInTransaction(p)
      PROVE  HeldInTransaction(p)'
  <2>1. lock'[p] = IF c \in holder /\ p = home[c] THEN Nobody ELSE lock[p]
    BY <1>2 DEF Freed
  <2>2. CASE lock[p] = c
    BY <1>2, <2>1, <2>2, NobodyAssumption DEF LockAtHome, HeldInTransaction
  <2>3. CASE lock[p] # c
    BY <1>2, <2>1, <2>3 DEF HeldInTransaction
  <2> QED
    BY <2>2, <2>3
<1>3. ASSUME TypeOK, NEW c \in Cnx, Acquire(c), NEW p \in Process, HeldInTransaction(p)
      PROVE  HeldInTransaction(p)'
  BY <1>3 DEF Acquire, HeldInTransaction, TypeOK
<1>4. ASSUME UNCHANGED <<lock, holder>>, NEW p \in Process, HeldInTransaction(p)
      PROVE  HeldInTransaction(p)'
  BY <1>4 DEF HeldInTransaction
<1>5. TypeOK /\ LockAtHome /\ [Next]_vars =>
         [\A p \in Process : HeldInTransaction(p) =>
             HeldInTransaction(p)' \/ \E c \in Cnx : DbCommitFails(c)]_vars
  BY <1>2, <1>3, <1>4 DEF Next, Write, Edit, Commit, Rollback, Conclude, Accept, Refuse, Checked,
     Index, DbCommit, CommitReturns, RollbackReturns, Clear
<1> QED
  BY <1>1, <1>5, LockAtHomeStep, TypeCorrect, PTL DEF Spec, LockFollowsTransaction
================================================================================
