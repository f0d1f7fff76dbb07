---------------------------- MODULE DerivedDataProofs ----------------------------
(***************************************************************************)
(* What a repository derives from its data stays in step with them, for    *)
(* any number of connections, instances, entities and changes.             *)
(***************************************************************************)
EXTENDS EidTypeCache, PropertySync, FullTextIndex, RelationCache, ComputedAttributes,
        SequenceLemmas

--------------------------------------------------------------------------------
(* EidTypeCache.                                                           *)

EidTypes ==
    /\ home \in [Cnx -> Instance]
    /\ cache \in [Instance -> SUBSET Eid]
    /\ rows \subseteq Eid /\ used \subseteq Eid
    /\ ever \subseteq Eid /\ abandoned \subseteq Eid
    /\ adding \in [Cnx -> Eid \cup {NoEid}] /\ lookup \in [Cnx -> Eid \cup {NoEid}]
    /\ added \in [Cnx -> SUBSET Eid] /\ removed \in [Cnx -> SUBSET Eid]
    /\ neweids \in [Cnx -> SUBSET Eid] /\ pendingeids \in [Cnx -> SUBSET Eid]
    /\ stage \in [Cnx -> Stages]
    /\ messages \subseteq [to : Instance, eids : SUBSET Eid]
    /\ missed \in [Instance -> SUBSET Eid]

(* An eid is drawn once: what a transaction adds was never committed and   *)
(* no other transaction adds it.                                           *)
AddedOnce ==
    /\ rows \subseteq ever /\ ever \subseteq used
    /\ \A c \in Cnx :
        /\ added[c] \subseteq used \ ever
        /\ adding[c] # NoEid => adding[c] \in used \ ever
        /\ \A d \in Cnx \ {c} :
            /\ added[c] \cap added[d] = {}
            /\ adding[c] # NoEid => adding[c] \notin added[d] /\ adding[c] # adding[d]

(* The operations know what the database transaction does, and what a      *)
(* connection is reading was there, committed or its own.                  *)
OperationsKnow ==
    \A c \in Cnx :
        /\ added[c] \subseteq neweids[c]
        /\ removed[c] \subseteq pendingeids[c]
        /\ lookup[c] # NoEid => lookup[c] \in ever \cup neweids[c]
        /\ adding[c] # NoEid => stage[c] = "query"
        /\ stage[c] = "postcommit" =>
              /\ adding[c] = NoEid /\ lookup[c] = NoEid
              /\ added[c] = {} /\ removed[c] = {}
              /\ neweids[c] \subseteq ever \cup abandoned

(* A cache learns of an entity that is not committed from the connection   *)
(* of its own instance that adds it, whose cleanup will come to it.        *)
UncommittedIsLocal ==
    \A i \in Instance : \A e \in cache[i] \ ever :
        \/ e \in abandoned
        \/ \E c \in Cnx : home[c] = i /\ (adding[c] = e \/ e \in neweids[c])

(* An instance that knows, or is reading, a deleted entity will be told so, *)
(* by a transaction that has committed the deletion or by a message.       *)
DeletionIsTold ==
    \A i \in Instance : \A e \in ((cache[i] \cup Reading(i)) \cap ever) \ rows :
        \/ \E c \in Cnx : stage[c] = "postcommit" /\ e \in pendingeids[c]
        \/ \E m \in messages : m.to = i /\ e \in m.eids
        \/ e \in missed[i]

(* An instance without connections knows nothing.                          *)
CachesAreUsed == \A i \in Instance : cache[i] # {} => \E c \in Cnx : home[c] = i

EidInv ==
    /\ EidTypes /\ AddedOnce /\ OperationsKnow
    /\ UncommittedIsLocal /\ DeletionIsTold /\ CachesAreUsed

LEMMA EidInitInv == Init => EidInv
<1> SUFFICES ASSUME Init PROVE EidInv
  OBVIOUS
<1> USE NoEidAssumption DEF Init
<1>1. EidTypes
  BY DEF EidTypes, Stages
<1>2. AddedOnce /\ OperationsKnow /\ UncommittedIsLocal /\ CachesAreUsed
  BY <1>1 DEF EidTypes, AddedOnce, OperationsKnow, UncommittedIsLocal, CachesAreUsed
<1>3. DeletionIsTold
  BY <1>1 DEF EidTypes, DeletionIsTold
<1> QED
  BY <1>1, <1>2, <1>3 DEF EidInv

LEMMA EidTypesStep == EidTypes /\ [Next]_vars => EidTypes'
<1> SUFFICES ASSUME EidTypes, [Next]_vars PROVE EidTypes'
  OBVIOUS
<1> USE NoEidAssumption DEF EidTypes, Stages, transaction, history
<1>1. ASSUME NEW c \in Cnx, NEW e \in Eid, AllocateEid(c, e) \/ Delete(c, e) \/ LookupRead(c, e)
      PROVE  EidTypes'
  BY <1>1 DEF AllocateEid, Delete, LookupRead
<1>2. ASSUME NEW c \in Cnx, RefuseAdd(c) \/ AddInfo(c) \/ SqlError(c) \/ LookupFill(c)
      PROVE  EidTypes'
  BY <1>2 DEF RefuseAdd, AddInfo, SqlError, LookupFill
<1>3. ASSUME NEW c \in Cnx, DbCommit(c) \/ DbCommitFails(c) PROVE EidTypes'
  BY <1>3 DEF DbCommit, DbCommitFails, DatabaseDone, Clear
<1>4. ASSUME NEW c \in Cnx, Postcommit(c) PROVE EidTypes'
  <2>1. \A i \in Others(c) : [to |-> i, eids |-> pendingeids[c]] \in [to : Instance, eids : SUBSET Eid]
    BY DEF Others
  <2>2. messages' \subseteq [to : Instance, eids : SUBSET Eid]
    BY <1>4, <2>1 DEF Postcommit
  <2> QED
    BY <1>4, <2>2 DEF Postcommit, ClearCaches, Clear
<1>5. ASSUME NEW c \in Cnx, Rollback(c) PROVE EidTypes'
  BY <1>5 DEF Rollback, ClearCaches, Clear, DatabaseDone
<1>6. ASSUME NEW m \in messages, Deliver(m) \/ Lose(m) PROVE EidTypes'
  BY <1>6 DEF Deliver, Lose, ClearCaches
<1>7. CASE UNCHANGED vars
  BY <1>7 DEF vars
<1> QED
  BY <1>1, <1>2, <1>3, <1>4, <1>5, <1>6, <1>7 DEF Next, Step
LEMMA AddedOnceStep == EidTypes /\ AddedOnce /\ OperationsKnow /\ [Next]_vars => AddedOnce'
<1> SUFFICES ASSUME EidTypes, AddedOnce, OperationsKnow, [Next]_vars PROVE AddedOnce'
  OBVIOUS
<1> USE NoEidAssumption DEF EidTypes, AddedOnce, transaction, history
<1>1. ASSUME NEW c \in Cnx, NEW e \in Eid, AllocateEid(c, e) PROVE AddedOnce'
  BY <1>1 DEF AllocateEid
<1>2. ASSUME NEW c \in Cnx, RefuseAdd(c) \/ SqlError(c) PROVE AddedOnce'
  BY <1>2 DEF RefuseAdd, SqlError
<1>3. ASSUME NEW c \in Cnx, AddInfo(c) PROVE AddedOnce'
  BY <1>3 DEF AddInfo
<1>4. ASSUME NEW c \in Cnx, DbCommit(c) PROVE AddedOnce'
  <2>1. adding[c] = NoEid
    BY <1>4 DEF DbCommit, Free
  <2> QED
    BY <1>4, <2>1 DEF DbCommit, DatabaseDone
<1>5. ASSUME NEW c \in Cnx, DbCommitFails(c) \/ Rollback(c) PROVE AddedOnce'
  BY <1>5 DEF DbCommitFails, Rollback, DatabaseDone
<1>6. ASSUME UNCHANGED <<rows, ever, used, added, adding>> PROVE AddedOnce'
  BY <1>6
<1>7. ASSUME NEW c \in Cnx, NEW e \in Eid, Delete(c, e) \/ LookupRead(c, e) PROVE AddedOnce'
  BY <1>6, <1>7 DEF Delete, LookupRead
<1>8. ASSUME NEW c \in Cnx, LookupFill(c) \/ Postcommit(c) PROVE AddedOnce'
  BY <1>6, <1>8 DEF LookupFill, Postcommit
<1>9. ASSUME NEW m \in messages, Deliver(m) \/ Lose(m) PROVE AddedOnce'
  BY <1>6, <1>9 DEF Deliver, Lose
<1>10. CASE UNCHANGED vars
  BY <1>6, <1>10 DEF vars
<1> QED
  BY <1>1, <1>2, <1>3, <1>4, <1>5, <1>7, <1>8, <1>9, <1>10 DEF Next, Step

LEMMA OperationsKnowStep ==
  EidTypes /\ AddedOnce /\ OperationsKnow /\ [Next]_vars => OperationsKnow'
<1> SUFFICES ASSUME EidTypes, AddedOnce, OperationsKnow, [Next]_vars PROVE OperationsKnow'
  OBVIOUS
<1> USE NoEidAssumption DEF EidTypes, OperationsKnow, transaction, history
<1>1. ASSUME NEW c \in Cnx, NEW e \in Eid, AllocateEid(c, e) PROVE OperationsKnow'
  BY <1>1 DEF AllocateEid, Free
<1>2. ASSUME NEW c \in Cnx, RefuseAdd(c) PROVE OperationsKnow'
  BY <1>2 DEF RefuseAdd
<1>3. ASSUME NEW c \in Cnx, AddInfo(c) PROVE OperationsKnow'
  BY <1>3 DEF AddInfo
<1>4. ASSUME NEW c \in Cnx, SqlError(c) PROVE OperationsKnow'
  BY <1>4 DEF SqlError, Free
<1>5. ASSUME NEW c \in Cnx, NEW e \in Eid, Delete(c, e) PROVE OperationsKnow'
  BY <1>5 DEF Delete, Free
<1>6. ASSUME NEW c \in Cnx, NEW e \in Eid, LookupRead(c, e) PROVE OperationsKnow'
  <2>1. e \in ever \cup neweids[c]
    BY <1>6 DEF LookupRead, Visible, AddedOnce
  <2> QED
    BY <1>6, <2>1 DEF LookupRead, Free
<1>7. ASSUME NEW c \in Cnx, LookupFill(c) PROVE OperationsKnow'
  BY <1>7 DEF LookupFill
<1>8. ASSUME NEW c \in Cnx, DbCommit(c) PROVE OperationsKnow'
  <2>1. /\ Free(c) /\ stage' = [stage EXCEPT ![c] = "postcommit"]
        /\ added' = [added EXCEPT ![c] = {}] /\ removed' = [removed EXCEPT ![c] = {}]
        /\ ever' = ever \cup added[c]
        /\ abandoned' = abandoned \cup (neweids[c] \ added[c])
        /\ UNCHANGED <<adding, neweids, pendingeids, lookup>>
    BY <1>8 DEF DbCommit, DatabaseDone
  <2>2. neweids[c] \subseteq ever' \cup abandoned'
    BY <2>1
  <2> QED
    BY <2>1, <2>2 DEF Free
<1>9. ASSUME NEW c \in Cnx, DbCommitFails(c) PROVE OperationsKnow'
  BY <1>9 DEF DbCommitFails, Clear, DatabaseDone, Free
<1>10. ASSUME NEW c \in Cnx, Postcommit(c) PROVE OperationsKnow'
  BY <1>10 DEF Postcommit, Clear
<1>11. ASSUME NEW c \in Cnx, Rollback(c) PROVE OperationsKnow'
  BY <1>11 DEF Rollback, Clear, DatabaseDone, Free
<1>12. ASSUME UNCHANGED <<transaction, adding, lookup, stage, ever, abandoned>>
       PROVE  OperationsKnow'
  BY <1>12
<1>13. ASSUME NEW m \in messages, Deliver(m) \/ Lose(m) PROVE OperationsKnow'
  BY <1>12, <1>13 DEF Deliver, Lose
<1>14. CASE UNCHANGED vars
  BY <1>12, <1>14 DEF vars
<1> QED
  BY <1>1, <1>2, <1>3, <1>4, <1>5, <1>6, <1>7, <1>8, <1>9, <1>10, <1>11, <1>13, <1>14
  DEF Next, Step

LEMMA CachesAreUsedStep == EidTypes /\ CachesAreUsed /\ [Next]_vars => CachesAreUsed'
<1> SUFFICES ASSUME EidTypes, CachesAreUsed, [Next]_vars PROVE CachesAreUsed'
  OBVIOUS
<1> USE DEF EidTypes, CachesAreUsed
<1>1. ASSUME NEW c \in Cnx, home' = home,
             \A i \in Instance : i # home[c] => cache'[i] \subseteq cache[i]
      PROVE  CachesAreUsed'
  BY <1>1
<1>2. ASSUME home' = home, \A i \in Instance : cache'[i] \subseteq cache[i] PROVE CachesAreUsed'
  BY <1>2
<1>3. ASSUME NEW c \in Cnx, Step(c) PROVE CachesAreUsed'
  <2>1. home' = home
    BY <1>3 DEF Step, AllocateEid, Delete, LookupRead, RefuseAdd, AddInfo, SqlError, LookupFill,
          DbCommit, DbCommitFails, Postcommit, Rollback
  <2>2. \A i \in Instance : i # home[c] => cache'[i] \subseteq cache[i]
    BY <1>3 DEF Step, AllocateEid, Delete, LookupRead, RefuseAdd, AddInfo, SqlError, LookupFill,
          DbCommit, DbCommitFails, Postcommit, Rollback, ClearCaches
  <2> QED
    BY <1>1, <2>1, <2>2
<1>4. ASSUME NEW m \in messages, Deliver(m) \/ Lose(m) PROVE CachesAreUsed'
  BY <1>2, <1>4 DEF Deliver, Lose, ClearCaches
<1>5. CASE UNCHANGED vars
  BY <1>2, <1>5 DEF vars
<1> QED
  BY <1>3, <1>4, <1>5 DEF Next

LEMMA UncommittedStep ==
  EidTypes /\ OperationsKnow /\ AddedOnce /\ UncommittedIsLocal /\ [Next]_vars => UncommittedIsLocal'
<1> SUFFICES ASSUME EidTypes, OperationsKnow, AddedOnce, UncommittedIsLocal, [Next]_vars
             PROVE  UncommittedIsLocal'
  OBVIOUS
<1> USE NoEidAssumption DEF EidTypes, UncommittedIsLocal, transaction, history
<1>1. ASSUME NEW c \in Cnx, NEW e \in Eid, AllocateEid(c, e) PROVE UncommittedIsLocal'
  BY <1>1 DEF AllocateEid, Free
<1>2. ASSUME NEW c \in Cnx, RefuseAdd(c) PROVE UncommittedIsLocal'
  BY <1>2 DEF RefuseAdd
<1>3. ASSUME NEW c \in Cnx, AddInfo(c) PROVE UncommittedIsLocal'
  BY <1>3 DEF AddInfo
<1>4. ASSUME NEW c \in Cnx, NEW e \in Eid, Delete(c, e) PROVE UncommittedIsLocal'
  <2>1. e \in ever \cup neweids[c]
    BY <1>4 DEF Delete, Visible, AddedOnce, OperationsKnow
  <2> QED
    BY <1>4, <2>1 DEF Delete
<1>5. ASSUME NEW c \in Cnx, LookupFill(c) PROVE UncommittedIsLocal'
  <2>1. lookup[c] \in ever \cup neweids[c]
    BY <1>5 DEF LookupFill, OperationsKnow
  <2> QED
    BY <1>5, <2>1 DEF LookupFill
<1>6. ASSUME NEW c \in Cnx, DbCommit(c) PROVE UncommittedIsLocal'
  BY <1>6 DEF DbCommit
<1>7. ASSUME NEW c \in Cnx, DbCommitFails(c) PROVE UncommittedIsLocal'
  BY <1>7 DEF DbCommitFails, Clear
<1>8. ASSUME NEW c \in Cnx, Postcommit(c) PROVE UncommittedIsLocal'
  <2>1. neweids[c] \subseteq ever \cup abandoned
    BY <1>8 DEF Postcommit, OperationsKnow
  <2>2. \A i \in Instance : cache'[i] \subseteq cache[i]
    BY <1>8 DEF Postcommit, ClearCaches
  <2>3. UNCHANGED <<home, adding, ever, abandoned>> /\ neweids' = [neweids EXCEPT ![c] = {}]
    BY <1>8 DEF Postcommit, Clear
  <2> QED
    BY <2>1, <2>2, <2>3
<1>9. ASSUME NEW c \in Cnx, Rollback(c) PROVE UncommittedIsLocal'
  <2>1. /\ adding[c] = NoEid /\ cache' = [cache EXCEPT ![home[c]] = @ \ neweids[c]]
        /\ neweids' = [neweids EXCEPT ![c] = {}]
        /\ UNCHANGED <<home, adding, ever, abandoned>>
    BY <1>9 DEF Rollback, Clear, ClearCaches, Free
  <2> SUFFICES ASSUME NEW i \in Instance, NEW e \in cache'[i] \ ever'
               PROVE  \/ e \in abandoned'
                      \/ \E d \in Cnx : home'[d] = i /\ (adding'[d] = e \/ e \in neweids'[d])
    OBVIOUS
  <2>2. e \in cache[i] \ ever /\ (i = home[c] => e \notin neweids[c])
    BY <2>1
  <2>3. CASE e \in abandoned
    BY <2>1, <2>3
  <2>4. CASE e \notin abandoned
    <3>1. PICK d \in Cnx : home[d] = i /\ (adding[d] = e \/ e \in neweids[d])
      BY <2>2, <2>4
    <3>2. d # c
      BY <2>1, <2>2, <3>1
    <3> QED
      BY <2>1, <3>1, <3>2
  <2> QED
    BY <2>3, <2>4
<1>10. ASSUME UNCHANGED <<home, adding, neweids, ever, abandoned>>,
              \A i \in Instance : cache'[i] \subseteq cache[i]
       PROVE  UncommittedIsLocal'
  BY <1>10
<1>11. ASSUME NEW c \in Cnx, NEW e \in Eid, LookupRead(c, e) PROVE UncommittedIsLocal'
  BY <1>10, <1>11 DEF LookupRead
<1>12. ASSUME NEW c \in Cnx, SqlError(c) PROVE UncommittedIsLocal'
  BY <1>10, <1>12 DEF SqlError
<1>13. ASSUME NEW m \in messages, Deliver(m) \/ Lose(m) PROVE UncommittedIsLocal'
  BY <1>10, <1>13 DEF Deliver, Lose, ClearCaches
<1>14. CASE UNCHANGED vars
  BY <1>10, <1>14 DEF vars
<1> QED
  BY <1>1, <1>2, <1>3, <1>4, <1>5, <1>6, <1>7, <1>8, <1>9, <1>11, <1>12, <1>13, <1>14
  DEF Next, Step

(* What an instance knows or is about to know, and why it may still.       *)
Knows(i) == cache[i] \cup Reading(i)
Told(i, e) ==
    \/ \E c \in Cnx : stage[c] = "postcommit" /\ e \in pendingeids[c]
    \/ \E m \in messages : m.to = i /\ e \in m.eids
    \/ e \in missed[i]

LEMMA ToldDef == DeletionIsTold <=> \A i \in Instance : \A e \in (Knows(i) \cap ever) \ rows : Told(i, e)
BY DEF DeletionIsTold, Knows, Told

\* Steps by which nobody learns of an entity, none disappears and no witness either.
LEMMA NothingLearnt ==
  ASSUME EidTypes, EidTypes', DeletionIsTold, rows' = rows, ever' = ever,
         NEW i \in Instance, NEW e \in (Knows(i)' \cap ever') \ rows',
         e \in Knows(i),
         \/ e \in missed'[i]
         \/ /\ \A c \in Cnx : stage[c] = "postcommit" /\ e \in pendingeids[c]
                                  => stage'[c] = "postcommit" /\ e \in pendingeids'[c]
            /\ \A m \in messages : m.to = i /\ e \in m.eids => m \in messages'
            /\ e \in missed[i] => e \in missed'[i]
  PROVE  Told(i, e)'
<1>1. Told(i, e)
  BY ToldDef
<1> QED
  BY <1>1 DEF Told

LEMMA ReadingMembers ==
  ASSUME NEW i, NEW e
  PROVE  /\ e \in Reading(i) <=> \E c \in Cnx : home[c] = i /\ lookup[c] = e
         /\ e \in Reading(i)' <=> \E c \in Cnx : home'[c] = i /\ lookup'[c] = e
BY DEF Reading

\* An invalidation in instance j: what it loses and what it notes.
LEMMA ClearCachesTells ==
  ASSUME EidTypes, NEW j \in Instance, NEW eids, ClearCaches(j, eids), UNCHANGED <<home, lookup>>,
         NEW i \in Instance, NEW e \in Knows(i)'
  PROVE  /\ e \in Knows(i)
         /\ i = j /\ e \in eids => e \in missed'[i]
         /\ e \in missed[i] => e \in missed'[i]
<1>1. Reading(i)' = Reading(i)
  BY DEF Reading
<1>2. cache' = [cache EXCEPT ![j] = @ \ eids] /\ cache \in [Instance -> SUBSET Eid]
  BY DEF ClearCaches, EidTypes
<1>3. e \in Knows(i) /\ (i = j /\ e \in eids => e \in Reading(i))
  BY <1>1, <1>2 DEF Knows
<1> QED
  BY <1>3 DEF ClearCaches, EidTypes

LEMMA DeletionStep ==
  ASSUME EidTypes, EidTypes', AddedOnce, OperationsKnow, CachesAreUsed, DeletionIsTold, [Next]_vars
  PROVE  DeletionIsTold'
<1> SUFFICES ASSUME NEW i \in Instance, NEW e \in (Knows(i)' \cap ever') \ rows'
             PROVE  Told(i, e)'
  BY DEF DeletionIsTold, Knows, Told
<1>0. e \in Eid /\ e # NoEid
  BY NoEidAssumption DEF EidTypes
<1>1. ASSUME NEW c \in Cnx, NEW x \in Eid, AllocateEid(c, x) PROVE Told(i, e)'
  <2>1. x \notin ever /\ UNCHANGED <<rows, ever, home, lookup, missed, stage, messages, pendingeids>>
    BY <1>1 DEF AllocateEid, AddedOnce, history, transaction
  <2>2. e \in Knows(i)
    BY <1>1, <2>1 DEF Knows, Reading, AllocateEid, EidTypes
  <2> QED
    BY <2>1, <2>2, NothingLearnt
<1>2. ASSUME NEW c \in Cnx, NEW x \in Eid, Delete(c, x) PROVE Told(i, e)'
  <2>1. /\ UNCHANGED <<rows, ever, home, lookup, missed, stage, messages>>
        /\ pendingeids' = [pendingeids EXCEPT ![c] = @ \cup {x}]
        /\ x \in rows \/ x \in added[c]
    BY <1>2 DEF Delete, history, Visible
  <2>2. x \in rows \/ x \notin ever
    BY <2>1 DEF AddedOnce
  <2>3. e \in Knows(i)
    BY <1>2, <2>1, <2>2 DEF Knows, Reading, Delete, EidTypes
  <2>4. \A d \in Cnx : e \in pendingeids[d] => e \in pendingeids'[d]
    BY <2>1 DEF EidTypes
  <2> QED
    BY <2>1, <2>3, <2>4, NothingLearnt
<1>3. ASSUME NEW c \in Cnx, NEW x \in Eid, LookupRead(c, x) PROVE Told(i, e)'
  <2>1. /\ UNCHANGED <<rows, ever, home, cache, missed, stage, messages, pendingeids>>
        /\ lookup' = [lookup EXCEPT ![c] = x]
        /\ x \in rows \/ x \in added[c]
    BY <1>3 DEF LookupRead, history, transaction, Visible
  <2>2. x \in rows \/ x \notin ever
    BY <2>1 DEF AddedOnce
  <2>3. e \in Knows(i)
    BY <2>1, <2>2, ReadingMembers DEF Knows, EidTypes
  <2> QED
    BY <2>1, <2>3, NothingLearnt
<1>4. ASSUME NEW c \in Cnx, LookupFill(c) PROVE Told(i, e)'
  <2>1. /\ UNCHANGED <<rows, ever, home, missed, stage, messages, pendingeids>>
        /\ cache' = [cache EXCEPT ![home[c]] = @ \cup {lookup[c]}]
        /\ lookup' = [lookup EXCEPT ![c] = NoEid]
    BY <1>4 DEF LookupFill, history, transaction
  <2>2. CASE e \in cache'[i]
    <3>1. e \in cache[i] \/ (home[c] = i /\ lookup[c] = e)
      BY <2>1, <2>2 DEF EidTypes
    <3>2. e \in Knows(i)
      BY <3>1, ReadingMembers DEF Knows
    <3> QED
      BY <2>1, <3>2, NothingLearnt
  <2>3. CASE e \in Reading(i)'
    <3>1. PICK d \in Cnx : home'[d] = i /\ lookup'[d] = e
      BY <2>3, ReadingMembers
    <3>2. home[d] = i /\ lookup[d] = e
      BY <1>0, <2>1, <3>1 DEF EidTypes
    <3>3. e \in Knows(i)
      BY <3>2, ReadingMembers DEF Knows
    <3> QED
      BY <2>1, <3>3, NothingLearnt
  <2> QED
    BY <2>2, <2>3 DEF Knows
<1>5. ASSUME NEW c \in Cnx, DbCommit(c) PROVE Told(i, e)'
  <2>1. /\ rows' = (rows \cup added[c]) \ removed[c] /\ ever' = ever \cup added[c]
        /\ stage' = [stage EXCEPT ![c] = "postcommit"] /\ stage[c] = "query"
        /\ UNCHANGED <<home, cache, lookup, messages, missed, pendingeids>>
    BY <1>5 DEF DbCommit
  <2>2. CASE e \in removed[c]
    BY <2>1, <2>2 DEF Told, OperationsKnow, EidTypes
  <2>3. CASE e \notin removed[c]
    <3>1. e \in (Knows(i) \cap ever) \ rows
      BY <2>1, <2>3 DEF Knows, Reading
    <3>2. Told(i, e)
      BY <3>1, ToldDef
    <3>3. \A d \in Cnx : stage[d] = "postcommit" => stage'[d] = "postcommit"
      BY <2>1 DEF EidTypes
    <3> QED
      BY <2>1, <3>2, <3>3 DEF Told
  <2> QED
    BY <2>2, <2>3
<1>6. ASSUME NEW c \in Cnx, DbCommitFails(c) PROVE Told(i, e)'
  <2>1. /\ UNCHANGED <<rows, ever, home, cache, lookup, messages, missed, stage>>
        /\ stage[c] = "query" /\ pendingeids' = [pendingeids EXCEPT ![c] = {}]
    BY <1>6 DEF DbCommitFails, Clear
  <2>2. e \in Knows(i)
    BY <2>1 DEF Knows, Reading
  <2>3. \A d \in Cnx : stage[d] = "postcommit" => pendingeids'[d] = pendingeids[d]
    BY <2>1 DEF EidTypes
  <2> QED
    BY <2>1, <2>2, <2>3, NothingLearnt
<1>7. ASSUME NEW c \in Cnx, Postcommit(c) PROVE Told(i, e)'
  <2>1. /\ ClearCaches(home[c], pendingeids[c])
        /\ messages' = IF pendingeids[c] = {} THEN messages
                       ELSE messages \cup {[to |-> j, eids |-> pendingeids[c]] : j \in Others(c)}
        /\ pendingeids' = [pendingeids EXCEPT ![c] = {}]
        /\ stage' = [stage EXCEPT ![c] = "query"]
        /\ UNCHANGED <<rows, ever, home, lookup>>
    BY <1>7 DEF Postcommit, Clear
  <2>2. /\ e \in Knows(i) /\ (e \in missed[i] => e \in missed'[i])
        /\ i = home[c] /\ e \in pendingeids[c] => e \in missed'[i]
    BY <2>1, ClearCachesTells DEF EidTypes
  <2>3. CASE e \in pendingeids[c] /\ i # home[c]
    <3>1. \E d \in Cnx : home[d] = i
      BY <2>2, ReadingMembers DEF Knows, CachesAreUsed
    <3>2. i \in Others(c)
      BY <2>3, <3>1 DEF Others
    <3>3. [to |-> i, eids |-> pendingeids[c]] \in messages'
      BY <2>1, <2>3, <3>2
    <3> QED
      BY <2>3, <3>3 DEF Told
  <2>4. CASE e \in pendingeids[c] /\ i = home[c]
    BY <2>2, <2>4 DEF Told
  <2>5. CASE e \notin pendingeids[c]
    <3>1. \A d \in Cnx : stage[d] = "postcommit" /\ e \in pendingeids[d]
                            => stage'[d] = "postcommit" /\ e \in pendingeids'[d]
      BY <2>1, <2>5 DEF EidTypes
    <3>2. \A m \in messages : m \in messages'
      BY <2>1
    <3> QED
      BY <2>1, <2>2, <3>1, <3>2, NothingLearnt
  <2> QED
    BY <2>3, <2>4, <2>5
<1>8. ASSUME NEW c \in Cnx, Rollback(c) PROVE Told(i, e)'
  <2>1. /\ ClearCaches(home[c], neweids[c]) /\ stage[c] # "postcommit"
        /\ pendingeids' = [pendingeids EXCEPT ![c] = {}]
        /\ stage' = [stage EXCEPT ![c] = "query"]
        /\ UNCHANGED <<rows, ever, home, lookup, messages>>
    BY <1>8 DEF Rollback, Clear, Free
  <2>2. e \in Knows(i) /\ (e \in missed[i] => e \in missed'[i])
    BY <2>1, ClearCachesTells DEF EidTypes
  <2>3. \A d \in Cnx : stage[d] = "postcommit" => stage'[d] = stage[d] /\ pendingeids'[d] = pendingeids[d]
    BY <2>1 DEF EidTypes
  <2> QED
    BY <2>1, <2>2, <2>3, NothingLearnt
<1>9. ASSUME NEW m \in messages, Deliver(m) PROVE Told(i, e)'
  <2>1. /\ ClearCaches(m.to, m.eids) /\ messages' = messages \ {m} /\ m.to \in Instance
        /\ UNCHANGED <<rows, ever, home, lookup, stage, pendingeids>>
    BY <1>9 DEF Deliver, transaction, EidTypes
  <2>2. /\ e \in Knows(i) /\ (e \in missed[i] => e \in missed'[i])
        /\ i = m.to /\ e \in m.eids => e \in missed'[i]
    BY <2>1, ClearCachesTells
  <2> QED
    BY <2>1, <2>2, NothingLearnt
<1>10. ASSUME NEW m \in messages, Lose(m) PROVE Told(i, e)'
  <2>1. /\ messages' = messages \ {m} /\ m.to \in Instance
        /\ missed' = [missed EXCEPT ![m.to] = @ \cup (m.eids \cap (cache[m.to] \cup Reading(m.to)))]
        /\ UNCHANGED <<rows, ever, home, cache, lookup, stage, pendingeids>>
    BY <1>10 DEF Lose, transaction, EidTypes
  <2>2. e \in Knows(i)
    BY <2>1 DEF Knows, Reading
  <2>3. /\ e \in missed[i] => e \in missed'[i]
        /\ i = m.to /\ e \in m.eids => e \in missed'[i]
    BY <2>1, <2>2 DEF Knows, EidTypes
  <2> QED
    BY <2>1, <2>2, <2>3, NothingLearnt
<1>11. ASSUME UNCHANGED <<rows, ever, home, cache, lookup, messages, missed, pendingeids>>,
              \A c \in Cnx : stage[c] = "postcommit" => stage'[c] = "postcommit"
       PROVE  Told(i, e)'
  <2>1. e \in Knows(i)
    BY <1>11 DEF Knows, Reading
  <2> QED
    BY <1>11, <2>1, NothingLearnt
<1>12. ASSUME NEW c \in Cnx, RefuseAdd(c) PROVE Told(i, e)'
  <2>1. stage[c] = "query"
    BY <1>12 DEF RefuseAdd, OperationsKnow
  <2> QED
    BY <1>11, <1>12, <2>1 DEF RefuseAdd, transaction, EidTypes
<1>13. ASSUME NEW c \in Cnx, AddInfo(c) \/ SqlError(c) PROVE Told(i, e)'
  BY <1>11, <1>13 DEF AddInfo, SqlError, history
<1>14. CASE UNCHANGED vars
  BY <1>11, <1>14 DEF vars, transaction, history
<1> QED
  BY <1>1, <1>2, <1>3, <1>4, <1>5, <1>6, <1>7, <1>8, <1>9, <1>10, <1>12, <1>13, <1>14
  DEF Next, Step

\* repository.py:214-230, hook.py:970-1010: the shared cache of types, the operations
\* that clean it and the messages to the other instances, in any interleaving.
THEOREM EidInvariant == Spec => []EidInv
<1>1. EidInv /\ [Next]_vars => EidInv'
  BY EidTypesStep, AddedOnceStep, OperationsKnowStep, CachesAreUsedStep, UncommittedStep,
     DeletionStep DEF EidInv
<1> QED
  BY <1>1, EidInitInv, PTL DEF Spec

\* hook.py:975-976: a cache does not keep an entity whose addition was rolled back,
\* but for the additions no cleanup operation knows of.
THEOREM RolledBackForgottenHolds == Spec => []RolledBackForgotten
<1>1. EidInv => RolledBackForgotten
  BY DEF EidInv, UncommittedIsLocal, RolledBackForgotten
<1> QED
  BY <1>1, EidInvariant, PTL

\* hook.py:996-997: a cache does not keep a deleted entity, unless the instance was
\* reading its type as it was told of the deletion, or was never told.
THEOREM DeletedForgottenHolds == Spec => []DeletedForgotten
<1>1. EidInv => DeletedForgotten
  BY DEF EidInv, DeletionIsTold, DeletedForgotten
<1> QED
  BY <1>1, EidInvariant, PTL

--------------------------------------------------------------------------------
(* PropertySync.                                                           *)

OpOfProperty == [do : {"set", "pop"}, prop : Prop]

PropTypes ==
    /\ props \in [Prop -> Property]
    /\ mine \in [Editor -> UNION {[D -> Property] : D \in SUBSET Prop}]
    /\ detached \in [Editor -> SUBSET Prop]
    /\ todo \in [Editor -> Seq(OpOfProperty)]
    /\ told \in [Editor -> BOOLEAN]
    /\ registry \in [Key -> Value \cup {Default}]

(* The site-wide properties of a key, and the value the registry may have. *)
Of(k) == {p \in Prop : SiteWide(props[p]) /\ props[p].key = k}
InStep(k) ==
    IF Of(k) = {} THEN registry[k] = Default
    ELSE \E p \in Of(k) : registry[k] = props[p].value

(* The operation o of the transaction of c that will have the last word on *)
(* the key k, or will tell that the registry is wrong.                     *)
Settles(c, o, k) ==
    LET q == mine[c][o.prop]
    IN  q.key = k /\ (o.do = "pop" \/ SiteWide(q))

(* What the operations of a transaction know of its editions.              *)
EditionIsToBeTold(c) ==
    /\ detached[c] \subseteq DOMAIN mine[c]
    /\ \A j \in 1..Len(todo[c]) : todo[c][j].prop \in DOMAIN mine[c]
    /\ \A j \in 1..Len(todo[c]) :
          LET p == todo[c][j].prop
          IN  \/ todo[c][j].do = "pop" \/ mine[c][p].there \/ p \in detached[c]
              \/ \E i \in (j + 1)..Len(todo[c]) : todo[c][i] = Pop(p)
    /\ told[c] => \A p \in detached[c] : mine[c][p].key \in unsynced
    /\ ~told[c] => \A p \in DOMAIN mine[c] :
          \/ p \in detached[c]
          \/ mine[c][p].there /\ mine[c][p].user
          \/ \E j \in 1..Len(todo[c]) :
                todo[c][j] = IF mine[c][p].there THEN Set(p) ELSE Pop(p)

EditionsAreToBeTold == \A c \in Editor : EditionIsToBeTold(c)

(* The registry is in step, or an operation is about to put it so.         *)
SomeoneSettles(k) ==
    \E c \in Editor : told[c] /\ \E j \in 1..Len(todo[c]) : Settles(c, todo[c][j], k)
WillBeInStep == \A k \in Key \ unsynced : InStep(k) \/ SomeoneSettles(k)

PropInv == PropTypes /\ EditionsAreToBeTold /\ WillBeInStep

LEMMA PropInitInv == PropInit => PropInv
<1> SUFFICES ASSUME PropInit PROVE PropInv
  OBVIOUS
<1>1. (CHOOSE k \in Key : TRUE) \in Key /\ (CHOOSE v \in Value : TRUE) \in Value
  BY PropertyAssumption
<1>2. props \in [Prop -> Property] /\ \A p \in Prop : ~props[p].there
  BY <1>1 DEF PropInit, Property
<1>3. NoEdit \in [{} -> Property] /\ DOMAIN NoEdit = {}
  BY DEF NoEdit
<1>4. \A c \in Editor : /\ mine[c] = NoEdit /\ detached[c] = {} /\ todo[c] = <<>> /\ ~told[c]
  BY DEF PropInit
<1>5. NoEdit \in UNION {[D -> Property] : D \in SUBSET Prop}
  BY <1>3
<1>6. /\ mine \in [Editor -> UNION {[D -> Property] : D \in SUBSET Prop}]
      /\ todo \in [Editor -> Seq(OpOfProperty)]
  BY <1>5, EmptySequence DEF PropInit
<1>7. PropTypes
  BY <1>2, <1>6 DEF PropInit, PropTypes
<1>8. \A c \in Editor : Len(todo[c]) = 0 /\ 1..Len(todo[c]) = {} /\ DOMAIN mine[c] = {}
  BY <1>3, <1>4
<1>9. EditionsAreToBeTold
  BY <1>4, <1>8 DEF EditionsAreToBeTold, EditionIsToBeTold
<1>10. \A k \in Key : Of(k) = {} /\ registry[k] = Default
  BY <1>2 DEF Of, SiteWide, PropInit
<1> QED
  BY <1>7, <1>9, <1>10 DEF PropInv, WillBeInStep, InStep

\* What an edition changes.
LEMMA EditProperties ==
  ASSUME PropTypes, NEW c \in Editor, NEW p \in Prop, NEW q \in Property,
         NEW ops \in Seq(OpOfProperty), NEW taken \in SUBSET Prop, Edit(c, p, q, ops, taken)
  PROVE  /\ PropTypes'
         /\ DOMAIN mine'[c] = DOMAIN mine[c] \cup {p}
         /\ mine'[c][p] = q
         /\ \A x \in DOMAIN mine[c] : x # p => mine'[c][x] = mine[c][x]
         /\ todo'[c] = todo[c] \o ops
         /\ detached'[c] = detached[c] \cup taken
         /\ \A d \in Editor \ {c} :
               mine'[d] = mine[d] /\ todo'[d] = todo[d] /\ detached'[d] = detached[d]
         /\ ~told[c] /\ UNCHANGED <<props, told, registry, unsynced>>
<1> DEFINE m == [x \in DOMAIN mine[c] \cup {p} |-> IF x = p THEN q ELSE mine[c][x]]
<1>1. /\ mine' = [mine EXCEPT ![c] = m] /\ todo' = [todo EXCEPT ![c] = todo[c] \o ops]
      /\ detached' = [detached EXCEPT ![c] = detached[c] \cup taken]
      /\ ~told[c] /\ UNCHANGED <<props, told, registry, unsynced>>
  BY DEF Edit
<1>2. PICK D \in SUBSET Prop : mine[c] \in [D -> Property]
  BY DEF PropTypes
<1>3. m \in [D \cup {p} -> Property] /\ D \cup {p} \in SUBSET Prop
  BY <1>2
<1>4. m \in UNION {[E -> Property] : E \in SUBSET Prop}
  BY <1>3
<1>5. DOMAIN m = DOMAIN mine[c] \cup {p} /\ m[p] = q /\ \A x \in DOMAIN mine[c] : x # p => m[x] = mine[c][x]
  OBVIOUS
<1> HIDE DEF m
<1>6. todo[c] \o ops \in Seq(OpOfProperty)
  BY ConcatProperties DEF PropTypes
<1>7. PropTypes'
  BY <1>1, <1>4, <1>6 DEF PropTypes
<1> QED
  BY <1>1, <1>5, <1>7 DEF PropTypes
LEMMA SameEdition ==
  ASSUME NEW c \in Editor, EditionIsToBeTold(c), mine'[c] = mine[c], todo'[c] = todo[c],
         detached'[c] = detached[c], told'[c] = told[c], unsynced \subseteq unsynced'
  PROVE  EditionIsToBeTold(c)'
  BY DEF EditionIsToBeTold, Pop, Set

\* An edition that registers the operation its outcome calls for.
LEMMA EditionStep ==
  ASSUME PropTypes, EditionsAreToBeTold,
         NEW c \in Editor, NEW p \in Prop, NEW q \in Property, NEW e \in {Set(p), Pop(p)},
         NEW ops, ops = <<>> \/ ops = <<e>>, NEW taken \in SUBSET {p},
         Edit(c, p, q, ops, taken),
         e = Set(p) => q.there,
         ~q.there => p \in detached[c] \/ ops = <<e>>,
         q.there /\ ~q.user => p \in taken \cup detached[c] \/ (ops = <<e>> /\ e = Set(p))
  PROVE  PropTypes' /\ EditionsAreToBeTold'
<1> DEFINE n == Len(todo[c])
<1>0. e \in OpOfProperty
  BY DEF OpOfProperty, Set, Pop
<1>1. ops \in Seq(OpOfProperty)
  <2>1. CASE ops = <<>>
    BY <2>1, EmptySequence
  <2>2. CASE ops = <<e>>
    BY <1>0, <2>2
  <2> QED
    BY <2>1, <2>2
<1>2. /\ PropTypes'
      /\ DOMAIN mine'[c] = DOMAIN mine[c] \cup {p} /\ mine'[c][p] = q
      /\ \A x \in DOMAIN mine[c] : x # p => mine'[c][x] = mine[c][x]
      /\ todo'[c] = todo[c] \o ops /\ detached'[c] = detached[c] \cup taken
      /\ \A d \in Editor \ {c} :
            mine'[d] = mine[d] /\ todo'[d] = todo[d] /\ detached'[d] = detached[d]
      /\ ~told[c] /\ UNCHANGED <<props, told, registry, unsynced>>
  BY <1>1, EditProperties
<1>3. todo[c] \in Seq(OpOfProperty) /\ n \in Nat
  BY LenProperties DEF PropTypes
<1>4. /\ \/ ops = <<>> /\ Len(todo'[c]) = n
         \/ ops = <<e>> /\ Len(todo'[c]) = n + 1 /\ todo'[c][n + 1] = e
      /\ \A j \in 1..n : todo'[c][j] = todo[c][j]
  <2>1. CASE ops = <<>>
    BY <1>2, <1>3, <2>1, ConcatEmptySeq
  <2>2. CASE ops = <<e>>
    <3>1. todo'[c] = Append(todo[c], e)
      BY <1>0, <1>2, <1>3, <2>2, AppendIsConcat
    <3> QED
      BY <1>0, <1>3, <2>2, <3>1, AppendProperties
  <2> QED
    BY <2>1, <2>2
<1>5. Set(p).prop = p /\ Pop(p).prop = p /\ Set(p).do = "set" /\ Pop(p).do = "pop" /\ Set(p) # Pop(p)
  BY DEF Set, Pop
<1> HIDE DEF n
<1>6. \A j \in 1..Len(todo'[c]) : j \in 1..n \/ (j = n + 1 /\ ops = <<e>>)
  BY <1>3, <1>4
<1>7. /\ \A j \in 1..n : j \in 1..Len(todo'[c])
      /\ \A j \in 1..n : \A i \in (j + 1)..n : i \in (j + 1)..Len(todo'[c]) /\ i \in 1..n
      /\ ops = <<e>> => n + 1 \in 1..Len(todo'[c]) /\ \A j \in 1..n : n + 1 \in (j + 1)..Len(todo'[c])
  <2>1. Len(todo'[c]) = n \/ (Len(todo'[c]) = n + 1 /\ ops = <<e>>)
    BY <1>4
  <2>2. ops = <<e>> => Len(todo'[c]) = n + 1
    BY <1>4
  <2> QED
    BY <1>3, <2>1, <2>2
<1>8. ops = <<e>> => todo'[c][n + 1] = e
  BY <1>4
<1>9. ASSUME NEW j \in 1..Len(todo'[c])
      PROVE  LET x == todo'[c][j].prop
             IN  /\ x \in DOMAIN mine'[c]
                 /\ \/ todo'[c][j].do = "pop" \/ mine'[c][x].there \/ x \in detached'[c]
                    \/ \E i \in (j + 1)..Len(todo'[c]) : todo'[c][i] = Pop(x)
  <2>1. CASE j \in 1..n
    <3> DEFINE x == todo[c][j].prop
    <3>1. todo'[c][j] = todo[c][j] /\ x \in DOMAIN mine[c]
      BY <1>4, <2>1 DEF EditionsAreToBeTold, EditionIsToBeTold, n
    <3>2. \/ todo[c][j].do = "pop" \/ mine[c][x].there \/ x \in detached[c]
          \/ \E i \in (j + 1)..n : todo[c][i] = Pop(x)
      BY <2>1 DEF EditionsAreToBeTold, EditionIsToBeTold, n
    <3>3. (\E i \in (j + 1)..n : todo[c][i] = Pop(x)) =>
             \E i \in (j + 1)..Len(todo'[c]) : todo'[c][i] = Pop(x)
      BY <1>4, <1>7, <2>1
    <3>4. CASE x # p
      BY <1>2, <3>1, <3>2, <3>3, <3>4
    <3>5. CASE x = p
      <4>1. ops = <<e>> /\ e = Pop(p) => \E i \in (j + 1)..Len(todo'[c]) : todo'[c][i] = Pop(x)
        BY <1>7, <1>8, <2>1, <3>5
      <4> QED
        BY <1>2, <3>1, <3>5, <4>1
    <3> QED
      BY <3>4, <3>5
  <2>2. CASE j = n + 1 /\ ops = <<e>>
    <3>1. todo'[c][j] = e
      BY <1>8, <2>2
    <3> QED
      BY <1>2, <1>5, <2>2, <3>1
  <2> QED
    BY <1>6, <2>1, <2>2
<1>10. ASSUME NEW x \in DOMAIN mine'[c]
       PROVE  \/ x \in detached'[c]
              \/ mine'[c][x].there /\ mine'[c][x].user
              \/ \E j \in 1..Len(todo'[c]) : todo'[c][j] = IF mine'[c][x].there THEN Set(x) ELSE Pop(x)
  <2>1. CASE x # p
    <3>1. \/ x \in detached[c]
          \/ mine[c][x].there /\ mine[c][x].user
          \/ \E j \in 1..n : todo[c][j] = IF mine[c][x].there THEN Set(x) ELSE Pop(x)
      BY <1>2, <2>1 DEF EditionsAreToBeTold, EditionIsToBeTold, n
    <3> QED
      BY <1>2, <1>4, <1>7, <2>1, <3>1
  <2>2. CASE x = p
    <3>1. ops = <<e>> => \E j \in 1..Len(todo'[c]) : todo'[c][j] = e
      BY <1>7, <1>8
    <3>2. CASE q.there
      BY <1>2, <2>2, <3>1, <3>2
    <3>3. CASE ~q.there
      BY <1>2, <2>2, <3>1, <3>3
    <3> QED
      BY <3>2, <3>3
  <2> QED
    BY <2>1, <2>2
<1>11. detached'[c] \subseteq DOMAIN mine'[c]
  BY <1>2 DEF EditionsAreToBeTold, EditionIsToBeTold
<1>12. ASSUME NEW d \in Editor, d # c
       PROVE  mine'[d] = mine[d] /\ todo'[d] = todo[d] /\ detached'[d] = detached[d] /\ told'[d] = told[d]
  BY <1>2, <1>12
<1>13. EditionIsToBeTold(c)'
  <2>1. \A j \in 1..Len(todo'[c]) : todo'[c][j].prop \in DOMAIN mine'[c]
    BY <1>9
  <2>2. \A j \in 1..Len(todo'[c]) :
           LET x == todo'[c][j].prop
           IN  \/ todo'[c][j].do = "pop" \/ mine'[c][x].there \/ x \in detached'[c]
               \/ \E i \in (j + 1)..Len(todo'[c]) : todo'[c][i] = Pop(x)
    BY <1>9
  <2>3. ~told'[c]
    BY <1>2
  <2> QED
    BY <1>10, <1>11, <2>1, <2>2, <2>3 DEF EditionIsToBeTold, Set, Pop
<1>14. EditionsAreToBeTold'
  BY <1>2, <1>12, <1>13, SameEdition DEF EditionsAreToBeTold
<1> QED
  BY <1>2, <1>14

LEMMA EditionsAreProperties ==
  ASSUME PropTypes, NEW c \in Editor, NEW p \in Prop
  PROVE  /\ DOMAIN mine[c] \subseteq Prop
         /\ p \in DOMAIN mine[c] => mine[c][p] \in Property
         /\ PropOf(c, p) \in Property
<1>1. PICK D \in SUBSET Prop : mine[c] \in [D -> Property]
  BY DEF PropTypes
<1>2. props[p] \in Property
  BY DEF PropTypes
<1> QED
  BY <1>1, <1>2 DEF PropOf

\* Nobody is told of what is not committed.
LEMMA EditionKeepsStep ==
  ASSUME PropTypes, WillBeInStep, NEW c \in Editor, NEW p \in Prop, NEW q, NEW ops, NEW taken,
         Edit(c, p, q, ops, taken)
  PROVE  WillBeInStep'
<1>1. /\ ~told[c] /\ UNCHANGED <<props, told, registry, unsynced>>
      /\ \A d \in Editor \ {c} : mine'[d] = mine[d] /\ todo'[d] = todo[d]
  BY DEF Edit, PropTypes
<1>2. \A k \in Key : InStep(k) => InStep(k)'
  BY <1>1 DEF InStep, Of, SiteWide
<1>3. ASSUME NEW k \in Key, SomeoneSettles(k) PROVE SomeoneSettles(k)'
  <2>1. PICK d \in Editor : told[d] /\ \E j \in 1..Len(todo[d]) : Settles(d, todo[d][j], k)
    BY <1>3 DEF SomeoneSettles
  <2>2. mine'[d] = mine[d] /\ todo'[d] = todo[d] /\ told'[d]
    BY <1>1, <2>1
  <2> QED
    BY <2>1, <2>2 DEF SomeoneSettles, Settles, SiteWide
<1> QED
  BY <1>1, <1>2, <1>3 DEF WillBeInStep

LEMMA EditionsStep ==
  ASSUME PropInv, NEW c \in Editor, NEW p \in Prop,
         \/ AddProperty(c, p) \/ UpdateProperty(c, p) \/ DeleteProperty(c, p)
         \/ GiveProperty(c, p) \/ TakeProperty(c, p)
  PROVE  PropInv'
<1>0. PropTypes /\ EditionsAreToBeTold /\ WillBeInStep
  BY DEF PropInv
<1>1. PropOf(c, p) \in Property
  BY <1>0, EditionsAreProperties
<1>3. Set(p) \in {Set(p), Pop(p)} /\ Pop(p) \in {Set(p), Pop(p)} /\ Set(p) # Pop(p)
  BY DEF Set, Pop
<1>4. ASSUME AddProperty(c, p) PROVE PropInv'
  <2>1. PICK k \in Key, v \in Value, user \in BOOLEAN :
            Edit(c, p, [there |-> TRUE, key |-> k, value |-> v, user |-> user],
                 IF user THEN <<>> ELSE <<Set(p)>>, {})
    BY <1>4 DEF AddProperty
  <2> DEFINE q == [there |-> TRUE, key |-> k, value |-> v, user |-> user]
             ops == IF user THEN <<>> ELSE <<Set(p)>>
  <2>2. q \in Property /\ q.there /\ q.user = user
    BY DEF Property
  <2>3. (ops = <<>> \/ ops = <<Set(p)>>) /\ (~user => ops = <<Set(p)>>)
    OBVIOUS
  <2>4. Edit(c, p, q, ops, {}) /\ {} \in SUBSET {p}
    BY <2>1
  <2> HIDE DEF q, ops
  <2>5. PropTypes' /\ EditionsAreToBeTold'
    BY <1>0, <1>3, <2>2, <2>3, <2>4, EditionStep
  <2> QED
    BY <1>0, <2>4, <2>5, EditionKeepsStep DEF PropInv
<1>5. ASSUME UpdateProperty(c, p) PROVE PropInv'
  <2>1. PICK k \in Key, v \in Value :
            Edit(c, p, [PropOf(c, p) EXCEPT !.key = k, !.value = v],
                 IF PropOf(c, p).user THEN <<>> ELSE <<Set(p)>>, {})
    BY <1>5 DEF UpdateProperty
  <2> DEFINE q == [PropOf(c, p) EXCEPT !.key = k, !.value = v]
             ops == IF PropOf(c, p).user THEN <<>> ELSE <<Set(p)>>
  <2>2. q \in Property /\ q.there /\ q.user = PropOf(c, p).user
    BY <1>1, <1>5 DEF Property, UpdateProperty
  <2>3. (ops = <<>> \/ ops = <<Set(p)>>) /\ (~PropOf(c, p).user => ops = <<Set(p)>>)
    OBVIOUS
  <2>4. Edit(c, p, q, ops, {}) /\ {} \in SUBSET {p}
    BY <2>1
  <2> HIDE DEF q, ops
  <2>5. PropTypes' /\ EditionsAreToBeTold'
    BY <1>0, <1>3, <2>2, <2>3, <2>4, EditionStep
  <2> QED
    BY <1>0, <2>4, <2>5, EditionKeepsStep DEF PropInv
<1>6. ASSUME DeleteProperty(c, p) PROVE PropInv'
  <2> DEFINE q == [PropOf(c, p) EXCEPT !.there = FALSE]
             ops == IF p \in detached[c] THEN <<>> ELSE <<Pop(p)>>
  <2>2. q \in Property /\ ~q.there
    BY <1>1 DEF Property
  <2>3. (ops = <<>> \/ ops = <<Pop(p)>>) /\ (p \in detached[c] \/ ops = <<Pop(p)>>)
    OBVIOUS
  <2>4. Edit(c, p, q, ops, {}) /\ {} \in SUBSET {p}
    BY <1>6 DEF DeleteProperty
  <2> HIDE DEF q, ops
  <2>5. PropTypes' /\ EditionsAreToBeTold'
    BY <1>0, <1>3, <2>2, <2>3, <2>4, EditionStep
  <2> QED
    BY <1>0, <2>4, <2>5, EditionKeepsStep DEF PropInv
<1>7. ASSUME GiveProperty(c, p) PROVE PropInv'
  <2> DEFINE q == [PropOf(c, p) EXCEPT !.user = TRUE]
             ops == <<>>
  <2>2. q \in Property /\ q.there /\ q.user
    BY <1>1, <1>7 DEF Property, GiveProperty, SiteWide
  <2>3. ops = <<>> \/ ops = <<Set(p)>>
    OBVIOUS
  <2>4. Edit(c, p, q, ops, {}) /\ {} \in SUBSET {p}
    BY <1>7 DEF GiveProperty
  <2> HIDE DEF q, ops
  <2>5. PropTypes' /\ EditionsAreToBeTold'
    BY <1>0, <1>3, <2>2, <2>3, <2>4, EditionStep
  <2> QED
    BY <1>0, <2>4, <2>5, EditionKeepsStep DEF PropInv
<1>8. ASSUME TakeProperty(c, p) PROVE PropInv'
  <2> DEFINE q == [PropOf(c, p) EXCEPT !.user = FALSE]
             ops == <<>>
  <2>2. q \in Property /\ q.there
    BY <1>1, <1>8 DEF Property, TakeProperty
  <2>3. ops = <<>> \/ ops = <<Set(p)>>
    OBVIOUS
  <2>4. Edit(c, p, q, ops, {p}) /\ {p} \in SUBSET {p} /\ p \in {p}
    BY <1>8 DEF TakeProperty
  <2> HIDE DEF q, ops
  <2>5. PropTypes' /\ EditionsAreToBeTold'
    BY <1>0, <1>3, <2>2, <2>3, <2>4, EditionStep
  <2> QED
    BY <1>0, <2>4, <2>5, EditionKeepsStep DEF PropInv
<1> QED
  BY <1>4, <1>5, <1>6, <1>7, <1>8

LEMMA CommitPropertiesStep ==
  ASSUME PropInv, NEW c \in Editor, CommitProperties(c)
  PROVE  PropInv'
<1>1. /\ PropTypes /\ EditionsAreToBeTold /\ WillBeInStep
      /\ \A d \in Editor : EditionIsToBeTold(d)
  BY DEF PropInv, EditionsAreToBeTold
<1>2. /\ ~told[c] /\ told'[c] /\ \A d \in Editor \ {c} : told'[d] = told[d]
      /\ props' = [p \in Prop |-> PropOf(c, p)] /\ unsynced' = unsynced \cup Untold(c)
      /\ UNCHANGED <<mine, detached, todo, registry>>
  BY <1>1 DEF CommitProperties, PropTypes
<1>3. PropTypes'
  <2>1. props' \in [Prop -> Property]
    BY <1>1, <1>2, EditionsAreProperties
  <2>2. told' \in [Editor -> BOOLEAN]
    BY <1>1 DEF CommitProperties, PropTypes
  <2> QED
    BY <1>1, <1>2, <2>1, <2>2 DEF PropTypes
<1>4. \A p \in DOMAIN mine[c] : p \in detached[c] => {props[p].key, mine[c][p].key} \subseteq Untold(c)
  BY DEF Untold
<1>5. \A p \in DOMAIN mine[c] :
         SiteWide(props[p]) /\ (mine[c][p].user \/ mine[c][p].key # props[p].key)
            => props[p].key \in Untold(c)
  BY DEF Untold
<1>6. EditionsAreToBeTold'
  <2>1. ASSUME NEW d \in Editor, d # c PROVE EditionIsToBeTold(d)'
    BY <1>1, <1>2, <2>1, SameEdition
  <2>2. EditionIsToBeTold(c)'
    BY <1>1, <1>2, <1>4 DEF EditionIsToBeTold, Pop
  <2> QED
    BY <2>1, <2>2 DEF EditionsAreToBeTold
<1>7. ASSUME NEW k \in Key \ unsynced' PROVE InStep(k)' \/ SomeoneSettles(k)'
  <2>1. k \notin unsynced /\ k \notin Untold(c)
    BY <1>2, <1>7
  <2>2. CASE SomeoneSettles(k)
    <3>1. PICK d \in Editor : told[d] /\ \E j \in 1..Len(todo[d]) : Settles(d, todo[d][j], k)
      BY <2>2 DEF SomeoneSettles
    <3>2. d # c
      BY <1>2, <3>1
    <3> QED
      BY <1>2, <3>1, <3>2 DEF SomeoneSettles, Settles, SiteWide
  <2>3. ASSUME NEW p \in DOMAIN mine[c], mine[c][p].key = k, ~(mine[c][p].there /\ mine[c][p].user)
        PROVE  SomeoneSettles(k)'
    <3>1. p \notin detached[c]
      BY <1>4, <2>1, <2>3
    <3>2. PICK j \in 1..Len(todo[c]) : todo[c][j] = IF mine[c][p].there THEN Set(p) ELSE Pop(p)
      BY <1>1, <1>2, <2>3, <3>1 DEF EditionIsToBeTold
    <3>3. Settles(c, todo[c][j], k)
      BY <2>3, <3>2 DEF Settles, Set, Pop, SiteWide
    <3> QED
      BY <1>2, <3>3 DEF SomeoneSettles, Settles, SiteWide
  <2>4. CASE InStep(k) /\ \A p \in DOMAIN mine[c] : mine[c][p].key = k => mine[c][p].user
    <3>1. \A p \in Prop : props'[p] = PropOf(c, p)
      BY <1>2
    <3>2. ASSUME NEW p \in Prop
          PROVE  /\ p \in Of(k)' <=> p \in Of(k)
                 /\ p \in Of(k) => props'[p] = props[p]
      <4>1. CASE p \in DOMAIN mine[c]
        <5>1. props'[p] = mine[c][p]
          BY <3>1, <4>1 DEF PropOf
        <5>2. p \notin Of(k)'
          BY <2>4, <4>1, <5>1 DEF Of, SiteWide
        <5>3. p \notin Of(k)
          BY <1>5, <2>1, <2>4, <4>1 DEF Of
        <5> QED
          BY <5>2, <5>3
      <4>2. CASE p \notin DOMAIN mine[c]
        <5>1. props'[p] = props[p]
          BY <3>1, <4>2 DEF PropOf
        <5> QED
          BY <5>1 DEF Of, SiteWide
      <4> QED
        BY <4>1, <4>2
    <3>3. Of(k)' \subseteq Prop /\ Of(k) \subseteq Prop
      BY DEF Of
    <3>4. Of(k)' = Of(k)
      BY <3>2, <3>3
    <3> QED
      BY <1>2, <2>4, <3>2, <3>3, <3>4 DEF InStep
  <2> QED
    BY <1>1, <2>1, <2>2, <2>3, <2>4 DEF WillBeInStep
<1> QED
  BY <1>3, <1>6, <1>7 DEF PropInv, WillBeInStep

LEMMA EndEditionStep ==
  ASSUME PropInv, NEW c \in Editor, ~told[c] \/ todo[c] = <<>>, EndEdition(c)
  PROVE  PropInv'
<1>1. /\ PropTypes /\ EditionsAreToBeTold /\ WillBeInStep
      /\ \A d \in Editor : EditionIsToBeTold(d)
  BY DEF PropInv, EditionsAreToBeTold
<1>2. NoEdit \in UNION {[D -> Property] : D \in SUBSET Prop} /\ DOMAIN NoEdit = {}
  <2>1. NoEdit \in [{} -> Property] /\ DOMAIN NoEdit = {}
    BY DEF NoEdit
  <2> QED
    BY <2>1
<1>3. /\ mine'[c] = NoEdit /\ detached'[c] = {} /\ todo'[c] = <<>> /\ ~told'[c]
      /\ \A d \in Editor \ {c} : /\ mine'[d] = mine[d] /\ detached'[d] = detached[d]
                                 /\ todo'[d] = todo[d] /\ told'[d] = told[d]
      /\ UNCHANGED <<props, registry, unsynced>>
  BY <1>1 DEF EndEdition, PropTypes
<1>4. PropTypes'
  BY <1>1, <1>2, EmptySequence DEF EndEdition, PropTypes
<1>5. EditionsAreToBeTold'
  <2>1. ASSUME NEW d \in Editor, d # c PROVE EditionIsToBeTold(d)'
    BY <1>1, <1>3, <2>1, SameEdition
  <2>2. Len(todo'[c]) = 0 /\ 1..0 = {}
    BY <1>3
  <2>3. EditionIsToBeTold(c)'
    BY <1>2, <1>3, <2>2 DEF EditionIsToBeTold
  <2> QED
    BY <2>1, <2>3 DEF EditionsAreToBeTold
<1>6. ASSUME NEW k \in Key, SomeoneSettles(k) PROVE SomeoneSettles(k)'
  <2>1. PICK d \in Editor : told[d] /\ \E j \in 1..Len(todo[d]) : Settles(d, todo[d][j], k)
    BY <1>6 DEF SomeoneSettles
  <2>2. d # c
    <3>1. Len(<<>>) = 0 /\ 1..0 = {}
      OBVIOUS
    <3> QED
      BY <2>1, <3>1
  <2> QED
    BY <1>3, <2>1, <2>2 DEF SomeoneSettles, Settles, SiteWide
<1>7. \A k \in Key : InStep(k) => InStep(k)'
  BY <1>3 DEF InStep, Of, SiteWide
<1> QED
  BY <1>1, <1>3, <1>4, <1>5, <1>6, <1>7 DEF PropInv, WillBeInStep

LEMMA TellRegistryStep ==
  ASSUME PropInv, NEW c \in Editor, TellRegistry(c)
  PROVE  PropInv'
<1> DEFINE o == Head(todo[c])
           q == mine[c][o.prop]
           rest == Tail(todo[c])
<1>1. /\ PropTypes /\ EditionsAreToBeTold /\ WillBeInStep
      /\ \A d \in Editor : EditionIsToBeTold(d)
  BY DEF PropInv, EditionsAreToBeTold
<1>2. told[c] /\ todo[c] # <<>> /\ todo[c] \in Seq(OpOfProperty)
  BY <1>1 DEF TellRegistry, PropTypes
<1>3. /\ rest \in Seq(OpOfProperty) /\ o = todo[c][1] /\ o \in OpOfProperty
      /\ Len(todo[c]) \in Nat \ {0} /\ Len(rest) = Len(todo[c]) - 1
      /\ \A j \in 1..Len(rest) : rest[j] = todo[c][j + 1]
  <2>1. Len(todo[c]) \in Nat \ {0}
    BY <1>2, EmptySeq
  <2> QED
    BY <1>2, <2>1, HeadTailProperties
<1>4. /\ o.prop \in Prop /\ o.prop \in DOMAIN mine[c] /\ q \in Property
      /\ o.do \in {"set", "pop"}
  <2>1. 1 \in 1..Len(todo[c])
    BY <1>3
  <2>2. o.prop \in DOMAIN mine[c]
    BY <1>1, <1>3, <2>1 DEF EditionIsToBeTold
  <2> QED
    BY <1>1, <1>3, <2>2, EditionsAreProperties DEF OpOfProperty
<1> DEFINE pop == o.do = "pop"
           others == {x \in Prop : SiteWide(props[x]) /\ props[x].key = q.key}
<1>5. /\ registry' = IF pop THEN [registry EXCEPT ![q.key] = Default]
                     ELSE IF q.user THEN registry
                     ELSE [registry EXCEPT ![q.key] = q.value]
      /\ unsynced' = IF (pop /\ others # {}) \/ (~pop /\ ~q.user /\ props[o.prop] # q)
                     THEN unsynced \cup {q.key} ELSE unsynced
      /\ todo' = [todo EXCEPT ![c] = rest]
      /\ UNCHANGED <<props, mine, detached, told>>
  BY DEF TellRegistry
<1>6. others = Of(q.key)
  BY DEF Of
<1> HIDE DEF o, q, rest, others
<1>7. /\ todo'[c] = rest /\ \A d \in Editor \ {c} : todo'[d] = todo[d]
      /\ unsynced \subseteq unsynced'
      /\ UNCHANGED <<props, mine, detached, told>>
  BY <1>1, <1>5 DEF PropTypes
<1>8. PropTypes'
  BY <1>1, <1>3, <1>4, <1>5 DEF PropTypes, Property
<1>9. \A j \in 1..Len(rest) : j + 1 \in 1..Len(todo[c])
  BY <1>3
<1>10. EditionIsToBeTold(c)'
  <2>1. ASSUME NEW j \in 1..Len(rest)
        PROVE  LET p == rest[j].prop
               IN  /\ p \in DOMAIN mine[c]
                   /\ \/ rest[j].do = "pop" \/ mine[c][p].there \/ p \in detached[c]
                      \/ \E i \in (j + 1)..Len(rest) : rest[i] = Pop(p)
    <3> DEFINE p == rest[j].prop
    <3>1. rest[j] = todo[c][j + 1] /\ j + 1 \in 1..Len(todo[c])
      BY <1>3, <1>9
    <3>2. /\ p \in DOMAIN mine[c]
          /\ \/ rest[j].do = "pop" \/ mine[c][p].there \/ p \in detached[c]
             \/ \E i \in (j + 2)..Len(todo[c]) : todo[c][i] = Pop(p)
      BY <1>1, <1>3, <3>1 DEF EditionIsToBeTold
    <3>3. ASSUME NEW i \in (j + 2)..Len(todo[c])
          PROVE  i - 1 \in (j + 1)..Len(rest) /\ rest[i - 1] = todo[c][i]
      <4>1. i - 1 \in (j + 1)..Len(rest) /\ i - 1 \in 1..Len(rest) /\ (i - 1) + 1 = i
        BY <1>3
      <4> QED
        BY <1>3, <4>1
    <3> QED
      BY <3>2, <3>3
  <2>2. detached[c] \subseteq DOMAIN mine[c] /\ \A p \in detached[c] : mine[c][p].key \in unsynced
    BY <1>1, <1>2 DEF EditionIsToBeTold
  <2>3. \A p \in detached'[c] : mine'[c][p].key \in unsynced'
    BY <1>7, <2>2
  <2> QED
    BY <1>2, <1>7, <2>1, <2>2, <2>3 DEF EditionIsToBeTold, Pop
<1>11. EditionsAreToBeTold'
  <2>1. ASSUME NEW d \in Editor, d # c PROVE EditionIsToBeTold(d)'
    BY <1>1, <1>5, <1>7, <2>1, SameEdition
  <2> QED
    BY <1>10, <2>1 DEF EditionsAreToBeTold
<1>12. ASSUME NEW k \in Key, SomeoneSettles(k), ~Settles(c, o, k) PROVE SomeoneSettles(k)'
  <2>1. PICK d \in Editor : told[d] /\ \E j \in 1..Len(todo[d]) : Settles(d, todo[d][j], k)
    BY <1>12 DEF SomeoneSettles
  <2>2. CASE d # c
    BY <1>7, <2>1, <2>2 DEF SomeoneSettles, Settles, SiteWide
  <2>3. CASE d = c
    <3>1. PICK j \in 1..Len(todo[c]) : Settles(c, todo[c][j], k)
      BY <2>1, <2>3
    <3>2. j # 1
      BY <1>3, <1>12, <3>1
    <3>3. j - 1 \in 1..Len(rest) /\ (j - 1) + 1 = j
      BY <1>3, <3>2
    <3>4. rest[j - 1] = todo[c][j]
      BY <1>3, <3>3
    <3> QED
      BY <1>2, <1>7, <3>1, <3>3, <3>4 DEF SomeoneSettles, Settles, SiteWide
  <2> QED
    BY <2>2, <2>3
<1>13. \A k \in Key : k # q.key \/ (~pop /\ q.user) => registry'[k] = registry[k]
  BY <1>1, <1>4, <1>5 DEF PropTypes, Property
<1>14. \A k \in Key : InStep(k) /\ registry'[k] = registry[k] => InStep(k)'
  BY <1>5 DEF InStep, Of, SiteWide
<1>15. \A k \in Key : Settles(c, o, k) => k = q.key /\ (pop \/ ~q.user)
  BY DEF Settles, SiteWide, q
<1>16. ASSUME NEW k \in Key \ unsynced' PROVE InStep(k)' \/ SomeoneSettles(k)'
  <2>1. InStep(k) \/ SomeoneSettles(k)
    BY <1>1, <1>7, <1>16 DEF WillBeInStep
  <2>2. CASE k # q.key \/ (~pop /\ q.user)
    BY <1>12, <1>13, <1>14, <1>15, <2>1, <2>2
  <2>3. CASE k = q.key /\ pop
    <3>1. others = {}
      BY <1>5, <1>16, <2>3
    <3>2. registry'[k] = Default /\ Of(k)' = {}
      BY <1>1, <1>4, <1>5, <1>6, <2>3, <3>1 DEF PropTypes, Of, SiteWide
    <3> QED
      BY <3>2 DEF InStep
  <2>4. CASE k = q.key /\ ~pop /\ ~q.user
    <3>1. props[o.prop] = q
      BY <1>5, <1>16, <2>4
    <3>2. registry'[k] = q.value
      BY <1>1, <1>4, <1>5, <2>4 DEF PropTypes
    <3>3. CASE q.there
      <4>1. o.prop \in Of(k)' /\ props'[o.prop].value = q.value
        BY <1>4, <1>5, <2>4, <3>1, <3>3 DEF Of, SiteWide
      <4> QED
        BY <3>2, <4>1 DEF InStep
    <3>4. CASE ~q.there
      <4>1. 1 \in 1..Len(todo[c])
        BY <1>3
      <4>2. ~mine[c][todo[c][1].prop].there /\ todo[c][1].do # "pop" /\ todo[c][1].prop = o.prop
        BY <1>3, <2>4, <3>4 DEF q
      <4>3. \/ o.prop \in detached[c]
            \/ \E i \in 2..Len(todo[c]) : todo[c][i] = Pop(o.prop)
        BY <1>1, <4>1, <4>2 DEF EditionIsToBeTold
      <4>4. o.prop \notin detached[c]
        <5>1. o.prop \in detached[c] => q.key \in unsynced
          BY <1>1, <1>2 DEF EditionIsToBeTold, q
        <5> QED
          BY <1>7, <1>16, <2>4, <5>1
      <4>5. PICK i \in 2..Len(todo[c]) : todo[c][i] = Pop(o.prop)
        BY <4>3, <4>4
      <4>6. i - 1 \in 1..Len(rest) /\ (i - 1) + 1 = i
        BY <1>3
      <4>7. rest[i - 1] = Pop(o.prop)
        BY <1>3, <4>5, <4>6
      <4>8. mine'[c][Pop(o.prop).prop].key = k /\ Pop(o.prop).do = "pop"
        BY <1>5, <2>4 DEF Pop, q
      <4> QED
        BY <1>2, <1>5, <1>7, <4>6, <4>7, <4>8 DEF SomeoneSettles, Settles
    <3> QED
      BY <3>3, <3>4
  <2> QED
    BY <1>4, <2>2, <2>3, <2>4
<1> QED
  BY <1>8, <1>11, <1>16 DEF PropInv, WillBeInStep

\* hooks/syncsession.py:46-68: an operation of a transaction puts the registry in step
\* with the property it is about, and until then will do so.
THEOREM PropInvariant == PropSpec => []PropInv
<1>1. ASSUME PropInv, NEW c \in Editor, PropStep(c) PROVE PropInv'
  <2>1. CASE DropProperties(c) \/ AllTold(c)
    BY <1>1, <2>1, EndEditionStep DEF DropProperties, AllTold
  <2> QED
    BY <1>1, <2>1, EditionsStep, CommitPropertiesStep, TellRegistryStep DEF PropStep
<1>2. ASSUME PropInv, UNCHANGED propVars PROVE PropInv'
  <2>1. PropTypes'
    BY <1>2 DEF PropInv, PropTypes, propVars
  <2>2. EditionsAreToBeTold'
    BY <1>2, SameEdition DEF PropInv, EditionsAreToBeTold, propVars
  <2>3. WillBeInStep'
    BY <1>2 DEF PropInv, WillBeInStep, InStep, Of, SiteWide, SomeoneSettles, Settles, propVars
  <2> QED
    BY <2>1, <2>2, <2>3 DEF PropInv
<1>3. PropInv /\ [PropNext]_propVars => PropInv'
  BY <1>1, <1>2 DEF PropNext
<1> QED
  BY <1>3, PropInitInv, PTL DEF PropSpec

\* hooks/syncsession.py:30: between transactions the registry has the value of a
\* site-wide property of the key, or the default without any.
THEOREM RegistryInStepHolds == PropSpec => []RegistryInStep
<1>1. PropInv => RegistryInStep
  <2> SUFFICES ASSUME PropInv, \A c \in Editor : ~told[c], NEW k \in Key \ unsynced
               PROVE  LET values == {props[p].value : p \in {p \in Prop :
                                         SiteWide(props[p]) /\ props[p].key = k}}
                      IN  registry[k] \in IF values = {} THEN {Default} ELSE values
    BY DEF RegistryInStep
  <2>1. InStep(k)
    BY DEF PropInv, WillBeInStep, SomeoneSettles
  <2>2. CASE Of(k) = {}
    BY <2>1, <2>2 DEF InStep, Of
  <2>3. CASE Of(k) # {}
    BY <2>1, <2>3 DEF InStep, Of
  <2> QED
    BY <2>2, <2>3
<1> QED
  BY <1>1, PropInvariant, PTL

--------------------------------------------------------------------------------
(* RelationCache.                                                          *)

Bag == [Person -> Nat]
More(b, e) == [b EXCEPT ![e] = @ + 1]
Less(b, e) == [b EXCEPT ![e] = @ - 1]
Caches == [CacheKey -> Bag \cup {NotCached}]

RelTypes ==
    /\ relation \in {"plain", "symmetric", "inlined"}
    /\ savedPairs \in SUBSET (Person \X Person) /\ pairs \in SUBSET (Person \X Person)
    /\ related \in Caches
    /\ \/ doing = NothingToDo
       \/ /\ relation = "symmetric" /\ doing.subject # doing.object
          /\ doing \in [step : {"mirror"}, subject : Person, object : Person]
       \/ /\ relation = "inlined" /\ doing.previous # doing.object
          /\ doing \in [step : {"write", "cache"}, subject : Person, object : Person,
                        previous : Person \cup {Nobody}]

Subj(x) == <<"subject", x>>
Obj(x) == <<"object", x>>

Functional(S) == \A p, q \in S : p[1] = q[1] => p = q
Symmetric(S) == \A p \in S : p[1] # p[2] /\ <<p[2], p[1]>> \in S

(* What the call under way will leave, in the database and in the cache.   *)
Due ==
    IF doing.step # "mirror" THEN pairs
    ELSE IF <<doing.subject, doing.object>> \in pairs
         THEN pairs \cup {<<doing.object, doing.subject>>}
         ELSE pairs \ {<<doing.object, doing.subject>>}
Updating(r, x, y, previous) ==
    update_rel_cache_add(IF previous = Nobody THEN r ELSE update_rel_cache_del(r, x, previous),
                         x, y)
Updated ==
    IF doing.step # "cache" THEN related
    ELSE Updating(related, doing.subject, doing.object, doing.previous)

(* The pairs are those of a relation of its kind, and a new object is not  *)
(* written over one that the cache did not know of.                        *)
PairsAreWell ==
    /\ relation = "inlined" => Functional(pairs) /\ Functional(savedPairs)
    /\ relation = "symmetric" => Symmetric(Due) /\ Symmetric(savedPairs)
    /\ doing.step = "cache" => <<doing.subject, doing.object>> \in pairs
    /\ doing.step = "write" =>
          /\ Subj(doing.subject) \in Cached
          /\ doing.previous # Nobody => \E p \in Person : related[Subj(doing.subject)][p] > 0

WillFollow == \A k \in Cached \ wrong : Updated[k] = Found(Due, k)

RelInv == RelTypes /\ PairsAreWell /\ WillFollow

(* The pair of a key and an entity, in the order of the relation.          *)
PairOf(k, p) == IF k[1] = "subject" THEN <<k[2], p>> ELSE <<p, k[2]>>

LEMMA FoundSame ==
  ASSUME NEW S, NEW U, NEW k,
         \A p \in Person : PairOf(k, p) \in S <=> PairOf(k, p) \in U
  PROVE  Found(S, k) = Found(U, k)
  BY DEF Found, PairOf

LEMMA FoundIsBag ==
  ASSUME NEW S, NEW k
  PROVE  /\ Found(S, k) \in Bag
         /\ \A p \in Person : Found(S, k)[p] = IF PairOf(k, p) \in S THEN 1 ELSE 0
  BY DEF Found, PairOf, Bag

\* One more entity, and one less.
LEMMA FoundMore ==
  ASSUME NEW S, NEW U, NEW k, NEW e \in Person, PairOf(k, e) \notin S, PairOf(k, e) \in U,
         \A p \in Person \ {e} : PairOf(k, p) \in S <=> PairOf(k, p) \in U
  PROVE  More(Found(S, k), e) = Found(U, k)
<1> DEFINE f == Found(S, k)
           g == Found(U, k)
<1>1. /\ f \in Bag /\ g \in Bag
      /\ \A p \in Person : f[p] = IF PairOf(k, p) \in S THEN 1 ELSE 0
      /\ \A p \in Person : g[p] = IF PairOf(k, p) \in U THEN 1 ELSE 0
  BY FoundIsBag
<1> HIDE DEF f, g
<1>2. [f EXCEPT ![e] = f[e] + 1] = g
  BY <1>1 DEF Bag
<1> QED
  BY <1>2 DEF f, g, More

LEMMA FoundLess ==
  ASSUME NEW S, NEW U, NEW k, NEW e \in Person, PairOf(k, e) \in S, PairOf(k, e) \notin U,
         \A p \in Person \ {e} : PairOf(k, p) \in S <=> PairOf(k, p) \in U
  PROVE  Less(Found(S, k), e) = Found(U, k)
<1> DEFINE f == Found(S, k)
           g == Found(U, k)
<1>1. /\ f \in Bag /\ g \in Bag
      /\ \A p \in Person : f[p] = IF PairOf(k, p) \in S THEN 1 ELSE 0
      /\ \A p \in Person : g[p] = IF PairOf(k, p) \in U THEN 1 ELSE 0
  BY FoundIsBag
<1> HIDE DEF f, g
<1>2. [f EXCEPT ![e] = f[e] - 1] = g
  BY <1>1 DEF Bag
<1> QED
  BY <1>2 DEF f, g, Less

LEMMA CacheWithProperties ==
  ASSUME NEW r \in Caches, NEW key \in CacheKey, NEW e \in Person
  PROVE  /\ CacheWith(r, key, e) \in Caches
         /\ \A k \in CacheKey \ {key} : CacheWith(r, key, e)[k] = r[k]
         /\ CacheWith(r, key, e)[key] = IF r[key] = NotCached THEN NotCached
                                        ELSE More(r[key], e)
<1>1. CASE r[key] = NotCached
  BY <1>1 DEF CacheWith, Caches
<1>2. CASE r[key] # NotCached
  <2>1. r[key] \in Bag
    BY <1>2 DEF Caches
  <2> DEFINE b == [r[key] EXCEPT ![e] = r[key][e] + 1]
  <2>2. b \in Bag
    BY <2>1 DEF Bag
  <2>3. CacheWith(r, key, e) = [r EXCEPT ![key] = b]
    BY <1>2 DEF CacheWith
  <2> HIDE DEF b
  <2>4. /\ [r EXCEPT ![key] = b] \in Caches
        /\ \A k \in CacheKey \ {key} : [r EXCEPT ![key] = b][k] = r[k]
        /\ [r EXCEPT ![key] = b][key] = b
    BY <2>2 DEF Caches
  <2> QED
    BY <1>2, <2>3, <2>4 DEF b, More
<1> QED
  BY <1>1, <1>2

LEMMA CacheWithoutProperties ==
  ASSUME NEW r \in Caches, NEW key \in CacheKey, NEW e \in Person
  PROVE  /\ CacheWithout(r, key, e) \in Caches
         /\ \A k \in CacheKey \ {key} : CacheWithout(r, key, e)[k] = r[k]
         /\ CacheWithout(r, key, e)[key] =
               IF r[key] = NotCached \/ r[key][e] = 0 THEN r[key]
               ELSE Less(r[key], e)
<1>1. CASE r[key] = NotCached \/ r[key][e] = 0
  BY <1>1 DEF CacheWithout, Caches
<1>2. CASE ~(r[key] = NotCached \/ r[key][e] = 0)
  <2>1. r[key] \in Bag
    BY <1>2 DEF Caches
  <2> DEFINE b == [r[key] EXCEPT ![e] = r[key][e] - 1]
  <2>2. b \in Bag
    BY <1>2, <2>1 DEF Bag
  <2>3. CacheWithout(r, key, e) = [r EXCEPT ![key] = b]
    BY <1>2 DEF CacheWithout
  <2> HIDE DEF b
  <2>4. /\ [r EXCEPT ![key] = b] \in Caches
        /\ \A k \in CacheKey \ {key} : [r EXCEPT ![key] = b][k] = r[k]
        /\ [r EXCEPT ![key] = b][key] = b
    BY <2>2 DEF Caches
  <2> QED
    BY <1>2, <2>3, <2>4 DEF b, Less
<1> QED
  BY <1>1, <1>2

LEMMA KeysProperties ==
  ASSUME NEW x \in Person, NEW y \in Person
  PROVE  /\ Subj(x) \in CacheKey /\ Obj(x) \in CacheKey /\ Subj(x) # Obj(y)
         /\ Subj(x) = Subj(y) => x = y
         /\ Obj(x) = Obj(y) => x = y
         /\ PairOf(Subj(x), y) = <<x, y>> /\ PairOf(Obj(x), y) = <<y, x>>
         /\ Subj(x)[1] = "subject" /\ Obj(x)[1] = "object" /\ Subj(x)[2] = x /\ Obj(x)[2] = x
  BY DEF Subj, Obj, CacheKey, Role, PairOf

LEMMA KeyCases ==
  ASSUME NEW k \in CacheKey
  PROVE  \E z \in Person : k = Subj(z) \/ k = Obj(z)
  BY DEF Subj, Obj, CacheKey, Role

\* A pair matters to two keys.
LEMMA OtherKeys ==
  ASSUME NEW S, NEW U, NEW x \in Person, NEW y \in Person,
         \A p, q \in Person : (p = x /\ q = y) \/ (<<p, q>> \in S <=> <<p, q>> \in U),
         NEW k \in CacheKey, k # Subj(x), k # Obj(y)
  PROVE  Found(S, k) = Found(U, k)
<1>1. PICK z \in Person : k = Subj(z) \/ k = Obj(z)
  BY KeyCases
<1>2. CASE k = Subj(z)
  <2>1. z # x /\ \A p \in Person : PairOf(k, p) = <<z, p>>
    BY <1>2, KeysProperties
  <2> QED
    BY <2>1, FoundSame
<1>3. CASE k = Obj(z)
  <2>1. z # y /\ \A p \in Person : PairOf(k, p) = <<p, z>>
    BY <1>3, KeysProperties
  <2> QED
    BY <2>1, FoundSame
<1> QED
  BY <1>1, <1>2, <1>3

(* What the update makes of the bag b of the key k.                        *)
UpdatedAt(b, k, x, y, previous) ==
    IF b = NotCached THEN NotCached
    ELSE IF k = Subj(x)
    THEN IF previous = Nobody \/ b[previous] = 0 THEN More(b, y) ELSE More(Less(b, previous), y)
    ELSE IF k = Obj(y) THEN More(b, x)
    ELSE IF previous # Nobody /\ k = Obj(previous) /\ b[x] # 0 THEN Less(b, x) ELSE b

\* An update does to each key what it does to its bag.
LEMMA UpdatingProperties ==
  ASSUME relation # "symmetric", NEW r \in Caches,
         NEW x \in Person, NEW y \in Person, NEW previous \in Person \cup {Nobody}, previous # y
  PROVE  /\ Updating(r, x, y, previous) \in Caches
         /\ \A k \in CacheKey : Updating(r, x, y, previous)[k] = UpdatedAt(r[k], k, x, y, previous)
<1> DEFINE a == CacheWithout(r, Subj(x), previous)
           b == IF previous = Nobody THEN r ELSE CacheWithout(a, Obj(previous), x)
           d == CacheWith(b, Subj(x), y)
           s == CacheWith(d, Obj(y), x)
<1>1. Updating(r, x, y, previous) = s
  BY DEF Updating, update_rel_cache_add, update_rel_cache_del, Subj, Obj
<1>2. Subj(x) \in CacheKey /\ Obj(y) \in CacheKey /\ Subj(x) # Obj(y)
  BY KeysProperties
<1>3. previous # Nobody =>
         /\ a \in Caches
         /\ \A k \in CacheKey \ {Subj(x)} : a[k] = r[k]
         /\ a[Subj(x)] = IF r[Subj(x)] = NotCached \/ r[Subj(x)][previous] = 0 THEN r[Subj(x)]
                         ELSE Less(r[Subj(x)], previous)
  BY <1>2, CacheWithoutProperties
<1> HIDE DEF a
<1>4. previous # Nobody =>
         /\ Obj(previous) \in CacheKey /\ Obj(previous) # Subj(x) /\ Obj(previous) # Obj(y)
  BY KeysProperties
<1>5. previous # Nobody =>
         /\ b \in Caches
         /\ \A k \in CacheKey \ {Obj(previous)} : b[k] = a[k]
         /\ b[Obj(previous)] =
               IF a[Obj(previous)] = NotCached \/ a[Obj(previous)][x] = 0 THEN a[Obj(previous)]
               ELSE Less(a[Obj(previous)], x)
  BY <1>3, <1>4, CacheWithoutProperties
<1>6. b \in Caches /\ (previous = Nobody => b = r)
  BY <1>5
<1> HIDE DEF b
<1>7. /\ d \in Caches
      /\ \A k \in CacheKey \ {Subj(x)} : d[k] = b[k]
      /\ d[Subj(x)] = IF b[Subj(x)] = NotCached THEN NotCached ELSE More(b[Subj(x)], y)
  BY <1>2, <1>6, CacheWithProperties
<1> HIDE DEF d
<1>8. /\ s \in Caches
      /\ \A k \in CacheKey \ {Obj(y)} : s[k] = d[k]
      /\ s[Obj(y)] = IF d[Obj(y)] = NotCached THEN NotCached ELSE More(d[Obj(y)], x)
  BY <1>2, <1>7, CacheWithProperties
<1> HIDE DEF s
<1>9. \A k \in CacheKey : r[k] = NotCached => s[k] = NotCached
  BY <1>2, <1>3, <1>4, <1>5, <1>6, <1>7, <1>8
<1>10. \A k \in CacheKey : k # Subj(x) /\ k # Obj(y)
                           /\ (previous # Nobody => k # Obj(previous)) => s[k] = r[k]
  BY <1>3, <1>5, <1>6, <1>7, <1>8
<1>11. r[Obj(y)] # NotCached => s[Obj(y)] = More(r[Obj(y)], x)
  <2>1. d[Obj(y)] = r[Obj(y)]
    BY <1>2, <1>3, <1>4, <1>5, <1>6, <1>7
  <2> QED
    BY <1>8, <2>1
<1>12. previous # Nobody /\ r[Obj(previous)] # NotCached =>
          s[Obj(previous)] = IF r[Obj(previous)][x] = 0 THEN r[Obj(previous)]
                             ELSE Less(r[Obj(previous)], x)
  <2>1. previous # Nobody => s[Obj(previous)] = b[Obj(previous)] /\ a[Obj(previous)] = r[Obj(previous)]
    BY <1>3, <1>4, <1>7, <1>8
  <2> QED
    BY <1>5, <2>1
<1>13. r[Subj(x)] # NotCached /\ (previous = Nobody \/ r[Subj(x)][previous] = 0)
          => s[Subj(x)] = More(r[Subj(x)], y)
  <2>1. previous = Nobody => s[Subj(x)] = d[Subj(x)] /\ b[Subj(x)] = r[Subj(x)]
    BY <1>2, <1>6, <1>8
  <2>2. previous # Nobody /\ r[Subj(x)][previous] = 0 => s[Subj(x)] = d[Subj(x)] /\ b[Subj(x)] = r[Subj(x)]
    BY <1>2, <1>3, <1>4, <1>5, <1>8
  <2> QED
    BY <1>7, <2>1, <2>2
<1>14. previous # Nobody /\ r[Subj(x)] # NotCached /\ r[Subj(x)][previous] # 0 =>
          s[Subj(x)] = More(Less(r[Subj(x)], previous), y)
  <2> SUFFICES ASSUME previous # Nobody, r[Subj(x)] # NotCached, r[Subj(x)][previous] # 0
               PROVE  s[Subj(x)] = More(Less(r[Subj(x)], previous), y)
    OBVIOUS
  <2>1. r[Subj(x)] \in Bag
    BY <1>2 DEF Caches
  <2> DEFINE e == [r[Subj(x)] EXCEPT ![previous] = r[Subj(x)][previous] - 1]
  <2>2. e \in Bag /\ e # NotCached
    BY <2>1, CacheAssumption DEF Bag
  <2>3. a[Subj(x)] = Less(r[Subj(x)], previous) /\ b[Subj(x)] = a[Subj(x)]
    BY <1>2, <1>3, <1>4, <1>5
  <2>5. b[Subj(x)] = e
    BY <2>3 DEF Less
  <2> HIDE DEF e
  <2>4. s[Subj(x)] = [e EXCEPT ![y] = e[y] + 1]
    BY <1>2, <1>7, <1>8, <2>2, <2>5 DEF More
  <2> QED
    BY <2>4 DEF e, Less, More
<1>15. ASSUME NEW k \in CacheKey PROVE s[k] = UpdatedAt(r[k], k, x, y, previous)
  BY <1>4, <1>9, <1>10, <1>11, <1>12, <1>13, <1>14 DEF UpdatedAt
<1> QED
  BY <1>1, <1>8, <1>15

LEMMA RelInitInv == RelInit => RelInv
<1> SUFFICES ASSUME RelInit PROVE RelInv
  OBVIOUS
<1>1. \A k \in CacheKey : related[k] = NotCached
  BY DEF RelInit
<1>2. doing.step = "nothing" /\ pairs = {} /\ savedPairs = {}
  BY DEF RelInit, NothingToDo
<1>3. RelTypes
  BY DEF RelInit, RelTypes, Caches
<1>4. PairsAreWell
  BY <1>2 DEF PairsAreWell, Functional, Symmetric, Due
<1> QED
  BY <1>1, <1>3, <1>4 DEF RelInv, WillFollow, Cached

LEMMA DoingCases ==
  ASSUME RelTypes
  PROVE  /\ doing.step \in {"nothing", "mirror", "write", "cache"}
         /\ doing.step = "nothing" <=> doing = NothingToDo
         /\ doing.step = "mirror" => /\ relation = "symmetric" /\ doing.subject # doing.object
                                     /\ doing.subject \in Person /\ doing.object \in Person
         /\ doing.step \in {"write", "cache"} =>
               /\ relation = "inlined" /\ doing.previous # doing.object
               /\ doing.subject \in Person /\ doing.object \in Person
               /\ doing.previous \in Person \cup {Nobody}
  BY DEF RelTypes, NothingToDo

\* What is pointwise true of a cache that is being updated.
LEMMA UpdatedHere ==
  ASSUME RelTypes, NEW r \in Caches, NEW k \in CacheKey, doing.step = "cache"
  PROVE  /\ r[k] = related[k] =>
               Updating(r, doing.subject, doing.object, doing.previous)[k] = Updated[k]
         /\ k \notin AboutToFollow =>
               Updating(r, doing.subject, doing.object, doing.previous)[k] = r[k]
         /\ /\ k \notin {Subj(doing.subject), Obj(doing.object)}
            /\ r[k] # NotCached /\ r[k][doing.subject] = 0
            => Updating(r, doing.subject, doing.object, doing.previous)[k] = r[k]
<1> DEFINE x == doing.subject
           y == doing.object
           previous == doing.previous
           s == Updating(r, x, y, previous)
<1>1. /\ relation # "symmetric" /\ x \in Person /\ y \in Person
      /\ previous \in Person \cup {Nobody} /\ previous # y
  BY DoingCases
<1>2. related \in Caches /\ Updated = Updating(related, x, y, previous)
  BY DEF RelTypes, Updated
<1>3. k \notin AboutToFollow <=> k # Subj(x) /\ k # Obj(y) /\ (previous # Nobody => k # Obj(previous))
  BY DEF AboutToFollow, TooEarly, Subj, Obj
<1> HIDE DEF x, y, previous
<1>4. s[k] = UpdatedAt(r[k], k, x, y, previous)
  BY <1>1, UpdatingProperties
<1>5. Updated[k] = UpdatedAt(related[k], k, x, y, previous)
  BY <1>1, <1>2, UpdatingProperties
<1>6. k \notin AboutToFollow => s[k] = r[k]
  BY <1>3, <1>4 DEF UpdatedAt
<1>7. k # Subj(x) /\ k # Obj(y) /\ r[k] # NotCached /\ r[k][x] = 0 => s[k] = r[k]
  BY <1>4 DEF UpdatedAt
<1> QED
  BY <1>4, <1>5, <1>6, <1>7 DEF x, y, previous

LEMMA FillStep ==
  ASSUME RelInv, NEW key \in CacheKey, Fill(key)
  PROVE  RelInv'
<1> DEFINE found == Found(pairs, key)
           answered == IF relation = "inlined" /\ key[1] = "object"
                   THEN {<<"subject", p>> : p \in {q \in Person : found[q] > 0}}
                   ELSE {}
           filled == {key} \cup answered
<1>1. RelTypes /\ PairsAreWell /\ WillFollow
  BY DEF RelInv
<1>2. /\ related[key] = NotCached
      /\ related' = [k \in CacheKey |->
                       IF k = key THEN found
                       ELSE IF k \in answered
                       THEN [p \in Person |-> IF p = key[2] THEN 1 ELSE 0]
                       ELSE related[k]]
      /\ wrong' = (wrong \ filled) \cup (filled \cap TooEarly)
      /\ UNCHANGED <<relation, savedPairs, pairs, doing, writes>>
  BY DEF Fill
<1>3. ASSUME NEW k \in answered
      PROVE  relation = "inlined" /\ \E q \in Person : k = Subj(q) /\ <<q, key[2]>> \in pairs
  <2>1. PICK q \in Person : k = Subj(q) /\ found[q] > 0
    BY DEF Subj
  <2>2. key[1] = "object"
    BY <1>3
  <2>3. PairOf(key, q) \in pairs
    BY <2>1, FoundIsBag
  <2> QED
    BY <1>3, <2>1, <2>2, <2>3 DEF PairOf
<1>4. \A k \in CacheKey : k \notin filled => related'[k] = related[k]
  BY <1>2
<1>5. \A k \in CacheKey : k \in filled => related'[k] = Found(pairs, k)
  <2>1. ASSUME NEW k \in answered, k # key, k \in CacheKey PROVE related'[k] = Found(pairs, k)
    <3>1. PICK q \in Person : k = Subj(q) /\ <<q, key[2]>> \in pairs
      BY <1>3
    <3>2. key[2] \in Person /\ Functional(pairs)
      BY <1>1, <1>3 DEF PairsAreWell, CacheKey
    <3>3. \A p \in Person : PairOf(k, p) \in pairs <=> p = key[2]
      BY <3>1, <3>2, KeysProperties DEF Functional
    <3>4. related'[k] = [p \in Person |-> IF p = key[2] THEN 1 ELSE 0]
      BY <1>2, <2>1
    <3> HIDE DEF answered, found
    <3> QED
      BY <3>3, <3>4, FoundIsBag DEF Bag
  <2> QED
    BY <1>2, <2>1
<1> HIDE DEF answered, found
<1>6. related' \in Caches
  <2>1. \A k \in CacheKey : related'[k] \in Bag \cup {NotCached}
    BY <1>1, <1>4, <1>5, FoundIsBag DEF RelTypes, Caches
  <2>2. related' = [k \in CacheKey |-> related'[k]]
    BY <1>2
  <2> QED
    BY <2>1, <2>2 DEF Caches
<1>7. RelTypes'
  BY <1>1, <1>2, <1>6 DEF RelTypes
<1>8. PairsAreWell'
  <2>1. ASSUME doing.step = "write"
        PROVE  /\ Subj(doing.subject) \in Cached'
               /\ doing.previous # Nobody => \E p \in Person : related'[Subj(doing.subject)][p] > 0
    <3> DEFINE s == Subj(doing.subject)
    <3>1. /\ s \in Cached /\ s \in CacheKey
          /\ doing.previous # Nobody => \E p \in Person : related[s][p] > 0
      BY <1>1, <2>1 DEF PairsAreWell, Cached
    <3>2. CASE s \notin filled
      <4>1. related'[s] = related[s]
        BY <1>4, <3>1, <3>2
      <4> QED
        BY <3>1, <4>1 DEF Cached
    <3>3. CASE s \in filled
      <4>1. s # key
        BY <1>2, <3>1 DEF Cached
      <4>2. PICK q \in Person : s = Subj(q) /\ <<q, key[2]>> \in pairs
        BY <1>3, <3>3, <4>1
      <4>3. related'[s] = Found(pairs, s) /\ key[2] \in Person
        BY <1>5, <3>1, <3>3 DEF CacheKey
      <4>4. related'[s] # NotCached
        BY <4>3, FoundIsBag, CacheAssumption DEF Bag
      <4>5. PairOf(s, key[2]) \in pairs
        BY <4>2, <4>3, KeysProperties
      <4>6. related'[s][key[2]] > 0
        BY <4>3, <4>5, FoundIsBag
      <4> QED
        BY <3>1, <4>3, <4>4, <4>6 DEF Cached
    <3> QED
      BY <3>2, <3>3
  <2>2. Due' = Due
    BY <1>2 DEF Due
  <2> QED
    BY <1>1, <1>2, <2>1, <2>2 DEF PairsAreWell
<1>9. ASSUME NEW k \in Cached', k \notin wrong' PROVE Updated'[k] = Found(Due, k)
  <2>1. k \in CacheKey /\ related'[k] # NotCached
    BY <1>9 DEF Cached
  <2>2. CASE k \in filled
    <3>1. k \notin TooEarly /\ related'[k] = Found(pairs, k)
      BY <1>2, <1>5, <1>9, <2>1, <2>2
    <3>2. CASE doing.step = "mirror"
      <4>1. Updated' = related' /\ doing.subject \in Person /\ doing.object \in Person
        BY <1>1, <1>2, <3>2, DoingCases DEF Updated
      <4>2. k # Subj(doing.object) /\ k # Obj(doing.subject)
        BY <3>1, <3>2 DEF TooEarly, Subj, Obj
      <4>3. \A p, q \in Person : (p = doing.object /\ q = doing.subject) \/ (<<p, q>> \in pairs <=> <<p, q>> \in Due)
        BY <3>2 DEF Due
      <4> QED
        BY <2>1, <3>1, <4>1, <4>2, <4>3, OtherKeys
    <3>3. CASE doing.step = "cache"
      <4> DEFINE x == doing.subject
                 y == doing.object
      <4>1. x \in Person /\ y \in Person /\ Functional(pairs) /\ <<x, y>> \in pairs /\ Due = pairs
        BY <1>1, <3>3, DoingCases DEF PairsAreWell, Due
      <4>2. k # Subj(x) /\ k # Obj(y)
        BY <3>1, <3>3 DEF TooEarly, Subj, Obj
      <4>3. Updated' = Updating(related', x, y, doing.previous)
        BY <1>2, <3>3 DEF Updated, Updating, update_rel_cache_add, update_rel_cache_del
      <4>4. related'[k][x] = 0 \/ k \notin AboutToFollow
        <5>1. CASE k = Obj(doing.previous) /\ doing.previous \in Person
          <6>1. doing.previous # y
            BY <1>1, <3>3, DoingCases
          <6>2. PairOf(k, x) = <<x, doing.previous>>
            BY <4>1, <5>1, KeysProperties
          <6>3. PairOf(k, x) \notin pairs
            BY <4>1, <6>1, <6>2 DEF Functional
          <6> QED
            BY <3>1, <4>1, <6>3, FoundIsBag
        <5>2. CASE ~(k = Obj(doing.previous) /\ doing.previous \in Person)
          BY <1>1, <3>3, <4>2, <5>2, DoingCases DEF AboutToFollow, TooEarly, Subj, Obj
        <5> QED
          BY <5>1, <5>2
      <4>5. Updating(related', x, y, doing.previous)[k] = related'[k]
        BY <1>1, <1>6, <2>1, <3>3, <4>2, <4>4, UpdatedHere
      <4> QED
        BY <3>1, <4>1, <4>3, <4>5
    <3>4. CASE doing.step \in {"nothing", "write"}
      BY <1>2, <3>1, <3>4 DEF Updated, Due
    <3> QED
      BY <1>1, <3>2, <3>3, <3>4, DoingCases
  <2>3. CASE k \notin filled
    <3>1. related'[k] = related[k] /\ k \in Cached \ wrong
      BY <1>2, <1>4, <1>9, <2>1, <2>3 DEF Cached
    <3>2. Updated'[k] = Updated[k]
      <4>1. CASE doing.step = "cache"
        <5>1. Updated' = Updating(related', doing.subject, doing.object, doing.previous)
          BY <1>2, <4>1 DEF Updated, Updating, update_rel_cache_add, update_rel_cache_del
        <5> QED
          BY <1>1, <1>6, <2>1, <3>1, <4>1, <5>1, UpdatedHere
      <4>2. CASE doing.step # "cache"
        BY <1>2, <3>1, <4>2 DEF Updated
      <4> QED
        BY <4>1, <4>2
    <3> QED
      BY <1>1, <3>1, <3>2 DEF WillFollow
  <2> QED
    BY <2>2, <2>3
<1>10. WillFollow'
  <2>1. \A k : Found(Due, k)' = Found(Due, k)
    BY <1>2 DEF Due, Found
  <2> QED
    BY <1>9, <2>1 DEF WillFollow
<1> QED
  BY <1>7, <1>8, <1>10 DEF RelInv

LEMMA NobodyDoes ==
  ASSUME RelInv, doing = NothingToDo
  PROVE  /\ doing.step = "nothing" /\ Due = pairs /\ Updated = related
         /\ \A k \in Cached \ wrong : related[k] = Found(pairs, k)
         /\ relation = "symmetric" => Symmetric(pairs)
  BY DEF RelInv, WillFollow, PairsAreWell, Due, Updated, NothingToDo

LEMMA AddRelationStep ==
  ASSUME RelInv, NEW x \in Person, NEW y \in Person, AddRelation(x, y)
  PROVE  RelInv'
<1>1. RelTypes /\ PairsAreWell /\ WillFollow
  BY DEF RelInv
<1>2. /\ relation # "inlined" /\ doing = NothingToDo /\ <<x, y>> \notin pairs
      /\ relation = "symmetric" => x # y
      /\ pairs' = pairs \cup {<<x, y>>}
      /\ related' = update_rel_cache_add(related, x, y)
      /\ doing' = Mirrored(x, y)
      /\ wrong' = wrong \cup (IF relation = "symmetric"
                              THEN Cached \cap {<<"object", x>>, <<"object", y>>} ELSE {})
      /\ UNCHANGED <<relation, savedPairs>>
  BY DEF AddRelation
<1>3. /\ \A k \in Cached \ wrong : related[k] = Found(pairs, k)
      /\ relation = "symmetric" => Symmetric(pairs)
  BY <1>2, NobodyDoes
<1> DEFINE other == IF relation = "symmetric" THEN Subj(y) ELSE Obj(y)
           first == CacheWith(related, Subj(x), y)
<1>4. related' = CacheWith(first, other, x)
  BY <1>2 DEF update_rel_cache_add, Subj, Obj
<1>5. Subj(x) \in CacheKey /\ other \in CacheKey /\ other # Subj(x)
  BY <1>2, KeysProperties
<1> HIDE DEF other
<1>6. /\ first \in Caches
      /\ \A k \in CacheKey \ {Subj(x)} : first[k] = related[k]
      /\ first[Subj(x)] = IF related[Subj(x)] = NotCached THEN NotCached ELSE More(related[Subj(x)], y)
  BY <1>1, <1>5, CacheWithProperties DEF RelTypes
<1> HIDE DEF first
<1>7. /\ related' \in Caches
      /\ \A k \in CacheKey \ {other} : related'[k] = first[k]
      /\ related'[other] = IF first[other] = NotCached THEN NotCached ELSE More(first[other], x)
  BY <1>4, <1>5, <1>6, CacheWithProperties
<1>8. /\ relation = "symmetric" => /\ doing' = [step |-> "mirror", subject |-> x, object |-> y]
                                   /\ Due' = pairs \cup {<<x, y>>, <<y, x>>}
      /\ relation # "symmetric" => doing' = NothingToDo /\ Due' = pairs \cup {<<x, y>>}
      /\ Updated' = related' /\ doing'.step \in {"nothing", "mirror"}
  BY <1>2 DEF Mirrored, Due, Updated, NothingToDo
<1>9. RelTypes'
  BY <1>1, <1>2, <1>7, <1>8 DEF RelTypes
<1>10. PairsAreWell'
  BY <1>1, <1>2, <1>3, <1>8 DEF PairsAreWell, Symmetric
<1>11. ASSUME NEW k \in Cached', k \notin wrong' PROVE related'[k] = Found(Due', k)
  <2>1. k \in Cached \ wrong /\ k \in CacheKey
    BY <1>2, <1>5, <1>6, <1>7, <1>11 DEF Cached
  <2>2. related[k] = Found(pairs, k) /\ related[k] # NotCached
    BY <1>3, <2>1 DEF Cached
  <2>3. CASE k = Subj(x)
    <3>1. related'[k] = More(Found(pairs, k), y)
      BY <1>5, <1>6, <1>7, <2>2, <2>3
    <3>2. /\ PairOf(k, y) \notin pairs /\ PairOf(k, y) \in Due'
          /\ \A p \in Person \ {y} : PairOf(k, p) \in pairs <=> PairOf(k, p) \in Due'
      BY <1>2, <1>8, <2>3, KeysProperties
    <3> QED
      BY <3>1, <3>2, FoundMore
  <2>4. CASE k = other
    <3>1. related'[k] = More(Found(pairs, k), x)
      BY <1>5, <1>6, <1>7, <2>2, <2>4
    <3>2. /\ PairOf(k, x) \notin pairs /\ PairOf(k, x) \in Due'
          /\ \A p \in Person \ {x} : PairOf(k, p) \in pairs <=> PairOf(k, p) \in Due'
      <4>1. CASE relation = "symmetric"
        BY <1>2, <1>3, <1>8, <2>4, <4>1, KeysProperties DEF other, Symmetric
      <4>2. CASE relation # "symmetric"
        BY <1>2, <1>8, <2>4, <4>2, KeysProperties DEF other
      <4> QED
        BY <4>1, <4>2
    <3> QED
      BY <3>1, <3>2, FoundMore
  <2>5. CASE k # Subj(x) /\ k # other
    <3>1. related'[k] = Found(pairs, k)
      BY <1>5, <1>6, <1>7, <2>1, <2>2, <2>5
    <3>2. CASE relation # "symmetric"
      BY <1>8, <2>1, <2>5, <3>1, <3>2, OtherKeys DEF other
    <3>3. CASE relation = "symmetric"
      <4>1. k # Obj(x) /\ k # Obj(y) /\ k # Subj(y)
        BY <1>2, <1>11, <2>1, <2>5, <3>3 DEF other, Obj
      <4>2. Found(pairs, k) = Found(pairs \cup {<<x, y>>}, k)
        BY <2>1, <2>5, <4>1, OtherKeys
      <4>3. Found(pairs \cup {<<x, y>>}, k) = Found(Due', k)
        BY <1>8, <2>1, <3>3, <4>1, OtherKeys
      <4> QED
        BY <3>1, <4>2, <4>3
    <3> QED
      BY <3>2, <3>3
  <2> QED
    BY <2>3, <2>4, <2>5
<1>12. WillFollow'
  BY <1>8, <1>11 DEF WillFollow, Found
<1> QED
  BY <1>9, <1>10, <1>12 DEF RelInv

LEMMA DeleteRelationStep ==
  ASSUME RelInv, NEW x \in Person, NEW y \in Person, DeleteRelation(x, y)
  PROVE  RelInv'
<1>1. RelTypes /\ PairsAreWell /\ WillFollow
  BY DEF RelInv
<1>2. /\ doing = NothingToDo /\ <<x, y>> \in pairs
      /\ pairs' = pairs \ {<<x, y>>}
      /\ related' = update_rel_cache_del(related, x, y)
      /\ doing' = Mirrored(x, y)
      /\ wrong' = wrong \cup
           (IF relation = "symmetric"
            THEN Cached \cap {<<"subject", y>>, <<"object", x>>, <<"object", y>>} ELSE {})
      /\ UNCHANGED <<relation, savedPairs>>
  BY DEF DeleteRelation
<1>3. /\ \A k \in Cached \ wrong : related[k] = Found(pairs, k)
      /\ relation = "symmetric" => Symmetric(pairs)
  BY <1>2, NobodyDoes
<1> DEFINE e == IF relation = "symmetric" THEN y ELSE x
           first == CacheWithout(related, Subj(x), y)
<1>4. related' = CacheWithout(first, Obj(y), e) /\ e \in Person
  BY <1>2 DEF update_rel_cache_del, Subj, Obj
<1>5. Subj(x) \in CacheKey /\ Obj(y) \in CacheKey /\ Obj(y) # Subj(x)
  BY <1>2, KeysProperties
<1> HIDE DEF e
<1>6. /\ first \in Caches
      /\ \A k \in CacheKey \ {Subj(x)} : first[k] = related[k]
      /\ first[Subj(x)] = IF related[Subj(x)] = NotCached \/ related[Subj(x)][y] = 0
                          THEN related[Subj(x)] ELSE Less(related[Subj(x)], y)
  BY <1>1, <1>5, CacheWithoutProperties DEF RelTypes
<1> HIDE DEF first
<1>7. /\ related' \in Caches
      /\ \A k \in CacheKey \ {Obj(y)} : related'[k] = first[k]
      /\ related'[Obj(y)] = IF first[Obj(y)] = NotCached \/ first[Obj(y)][e] = 0
                            THEN first[Obj(y)] ELSE Less(first[Obj(y)], e)
  BY <1>4, <1>5, <1>6, CacheWithoutProperties
<1>8. /\ relation = "symmetric" => /\ doing' = [step |-> "mirror", subject |-> x, object |-> y]
                                   /\ x # y
                                   /\ Due' = pairs \ {<<x, y>>, <<y, x>>}
      /\ relation # "symmetric" => doing' = NothingToDo /\ Due' = pairs \ {<<x, y>>}
      /\ Updated' = related' /\ doing'.step \in {"nothing", "mirror"}
  BY <1>2, <1>3 DEF Mirrored, Due, Updated, NothingToDo, Symmetric
<1>9. RelTypes'
  BY <1>1, <1>2, <1>7, <1>8 DEF RelTypes
<1>10. PairsAreWell'
  <2>1. relation = "inlined" => Functional(pairs') /\ Functional(savedPairs')
    BY <1>1, <1>2 DEF PairsAreWell, Functional
  <2>2. relation = "symmetric" => Symmetric(Due') /\ Symmetric(savedPairs')
    <3> SUFFICES ASSUME relation = "symmetric"
                 PROVE  Symmetric(Due') /\ Symmetric(savedPairs')
      OBVIOUS
    <3>1. Symmetric(pairs) /\ Symmetric(savedPairs')
      BY <1>1, <1>2, <1>3 DEF PairsAreWell
    <3>2. ASSUME NEW p \in Due' PROVE p[1] # p[2] /\ <<p[2], p[1]>> \in Due'
      <4>1. p \in pairs /\ p # <<x, y>> /\ p # <<y, x>> /\ p \in Person \X Person
        BY <1>1, <1>8, <3>2 DEF RelTypes
      <4>2. p[1] # p[2] /\ <<p[2], p[1]>> \in pairs
        BY <3>1, <4>1 DEF Symmetric
      <4>3. <<p[2], p[1]>> # <<x, y>> /\ <<p[2], p[1]>> # <<y, x>>
        BY <4>1
      <4> QED
        BY <1>8, <4>2, <4>3
    <3> QED
      BY <3>1, <3>2 DEF Symmetric
  <2> QED
    BY <1>2, <1>8, <2>1, <2>2 DEF PairsAreWell, Functional, Symmetric
<1>11. ASSUME NEW k \in Cached', k \notin wrong' PROVE related'[k] = Found(Due', k)
  <2>1. k \in Cached \ wrong /\ k \in CacheKey
    BY <1>2, <1>5, <1>6, <1>7, <1>11 DEF Cached
  <2>2. related[k] = Found(pairs, k) /\ related[k] # NotCached
    BY <1>3, <2>1 DEF Cached
  <2>3. CASE k = Subj(x)
    <3>1. PairOf(k, y) \in pairs
      BY <1>2, <2>3, KeysProperties
    <3>2. related[k][y] # 0
      BY <2>2, <3>1, FoundIsBag
    <3>3. related'[k] = Less(Found(pairs, k), y)
      BY <1>5, <1>6, <1>7, <2>2, <2>3, <3>2
    <3>4. /\ PairOf(k, y) \notin Due'
          /\ \A p \in Person \ {y} : PairOf(k, p) \in pairs <=> PairOf(k, p) \in Due'
      BY <1>2, <1>8, <2>3, KeysProperties
    <3> QED
      BY <3>1, <3>3, <3>4, FoundLess
  <2>4. CASE k = Obj(y)
    <3>0. relation # "symmetric" /\ e = x
      BY <1>2, <1>11, <2>1, <2>4 DEF e, Obj
    <3>1. PairOf(k, x) \in pairs
      BY <1>2, <2>4, KeysProperties
    <3>2. related[k][x] # 0
      BY <2>2, <3>1, FoundIsBag
    <3>3. related'[k] = Less(Found(pairs, k), x)
      BY <1>5, <1>6, <1>7, <2>2, <2>4, <3>0, <3>2
    <3>4. /\ PairOf(k, x) \notin Due'
          /\ \A p \in Person \ {x} : PairOf(k, p) \in pairs <=> PairOf(k, p) \in Due'
      BY <1>2, <1>8, <2>4, <3>0, KeysProperties
    <3> QED
      BY <3>1, <3>3, <3>4, FoundLess
  <2>5. CASE k # Subj(x) /\ k # Obj(y)
    <3>1. related'[k] = Found(pairs, k)
      BY <1>5, <1>6, <1>7, <2>1, <2>2, <2>5
    <3>2. CASE relation # "symmetric"
      BY <1>8, <2>1, <2>5, <3>1, <3>2, OtherKeys
    <3>3. CASE relation = "symmetric"
      <4>1. k # Obj(x) /\ k # Subj(y)
        BY <1>2, <1>11, <2>1, <3>3 DEF Subj, Obj
      <4>2. Found(pairs, k) = Found(pairs \ {<<x, y>>}, k)
        BY <2>1, <2>5, OtherKeys
      <4>3. Found(pairs \ {<<x, y>>}, k) = Found(Due', k)
        BY <1>8, <2>1, <3>3, <4>1, OtherKeys
      <4> QED
        BY <3>1, <4>2, <4>3
    <3> QED
      BY <3>2, <3>3
  <2> QED
    BY <2>3, <2>4, <2>5
<1>12. WillFollow'
  BY <1>8, <1>11 DEF WillFollow, Found
<1> QED
  BY <1>9, <1>10, <1>12 DEF RelInv

LEMMA MirrorStep ==
  ASSUME RelInv, Mirror
  PROVE  RelInv'
<1>1. RelTypes /\ PairsAreWell /\ WillFollow
  BY DEF RelInv
<1>2. doing.step = "mirror" /\ relation = "symmetric" /\ doing.subject \in Person /\ doing.object \in Person
  BY <1>1, DoingCases DEF Mirror
<1>3. /\ pairs' = Due /\ doing' = NothingToDo /\ doing'.step = "nothing"
      /\ UNCHANGED <<relation, savedPairs, related, wrong>>
  BY <1>2 DEF Mirror, Due, NothingToDo
<1>4. Due \in SUBSET (Person \X Person)
  BY <1>1, <1>2 DEF Due, RelTypes
<1>5. Due' = Due /\ Updated' = Updated
  BY <1>2, <1>3 DEF Due, Updated
<1>6. RelTypes'
  BY <1>1, <1>3, <1>4 DEF RelTypes
<1>7. PairsAreWell'
  BY <1>1, <1>2, <1>3, <1>5 DEF PairsAreWell, Symmetric
<1>8. WillFollow'
  BY <1>1, <1>3, <1>5 DEF WillFollow, Cached, Found
<1> QED
  BY <1>6, <1>7, <1>8 DEF RelInv

LEMMA StartUpdateStep ==
  ASSUME RelInv, NEW x \in Person, NEW y \in Person, StartUpdate(x, y)
  PROVE  RelInv'
<1>1. RelTypes /\ PairsAreWell /\ WillFollow
  BY DEF RelInv
<1>2. PICK previous \in Person \cup {Nobody} :
        /\ IF \E p \in Person : related[<<"subject", x>>][p] > 0
           THEN previous # Nobody /\ related[<<"subject", x>>][previous] > 0
           ELSE previous = Nobody
        /\ doing' = [step |-> "write", subject |-> x, object |-> y,
                     previous |-> IF previous = y THEN Nobody ELSE previous]
  BY DEF StartUpdate
<1>3. /\ relation = "inlined" /\ doing = NothingToDo /\ related[Subj(x)] # NotCached
      /\ UNCHANGED <<relation, savedPairs, pairs, related, wrong>>
  BY DEF StartUpdate, Subj
<1>4. Nobody \notin Person
  BY CacheAssumption
<1>5. /\ doing'.step = "write" /\ doing'.subject = x /\ doing'.object = y
      /\ doing'.previous \in Person \cup {Nobody} /\ doing'.previous # y
      /\ doing'.previous # Nobody => \E p \in Person : related[Subj(x)][p] > 0
      /\ doing' \in [step : {"write", "cache"}, subject : Person, object : Person,
                     previous : Person \cup {Nobody}]
  BY <1>2, <1>4 DEF Subj
<1>6. Due' = Due /\ Updated' = Updated /\ Due = pairs
  BY <1>3, <1>5 DEF Due, Updated, NothingToDo
<1>7. RelTypes'
  BY <1>1, <1>3, <1>5 DEF RelTypes
<1>8. Subj(x) \in Cached'
  BY <1>3, KeysProperties DEF Cached
<1>9. PairsAreWell'
  BY <1>1, <1>3, <1>5, <1>6, <1>8 DEF PairsAreWell
<1>10. WillFollow'
  BY <1>1, <1>3, <1>6 DEF WillFollow, Cached, Found
<1> QED
  BY <1>7, <1>9, <1>10 DEF RelInv

LEMMA WriteUpdateStep ==
  ASSUME RelInv, WriteUpdate
  PROVE  RelInv'
<1> DEFINE x == doing.subject
           y == doing.object
           previous == doing.previous
<1>1. RelTypes /\ PairsAreWell /\ WillFollow
  BY DEF RelInv
<1>2. /\ doing.step = "write" /\ relation = "inlined" /\ previous # y
      /\ x \in Person /\ y \in Person /\ previous \in Person \cup {Nobody}
      /\ Nobody \notin Person
  BY <1>1, DoingCases, CacheAssumption DEF WriteUpdate
<1>3. /\ pairs' = {q \in pairs : q[1] # x} \cup {<<x, y>>}
      /\ doing' = [doing EXCEPT !.step = "cache"]
      /\ wrong' = IF Held(x) \subseteq {previous} THEN wrong
                  ELSE wrong \cup {Subj(x)} \cup {Obj(p) : p \in Held(x)}
      /\ UNCHANGED <<relation, savedPairs, related>>
  BY DEF WriteUpdate, Subj, Obj
<1>4. /\ doing'.step = "cache" /\ doing'.subject = x /\ doing'.object = y
      /\ doing'.previous = previous
      /\ doing' \in [step : {"write", "cache"}, subject : Person, object : Person,
                     previous : Person \cup {Nobody}]
  BY <1>1, <1>2, <1>3 DEF RelTypes, NothingToDo
<1>5. /\ Functional(pairs) /\ Subj(x) \in Cached /\ Subj(x) \in CacheKey /\ Obj(y) \in CacheKey
      /\ previous # Nobody => \E p \in Person : related[Subj(x)][p] > 0
  BY <1>1, <1>2, KeysProperties DEF PairsAreWell
<1>6. \A k \in Cached \ wrong : related[k] = Found(pairs, k)
  BY <1>1, <1>2 DEF WillFollow, Updated, Due
<1>7. Updated' = Updating(related, x, y, previous) /\ Due' = pairs'
  BY <1>3, <1>4 DEF Updated, Due, Updating, update_rel_cache_add, update_rel_cache_del
<1> HIDE DEF x, y, previous
<1>8. RelTypes'
  BY <1>1, <1>2, <1>3, <1>4 DEF RelTypes
<1>9. PairsAreWell'
  BY <1>1, <1>2, <1>3, <1>4, <1>5 DEF PairsAreWell, Functional
<1>10. \A p, q \in Person : <<p, q>> \in pairs' <=> (p # x /\ <<p, q>> \in pairs) \/ (p = x /\ q = y)
  BY <1>3
<1>11. \A p \in Person : p \in Held(x) <=> <<x, p>> \in pairs
  BY DEF Held
<1>12. ASSUME NEW k \in Cached, k \notin wrong' PROVE Updated'[k] = Found(pairs', k)
  <2>1. /\ k \notin wrong /\ k \in CacheKey /\ related[k] # NotCached
        /\ Held(x) \subseteq {previous} \/ (k # Subj(x) /\ \A p \in Held(x) : k # Obj(p))
    BY <1>3, <1>12 DEF Cached
  <2>2. related[k] = Found(pairs, k)
    BY <1>6, <1>12, <2>1
  <2>3. Updated'[k] = UpdatedAt(related[k], k, x, y, previous)
    BY <1>1, <1>2, <1>7, <2>1, UpdatingProperties DEF RelTypes
  <2>4. CASE k = Subj(x)
    <3>1. \A p \in Person : PairOf(k, p) = <<x, p>>
      BY <1>2, <2>4, KeysProperties
    <3>2. CASE previous = Nobody
      <4>1. \A p \in Person : PairOf(k, p) \notin pairs
        BY <1>2, <1>11, <2>1, <2>4, <3>1, <3>2
      <4>2. PairOf(k, y) \in pairs' /\ \A p \in Person \ {y} : PairOf(k, p) \notin pairs'
        BY <1>2, <1>10, <3>1
      <4>3. More(Found(pairs, k), y) = Found(pairs', k)
        BY <1>2, <4>1, <4>2, FoundMore
      <4> QED
        BY <2>1, <2>2, <2>3, <2>4, <3>2, <4>3 DEF UpdatedAt
    <3>3. CASE previous # Nobody
      <4>1. PICK p \in Person : Found(pairs, k)[p] > 0
        BY <1>5, <2>2, <2>4, <3>3
      <4>2. <<x, p>> \in pairs
        BY <3>1, <4>1, FoundIsBag
      <4>3. p = previous /\ \A q \in Person : <<x, q>> \in pairs <=> q = previous
        BY <1>11, <2>1, <2>4, <4>2
      <4> DEFINE none == {q \in pairs : q[1] # x}
      <4>4. Less(Found(pairs, k), previous) = Found(none, k)
        BY <3>1, <4>3, FoundLess
      <4>5. More(Found(none, k), y) = Found(pairs', k)
        <5>1. /\ PairOf(k, y) \notin none /\ PairOf(k, y) \in pairs'
              /\ \A q \in Person \ {y} : PairOf(k, q) \in none <=> PairOf(k, q) \in pairs'
          BY <1>2, <1>10, <3>1
        <5> QED
          BY <1>2, <5>1, FoundMore
      <4> HIDE DEF none
      <4>6. Found(pairs, k)[previous] # 0
        BY <4>1, <4>3
      <4> QED
        BY <2>1, <2>2, <2>3, <2>4, <3>3, <4>4, <4>5, <4>6 DEF UpdatedAt
    <3> QED
      BY <3>2, <3>3
  <2>5. CASE k = Obj(y)
    <3>1. k # Subj(x) /\ \A p \in Person : PairOf(k, p) = <<p, y>>
      BY <1>2, <2>5, KeysProperties
    <3>2. <<x, y>> \notin pairs
      BY <1>2, <1>11, <2>1, <2>5
    <3>3. More(Found(pairs, k), x) = Found(pairs', k)
      BY <1>2, <1>10, <3>1, <3>2, FoundMore
    <3> QED
      BY <2>1, <2>2, <2>3, <2>5, <3>1, <3>3 DEF UpdatedAt
  <2>6. CASE k # Subj(x) /\ k # Obj(y) /\ previous \in Person /\ k = Obj(previous)
    <3>1. \A p \in Person : PairOf(k, p) = <<p, previous>>
      BY <1>2, <2>6, KeysProperties
    <3>2. <<x, previous>> \notin pairs' /\ \A p \in Person \ {x} : <<p, previous>> \in pairs <=> <<p, previous>> \in pairs'
      BY <1>2, <1>10, <2>6
    <3>3. CASE <<x, previous>> \in pairs
      <4>1. Less(Found(pairs, k), x) = Found(pairs', k)
        BY <1>2, <3>1, <3>2, <3>3, FoundLess
      <4>2. Found(pairs, k)[x] # 0
        BY <1>2, <3>1, <3>3, FoundIsBag
      <4> QED
        BY <1>2, <2>1, <2>2, <2>3, <2>6, <4>1, <4>2 DEF UpdatedAt
    <3>4. CASE <<x, previous>> \notin pairs
      <4>1. Found(pairs, k) = Found(pairs', k)
        BY <1>2, <3>1, <3>2, <3>4, FoundSame
      <4>2. Found(pairs, k)[x] = 0
        BY <1>2, <3>1, <3>4, FoundIsBag
      <4> QED
        BY <1>2, <2>1, <2>2, <2>3, <2>6, <4>1, <4>2 DEF UpdatedAt
    <3> QED
      BY <3>3, <3>4
  <2>7. CASE k # Subj(x) /\ k # Obj(y) /\ ~(previous \in Person /\ k = Obj(previous))
    <3>1. Updated'[k] = Found(pairs, k)
      BY <1>2, <2>2, <2>3, <2>7 DEF UpdatedAt
    <3>2. PICK z \in Person : k = Subj(z) \/ k = Obj(z)
      BY <2>1, KeyCases
    <3>3. CASE k = Subj(z)
      <4>1. z # x /\ \A p \in Person : PairOf(k, p) = <<z, p>>
        BY <2>7, <3>3, KeysProperties
      <4> QED
        BY <1>10, <3>1, <4>1, FoundSame
    <3>4. CASE k = Obj(z)
      <4>1. z # y /\ \A p \in Person : PairOf(k, p) = <<p, z>>
        BY <2>7, <3>4, KeysProperties
      <4>2. z \notin Held(x)
        BY <2>1, <2>7, <3>4
      <4>3. <<x, z>> \notin pairs
        BY <1>11, <4>2
      <4> QED
        BY <1>2, <1>10, <3>1, <4>1, <4>3, FoundSame
    <3> QED
      BY <3>2, <3>3, <3>4
  <2> QED
    BY <2>4, <2>5, <2>6, <2>7
<1>13. WillFollow'
  BY <1>3, <1>7, <1>12 DEF WillFollow, Cached, Found
<1> QED
  BY <1>8, <1>9, <1>13 DEF RelInv

LEMMA UpdateCacheStep ==
  ASSUME RelInv, UpdateCache
  PROVE  RelInv'
<1>1. RelTypes /\ PairsAreWell /\ WillFollow
  BY DEF RelInv
<1>2. /\ doing.step = "cache" /\ relation # "symmetric" /\ related \in Caches
      /\ doing.subject \in Person /\ doing.object \in Person
      /\ doing.previous \in Person \cup {Nobody} /\ doing.previous # doing.object
  BY <1>1, DoingCases DEF UpdateCache, RelTypes
<1>3. related' = Updated /\ doing' = NothingToDo /\ UNCHANGED <<relation, savedPairs, pairs, wrong>>
  BY <1>2 DEF UpdateCache, Updated, Updating
<1>4. Updated = Updating(related, doing.subject, doing.object, doing.previous)
  BY <1>2 DEF Updated
<1>5. Updated \in Caches /\ \A k \in CacheKey : related[k] = NotCached => Updated[k] = NotCached
  BY <1>2, <1>4, UpdatingProperties DEF UpdatedAt
<1>6. Due' = Due /\ Updated' = Updated /\ doing'.step = "nothing"
  BY <1>2, <1>3 DEF Due, Updated, NothingToDo
<1>7. RelTypes'
  BY <1>1, <1>3, <1>5 DEF RelTypes
<1>8. PairsAreWell'
  BY <1>1, <1>3, <1>6 DEF PairsAreWell
<1>9. \A k \in Cached' : k \in Cached
  BY <1>3, <1>5 DEF Cached
<1>10. WillFollow'
  BY <1>1, <1>3, <1>6, <1>9 DEF WillFollow, Found
<1> QED
  BY <1>7, <1>8, <1>10 DEF RelInv

LEMMA OtherCommitsStep ==
  ASSUME RelInv, NEW x \in Person, NEW y \in Person, OtherCommits(x, y)
  PROVE  RelInv'
<1> DEFINE touched == CASE relation = "plain" -> {<<x, y>>}
                        [] relation = "symmetric" -> {<<x, y>>, <<y, x>>}
                        [] relation = "inlined" -> {x} \X Person
           now == IF <<x, y>> \in savedPairs THEN {}
                  ELSE IF relation = "symmetric" THEN touched ELSE {<<x, y>>}
           changed == now \cup (savedPairs \cap touched)
<1>1. RelTypes /\ PairsAreWell /\ WillFollow
  BY DEF RelInv
<1>2. /\ doing.step \in {"nothing", "write"}
      /\ relation = "symmetric" => x # y
      /\ pairs \cap touched = savedPairs \cap touched
      /\ savedPairs' = (savedPairs \ touched) \cup now
      /\ pairs' = (pairs \ touched) \cup now
      /\ wrong' = wrong \cup (Cached \cap UNION {{<<"subject", q[1]>>, <<"object", q[2]>>} :
                                                 q \in changed})
      /\ UNCHANGED <<relation, related, doing>>
  BY DEF OtherCommits
<1>3. /\ touched \subseteq Person \X Person
      /\ \/ relation = "plain" /\ touched = {<<x, y>>}
         \/ relation = "symmetric" /\ touched = {<<x, y>>, <<y, x>>}
         \/ relation = "inlined" /\ touched = {x} \X Person
  <2>1. CASE relation = "plain"
    BY <2>1
  <2>2. CASE relation = "symmetric"
    BY <2>2
  <2>3. CASE relation = "inlined"
    BY <2>3
  <2> QED
    BY <1>1, <2>1, <2>2, <2>3 DEF RelTypes
<1> HIDE DEF touched
<1>4. now \subseteq Person \X Person /\ (now = {} \/ now = {<<x, y>>} \/ now = touched)
  BY <1>3
<1>5. RelTypes'
  <2>1. savedPairs' \in SUBSET (Person \X Person) /\ pairs' \in SUBSET (Person \X Person)
    BY <1>1, <1>2, <1>4 DEF RelTypes
  <2> QED
    BY <1>1, <1>2, <2>1 DEF RelTypes
<1>6. Due' = pairs' /\ Due = pairs /\ Updated' = related /\ Updated = related
  BY <1>2 DEF Due, Updated
<1>7. PairsAreWell'
  <2>1. ASSUME relation = "inlined" PROVE Functional(pairs') /\ Functional(savedPairs')
    <3>1. touched = {x} \X Person /\ (now = {} \/ now = {<<x, y>>})
      BY <1>3, <2>1
    <3>2. \A S \in SUBSET (Person \X Person) : Functional(S) => Functional((S \ touched) \cup now)
      <4> SUFFICES ASSUME NEW S \in SUBSET (Person \X Person), Functional(S),
                          NEW p \in (S \ touched) \cup now, NEW q \in (S \ touched) \cup now, p[1] = q[1]
                   PROVE  p = q
        BY DEF Functional
      <4>1. \A u \in S \ touched : u[1] # x
        BY <3>1
      <4>2. \A u \in now : u[1] = x /\ u = <<x, y>>
        BY <3>1
      <4> QED
        BY <4>1, <4>2 DEF Functional
    <3> QED
      BY <1>1, <1>2, <2>1, <3>2 DEF PairsAreWell, RelTypes
  <2>2. ASSUME relation = "symmetric" PROVE Symmetric(pairs') /\ Symmetric(savedPairs')
    <3>1. touched = {<<x, y>>, <<y, x>>} /\ (now = {} \/ now = touched) /\ x # y
      BY <1>2, <1>3, <2>2
    <3>2. \A S \in SUBSET (Person \X Person) : Symmetric(S) => Symmetric((S \ touched) \cup now)
      <4> SUFFICES ASSUME NEW S \in SUBSET (Person \X Person), Symmetric(S),
                          NEW p \in (S \ touched) \cup now
                   PROVE  p[1] # p[2] /\ <<p[2], p[1]>> \in (S \ touched) \cup now
        BY DEF Symmetric
      <4>1. CASE p \in now
        BY <3>1, <4>1
      <4>2. CASE p \in S \ touched
        <5>1. p \in Person \X Person /\ p[1] # p[2] /\ <<p[2], p[1]>> \in S
          BY <4>2 DEF Symmetric
        <5>2. <<p[2], p[1]>> \notin touched
          BY <3>1, <4>2, <5>1
        <5> QED
          BY <5>1, <5>2
      <4> QED
        BY <4>1, <4>2
    <3>3. Symmetric(pairs) /\ Symmetric(savedPairs)
      BY <1>1, <1>6, <2>2 DEF PairsAreWell
    <3> QED
      BY <1>1, <1>2, <3>2, <3>3 DEF RelTypes
  <2>3. Cached' = Cached
    BY <1>2 DEF Cached
  <2> QED
    BY <1>1, <1>2, <1>6, <2>1, <2>2, <2>3 DEF PairsAreWell
<1>8. \A p, q \in Person : <<p, q>> \in pairs /\ <<p, q>> \notin pairs' => <<p, q>> \in changed
  BY <1>2
<1>9. \A p, q \in Person : <<p, q>> \in pairs' /\ <<p, q>> \notin pairs => <<p, q>> \in changed
  BY <1>2
<1>10. \A q \in changed : \A k \in Cached : k = Subj(q[1]) \/ k = Obj(q[2]) => k \in wrong'
  BY <1>2 DEF Subj, Obj
<1> HIDE DEF changed, now
<1>11. ASSUME NEW k \in Cached, k \notin wrong' PROVE related[k] = Found(pairs', k)
  <2>1. k \in CacheKey /\ k \notin wrong
    BY <1>2, <1>11 DEF Cached
  <2>2. related[k] = Found(pairs, k)
    BY <1>1, <1>6, <1>11, <2>1 DEF WillFollow
  <2>3. PICK z \in Person : k = Subj(z) \/ k = Obj(z)
    BY <2>1, KeyCases
  <2>4. ASSUME NEW p \in Person PROVE PairOf(k, p) \in pairs <=> PairOf(k, p) \in pairs'
    <3>1. CASE k = Subj(z)
      <4>1. PairOf(k, p) = <<z, p>>
        BY <3>1, KeysProperties
      <4>2. <<z, p>> \notin changed
        BY <1>10, <1>11, <3>1
      <4> QED
        BY <1>8, <1>9, <4>1, <4>2
    <3>2. CASE k = Obj(z)
      <4>1. PairOf(k, p) = <<p, z>>
        BY <3>2, KeysProperties
      <4>2. <<p, z>> \notin changed
        BY <1>10, <1>11, <3>2
      <4> QED
        BY <1>8, <1>9, <4>1, <4>2
    <3> QED
      BY <2>3, <3>1, <3>2
  <2> QED
    BY <2>2, <2>4, FoundSame
<1>12. WillFollow'
  BY <1>2, <1>6, <1>11 DEF WillFollow, Cached, Found
<1> QED
  BY <1>5, <1>7, <1>12 DEF RelInv

\* A key that no call is about to change is up to date.
LEMMA FollowsHere ==
  ASSUME RelTypes, WillFollow, NEW k \in Cached \ wrong, k \notin AboutToFollow
  PROVE  related[k] = Found(pairs, k)
<1>1. k \in CacheKey /\ Updated[k] = Found(Due, k)
  BY DEF WillFollow, Cached
<1>2. CASE doing.step \in {"nothing", "write"}
  BY <1>1, <1>2 DEF Updated, Due
<1>3. CASE doing.step = "mirror"
  <2>1. Updated = related /\ doing.subject \in Person /\ doing.object \in Person
    BY <1>3, DoingCases DEF Updated
  <2>2. k # Subj(doing.object) /\ k # Obj(doing.subject)
    BY <1>3 DEF AboutToFollow, TooEarly, Subj, Obj
  <2>3. \A p, q \in Person : (p = doing.object /\ q = doing.subject)
                             \/ (<<p, q>> \in pairs <=> <<p, q>> \in Due)
    BY <1>3 DEF Due
  <2> QED
    BY <1>1, <2>1, <2>2, <2>3, OtherKeys
<1>4. CASE doing.step = "cache"
  <2>1. Updated[k] = related[k] /\ Due = pairs
    BY <1>1, <1>4, UpdatedHere DEF RelTypes, Updated, Due
  <2> QED
    BY <1>1, <2>1
<1> QED
  BY <1>2, <1>3, <1>4, DoingCases

LEMMA SqlErrorHereStep ==
  ASSUME RelInv, SqlErrorHere
  PROVE  RelInv'
<1>1. RelTypes /\ PairsAreWell /\ WillFollow
  BY DEF RelInv
<1>2. /\ pairs' = savedPairs /\ doing' = NothingToDo /\ doing'.step = "nothing"
      /\ wrong' = wrong \cup {k \in Cached : Found(pairs, k) # Found(savedPairs, k)}
                        \cup (Cached \cap AboutToFollow)
      /\ UNCHANGED <<relation, savedPairs, related>>
  BY DEF SqlErrorHere, NothingToDo
<1>3. Due' = savedPairs /\ Updated' = related
  BY <1>2 DEF Due, Updated
<1>4. RelTypes'
  BY <1>1, <1>2 DEF RelTypes
<1>5. PairsAreWell'
  BY <1>1, <1>2, <1>3 DEF PairsAreWell
<1>6. ASSUME NEW k \in Cached, k \notin wrong' PROVE related[k] = Found(savedPairs, k)
  <2>1. k \in Cached \ wrong /\ k \in CacheKey /\ k \notin AboutToFollow
        /\ Found(pairs, k) = Found(savedPairs, k)
    BY <1>2, <1>6 DEF Cached
  <2>2. related[k] = Found(pairs, k)
    BY <1>1, <2>1, FollowsHere
  <2> QED
    BY <2>1, <2>2
<1>7. WillFollow'
  BY <1>2, <1>3, <1>6 DEF WillFollow, Cached, Found
<1> QED
  BY <1>4, <1>5, <1>7 DEF RelInv

LEMMA EndOfTransactionStep ==
  ASSUME RelInv, EndOfTransaction
  PROVE  RelInv'
<1>1. RelTypes /\ PairsAreWell /\ WillFollow
  BY DEF RelInv
<1>2. /\ doing = NothingToDo /\ savedPairs' \in {pairs, savedPairs} /\ pairs' = savedPairs'
      /\ related' = [k \in CacheKey |-> NotCached] /\ UNCHANGED <<relation, doing>>
  BY DEF EndOfTransaction
<1>3. doing.step = "nothing" /\ Due = pairs /\ Due' = pairs'
  BY <1>2 DEF NothingToDo, Due
<1>4. RelTypes'
  BY <1>1, <1>2 DEF RelTypes, Caches
<1>5. PairsAreWell'
  BY <1>1, <1>2, <1>3 DEF PairsAreWell
<1>6. Cached' = {}
  BY <1>2 DEF Cached
<1> QED
  BY <1>4, <1>5, <1>6 DEF RelInv, WillFollow

\* session.py:487-554: the caches of a transaction follow the relations it adds and
\* deletes, and while a call is under way its next steps will make them follow.
THEOREM RelInvariant == RelSpec => []RelInv
<1>1. ASSUME RelInv, UNCHANGED relVars PROVE RelInv'
  <2>1. /\ RelTypes' <=> RelTypes
        /\ Due' = Due /\ Updated' = Updated /\ Cached' = Cached
    BY <1>1 DEF relVars, RelTypes, Due, Updated, Updating, update_rel_cache_add,
                update_rel_cache_del, Cached
  <2>2. PairsAreWell'
    BY <1>1, <2>1 DEF relVars, RelInv, PairsAreWell
  <2>3. WillFollow'
    BY <1>1, <2>1 DEF relVars, RelInv, WillFollow, Found
  <2> QED
    BY <1>1, <2>1, <2>2, <2>3 DEF RelInv
<1>2. RelInv /\ [RelNext]_relVars => RelInv'
  BY <1>1, FillStep, AddRelationStep, DeleteRelationStep, StartUpdateStep, OtherCommitsStep,
     MirrorStep, WriteUpdateStep, UpdateCacheStep, SqlErrorHereStep, EndOfTransactionStep
     DEF RelNext
<1> QED
  BY <1>2, RelInitInv, PTL DEF RelSpec

\* session.py:487-554: what is cached is what the database would answer, nobody missing
\* and nobody twice, but for the cases that CachesFollow names.
THEOREM CachesFollowHolds == RelSpec => []CachesFollow
<1>1. RelInv => CachesFollow
  BY FollowsHere DEF RelInv, CachesFollow
<1> QED
  BY <1>1, RelInvariant, PTL

--------------------------------------------------------------------------------
(* ComputedAttributes.                                                     *)

Total(v, f) == {<<p, v[<<"age", p>>]>> : p \in Staff(v, f)}

(* The transactions do not write the same rows, and those that are at work *)
(* at the same time are known to be.                                       *)
ClerksAreApart ==
    /\ DOMAIN written = Clerk /\ DOMAIN toRecompute = Clerk
    /\ DOMAIN recomputing = Clerk /\ DOMAIN updates = Clerk
    /\ \A c \in Clerk :
          /\ DOMAIN written[c] \subseteq Cell
          /\ written[c] = Nothing => toRecompute[c] = {} /\ recomputing[c] = {} /\ updates[c] = {}
          /\ \A u \in updates[c] : u[1] \in Cell /\ u[1][1] \in {"age", "total"}
    /\ \A c \in Clerk : \A d \in Clerk \ {c} :
          /\ written[c] # Nothing /\ written[d] # Nothing => c \in crossing
          /\ \A k \in DOMAIN written[c], l \in DOMAIN written[d] : k[2] # l[2]

(* The transaction of c will compute the column k, or need not.            *)
Pending(c, k) ==
    \/ k \in toRecompute[c] \cup recomputing[c]
    \/ <<k[1], Every>> \in toRecompute[c] \cup recomputing[c]
    \/ \E u \in updates[c] : u[1] = k
Excused(c, k) ==
    \/ Pending(c, k)
    \/ c \in crossing /\ k \in raced \cup DOMAIN written[c]
    \/ c \notin crossing /\ k \in raced \ DOMAIN written[c]

AgesWell(c) ==
    \A p \in Known(View(c)) :
        Excused(c, <<"age", p>>) \/ View(c)[<<"age", p>>] = View(c)[<<"birth", p>>]
TotalsWell(c) ==
    \A f \in Company :
        \/ Excused(c, <<"total", f>>)
        \/ Staff(View(c), f) = {}
        \/ View(c)[<<"total", f>>] = Total(View(c), f)

(* Who has come to a company has its total computed.                       *)
StaffTold(c) ==
    \A f \in Company : \A p \in Staff(View(c), f) :
        \/ p \in Staff(cell, f)
        \/ Pending(c, <<"total", f>>) \/ <<"total", f>> \in DOMAIN written[c]

(* The statements of a transaction that is alone are right.                *)
UpdatesWell(c) ==
    c \notin crossing => \/ updates[c] \subseteq Computed(View(c), "age")
                         \/ updates[c] \subseteq Computed(View(c), "total")

Well(c) == AgesWell(c) /\ TotalsWell(c) /\ StaffTold(c) /\ UpdatesWell(c)

(* What is committed.                                                      *)
CellWell ==
    /\ \A p \in Known(cell) :
          <<"age", p>> \in raced \/ cell[<<"age", p>>] = cell[<<"birth", p>>]
    /\ \A f \in Company :
          <<"total", f>> \in raced \/ Staff(cell, f) = {} \/ cell[<<"total", f>>] = Total(cell, f)

ComputedInv == ClerksAreApart /\ CellWell /\ \A c \in Clerk : Well(c)

LEMMA CellProperties ==
  /\ \A p \in Employee : <<"birth", p>> \in Cell /\ <<"age", p>> \in Cell /\ <<"works_for", p>> \in Cell
  /\ \A f \in Company : <<"total", f>> \in Cell
  /\ \A c \in Clerk, k \in Cell :
        View(c)[k] = IF k \in DOMAIN written[c] THEN written[c][k] ELSE cell[k]
  /\ DOMAIN Nothing = {}
  BY DEF Cell, View, Nothing

\* Two states of the columns that agree on a person.
SameRow(v, w, p) ==
    v[<<"birth", p>>] = w[<<"birth", p>>] /\ v[<<"age", p>>] = w[<<"age", p>>]
    /\ v[<<"works_for", p>>] = w[<<"works_for", p>>]

LEMMA StaffProperties ==
  /\ \A v, p : p \in Known(v) <=> p \in Employee /\ v[<<"birth", p>>] # Null
  /\ \A v, f, p : p \in Staff(v, f) <=> p \in Known(v) /\ v[<<"works_for", p>>] = f
  /\ \A v, f, u : u \in Total(v, f) <=> \E p \in Staff(v, f) : u = <<p, v[<<"age", p>>]>>
  BY DEF Known, Staff, Total

LEMMA SameStaff ==
  ASSUME NEW v, NEW w, NEW f,
         \A p \in Employee : p \in Staff(v, f) <=> p \in Staff(w, f),
         \A p \in Staff(v, f) : v[<<"age", p>>] = w[<<"age", p>>]
  PROVE  Staff(v, f) = Staff(w, f) /\ Total(v, f) = Total(w, f)
<1>1. Staff(v, f) = Staff(w, f)
  <2>1. \A p \in Staff(v, f) \cup Staff(w, f) : p \in Employee
    BY DEF Staff, Known
  <2> QED
    BY <2>1
<1> QED
  BY <1>1 DEF Total

LEMMA SameTotal ==
  ASSUME NEW v, NEW w, NEW f, Total(v, f) = Total(w, f)
  PROVE  \A p : /\ p \in Staff(v, f) <=> p \in Staff(w, f)
                /\ p \in Staff(v, f) => v[<<"age", p>>] = w[<<"age", p>>]
<1>1. ASSUME NEW p, p \in Staff(v, f)
      PROVE  p \in Staff(w, f) /\ v[<<"age", p>>] = w[<<"age", p>>]
  <2>1. <<p, v[<<"age", p>>]>> \in Total(w, f)
    BY <1>1, StaffProperties
  <2>2. PICK q \in Staff(w, f) : <<p, v[<<"age", p>>]>> = <<q, w[<<"age", q>>]>>
    BY <2>1, Zenon DEF Total
  <2>3. p = q /\ v[<<"age", p>>] = w[<<"age", q>>]
    BY <2>2
  <2> QED
    BY <2>3
<1>2. ASSUME NEW p, p \in Staff(w, f) PROVE p \in Staff(v, f)
  <2>1. <<p, w[<<"age", p>>]>> \in Total(v, f)
    BY <1>2, StaffProperties
  <2>2. PICK q \in Staff(v, f) : <<p, w[<<"age", p>>]>> = <<q, v[<<"age", q>>]>>
    BY <2>1, Zenon DEF Total
  <2>3. p = q
    BY <2>2
  <2> QED
    BY <2>3
<1> QED
  BY <1>1, <1>2

LEMMA ComputedProperties ==
  ASSUME NEW v
  PROVE  /\ \A u : u \in Computed(v, "age") <=>
                      \E p \in Known(v) : u = <<<<"age", p>>, v[<<"birth", p>>]>>
         /\ \A u : u \in Computed(v, "total") <=>
                      \E f \in Company : Staff(v, f) # {} /\ u = <<<<"total", f>>, Total(v, f)>>
<1>1. Computed(v, "age") = {<<<<"age", p>>, v[<<"birth", p>>]>> : p \in Known(v)}
  BY DEF Computed
<1>2. Computed(v, "total") =
         {<<<<"total", f>>, Total(v, f)>> : f \in {f \in Company : Staff(v, f) # {}}}
  BY DEF Computed, Total
<1> QED
  BY <1>1, <1>2

LEMMA FormulasAreCellWell == FormulasHold <=> CellWell
<1>1. ASSUME NEW f \in Company
      PROVE  <<<<"total", f>>, cell[<<"total", f>>]>> \in Computed(cell, "total")
             <=> Staff(cell, f) # {} /\ cell[<<"total", f>>] = Total(cell, f)
  BY ComputedProperties
<1> QED
  BY <1>1 DEF FormulasHold, CellWell

\* A transaction that does nothing sees what is committed.
LEMMA IdleIsWell ==
  ASSUME ClerksAreApart, CellWell, NEW c \in Clerk, written[c] = Nothing
  PROVE  Well(c)
<1>1. DOMAIN written[c] = {} /\ updates[c] = {}
  BY CellProperties DEF ClerksAreApart
<1>2. \A k \in Cell : View(c)[k] = cell[k]
  BY <1>1, CellProperties
<1>3. \A k : k \in raced => Excused(c, k)
  BY <1>1 DEF Excused
<1>4. Known(View(c)) = Known(cell)
  BY <1>2, CellProperties DEF Known
<1>5. AgesWell(c)
  BY <1>2, <1>3, <1>4, CellProperties, StaffProperties DEF AgesWell, CellWell
<1>6. ASSUME NEW f \in Company
      PROVE  Staff(View(c), f) = Staff(cell, f) /\ Total(View(c), f) = Total(cell, f)
  <2>1. \A p \in Employee : p \in Staff(View(c), f) <=> p \in Staff(cell, f)
    BY <1>2, <1>4, CellProperties DEF Staff
  <2>2. \A p \in Staff(View(c), f) : View(c)[<<"age", p>>] = cell[<<"age", p>>]
    BY <1>2, CellProperties, StaffProperties
  <2> QED
    BY <2>1, <2>2, SameStaff
<1>7. TotalsWell(c)
  BY <1>2, <1>3, <1>6, CellProperties DEF TotalsWell, CellWell
<1>8. StaffTold(c)
  BY <1>6 DEF StaffTold
<1> QED
  BY <1>1, <1>5, <1>7, <1>8 DEF Well, UpdatesWell

\* What another transaction does not disturb.
LEMMA OtherIsWell ==
  ASSUME NEW d \in Clerk, Well(d), written'[d] = written[d], toRecompute'[d] = toRecompute[d],
         recomputing'[d] = recomputing[d], updates'[d] = updates[d],
         cell' = cell, raced' = raced, d \in crossing => d \in crossing'
  PROVE  Well(d)'
<1>1. View(d)' = View(d)
  BY DEF View
<1>2. \A k : Pending(d, k)' <=> Pending(d, k)
  BY DEF Pending
<1>3. \A k : Excused(d, k) => Excused(d, k)'
  BY <1>2 DEF Excused
<1>4. AgesWell(d)'
  BY <1>1, <1>3 DEF Well, AgesWell, Known
<1>5. TotalsWell(d)'
  BY <1>1, <1>3 DEF Well, TotalsWell
<1>6. StaffTold(d)'
  BY <1>1, <1>2 DEF Well, StaffTold, Staff, Known
<1>7. UpdatesWell(d)'
  BY <1>1 DEF Well, UpdatesWell
<1> QED
  BY <1>4, <1>5, <1>6, <1>7 DEF Well

LEMMA WriteProperties ==
  ASSUME ClerksAreApart, NEW c \in Clerk, NEW new, DOMAIN new \subseteq Cell, DOMAIN new # {},
         Write(c, new), cell' = cell
  PROVE  /\ DOMAIN written' = Clerk
         /\ DOMAIN written'[c] = DOMAIN written[c] \cup DOMAIN new /\ written'[c] # Nothing
         /\ \A d \in Clerk \ {c} : written'[d] = written[d]
         /\ \A k \in Cell : View(c)'[k] = IF k \in DOMAIN new THEN new[k] ELSE View(c)[k]
         /\ \A d \in Clerk : d \in crossing => d \in crossing'
         /\ \A d \in Clerk \ {c} : /\ written[d] # Nothing => c \in crossing' /\ d \in crossing'
                                   /\ d \in crossing' => d \in crossing \/ written[d] # Nothing
         /\ \A d \in Clerk \ {c} : \A k \in DOMAIN written'[c], l \in DOMAIN written[d] : k[2] # l[2]
<1> DEFINE both == [k \in DOMAIN written[c] \cup DOMAIN new |->
                      IF k \in DOMAIN new THEN new[k] ELSE written[c][k]]
           others == {d \in Clerk \ {c} : written[d] # Nothing}
<1>1. /\ \A k \in DOMAIN new : ~Taken(c, k[2])
      /\ written' = [written EXCEPT ![c] = both]
      /\ crossing' = IF others = {} THEN crossing ELSE crossing \cup others \cup {c}
  BY DEF Write
<1>2. DOMAIN both = DOMAIN written[c] \cup DOMAIN new /\ both # Nothing
  BY CellProperties
<1>3. \A k \in DOMAIN both : both[k] = IF k \in DOMAIN new THEN new[k] ELSE written[c][k]
  OBVIOUS
<1> HIDE DEF both
<1>4. written'[c] = both /\ DOMAIN written' = Clerk /\ \A d \in Clerk \ {c} : written'[d] = written[d]
  BY <1>1 DEF ClerksAreApart
<1>5. ASSUME NEW k \in Cell PROVE View(c)'[k] = IF k \in DOMAIN new THEN new[k] ELSE View(c)[k]
  <2>1. View(c)'[k] = IF k \in DOMAIN both THEN both[k] ELSE cell[k]
    BY <1>4 DEF View
  <2> QED
    BY <1>2, <1>3, <2>1, CellProperties
<1>6. ASSUME NEW d \in Clerk \ {c}, NEW k \in DOMAIN both, NEW l \in DOMAIN written[d]
      PROVE  k[2] # l[2]
  <2>1. CASE k \in DOMAIN written[c]
    BY <2>1 DEF ClerksAreApart
  <2>2. CASE k \in DOMAIN new
    BY <1>1, <2>2 DEF Taken
  <2> QED
    BY <1>2, <2>1, <2>2
<1> QED
  BY <1>1, <1>2, <1>4, <1>5, <1>6

\* A change that tells the formulas of all that it concerns.
LEMMA ChangeStep ==
  ASSUME ComputedInv, NEW c \in Clerk, NEW new, NEW data, Change(c, new, data),
         DOMAIN new \subseteq Cell, DOMAIN new # {}, \A k \in DOMAIN new : k[1] # "total",
         \A p \in Known(View(c)') :
            \/ <<"age", p>> \in data \/ <<"age", Every>> \in data
            \/ p \in Known(View(c)) /\ <<"age", p>> \notin DOMAIN new
               /\ View(c)'[<<"birth", p>>] = View(c)[<<"birth", p>>],
         \A f \in Company :
            \/ <<"total", f>> \in data
            \/ \A p \in Employee :
                  /\ p \in Staff(View(c)', f) <=> p \in Staff(View(c), f)
                  /\ p \in Staff(View(c), f) => <<"age", p>> \notin DOMAIN new
  PROVE  ComputedInv'
<1>1. ClerksAreApart /\ CellWell /\ \A d \in Clerk : Well(d)
  BY DEF ComputedInv
<1>2. /\ recomputing[c] = {} /\ updates[c] = {} /\ Write(c, new)
      /\ toRecompute' = [toRecompute EXCEPT ![c] = toRecompute[c] \cup data]
      /\ UNCHANGED <<cell, recomputing, updates, raced>>
  BY DEF Change
<1>3. /\ DOMAIN written' = Clerk
      /\ DOMAIN written'[c] = DOMAIN written[c] \cup DOMAIN new /\ written'[c] # Nothing
      /\ \A d \in Clerk \ {c} : written'[d] = written[d]
      /\ \A k \in Cell : View(c)'[k] = IF k \in DOMAIN new THEN new[k] ELSE View(c)[k]
      /\ \A d \in Clerk : d \in crossing => d \in crossing'
      /\ \A d \in Clerk \ {c} : written[d] # Nothing => c \in crossing' /\ d \in crossing'
      /\ \A d \in Clerk \ {c} : \A k \in DOMAIN written'[c], l \in DOMAIN written[d] : k[2] # l[2]
  BY <1>1, <1>2, WriteProperties
<1>4. /\ DOMAIN toRecompute' = Clerk /\ toRecompute'[c] = toRecompute[c] \cup data
      /\ \A d \in Clerk \ {c} : toRecompute'[d] = toRecompute[d]
  BY <1>1, <1>2 DEF ClerksAreApart
<1>5. ClerksAreApart'
  BY <1>1, <1>2, <1>3, <1>4 DEF ClerksAreApart
<1>6. \A d \in Clerk \ {c} : Well(d)'
  BY <1>1, <1>2, <1>3, <1>4, OtherIsWell
<1>7. CellWell'
  BY <1>1, <1>2 DEF CellWell
<1>8. \A k : Pending(c, k) => Pending(c, k)'
  BY <1>2, <1>4 DEF Pending
<1>9. \A k : k \in data \/ <<k[1], Every>> \in data => Pending(c, k)'
  BY <1>4 DEF Pending
<1>10. \A k : Excused(c, k) /\ k \notin DOMAIN new => Excused(c, k)'
  BY <1>2, <1>3, <1>8 DEF Excused
<1>11. \A k : Pending(c, k)' => Excused(c, k)'
  BY DEF Excused
<1>12. \A p \in Employee, a \in {"age", "birth"} : <<a, p>> \in Cell /\ <<a, p>>[1] = a
  BY CellProperties
<1>13. AgesWell(c)'
  <2> SUFFICES ASSUME NEW p \in Known(View(c)')
               PROVE  Excused(c, <<"age", p>>)' \/ View(c)'[<<"age", p>>] = View(c)'[<<"birth", p>>]
    BY DEF AgesWell, Known
  <2>1. CASE <<"age", p>> \in data \/ <<"age", Every>> \in data
    BY <1>9, <1>11, <2>1
  <2>2. CASE p \in Known(View(c)) /\ <<"age", p>> \notin DOMAIN new
             /\ View(c)'[<<"birth", p>>] = View(c)[<<"birth", p>>]
    <3>1. Excused(c, <<"age", p>>) \/ View(c)[<<"age", p>>] = View(c)[<<"birth", p>>]
      BY <1>1, <2>2 DEF Well, AgesWell
    <3>2. p \in Employee
      BY <2>2, StaffProperties
    <3>3. View(c)'[<<"age", p>>] = View(c)[<<"age", p>>]
      BY <1>3, <1>12, <2>2, <3>2
    <3> QED
      BY <1>10, <2>2, <3>1, <3>3
  <2> QED
    BY <2>1, <2>2
<1>14. ASSUME NEW f \in Company, <<"total", f>> \notin data
       PROVE  Staff(View(c)', f) = Staff(View(c), f) /\ Total(View(c)', f) = Total(View(c), f)
  <2>1. \A p \in Employee : p \in Staff(View(c), f) <=> p \in Staff(View(c)', f)
    BY <1>14
  <2>2. \A p \in Staff(View(c), f) : View(c)[<<"age", p>>] = View(c)'[<<"age", p>>]
    BY <1>3, <1>12, <1>14, StaffProperties
  <2> QED
    BY <2>1, <2>2, SameStaff
<1>15. ASSUME NEW f \in Company
       PROVE  <<"total", f>> \notin DOMAIN new /\ View(c)'[<<"total", f>>] = View(c)[<<"total", f>>]
  <2>1. <<"total", f>>[1] = "total" /\ <<"total", f>> \in Cell
    BY CellProperties
  <2> QED
    BY <1>3, <2>1
<1>16. TotalsWell(c)'
  <2> SUFFICES ASSUME NEW f \in Company
               PROVE  \/ Excused(c, <<"total", f>>)'
                      \/ Staff(View(c)', f) = {}
                      \/ View(c)'[<<"total", f>>] = Total(View(c)', f)
    BY DEF TotalsWell, Staff, Known, Total
  <2>1. CASE <<"total", f>> \in data
    BY <1>9, <1>11, <2>1
  <2>2. CASE <<"total", f>> \notin data
    BY <1>1, <1>10, <1>14, <1>15, <2>2 DEF Well, TotalsWell
  <2> QED
    BY <2>1, <2>2
<1>17. StaffTold(c)'
  <2> SUFFICES ASSUME NEW f \in Company, NEW p \in Staff(View(c)', f)
               PROVE  \/ p \in Staff(cell, f)
                      \/ Pending(c, <<"total", f>>)' \/ <<"total", f>> \in DOMAIN written'[c]
    BY <1>2 DEF StaffTold, Staff, Known
  <2>1. CASE <<"total", f>> \in data
    BY <1>9, <2>1
  <2>2. CASE <<"total", f>> \notin data
    BY <1>1, <1>3, <1>8, <1>14, <2>2 DEF Well, StaffTold
  <2> QED
    BY <2>1, <2>2
<1>18. UpdatesWell(c)'
  BY <1>2 DEF UpdatesWell
<1> QED
  BY <1>5, <1>6, <1>7, <1>13, <1>16, <1>17, <1>18 DEF ComputedInv, Well

LEMMA OnRelationProperties ==
  ASSUME NEW f \in Company
  PROVE  <<"total", f>> \in OnRelation(f)
  BY CellProperties DEF OnRelation

\* Who works where depends on the rows of the employee alone.
LEMMA SameRowSameStaff ==
  ASSUME NEW v, NEW w, NEW q, SameRow(v, w, q)
  PROVE  /\ q \in Known(v) <=> q \in Known(w)
         /\ \A g : q \in Staff(v, g) <=> q \in Staff(w, g)
         /\ v[<<"birth", q>>] = w[<<"birth", q>>] /\ v[<<"age", q>>] = w[<<"age", q>>]
  BY DEF SameRow, Known, Staff

LEMMA OnStaff ==
  ASSUME NEW v, NEW q, NEW g
  PROVE  /\ q \in Known(v) => q \in Employee
         /\ q \in Employee /\ v[<<"birth", q>>] # Null => q \in Known(v)
         /\ v[<<"birth", q>>] = Null => q \notin Known(v)
         /\ q \notin Known(v) => q \notin Staff(v, g)
         /\ v[<<"works_for", q>>] # g => q \notin Staff(v, g)
  BY DEF Known, Staff

WritesRow(v, w, new, p) ==
    /\ \A k \in Cell : w[k] = IF k \in DOMAIN new THEN new[k] ELSE v[k]
    /\ \A k \in DOMAIN new : k[2] = p

\* The columns of the rows that a write leaves alone.
LEMMA OtherRows ==
  ASSUME NEW v, NEW w, NEW new, NEW p, WritesRow(v, w, new, p)
  PROVE  \A q \in Employee : q # p => SameRow(w, v, q) /\ <<"age", q>> \notin DOMAIN new
<1> TAKE q \in Employee
<1> HAVE q # p
<1>1. <<"birth", q>>[2] = q /\ <<"age", q>>[2] = q /\ <<"works_for", q>>[2] = q
  OBVIOUS
<1>2. /\ <<"birth", q>> \notin DOMAIN new /\ <<"age", q>> \notin DOMAIN new
      /\ <<"works_for", q>> \notin DOMAIN new
  BY <1>1 DEF WritesRow
<1> QED
  BY <1>2, CellProperties DEF SameRow, WritesRow

LEMMA HireStep ==
  ASSUME ComputedInv, NEW c \in Clerk, NEW p \in Employee, NEW b \in Birth,
         NEW f \in Company \cup {Null}, Hire(c, p, b, f)
  PROVE  ComputedInv'
<1> DEFINE new == [k \in {"birth", "age", "works_for"} \X {p} |->
                     CASE k[1] = "birth" -> b [] k[1] = "age" -> Null
                       [] k[1] = "works_for" -> f]
           data == {<<"age", p>>} \cup OnRelation(f)
<1>1. p \notin Known(View(c)) /\ Change(c, new, data)
  BY DEF Hire
<1>2. DOMAIN new = {"birth", "age", "works_for"} \X {p}
  OBVIOUS
<1>3. \A k \in DOMAIN new : k \in Cell /\ k[1] # "total" /\ k[2] = p
  BY DEF Cell
<1>4. /\ <<"birth", p>> \in DOMAIN new /\ <<"works_for", p>> \in DOMAIN new
      /\ new[<<"birth", p>>] = b /\ new[<<"works_for", p>>] = f
  OBVIOUS
<1> HIDE DEF new
<1>5. \A k \in Cell : View(c)'[k] = IF k \in DOMAIN new THEN new[k] ELSE View(c)[k]
  BY <1>1, <1>3, <1>4, WriteProperties DEF ComputedInv, Change
<1>6. \A q \in Employee : q # p => SameRow(View(c)', View(c), q) /\ <<"age", q>> \notin DOMAIN new
  <2>1. WritesRow(View(c), View(c)', new, p)
    BY <1>3, <1>5 DEF WritesRow
  <2> QED
    BY <2>1, OtherRows
<1>7. <<"birth", p>> \in Cell /\ <<"works_for", p>> \in Cell
  BY CellProperties
<1>8. View(c)'[<<"works_for", p>>] = f
  BY <1>4, <1>5, <1>7
<1>9. ASSUME NEW g \in Company, <<"total", g>> \notin data, NEW q \in Employee
      PROVE  /\ q \in Staff(View(c)', g) <=> q \in Staff(View(c), g)
             /\ q \in Staff(View(c), g) => <<"age", q>> \notin DOMAIN new
  <2>1. CASE q # p
    BY <1>6, <2>1, SameRowSameStaff
  <2>2. CASE q = p
    <3>1. g # f
      BY <1>9, OnRelationProperties
    <3>2. p \notin Staff(View(c)', g) /\ p \notin Staff(View(c), g)
      BY <1>1, <1>8, <3>1, OnStaff
    <3> QED
      BY <2>2, <3>2
  <2> QED
    BY <2>1, <2>2
<1>10. ASSUME NEW q \in Known(View(c)')
       PROVE  \/ <<"age", q>> \in data
              \/ q \in Known(View(c)) /\ <<"age", q>> \notin DOMAIN new
                 /\ View(c)'[<<"birth", q>>] = View(c)[<<"birth", q>>]
  <2>1. q \in Employee
    BY OnStaff
  <2>2. CASE q # p
    BY <1>6, <2>1, <2>2, SameRowSameStaff
  <2>3. CASE q = p
    BY <2>3
  <2> QED
    BY <2>2, <2>3
<1> HIDE DEF data
<1> QED
  BY <1>1, <1>3, <1>4, <1>9, <1>10, ChangeStep

LEMMA SetBirthStep ==
  ASSUME ComputedInv, NEW c \in Clerk, NEW p \in Employee, NEW b \in Birth, SetBirth(c, p, b)
  PROVE  ComputedInv'
<1> DEFINE new == [k \in {<<"birth", p>>} |-> b]
           data == {<<"age", Every>>}
<1>1. p \in Known(View(c)) /\ Change(c, new, data)
  BY DEF SetBirth
<1>2. DOMAIN new = {<<"birth", p>>} /\ new[<<"birth", p>>] = b
  OBVIOUS
<1> HIDE DEF new
<1>3. /\ <<"birth", p>> \in Cell /\ b # Null
      /\ <<"birth", p>>[1] = "birth" /\ <<"birth", p>>[2] = p
  BY CellProperties, ComputedAssumption
<1>4. \A k \in DOMAIN new : k \in Cell /\ k[1] # "total" /\ k[2] = p
  BY <1>2, <1>3
<1>5. \A k \in Cell : View(c)'[k] = IF k \in DOMAIN new THEN new[k] ELSE View(c)[k]
  BY <1>1, <1>2, <1>4, WriteProperties DEF ComputedInv, Change
<1>6. \A q \in Employee : q # p => SameRow(View(c)', View(c), q) /\ <<"age", q>> \notin DOMAIN new
  <2>1. WritesRow(View(c), View(c)', new, p)
    BY <1>4, <1>5 DEF WritesRow
  <2> QED
    BY <2>1, OtherRows
<1>7. <<"age", p>> \notin DOMAIN new /\ <<"works_for", p>> \notin DOMAIN new
  BY <1>2
<1>8. View(c)'[<<"birth", p>>] = b /\ View(c)'[<<"works_for", p>>] = View(c)[<<"works_for", p>>]
  BY <1>2, <1>3, <1>5, <1>7, CellProperties
<1>9. \A g : p \in Staff(View(c)', g) <=> p \in Staff(View(c), g)
  <2>1. p \in Known(View(c)')
    BY <1>3, <1>8, OnStaff
  <2> QED
    BY <1>1, <1>8, <2>1 DEF Staff
<1>10. ASSUME NEW g \in Company, NEW q \in Employee
       PROVE  /\ q \in Staff(View(c)', g) <=> q \in Staff(View(c), g)
              /\ <<"age", q>> \notin DOMAIN new
  <2>1. CASE q # p
    BY <1>6, <2>1, SameRowSameStaff
  <2>2. CASE q = p
    BY <1>7, <1>9, <2>2
  <2> QED
    BY <2>1, <2>2
<1>11. <<"age", Every>> \in data
  OBVIOUS
<1> HIDE DEF data
<1> QED
  BY <1>1, <1>2, <1>4, <1>10, <1>11, ChangeStep

LEMMA MoveStep ==
  ASSUME ComputedInv, NEW c \in Clerk, NEW p \in Employee, NEW f \in Company \cup {Null},
         Move(c, p, f)
  PROVE  ComputedInv'
<1> DEFINE new == [k \in {<<"works_for", p>>} |-> f]
           old == View(c)[<<"works_for", p>>]
           data == OnRelation(f) \cup OnRelation(old)
<1>1. Change(c, new, data)
  BY DEF Move
<1>2. DOMAIN new = {<<"works_for", p>>} /\ new[<<"works_for", p>>] = f
  OBVIOUS
<1> HIDE DEF new
<1>3. /\ <<"works_for", p>> \in Cell
      /\ <<"works_for", p>>[1] = "works_for" /\ <<"works_for", p>>[2] = p
  BY CellProperties
<1>4. \A k \in DOMAIN new : k \in Cell /\ k[1] # "total" /\ k[2] = p
  BY <1>2, <1>3
<1>5. \A k \in Cell : View(c)'[k] = IF k \in DOMAIN new THEN new[k] ELSE View(c)[k]
  BY <1>1, <1>2, <1>4, WriteProperties DEF ComputedInv, Change
<1>6. \A q \in Employee : q # p => SameRow(View(c)', View(c), q) /\ <<"age", q>> \notin DOMAIN new
  <2>1. WritesRow(View(c), View(c)', new, p)
    BY <1>4, <1>5 DEF WritesRow
  <2> QED
    BY <2>1, OtherRows
<1>7. <<"age", p>> \notin DOMAIN new /\ <<"birth", p>> \notin DOMAIN new
  BY <1>2
<1>8. View(c)'[<<"works_for", p>>] = f /\ View(c)'[<<"birth", p>>] = View(c)[<<"birth", p>>]
  BY <1>2, <1>3, <1>5, <1>7, CellProperties
<1>9. ASSUME NEW g \in Company, <<"total", g>> \notin data, NEW q \in Employee
      PROVE  /\ q \in Staff(View(c)', g) <=> q \in Staff(View(c), g)
             /\ q \in Staff(View(c), g) => <<"age", q>> \notin DOMAIN new
  <2>1. CASE q # p
    BY <1>6, <2>1, SameRowSameStaff
  <2>2. CASE q = p
    <3>1. g # f /\ g # old
      BY <1>9, OnRelationProperties
    <3>2. p \notin Staff(View(c)', g) /\ p \notin Staff(View(c), g)
      BY <1>8, <3>1, OnStaff
    <3> QED
      BY <2>2, <3>2
  <2> QED
    BY <2>1, <2>2
<1>10. ASSUME NEW q \in Known(View(c)')
       PROVE  /\ q \in Known(View(c)) /\ <<"age", q>> \notin DOMAIN new
              /\ View(c)'[<<"birth", q>>] = View(c)[<<"birth", q>>]
  <2>1. q \in Employee
    BY OnStaff
  <2>2. CASE q # p
    BY <1>6, <2>1, <2>2, SameRowSameStaff
  <2>3. CASE q = p
    BY <1>7, <1>8, <2>1, <2>3, OnStaff
  <2> QED
    BY <2>2, <2>3
<1> HIDE DEF data
<1> QED
  BY <1>1, <1>2, <1>4, <1>9, <1>10, ChangeStep

LEMMA DismissStep ==
  ASSUME ComputedInv, NEW c \in Clerk, NEW p \in Employee, Dismiss(c, p)
  PROVE  ComputedInv'
<1> DEFINE new == [k \in {"birth", "age", "works_for"} \X {p} |-> Null]
           old == View(c)[<<"works_for", p>>]
           data == OnRelation(old)
<1>1. Change(c, new, data)
  BY DEF Dismiss
<1>2. DOMAIN new = {"birth", "age", "works_for"} \X {p}
  OBVIOUS
<1>3. \A k \in DOMAIN new : k \in Cell /\ k[1] # "total" /\ k[2] = p
  BY DEF Cell
<1>4. <<"birth", p>> \in DOMAIN new /\ new[<<"birth", p>>] = Null
  OBVIOUS
<1> HIDE DEF new
<1>5. \A k \in Cell : View(c)'[k] = IF k \in DOMAIN new THEN new[k] ELSE View(c)[k]
  BY <1>1, <1>3, <1>4, WriteProperties DEF ComputedInv, Change
<1>6. \A q \in Employee : q # p => SameRow(View(c)', View(c), q) /\ <<"age", q>> \notin DOMAIN new
  <2>1. WritesRow(View(c), View(c)', new, p)
    BY <1>3, <1>5 DEF WritesRow
  <2> QED
    BY <2>1, OtherRows
<1>7. View(c)'[<<"birth", p>>] = Null
  BY <1>4, <1>5, CellProperties
<1>8. p \notin Known(View(c)')
  BY <1>7, OnStaff
<1>9. ASSUME NEW g \in Company, <<"total", g>> \notin data, NEW q \in Employee
      PROVE  /\ q \in Staff(View(c)', g) <=> q \in Staff(View(c), g)
             /\ q \in Staff(View(c), g) => <<"age", q>> \notin DOMAIN new
  <2>1. CASE q # p
    BY <1>6, <2>1, SameRowSameStaff
  <2>2. CASE q = p
    <3>1. g # old
      BY <1>9, OnRelationProperties
    <3>2. p \notin Staff(View(c)', g) /\ p \notin Staff(View(c), g)
      BY <1>8, <3>1, OnStaff
    <3> QED
      BY <2>2, <3>2
  <2> QED
    BY <2>1, <2>2
<1>10. ASSUME NEW q \in Known(View(c)')
       PROVE  /\ q \in Known(View(c)) /\ <<"age", q>> \notin DOMAIN new
              /\ View(c)'[<<"birth", q>>] = View(c)[<<"birth", q>>]
  <2>1. q \in Employee /\ q # p
    BY <1>8, OnStaff
  <2> QED
    BY <1>6, <2>1, SameRowSameStaff
<1> HIDE DEF data
<1> QED
  BY <1>1, <1>3, <1>4, <1>9, <1>10, ChangeStep

LEMMA TakeDataStep ==
  ASSUME ComputedInv, NEW c \in Clerk, TakeData(c)
  PROVE  ComputedInv'
<1>1. ClerksAreApart /\ CellWell /\ \A d \in Clerk : Well(d)
  BY DEF ComputedInv
<1>2. /\ toRecompute[c] # {} /\ recomputing[c] = {} /\ updates[c] = {}
      /\ recomputing' = [recomputing EXCEPT ![c] = toRecompute[c]]
      /\ toRecompute' = [toRecompute EXCEPT ![c] = {}]
      /\ UNCHANGED <<cell, written, updates, crossing, raced>>
  BY DEF TakeData
<1>3. /\ recomputing'[c] = toRecompute[c] /\ toRecompute'[c] = {}
      /\ DOMAIN recomputing' = Clerk /\ DOMAIN toRecompute' = Clerk
      /\ \A d \in Clerk \ {c} : recomputing'[d] = recomputing[d] /\ toRecompute'[d] = toRecompute[d]
  BY <1>1, <1>2 DEF ClerksAreApart
<1>4. ClerksAreApart'
  BY <1>1, <1>2, <1>3 DEF ClerksAreApart
<1>5. CellWell'
  BY <1>1, <1>2 DEF CellWell
<1>6. \A d \in Clerk \ {c} : Well(d)'
  BY <1>1, <1>2, <1>3, OtherIsWell
<1>7. View(c)' = View(c)
  BY <1>2 DEF View
<1>8. \A k : Pending(c, k)' <=> Pending(c, k)
  BY <1>2, <1>3 DEF Pending
<1>9. \A k : Excused(c, k)' <=> Excused(c, k)
  BY <1>2, <1>8 DEF Excused
<1>10. Well(c)
  BY <1>1
<1>11. AgesWell(c)'
  BY <1>7, <1>9, <1>10 DEF Well, AgesWell, Known
<1>12. TotalsWell(c)'
  BY <1>7, <1>9, <1>10 DEF Well, TotalsWell
<1>13. StaffTold(c)'
  BY <1>2, <1>7, <1>8, <1>10 DEF Well, StaffTold, Staff, Known
<1>14. UpdatesWell(c)'
  BY <1>2 DEF UpdatesWell
<1> QED
  BY <1>4, <1>5, <1>6, <1>11, <1>12, <1>13, <1>14 DEF ComputedInv, Well

\* What SELECT has put aside for an attribute is asked of the columns that have a row.
LEMMA SelectStep ==
  ASSUME ComputedInv, NEW c \in Clerk, NEW attr \in {"age", "total"}, Select(c, attr)
  PROVE  ComputedInv'
<1> DEFINE eids == {d[2] : d \in {d \in recomputing[c] : d[1] = attr}}
           stmts == {u \in Computed(View(c), attr) : Every \in eids \/ u[1][2] \in eids}
           left == {d \in recomputing[c] : d[1] # attr}
<1>1. ClerksAreApart /\ CellWell /\ \A d \in Clerk : Well(d)
  BY DEF ComputedInv
<1>2. /\ eids # {} /\ updates[c] = {}
      /\ updates' = [updates EXCEPT ![c] = stmts]
      /\ recomputing' = [recomputing EXCEPT ![c] = left]
      /\ UNCHANGED <<cell, written, toRecompute, crossing, raced>>
  BY DEF Select
<1>3. stmts \subseteq Computed(View(c), attr)
  OBVIOUS
<1>4. \A e : \A u \in Computed(View(c), attr) :
         u[1] = <<attr, e>> /\ (e \in eids \/ Every \in eids) => u \in stmts
  OBVIOUS
<1>5. \A e : <<attr, e>> \in recomputing[c] => e \in eids
  <2> TAKE e
  <2> HAVE <<attr, e>> \in recomputing[c]
  <2>1. <<attr, e>>[1] = attr /\ <<attr, e>>[2] = e
    OBVIOUS
  <2> QED
    BY <2>1
<1>6. \A k \in recomputing[c] : k[1] # attr => k \in left
  OBVIOUS
<1> HIDE DEF eids, stmts, left
<1>7. /\ updates'[c] = stmts /\ recomputing'[c] = left
      /\ DOMAIN updates' = Clerk /\ DOMAIN recomputing' = Clerk
      /\ \A d \in Clerk \ {c} : updates'[d] = updates[d] /\ recomputing'[d] = recomputing[d]
  BY <1>1, <1>2 DEF ClerksAreApart
<1>8. \A u \in stmts : u[1] \in Cell /\ u[1][1] \in {"age", "total"}
  <2>1. CASE attr = "age"
    <3> SUFFICES ASSUME NEW u \in stmts PROVE u[1] \in Cell /\ u[1][1] = "age"
      BY Zenon
    <3>1. PICK p \in Known(View(c)) : u = <<<<"age", p>>, View(c)[<<"birth", p>>]>>
      BY <1>3, <2>1, ComputedProperties
    <3>2. u[1] = <<"age", p>> /\ p \in Employee /\ <<"age", p>>[1] = "age"
      BY <3>1, OnStaff
    <3> QED
      BY <3>2, CellProperties
  <2>2. CASE attr = "total"
    <3> SUFFICES ASSUME NEW u \in stmts PROVE u[1] \in Cell /\ u[1][1] = "total"
      BY Zenon
    <3>1. PICK f \in Company : u = <<<<"total", f>>, Total(View(c), f)>>
      BY <1>3, <2>2, ComputedProperties
    <3>2. u[1] = <<"total", f>> /\ <<"total", f>>[1] = "total"
      BY <3>1
    <3> QED
      BY <3>2, CellProperties
  <2> QED
    BY <2>1, <2>2
<1>9. ClerksAreApart'
  <2>1. \A u \in updates'[c] : u[1] \in Cell /\ u[1][1] \in {"age", "total"}
    BY <1>7, <1>8
  <2>2. written[c] # Nothing
    BY <1>1, <1>2, <1>5 DEF ClerksAreApart, eids
  <2> QED
    BY <1>1, <1>2, <1>7, <2>1, <2>2 DEF ClerksAreApart
<1>10. CellWell'
  BY <1>1, <1>2 DEF CellWell
<1>11. \A d \in Clerk \ {c} : Well(d)'
  BY <1>1, <1>2, <1>7, OtherIsWell
<1>12. View(c)' = View(c)
  BY <1>2 DEF View
<1>13. ASSUME NEW a, NEW e, Pending(c, <<a, e>>),
              a = attr => \E u \in Computed(View(c), attr) : u[1] = <<a, e>>
       PROVE  Pending(c, <<a, e>>)'
  <2>1. <<a, e>>[1] = a /\ <<a, Every>>[1] = a
    OBVIOUS
  <2>2. CASE <<a, e>> \in toRecompute[c] \/ <<a, Every>> \in toRecompute[c]
    BY <1>2, <2>1, <2>2 DEF Pending
  <2>3. CASE a # attr /\ (<<a, e>> \in recomputing[c] \/ <<a, Every>> \in recomputing[c])
    BY <1>6, <1>7, <2>1, <2>3 DEF Pending
  <2>4. CASE a = attr /\ (<<a, e>> \in recomputing[c] \/ <<a, Every>> \in recomputing[c])
    <3>1. PICK u \in Computed(View(c), attr) : u[1] = <<attr, e>>
      BY <1>13, <2>4
    <3>2. u \in stmts
      BY <1>4, <1>5, <2>4, <3>1
    <3> QED
      BY <1>7, <2>4, <3>1, <3>2 DEF Pending
  <2> QED
    BY <1>2, <1>13, <2>1, <2>2, <2>3, <2>4 DEF Pending
<1>14. ASSUME NEW p \in Known(View(c)), Pending(c, <<"age", p>>)
       PROVE  Pending(c, <<"age", p>>)'
  <2>1. <<<<"age", p>>, View(c)[<<"birth", p>>]>> \in Computed(View(c), "age")
    BY ComputedProperties
  <2>2. <<<<"age", p>>, View(c)[<<"birth", p>>]>>[1] = <<"age", p>>
    OBVIOUS
  <2> QED
    BY <1>13, <1>14, <2>1, <2>2
<1>15. ASSUME NEW f \in Company, Staff(View(c), f) # {}, Pending(c, <<"total", f>>)
       PROVE  Pending(c, <<"total", f>>)'
  <2>1. <<<<"total", f>>, Total(View(c), f)>> \in Computed(View(c), "total")
    BY <1>15, ComputedProperties
  <2>2. <<<<"total", f>>, Total(View(c), f)>>[1] = <<"total", f>>
    OBVIOUS
  <2> QED
    BY <1>13, <1>15, <2>1, <2>2
<1>16. Well(c)
  BY <1>1
<1>17. \A k : Excused(c, k) => Excused(c, k)' \/ Pending(c, k)
  BY <1>2 DEF Excused
<1>18. \A k : Pending(c, k)' => Excused(c, k)'
  BY DEF Excused
<1>19. AgesWell(c)'
  BY <1>12, <1>14, <1>16, <1>17, <1>18 DEF Well, AgesWell, Known
<1>20. TotalsWell(c)'
  BY <1>12, <1>15, <1>16, <1>17, <1>18 DEF Well, TotalsWell
<1>21. StaffTold(c)'
  <2> SUFFICES ASSUME NEW f \in Company, NEW p \in Staff(View(c), f)
               PROVE  \/ p \in Staff(cell, f)
                      \/ Pending(c, <<"total", f>>)' \/ <<"total", f>> \in DOMAIN written[c]
    BY <1>2, <1>12 DEF StaffTold, Staff, Known
  <2> QED
    BY <1>15, <1>16 DEF Well, StaffTold
<1>22. UpdatesWell(c)'
  BY <1>3, <1>7, <1>12 DEF UpdatesWell
<1> QED
  BY <1>9, <1>10, <1>11, <1>19, <1>20, <1>21, <1>22 DEF ComputedInv, Well

\* w is v where the cell k of a computed attribute has the value x.
WritesCell(v, w, k, x) ==
    k \in Cell /\ k[1] \in {"age", "total"} /\ \A l \in Cell : w[l] = IF l = k THEN x ELSE v[l]

\* A statement leaves the people where they are.
LEMMA UpdateWrites ==
  ASSUME NEW v, NEW w, NEW k, NEW x, WritesCell(v, w, k, x)
  PROVE  /\ \A p \in Employee : w[<<"birth", p>>] = v[<<"birth", p>>]
         /\ \A p \in Employee : k # <<"age", p>> => w[<<"age", p>>] = v[<<"age", p>>]
         /\ \A f \in Company : k # <<"total", f>> => w[<<"total", f>>] = v[<<"total", f>>]
         /\ Known(w) = Known(v) /\ \A f : Staff(w, f) = Staff(v, f)
         /\ k[1] = "total" => \A f : Total(w, f) = Total(v, f)
<1>0. k \in Cell /\ k[1] \in {"age", "total"} /\ \A l \in Cell : w[l] = IF l = k THEN x ELSE v[l]
  BY DEF WritesCell
<1>1. \A p \in Employee : /\ <<"birth", p>> \in Cell /\ <<"birth", p>> # k
                          /\ <<"works_for", p>> \in Cell /\ <<"works_for", p>> # k
                          /\ <<"age", p>> \in Cell
  <2> TAKE p \in Employee
  <2>1. <<"birth", p>>[1] = "birth" /\ <<"works_for", p>>[1] = "works_for"
    OBVIOUS
  <2> QED
    BY <1>0, <2>1, CellProperties
<1>2. \A p \in Employee : w[<<"birth", p>>] = v[<<"birth", p>>]
                          /\ w[<<"works_for", p>>] = v[<<"works_for", p>>]
  BY <1>0, <1>1
<1>3. \A p \in Employee : k # <<"age", p>> => w[<<"age", p>>] = v[<<"age", p>>]
  BY <1>0, <1>1
<1>4. \A f \in Company : k # <<"total", f>> => w[<<"total", f>>] = v[<<"total", f>>]
  BY <1>0, CellProperties
<1>5. Known(w) = Known(v)
  BY <1>2 DEF Known
<1>6. ASSUME NEW f PROVE Staff(w, f) = Staff(v, f)
  BY <1>2, <1>5, OnStaff DEF Staff
<1>7. ASSUME k[1] = "total", NEW f PROVE Total(w, f) = Total(v, f)
  <2>1. \A p \in Employee : k # <<"age", p>>
    <3> TAKE p \in Employee
    <3>1. <<"age", p>>[1] = "age"
      OBVIOUS
    <3> QED
      BY <1>7, <3>1
  <2>2. \A p \in Staff(v, f) : w[<<"age", p>>] = v[<<"age", p>>]
    BY <1>3, <2>1, OnStaff
  <2>3. \A p \in Employee : p \in Staff(v, f) <=> p \in Staff(w, f)
    BY <1>6
  <2> QED
    BY <2>2, <2>3, SameStaff
<1> QED
  BY <1>2, <1>3, <1>4, <1>5, <1>6, <1>7

LEMMA SameComputed ==
  ASSUME NEW v, NEW w, Known(w) = Known(v), \A f : Staff(w, f) = Staff(v, f),
         \A p \in Employee : w[<<"birth", p>>] = v[<<"birth", p>>]
  PROVE  /\ Computed(w, "age") = Computed(v, "age")
         /\ (\A f : Total(w, f) = Total(v, f)) => Computed(w, "total") = Computed(v, "total")
<1>1. \A u : u \in Computed(w, "age") <=> u \in Computed(v, "age")
  <2> SUFFICES ASSUME NEW u
               PROVE  u \in Computed(w, "age") <=> u \in Computed(v, "age")
    OBVIOUS
  <2>1. /\ Computed(v, "age") = {<<<<"age", p>>, v[<<"birth", p>>]>> : p \in Known(v)}
        /\ Computed(w, "age") = {<<<<"age", p>>, w[<<"birth", p>>]>> : p \in Known(w)}
    BY DEF Computed
  <2>2. \A p \in Known(v) : p \in Known(w) /\ w[<<"birth", p>>] = v[<<"birth", p>>]
    BY DEF Known
  <2> QED
    BY <2>1, <2>2
<1>2. ASSUME \A f : Total(w, f) = Total(v, f)
      PROVE  \A u : u \in Computed(w, "total") <=> u \in Computed(v, "total")
  BY <1>2, ComputedProperties
<1> QED
  BY <1>1, <1>2 DEF Computed

LEMMA UpdateStep ==
  ASSUME ComputedInv, NEW c \in Clerk, Update(c)
  PROVE  ComputedInv'
<1>1. ClerksAreApart /\ CellWell /\ (\A d \in Clerk : Well(d)) /\ Well(c)
  BY DEF ComputedInv
<1>2. PICK u \in updates[c] :
         /\ Write(c, [k \in {u[1]} |-> u[2]])
         /\ updates' = [updates EXCEPT ![c] = updates[c] \ {u}]
         /\ toRecompute' = IF u[1][1] = "age"
                           THEN [toRecompute EXCEPT ![c] = toRecompute[c] \cup {<<"total", Every>>}]
                           ELSE toRecompute
         /\ UNCHANGED <<cell, recomputing, raced>>
  BY DEF Update
<1> DEFINE new == [k \in {u[1]} |-> u[2]]
<1>3. DOMAIN new = {u[1]} /\ new[u[1]] = u[2] /\ u[1] \in Cell /\ u[1][1] \in {"age", "total"}
  BY <1>1 DEF ClerksAreApart
<1>4. Write(c, new)
  BY <1>2
<1> HIDE DEF new
<1>5. /\ DOMAIN written' = Clerk
      /\ DOMAIN written'[c] = DOMAIN written[c] \cup {u[1]} /\ written'[c] # Nothing
      /\ \A d \in Clerk \ {c} : written'[d] = written[d]
      /\ \A k \in Cell : View(c)'[k] = IF k \in DOMAIN new THEN new[k] ELSE View(c)[k]
      /\ \A d \in Clerk : d \in crossing => d \in crossing'
      /\ \A d \in Clerk \ {c} : written[d] # Nothing => c \in crossing' /\ d \in crossing'
      /\ \A d \in Clerk \ {c} : \A k \in DOMAIN written'[c], l \in DOMAIN written[d] : k[2] # l[2]
  BY <1>1, <1>2, <1>3, <1>4, WriteProperties
<1>6. \A k \in Cell : View(c)'[k] = IF k = u[1] THEN u[2] ELSE View(c)[k]
  BY <1>3, <1>5
<1>7. /\ updates'[c] = updates[c] \ {u} /\ DOMAIN updates' = Clerk /\ DOMAIN toRecompute' = Clerk
      /\ toRecompute[c] \subseteq toRecompute'[c]
      /\ u[1][1] = "age" => <<"total", Every>> \in toRecompute'[c]
      /\ \A d \in Clerk \ {c} : updates'[d] = updates[d] /\ toRecompute'[d] = toRecompute[d]
  BY <1>1, <1>2 DEF ClerksAreApart
<1>8. ClerksAreApart'
  BY <1>1, <1>2, <1>5, <1>7 DEF ClerksAreApart
<1>9. CellWell'
  BY <1>1, <1>2 DEF CellWell
<1>10. \A d \in Clerk \ {c} : Well(d)'
  BY <1>1, <1>2, <1>5, <1>7, OtherIsWell
<1>11. /\ \A p \in Employee : View(c)'[<<"birth", p>>] = View(c)[<<"birth", p>>]
       /\ \A p \in Employee : u[1] # <<"age", p>> => View(c)'[<<"age", p>>] = View(c)[<<"age", p>>]
       /\ \A f \in Company : u[1] # <<"total", f>>
                             => View(c)'[<<"total", f>>] = View(c)[<<"total", f>>]
       /\ Known(View(c)') = Known(View(c)) /\ \A f : Staff(View(c)', f) = Staff(View(c), f)
       /\ u[1][1] = "total" => \A f : Total(View(c)', f) = Total(View(c), f)
  <2>1. WritesCell(View(c), View(c)', u[1], u[2])
    BY <1>3, <1>6 DEF WritesCell
  <2> QED
    BY <2>1, UpdateWrites
<1>12. \A k : Pending(c, k) => Pending(c, k)' \/ k = u[1]
  BY <1>2, <1>7 DEF Pending
<1>13. \A k : Excused(c, k) /\ k # u[1] => Excused(c, k)'
  BY <1>2, <1>5, <1>12 DEF Excused
<1>14. c \in crossing' => Excused(c, u[1])'
  BY <1>5 DEF Excused
<1>15. ASSUME c \notin crossing'
       PROVE  \/ updates[c] \subseteq Computed(View(c), "age") /\ u[1][1] = "age"
              \/ updates[c] \subseteq Computed(View(c), "total") /\ u[1][1] = "total"
  <2>1. CASE updates[c] \subseteq Computed(View(c), "age")
    <3>1. PICK p \in Known(View(c)) : u = <<<<"age", p>>, View(c)[<<"birth", p>>]>>
      BY <2>1, ComputedProperties
    <3> QED
      BY <2>1, <3>1
  <2>2. CASE updates[c] \subseteq Computed(View(c), "total")
    <3>1. PICK f \in Company : u = <<<<"total", f>>, Total(View(c), f)>>
      BY <2>2, ComputedProperties
    <3> QED
      BY <2>2, <3>1
  <2> QED
    BY <1>1, <1>5, <1>15, <2>1, <2>2 DEF Well, UpdatesWell
<1>16. AgesWell(c)'
  <2> SUFFICES ASSUME NEW p \in Known(View(c))
               PROVE  Excused(c, <<"age", p>>)' \/ View(c)'[<<"age", p>>] = View(c)'[<<"birth", p>>]
    BY <1>11 DEF AgesWell
  <2>1. p \in Employee
    BY OnStaff
  <2>2. CASE u[1] # <<"age", p>>
    BY <1>1, <1>11, <1>13, <2>1, <2>2 DEF Well, AgesWell
  <2>3. CASE u[1] = <<"age", p>> /\ c \notin crossing'
    <3>1. u \in Computed(View(c), "age")
      BY <1>15, <2>3
    <3>2. PICK q \in Known(View(c)) : u = <<<<"age", q>>, View(c)[<<"birth", q>>]>>
      BY <3>1, ComputedProperties
    <3>3. q = p /\ u[2] = View(c)[<<"birth", p>>]
      BY <2>3, <3>2
    <3> QED
      BY <1>3, <1>6, <1>11, <2>1, <2>3, <3>3
  <2> QED
    BY <1>14, <2>2, <2>3
<1>17. TotalsWell(c)'
  <2> SUFFICES ASSUME NEW f \in Company
               PROVE  \/ Excused(c, <<"total", f>>)'
                      \/ Staff(View(c)', f) = {}
                      \/ View(c)'[<<"total", f>>] = Total(View(c)', f)
    BY DEF TotalsWell, Staff, Known, Total
  <2>1. CASE u[1][1] = "age"
    <3>1. <<"total", f>>[1] = "total"
      OBVIOUS
    <3> QED
      BY <1>7, <2>1, <3>1 DEF Excused, Pending
  <2>2. CASE u[1][1] = "total" /\ u[1] # <<"total", f>>
    BY <1>1, <1>11, <1>13, <2>2 DEF Well, TotalsWell
  <2>3. CASE u[1] = <<"total", f>> /\ c \notin crossing'
    <3>1. u \in Computed(View(c), "total") /\ u[1][1] = "total"
      BY <1>15, <2>3
    <3>2. PICK g \in Company : u = <<<<"total", g>>, Total(View(c), g)>>
      BY <3>1, ComputedProperties
    <3>3. g = f /\ u[2] = Total(View(c), f)
      BY <2>3, <3>2
    <3>4. View(c)'[<<"total", f>>] = u[2]
      BY <1>3, <1>6, <2>3
    <3> QED
      BY <1>11, <3>1, <3>3, <3>4
  <2> QED
    BY <1>3, <1>14, <2>1, <2>2, <2>3
<1>18. StaffTold(c)'
  <2> SUFFICES ASSUME NEW f \in Company, NEW p \in Staff(View(c), f)
               PROVE  \/ p \in Staff(cell, f)
                      \/ Pending(c, <<"total", f>>)' \/ <<"total", f>> \in DOMAIN written'[c]
    <3>1. \A f : Staff(cell, f)' = Staff(cell, f)
      BY <1>2 DEF Staff, Known
    <3> QED
      BY <1>2, <1>11, <3>1 DEF StaffTold
  <2> QED
    BY <1>1, <1>5, <1>12 DEF Well, StaffTold
<1>19. UpdatesWell(c)'
  <2> SUFFICES ASSUME c \notin crossing'
               PROVE  \/ updates'[c] \subseteq Computed(View(c)', "age")
                      \/ updates'[c] \subseteq Computed(View(c)', "total")
    BY DEF UpdatesWell
  <2>1. Computed(View(c)', "age") = Computed(View(c), "age")
    BY <1>11, SameComputed
  <2>2. u[1][1] = "total" => Computed(View(c)', "total") = Computed(View(c), "total")
    BY <1>11, SameComputed
  <2> QED
    BY <1>7, <1>15, <2>1, <2>2
<1> QED
  BY <1>8, <1>9, <1>10, <1>16, <1>17, <1>18, <1>19 DEF ComputedInv, Well

IdleAreWell == \A c \in Clerk : written[c] = Nothing => Well(c)

LEMMA IdleAreWellThen == (ClerksAreApart /\ CellWell => IdleAreWell)'
<1>1. ClerksAreApart /\ CellWell => IdleAreWell
  BY IdleIsWell DEF IdleAreWell
<1> QED
  BY <1>1, PTL

LEMMA EndsProperties ==
  ASSUME ClerksAreApart, NEW c \in Clerk, Ends(c)
  PROVE  /\ ClerksAreApart' /\ written'[c] = Nothing
         /\ \A d \in Clerk \ {c} :
               /\ written'[d] = written[d] /\ toRecompute'[d] = toRecompute[d]
               /\ recomputing'[d] = recomputing[d] /\ updates'[d] = updates[d]
               /\ d \in crossing => d \in crossing'
<1>1. /\ written' = [written EXCEPT ![c] = Nothing]
      /\ toRecompute' = [toRecompute EXCEPT ![c] = {}]
      /\ recomputing' = [recomputing EXCEPT ![c] = {}]
      /\ updates' = [updates EXCEPT ![c] = {}]
      /\ crossing' = crossing \ {c}
  BY DEF Ends
<1>2. /\ DOMAIN written' = Clerk /\ DOMAIN toRecompute' = Clerk
      /\ DOMAIN recomputing' = Clerk /\ DOMAIN updates' = Clerk
      /\ written'[c] = Nothing /\ toRecompute'[c] = {} /\ recomputing'[c] = {} /\ updates'[c] = {}
      /\ \A d \in Clerk \ {c} :
            /\ written'[d] = written[d] /\ toRecompute'[d] = toRecompute[d]
            /\ recomputing'[d] = recomputing[d] /\ updates'[d] = updates[d]
  BY <1>1 DEF ClerksAreApart
<1>3. DOMAIN written'[c] = {}
  BY <1>2, CellProperties
<1>4. ASSUME NEW d \in Clerk
      PROVE  /\ DOMAIN written'[d] \subseteq Cell
             /\ written'[d] = Nothing
                => toRecompute'[d] = {} /\ recomputing'[d] = {} /\ updates'[d] = {}
             /\ \A u \in updates'[d] : u[1] \in Cell /\ u[1][1] \in {"age", "total"}
  BY <1>2, <1>3 DEF ClerksAreApart
<1>5. ASSUME NEW d \in Clerk, NEW e \in Clerk \ {d}
      PROVE  /\ written'[d] # Nothing /\ written'[e] # Nothing => d \in crossing'
             /\ \A k \in DOMAIN written'[d], l \in DOMAIN written'[e] : k[2] # l[2]
  BY <1>1, <1>2, <1>3 DEF ClerksAreApart
<1>6. ClerksAreApart'
  BY <1>2, <1>4, <1>5 DEF ClerksAreApart
<1> QED
  BY <1>1, <1>2, <1>6

LEMMA RollbackStep ==
  ASSUME ComputedInv, NEW c \in Clerk, RollbackComputed(c)
  PROVE  ComputedInv'
<1>1. ClerksAreApart /\ CellWell /\ \A d \in Clerk : Well(d)
  BY DEF ComputedInv
<1>2. Ends(c) /\ UNCHANGED <<cell, raced>>
  BY DEF RollbackComputed
<1>3. CellWell'
  BY <1>1, <1>2 DEF CellWell
<1>4. \A d \in Clerk \ {c} : Well(d)'
  BY <1>1, <1>2, EndsProperties, OtherIsWell
<1>5. Well(c)'
  BY <1>1, <1>2, <1>3, EndsProperties, IdleAreWellThen DEF IdleAreWell
<1> QED
  BY <1>1, <1>2, <1>3, <1>4, <1>5, EndsProperties DEF ComputedInv

Untouched(c, e) == \A k \in DOMAIN written[c] : k[2] # e

LEMMA UntouchedRow ==
  ASSUME NEW c \in Clerk, NEW p \in Employee, Untouched(c, p)
  PROVE  SameRow(View(c), cell, p)
<1>1. <<"birth", p>>[2] = p /\ <<"age", p>>[2] = p /\ <<"works_for", p>>[2] = p
  OBVIOUS
<1> QED
  BY <1>1, CellProperties DEF Untouched, SameRow

\* The row of a person, after the commit of another transaction, is that of one of the two.
LEMMA CommittedRow ==
  ASSUME ClerksAreApart, NEW c \in Clerk, NEW d \in Clerk \ {c},
         cell' = View(c), written'[d] = written[d], NEW p \in Employee
  PROVE  \/ Untouched(c, p) /\ SameRow(View(d)', View(d), p)
         \/ Untouched(d, p) /\ SameRow(View(d)', View(c), p)
<1>1. \A k \in Cell : View(d)'[k] = IF k \in DOMAIN written[d] THEN written[d][k] ELSE View(c)[k]
  BY DEF View
<1>2. /\ <<"birth", p>>[2] = p /\ <<"age", p>>[2] = p /\ <<"works_for", p>>[2] = p
      /\ <<"birth", p>> \in Cell /\ <<"age", p>> \in Cell /\ <<"works_for", p>> \in Cell
  BY CellProperties
<1>3. CASE Untouched(d, p)
  BY <1>1, <1>2, <1>3 DEF SameRow, Untouched
<1>4. CASE ~Untouched(d, p)
  <2>1. Untouched(c, p)
    BY <1>4 DEF Untouched, ClerksAreApart
  <2>2. \A k \in Cell : k[2] = p => View(d)'[k] = View(d)[k]
    BY <1>1, <2>1, CellProperties DEF Untouched
  <2>3. SameRow(View(d)', View(d), p)
    BY <1>2, <2>2 DEF SameRow
  <2> QED
    BY <2>1, <2>3
<1> QED
  BY <1>3, <1>4

LEMMA CommitStep ==
  ASSUME ComputedInv, NEW c \in Clerk, CommitComputed(c)
  PROVE  ComputedInv'
<1>1. ClerksAreApart /\ CellWell /\ (\A d \in Clerk : Well(d)) /\ Well(c)
  BY DEF ComputedInv
<1>2. /\ written[c] # Nothing /\ toRecompute[c] = {} /\ recomputing[c] = {} /\ updates[c] = {}
      /\ cell' = View(c) /\ Ends(c)
      /\ raced' = IF c \in crossing THEN raced \cup DOMAIN written[c] ELSE raced \ DOMAIN written[c]
  BY DEF CommitComputed
<1>3. \A k : ~Pending(c, k)
  BY <1>2 DEF Pending
<1>4. \A k : Excused(c, k) => k \in raced'
  BY <1>2, <1>3 DEF Excused
<1>5. ClerksAreApart' /\ written'[c] = Nothing
  BY <1>1, <1>2, EndsProperties
<1>6. CellWell'
  <2>1. \A p \in Known(View(c)) :
           <<"age", p>> \in raced' \/ View(c)[<<"age", p>>] = View(c)[<<"birth", p>>]
    BY <1>1, <1>4 DEF Well, AgesWell
  <2>2. \A f \in Company : \/ <<"total", f>> \in raced'
                           \/ Staff(View(c), f) = {}
                           \/ View(c)[<<"total", f>>] = Total(View(c), f)
    BY <1>1, <1>4 DEF Well, TotalsWell
  <2>3. /\ Known(cell)' = Known(View(c))
        /\ \A f : Staff(cell, f)' = Staff(View(c), f)
        /\ \A f : Total(cell, f)' = Total(View(c), f)
    BY <1>2 DEF Known, Staff, Total
  <2> QED
    BY <1>2, <2>1, <2>2, <2>3 DEF CellWell
<1>7. \A d \in Clerk : written'[d] = Nothing => Well(d)'
  BY <1>5, <1>6, IdleAreWellThen DEF IdleAreWell
<1>8. ASSUME NEW d \in Clerk \ {c}, written'[d] # Nothing PROVE Well(d)'
  <2>1. /\ written'[d] = written[d] /\ toRecompute'[d] = toRecompute[d]
        /\ recomputing'[d] = recomputing[d] /\ updates'[d] = updates[d]
        /\ d \in crossing => d \in crossing'
    BY <1>1, <1>2, EndsProperties
  <2>2. c \in crossing /\ d \in crossing
    BY <1>1, <1>2, <1>8, <2>1 DEF ClerksAreApart
  <2>3. d \in crossing' /\ raced' = raced \cup DOMAIN written[c]
    BY <1>2, <2>1, <2>2
  <2>4. \A k : Pending(d, k)' <=> Pending(d, k)
    BY <2>1 DEF Pending
  <2>5. \A k : k \in raced' \/ Excused(d, k) \/ k \in DOMAIN written[d] => Excused(d, k)'
    BY <2>1, <2>2, <2>3, <2>4 DEF Excused
  <2>6. Well(d)
    BY <1>1
  <2>7. ASSUME NEW p \in Employee
        PROVE  \/ Untouched(c, p) /\ SameRow(View(d)', View(d), p)
               \/ Untouched(d, p) /\ SameRow(View(d)', View(c), p)
    BY <1>1, <1>2, <2>1, CommittedRow
  <2>8. AgesWell(d)'
    <3> SUFFICES ASSUME NEW p \in Known(View(d)')
                 PROVE  Excused(d, <<"age", p>>)' \/ View(d)'[<<"age", p>>] = View(d)'[<<"birth", p>>]
      BY DEF AgesWell, Known
    <3>1. p \in Employee
      BY OnStaff
    <3>2. CASE SameRow(View(d)', View(d), p)
      <4>1. p \in Known(View(d)) /\ View(d)'[<<"age", p>>] = View(d)[<<"age", p>>]
            /\ View(d)'[<<"birth", p>>] = View(d)[<<"birth", p>>]
        BY <3>2, SameRowSameStaff
      <4> QED
        BY <2>5, <2>6, <4>1 DEF Well, AgesWell
    <3>3. CASE SameRow(View(d)', View(c), p)
      <4>1. p \in Known(View(c)) /\ View(d)'[<<"age", p>>] = View(c)[<<"age", p>>]
            /\ View(d)'[<<"birth", p>>] = View(c)[<<"birth", p>>]
        BY <3>3, SameRowSameStaff
      <4> QED
        BY <1>1, <1>4, <2>5, <4>1 DEF Well, AgesWell
    <3> QED
      BY <2>7, <3>1, <3>2, <3>3
  <2>9. ASSUME NEW p \in Employee, NEW f, Untouched(c, p)
        PROVE  p \in Staff(View(c), f) <=> p \in Staff(cell, f)
    BY <2>9, UntouchedRow, SameRowSameStaff
  <2>10. ASSUME NEW p \in Employee, NEW f, Untouched(d, p)
        PROVE  p \in Staff(View(d), f) <=> p \in Staff(cell, f)
    BY <2>10, UntouchedRow, SameRowSameStaff
  <2>11. StaffTold(d)'
    <3> SUFFICES ASSUME NEW f \in Company, NEW p \in Staff(View(d)', f)
                 PROVE  \/ p \in Staff(View(c), f)
                        \/ Pending(d, <<"total", f>>) \/ <<"total", f>> \in DOMAIN written[d]
      <4>1. \A f : Staff(cell, f)' = Staff(View(c), f)
        BY <1>2 DEF Staff, Known
      <4> QED
        BY <2>1, <2>4, <4>1 DEF StaffTold, Staff, Known
    <3>1. p \in Employee
      BY OnStaff
    <3>2. CASE Untouched(c, p) /\ SameRow(View(d)', View(d), p)
      <4>1. p \in Staff(View(d), f)
        BY <3>2, SameRowSameStaff
      <4> QED
        BY <2>6, <2>9, <3>1, <3>2, <4>1 DEF Well, StaffTold
    <3>3. CASE SameRow(View(d)', View(c), p)
      BY <3>3, SameRowSameStaff
    <3> QED
      BY <2>7, <3>1, <3>2, <3>3
  <2>12. TotalsWell(d)'
    <3> SUFFICES ASSUME NEW f \in Company, ~Excused(d, <<"total", f>>)'
                 PROVE  Staff(View(d)', f) = {} \/ View(d)'[<<"total", f>>] = Total(View(d)', f)
      BY DEF TotalsWell, Staff, Known, Total
    <3>1. /\ <<"total", f>> \notin raced' /\ ~Excused(d, <<"total", f>>)
          /\ <<"total", f>> \notin DOMAIN written[d] /\ <<"total", f>> \notin DOMAIN written[c]
          /\ ~Pending(d, <<"total", f>>) /\ ~Excused(c, <<"total", f>>)
      BY <1>4, <2>3, <2>4, <2>5 DEF Excused
    <3>2. /\ View(c)[<<"total", f>>] = cell[<<"total", f>>]
          /\ View(d)[<<"total", f>>] = cell[<<"total", f>>]
          /\ View(d)'[<<"total", f>>] = cell[<<"total", f>>]
      <4>1. View(c)[<<"total", f>>] = cell[<<"total", f>>]
            /\ View(d)[<<"total", f>>] = cell[<<"total", f>>]
        BY <3>1, CellProperties
      <4>2. View(d)'[<<"total", f>>] = cell'[<<"total", f>>]
        BY <2>1, <3>1, CellProperties DEF View
      <4> QED
        BY <1>2, <4>1, <4>2
    <3>3. /\ Staff(View(c), f) = {} \/ cell[<<"total", f>>] = Total(View(c), f)
          /\ Staff(View(d), f) = {} \/ cell[<<"total", f>>] = Total(View(d), f)
      BY <1>1, <2>6, <3>1, <3>2 DEF Well, TotalsWell
    <3>4. CASE Staff(View(d), f) = {}
      <4> SUFFICES ASSUME NEW p \in Staff(View(d)', f) PROVE FALSE
        OBVIOUS
      <4>1. p \in Employee
        BY OnStaff
      <4>2. Untouched(d, p) /\ SameRow(View(d)', View(c), p)
        BY <2>7, <3>4, <4>1, SameRowSameStaff
      <4>3. p \in Staff(View(c), f)
        BY <4>2, SameRowSameStaff
      <4>4. p \in Staff(cell, f)
        BY <1>1, <1>3, <3>1, <4>3 DEF Well, StaffTold
      <4> QED
        BY <2>10, <3>4, <4>1, <4>2, <4>4
    <3>5. CASE Staff(View(c), f) = {}
      <4> SUFFICES ASSUME NEW p \in Staff(View(d)', f) PROVE FALSE
        OBVIOUS
      <4>1. p \in Employee
        BY OnStaff
      <4>2. Untouched(c, p) /\ SameRow(View(d)', View(d), p)
        BY <2>7, <3>5, <4>1, SameRowSameStaff
      <4>3. p \in Staff(View(d), f)
        BY <4>2, SameRowSameStaff
      <4>4. p \in Staff(cell, f)
        BY <2>6, <3>1, <4>3 DEF Well, StaffTold
      <4> QED
        BY <2>9, <3>5, <4>1, <4>2, <4>4
    <3>6. CASE cell[<<"total", f>>] = Total(View(c), f) /\ cell[<<"total", f>>] = Total(View(d), f)
      <4>1. Total(View(c), f) = Total(View(d), f)
        BY <3>6
      <4>2. \A p : /\ p \in Staff(View(c), f) <=> p \in Staff(View(d), f)
                   /\ p \in Staff(View(c), f) => View(c)[<<"age", p>>] = View(d)[<<"age", p>>]
        BY <4>1, SameTotal
      <4>3. \A p \in Employee :
               /\ p \in Staff(View(d)', f) <=> p \in Staff(View(c), f)
               /\ p \in Staff(View(c), f) => View(d)'[<<"age", p>>] = View(c)[<<"age", p>>]
        <5> SUFFICES ASSUME NEW p \in Employee
                     PROVE  /\ p \in Staff(View(d)', f) <=> p \in Staff(View(c), f)
                            /\ p \in Staff(View(c), f)
                                  => View(d)'[<<"age", p>>] = View(c)[<<"age", p>>]
          OBVIOUS
        <5>1. SameRow(View(d)', View(d), p) \/ SameRow(View(d)', View(c), p)
          BY <2>7
        <5>2. CASE SameRow(View(d)', View(c), p)
          BY <5>2, SameRowSameStaff
        <5>3. CASE SameRow(View(d)', View(d), p)
          <6>1. /\ p \in Staff(View(d)', f) <=> p \in Staff(View(d), f)
                /\ View(d)'[<<"age", p>>] = View(d)[<<"age", p>>]
            BY <5>3, SameRowSameStaff
          <6> QED
            BY <4>2, <6>1
        <5> QED
          BY <5>1, <5>2, <5>3
      <4>4. \A p \in Staff(View(d)', f) : View(d)'[<<"age", p>>] = View(c)[<<"age", p>>]
        BY <4>3, OnStaff
      <4>5. Total(View(d)', f) = Total(View(c), f)
        BY <4>3, <4>4, SameStaff
      <4> QED
        BY <3>2, <3>6, <4>5
    <3> QED
      BY <3>3, <3>4, <3>5, <3>6
  <2>13. UpdatesWell(d)'
    BY <2>3 DEF UpdatesWell
  <2> QED
    BY <2>8, <2>11, <2>12, <2>13 DEF Well
<1>9. \A d \in Clerk : Well(d)'
  BY <1>5, <1>7, <1>8
<1> QED
  BY <1>5, <1>6, <1>9 DEF ComputedInv

\* Nobody, or people whose ages and totals are computed.
LEMMA ComputedInitInv == ComputedInit => ComputedInv
<1> SUFFICES ASSUME ComputedInit PROVE ComputedInv
  OBVIOUS
<1> DEFINE b == CHOOSE x \in Birth : TRUE
           row(firm, k) ==
             CASE k[1] = "works_for" -> firm[k[2]]
               [] k[1] \in {"birth", "age"} -> IF firm[k[2]] = Null THEN Null ELSE b
               [] k[1] = "total" -> {<<p, b>> : p \in {p \in Employee : firm[p] = k[2]}}
<1>1. /\ written = [c \in Clerk |-> Nothing] /\ toRecompute = [c \in Clerk |-> {}]
      /\ recomputing = [c \in Clerk |-> {}] /\ updates = [c \in Clerk |-> {}]
  BY DEF ComputedInit
<1>2. PICK firm \in [Employee -> Company \cup {Null}] : cell = [k \in Cell |-> row(firm, k)]
  BY DEF ComputedInit
<1>3. \A k \in Cell : cell[k] = row(firm, k)
  BY <1>2
<1>4. /\ \A e : row(firm, <<"works_for", e>>) = firm[e]
      /\ \A e : row(firm, <<"birth", e>>) = IF firm[e] = Null THEN Null ELSE b
      /\ \A e : row(firm, <<"age", e>>) = IF firm[e] = Null THEN Null ELSE b
      /\ \A e : row(firm, <<"total", e>>) = {<<p, b>> : p \in {p \in Employee : firm[p] = e}}
  OBVIOUS
<1> HIDE DEF row, b
<1>5. ASSUME NEW p \in Employee
      PROVE  /\ cell[<<"works_for", p>>] = firm[p]
             /\ cell[<<"birth", p>>] = IF firm[p] = Null THEN Null ELSE b
             /\ cell[<<"age", p>>] = IF firm[p] = Null THEN Null ELSE b
  BY <1>3, <1>4, CellProperties
<1>6. ClerksAreApart
  BY <1>1, CellProperties DEF ClerksAreApart
<1>7. CellWell
  <2>1. ASSUME NEW f \in Company, Staff(cell, f) # {} PROVE cell[<<"total", f>>] = Total(cell, f)
    <3>1. \A p \in Employee : p \in Staff(cell, f) => firm[p] = f /\ cell[<<"age", p>>] = b /\ b # Null
      BY <1>5 DEF Staff, Known
    <3>2. b # Null
      BY <2>1, <3>1, OnStaff
    <3>3. f # Null
      BY ComputedAssumption
    <3>4. Staff(cell, f) = {p \in Employee : firm[p] = f}
      <4>1. Staff(cell, f) \subseteq Employee
        BY OnStaff
      <4>2. ASSUME NEW p \in Employee PROVE p \in Staff(cell, f) <=> firm[p] = f
        <5>1. p \in Staff(cell, f)
                 <=> cell[<<"birth", p>>] # Null /\ cell[<<"works_for", p>>] = f
          BY DEF Staff, Known
        <5> QED
          BY <1>5, <3>2, <3>3, <5>1
      <4> QED
        BY <4>1, <4>2
    <3>5. cell[<<"total", f>>] = {<<p, b>> : p \in Staff(cell, f)}
      BY <1>3, <1>4, <3>4, CellProperties
    <3>6. \A p \in Staff(cell, f) : cell[<<"age", p>>] = b
      BY <3>1, OnStaff
    <3> QED
      BY <3>5, <3>6 DEF Total
  <2>2. \A p \in Known(cell) : cell[<<"age", p>>] = cell[<<"birth", p>>]
    BY <1>5, OnStaff
  <2> QED
    BY <2>1, <2>2 DEF CellWell
<1> QED
  BY <1>1, <1>6, <1>7, IdleIsWell DEF ComputedInv

\* synccomputed.py:33-72: whatever a transaction has changed, each column of a formula is
\* right in what it sees, or one of its operations is going to compute it, and what is
\* committed keeps right when transactions commit in any order.
THEOREM ComputedInvariant == ComputedSpec => []ComputedInv
<1>1. ASSUME ComputedInv, UNCHANGED computedVars PROVE ComputedInv'
  <2>1. /\ UNCHANGED <<cell, written, toRecompute, recomputing, updates, crossing, raced>>
        /\ ClerksAreApart /\ CellWell /\ \A d \in Clerk : Well(d)
    BY <1>1 DEF computedVars, ofClerk, ComputedInv
  <2>2. ClerksAreApart' /\ CellWell'
    BY <2>1 DEF ClerksAreApart, CellWell
  <2>3. \A d \in Clerk : Well(d)'
    BY <2>1, OtherIsWell
  <2> QED
    BY <2>2, <2>3 DEF ComputedInv
<1>2. ComputedInv /\ [ComputedNext]_computedVars => ComputedInv'
  BY <1>1, HireStep, SetBirthStep, MoveStep, DismissStep, TakeDataStep, SelectStep, UpdateStep,
     CommitStep, RollbackStep DEF ComputedNext
<1> QED
  BY <1>2, ComputedInitInv, PTL DEF ComputedSpec

\* synccomputed.py:31-34: a committed age is that of its birth year and a committed total
\* that of the committed ages, but for the columns that FormulasHold names.
THEOREM FormulasHoldHolds == ComputedSpec => []FormulasHold
<1>1. ComputedInv => FormulasHold
  BY FormulasAreCellWell DEF ComputedInv
<1> QED
  BY <1>1, ComputedInvariant, PTL

--------------------------------------------------------------------------------
(* FullTextIndex.                                                          *)

WordsFor(S, k) == {w.words : w \in {w \in S : w.of = k}}
IndexOf(a) == (index \ dropped[a]) \cup fresh[a]
Rewritten(a) == {w.of : w \in fresh[a]}

(* The columns a transaction writes are locked.                            *)
TextTypes ==
    /\ DOMAIN text = Doc /\ inside \in [Part -> Container \cup {Nowhere}]
    /\ DOMAIN draft = Author /\ DOMAIN moved = Author /\ DOMAIN toIndex = Author
    /\ DOMAIN indexed = Author /\ DOMAIN target = Author /\ DOMAIN fresh = Author
    /\ DOMAIN dropped = Author /\ DOMAIN late = Author /\ DOMAIN crossed = Author
    /\ \A a \in Author :
          /\ DOMAIN draft[a] \subseteq Doc /\ DOMAIN moved[a] \subseteq Part
          /\ \A p \in DOMAIN moved[a] : moved[a][p] \in Container
          /\ toIndex[a] \subseteq Container \cup DOMAIN draft[a]
          /\ \A w \in target[a].rows : w.of \in target[a].docs
    /\ \A a \in Author : \A b \in Author \ {a} :
          (DOMAIN draft[a] \cup DOMAIN moved[a]) \cap (DOMAIN draft[b] \cup DOMAIN moved[b]) = {}

(* A transaction is going to index k again, or has not changed its words.  *)
WillIndex(a, k) == \E d \in toIndex[a] \ indexed[a] : k \in FtiContainers(d, InsideOf(a))
LeavesAlone(a, k) ==
    /\ \A d \in DOMAIN draft[a] : k \notin FtiContainers(d, InsideOf(a))
    /\ \A p \in DOMAIN moved[a] : moved[a][p] # k /\ inside[p] # k

(* What it has indexed is right, or about to be, unless it is excused.     *)
IndexWell(a) ==
    /\ \A w \in dropped[a] : w.of \in Rewritten(a) \cup late[a]
    /\ \A k \in target[a].docs \ crossed[a] :
          \A w \in IndexOf(a) : w.of = k => w \in target[a].rows
    /\ \A k \in Container \ Busy(a) : WillIndex(a, k) \/ LeavesAlone(a, k)
    /\ \A k \in (Container \cap Rewritten(a)) \ (target[a].docs \cup late[a] \cup crossed[a]) :
          WillIndex(a, k) \/ WordsFor(IndexOf(a), k) = {Words(k, TextOf(a), InsideOf(a))}

FtiInv ==
    /\ TextTypes
    /\ \A k \in Container \ unfound : WordsFor(index, k) = {Words(k, text, inside)}
    /\ \A a \in Author : IndexWell(a)

LEMMA FtiContainersAre ==
  /\ \A d, ins : d \in Container => FtiContainers(d, ins) = {d}
  /\ \A d, k, ins : d \notin Container => (k \in FtiContainers(d, ins) <=> k = ins[d] /\ k # Nowhere)
  BY DEF FtiContainers

LEMMA TextOfAre ==
  ASSUME NEW a \in Author
  PROVE  /\ \A d \in Doc : TextOf(a)[d] = IF d \in DOMAIN draft[a] THEN draft[a][d] ELSE text[d]
         /\ \A p \in Part : InsideOf(a)[p] = IF p \in DOMAIN moved[a] THEN moved[a][p] ELSE inside[p]
  BY DEF TextOf, InsideOf

\* Words depend on the texts of a container and of its parts.
LEMMA SameWords ==
  ASSUME NEW k \in Container, NEW txt1, NEW ins1, NEW txt2, NEW ins2,
         \A p \in Part : ins1[p] = k <=> ins2[p] = k,
         \A d \in Doc : d = k \/ (d \in Part /\ ins1[d] = k) => txt1[d] = txt2[d]
  PROVE  Words(k, txt1, ins1) = Words(k, txt2, ins2)
<1> DEFINE D == {k} \cup {p \in Part : ins1[p] = k}
<1>1. {k} \cup {p \in Part : ins2[p] = k} = D
  OBVIOUS
<1>2. \A d \in D : d \in Doc /\ txt1[d] = txt2[d]
  BY DEF Doc
<1>3. [d \in D |-> txt1[d]] = [d \in D |-> txt2[d]]
  BY <1>2
<1> QED
  BY <1>1, <1>3 DEF Words

\* The words of k in the rows S are W and nothing else.
Indexed(S, k, W) == (\A w \in S : w.of = k => w.words = W) /\ \E w \in S : w.of = k

LEMMA WordsForIs ==
  ASSUME NEW S, NEW k, NEW W
  PROVE  WordsFor(S, k) = {W} <=> Indexed(S, k, W)
<1>1. \A x : x \in WordsFor(S, k) <=> \E w \in S : w.of = k /\ x = w.words
  BY DEF WordsFor
<1> QED
  BY <1>1 DEF Indexed

\* What another transaction does before it ends.
LEMMA SameIndexWell ==
  ASSUME NEW b \in Author, IndexWell(b), UNCHANGED <<text, inside, index>>,
         draft'[b] = draft[b], moved'[b] = moved[b], toIndex'[b] = toIndex[b],
         indexed'[b] = indexed[b], target'[b] = target[b], fresh'[b] = fresh[b],
         dropped'[b] = dropped[b], late'[b] = late[b], crossed'[b] = crossed[b]
  PROVE  IndexWell(b)'
<1>1. /\ TextOf(b)' = TextOf(b) /\ InsideOf(b)' = InsideOf(b)
      /\ IndexOf(b)' = IndexOf(b) /\ Rewritten(b)' = Rewritten(b) /\ Busy(b)' = Busy(b)
  BY DEF TextOf, InsideOf, IndexOf, Rewritten, Busy
<1>2. \A k : (WillIndex(b, k)' <=> WillIndex(b, k)) /\ (LeavesAlone(b, k)' <=> LeavesAlone(b, k))
  BY <1>1 DEF WillIndex, LeavesAlone, FtiContainers
<1>3. \A k : /\ WordsFor(IndexOf(b), k)' = WordsFor(IndexOf(b), k)
             /\ Words(k, TextOf(b), InsideOf(b))' = Words(k, TextOf(b), InsideOf(b))
  BY <1>1 DEF WordsFor, Words
<1> QED
  BY <1>1, <1>2, <1>3 DEF IndexWell

Asked(docs, ins) == UNION {FtiContainers(d, ins) : d \in docs}

\* A change that has the entities that it concerns indexed.
LEMMA AsksStep ==
  ASSUME FtiInv, NEW a \in Author, NEW docs, NEW ins, Asks(a, docs, ins), target[a] = NoTarget,
         TextTypes', InsideOf(a)' = ins,
         \A b \in Author \ {a} : draft'[b] = draft[b] /\ moved'[b] = moved[b],
         \A k \in Container \ Asked(docs, ins) :
            /\ LeavesAlone(a, k) => LeavesAlone(a, k)'
            /\ WillIndex(a, k) => WillIndex(a, k)'
            /\ Words(k, TextOf(a), InsideOf(a))' = Words(k, TextOf(a), InsideOf(a))
  PROVE  FtiInv'
<1> DEFINE again == UNION {FtiContainers(d, ins) : d \in docs \cap indexed[a]}
<1>1. TextTypes /\ \A b \in Author : IndexWell(b)
  BY DEF FtiInv
<1>2. /\ toIndex' = [toIndex EXCEPT ![a] = toIndex[a] \cup docs]
      /\ late' = [late EXCEPT ![a] = late[a] \cup again]
      /\ UNCHANGED <<text, inside, indexed, target, index, fresh, dropped, crossed, unfound>>
  BY DEF Asks
<1>3. \A k \in Asked(docs, ins) :
         k \in again \/ \E d \in docs \ indexed[a] : k \in FtiContainers(d, ins)
  BY DEF Asked
<1> HIDE DEF again
<1>4. /\ toIndex'[a] = toIndex[a] \cup docs /\ late'[a] = late[a] \cup again
      /\ \A b \in Author \ {a} : toIndex'[b] = toIndex[b] /\ late'[b] = late[b]
  BY <1>1, <1>2 DEF TextTypes
<1>5. \A b \in Author \ {a} : IndexWell(b)'
  BY <1>1, <1>2, <1>4, SameIndexWell
<1>6. \A k \in Container \ unfound : WordsFor(index, k)' = {Words(k, text, inside)}'
  BY <1>2 DEF FtiInv
<1>7. /\ IndexOf(a)' = IndexOf(a) /\ Rewritten(a)' = Rewritten(a)
      /\ Busy(a)' = Busy(a) \cup again
  BY <1>2, <1>4 DEF IndexOf, Rewritten, Busy
<1>8. \A k \in Asked(docs, ins) : k \in late'[a] \/ WillIndex(a, k)'
  BY <1>2, <1>3, <1>4 DEF WillIndex, FtiContainers
<1>9. \A w \in dropped'[a] : w.of \in Rewritten(a)' \cup late'[a]
  BY <1>1, <1>2, <1>4, <1>7 DEF IndexWell
<1>10. target'[a].docs = {}
  BY <1>2 DEF NoTarget
<1>11. ASSUME NEW k \in Container, k \notin Busy(a)' PROVE WillIndex(a, k)' \/ LeavesAlone(a, k)'
  <2>1. k \notin Busy(a) /\ k \notin again /\ k \notin late'[a]
    BY <1>4, <1>7, <1>11 DEF Busy
  <2> QED
    BY <1>1, <1>8, <2>1 DEF IndexWell
<1>12. ASSUME NEW k \in Container \cap Rewritten(a), k \notin late'[a], k \notin crossed[a],
              ~WillIndex(a, k)'
       PROVE  WordsFor(IndexOf(a), k)' = {Words(k, TextOf(a), InsideOf(a))}'
  <2>1. k \notin late[a] /\ k \notin Asked(docs, ins) /\ k \notin target[a].docs
    BY <1>2, <1>4, <1>8, <1>10, <1>12
  <2>2. ~WillIndex(a, k)
    BY <1>12, <2>1
  <2>3. WordsFor(IndexOf(a), k) = {Words(k, TextOf(a), InsideOf(a))}
    BY <1>1, <1>12, <2>1, <2>2 DEF IndexWell
  <2> QED
    BY <1>7, <2>1, <2>3 DEF WordsFor
<1>13. IndexWell(a)'
  BY <1>2, <1>7, <1>9, <1>10, <1>11, <1>12 DEF IndexWell
<1> QED
  BY <1>2, <1>5, <1>6, <1>13 DEF FtiInv

LEMMA ChangeTextStep ==
  ASSUME FtiInv, NEW a \in Author, NEW d \in Doc, ChangeText(a, d)
  PROVE  FtiInv'
<1> DEFINE after == With(draft[a], d, TextOf(a)[d] + 1)
<1>1. TextTypes
  BY DEF FtiInv
<1>2. /\ d \notin Locks(a) /\ target[a] = NoTarget /\ Asks(a, {d}, InsideOf(a))
      /\ draft' = [draft EXCEPT ![a] = after] /\ moved' = moved
  BY DEF ChangeText, Writable
<1>3. /\ DOMAIN after = DOMAIN draft[a] \cup {d}
      /\ \A x \in DOMAIN draft[a] : x # d => after[x] = draft[a][x]
  BY DEF With
<1> HIDE DEF after
<1>4. draft'[a] = after /\ DOMAIN draft' = Author /\ \A b \in Author \ {a} : draft'[b] = draft[b]
  BY <1>1, <1>2 DEF TextTypes
<1>5. /\ toIndex' = [toIndex EXCEPT ![a] = toIndex[a] \cup {d}]
      /\ DOMAIN late' = Author
      /\ UNCHANGED <<text, inside, indexed, target, index, fresh, dropped, crossed>>
  BY <1>1, <1>2 DEF Asks, TextTypes
<1>6. /\ toIndex'[a] = toIndex[a] \cup {d} /\ DOMAIN toIndex' = Author
      /\ \A b \in Author \ {a} : toIndex'[b] = toIndex[b]
  BY <1>1, <1>5 DEF TextTypes
<1>7. InsideOf(a)' = InsideOf(a)
  BY <1>2, <1>5 DEF InsideOf
<1>8. TextTypes'
  <2>1. \A b \in Author \ {a} : d \notin DOMAIN draft[b] \cup DOMAIN moved[b]
    BY <1>2 DEF Locks
  <2>2. \A b \in Author, c \in Author : b # c =>
           (DOMAIN draft'[b] \cup DOMAIN moved'[b]) \cap (DOMAIN draft'[c] \cup DOMAIN moved'[c]) = {}
    BY <1>1, <1>2, <1>3, <1>4, <2>1 DEF TextTypes
  <2>3. \A b \in Author : toIndex'[b] \subseteq Container \cup DOMAIN draft'[b]
    BY <1>1, <1>3, <1>4, <1>6 DEF TextTypes
  <2>4. \A b \in Author : DOMAIN draft'[b] \subseteq Doc
    BY <1>1, <1>3, <1>4 DEF TextTypes
  <2> QED
    BY <1>1, <1>2, <1>4, <1>5, <1>6, <2>2, <2>3, <2>4 DEF TextTypes, Doc
<1>9. ASSUME NEW k \in Container, k \notin Asked({d}, InsideOf(a))
      PROVE  /\ LeavesAlone(a, k) => LeavesAlone(a, k)'
             /\ WillIndex(a, k) => WillIndex(a, k)'
             /\ Words(k, TextOf(a), InsideOf(a))' = Words(k, TextOf(a), InsideOf(a))
  <2>1. k \notin FtiContainers(d, InsideOf(a))
    BY <1>9 DEF Asked
  <2>2. d # k /\ (d \in Part => InsideOf(a)[d] # k)
    BY <2>1, FtiContainersAre, TextAssumption
  <2>3. LeavesAlone(a, k) => LeavesAlone(a, k)'
    BY <1>2, <1>3, <1>4, <1>5, <1>7, <2>1 DEF LeavesAlone, FtiContainers
  <2>4. WillIndex(a, k) => WillIndex(a, k)'
    BY <1>5, <1>6, <1>7 DEF WillIndex, FtiContainers
  <2>5. \A x \in Doc : x # d => TextOf(a)'[x] = TextOf(a)[x]
    BY <1>3, <1>4, <1>5 DEF TextOf
  <2>6. Words(k, TextOf(a)', InsideOf(a)) = Words(k, TextOf(a), InsideOf(a))
    BY <2>2, <2>5, SameWords
  <2> QED
    BY <1>7, <2>3, <2>4, <2>6 DEF Words
<1> QED
  BY <1>2, <1>4, <1>7, <1>8, <1>9, AsksStep

LEMMA MovePartStep ==
  ASSUME FtiInv, NEW a \in Author, NEW p \in Part, NEW k \in Container, MovePart(a, p, k)
  PROVE  FtiInv'
<1> DEFINE after == With(moved[a], p, k)
           old == InsideOf(a)[p]
           docs == {k, old} \ {Nowhere}
           ins == [InsideOf(a) EXCEPT ![p] = k]
<1>1. TextTypes
  BY DEF FtiInv
<1>2. /\ p \notin Locks(a) /\ target[a] = NoTarget /\ Asks(a, docs, ins)
      /\ moved' = [moved EXCEPT ![a] = after] /\ draft' = draft
  BY DEF MovePart, Writable
<1>3. /\ DOMAIN after = DOMAIN moved[a] \cup {p} /\ after[p] = k
      /\ \A x \in DOMAIN moved[a] : x # p => after[x] = moved[a][x]
  BY DEF With
<1> HIDE DEF after
<1>4. moved'[a] = after /\ DOMAIN moved' = Author /\ \A b \in Author \ {a} : moved'[b] = moved[b]
  BY <1>1, <1>2 DEF TextTypes
<1>5. /\ toIndex' = [toIndex EXCEPT ![a] = toIndex[a] \cup docs]
      /\ DOMAIN late' = Author
      /\ UNCHANGED <<text, inside, indexed, target, index, fresh, dropped, crossed>>
  BY <1>1, <1>2 DEF Asks, TextTypes
<1>6. /\ toIndex'[a] = toIndex[a] \cup docs /\ DOMAIN toIndex' = Author
      /\ \A b \in Author \ {a} : toIndex'[b] = toIndex[b]
  BY <1>1, <1>5 DEF TextTypes
<1>7. old \in Container \cup {Nowhere} /\ old = IF p \in DOMAIN moved[a] THEN moved[a][p] ELSE inside[p]
  BY <1>1, TextOfAre DEF TextTypes
<1>8. docs \subseteq Container
  BY <1>7
<1>9. InsideOf(a)' = ins
  <2>1. DOMAIN InsideOf(a) = Part
    BY DEF InsideOf
  <2>2. InsideOf(a)' = [q \in Part |-> IF q \in DOMAIN after THEN after[q] ELSE inside[q]]
    BY <1>4, <1>5 DEF InsideOf
  <2>3. ins = [q \in Part |-> IF q = p THEN k ELSE InsideOf(a)[q]]
    BY <2>1
  <2>4. \A q \in Part : (IF q \in DOMAIN after THEN after[q] ELSE inside[q])
                        = IF q = p THEN k ELSE InsideOf(a)[q]
    BY <1>3, TextOfAre
  <2> QED
    BY <2>2, <2>3, <2>4
<1>10. \A q \in Part : ins[q] = IF q = p THEN k ELSE InsideOf(a)[q]
  BY DEF InsideOf
<1> HIDE DEF ins
<1>11. TextTypes'
  <2>1. \A b \in Author \ {a} : p \notin DOMAIN draft[b] \cup DOMAIN moved[b]
    BY <1>2 DEF Locks
  <2>2. \A b \in Author, c \in Author : b # c =>
           (DOMAIN draft'[b] \cup DOMAIN moved'[b]) \cap (DOMAIN draft'[c] \cup DOMAIN moved'[c]) = {}
    BY <1>1, <1>2, <1>3, <1>4, <2>1 DEF TextTypes
  <2>3. \A b \in Author : toIndex'[b] \subseteq Container \cup DOMAIN draft'[b]
    BY <1>1, <1>2, <1>6, <1>8 DEF TextTypes
  <2>4. \A b \in Author : /\ DOMAIN moved'[b] \subseteq Part
                          /\ \A q \in DOMAIN moved'[b] : moved'[b][q] \in Container
    BY <1>1, <1>3, <1>4 DEF TextTypes
  <2> QED
    BY <1>1, <1>2, <1>4, <1>5, <1>6, <2>2, <2>3, <2>4 DEF TextTypes
<1>12. ASSUME NEW l \in Container, l \notin Asked(docs, ins)
      PROVE  /\ LeavesAlone(a, l) => LeavesAlone(a, l)'
             /\ WillIndex(a, l) => WillIndex(a, l)'
             /\ Words(l, TextOf(a), InsideOf(a))' = Words(l, TextOf(a), InsideOf(a))
  <2>1. l # k /\ l # old
    <3>1. k \in docs /\ (old # Nowhere => old \in docs) /\ l # Nowhere
      BY TextAssumption
    <3>2. \A x \in docs : FtiContainers(x, ins) = {x}
      BY <1>8, FtiContainersAre
    <3> QED
      BY <1>12, <3>1, <3>2 DEF Asked
  <2>2. \A x : l \in FtiContainers(x, InsideOf(a)) /\ x \in Container \cup Part <=>
               l \in FtiContainers(x, ins) /\ x \in Container \cup Part
    BY <1>10, <2>1, FtiContainersAre
  <2>3. LeavesAlone(a, l) => LeavesAlone(a, l)'
    <3> SUFFICES ASSUME LeavesAlone(a, l)
                 PROVE  /\ \A d \in DOMAIN draft'[a] : l \notin FtiContainers(d, ins)
                        /\ \A q \in DOMAIN moved'[a] : moved'[a][q] # l /\ inside[q] # l
      BY <1>5, <1>9 DEF LeavesAlone, FtiContainers
    <3>1. \A d \in DOMAIN draft'[a] : l \notin FtiContainers(d, ins)
      BY <1>1, <1>2, <2>2 DEF LeavesAlone, TextTypes, Doc
    <3>2. inside[p] # l
      BY <1>7, <2>1 DEF LeavesAlone
    <3> QED
      BY <1>3, <1>4, <2>1, <3>1, <3>2 DEF LeavesAlone
  <2>4. WillIndex(a, l) => WillIndex(a, l)'
    <3> SUFFICES ASSUME NEW d \in toIndex[a] \ indexed[a], l \in FtiContainers(d, InsideOf(a))
                 PROVE  WillIndex(a, l)'
      BY DEF WillIndex
    <3>1. d \in Container \cup Part
      BY <1>1 DEF TextTypes, Doc
    <3>2. l \in FtiContainers(d, ins)
      BY <2>2, <3>1
    <3>3. d \in toIndex'[a] \ indexed'[a]
      BY <1>5, <1>6
    <3> QED
      BY <1>9, <3>2, <3>3 DEF WillIndex, FtiContainers
  <2>5. TextOf(a)' = TextOf(a)
    BY <1>2, <1>5 DEF TextOf
  <2>6. Words(l, TextOf(a), ins) = Words(l, TextOf(a), InsideOf(a))
    BY <1>10, <2>1, SameWords
  <2> QED
    BY <1>9, <2>3, <2>4, <2>5, <2>6 DEF Words
<1> HIDE DEF docs
<1> QED
  BY <1>2, <1>4, <1>9, <1>11, <1>12, AsksStep

LEMMA SaveStep ==
  ASSUME FtiInv, NEW a \in Author, Save(a)
  PROVE  FtiInv'
<1>1. TextTypes /\ \A b \in Author : IndexWell(b)
  BY DEF FtiInv
<1>2. UNCHANGED <<text, inside, index, unfound, draft, moved, toIndex, indexed, target, fresh,
                  dropped, late, crossed>>
  BY DEF Save
<1>3. TextTypes'
  BY <1>1, <1>2 DEF TextTypes
<1>4. \A b \in Author : IndexWell(b)'
  BY <1>1, <1>2, SameIndexWell
<1>5. \A k \in Container \ unfound : WordsFor(index, k)' = {Words(k, text, inside)}'
  BY <1>2 DEF FtiInv
<1> QED
  BY <1>2, <1>3, <1>4, <1>5 DEF FtiInv

LEMMA StartIndexingStep ==
  ASSUME FtiInv, NEW a \in Author, StartIndexing(a)
  PROVE  FtiInv'
<1> DEFINE docs == ToReindex(a)
           rows1 == {w \in IndexOf(a) : w.of \in docs}
<1>1. TextTypes /\ (\A b \in Author : IndexWell(b)) /\ IndexWell(a)
  BY DEF FtiInv
<1>2. /\ target[a] = NoTarget
      /\ target' = [target EXCEPT ![a] = [rows |-> rows1, docs |-> docs]]
      /\ indexed' = [indexed EXCEPT ![a] = indexed[a] \cup toIndex[a]]
      /\ toIndex' = [toIndex EXCEPT ![a] = {}]
      /\ UNCHANGED <<text, inside, index, unfound, draft, moved, fresh, dropped, late, crossed>>
  BY DEF StartIndexing, IndexOf
<1>3. \A k : k \in docs <=> WillIndex(a, k)
  BY DEF ToReindex, WillIndex
<1>4. \A w \in IndexOf(a) : w.of \in docs => w \in rows1
  OBVIOUS
<1>5. \A w \in rows1 : w.of \in docs
  OBVIOUS
<1> HIDE DEF docs, rows1
<1>6. /\ target'[a].rows = rows1 /\ target'[a].docs = docs /\ toIndex'[a] = {}
      /\ DOMAIN target' = Author /\ DOMAIN indexed' = Author /\ DOMAIN toIndex' = Author
      /\ \A b \in Author \ {a} : /\ target'[b] = target[b] /\ indexed'[b] = indexed[b]
                                 /\ toIndex'[b] = toIndex[b]
  BY <1>1, <1>2 DEF TextTypes
<1>7. TextTypes'
  <2>1. \A b \in Author : /\ toIndex'[b] \subseteq Container \cup DOMAIN draft'[b]
                          /\ \A w \in target'[b].rows : w.of \in target'[b].docs
    BY <1>1, <1>2, <1>5, <1>6 DEF TextTypes
  <2> QED
    BY <1>1, <1>2, <1>6, <2>1 DEF TextTypes
<1>8. \A b \in Author \ {a} : IndexWell(b)'
  BY <1>1, <1>2, <1>6, SameIndexWell
<1>9. \A k \in Container \ unfound : WordsFor(index, k)' = {Words(k, text, inside)}'
  BY <1>2 DEF FtiInv
<1>10. /\ IndexOf(a)' = IndexOf(a) /\ Rewritten(a)' = Rewritten(a)
       /\ TextOf(a)' = TextOf(a) /\ InsideOf(a)' = InsideOf(a)
       /\ Busy(a)' = Busy(a) \cup docs
  BY <1>2, <1>6 DEF IndexOf, Rewritten, TextOf, InsideOf, Busy, NoTarget
<1>11. ASSUME NEW k \in Container, k \notin Busy(a)' PROVE LeavesAlone(a, k)'
  <2>1. LeavesAlone(a, k)
    BY <1>1, <1>3, <1>10, <1>11 DEF IndexWell
  <2> QED
    BY <1>2, <1>10, <2>1 DEF LeavesAlone, FtiContainers
<1>12. ASSUME NEW k \in Container \cap Rewritten(a), k \notin docs, k \notin late[a],
              k \notin crossed[a]
       PROVE  WordsFor(IndexOf(a), k)' = {Words(k, TextOf(a), InsideOf(a))}'
  <2>1. WordsFor(IndexOf(a), k) = {Words(k, TextOf(a), InsideOf(a))}
    BY <1>1, <1>2, <1>3, <1>12 DEF IndexWell, NoTarget
  <2> QED
    BY <1>10, <2>1 DEF WordsFor, Words
<1>13. IndexWell(a)'
  BY <1>1, <1>2, <1>4, <1>6, <1>10, <1>11, <1>12 DEF IndexWell
<1> QED
  BY <1>2, <1>7, <1>8, <1>9, <1>13 DEF FtiInv

\* All the rows of what is indexed again are replaced, and what fails is excused.
LEMMA IndexStep ==
  ASSUME FtiInv, NEW a \in Author, NEW docs, docs \subseteq target[a].docs, Index(a, docs)
  PROVE  FtiInv'
<1> DEFINE T == target[a].rows
           new == {Row(a, k, TextOf(a), InsideOf(a)) : k \in docs}
<1>1. TextTypes /\ (\A b \in Author : IndexWell(b)) /\ IndexWell(a)
  BY DEF FtiInv
<1>2. /\ dropped' = [dropped EXCEPT ![a] = dropped[a] \cup (T \cap index)]
      /\ fresh' = [fresh EXCEPT ![a] = (fresh[a] \ T) \cup new]
      /\ late' = [late EXCEPT ![a] = (late[a] \ docs) \cup (target[a].docs \ docs)]
      /\ target' = [target EXCEPT ![a] = NoTarget]
      /\ UNCHANGED <<text, inside, index, unfound, draft, moved, toIndex, indexed, crossed>>
  BY DEF Index
<1>3. \A w : w \in new <=> \E k \in docs : w = Row(a, k, TextOf(a), InsideOf(a))
  OBVIOUS
<1>4. \A k : /\ Row(a, k, TextOf(a), InsideOf(a)).of = k
             /\ Row(a, k, TextOf(a), InsideOf(a)).words = Words(k, TextOf(a), InsideOf(a))
  BY DEF Row
<1> HIDE DEF new, T
<1>5. /\ dropped'[a] = dropped[a] \cup (T \cap index) /\ fresh'[a] = (fresh[a] \ T) \cup new
      /\ late'[a] = (late[a] \ docs) \cup (target[a].docs \ docs)
      /\ target'[a].rows = {} /\ target'[a].docs = {}
      /\ DOMAIN dropped' = Author /\ DOMAIN fresh' = Author
      /\ DOMAIN late' = Author /\ DOMAIN target' = Author
      /\ \A b \in Author \ {a} : /\ dropped'[b] = dropped[b] /\ fresh'[b] = fresh[b]
                                 /\ late'[b] = late[b] /\ target'[b] = target[b]
  BY <1>1, <1>2 DEF TextTypes, NoTarget
<1>6. TextTypes'
  <2>1. \A b \in Author : /\ toIndex'[b] \subseteq Container \cup DOMAIN draft'[b]
                          /\ \A w \in target'[b].rows : w.of \in target'[b].docs
    BY <1>1, <1>2, <1>5 DEF TextTypes
  <2> QED
    BY <1>1, <1>2, <1>5, <2>1 DEF TextTypes
<1>7. \A b \in Author \ {a} : IndexWell(b)'
  BY <1>1, <1>2, <1>5, SameIndexWell
<1>8. \A k \in Container \ unfound : WordsFor(index, k)' = {Words(k, text, inside)}'
  BY <1>2 DEF FtiInv
<1>9. \A w : w \in IndexOf(a)' <=> w \in new \/ (w \in IndexOf(a) /\ w \notin T)
  BY <1>2, <1>5 DEF IndexOf
<1>10. \A w \in T : w.of \in target[a].docs
  BY <1>1 DEF TextTypes, T
<1>11. \A k \in docs : k \in Rewritten(a)'
  BY <1>3, <1>4, <1>5 DEF Rewritten
<1>12. \A k \in target[a].docs : k \in Rewritten(a)' \cup late'[a]
  BY <1>5, <1>11
<1>13. \A k \in Rewritten(a) : k \in Rewritten(a)' \cup late'[a]
  BY <1>5, <1>10, <1>12 DEF Rewritten
<1>14. \A k \in late[a] : k \in Rewritten(a)' \cup late'[a]
  BY <1>5, <1>11
<1>15. \A k : k \in Busy(a) => k \in Busy(a)'
  <2>1. \A k : k \in Rewritten(a)' \cup late'[a] => k \in Busy(a)'
    BY DEF Busy, Rewritten
  <2>2. \A k \in Busy(a) : k \in Rewritten(a) \cup target[a].docs \cup late[a]
    BY DEF Busy, Rewritten
  <2> QED
    BY <1>12, <1>13, <1>14, <2>1, <2>2
<1>16. /\ TextOf(a)' = TextOf(a) /\ InsideOf(a)' = InsideOf(a)
       /\ \A k : (WillIndex(a, k)' <=> WillIndex(a, k)) /\ (LeavesAlone(a, k)' <=> LeavesAlone(a, k))
  BY <1>2 DEF TextOf, InsideOf, WillIndex, LeavesAlone, FtiContainers
<1>17. \A w \in dropped'[a] : w.of \in Rewritten(a)' \cup late'[a]
  <2>1. \A w \in dropped[a] : w.of \in Rewritten(a) \cup late[a]
    BY <1>1 DEF IndexWell
  <2> QED
    BY <1>5, <1>10, <1>12, <1>13, <1>14, <2>1
<1>18. ASSUME NEW k \in Container \cap Rewritten(a)', k \notin late'[a], k \notin crossed[a],
              ~WillIndex(a, k)
       PROVE  WordsFor(IndexOf(a)', k) = {Words(k, TextOf(a), InsideOf(a))}
  <2>1. CASE k \in docs
    <3>1. \A w \in IndexOf(a) : w.of = k => w \in T
      BY <1>1, <1>18, <2>1 DEF IndexWell, T
    <3>2. \A w \in IndexOf(a)' : w.of = k => w.words = Words(k, TextOf(a), InsideOf(a))
      BY <1>3, <1>4, <1>9, <3>1
    <3>3. \E w \in IndexOf(a)' : w.of = k
      BY <1>3, <1>4, <1>9, <2>1
    <3>4. Indexed(IndexOf(a)', k, Words(k, TextOf(a), InsideOf(a)))
      BY <3>2, <3>3 DEF Indexed
    <3> QED
      BY <3>4, WordsForIs
  <2>2. CASE k \notin docs
    <3>1. k \notin target[a].docs /\ k \notin late[a]
      BY <1>5, <1>18, <2>2
    <3>2. k \in Rewritten(a)
      BY <1>3, <1>4, <1>5, <1>18, <2>2 DEF Rewritten
    <3>3. WordsFor(IndexOf(a), k) = {Words(k, TextOf(a), InsideOf(a))}
      BY <1>1, <1>18, <3>1, <3>2 DEF IndexWell
    <3>4. \A w : w.of = k => (w \in IndexOf(a)' <=> w \in IndexOf(a))
      BY <1>3, <1>4, <1>9, <1>10, <2>2, <3>1
    <3>5. /\ \A w \in IndexOf(a) : w.of = k => w.words = Words(k, TextOf(a), InsideOf(a))
          /\ \E w \in IndexOf(a) : w.of = k
      <4>1. Indexed(IndexOf(a), k, Words(k, TextOf(a), InsideOf(a)))
        BY <3>3, WordsForIs
      <4> QED
        BY <4>1 DEF Indexed
    <3>6. /\ \A w \in IndexOf(a)' : w.of = k => w.words = Words(k, TextOf(a), InsideOf(a))
          /\ \E w \in IndexOf(a)' : w.of = k
      BY <3>4, <3>5
    <3>7. Indexed(IndexOf(a)', k, Words(k, TextOf(a), InsideOf(a)))
      BY <3>6 DEF Indexed
    <3> QED
      BY <3>7, WordsForIs
  <2> QED
    BY <2>1, <2>2
<1>19. IndexWell(a)'
  <2>1. \A k \in Container \ Busy(a)' : WillIndex(a, k)' \/ LeavesAlone(a, k)'
    BY <1>1, <1>15, <1>16 DEF IndexWell
  <2>2. \A k \in (Container \cap Rewritten(a)') \ (late'[a] \cup crossed'[a]) :
           WillIndex(a, k)' \/ WordsFor(IndexOf(a), k)' = {Words(k, TextOf(a), InsideOf(a))}'
    BY <1>2, <1>16, <1>18 DEF WordsFor, Words
  <2> QED
    BY <1>5, <1>17, <2>1, <2>2 DEF IndexWell
<1> QED
  BY <1>2, <1>6, <1>7, <1>8, <1>19 DEF FtiInv

LEMMA ForgetProperties ==
  ASSUME TextTypes, NEW a \in Author, Forget(a), crossed'[a] = {},
         DOMAIN text' = Doc, inside' \in [Part -> Container \cup {Nowhere}],
         DOMAIN crossed' = Author
  PROVE  /\ TextTypes' /\ IndexWell(a)'
         /\ \A b \in Author \ {a} :
               /\ draft'[b] = draft[b] /\ moved'[b] = moved[b] /\ toIndex'[b] = toIndex[b]
               /\ indexed'[b] = indexed[b] /\ target'[b] = target[b] /\ fresh'[b] = fresh[b]
               /\ dropped'[b] = dropped[b] /\ late'[b] = late[b]
<1>1. /\ draft' = [draft EXCEPT ![a] = NoDraft] /\ moved' = [moved EXCEPT ![a] = NoDraft]
      /\ toIndex' = [toIndex EXCEPT ![a] = {}] /\ indexed' = [indexed EXCEPT ![a] = {}]
      /\ target' = [target EXCEPT ![a] = NoTarget] /\ fresh' = [fresh EXCEPT ![a] = {}]
      /\ dropped' = [dropped EXCEPT ![a] = {}] /\ late' = [late EXCEPT ![a] = {}]
  BY DEF Forget
<1>2. /\ DOMAIN draft' = Author /\ DOMAIN moved' = Author /\ DOMAIN toIndex' = Author
      /\ DOMAIN indexed' = Author /\ DOMAIN target' = Author /\ DOMAIN fresh' = Author
      /\ DOMAIN dropped' = Author /\ DOMAIN late' = Author
  BY <1>1 DEF TextTypes
<1>3. /\ DOMAIN draft'[a] = {} /\ DOMAIN moved'[a] = {} /\ toIndex'[a] = {}
      /\ target'[a].rows = {} /\ target'[a].docs = {} /\ fresh'[a] = {} /\ dropped'[a] = {}
  BY <1>1 DEF TextTypes, NoDraft, NoTarget
<1>4. \A b \in Author \ {a} :
         /\ draft'[b] = draft[b] /\ moved'[b] = moved[b] /\ toIndex'[b] = toIndex[b]
         /\ indexed'[b] = indexed[b] /\ target'[b] = target[b] /\ fresh'[b] = fresh[b]
         /\ dropped'[b] = dropped[b] /\ late'[b] = late[b]
  BY <1>1 DEF TextTypes
<1>5. TextTypes'
  <2>1. \A b \in Author :
           /\ DOMAIN draft'[b] \subseteq Doc /\ DOMAIN moved'[b] \subseteq Part
           /\ \A p \in DOMAIN moved'[b] : moved'[b][p] \in Container
           /\ toIndex'[b] \subseteq Container \cup DOMAIN draft'[b]
           /\ \A w \in target'[b].rows : w.of \in target'[b].docs
    BY <1>3, <1>4 DEF TextTypes
  <2>2. \A b \in Author, c \in Author : b # c =>
           (DOMAIN draft'[b] \cup DOMAIN moved'[b]) \cap (DOMAIN draft'[c] \cup DOMAIN moved'[c]) = {}
    BY <1>3, <1>4 DEF TextTypes
  <2> QED
    BY <1>2, <2>1, <2>2 DEF TextTypes, Doc
<1>6. \A k : LeavesAlone(a, k)'
  BY <1>3 DEF LeavesAlone
<1>7. Rewritten(a)' = {}
  BY <1>3 DEF Rewritten
<1>8. IndexWell(a)'
  BY <1>3, <1>6, <1>7 DEF IndexWell
<1> QED
  BY <1>4, <1>5, <1>8

LEMMA AbandonTextsStep ==
  ASSUME FtiInv, NEW a \in Author, AbandonTexts(a)
  PROVE  FtiInv'
<1>1. TextTypes /\ \A b \in Author : IndexWell(b)
  BY DEF FtiInv
<1>2. /\ Forget(a) /\ crossed' = [crossed EXCEPT ![a] = {}]
      /\ UNCHANGED <<text, inside, index, unfound>>
  BY DEF AbandonTexts
<1>3. /\ crossed'[a] = {} /\ DOMAIN crossed' = Author
      /\ \A b \in Author \ {a} : crossed'[b] = crossed[b]
      /\ DOMAIN text' = Doc /\ inside' \in [Part -> Container \cup {Nowhere}]
  BY <1>1, <1>2 DEF TextTypes
<1>4. TextTypes' /\ IndexWell(a)'
  BY <1>1, <1>2, <1>3, ForgetProperties
<1>5. \A b \in Author \ {a} : IndexWell(b)'
  BY <1>1, <1>2, <1>3, ForgetProperties, SameIndexWell
<1>6. \A k \in Container \ unfound : WordsFor(index, k)' = {Words(k, text, inside)}'
  BY <1>2 DEF FtiInv
<1> QED
  BY <1>2, <1>4, <1>5, <1>6 DEF FtiInv

\* The containers that the commit of a transaction concerns.
Concerned(a) ==
    (UNION {FtiContainers(d, InsideOf(a)) : d \in DOMAIN draft[a]})
    \cup (UNION {{moved[a][p], inside[p]} \ {Nowhere} : p \in DOMAIN moved[a]})
    \cup Rewritten(a)

\* A container that a commit does not concern keeps its words in what another sees.
LEMMA NotConcerned ==
  ASSUME TextTypes, NEW a \in Author, NEW b \in Author \ {a}, NEW k \in Container,
         k \notin Concerned(a), text' = TextOf(a), inside' = InsideOf(a),
         draft'[b] = draft[b], moved'[b] = moved[b]
  PROVE  Words(k, TextOf(b), InsideOf(b))' = Words(k, TextOf(b), InsideOf(b))
<1>1. /\ \A d \in DOMAIN draft[a] : k \notin FtiContainers(d, InsideOf(a))
      /\ \A p \in DOMAIN moved[a] : moved[a][p] # k /\ inside[p] # k
  BY TextAssumption DEF Concerned
<1>2. \A p \in DOMAIN moved[a] : p \notin DOMAIN moved[b]
  BY DEF TextTypes
<1>3. /\ \A d \in Doc : TextOf(b)'[d] = IF d \in DOMAIN draft[b] THEN draft[b][d] ELSE TextOf(a)[d]
      /\ \A p \in Part : InsideOf(b)'[p] = IF p \in DOMAIN moved[b] THEN moved[b][p]
                                           ELSE InsideOf(a)[p]
  BY DEF TextOf, InsideOf
<1>4. \A p \in Part : InsideOf(b)'[p] = k <=> InsideOf(b)[p] = k
  BY <1>1, <1>2, <1>3, TextOfAre
<1>5. ASSUME NEW d \in Doc, d = k \/ (d \in Part /\ InsideOf(b)[d] = k), d \in DOMAIN draft[a]
      PROVE  d \in DOMAIN draft[b]
  <2>1. CASE d = k
    BY <1>1, <1>5, <2>1, FtiContainersAre
  <2>2. CASE d \in Part /\ InsideOf(b)[d] = k
    <3>1. d \notin Container /\ k # Nowhere
      BY <2>2, TextAssumption
    <3>2. InsideOf(a)[d] # k
      BY <1>1, <1>5, <3>1, FtiContainersAre
    <3>3. d \notin DOMAIN moved[b]
      BY <1>5 DEF TextTypes
    <3>4. inside[d] = k
      BY <2>2, <3>3, TextOfAre
    <3> QED
      BY <1>1, <2>2, <3>2, <3>4, TextOfAre
  <2> QED
    BY <1>5, <2>1, <2>2
<1>6. \A d \in Doc : d = k \/ (d \in Part /\ InsideOf(b)[d] = k) => TextOf(b)'[d] = TextOf(b)[d]
  BY <1>3, <1>5, TextOfAre
<1>7. Words(k, TextOf(b), InsideOf(b)) = Words(k, TextOf(b)', InsideOf(b)')
  BY <1>4, <1>6, SameWords
<1> QED
  BY <1>7 DEF Words

\* A commit that does not concern what another transaction has indexed leaves it right.
LEMMA OtherIndexWell ==
  ASSUME TextTypes, NEW a \in Author, NEW b \in Author \ {a}, IndexWell(b),
         text' = TextOf(a), inside' = InsideOf(a), index' = IndexOf(a),
         draft'[b] = draft[b], moved'[b] = moved[b], toIndex'[b] = toIndex[b],
         indexed'[b] = indexed[b], target'[b] = target[b], fresh'[b] = fresh[b],
         dropped'[b] = dropped[b], late'[b] = late[b],
         crossed'[b] = crossed[b] \cup (Concerned(a) \cap Busy(b))
  PROVE  IndexWell(b)'
<1>1. Rewritten(b)' = Rewritten(b) /\ Busy(b)' = Busy(b)
  BY DEF Rewritten, Busy
<1>2. \A w : /\ w \in IndexOf(b) <=> (w \in index /\ w \notin dropped[b]) \/ w \in fresh[b]
             /\ w \in IndexOf(b)' <=> (w \in index' /\ w \notin dropped[b]) \/ w \in fresh[b]
             /\ w \in index' <=> (w \in index /\ w \notin dropped[a]) \/ w \in fresh[a]
  BY DEF IndexOf
<1>3. \A w \in IndexOf(b)' : w \in IndexOf(b) \/ w.of \in Concerned(a)
  BY <1>2 DEF Concerned, Rewritten
<1>4. \A d \in DOMAIN draft[b] \cup DOMAIN moved[b] :
         d \notin DOMAIN moved[a] /\ (d \in Part => inside'[d] = inside[d])
  BY TextOfAre DEF TextTypes
<1>5. \A d \in Container \cup DOMAIN draft[b] :
         FtiContainers(d, InsideOf(b))' = FtiContainers(d, InsideOf(b))
  <2> TAKE d \in Container \cup DOMAIN draft[b]
  <2>1. CASE d \in Container
    BY <2>1 DEF FtiContainers
  <2>2. CASE d \notin Container
    <3>1. d \in Part /\ inside'[d] = inside[d]
      BY <1>4, <2>2 DEF TextTypes, Doc
    <3>2. InsideOf(b)'[d] = InsideOf(b)[d]
      BY <3>1 DEF InsideOf
    <3> QED
      BY <2>2, <3>2 DEF FtiContainers
  <2> QED
    BY <2>1, <2>2
<1>6. \A k : WillIndex(b, k) => WillIndex(b, k)'
  <2> SUFFICES ASSUME NEW k, NEW d \in toIndex[b] \ indexed[b], k \in FtiContainers(d, InsideOf(b))
               PROVE  WillIndex(b, k)'
    BY DEF WillIndex
  <2>1. k \in FtiContainers(d, InsideOf(b))'
    BY <1>5 DEF TextTypes
  <2> QED
    BY <2>1 DEF WillIndex, FtiContainers
<1>7. \A k : LeavesAlone(b, k) => LeavesAlone(b, k)'
  <2> SUFFICES ASSUME NEW k, LeavesAlone(b, k) PROVE LeavesAlone(b, k)'
    OBVIOUS
  <2>1. \A d \in DOMAIN draft'[b] : k \notin FtiContainers(d, InsideOf(b))'
    BY <1>5 DEF LeavesAlone
  <2>2. \A p \in DOMAIN moved'[b] : moved'[b][p] # k /\ inside'[p] # k
    BY <1>4 DEF LeavesAlone, TextTypes
  <2> QED
    BY <2>1, <2>2 DEF LeavesAlone, FtiContainers
<1>8. ASSUME NEW k \in target[b].docs, k \notin crossed'[b], NEW w \in IndexOf(b)', w.of = k
      PROVE  w \in target[b].rows
  <2>1. k \notin Concerned(a) /\ k \notin crossed[b]
    BY <1>8 DEF Busy
  <2> QED
    BY <1>3, <1>8, <2>1 DEF IndexWell
<1>9. ASSUME NEW k \in Container \cap Rewritten(b), k \notin target[b].docs, k \notin late[b],
             k \notin crossed'[b], ~WillIndex(b, k)
      PROVE  WordsFor(IndexOf(b)', k) = {Words(k, TextOf(b), InsideOf(b))}
  <2>1. k \notin Concerned(a) /\ k \notin crossed[b]
    BY <1>9 DEF Busy, Rewritten
  <2>2. WordsFor(IndexOf(b), k) = {Words(k, TextOf(b), InsideOf(b))}
    BY <1>9, <2>1 DEF IndexWell
  <2>3. \A w \in IndexOf(b) : w.of = k => w.words = Words(k, TextOf(b), InsideOf(b))
    <3>1. Indexed(IndexOf(b), k, Words(k, TextOf(b), InsideOf(b)))
      BY <2>2, WordsForIs
    <3> QED
      BY <3>1 DEF Indexed
  <2>4. \A w \in IndexOf(b)' : w.of = k => w.words = Words(k, TextOf(b), InsideOf(b))
    BY <1>3, <2>1, <2>3
  <2>5. \E w \in IndexOf(b)' : w.of = k
    BY <1>2, <1>9 DEF Rewritten
  <2>6. Indexed(IndexOf(b)', k, Words(k, TextOf(b), InsideOf(b)))
    BY <2>4, <2>5 DEF Indexed
  <2> QED
    BY <2>6, WordsForIs
<1>10. \A k \in (Container \cap Rewritten(b)') \ (target'[b].docs \cup late'[b] \cup crossed'[b]) :
          WillIndex(b, k)' \/ WordsFor(IndexOf(b), k)' = {Words(k, TextOf(b), InsideOf(b))}'
  <2> SUFFICES ASSUME NEW k \in Container \cap Rewritten(b), k \notin target[b].docs,
                      k \notin late[b], k \notin crossed'[b], ~WillIndex(b, k)
               PROVE  WordsFor(IndexOf(b), k)' = {Words(k, TextOf(b), InsideOf(b))}'
    BY <1>1, <1>6
  <2>1. k \notin Concerned(a)
    BY DEF Busy, Rewritten
  <2>2. Words(k, TextOf(b), InsideOf(b))' = Words(k, TextOf(b), InsideOf(b))
    BY <2>1, NotConcerned
  <2> QED
    BY <1>9, <2>2 DEF WordsFor
<1>11. \A w \in dropped'[b] : w.of \in Rewritten(b)' \cup late'[b]
  BY <1>1 DEF IndexWell
<1>12. \A k \in Container \ Busy(b)' : WillIndex(b, k)' \/ LeavesAlone(b, k)'
  BY <1>1, <1>6, <1>7 DEF IndexWell
<1> QED
  BY <1>8, <1>10, <1>11, <1>12 DEF IndexWell

LEMMA CommitTextsStep ==
  ASSUME FtiInv, NEW a \in Author, CommitTexts(a)
  PROVE  FtiInv'
<1>1. TextTypes /\ (\A b \in Author : IndexWell(b)) /\ IndexWell(a)
  BY DEF FtiInv
<1>2. /\ toIndex[a] = {} /\ target[a] = NoTarget /\ Forget(a)
      /\ text' = TextOf(a) /\ inside' = InsideOf(a) /\ index' = IndexOf(a)
      /\ unfound' = (unfound \ Rewritten(a)) \cup late[a] \cup crossed[a]
      /\ crossed' = [b \in Author |-> IF b = a THEN {}
                                      ELSE crossed[b] \cup (Concerned(a) \cap Busy(b))]
  BY DEF CommitTexts, IndexOf, Rewritten, Concerned
<1>3. /\ DOMAIN text' = Doc /\ inside' \in [Part -> Container \cup {Nowhere}]
      /\ crossed'[a] = {} /\ DOMAIN crossed' = Author
      /\ \A b \in Author \ {a} : crossed'[b] = crossed[b] \cup (Concerned(a) \cap Busy(b))
  <2>1. DOMAIN text' = Doc
    BY <1>2 DEF TextOf
  <2>2. \A p \in Part : InsideOf(a)[p] \in Container \cup {Nowhere}
    BY <1>1, TextOfAre DEF TextTypes
  <2>3. inside' \in [Part -> Container \cup {Nowhere}]
    BY <1>2, <2>2 DEF InsideOf
  <2> QED
    BY <1>2, <2>1, <2>3
<1>4. TextTypes' /\ IndexWell(a)'
  BY <1>1, <1>2, <1>3, ForgetProperties
<1>5. ASSUME NEW b \in Author \ {a} PROVE IndexWell(b)'
  <2>1. /\ draft'[b] = draft[b] /\ moved'[b] = moved[b] /\ toIndex'[b] = toIndex[b]
        /\ indexed'[b] = indexed[b] /\ target'[b] = target[b] /\ fresh'[b] = fresh[b]
        /\ dropped'[b] = dropped[b] /\ late'[b] = late[b]
    BY <1>1, <1>2, <1>3, ForgetProperties
  <2> QED
    BY <1>1, <1>2, <1>3, <2>1, OtherIndexWell
<1>6. ASSUME NEW k \in Container, k \notin unfound'
      PROVE  WordsFor(IndexOf(a), k) = {Words(k, TextOf(a), InsideOf(a))}
  <2>1. k \notin late[a] /\ k \notin crossed[a] /\ k \notin target[a].docs /\ ~WillIndex(a, k)
    BY <1>2, <1>6 DEF WillIndex, NoTarget
  <2>2. CASE k \in Rewritten(a)
    BY <1>1, <1>6, <2>1, <2>2 DEF IndexWell
  <2>3. CASE k \notin Rewritten(a)
    <3>1. k \notin Busy(a)
      BY <2>1, <2>3 DEF Busy, Rewritten
    <3>2. LeavesAlone(a, k)
      BY <1>1, <2>1, <3>1 DEF IndexWell
    <3>3. \A w : w.of = k => (w \in IndexOf(a) <=> w \in index)
      BY <1>1, <2>1, <2>3 DEF IndexWell, IndexOf, Rewritten
    <3>4. WordsFor(index, k) = {Words(k, text, inside)}
      BY <1>2, <1>6, <2>3 DEF FtiInv
    <3>5. \A p \in Part : InsideOf(a)[p] = k <=> inside[p] = k
      BY <3>2, TextOfAre DEF LeavesAlone
    <3>6. ASSUME NEW d \in Doc, d = k \/ (d \in Part /\ InsideOf(a)[d] = k)
          PROVE  TextOf(a)[d] = text[d]
      <4>1. k \in FtiContainers(d, InsideOf(a))
        BY <3>6, FtiContainersAre, TextAssumption
      <4> QED
        BY <3>2, <4>1, TextOfAre DEF LeavesAlone
    <3>7. Words(k, TextOf(a), InsideOf(a)) = Words(k, text, inside)
      BY <3>5, <3>6, SameWords
    <3>8. /\ \A w \in index : w.of = k => w.words = Words(k, text, inside)
          /\ \E w \in index : w.of = k
      <4>1. Indexed(index, k, Words(k, text, inside))
        BY <3>4, WordsForIs
      <4> QED
        BY <4>1 DEF Indexed
    <3>9. /\ \A w \in IndexOf(a) : w.of = k => w.words = Words(k, text, inside)
          /\ \E w \in IndexOf(a) : w.of = k
      BY <3>3, <3>8
    <3>10. Indexed(IndexOf(a), k, Words(k, TextOf(a), InsideOf(a)))
      BY <3>7, <3>9 DEF Indexed
    <3> QED
      BY <3>10, WordsForIs
  <2> QED
    BY <2>2, <2>3
<1>7. \A k \in Container \ unfound' : WordsFor(index, k)' = {Words(k, text, inside)}'
  BY <1>2, <1>6
<1> QED
  BY <1>4, <1>5, <1>7 DEF FtiInv

LEMMA FtiInitInv == FtiInit => FtiInv
<1> SUFFICES ASSUME FtiInit PROVE FtiInv
  OBVIOUS
<1> DEFINE one == CHOOSE a \in Author : TRUE
<1>1. /\ text = [d \in Doc |-> 0] /\ inside \in [Part -> Container \cup {Nowhere}]
      /\ draft = [a \in Author |-> NoDraft] /\ moved = [a \in Author |-> NoDraft]
      /\ toIndex = [a \in Author |-> {}] /\ indexed = [a \in Author |-> {}]
      /\ target = [a \in Author |-> NoTarget] /\ fresh = [a \in Author |-> {}]
      /\ dropped = [a \in Author |-> {}] /\ late = [a \in Author |-> {}]
      /\ crossed = [a \in Author |-> {}]
  BY DEF FtiInit
<1>2. index = {Row(a, k, text, inside) : a \in {one}, k \in Container}
  BY DEF FtiInit
<1> HIDE DEF one
<1>3. DOMAIN NoDraft = {} /\ NoTarget.rows = {} /\ NoTarget.docs = {}
  BY DEF NoDraft, NoTarget
<1>4. TextTypes
  BY <1>1, <1>3 DEF TextTypes
<1>5. ASSUME NEW k \in Container PROVE WordsFor(index, k) = {Words(k, text, inside)}
  <2>1. \A l : Row(one, l, text, inside).of = l
               /\ Row(one, l, text, inside).words = Words(l, text, inside)
    BY DEF Row
  <2>2. \A w \in index : \E l \in Container : w = Row(one, l, text, inside)
    BY <1>2
  <2>3. Row(one, k, text, inside) \in index
    BY <1>2
  <2>4. Indexed(index, k, Words(k, text, inside))
    BY <2>1, <2>2, <2>3 DEF Indexed
  <2> QED
    BY <2>4, WordsForIs
<1>6. ASSUME NEW a \in Author PROVE IndexWell(a)
  <2>1. Rewritten(a) = {} /\ \A k : LeavesAlone(a, k)
    BY <1>1, <1>3 DEF Rewritten, LeavesAlone
  <2> QED
    BY <1>1, <1>3, <2>1 DEF IndexWell
<1> QED
  BY <1>4, <1>5, <1>6 DEF FtiInv

\* native.py:1227-1295: what a transaction has indexed is what it sees, and a commit that
\* changes what another has indexed is known to have done so.
THEOREM FtiInvariant == FtiSpec => []FtiInv
<1>1. ASSUME FtiInv, UNCHANGED ftiVars PROVE FtiInv'
  <2>1. /\ TextTypes /\ \A b \in Author : IndexWell(b)
        /\ UNCHANGED <<text, inside, index, unfound, draft, moved, toIndex, indexed, target,
                       fresh, dropped, late, crossed>>
    BY <1>1 DEF FtiInv, ftiVars, ofAuthor
  <2>2. TextTypes'
    BY <2>1 DEF TextTypes
  <2>3. \A b \in Author : IndexWell(b)'
    BY <2>1, SameIndexWell
  <2>4. \A k \in Container \ unfound : WordsFor(index, k)' = {Words(k, text, inside)}'
    BY <1>1, <2>1 DEF FtiInv, WordsFor, Words
  <2> QED
    BY <2>1, <2>2, <2>3, <2>4 DEF FtiInv
<1>2. ASSUME FtiInv, NEW a \in Author, Indexing(a) \/ IndexingFails(a) PROVE FtiInv'
  BY <1>2, IndexStep DEF Indexing, IndexingFails
<1>3. FtiInv /\ [FtiNext]_ftiVars => FtiInv'
  BY <1>1, <1>2, ChangeTextStep, MovePartStep, SaveStep, StartIndexingStep, CommitTextsStep,
     AbandonTextsStep DEF FtiNext
<1> QED
  BY <1>3, FtiInitInv, PTL DEF FtiSpec

\* native.py:1287-1289: every container is found by the words of its committed text and of
\* those of its parts, once, but for the containers that FoundAsStored names.
THEOREM FoundAsStoredHolds == FtiSpec => []FoundAsStored
<1>1. FtiInv => FoundAsStored
  BY DEF FtiInv, FoundAsStored, WordsFor
<1> QED
  BY <1>1, FtiInvariant, PTL
================================================================================
