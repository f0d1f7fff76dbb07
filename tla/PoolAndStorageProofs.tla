-------------------------- MODULE PoolAndStorageProofs -------------------------
(***************************************************************************)
(* Two resources that outlive a transaction.                               *)
(*                                                                         *)
(* Who owns a cnxset: the pool, one repository connection, or nobody any   *)
(* more, whatever threads enter, nest, time out, raise and leave, and      *)
(* whatever shutdown() closes meanwhile (PoolInv, TaskInv).                *)
(*                                                                         *)
(* The files of the storage and the rows that hold their paths: what a     *)
(* connection can read is on disk, only a commit unlinks a file that the   *)
(* database refers to, and nothing is left behind (FileInv).               *)
(***************************************************************************)
EXTENDS RepositoryShutdown, FileStorage, SequenceLemmas, FiniteSetTheorems, TLAPS

--------------------------------------------------------------------------------
(* The pool of cnxsets.                                                    *)

(* What was lost is neither in the pool nor borrowed.                      *)
LostApart == lost \cap (ToSet(queue) \cup Held) = {}

(* Only what is borrowed carries writes: rollback comes before release.    *)
WrittenIsHeld == dirty \subseteq Held

(* Without a pool nothing is queued, and what is left is closed.           *)
NoPool == ~pooled => queue = <<>> /\ lost = {}

PoolInv == TypeOK /\ OneOwner /\ NoneLost /\ LostApart /\ WrittenIsHeld /\ NoPool

--------------------------------------------------------------------------------
(* The pool and the borrowed cnxsets, as sets.                             *)

LEMMA HeldChange ==
  ASSUME held \in [Thread -> Seq(CnxSet)],
         NEW t \in Thread, NEW s \in Seq(CnxSet), held' = [held EXCEPT ![t] = s]
  PROVE  /\ held' \in [Thread -> Seq(CnxSet)]
         /\ held'[t] = s
         /\ \A u \in Thread : u # t => held'[u] = held[u]
         /\ \A x : x \in Held' <=> x \in ToSet(s) \/ \E u \in Thread \ {t} : x \in ToSet(held[u])
<1>1. held' \in [Thread -> Seq(CnxSet)] /\ held'[t] = s /\ \A u \in Thread : u # t => held'[u] = held[u]
  OBVIOUS
<1>2. ASSUME NEW x PROVE x \in Held' <=> \E u \in Thread : x \in ToSet(held'[u])
  BY DEF Held
<1> QED
  BY <1>1, <1>2

LEMMA HeldMembers == \A x : x \in Held <=> \E u \in Thread : x \in ToSet(held[u])
BY DEF Held

\* The one operator of the model and the one of the lemmas say the same.
LEMMA InjectiveIsInjective == \A s : IsInjective(s) <=> Injective(s)
BY DEF IsInjective, Injective

\* _CnxSetPool.get hands out a cnxset that nobody had.
LEMMA TakeProperties ==
  ASSUME PoolInv, NEW c \in CnxSet, Take(c)
  PROVE  /\ c \notin Held /\ c \notin lost
         /\ queue' \in Seq(CnxSet) /\ IsInjective(queue')
         /\ ToSet(queue') = ToSet(queue) \ {c}
         /\ open' = open \cup {c}
         /\ ~pooled => queue' = <<>>
         /\ pooled => queue # <<>>
<1> USE DEF PoolInv, TypeOK
<1>1. CASE pooled
  <2>1. queue # <<>> /\ c = Head(queue) /\ queue' = Tail(queue) /\ open' = open
    BY <1>1 DEF Take
  <2>2. Injective(queue)
    BY InjectiveIsInjective DEF OneOwner
  <2>3. /\ c \in ToSet(queue) /\ queue' \in Seq(CnxSet)
        /\ ToSet(queue) = ToSet(queue') \cup {c}
        /\ Injective(queue') /\ c \notin ToSet(queue')
    BY <2>1, <2>2, PopProperties
  <2>4. c \notin Held
    BY <2>3, HeldMembers DEF OneOwner
  <2>5. c \notin lost /\ c \in open
    BY <2>3 DEF LostApart, NoneLost
  <2> QED
    BY <1>1, <2>1, <2>3, <2>4, <2>5, InjectiveIsInjective
<1>2. CASE ~pooled
  <2>1. c \notin open /\ open' = open \cup {c} /\ queue' = queue /\ queue = <<>> /\ lost = {}
    BY <1>2 DEF Take, NoPool
  <2>2. ToSet(queue) = {}
    BY <2>1, EmptySequence
  <2> QED
    BY <1>2, <2>1, <2>2 DEF NoneLost, OneOwner
<1> QED
  BY <1>1, <1>2

\* What the innermost connection holds, and what is left when it is popped.
LEMMA InnermostProperties ==
  ASSUME PoolInv, NEW t \in Thread, Inside(t), held' = [held EXCEPT ![t] = Front(@)]
  PROVE  /\ held' \in [Thread -> Seq(CnxSet)]
         /\ Last(held[t]) \in Held
         /\ \A u \in Thread : IsInjective(held'[u]) /\ ToSet(held'[u]) \subseteq ToSet(held[u])
         /\ \A u \in Thread : Last(held[t]) \notin ToSet(held'[u])
         /\ Held' = Held \ {Last(held[t])}
<1> DEFINE c == Last(held[t])
<1>1. held[t] \in Seq(CnxSet) /\ held[t] # <<>> /\ Injective(held[t])
  BY InjectiveIsInjective DEF PoolInv, TypeOK, OneOwner, Inside
<1>2. /\ c \in ToSet(held[t]) /\ Front(held[t]) \in Seq(CnxSet)
      /\ ToSet(held[t]) = ToSet(Front(held[t])) \cup {c}
      /\ Injective(Front(held[t])) /\ c \notin ToSet(Front(held[t]))
  BY <1>1, LastProperties
<1> HIDE DEF c
<1>3. held \in [Thread -> Seq(CnxSet)] /\ held' = [held EXCEPT ![t] = Front(held[t])]
  BY DEF PoolInv, TypeOK
<1>4. /\ held' \in [Thread -> Seq(CnxSet)] /\ held'[t] = Front(held[t])
      /\ \A u \in Thread : u # t => held'[u] = held[u]
      /\ \A x : x \in Held' <=> x \in ToSet(Front(held[t])) \/ \E u \in Thread \ {t} : x \in ToSet(held[u])
  BY <1>2, <1>3, HeldChange
<1>5. \A u \in Thread \ {t} : c \notin ToSet(held[u])
  BY <1>2 DEF PoolInv, OneOwner
<1>6. \A x : x \in Held' <=> x \in Held /\ x # c
  BY <1>2, <1>4, <1>5, HeldMembers
<1>7. \A u \in Thread : IsInjective(held'[u]) /\ ToSet(held'[u]) \subseteq ToSet(held[u])
  BY <1>2, <1>4, InjectiveIsInjective DEF PoolInv, OneOwner
<1>8. \A u \in Thread : c \notin ToSet(held'[u])
  BY <1>2, <1>4, <1>5
<1> QED
  BY <1>2, <1>4, <1>6, <1>7, <1>8, HeldMembers DEF c
--------------------------------------------------------------------------------
(* The pool alone.                                                         *)

LEMMA PoolInitInv == Init => PoolInv
<1> SUFFICES ASSUME Init PROVE PoolInv
  OBVIOUS
<1>1. /\ held \in [Thread -> Seq(CnxSet)] /\ \A t \in Thread : held[t] = <<>>
      /\ waiting = {} /\ dirty = {} /\ lost = {} /\ pooled \in BOOLEAN
  BY EmptySequence DEF Init
<1>2. \A t \in Thread : ToSet(held[t]) = {} /\ IsInjective(held[t])
  BY <1>1, EmptySequence, InjectiveIsInjective
<1>3. Held = {}
  BY <1>2, HeldMembers
<1>4. queue \in Seq(CnxSet) /\ IsInjective(queue) /\ open = ToSet(queue) /\ (~pooled => queue = <<>>)
  <2>1. CASE pooled
    <3>1. Cardinality(CnxSet) \in Nat
      BY CnxSetAssumption, FS_CardinalityType
    <3>2. queue \in Bijection(1..Cardinality(CnxSet), CnxSet) /\ open = CnxSet
      BY <2>1 DEF Init
    <3> DEFINE n == Cardinality(CnxSet)
    <3>3. /\ queue \in [1..n -> CnxSet] /\ IsInjective(queue)
          /\ \A c \in CnxSet : \E i \in 1..n : queue[i] = c
      BY <3>2 DEF Bijection, Injection, Surjection
    <3> HIDE DEF n
    <3>4. queue \in Seq(CnxSet)
      BY <3>1, <3>3, IsASeq DEF n
    <3>5. ToSet(queue) = CnxSet
      BY <3>3 DEF ToSet
    <3> QED
      BY <2>1, <3>2, <3>3, <3>4, <3>5
  <2>2. CASE ~pooled
    <3>1. queue = <<>> /\ open = {}
      BY <2>2 DEF Init
    <3> QED
      BY <3>1, EmptySequence, InjectiveIsInjective
  <2> QED
    BY <2>1, <2>2
<1>5. ToSet(queue) \subseteq CnxSet
  BY <1>4, ToSetProperties
<1>6. TypeOK
  BY <1>1, <1>4, <1>5 DEF TypeOK
<1>7. OneOwner
  BY <1>2, <1>4 DEF OneOwner
<1> QED
  BY <1>1, <1>3, <1>4, <1>6, <1>7 DEF PoolInv, NoneLost, LostApart, WrittenIsHeld, NoPool

LEMMA PoolStep ==
  ASSUME PoolInv, NEW t \in Thread,
         \/ Enter(t) \/ Get(t) \/ EnterRaises(t) \/ GetTimesOut(t)
         \/ Write(t) \/ Commit(t) \/ Exit(t) \/ ExitRaises(t)
  PROVE  PoolInv'
<1>0. /\ held \in [Thread -> Seq(CnxSet)] /\ queue \in Seq(CnxSet)
      /\ pooled \in BOOLEAN /\ open \subseteq CnxSet /\ waiting \subseteq Thread
      /\ dirty \subseteq open /\ lost \subseteq CnxSet
  BY DEF PoolInv, TypeOK
<1>1. CASE Enter(t) \/ GetTimesOut(t)
  <2>1. UNCHANGED <<pooled, queue, open, held, dirty, lost>> /\ waiting' \subseteq Thread
    BY <1>0, <1>1 DEF Enter, GetTimesOut
  <2> QED
    BY <2>1 DEF PoolInv, TypeOK, OneOwner, NoneLost, LostApart, WrittenIsHeld, NoPool, Held
<1>2. CASE Get(t)
  <2>1. PICK c \in CnxSet : Take(c) /\ held' = [held EXCEPT ![t] = Append(held[t], c)]
    BY <1>0, <1>2 DEF Get
  <2>2. UNCHANGED <<pooled, dirty, lost>> /\ waiting' \subseteq Thread
    BY <1>0, <1>2 DEF Get
  <2>3. /\ c \notin Held /\ c \notin lost
        /\ queue' \in Seq(CnxSet) /\ IsInjective(queue')
        /\ ToSet(queue') = ToSet(queue) \ {c} /\ open' = open \cup {c}
        /\ ~pooled => queue' = <<>>
    BY <2>1, TakeProperties
  <2>4. held[t] \in Seq(CnxSet) /\ Injective(held[t]) /\ c \notin ToSet(held[t])
    BY <1>0, <2>3, InjectiveIsInjective, HeldMembers DEF PoolInv, OneOwner
  <2>5. /\ Append(held[t], c) \in Seq(CnxSet) /\ IsInjective(Append(held[t], c))
        /\ ToSet(Append(held[t], c)) = ToSet(held[t]) \cup {c}
    BY <2>4, AppendNew, InjectiveIsInjective
  <2>6. /\ held' \in [Thread -> Seq(CnxSet)] /\ held'[t] = Append(held[t], c)
        /\ \A u \in Thread : u # t => held'[u] = held[u]
        /\ \A x : x \in Held' <=> \/ x \in ToSet(Append(held[t], c))
                                  \/ \E u \in Thread \ {t} : x \in ToSet(held[u])
    BY <1>0, <2>1, <2>5, HeldChange
  <2>7. Held' = Held \cup {c}
    BY <2>5, <2>6, HeldMembers
  <2>8. OneOwner'
    <3>1. \A u \in Thread : c \notin ToSet(held[u])
      BY <2>3, HeldMembers
    <3>2. \A u \in Thread : IsInjective(held'[u])
      BY <2>5, <2>6 DEF PoolInv, OneOwner
    <3>3. \A u \in Thread : ToSet(held'[u]) = IF u = t THEN ToSet(held[u]) \cup {c} ELSE ToSet(held[u])
      BY <2>5, <2>6
    <3>4. \A u \in Thread : ToSet(held'[u]) \cap ToSet(queue') = {}
      BY <2>3, <3>1, <3>3 DEF PoolInv, OneOwner
    <3>5. \A u, v \in Thread : u # v => ToSet(held'[u]) \cap ToSet(held'[v]) = {}
      BY <3>1, <3>3 DEF PoolInv, OneOwner
    <3> QED
      BY <2>3, <3>2, <3>4, <3>5 DEF OneOwner
  <2>9. TypeOK'
    BY <1>0, <2>2, <2>3, <2>6 DEF TypeOK
  <2> QED
    BY <2>2, <2>3, <2>7, <2>8, <2>9 DEF PoolInv, NoneLost, LostApart, WrittenIsHeld, NoPool
<1>3. CASE EnterRaises(t)
  <2>1. UNCHANGED <<pooled, held, dirty>> /\ waiting' \subseteq Thread /\ Held' = Held
    BY <1>0, <1>3 DEF EnterRaises, Held
  <2>2. CASE pooled
    <3>1. PICK c \in CnxSet : Take(c) /\ lost' = lost \cup {c}
      BY <1>3, <2>2 DEF EnterRaises
    <3>2. /\ c \notin Held
          /\ queue' \in Seq(CnxSet) /\ IsInjective(queue')
          /\ ToSet(queue') = ToSet(queue) \ {c} /\ open' = open \cup {c}
      BY <3>1, TakeProperties
    <3>3. OneOwner'
      BY <2>1, <3>2 DEF PoolInv, OneOwner
    <3>4. TypeOK'
      BY <1>0, <2>1, <3>1, <3>2 DEF TypeOK
    <3> QED
      BY <2>1, <2>2, <3>1, <3>2, <3>3, <3>4 DEF PoolInv, NoneLost, LostApart, WrittenIsHeld, NoPool
  <2>3. CASE ~pooled
    <3>1. UNCHANGED <<queue, open, lost>>
      BY <1>3, <2>3 DEF EnterRaises
    <3> QED
      BY <2>1, <3>1 DEF PoolInv, TypeOK, OneOwner, NoneLost, LostApart, WrittenIsHeld, NoPool
  <2> QED
    BY <2>2, <2>3
<1>4. CASE Write(t) \/ Commit(t)
  <2>1. UNCHANGED <<pooled, queue, open, held, waiting, lost>> /\ Held' = Held
    BY <1>4 DEF Write, Commit, Held
  <2>2. held[t] # <<>>
    BY <1>4 DEF Write, Commit, Inside
  <2>3. Last(held[t]) \in ToSet(held[t])
    BY <1>0, <2>2, LastProperties
  <2>4. dirty' \subseteq Held /\ dirty' \subseteq open
    BY <1>0, <1>4, <2>3, HeldMembers DEF Write, Commit, PoolInv, WrittenIsHeld, NoneLost
  <2> QED
    BY <2>1, <2>4 DEF PoolInv, TypeOK, OneOwner, NoneLost, LostApart, WrittenIsHeld, NoPool
<1>5. CASE Exit(t) \/ ExitRaises(t)
  <2> DEFINE c == Last(held[t])
  <2>1. /\ Inside(t) /\ dirty' = dirty \ {c} /\ held' = [held EXCEPT ![t] = Front(@)]
        /\ pooled' = pooled /\ waiting' = waiting
    BY <1>5 DEF Exit, ExitRaises
  <2>2. /\ held' \in [Thread -> Seq(CnxSet)] /\ c \in Held
        /\ \A u \in Thread : IsInjective(held'[u]) /\ ToSet(held'[u]) \subseteq ToSet(held[u])
        /\ \A u \in Thread : c \notin ToSet(held'[u])
        /\ Held' = Held \ {c}
    BY <2>1, InnermostProperties
  <2>3. c \in open /\ c \in CnxSet /\ c \notin ToSet(queue) /\ c \notin lost
    BY <1>0, <2>2, HeldMembers DEF PoolInv, NoneLost, OneOwner, LostApart
  <2>4. \/ /\ queue' = Append(queue, c) /\ open' = open /\ lost' = lost /\ pooled
        \/ /\ queue' = queue /\ open' = open \ {c} /\ lost' = lost /\ ~pooled
        \/ /\ queue' = queue /\ open' = open /\ lost' = lost \cup {c} /\ pooled
    BY <1>5 DEF Exit, ExitRaises, Release
  <2> HIDE DEF c
  <2>5. /\ queue' \in Seq(CnxSet) /\ IsInjective(queue')
        /\ ToSet(queue') = IF queue' = queue THEN ToSet(queue) ELSE ToSet(queue) \cup {c}
    <3>1. Injective(queue)
      BY InjectiveIsInjective DEF PoolInv, OneOwner
    <3>2. /\ Append(queue, c) \in Seq(CnxSet) /\ ToSet(Append(queue, c)) = ToSet(queue) \cup {c}
          /\ IsInjective(Append(queue, c))
      BY <1>0, <2>3, <3>1, AppendNew, InjectiveIsInjective
    <3>3. Append(queue, c) # queue
      BY <2>3, <3>2
    <3> QED
      BY <1>0, <2>4, <3>1, <3>2, <3>3, InjectiveIsInjective
  <2>6. ToSet(queue') \subseteq ToSet(queue) \cup {c}
    BY <2>5
  <2>7. OneOwner'
    <3>2. \A u \in Thread : ToSet(held'[u]) \cap ToSet(queue') = {}
      BY <2>2, <2>6 DEF PoolInv, OneOwner
    <3>3. \A u, v \in Thread : u # v => ToSet(held'[u]) \cap ToSet(held'[v]) = {}
      BY <2>2 DEF PoolInv, OneOwner
    <3> QED
      BY <2>2, <2>5, <3>2, <3>3 DEF OneOwner
  <2>8. dirty' \subseteq open'
    BY <1>0, <2>1, <2>4
  <2>9. TypeOK'
    BY <1>0, <2>1, <2>2, <2>3, <2>4, <2>5, <2>8 DEF TypeOK
  <2>10. WrittenIsHeld'
    BY <2>1, <2>2 DEF PoolInv, WrittenIsHeld
  <2>11. NoneLost' /\ LostApart'
    <3>1. Append(queue, c) # queue
      BY <1>0, <2>3, AppendNew
    <3> QED
      BY <2>2, <2>3, <2>4, <2>5, <3>1 DEF PoolInv, NoneLost, LostApart
  <2>12. NoPool'
    BY <2>1, <2>4 DEF PoolInv, NoPool
  <2> QED
    BY <2>7, <2>9, <2>10, <2>11, <2>12 DEF PoolInv
<1> QED
  BY <1>1, <1>2, <1>3, <1>4, <1>5

LEMMA PoolStutter == PoolInv /\ UNCHANGED vars => PoolInv'
BY DEF PoolInv, TypeOK, OneOwner, NoneLost, LostApart, WrittenIsHeld, NoPool, Held, vars

\* repository.py:167-185: whatever the threads do with the pool, the type of its
\* state, the ownership of the cnxsets and what is written on them stay as stated.
THEOREM PoolInvariant == Spec => []PoolInv
<1>1. PoolInv /\ [Next]_vars => PoolInv'
  <2> SUFFICES ASSUME PoolInv, [Next]_vars PROVE PoolInv'
    OBVIOUS
  <2>1. CASE Next
    BY <2>1, PoolStep DEF Next
  <2>2. CASE UNCHANGED vars
    BY <2>2, PoolStutter
  <2> QED
    BY <2>1, <2>2
<1> QED
  BY <1>1, PoolInitInv, PTL DEF Spec

--------------------------------------------------------------------------------
(* The pool with shutdown() and the background tasks.                      *)

\* close() closes what it takes out of the queue, which nobody borrows.
LEMMA CloseTakeStep == PoolInv /\ CloseTake => PoolInv'
<1> SUFFICES ASSUME PoolInv, CloseTake PROVE PoolInv'
  OBVIOUS
<1>1. UNCHANGED <<pooled, held, waiting, dirty, lost>> /\ Held' = Held
  BY DEF CloseTake, Held
<1>2. CASE queue = <<>>
  BY <1>1, <1>2, PoolStutter DEF CloseTake, vars
<1>3. CASE queue # <<>>
  <2>1. queue' = Tail(queue) /\ open' = open \ {Head(queue)} /\ pooled
    BY <1>3 DEF CloseTake, PoolInv, NoPool
  <2>2. queue \in Seq(CnxSet) /\ Injective(queue)
    BY InjectiveIsInjective DEF PoolInv, TypeOK, OneOwner
  <2>3. /\ Head(queue) \in ToSet(queue) /\ queue' \in Seq(CnxSet) /\ IsInjective(queue')
        /\ ToSet(queue) = ToSet(queue') \cup {Head(queue)} /\ Head(queue) \notin ToSet(queue')
    BY <1>3, <2>1, <2>2, PopProperties, InjectiveIsInjective
  <2>4. Head(queue) \notin Held /\ Head(queue) \notin lost
    BY <2>3, HeldMembers DEF PoolInv, OneOwner, LostApart
  <2>5. NoneLost' /\ LostApart' /\ WrittenIsHeld' /\ NoPool'
    BY <1>1, <2>1, <2>3, <2>4 DEF PoolInv, NoneLost, LostApart, WrittenIsHeld, NoPool
  <2>6. OneOwner'
    BY <1>1, <2>3 DEF PoolInv, OneOwner
  <2>7. TypeOK'
    BY <1>1, <2>1, <2>3, <2>4 DEF PoolInv, TypeOK, WrittenIsHeld
  <2> QED
    BY <2>5, <2>6, <2>7 DEF PoolInv
<1> QED
  BY <1>2, <1>3

LEMMA ShutdownPoolStep == PoolInv /\ [ShutdownNext]_allVars => PoolInv'
<1> SUFFICES ASSUME PoolInv, [ShutdownNext]_allVars PROVE PoolInv'
  OBVIOUS
<1>1. ASSUME NEW t \in Task, TaskStep(t) PROVE UNCHANGED vars
  BY <1>1 DEF TaskStep, ListTask, StartTask, RemoveTask, TaskDies
<1>2. ASSUME NEW t \in Thread, UseConnection(t) PROVE PoolInv'
  BY <1>2, PoolStep DEF UseConnection
<1>3. CASE BeginShutdown \/ JoinNext \/ JoinRaises \/ JoinReturns \/ CloseCheck
  <2>1. UNCHANGED vars
    BY <1>3 DEF BeginShutdown, JoinNext, JoinRaises, JoinReturns, CloseCheck
  <2> QED
    BY <2>1, PoolStutter
<1>4. CASE CloseTake
  BY <1>4, CloseTakeStep
<1>5. CASE UNCHANGED allVars
  BY <1>5, PoolStutter DEF allVars
<1> QED
  BY <1>1, <1>2, <1>3, <1>4, <1>5, PoolStutter DEF ShutdownNext, Shutdown

\* repository.py:420-470: shutdown() closes connections one by one while threads
\* still borrow from the pool; the invariant of the pool survives every such step.
THEOREM ShutdownPoolInvariant == ShutdownSpec => []PoolInv
<1>1. ShutdownInit => PoolInv
  BY PoolInitInv DEF ShutdownInit
<1> QED
  BY <1>1, ShutdownPoolStep, PTL DEF ShutdownSpec

\* repository.py:167-185: a database connection is used by one repository
\* connection at a time, for any number of threads, depth of nesting and faults.
THEOREM OneOwnerHolds == ShutdownSpec => []OneOwner
<1>1. PoolInv => OneOwner
  BY DEF PoolInv
<1> QED
  BY <1>1, ShutdownPoolInvariant, PTL

\* session.py:350, sqlutils.py:190-199: what waits in the pool carries no
\* uncommitted write of the connection that gave it back.
THEOREM CleanWhenFreeHolds == ShutdownSpec => []CleanWhenFree
<1>1. PoolInv => CleanWhenFree
  BY HeldMembers DEF PoolInv, OneOwner, WrittenIsHeld, CleanWhenFree
<1> QED
  BY <1>1, ShutdownPoolInvariant, PTL

\* serverconfig.py:135-139: an open database connection is in the pool, borrowed,
\* or was lost by a connection that raised; shutdown() closes none that is in use.
THEOREM NoneLostHolds == ShutdownSpec => []NoneLost
<1>1. PoolInv => NoneLost
  BY DEF PoolInv
<1> QED
  BY <1>1, ShutdownPoolInvariant, PTL

--------------------------------------------------------------------------------
(* The tasks that shutdown() waits for.                                    *)

(* A task lists itself once: it is listed from before it starts to the     *)
(* moment it removes itself.                                               *)
ListedWhileAlive ==
    /\ IsInjective(runningThreads)
    /\ \A t \in Task : t \in ToSet(runningThreads) <=> taskState[t] \in {"listed", "running"}

(* Only a task that was listed is joined, and only by a shutdown under way. *)
JoinsListed == joining # NoTask => shutdown = "joining" /\ taskState[joining] # "new"

TaskInv ==
    /\ taskState \in [Task -> TaskStates]
    /\ runningThreads \in Seq(Task)
    /\ shutdown \in ShutdownStates
    /\ cursor \in 0..Cardinality(Task)
    /\ joining \in Task \cup {NoTask}
    /\ ListedWhileAlive
    /\ JoinsListed

\* A list without duplicates is not longer than what it lists.
LEMMA ListIsBounded ==
  ASSUME NEW S, IsFiniteSet(S), NEW s \in Seq(S), IsInjective(s)
  PROVE  Len(s) \in Nat /\ Len(s) <= Cardinality(S)
<1>1. Len(s) \in Nat /\ s \in [1..Len(s) -> S]
  BY LenProperties
<1>2. s \in Injection(1..Len(s), S)
  BY <1>1 DEF Injection
<1>3. Cardinality(1..Len(s)) <= Cardinality(S)
  BY <1>2, FS_Injection
<1>4. Cardinality(1..Len(s)) = Len(s)
  BY <1>1, FS_Interval
<1> QED
  BY <1>1, <1>3, <1>4

LEMMA TaskStepInv == TaskInv /\ [ShutdownNext]_allVars => TaskInv'
<1> SUFFICES ASSUME TaskInv, [ShutdownNext]_allVars PROVE TaskInv'
  OBVIOUS
<1>0. /\ taskState \in [Task -> TaskStates] /\ runningThreads \in Seq(Task)
      /\ Injective(runningThreads)
      /\ \A t \in Task : t \in ToSet(runningThreads) <=> taskState[t] \in {"listed", "running"}
  BY InjectiveIsInjective DEF TaskInv, ListedWhileAlive
<1>1. ASSUME NEW t \in Task, ListTask(t) PROVE TaskInv'
  <2>1. /\ taskState[t] = "new" /\ taskState' = [taskState EXCEPT ![t] = "listed"]
        /\ runningThreads' = Append(runningThreads, t)
        /\ UNCHANGED stopping
    BY <1>1 DEF ListTask
  <2>2. t \notin ToSet(runningThreads)
    BY <1>0, <2>1
  <2>3. /\ runningThreads' \in Seq(Task) /\ IsInjective(runningThreads')
        /\ ToSet(runningThreads') = ToSet(runningThreads) \cup {t}
    BY <1>0, <2>1, <2>2, AppendNew, InjectiveIsInjective
  <2>4. ListedWhileAlive'
    BY <1>0, <2>1, <2>3 DEF ListedWhileAlive
  <2> QED
    BY <1>0, <2>1, <2>3, <2>4 DEF TaskInv, JoinsListed, stopping, TaskStates
<1>2. ASSUME NEW t \in Task, StartTask(t) PROVE TaskInv'
  BY <1>0, <1>2 DEF StartTask, TaskInv, ListedWhileAlive, JoinsListed, stopping, TaskStates
<1>3. ASSUME NEW t \in Task, RemoveTask(t) PROVE TaskInv'
  <2>1. /\ taskState[t] = "running" /\ taskState' = [taskState EXCEPT ![t] = "removed"]
        /\ runningThreads' = RemoveFirst(runningThreads, t)
        /\ UNCHANGED stopping
    BY <1>3 DEF RemoveTask
  <2>2. /\ runningThreads' \in Seq(Task) /\ IsInjective(runningThreads')
        /\ ToSet(runningThreads') = ToSet(runningThreads) \ {t}
    BY <1>0, <2>1, RemoveFirstProperties, InjectiveIsInjective
  <2>3. ListedWhileAlive'
    BY <1>0, <2>1, <2>2 DEF ListedWhileAlive
  <2> QED
    BY <1>0, <2>1, <2>2, <2>3 DEF TaskInv, JoinsListed, stopping, TaskStates
<1>4. ASSUME NEW t \in Task, TaskDies(t) PROVE TaskInv'
  BY <1>0, <1>4 DEF TaskDies, TaskInv, ListedWhileAlive, JoinsListed, stopping, TaskStates
<1>5. ASSUME UNCHANGED <<tasks, stopping>> PROVE TaskInv'
  BY <1>5 DEF tasks, stopping, TaskInv, ListedWhileAlive, JoinsListed
<1>6. CASE JoinNext
  <2>1. tasks' = tasks /\ shutdown = "joining" /\ joining = NoTask
    BY <1>6 DEF JoinNext
  <2>2. Len(runningThreads) \in Nat /\ Len(runningThreads) <= Cardinality(Task)
    BY <1>0, TaskAssumption, ListIsBounded, InjectiveIsInjective
  <2>3. Cardinality(Task) \in Nat /\ cursor \in Nat
    BY TaskAssumption, FS_CardinalityType DEF TaskInv
  <2>4. CASE cursor < Len(runningThreads)
    <3>1. cursor' = cursor + 1 /\ joining' = runningThreads[cursor + 1] /\ shutdown' = shutdown
      BY <1>6, <2>4 DEF JoinNext
    <3>2. cursor + 1 \in 1..Len(runningThreads) /\ cursor' \in 0..Cardinality(Task)
      BY <2>2, <2>3, <2>4, <3>1
    <3>3. joining' \in ToSet(runningThreads) /\ joining' \in Task
      BY <1>0, <3>1, <3>2, ToSetProperties
    <3>4. taskState[joining'] # "new"
      BY <1>0, <3>3
    <3> QED
      BY <2>1, <3>1, <3>2, <3>3, <3>4 DEF tasks, TaskInv, ListedWhileAlive, JoinsListed
  <2>5. CASE ~(cursor < Len(runningThreads))
    BY <1>6, <2>1, <2>5 DEF JoinNext, tasks, TaskInv, ListedWhileAlive, JoinsListed, ShutdownStates
  <2> QED
    BY <2>4, <2>5
<1>7. CASE JoinRaises \/ JoinReturns \/ BeginShutdown \/ CloseCheck \/ CloseTake
  <2>1. tasks' = tasks /\ cursor' = cursor /\ shutdown' \in ShutdownStates
    BY <1>7 DEF JoinRaises, JoinReturns, BeginShutdown, CloseCheck, CloseTake, ShutdownStates, TaskInv
  <2>2. joining' \in {joining, NoTask} /\ (joining' # NoTask => shutdown' = "joining")
    BY <1>7 DEF JoinRaises, JoinReturns, BeginShutdown, CloseCheck, CloseTake, TaskInv, JoinsListed
  <2> QED
    BY <2>1, <2>2 DEF tasks, TaskInv, ListedWhileAlive, JoinsListed
<1>8. CASE \E t \in Thread : UseConnection(t)
  BY <1>5, <1>8 DEF UseConnection
<1>9. CASE UNCHANGED allVars
  BY <1>5, <1>9 DEF allVars
<1> QED
  BY <1>1, <1>2, <1>3, <1>4, <1>6, <1>7, <1>8, <1>9 DEF ShutdownNext, Shutdown, TaskStep

\* utils.py:137-150, repository.py:449-455: every variable of shutdown() keeps its
\* type; a task is in the list once, exactly from its registration to its end; and
\* shutdown() joins only tasks that were listed, never more of them than there are.
THEOREM ShutdownTypes == ShutdownSpec => [](ShutdownTypeOK /\ TaskInv)
<1>1. ShutdownInit => TaskInv
  <2> SUFFICES ASSUME ShutdownInit PROVE TaskInv
    OBVIOUS
  <2>1. /\ runningThreads \in Seq(Task) /\ ToSet(runningThreads) = {} /\ IsInjective(runningThreads)
    BY EmptySequence, InjectiveIsInjective DEF ShutdownInit
  <2>2. 0 \in 0..Cardinality(Task)
    BY TaskAssumption, FS_CardinalityType
  <2> QED
    BY <2>1, <2>2 DEF ShutdownInit, TaskInv, ListedWhileAlive, JoinsListed, TaskStates, ShutdownStates
<1>2. PoolInv /\ TaskInv => ShutdownTypeOK
  BY DEF PoolInv, TaskInv, ListedWhileAlive, ShutdownTypeOK
<1> QED
  BY <1>1, <1>2, TaskStepInv, ShutdownPoolInvariant, PTL DEF ShutdownSpec

--------------------------------------------------------------------------------
(* The file storage.                                                       *)

\* The transaction of c wrote the value p in the row of e.
Writes(c, e, p) == e \in DOMAIN written[c] /\ written[c][e] = p

\* It is about to.
Pending(c, e, p) == statement[c] # None /\ statement[c].entity = e /\ statement[c].value = p

Uses(e, p) == row[e] = p \/ \E c \in Cnx : Writes(c, e, p) \/ Pending(c, e, p)

(* Types.  A row is written under its lock, a statement is prepared by     *)
(* ordinary code, and a COMMIT leaves nothing written.                     *)
FileTypes ==
    /\ files \subseteq Path
    /\ row \in [Entity -> Value]
    /\ lock \in [Entity -> Cnx \cup {Nobody}]
    /\ DOMAIN written = Cnx
    /\ statement \in [Cnx -> Statement \cup {None}]
    /\ addFiles \in [Cnx -> SUBSET Path] /\ deleteFiles \in [Cnx -> SUBSET Path]
    /\ stage \in [Cnx -> Stages]
    /\ \A c \in Cnx :
          /\ \A e \in DOMAIN written[c] :
                e \in Entity /\ lock[e] = c /\ written[c][e] \in Value
          /\ statement[c] # None => stage[c] = "query"
          /\ stage[c] = "postcommit" => DOMAIN written[c] = {}

\* Two entities never have the same file.
OneUser == \A p \in Path : \A e, f \in Entity : Uses(e, p) /\ Uses(f, p) => e = f

\* The operations know the files of the statement that waits for its row.
StatementInv ==
    \A c \in Cnx : statement[c] # None =>
        /\ statement[c].value \in Path \ Imports
              => statement[c].value \in addFiles[c] /\ statement[c].value \notin deleteFiles[c]
        /\ statement[c].old \in Path => statement[c].old \in deleteFiles[c]

\* A new file belongs to one transaction; until it commits nobody else has the file.
AddedInv ==
    \A c \in Cnx : \A p \in addFiles[c] :
        /\ p \notin Imports
        /\ \A d \in Cnx \ {c} : p \notin addFiles[d]
        /\ stage[c] # "postcommit" =>
              /\ \A e \in Entity : row[e] # p
              /\ \A d \in Cnx \ {c} :
                    p \notin deleteFiles[d]
                    /\ \A e \in Entity : ~Writes(d, e, p) /\ ~Pending(d, e, p)

PresentInv ==
    /\ \A c \in Cnx : stage[c] = "query" => addFiles[c] \subseteq files
    /\ \A e \in Entity : row[e] \in Path => row[e] \in files \cup doomed
    /\ \A c \in Cnx : stage[c] = "query" =>
          \A e \in DOMAIN written[c] : written[c][e] \in Path => written[c][e] \in files \cup doomed

(* Nobody reads the value that a transaction replaced, but for the row that *)
(* its next statement overwrites; once it committed, nobody at all.         *)
ObsoleteInv ==
    \A c \in Cnx : \A p \in deleteFiles[c] \ doomed : \A e \in Entity :
        /\ stage[c] = "query" /\ (Seen(c, e) = p \/ \E d \in Cnx \ {c} : Writes(d, e, p))
              => statement[c] # None /\ statement[c].entity = e
        /\ stage[c] = "postcommit" => row[e] # p /\ \A d \in Cnx : ~Writes(d, e, p)

\* The committed file of a row with another value is to be unlinked.
ReplacedInv ==
    \A c \in Cnx : \A e \in DOMAIN written[c] :
        row[e] \in files \ Imports /\ written[c][e] # row[e]
           => row[e] \in deleteFiles[c] \cup forgotten

\* The row of p has it, or the operations of a transaction will unlink it.
HasRow(p) == \E e \in Entity : row[e] = p
WillUnlink(c, p) ==
    \/ p \in addFiles[c] /\ stage[c] = "rollback"
    \/ p \in addFiles[c] /\ stage[c] = "query" /\ p \in deleteFiles[c]
    \/ p \in addFiles[c] /\ stage[c] = "query" /\ \E e \in Entity : Writes(c, e, p) \/ Pending(c, e, p)
    \/ p \in deleteFiles[c] /\ stage[c] = "postcommit"
KnownInv ==
    \A p \in files \ (Imports \cup forgotten) : HasRow(p) \/ \E c \in Cnx : WillUnlink(c, p)

FileInv == /\ FileTypes /\ OneUser /\ StatementInv /\ AddedInv
           /\ PresentInv /\ ObsoleteInv /\ ReplacedInv /\ KnownInv

--------------------------------------------------------------------------------

LEMMA InitFileInv == StorageInit => FileInv
<1> SUFFICES ASSUME StorageInit PROVE FileInv
  OBVIOUS
<1>1. /\ files = Imports /\ row = [e \in Entity |-> Absent]
      /\ lock = [e \in Entity |-> Nobody]
      /\ written = [c \in Cnx |-> NoWrites] /\ statement = [c \in Cnx |-> None]
      /\ addFiles = [c \in Cnx |-> {}] /\ deleteFiles = [c \in Cnx |-> {}]
      /\ stage = [c \in Cnx |-> "query"]
  BY DEF StorageInit
<1>2. DOMAIN NoWrites = {}
  BY DEF NoWrites
<1>3. FileTypes
  BY <1>1, <1>2, ImportsAssumption DEF FileTypes, Value, Stages
<1>4. OneUser /\ StatementInv /\ AddedInv
  BY <1>1, <1>2, ValueAssumption DEF OneUser, StatementInv, AddedInv, Uses, Writes, Pending
<1>5. PresentInv /\ ObsoleteInv /\ ReplacedInv /\ KnownInv
  BY <1>1, <1>2, ValueAssumption DEF PresentInv, ObsoleteInv, ReplacedInv, KnownInv
<1> QED
  BY <1>3, <1>4, <1>5 DEF FileInv

--------------------------------------------------------------------------------

\* c prepares a statement that gives e the value v; a path v is a new file or an import.
Prepares(c, e, v) ==
    /\ Free(c)
    /\ \E k \in {"insert", "update", "delete"} : Prepare(c, k, e, v)
    /\ \/ v \in Path /\ NewFile(c, v)
       \/ v \in Path /\ Importable(e, v) /\ UNCHANGED <<files, addFiles, history>>
       \/ v \in {Null, Absent} /\ UNCHANGED <<files, addFiles, history>>
    /\ Obsolete(c, Seen(c, e))
    /\ UNCHANGED <<row, written, lock, stage>>

\* What a connection reads is what the row holds or what it wrote there.
LEMMA SeenIs ==
    ASSUME NEW c \in Cnx, NEW e \in Entity, NEW p, Seen(c, e) = p
    PROVE  row[e] = p \/ Writes(c, e, p)
BY DEF Seen, Writes

LEMMA WritesAreSeen ==
    ASSUME NEW c \in Cnx, NEW e \in Entity, NEW p, Writes(c, e, p)
    PROVE  Seen(c, e) = p
BY DEF Seen, Writes

LEMMA SeenIsValue ==
    ASSUME FileTypes, NEW c \in Cnx, NEW e \in Entity
    PROVE  Seen(c, e) \in Value
BY DEF FileTypes, Seen

LEMMA PreparesAre ==
    ASSUME FileTypes, NEW c \in Cnx, NEW e \in Entity,
           \/ Add(c, e) \/ AddImported(c, e) \/ Update(c, e)
           \/ UpdateToNull(c, e) \/ UpdateImported(c, e) \/ Delete(c, e)
    PROVE  \E v \in Value : Prepares(c, e, v)
<1>1. ASSUME New(e) PROVE Seen(c, e) = Absent
  BY <1>1, NobodyAssumption DEF New, Seen, FileTypes
<1>2. Null \in Value /\ Absent \in Value /\ Path \subseteq Value
  BY DEF Value
<1>3. DOMAIN deleteFiles = Cnx /\ Null \notin Path /\ Absent \notin Path /\ Null # Absent
  BY ValueAssumption DEF FileTypes
<1>4. CASE Add(c, e)
  <2>1. CASE \E p \in Path : NewFile(c, p) /\ Prepare(c, "insert", e, p)
    <3>1. PICK p \in Path : NewFile(c, p) /\ Prepare(c, "insert", e, p)
      BY <2>1
    <3>2. Obsolete(c, Seen(c, e))
      BY <1>1, <1>3, <1>4 DEF Add, Obsolete
    <3>3. Prepares(c, e, p)
      BY <1>4, <3>1, <3>2 DEF Add, Prepares
    <3> QED
      BY <1>2, <3>3
  <2>2. CASE Prepare(c, "insert", e, Null) /\ UNCHANGED <<files, addFiles, history>>
    <3>1. Obsolete(c, Seen(c, e))
      BY <1>1, <1>3, <1>4 DEF Add, Obsolete
    <3>2. Prepares(c, e, Null)
      BY <1>4, <2>2, <3>1 DEF Add, Prepares
    <3> QED
      BY <1>2, <3>2
  <2> QED
    BY <1>4, <2>1, <2>2 DEF Add
<1>5. CASE AddImported(c, e)
  <2>1. PICK p \in Path : Importable(e, p) /\ Prepare(c, "insert", e, p)
    BY <1>5 DEF AddImported
  <2>2. Obsolete(c, Seen(c, e))
    BY <1>1, <1>3, <1>5 DEF AddImported, Obsolete
  <2>3. Prepares(c, e, p)
    BY <1>5, <2>1, <2>2 DEF AddImported, Prepares
  <2> QED
    BY <1>2, <2>3
<1>6. CASE Update(c, e)
  <2>1. PICK p \in Path : NewFile(c, p) /\ Prepare(c, "update", e, p)
    BY <1>6 DEF Update
  <2>2. Prepares(c, e, p)
    BY <1>6, <2>1 DEF Update, Prepares
  <2> QED
    BY <1>2, <2>2
<1>7. CASE UpdateToNull(c, e)
  <2>1. Prepares(c, e, Null)
    BY <1>7 DEF UpdateToNull, Prepares
  <2> QED
    BY <1>2, <2>1
<1>8. CASE UpdateImported(c, e)
  <2>1. PICK p \in Path : Importable(e, p) /\ Prepare(c, "update", e, p)
    BY <1>8 DEF UpdateImported
  <2>2. Prepares(c, e, p)
    BY <1>8, <2>1 DEF UpdateImported, Prepares
  <2> QED
    BY <1>2, <2>2
<1>9. CASE Delete(c, e)
  <2>1. Prepares(c, e, Absent)
    BY <1>9 DEF Delete, Prepares
  <2> QED
    BY <1>2, <2>1
<1> QED
  BY <1>4, <1>5, <1>6, <1>7, <1>8, <1>9

\* A file that is used is not a new one.
LEMMA FreshIsUnused ==
    ASSUME FileInv, NEW v \in Path, FreshName(v)
    PROVE  /\ v \notin files /\ v \notin Imports
           /\ \A e \in Entity : row[e] # v
           /\ \A d \in Cnx : v \notin addFiles[d] /\ v \notin deleteFiles[d]
           /\ \A d \in Cnx, e \in Entity : ~Writes(d, e, v) /\ ~Pending(d, e, v)
<1>1. /\ v \notin files /\ v \notin Imports
      /\ \A e \in Entity : row[e] # v
      /\ \A d \in Cnx : v \notin addFiles[d] /\ v \notin deleteFiles[d]
      /\ \A d \in Cnx, e \in Entity : Seen(d, e) # v
  BY DEF FreshName
<1>2. ASSUME NEW d \in Cnx, NEW e \in Entity PROVE ~Writes(d, e, v)
  BY <1>1, WritesAreSeen
<1>3. ASSUME NEW d \in Cnx, NEW e \in Entity PROVE ~Pending(d, e, v)
  BY <1>1 DEF FileInv, StatementInv, Pending
<1> QED
  BY <1>1, <1>2, <1>3

LEMMA PrepareStep ==
    ASSUME FileInv, NEW c \in Cnx, NEW e \in Entity, NEW v \in Value, Prepares(c, e, v)
    PROVE  FileInv'
<1> DEFINE new == v \in Path \ Imports
<1>1. FileTypes /\ OneUser /\ StatementInv /\ AddedInv /\ PresentInv /\ ObsoleteInv /\ ReplacedInv /\ KnownInv
  BY DEF FileInv
<1>2. /\ statement[c] = None /\ stage[c] = "query"
      /\ UNCHANGED <<row, written, lock, stage>>
  BY DEF Prepares, Free
<1>3. /\ statement'[c] \in Statement /\ statement'[c] # None
      /\ statement'[c].entity = e /\ statement'[c].value = v /\ statement'[c].old = Seen(c, e)
      /\ \A d \in Cnx \ {c} : statement'[d] = statement[d]
      /\ statement' \in [Cnx -> Statement \cup {None}]
  <2>1. PICK k \in {"insert", "update", "delete"} : Prepare(c, k, e, v)
    BY DEF Prepares
  <2> DEFINE s == [kind |-> k, entity |-> e, value |-> v, old |-> Seen(c, e)]
  <2>2. s \in Statement
    BY <1>1, SeenIsValue DEF Statement
  <2>3. statement' = [statement EXCEPT ![c] = s]
    BY <2>1 DEF Prepare
  <2>4. s.entity = e /\ s.value = v /\ s.old = Seen(c, e)
    OBVIOUS
  <2> HIDE DEF s
  <2> QED
    BY <1>1, <2>2, <2>3, <2>4, StatementAssumption DEF FileTypes
<1>4. /\ \A d, x : Seen(d, x)' = Seen(d, x)
      /\ \A d, x, p : Writes(d, x, p)' <=> Writes(d, x, p)
  BY <1>2 DEF Seen, Writes
<1>5. /\ \A x, p : ~Pending(c, x, p) /\ (Pending(c, x, p)' <=> x = e /\ p = v)
      /\ \A d \in Cnx \ {c} : \A x, p : Pending(d, x, p)' <=> Pending(d, x, p)
  BY <1>2, <1>3 DEF Pending
<1>6. /\ \A p : p \in files' <=> p \in files \/ (p = v /\ new)
      /\ \A d \in Cnx : \A p : p \in addFiles'[d] <=> p \in addFiles[d] \/ (d = c /\ p = v /\ new)
      /\ \A p : p \in doomed' <=> p \in doomed /\ ~(p = v /\ new)
      /\ \A p : p \in forgotten' <=> p \in forgotten /\ ~(p = v /\ new)
      /\ new => FreshName(v)
      /\ v \in Path /\ ~new => Importable(e, v)
      /\ DOMAIN addFiles' = Cnx
  <2>1. CASE v \in Path /\ NewFile(c, v)
    <3>1. FreshName(v) /\ new
      BY <2>1 DEF NewFile, FreshName
    <3> QED
      BY <1>1, <2>1, <3>1 DEF NewFile, FileTypes
  <2>2. CASE ~new /\ UNCHANGED <<files, addFiles, history>> /\ (v \in Path => Importable(e, v))
    BY <1>1, <2>2 DEF FileTypes, history
  <2>3. CASE v \in Path /\ Importable(e, v) /\ UNCHANGED <<files, addFiles, history>>
    BY <2>2, <2>3 DEF Importable
  <2>4. CASE v \in {Null, Absent} /\ UNCHANGED <<files, addFiles, history>>
    BY <2>2, <2>4, ValueAssumption
  <2> QED
    BY <2>1, <2>3, <2>4 DEF Prepares
<1>7. new => /\ v \notin files
             /\ \A x \in Entity : row[x] # v
             /\ \A d \in Cnx : v \notin addFiles[d] /\ v \notin deleteFiles[d]
             /\ \A d \in Cnx, x \in Entity : ~Writes(d, x, v) /\ ~Pending(d, x, v)
  BY <1>6, FreshIsUnused
<1>8. v \in Path /\ ~new =>
         \A x \in Entity : x # e =>
            row[x] # v /\ \A d \in Cnx : ~Writes(d, x, v) /\ ~Pending(d, x, v)
  <2> SUFFICES ASSUME v \in Path, ~new, NEW x \in Entity, x # e, NEW d \in Cnx
               PROVE  row[x] # v /\ ~Writes(d, x, v) /\ ~Pending(d, x, v)
    OBVIOUS
  <2>1. Importable(e, v)
    BY <1>6
  <2>2. row[x] # v /\ Seen(d, x) # v /\ (statement[d] # None /\ statement[d].value = v
                                           => statement[d].entity = e)
    BY <2>1 DEF Importable
  <2> QED
    BY <2>2, WritesAreSeen DEF Pending
<1>9. /\ \A d \in Cnx : \A p : p \in deleteFiles'[d] <=>
              p \in deleteFiles[d] \/ (d = c /\ p = Seen(c, e) /\ p \in Path)
      /\ DOMAIN deleteFiles' = Cnx
  BY <1>1 DEF Prepares, Obsolete, FileTypes
<1>10. FileTypes'
  <2>1. files' \subseteq Path
    BY <1>1, <1>6 DEF FileTypes
  <2>2. addFiles' \in [Cnx -> SUBSET Path] /\ deleteFiles' \in [Cnx -> SUBSET Path]
    BY <1>1, <1>6, <1>9 DEF FileTypes, Prepares, NewFile, Obsolete, history
  <2> QED
    BY <1>1, <1>2, <1>3, <2>1, <2>2 DEF FileTypes
<1>11. OneUser'
  <2>1. ASSUME NEW x \in Entity, NEW p, Uses(x, p)'
        PROVE  Uses(x, p) \/ (x = e /\ p = v)
    BY <1>2, <1>4, <1>5, <2>1 DEF Uses
  <2>2. ASSUME v \in Path, NEW x \in Entity, Uses(x, v) PROVE x = e
    BY <1>7, <1>8, <2>2 DEF Uses
  <2> QED
    BY <1>1, <2>1, <2>2 DEF OneUser
<1>12. StatementInv'
  <2>1. ASSUME NEW d \in Cnx \ {c} PROVE addFiles'[d] = addFiles[d] /\ deleteFiles'[d] = deleteFiles[d]
    BY <1>6, <1>9
  <2>2. ASSUME v \in Path \ Imports PROVE v \in addFiles'[c] /\ v \notin deleteFiles'[c]
    <3>1. Seen(c, e) # v
      BY <1>7, <2>2, SeenIs
    <3> QED
      BY <1>6, <1>7, <1>9, <2>2, <3>1
  <2>3. ASSUME Seen(c, e) \in Path PROVE Seen(c, e) \in deleteFiles'[c]
    BY <1>9, <2>3
  <2> QED
    BY <1>1, <1>3, <2>1, <2>2, <2>3 DEF StatementInv
<1>13. AddedInv'
  <2> SUFFICES ASSUME NEW d \in Cnx, NEW p \in addFiles'[d]
               PROVE  /\ p \notin Imports
                      /\ \A b \in Cnx \ {d} : p \notin addFiles'[b]
                      /\ stage[d] # "postcommit" =>
                            /\ \A x \in Entity : row[x] # p
                            /\ \A b \in Cnx \ {d} :
                                  p \notin deleteFiles'[b]
                                  /\ \A x \in Entity : ~Writes(b, x, p) /\ ~Pending(b, x, p)'
    BY <1>2, <1>4 DEF AddedInv
  <2>1. CASE d = c /\ p = v /\ new
    BY <1>5, <1>6, <1>7, <1>9, <2>1
  <2>2. CASE p \in addFiles[d]
    <3>1. /\ p \notin Imports
          /\ \A b \in Cnx \ {d} : p \notin addFiles[b]
          /\ stage[d] # "postcommit" =>
                /\ \A x \in Entity : row[x] # p
                /\ \A b \in Cnx \ {d} :
                      p \notin deleteFiles[b]
                      /\ \A x \in Entity : ~Writes(b, x, p) /\ ~Pending(b, x, p)
      BY <1>1, <2>2 DEF AddedInv
    <3>2. ~(p = v /\ new)
      BY <1>7, <2>2
    <3>3. p \in Path
      BY <1>1, <2>2 DEF FileTypes
    <3>4. p # v
      BY <3>1, <3>2, <3>3
    <3>5. stage[d] # "postcommit" /\ d # c => Seen(c, e) # p
      BY <3>1, SeenIs
    <3> QED
      BY <1>5, <1>6, <1>9, <3>1, <3>4, <3>5
  <2> QED
    BY <1>6, <2>1, <2>2
<1>14. PresentInv'
  <2>1. \A p : p \in files \cup doomed => p \in files' \cup doomed'
    BY <1>6
  <2>2. \A d \in Cnx : stage[d] = "query" => addFiles'[d] \subseteq files'
    BY <1>1, <1>6 DEF PresentInv
  <2> QED
    BY <1>1, <1>2, <2>1, <2>2 DEF PresentInv
<1>15. ObsoleteInv'
  <2> SUFFICES ASSUME NEW d \in Cnx, NEW p \in deleteFiles'[d] \ doomed', NEW x \in Entity
               PROVE  /\ stage[d] = "query" /\ (Seen(d, x) = p \/ \E b \in Cnx \ {d} : Writes(b, x, p))
                            => statement'[d] # None /\ statement'[d].entity = x
                      /\ stage[d] = "postcommit" => row[x] # p /\ \A b \in Cnx : ~Writes(b, x, p)
    BY <1>2, <1>4 DEF ObsoleteInv
  <2>1. CASE p \in deleteFiles[d]
    <3>1. p \notin doomed
      BY <1>6, <1>7, <2>1
    <3>2. /\ stage[d] = "query" /\ (Seen(d, x) = p \/ \E b \in Cnx \ {d} : Writes(b, x, p))
                => statement[d] # None /\ statement[d].entity = x
          /\ stage[d] = "postcommit" => row[x] # p /\ \A b \in Cnx : ~Writes(b, x, p)
      BY <1>1, <2>1, <3>1 DEF ObsoleteInv
    <3> QED
      BY <1>2, <1>3, <3>2
  <2>2. CASE d = c /\ p = Seen(c, e) /\ p \in Path
    <3>1. Uses(e, p)
      BY <2>2, SeenIs DEF Uses
    <3>2. ASSUME Seen(c, x) = p \/ \E b \in Cnx \ {c} : Writes(b, x, p) PROVE x = e
      <4>1. Uses(x, p)
        BY <3>2, SeenIs DEF Uses
      <4> QED
        BY <1>1, <2>2, <3>1, <4>1 DEF OneUser
    <3> QED
      BY <1>2, <1>3, <2>2, <3>2
  <2> QED
    BY <1>9, <2>1, <2>2
<1>16. ReplacedInv'
  <2> SUFFICES ASSUME NEW d \in Cnx, NEW x \in DOMAIN written[d],
                      row[x] \in files' \ Imports, written[d][x] # row[x]
               PROVE  row[x] \in deleteFiles'[d] \cup forgotten'
    BY <1>2 DEF ReplacedInv
  <2>1. x \in Entity
    BY <1>1 DEF FileTypes
  <2>2. row[x] \in files \ Imports
    BY <1>6, <1>7, <2>1
  <2>3. row[x] \in deleteFiles[d] \cup forgotten
    BY <1>1, <2>2 DEF ReplacedInv
  <2> QED
    BY <1>6, <1>7, <1>9, <2>1, <2>3
<1>17. KnownInv'
  <2> SUFFICES ASSUME NEW p \in files', p \notin Imports, p \notin forgotten'
               PROVE  HasRow(p)' \/ \E d \in Cnx : WillUnlink(d, p)'
    BY DEF KnownInv
  <2>1. CASE p = v /\ new
    <3>1. WillUnlink(c, p)'
      BY <1>2, <1>5, <1>6, <2>1 DEF WillUnlink
    <3> QED
      BY <3>1
  <2>2. CASE ~(p = v /\ new)
    <3>1. HasRow(p) \/ \E d \in Cnx : WillUnlink(d, p)
      BY <1>1, <1>6, <2>2 DEF KnownInv
    <3>2. HasRow(p) => HasRow(p)'
      BY <1>2 DEF HasRow
    <3>3. ASSUME NEW d \in Cnx, WillUnlink(d, p) PROVE WillUnlink(d, p)'
      <4>1. \A x \in Entity : Writes(d, x, p) \/ Pending(d, x, p) => Writes(d, x, p)' \/ Pending(d, x, p)'
        BY <1>4, <1>5
      <4>2. p \in addFiles[d] => p \in addFiles'[d]
        BY <1>6
      <4>3. p \in deleteFiles[d] => p \in deleteFiles'[d]
        BY <1>9
      <4> QED
        BY <1>2, <3>3, <4>1, <4>2, <4>3 DEF WillUnlink
    <3> QED
      BY <3>1, <3>2, <3>3
  <2> QED
    BY <2>1, <2>2
<1> QED
  BY <1>10, <1>11, <1>12, <1>13, <1>14, <1>15, <1>16, <1>17 DEF FileInv

LEMMA DiskFullStep ==
    ASSUME FileInv, NEW c \in Cnx, DiskFull(c)
    PROVE  FileInv'
<1>1. FileTypes /\ OneUser /\ StatementInv /\ AddedInv /\ PresentInv /\ ObsoleteInv /\ ReplacedInv /\ KnownInv
  BY DEF FileInv
<1>2. PICK v \in Path : /\ FreshName(v)
                        /\ files' = files \cup {v}
                        /\ forgotten' = forgotten \cup {v}
  BY DEF DiskFull
<1>3. UNCHANGED <<row, lock, written, statement, addFiles, deleteFiles, stage, doomed>>
  BY DEF DiskFull, transaction
<1>4. \A x \in Entity : row[x] # v
  BY <1>2, FreshIsUnused
<1>5. /\ \A d, x : Seen(d, x)' = Seen(d, x)
      /\ \A d, x, p : (Writes(d, x, p)' <=> Writes(d, x, p)) /\ (Pending(d, x, p)' <=> Pending(d, x, p))
      /\ \A x, p : Uses(x, p)' <=> Uses(x, p)
      /\ \A p : (HasRow(p)' <=> HasRow(p)) /\ \A d : WillUnlink(d, p)' <=> WillUnlink(d, p)
  BY <1>3 DEF Seen, Writes, Pending, Uses, HasRow, WillUnlink
<1>6. FileTypes'
  BY <1>1, <1>2, <1>3 DEF FileTypes
<1>7. OneUser' /\ StatementInv' /\ AddedInv'
  BY <1>1, <1>3, <1>5 DEF OneUser, StatementInv, AddedInv
<1>8. PresentInv' /\ ObsoleteInv'
  BY <1>1, <1>2, <1>3, <1>5 DEF PresentInv, ObsoleteInv
<1>9. ReplacedInv'
  BY <1>1, <1>2, <1>3, <1>4 DEF ReplacedInv, FileTypes
<1>10. KnownInv'
  BY <1>1, <1>2, <1>5 DEF KnownInv
<1> QED
  BY <1>6, <1>7, <1>8, <1>9, <1>10 DEF FileInv

LEMMA ExecuteStep ==
    ASSUME FileInv, NEW c \in Cnx, Execute(c)
    PROVE  FileInv'
<1> DEFINE x == statement[c].entity
           v == statement[c].value
           now == Seen(c, x)
<1>1. FileTypes /\ OneUser /\ StatementInv /\ AddedInv /\ PresentInv /\ ObsoleteInv /\ ReplacedInv /\ KnownInv
  BY DEF FileInv
<1>2. /\ statement[c] # None /\ lock[x] \in {c, Nobody}
      /\ statement' = [statement EXCEPT ![c] = None]
      /\ UNCHANGED <<files, row, addFiles, deleteFiles, stage>>
  BY DEF Execute
<1>3. /\ stage[c] = "query" /\ x \in Entity /\ v \in Value
      /\ statement[c] \in Statement
  BY <1>1, <1>2 DEF FileTypes, Statement
<1>4. statement'[c] = None /\ (\A d \in Cnx \ {c} : statement'[d] = statement[d])
      /\ statement' \in [Cnx -> Statement \cup {None}]
  BY <1>1, <1>2 DEF FileTypes
<1>5. /\ Pending(c, x, v)
      /\ \A y, p : Pending(c, y, p) => y = x /\ p = v
      /\ \A y, p : ~Pending(c, y, p)'
      /\ \A d \in Cnx \ {c} : \A y, p : Pending(d, y, p)' <=> Pending(d, y, p)
  BY <1>2, <1>4 DEF Pending
<1>6. \A d \in Cnx \ {c} : \A p : ~Writes(d, x, p)
  BY <1>1, <1>2, NobodyAssumption DEF FileTypes, Writes
\* Of what c replaced nobody reads anything but the row that this statement is for.
<1>7. ASSUME NEW p \in deleteFiles[c], p \notin doomed, NEW y \in Entity
      PROVE  /\ Seen(c, y) = p => y = x
             /\ \A d \in Cnx \ {c} : ~Writes(d, y, p)
  BY <1>1, <1>3, <1>6, <1>7 DEF ObsoleteInv
<1>8. CASE /\ now = Absent
           /\ forgotten' = forgotten \cup ({v} \cap Path)
           /\ UNCHANGED <<lock, written, doomed>>
  <2>1. /\ \A d, y : Seen(d, y)' = Seen(d, y)
        /\ \A d, y, p : Writes(d, y, p)' <=> Writes(d, y, p)
    BY <1>2, <1>8 DEF Seen, Writes
  <2>2. FileTypes'
    BY <1>1, <1>2, <1>4, <1>8 DEF FileTypes
  <2>3. OneUser'
    BY <1>1, <1>2, <1>5, <2>1 DEF OneUser, Uses
  <2>4. StatementInv'
    BY <1>1, <1>2, <1>4 DEF StatementInv
  <2>5. AddedInv'
    BY <1>1, <1>2, <1>5, <2>1 DEF AddedInv
  <2>6. PresentInv' /\ ReplacedInv'
    BY <1>1, <1>2, <1>8 DEF PresentInv, ReplacedInv
  <2>7. ObsoleteInv'
    <3> SUFFICES ASSUME NEW d \in Cnx, NEW p \in deleteFiles[d] \ doomed, NEW y \in Entity
                 PROVE  /\ stage[d] = "query" /\ (Seen(d, y) = p \/ \E b \in Cnx \ {d} : Writes(b, y, p))
                              => statement'[d] # None /\ statement'[d].entity = y
                        /\ stage[d] = "postcommit" => row[y] # p /\ \A b \in Cnx : ~Writes(b, y, p)
      BY <1>2, <1>8, <2>1 DEF ObsoleteInv
    <3>1. CASE d = c
      <4>1. p # Absent
        BY <1>1, <3>1, ValueAssumption DEF FileTypes
      <4> QED
        BY <1>3, <1>7, <1>8, <3>1, <4>1
    <3>2. CASE d # c
      BY <1>1, <1>4, <3>2 DEF ObsoleteInv
    <3> QED
      BY <3>1, <3>2
  <2>8. KnownInv'
    <3> SUFFICES ASSUME NEW p \in files, p \notin Imports, p \notin forgotten'
                 PROVE  HasRow(p)' \/ \E d \in Cnx : WillUnlink(d, p)'
      BY <1>2 DEF KnownInv
    <3>1. HasRow(p) \/ \E d \in Cnx : WillUnlink(d, p)
      BY <1>1, <1>8 DEF KnownInv
    <3>2. HasRow(p) => HasRow(p)'
      BY <1>2 DEF HasRow
    <3>3. \A y \in Entity : ~Pending(c, y, p)
      BY <1>1, <1>5, <1>8 DEF FileTypes
    <3>4. ASSUME NEW d \in Cnx, WillUnlink(d, p) PROVE WillUnlink(d, p)'
      <4>1. \A y \in Entity : Writes(d, y, p) \/ Pending(d, y, p) => Writes(d, y, p)' \/ Pending(d, y, p)'
        BY <1>5, <2>1, <3>3
      <4> QED
        BY <1>2, <3>4, <4>1 DEF WillUnlink
    <3> QED
      BY <3>1, <3>2, <3>4
  <2> QED
    BY <2>2, <2>3, <2>4, <2>5, <2>6, <2>7, <2>8 DEF FileInv
<1>9. CASE /\ lock' = [lock EXCEPT ![x] = c]
           /\ written' = [written EXCEPT ![c] =
                              [y \in DOMAIN written[c] \cup {x} |->
                                  IF y = x THEN v ELSE written[c][y]]]
           /\ forgotten' = forgotten \cup (({now} \ {statement[c].old}) \cap Path)
           /\ doomed' = doomed \cup ({v} \cap Replaced)
  <2>1. /\ DOMAIN written'[c] = DOMAIN written[c] \cup {x}
        /\ written'[c][x] = v
        /\ \A y \in DOMAIN written[c] : y # x => written'[c][y] = written[c][y]
        /\ \A d \in Cnx \ {c} : written'[d] = written[d]
        /\ DOMAIN written' = Cnx
    BY <1>1, <1>9 DEF FileTypes
  <2>2. /\ \A y, p : Writes(c, y, p)' <=> IF y = x THEN p = v ELSE Writes(c, y, p)
        /\ \A d \in Cnx \ {c} : \A y, p : Writes(d, y, p)' <=> Writes(d, y, p)
    BY <2>1 DEF Writes
  <2>3. /\ \A y : Seen(c, y)' = IF y = x THEN v ELSE Seen(c, y)
        /\ \A d \in Cnx \ {c} : \A y : Seen(d, y)' = Seen(d, y)
    BY <1>2, <2>1 DEF Seen
  \* An imported file that another transaction replaces is doomed, a new one is on disk.
  <2>4. /\ v \in Path \ Imports => /\ v \in addFiles[c] /\ v \in files
                                   /\ \A d \in Cnx : v \notin deleteFiles[d]
        /\ v \in Imports /\ v \notin doomed' => /\ v \in files
                                                /\ \A d \in Cnx : v \notin deleteFiles[d]
    <3>1. ASSUME v \in Path \ Imports
          PROVE  /\ v \in addFiles[c] /\ v \in files
                 /\ \A d \in Cnx : v \notin deleteFiles[d]
      <4>1. v \in addFiles[c] /\ v \notin deleteFiles[c]
        BY <1>1, <1>2, <3>1 DEF StatementInv
      <4> QED
        BY <1>1, <1>3, <4>1 DEF AddedInv, PresentInv
    <3>2. ASSUME v \in Imports, v \notin doomed'
          PROVE  v \in files /\ \A d \in Cnx : v \notin deleteFiles[d]
      <4>1. v \notin Replaced
        BY <1>9, <3>2
      <4> QED
        BY <3>2, <4>1 DEF Replaced
    <3> QED
      BY <3>1, <3>2
  \* What c replaces in the row is known to its operations.
  <2>5. ASSUME now \in Path, now # v PROVE now \in deleteFiles[c] \cup forgotten'
    <3>1. CASE now = statement[c].old
      BY <1>1, <1>2, <2>5, <3>1 DEF StatementInv
    <3>2. CASE now # statement[c].old
      BY <1>9, <2>5, <3>2
    <3> QED
      BY <3>1, <3>2
  <2>6. FileTypes'
    <3>1. lock' \in [Entity -> Cnx \cup {Nobody}] /\ lock'[x] = c
          /\ \A y \in Entity \ {x} : lock'[y] = lock[y]
      BY <1>1, <1>3, <1>9 DEF FileTypes
    <3>2. ASSUME NEW d \in Cnx, NEW y \in DOMAIN written'[d]
          PROVE  y \in Entity /\ lock'[y] = d /\ written'[d][y] \in Value
      <4>1. CASE d = c
        BY <1>1, <1>3, <2>1, <3>1, <3>2, <4>1 DEF FileTypes
      <4>2. CASE d # c
        <5>1. y # x
          BY <1>6, <2>1, <3>2, <4>2 DEF Writes
        <5> QED
          BY <1>1, <2>1, <3>1, <3>2, <4>2, <5>1 DEF FileTypes
      <4> QED
        BY <4>1, <4>2
    <3>3. \A d \in Cnx : stage[d] = "postcommit" => DOMAIN written'[d] = {}
      BY <1>1, <1>3, <2>1 DEF FileTypes
    <3> QED
      BY <1>1, <1>2, <1>4, <2>1, <3>1, <3>2, <3>3 DEF FileTypes
  <2>7. OneUser'
    <3>1. ASSUME NEW y \in Entity, NEW p, Uses(y, p)' PROVE Uses(y, p)
      BY <1>2, <1>5, <2>2, <3>1 DEF Uses
    <3> QED
      BY <1>1, <3>1 DEF OneUser
  <2>8. StatementInv'
    BY <1>1, <1>2, <1>4 DEF StatementInv
  <2>9. AddedInv'
    <3>1. ASSUME NEW b \in Cnx, NEW y \in Entity, NEW p, ~Writes(b, y, p), ~Pending(b, y, p)
          PROVE  ~Writes(b, y, p)' /\ ~Pending(b, y, p)'
      BY <1>5, <2>2, <3>1
    <3> QED
      BY <1>1, <1>2, <3>1 DEF AddedInv
  <2>10. PresentInv'
    <3>1. v \in Path => v \in files' \cup doomed'
      BY <1>2, <2>4
    <3>2. doomed \subseteq doomed'
      BY <1>9
    <3>3. ASSUME NEW d \in Cnx, stage[d] = "query", NEW y \in DOMAIN written'[d], written'[d][y] \in Path
          PROVE  written'[d][y] \in files' \cup doomed'
      <4>1. CASE d = c /\ y = x
        BY <2>1, <3>1, <3>3, <4>1
      <4>2. CASE ~(d = c /\ y = x)
        <5>1. y \in DOMAIN written[d] /\ written'[d][y] = written[d][y]
          BY <2>1, <3>3, <4>2
        <5> QED
          BY <1>1, <1>2, <3>2, <3>3, <5>1 DEF PresentInv
      <4> QED
        BY <4>1, <4>2
    <3> QED
      BY <1>1, <1>2, <3>2, <3>3 DEF PresentInv
  <2>11. ObsoleteInv'
    <3> SUFFICES ASSUME NEW d \in Cnx, NEW p \in deleteFiles[d], p \notin doomed', NEW y \in Entity
                 PROVE  /\ stage[d] = "query" /\ (Seen(d, y)' = p \/ \E b \in Cnx \ {d} : Writes(b, y, p)')
                              => statement'[d] # None /\ statement'[d].entity = y
                        /\ stage[d] = "postcommit" => row[y] # p /\ \A b \in Cnx : ~Writes(b, y, p)'
      BY <1>2 DEF ObsoleteInv
    <3>1. p \notin doomed /\ p \in Path
      BY <1>1, <1>9 DEF FileTypes
    <3>2. p # v
      BY <2>4, <3>1
    <3>3. CASE d = c
      <4>1. Seen(c, y)' # p
        BY <1>7, <2>3, <3>1, <3>2, <3>3
      <4>2. \A b \in Cnx \ {c} : ~Writes(b, y, p)'
        BY <1>7, <2>2, <3>1, <3>3
      <4> QED
        BY <1>3, <3>3, <4>1, <4>2
    <3>4. CASE d # c
      <4>1. /\ stage[d] = "query" /\ (Seen(d, y) = p \/ \E b \in Cnx \ {d} : Writes(b, y, p))
                  => statement[d] # None /\ statement[d].entity = y
            /\ stage[d] = "postcommit" => row[y] # p /\ \A b \in Cnx : ~Writes(b, y, p)
        BY <1>1, <3>1 DEF ObsoleteInv
      <4>2. \A b \in Cnx : Writes(b, y, p)' => Writes(b, y, p)
        BY <2>2, <3>2
      <4> QED
        BY <1>4, <2>3, <3>4, <4>1, <4>2
    <3> QED
      BY <3>3, <3>4
  <2>12. ReplacedInv'
    <3> SUFFICES ASSUME NEW d \in Cnx, NEW y \in DOMAIN written'[d],
                        row[y] \in files \ Imports, written'[d][y] # row[y]
                 PROVE  row[y] \in deleteFiles[d] \cup forgotten'
      BY <1>2 DEF ReplacedInv
    <3>1. CASE d = c /\ y = x
      <4>1. row[x] \in Path /\ v # row[x]
        BY <1>1, <2>1, <3>1 DEF FileTypes
      <4>2. CASE x \in DOMAIN written[c] /\ written[c][x] # row[x]
        BY <1>1, <1>9, <3>1, <4>2 DEF ReplacedInv
      <4>3. CASE ~(x \in DOMAIN written[c] /\ written[c][x] # row[x])
        <5>1. now = row[x]
          BY <4>3 DEF Seen
        <5> QED
          BY <2>5, <3>1, <4>1, <5>1
      <4> QED
        BY <4>2, <4>3
    <3>2. CASE ~(d = c /\ y = x)
      <4>1. y \in DOMAIN written[d] /\ written'[d][y] = written[d][y]
        BY <2>1, <3>2
      <4> QED
        BY <1>1, <1>9, <4>1 DEF ReplacedInv
    <3> QED
      BY <3>1, <3>2
  <2>13. KnownInv'
    <3> SUFFICES ASSUME NEW p \in files, p \notin Imports, p \notin forgotten'
                 PROVE  HasRow(p)' \/ \E d \in Cnx : WillUnlink(d, p)'
      BY <1>2 DEF KnownInv
    <3>1. HasRow(p) \/ \E d \in Cnx : WillUnlink(d, p)
      BY <1>1, <1>9 DEF KnownInv
    <3>2. HasRow(p) => HasRow(p)'
      BY <1>2 DEF HasRow
    <3>3. ASSUME NEW d \in Cnx, WillUnlink(d, p) PROVE WillUnlink(d, p)'
      <4>1. CASE \E y \in Entity : Writes(d, y, p)' \/ Pending(d, y, p)'
        BY <1>2, <3>3, <4>1 DEF WillUnlink
      <4>2. CASE \A y \in Entity : ~Writes(d, y, p) /\ ~Pending(d, y, p)
        BY <1>2, <3>3, <4>2 DEF WillUnlink
      <4>3. CASE d = c /\ Writes(c, x, p) /\ p # v
        <5>1. now = p /\ p \in Path
          BY <1>1, <4>3, WritesAreSeen, <1>3 DEF FileTypes
        <5>2. p \in deleteFiles[c]
          BY <2>5, <4>3, <5>1
        <5> QED
          BY <1>2, <3>3, <4>3, <5>2 DEF WillUnlink
      <4> QED
        BY <1>3, <1>5, <2>2, <4>1, <4>2, <4>3
    <3> QED
      BY <3>1, <3>2, <3>3
  <2> QED
    BY <2>6, <2>7, <2>8, <2>9, <2>10, <2>11, <2>12, <2>13 DEF FileInv
<1> QED
  BY <1>8, <1>9 DEF Execute

\* The end of the database transaction of c leaves the other connections alone.
LEMMA UndoneIs ==
    ASSUME FileTypes, NEW c \in Cnx, Undone(c)
    PROVE  /\ DOMAIN written' = Cnx /\ DOMAIN written'[c] = {}
           /\ \A d \in Cnx \ {c} : written'[d] = written[d]
           /\ statement' \in [Cnx -> Statement \cup {None}] /\ statement'[c] = None
           /\ \A d \in Cnx \ {c} : statement'[d] = statement[d]
           /\ lock' \in [Entity -> Cnx \cup {Nobody}]
           /\ \A e \in Entity : \A d \in Cnx \ {c} : lock[e] = d => lock'[e] = d
           /\ \A e, p : ~Writes(c, e, p)' /\ ~Pending(c, e, p)'
           /\ \A d \in Cnx \ {c} : \A e, p : /\ Writes(d, e, p)' <=> Writes(d, e, p)
                                             /\ Pending(d, e, p)' <=> Pending(d, e, p)
           /\ \A d \in Cnx : \A e \in DOMAIN written'[d] :
                 /\ d # c /\ e \in DOMAIN written[d] /\ written'[d][e] = written[d][e]
                 /\ e \in Entity /\ lock'[e] = d /\ written'[d][e] \in Value
<1>1. /\ DOMAIN written' = Cnx /\ DOMAIN written'[c] = {}
      /\ \A d \in Cnx \ {c} : written'[d] = written[d]
  BY DEF Undone, FileTypes, NoWrites
<1>2. /\ statement' \in [Cnx -> Statement \cup {None}] /\ statement'[c] = None
      /\ \A d \in Cnx \ {c} : statement'[d] = statement[d]
  BY DEF Undone, FileTypes
<1>3. /\ lock' \in [Entity -> Cnx \cup {Nobody}]
      /\ \A e \in Entity : \A d \in Cnx \ {c} : lock[e] = d => lock'[e] = d
  BY DEF Undone, Unlocked, FileTypes
<1>4. /\ \A e, p : ~Writes(c, e, p)' /\ ~Pending(c, e, p)'
      /\ \A d \in Cnx \ {c} : \A e, p : /\ Writes(d, e, p)' <=> Writes(d, e, p)
                                        /\ Pending(d, e, p)' <=> Pending(d, e, p)
  BY <1>1, <1>2 DEF Writes, Pending
<1>5. \A d \in Cnx : \A e \in DOMAIN written'[d] :
         /\ d # c /\ e \in DOMAIN written[d] /\ written'[d][e] = written[d][e]
         /\ e \in Entity /\ lock'[e] = d /\ written'[d][e] \in Value
  BY <1>1, <1>3 DEF FileTypes
<1> QED
  BY <1>1, <1>2, <1>3, <1>4, <1>5

(* The transaction of c is over without a COMMIT: what its operations held *)
(* is forgotten, or they have nothing left to unlink.                      *)
LEMMA UndoneStep ==
    ASSUME FileInv, NEW c \in Cnx, Undone(c), UNCHANGED <<files, row>>,
           addFiles' \in [Cnx -> SUBSET Path], deleteFiles' \in [Cnx -> SUBSET Path],
           stage' \in [Cnx -> Stages],
           addFiles'[c] \subseteq addFiles[c], stage'[c] = "query",
           stage[c] \in {"query", "rollback"},
           stage[c] = "query" \/ addFiles'[c] = {},
           addFiles[c] \subseteq forgotten', deleteFiles'[c] \subseteq deleteFiles[c],
           deleteFiles'[c] \subseteq doomed',
           \A d \in Cnx \ {c} : /\ addFiles'[d] = addFiles[d] /\ deleteFiles'[d] = deleteFiles[d]
                                /\ stage'[d] = stage[d],
           doomed \subseteq doomed', forgotten \subseteq forgotten'
    PROVE  FileInv'
<1>1. FileTypes /\ OneUser /\ StatementInv /\ AddedInv /\ PresentInv /\ ObsoleteInv /\ ReplacedInv /\ KnownInv
  BY DEF FileInv
<1>2. /\ DOMAIN written' = Cnx /\ DOMAIN written'[c] = {}
      /\ \A d \in Cnx \ {c} : written'[d] = written[d]
      /\ statement' \in [Cnx -> Statement \cup {None}] /\ statement'[c] = None
      /\ \A d \in Cnx \ {c} : statement'[d] = statement[d]
      /\ lock' \in [Entity -> Cnx \cup {Nobody}]
      /\ \A d \in Cnx : \A e \in DOMAIN written'[d] :
            /\ d # c /\ e \in DOMAIN written[d] /\ written'[d][e] = written[d][e]
            /\ e \in Entity /\ lock'[e] = d /\ written'[d][e] \in Value
  BY <1>1, UndoneIs
<1>3. /\ \A e, p : ~Writes(c, e, p)' /\ ~Pending(c, e, p)'
      /\ \A d \in Cnx \ {c} : \A e, p : /\ Writes(d, e, p)' <=> Writes(d, e, p)
                                        /\ Pending(d, e, p)' <=> Pending(d, e, p)
  BY <1>1, UndoneIs
<1>4. \A d \in Cnx \ {c} : \A e : Seen(d, e)' = Seen(d, e)
  BY <1>2 DEF Seen
<1>5. FileTypes'
  BY <1>1, <1>2 DEF FileTypes
<1>6. OneUser'
  BY <1>1, <1>3 DEF OneUser, Uses
<1>7. StatementInv'
  BY <1>1, <1>2 DEF StatementInv
<1>8. AddedInv'
  BY <1>1, <1>3 DEF AddedInv
<1>9. PresentInv'
  BY <1>1, <1>2 DEF PresentInv
<1>10. ObsoleteInv'
  <2> SUFFICES ASSUME NEW d \in Cnx, NEW p \in deleteFiles'[d] \ doomed', NEW e \in Entity
               PROVE  /\ stage'[d] = "query"
                            /\ (Seen(d, e)' = p \/ \E b \in Cnx \ {d} : Writes(b, e, p)')
                            => statement'[d] # None /\ statement'[d].entity = e
                      /\ stage'[d] = "postcommit" => row[e] # p /\ \A b \in Cnx : ~Writes(b, e, p)'
    BY DEF ObsoleteInv
  <2>1. d # c /\ p \in deleteFiles[d] \ doomed
    OBVIOUS
  <2>2. /\ stage[d] = "query" /\ (Seen(d, e) = p \/ \E b \in Cnx \ {d} : Writes(b, e, p))
              => statement[d] # None /\ statement[d].entity = e
        /\ stage[d] = "postcommit" => row[e] # p /\ \A b \in Cnx : ~Writes(b, e, p)
    BY <1>1, <2>1 DEF ObsoleteInv
  <2>3. \A b \in Cnx : Writes(b, e, p)' => Writes(b, e, p)
    BY <1>3
  <2> QED
    BY <1>2, <1>4, <2>1, <2>2, <2>3
<1>11. ReplacedInv'
  BY <1>1, <1>2 DEF ReplacedInv
<1>12. KnownInv'
  <2> SUFFICES ASSUME NEW p \in files, p \notin Imports, p \notin forgotten'
               PROVE  HasRow(p)' \/ \E d \in Cnx : WillUnlink(d, p)'
    BY DEF KnownInv
  <2>1. HasRow(p) \/ \E d \in Cnx : WillUnlink(d, p)
    BY <1>1 DEF KnownInv
  <2>2. HasRow(p) => HasRow(p)'
    BY DEF HasRow
  <2>3. ~WillUnlink(c, p)
    BY DEF WillUnlink
  <2>4. ASSUME NEW d \in Cnx \ {c}, WillUnlink(d, p) PROVE WillUnlink(d, p)'
    BY <1>3, <2>4 DEF WillUnlink
  <2> QED
    BY <2>1, <2>2, <2>3, <2>4
<1> QED
  BY <1>5, <1>6, <1>7, <1>8, <1>9, <1>10, <1>11, <1>12 DEF FileInv

LEMMA ClearIs ==
    ASSUME FileTypes, NEW c \in Cnx, Clear(c)
    PROVE  /\ addFiles' \in [Cnx -> SUBSET Path] /\ deleteFiles' \in [Cnx -> SUBSET Path]
           /\ stage' \in [Cnx -> Stages]
           /\ addFiles'[c] = {} /\ deleteFiles'[c] = {} /\ stage'[c] = "query"
           /\ \A d \in Cnx \ {c} : /\ addFiles'[d] = addFiles[d] /\ deleteFiles'[d] = deleteFiles[d]
                                   /\ stage'[d] = stage[d]
BY DEF Clear, FileTypes, Stages

LEMMA DbRollbackStep ==
    ASSUME FileInv, NEW c \in Cnx, DbRollback(c)
    PROVE  FileInv'
<1>1. FileTypes
  BY DEF FileInv
<1>2. /\ stage[c] = "query" /\ Undone(c)
      /\ doomed' = doomed \cup deleteFiles[c]
      /\ forgotten' = forgotten \cup addFiles[c]
      /\ UNCHANGED <<files, row, addFiles, deleteFiles, stage>>
  BY DEF DbRollback
<1>3. /\ addFiles \in [Cnx -> SUBSET Path] /\ deleteFiles \in [Cnx -> SUBSET Path]
      /\ stage \in [Cnx -> Stages]
  BY <1>1 DEF FileTypes
<1> QED
  BY <1>2, <1>3, UndoneStep

LEMMA DbCommitFailsStep ==
    ASSUME FileInv, NEW c \in Cnx, DbCommitFails(c)
    PROVE  FileInv'
<1>1. FileTypes
  BY DEF FileInv
<1>2. /\ stage[c] = "query" /\ Undone(c) /\ Clear(c)
      /\ forgotten' = forgotten \cup addFiles[c]
      /\ UNCHANGED <<files, row, doomed>>
  BY DEF DbCommitFails, Free
<1>3. /\ addFiles' \in [Cnx -> SUBSET Path] /\ deleteFiles' \in [Cnx -> SUBSET Path]
      /\ stage' \in [Cnx -> Stages]
      /\ addFiles'[c] = {} /\ deleteFiles'[c] = {} /\ stage'[c] = "query"
      /\ \A d \in Cnx \ {c} : /\ addFiles'[d] = addFiles[d] /\ deleteFiles'[d] = deleteFiles[d]
                              /\ stage'[d] = stage[d]
  BY <1>1, <1>2, ClearIs
<1> QED
  BY <1>2, <1>3, UndoneStep

LEMMA RollbackReturnsStep ==
    ASSUME FileInv, NEW c \in Cnx, RollbackReturns(c)
    PROVE  FileInv'
<1>1. FileTypes
  BY DEF FileInv
<1>2. /\ stage[c] = "rollback" /\ addFiles[c] = {} /\ Undone(c) /\ Clear(c)
      /\ UNCHANGED <<files, row, doomed, forgotten>>
  BY DEF RollbackReturns, history
<1>3. /\ addFiles' \in [Cnx -> SUBSET Path] /\ deleteFiles' \in [Cnx -> SUBSET Path]
      /\ stage' \in [Cnx -> Stages]
      /\ addFiles'[c] = {} /\ deleteFiles'[c] = {} /\ stage'[c] = "query"
      /\ \A d \in Cnx \ {c} : /\ addFiles'[d] = addFiles[d] /\ deleteFiles'[d] = deleteFiles[d]
                              /\ stage'[d] = stage[d]
  BY <1>1, <1>2, ClearIs
<1> QED
  BY <1>2, <1>3, UndoneStep

LEMMA DbCommitStep ==
    ASSUME FileInv, NEW c \in Cnx, DbCommit(c)
    PROVE  FileInv'
<1>1. FileTypes /\ OneUser /\ StatementInv /\ AddedInv /\ PresentInv /\ ObsoleteInv /\ ReplacedInv /\ KnownInv
  BY DEF FileInv
<1>2. /\ stage[c] = "query" /\ statement[c] = None /\ Undone(c)
      /\ row' = [e \in Entity |-> Seen(c, e)]
      /\ stage' = [stage EXCEPT ![c] = "postcommit"]
      /\ UNCHANGED <<files, addFiles, deleteFiles, doomed, forgotten>>
  BY DEF DbCommit, Free, history
<1>3. /\ DOMAIN written' = Cnx /\ DOMAIN written'[c] = {}
      /\ \A d \in Cnx \ {c} : written'[d] = written[d]
      /\ statement' \in [Cnx -> Statement \cup {None}] /\ statement'[c] = None
      /\ \A d \in Cnx \ {c} : statement'[d] = statement[d]
      /\ lock' \in [Entity -> Cnx \cup {Nobody}]
      /\ \A d \in Cnx : \A e \in DOMAIN written'[d] :
            /\ d # c /\ e \in DOMAIN written[d] /\ written'[d][e] = written[d][e]
            /\ e \in Entity /\ lock'[e] = d /\ written'[d][e] \in Value
  BY <1>1, <1>2, UndoneIs
<1>4. /\ \A e, p : ~Writes(c, e, p)' /\ ~Pending(c, e, p)'
      /\ \A d \in Cnx \ {c} : \A e, p : /\ Writes(d, e, p)' <=> Writes(d, e, p)
                                        /\ Pending(d, e, p)' <=> Pending(d, e, p)
  BY <1>1, <1>2, UndoneIs
<1>5. /\ \A e \in Entity : row'[e] = Seen(c, e) /\ (row'[e] = row[e] \/ Writes(c, e, row'[e]))
      /\ \A e \in Entity : e \notin DOMAIN written[c] => row'[e] = row[e]
      /\ \A e \in Entity : \A p : Writes(c, e, p) => row'[e] = p
  BY <1>2 DEF Seen, Writes
<1>6. \A d \in Cnx \ {c} : \A e \in DOMAIN written[d] : e \notin DOMAIN written[c]
  BY <1>1 DEF FileTypes
<1>7. stage'[c] = "postcommit" /\ (\A d \in Cnx \ {c} : stage'[d] = stage[d])
      /\ stage' \in [Cnx -> Stages]
  BY <1>1, <1>2 DEF FileTypes, Stages
<1>8. FileTypes'
  <2>1. row' \in [Entity -> Value]
    BY <1>1, <1>2, SeenIsValue
  <2> QED
    BY <1>1, <1>2, <1>3, <1>7, <2>1 DEF FileTypes
<1>9. OneUser'
  <2>1. ASSUME NEW e \in Entity, NEW p, Uses(e, p)' PROVE Uses(e, p)
    BY <1>4, <1>5, <2>1 DEF Uses
  <2> QED
    BY <1>1, <2>1 DEF OneUser
<1>10. StatementInv'
  BY <1>1, <1>2, <1>3 DEF StatementInv
<1>11. AddedInv'
  <2> SUFFICES ASSUME NEW d \in Cnx, NEW p \in addFiles[d]
               PROVE  /\ p \notin Imports
                      /\ \A b \in Cnx \ {d} : p \notin addFiles[b]
                      /\ stage'[d] # "postcommit" =>
                            /\ \A e \in Entity : row'[e] # p
                            /\ \A b \in Cnx \ {d} :
                                  p \notin deleteFiles[b]
                                  /\ \A e \in Entity : ~Writes(b, e, p)' /\ ~Pending(b, e, p)'
    BY <1>2 DEF AddedInv
  <2>1. /\ p \notin Imports
        /\ \A b \in Cnx \ {d} : p \notin addFiles[b]
        /\ stage[d] # "postcommit" =>
              /\ \A e \in Entity : row[e] # p
              /\ \A b \in Cnx \ {d} :
                    p \notin deleteFiles[b]
                    /\ \A e \in Entity : ~Writes(b, e, p) /\ ~Pending(b, e, p)
    BY <1>1 DEF AddedInv
  <2>2. stage'[d] # "postcommit" => d # c /\ stage[d] # "postcommit"
    BY <1>7
  <2>3. stage'[d] # "postcommit" => \A e \in Entity : row'[e] # p
    BY <1>5, <2>1, <2>2
  <2> QED
    BY <1>4, <2>1, <2>2, <2>3
<1>12. PresentInv'
  <2>1. ASSUME NEW e \in Entity, row'[e] \in Path PROVE row'[e] \in files \cup doomed
    BY <1>1, <1>2, <1>5, <2>1 DEF PresentInv, Writes
  <2> QED
    BY <1>1, <1>2, <1>3, <1>7, <2>1 DEF PresentInv
<1>13. ObsoleteInv'
  <2> SUFFICES ASSUME NEW d \in Cnx, NEW p \in deleteFiles[d] \ doomed, NEW e \in Entity
               PROVE  /\ stage'[d] = "query"
                            /\ (Seen(d, e)' = p \/ \E b \in Cnx \ {d} : Writes(b, e, p)')
                            => statement'[d] # None /\ statement'[d].entity = e
                      /\ stage'[d] = "postcommit" => row'[e] # p /\ \A b \in Cnx : ~Writes(b, e, p)'
    BY <1>2 DEF ObsoleteInv
  <2>1. /\ stage[d] = "query" /\ (Seen(d, e) = p \/ \E b \in Cnx \ {d} : Writes(b, e, p))
              => statement[d] # None /\ statement[d].entity = e
        /\ stage[d] = "postcommit" => row[e] # p /\ \A b \in Cnx : ~Writes(b, e, p)
    BY <1>1 DEF ObsoleteInv
  <2>2. \A b \in Cnx : Writes(b, e, p)' => b # c /\ Writes(b, e, p)
    BY <1>4
  <2>3. CASE d = c
    BY <1>2, <1>5, <1>7, <2>1, <2>2, <2>3
  <2>4. CASE d # c
    <3>1. ASSUME Seen(d, e)' = p PROVE Seen(d, e) = p \/ Writes(c, e, p)
      <4>1. CASE e \in DOMAIN written[d]
        BY <1>3, <2>4, <3>1, <4>1 DEF Seen
      <4>2. CASE e \notin DOMAIN written[d]
        <5>1. row'[e] = p
          BY <1>3, <2>4, <3>1, <4>2 DEF Seen
        <5> QED
          BY <1>5, <4>2, <5>1 DEF Seen
      <4> QED
        BY <4>1, <4>2
    <3>2. row'[e] = p => row[e] = p \/ Writes(c, e, p)
      BY <1>5
    <3> QED
      BY <1>3, <1>7, <2>1, <2>2, <2>4, <3>1, <3>2
  <2> QED
    BY <2>3, <2>4
<1>14. ReplacedInv'
  <2> SUFFICES ASSUME NEW d \in Cnx, NEW e \in DOMAIN written'[d],
                      row'[e] \in files \ Imports, written'[d][e] # row'[e]
               PROVE  row'[e] \in deleteFiles[d] \cup forgotten
    BY <1>2 DEF ReplacedInv
  <2>1. d # c /\ e \in DOMAIN written[d] /\ written'[d][e] = written[d][e] /\ e \in Entity
    BY <1>3
  <2>2. row'[e] = row[e]
    BY <1>5, <1>6, <2>1
  <2> QED
    BY <1>1, <2>1, <2>2 DEF ReplacedInv
<1>15. KnownInv'
  <2> SUFFICES ASSUME NEW p \in files, p \notin Imports, p \notin forgotten
               PROVE  HasRow(p)' \/ \E d \in Cnx : WillUnlink(d, p)'
    BY <1>2 DEF KnownInv
  <2>1. HasRow(p) \/ \E d \in Cnx : WillUnlink(d, p)
    BY <1>1 DEF KnownInv
  <2>2. CASE HasRow(p)
    <3>1. PICK e \in Entity : row[e] = p
      BY <2>2 DEF HasRow
    <3>2. CASE e \in DOMAIN written[c] /\ written[c][e] # p
      <4>1. p \in deleteFiles[c]
        BY <1>1, <3>1, <3>2 DEF ReplacedInv
      <4>2. WillUnlink(c, p)'
        BY <1>2, <1>7, <4>1 DEF WillUnlink
      <4> QED
        BY <4>2
    <3>3. CASE ~(e \in DOMAIN written[c] /\ written[c][e] # p)
      <4>1. row'[e] = p
        BY <1>5, <3>1, <3>3 DEF Writes
      <4> QED
        BY <4>1 DEF HasRow
    <3> QED
      BY <3>2, <3>3
  <2>3. CASE WillUnlink(c, p)
    <3>1. CASE p \in deleteFiles[c]
      <4>1. WillUnlink(c, p)'
        BY <1>2, <1>7, <3>1 DEF WillUnlink
      <4> QED
        BY <4>1
    <3>2. CASE \E e \in Entity : Writes(c, e, p)
      BY <1>5, <3>2 DEF HasRow
    <3> QED
      BY <1>2, <2>3, <3>1, <3>2 DEF WillUnlink, Pending
  <2>4. ASSUME NEW d \in Cnx \ {c}, WillUnlink(d, p) PROVE WillUnlink(d, p)'
    BY <1>2, <1>4, <1>7, <2>4 DEF WillUnlink
  <2> QED
    BY <2>1, <2>2, <2>3, <2>4
<1> QED
  BY <1>8, <1>9, <1>10, <1>11, <1>12, <1>13, <1>14, <1>15 DEF FileInv

LEMMA UnlinkReplacedStep ==
    ASSUME FileInv, NEW c \in Cnx, UnlinkReplaced(c)
    PROVE  FileInv'
<1>1. FileTypes /\ OneUser /\ StatementInv /\ AddedInv /\ PresentInv /\ ObsoleteInv /\ ReplacedInv /\ KnownInv
  BY DEF FileInv
<1>2. PICK q \in deleteFiles[c] : /\ files' = files \ {q}
                                  /\ deleteFiles' = [deleteFiles EXCEPT ![c] = @ \ {q}]
  BY DEF UnlinkReplaced
<1>3. stage[c] = "postcommit"
      /\ UNCHANGED <<row, written, lock, statement, addFiles, stage, doomed, forgotten>>
  BY DEF UnlinkReplaced, history
<1>4. /\ deleteFiles'[c] = deleteFiles[c] \ {q} /\ \A d \in Cnx \ {c} : deleteFiles'[d] = deleteFiles[d]
      /\ deleteFiles' \in [Cnx -> SUBSET Path]
  BY <1>1, <1>2 DEF FileTypes
<1>5. /\ \A d, x : Seen(d, x)' = Seen(d, x)
      /\ \A d, x, p : (Writes(d, x, p)' <=> Writes(d, x, p)) /\ (Pending(d, x, p)' <=> Pending(d, x, p))
      /\ \A x, p : Uses(x, p)' <=> Uses(x, p)
      /\ \A p : HasRow(p)' <=> HasRow(p)
  BY <1>3 DEF Seen, Writes, Pending, Uses, HasRow
<1>6. DOMAIN written[c] = {} /\ statement[c] = None
  BY <1>1, <1>3 DEF FileTypes
<1>7. q \notin doomed => \A e \in Entity : row[e] # q /\ \A d \in Cnx : ~Writes(d, e, q)
  BY <1>1, <1>3 DEF ObsoleteInv
<1>8. FileTypes'
  BY <1>1, <1>2, <1>3, <1>4 DEF FileTypes
<1>9. OneUser' /\ StatementInv'
  BY <1>1, <1>3, <1>4, <1>5, <1>6 DEF OneUser, StatementInv
<1>10. AddedInv'
  <2>1. \A d \in Cnx : deleteFiles'[d] \subseteq deleteFiles[d]
    BY <1>4
  <2> QED
    BY <1>1, <1>3, <1>5, <2>1 DEF AddedInv
<1>11. PresentInv'
  <2>1. ASSUME NEW d \in Cnx, stage[d] = "query" PROVE q \notin addFiles[d]
    BY <1>1, <1>3, <2>1 DEF AddedInv
  <2>2. \A d \in Cnx : \A e \in DOMAIN written[d] : e \in Entity /\ (written[d][e] = q => q \in doomed)
    BY <1>1, <1>7 DEF FileTypes, Writes
  <2> QED
    BY <1>1, <1>2, <1>3, <1>7, <2>1, <2>2 DEF PresentInv
<1>12. ObsoleteInv'
  <2>1. \A d \in Cnx : deleteFiles'[d] \subseteq deleteFiles[d]
    BY <1>4
  <2> QED
    BY <1>1, <1>3, <1>5, <2>1 DEF ObsoleteInv
<1>13. ReplacedInv'
  BY <1>1, <1>2, <1>3, <1>4, <1>6 DEF ReplacedInv
<1>14. KnownInv'
  <2> SUFFICES ASSUME NEW p \in files', p \notin Imports, p \notin forgotten
               PROVE  HasRow(p)' \/ \E d \in Cnx : WillUnlink(d, p)'
    BY <1>3 DEF KnownInv
  <2>1. p # q /\ (HasRow(p) \/ \E d \in Cnx : WillUnlink(d, p))
    BY <1>1, <1>2 DEF KnownInv
  <2>2. \A d \in Cnx : p \in deleteFiles[d] => p \in deleteFiles'[d]
    BY <1>4, <2>1
  <2>3. ASSUME NEW d \in Cnx, WillUnlink(d, p) PROVE WillUnlink(d, p)'
    BY <1>3, <1>5, <2>2, <2>3 DEF WillUnlink
  <2> QED
    BY <1>5, <2>1, <2>3
<1> QED
  BY <1>8, <1>9, <1>10, <1>11, <1>12, <1>13, <1>14 DEF FileInv

LEMMA CommitReturnsStep ==
    ASSUME FileInv, NEW c \in Cnx, CommitReturns(c)
    PROVE  FileInv'
<1>1. FileTypes /\ OneUser /\ StatementInv /\ AddedInv /\ PresentInv /\ ObsoleteInv /\ ReplacedInv /\ KnownInv
  BY DEF FileInv
<1>2. /\ stage[c] = "postcommit" /\ deleteFiles[c] = {} /\ Clear(c)
      /\ UNCHANGED <<files, row, written, lock, statement, doomed, forgotten>>
  BY DEF CommitReturns, history
<1>3. /\ addFiles' \in [Cnx -> SUBSET Path] /\ deleteFiles' \in [Cnx -> SUBSET Path]
      /\ stage' \in [Cnx -> Stages]
      /\ addFiles'[c] = {} /\ deleteFiles'[c] = {} /\ stage'[c] = "query"
      /\ \A d \in Cnx \ {c} : /\ addFiles'[d] = addFiles[d] /\ deleteFiles'[d] = deleteFiles[d]
                              /\ stage'[d] = stage[d]
  BY <1>1, <1>2, ClearIs
<1>4. /\ \A d, x : Seen(d, x)' = Seen(d, x)
      /\ \A d, x, p : (Writes(d, x, p)' <=> Writes(d, x, p)) /\ (Pending(d, x, p)' <=> Pending(d, x, p))
      /\ \A x, p : Uses(x, p)' <=> Uses(x, p)
      /\ \A p : HasRow(p)' <=> HasRow(p)
  BY <1>2 DEF Seen, Writes, Pending, Uses, HasRow
<1>5. DOMAIN written[c] = {} /\ statement[c] = None
  BY <1>1, <1>2 DEF FileTypes
<1>6. FileTypes'
  BY <1>1, <1>2, <1>3, <1>5 DEF FileTypes
<1>7. OneUser' /\ StatementInv'
  BY <1>1, <1>2, <1>3, <1>4, <1>5 DEF OneUser, StatementInv
<1>8. AddedInv'
  BY <1>1, <1>2, <1>3, <1>4 DEF AddedInv
<1>9. PresentInv' /\ ReplacedInv'
  BY <1>1, <1>2, <1>3, <1>5 DEF PresentInv, ReplacedInv
<1>10. ObsoleteInv'
  BY <1>1, <1>2, <1>3, <1>4 DEF ObsoleteInv
<1>11. KnownInv'
  <2> SUFFICES ASSUME NEW p \in files, p \notin Imports, p \notin forgotten
               PROVE  HasRow(p)' \/ \E d \in Cnx : WillUnlink(d, p)'
    BY <1>2 DEF KnownInv
  <2>1. HasRow(p) \/ \E d \in Cnx : WillUnlink(d, p)
    BY <1>1 DEF KnownInv
  <2>2. ~WillUnlink(c, p)
    BY <1>2 DEF WillUnlink
  <2>3. ASSUME NEW d \in Cnx \ {c}, WillUnlink(d, p) PROVE WillUnlink(d, p)'
    BY <1>3, <1>4, <2>3 DEF WillUnlink
  <2> QED
    BY <1>4, <2>1, <2>2, <2>3
<1> QED
  BY <1>6, <1>7, <1>8, <1>9, <1>10, <1>11 DEF FileInv

LEMMA RollbackStep ==
    ASSUME FileInv, NEW c \in Cnx, Rollback(c)
    PROVE  FileInv'
<1>1. FileTypes /\ OneUser /\ StatementInv /\ AddedInv /\ PresentInv /\ ObsoleteInv /\ ReplacedInv /\ KnownInv
  BY DEF FileInv
<1>2. /\ stage[c] = "query" /\ statement[c] = None
      /\ stage' = [stage EXCEPT ![c] = "rollback"]
      /\ UNCHANGED <<files, row, written, lock, statement, addFiles, deleteFiles, doomed, forgotten>>
  BY DEF Rollback, Free, history
<1>3. stage'[c] = "rollback" /\ (\A d \in Cnx \ {c} : stage'[d] = stage[d])
      /\ stage' \in [Cnx -> Stages]
  BY <1>1, <1>2 DEF FileTypes, Stages
<1>4. /\ \A d, x : Seen(d, x)' = Seen(d, x)
      /\ \A d, x, p : (Writes(d, x, p)' <=> Writes(d, x, p)) /\ (Pending(d, x, p)' <=> Pending(d, x, p))
      /\ \A x, p : Uses(x, p)' <=> Uses(x, p)
      /\ \A p : HasRow(p)' <=> HasRow(p)
  BY <1>2 DEF Seen, Writes, Pending, Uses, HasRow
<1>5. FileTypes'
  BY <1>1, <1>2, <1>3 DEF FileTypes
<1>6. OneUser' /\ StatementInv' /\ ReplacedInv'
  BY <1>1, <1>2, <1>4 DEF OneUser, StatementInv, ReplacedInv
<1>7. AddedInv'
  BY <1>1, <1>2, <1>3, <1>4 DEF AddedInv
<1>8. PresentInv'
  BY <1>1, <1>2, <1>3 DEF PresentInv
<1>9. ObsoleteInv'
  BY <1>1, <1>2, <1>3, <1>4 DEF ObsoleteInv
<1>10. KnownInv'
  <2>1. ASSUME NEW d \in Cnx, NEW p, WillUnlink(d, p) PROVE WillUnlink(d, p)'
    BY <1>2, <1>3, <1>4, <2>1 DEF WillUnlink
  <2> QED
    BY <1>1, <1>2, <1>4, <2>1 DEF KnownInv
<1> QED
  BY <1>5, <1>6, <1>7, <1>8, <1>9, <1>10 DEF FileInv

LEMMA UnlinkAddedStep ==
    ASSUME FileInv, NEW c \in Cnx, UnlinkAdded(c)
    PROVE  FileInv'
<1>1. FileTypes /\ OneUser /\ StatementInv /\ AddedInv /\ PresentInv /\ ObsoleteInv /\ ReplacedInv /\ KnownInv
  BY DEF FileInv
<1>2. PICK q \in addFiles[c] : /\ files' = files \ {q}
                               /\ addFiles' = [addFiles EXCEPT ![c] = @ \ {q}]
  BY DEF UnlinkAdded
<1>3. stage[c] = "rollback"
      /\ UNCHANGED <<row, written, lock, statement, deleteFiles, stage, doomed, forgotten>>
  BY DEF UnlinkAdded, history
<1>4. /\ addFiles'[c] = addFiles[c] \ {q} /\ \A d \in Cnx \ {c} : addFiles'[d] = addFiles[d]
      /\ addFiles' \in [Cnx -> SUBSET Path]
  BY <1>1, <1>2 DEF FileTypes
<1>5. /\ \A d, x : Seen(d, x)' = Seen(d, x)
      /\ \A d, x, p : (Writes(d, x, p)' <=> Writes(d, x, p)) /\ (Pending(d, x, p)' <=> Pending(d, x, p))
      /\ \A x, p : Uses(x, p)' <=> Uses(x, p)
      /\ \A p : HasRow(p)' <=> HasRow(p)
  BY <1>3 DEF Seen, Writes, Pending, Uses, HasRow
<1>6. /\ \A e \in Entity : row[e] # q
      /\ \A d \in Cnx \ {c} : q \notin addFiles[d] /\ \A e \in Entity : ~Writes(d, e, q)
  BY <1>1, <1>3 DEF AddedInv
<1>7. statement[c] = None
  BY <1>1, <1>3 DEF FileTypes
<1>8. FileTypes'
  BY <1>1, <1>2, <1>3, <1>4 DEF FileTypes
<1>9. OneUser' /\ ObsoleteInv'
  BY <1>1, <1>3, <1>5 DEF OneUser, ObsoleteInv
<1>10. StatementInv'
  BY <1>1, <1>3, <1>4, <1>7 DEF StatementInv
<1>11. AddedInv'
  <2>1. \A d \in Cnx : addFiles'[d] \subseteq addFiles[d]
    BY <1>4
  <2> QED
    BY <1>1, <1>3, <1>5, <2>1 DEF AddedInv
<1>12. PresentInv'
  <2>1. \A d \in Cnx : stage[d] = "query" => \A e \in DOMAIN written[d] : written[d][e] # q
    BY <1>1, <1>3, <1>6 DEF FileTypes, Writes
  <2>2. \A d \in Cnx : stage[d] = "query" => d # c
    BY <1>3
  <2>3. \A d \in Cnx : stage[d] = "query" => addFiles'[d] \subseteq files'
    BY <1>1, <1>2, <1>4, <1>6, <2>2 DEF PresentInv
  <2> QED
    BY <1>1, <1>2, <1>3, <1>6, <2>1, <2>3 DEF PresentInv
<1>13. ReplacedInv'
  BY <1>1, <1>2, <1>3 DEF ReplacedInv
<1>14. KnownInv'
  <2> SUFFICES ASSUME NEW p \in files', p \notin Imports, p \notin forgotten
               PROVE  HasRow(p)' \/ \E d \in Cnx : WillUnlink(d, p)'
    BY <1>3 DEF KnownInv
  <2>1. p # q /\ (HasRow(p) \/ \E d \in Cnx : WillUnlink(d, p))
    BY <1>1, <1>2 DEF KnownInv
  <2>2. \A d \in Cnx : p \in addFiles[d] => p \in addFiles'[d]
    BY <1>4, <2>1
  <2>3. ASSUME NEW d \in Cnx, WillUnlink(d, p) PROVE WillUnlink(d, p)'
    BY <1>3, <1>5, <2>2, <2>3 DEF WillUnlink
  <2> QED
    BY <1>5, <2>1, <2>3
<1> QED
  BY <1>8, <1>9, <1>10, <1>11, <1>12, <1>13, <1>14 DEF FileInv

LEMMA CrashStep ==
    ASSUME FileInv, Crash
    PROVE  FileInv'
<1>1. FileTypes /\ PresentInv /\ KnownInv
  BY DEF FileInv
<1>2. /\ written' = [c \in Cnx |-> NoWrites] /\ statement' = [c \in Cnx |-> None]
      /\ lock' = [e \in Entity |-> Nobody]
      /\ addFiles' = [c \in Cnx |-> {}] /\ deleteFiles' = [c \in Cnx |-> {}]
      /\ stage' = [c \in Cnx |-> "query"]
      /\ UNCHANGED <<files, row, doomed>>
  BY DEF Crash
<1>3. \A c \in Cnx : \A e, p : ~Writes(c, e, p)' /\ ~Pending(c, e, p)'
  BY <1>2 DEF Writes, Pending, NoWrites
<1>4. FileTypes'
  BY <1>1, <1>2 DEF FileTypes, NoWrites, Stages
<1>5. OneUser'
  <2>1. FileInv => OneUser
    BY DEF FileInv
  <2> QED
    BY <1>2, <1>3, <2>1 DEF OneUser, Uses
<1>6. StatementInv' /\ AddedInv' /\ ObsoleteInv' /\ ReplacedInv'
  BY <1>2 DEF StatementInv, AddedInv, ObsoleteInv, ReplacedInv, NoWrites
<1>7. PresentInv'
  BY <1>1, <1>2 DEF PresentInv, NoWrites
<1>8. KnownInv'
  <2> SUFFICES ASSUME NEW p \in files, p \notin Imports, p \notin forgotten'
               PROVE  HasRow(p)'
    BY <1>2 DEF KnownInv
  <2>1. /\ p \notin forgotten /\ \A c \in Cnx : p \notin addFiles[c]
        /\ \A c \in Cnx : stage[c] = "postcommit" => p \notin deleteFiles[c]
    BY DEF Crash
  <2>2. \A c \in Cnx : ~WillUnlink(c, p)
    BY <2>1 DEF WillUnlink
  <2> QED
    BY <1>1, <1>2, <2>1, <2>2 DEF KnownInv, HasRow
<1> QED
  BY <1>4, <1>5, <1>6, <1>7, <1>8 DEF FileInv

LEMMA FileInvStep == FileInv /\ [StorageNext]_storageVars => FileInv'
<1> SUFFICES ASSUME FileInv, [StorageNext]_storageVars PROVE FileInv'
  OBVIOUS
<1>1. CASE UNCHANGED storageVars
  <2>1. UNCHANGED <<files, row, written, lock, statement, addFiles, deleteFiles, stage, doomed, forgotten>>
    BY <1>1 DEF storageVars, transaction, history
  <2>2. /\ \A d, x : Seen(d, x)' = Seen(d, x)
        /\ \A d, x, p : (Writes(d, x, p)' <=> Writes(d, x, p)) /\ (Pending(d, x, p)' <=> Pending(d, x, p))
        /\ \A x, p : Uses(x, p)' <=> Uses(x, p)
        /\ \A p : (HasRow(p)' <=> HasRow(p)) /\ \A d : WillUnlink(d, p)' <=> WillUnlink(d, p)
    BY <2>1 DEF Seen, Writes, Pending, Uses, HasRow, WillUnlink
  <2>3. FileTypes' /\ StatementInv' /\ PresentInv' /\ ReplacedInv'
    BY <2>1 DEF FileInv, FileTypes, StatementInv, PresentInv, ReplacedInv
  <2>4. OneUser' /\ AddedInv' /\ ObsoleteInv' /\ KnownInv'
    BY <2>1, <2>2 DEF FileInv, OneUser, AddedInv, ObsoleteInv, KnownInv
  <2> QED
    BY <2>3, <2>4 DEF FileInv
<1>2. ASSUME NEW c \in Cnx, Step(c) PROVE FileInv'
  <2>1. ASSUME NEW e \in Entity, \/ Add(c, e) \/ AddImported(c, e) \/ Update(c, e)
                                 \/ UpdateToNull(c, e) \/ UpdateImported(c, e) \/ Delete(c, e)
        PROVE  FileInv'
    <3>1. FileTypes
      BY DEF FileInv
    <3>2. PICK v \in Value : Prepares(c, e, v)
      BY <2>1, <3>1, PreparesAre
    <3> QED
      BY <3>2, PrepareStep
  <2> QED
    BY <1>2, <2>1, DiskFullStep, ExecuteStep, DbRollbackStep, DbCommitStep, DbCommitFailsStep,
       UnlinkReplacedStep, CommitReturnsStep, RollbackStep, UnlinkAddedStep, RollbackReturnsStep
    DEF Step
<1> QED
  BY <1>1, <1>2, CrashStep DEF StorageNext

\* storages.py:140-276: the files, the rows and the operations of the transactions agree
\* in every state the storage reaches, whatever fails.
THEOREM FileInvariant == StorageSpec => []FileInv
BY InitFileInv, FileInvStep, PTL DEF StorageSpec

\* storages.py:170-178: what a connection can read in the database is a file on disk, but
\* for what is to be removed although its replacement was undone, or although it was
\* imported, for instance under the path the row held already.
THEOREM ValueOnDiskHolds == StorageSpec => []ValueOnDisk
<1>1. FileInv => ValueOnDisk
  <2> SUFFICES ASSUME FileInv, NEW c \in Cnx, NEW e \in Entity,
                      stage[c] = "query", Seen(c, e) \in Path
               PROVE  Seen(c, e) \in files \cup doomed
    BY DEF ValueOnDisk
  <2> QED
    BY DEF FileInv, PresentInv, Seen
<1> QED
  BY <1>1, FileInvariant, PTL

\* storages.py:190-191, 203-206: when no transaction is under way, nothing is on disk that
\* the database does not know, but for what the faults left behind.
THEOREM NoOrphanHolds == StorageSpec => []NoOrphan
<1>1. FileInv => NoOrphan
  <2> SUFFICES ASSUME FileInv, Quiet, NEW p \in files, p \notin Imports, p \notin forgotten
               PROVE  \E e \in Entity : row[e] = p
    BY DEF NoOrphan
  <2>1. \A c \in Cnx : ~WillUnlink(c, p)
    BY DEF Quiet, Free, WillUnlink
  <2> QED
    BY <2>1 DEF FileInv, KnownInv, HasRow
<1> QED
  BY <1>1, FileInvariant, PTL

\* Only the loops over the data of the two operations unlink a file.
LEMMA UnlinkedBy ==
    ASSUME [StorageNext]_storageVars, NEW p \in files, p \notin files'
    PROVE  \E c \in Cnx : \/ stage[c] = "postcommit" /\ p \in deleteFiles[c]
                          \/ stage[c] = "rollback" /\ p \in addFiles[c]
<1>1. CASE UNCHANGED storageVars
  BY <1>1 DEF storageVars
<1>2. CASE Crash
  BY <1>2 DEF Crash
<1>3. ASSUME NEW c \in Cnx, Step(c)
      PROVE  \/ stage[c] = "postcommit" /\ p \in deleteFiles[c]
             \/ stage[c] = "rollback" /\ p \in addFiles[c]
  <2>1. ASSUME NEW e \in Entity, \/ Add(c, e) \/ AddImported(c, e) \/ Update(c, e)
                                 \/ UpdateToNull(c, e) \/ UpdateImported(c, e) \/ Delete(c, e)
        PROVE  FALSE
    BY <2>1 DEF Add, AddImported, Update, UpdateToNull, UpdateImported, Delete, NewFile
  <2>2. CASE DiskFull(c) \/ Execute(c) \/ DbRollback(c) \/ DbCommit(c) \/ DbCommitFails(c)
             \/ CommitReturns(c) \/ Rollback(c) \/ RollbackReturns(c)
    BY <2>2 DEF DiskFull, Execute, DbRollback, DbCommit, DbCommitFails, CommitReturns, Rollback,
       RollbackReturns
  <2>3. CASE UnlinkReplaced(c) \/ UnlinkAdded(c)
    BY <2>3 DEF UnlinkReplaced, UnlinkAdded
  <2> QED
    BY <1>3, <2>1, <2>2, <2>3 DEF Step
<1> QED
  BY <1>1, <1>2, <1>3 DEF StorageNext

\* storages.py:257-276: a file the committed database refers to is unlinked by nothing
\* but the DeleteFileOp of a transaction that committed, and only if it is one of those
\* whose replacement was undone or that were imported while they were to be removed.
THEOREM OnlyCommitUnlinksHolds == StorageSpec => OnlyCommitUnlinks
<1>1. FileInv /\ [StorageNext]_storageVars =>
         [\A p \in files \ files' :
             (\E e \in Entity : row[e] = p)
                => /\ p \in doomed
                   /\ \E c \in Cnx : stage[c] = "postcommit" /\ p \in deleteFiles[c]]_storageVars
  <2> SUFFICES ASSUME FileInv, [StorageNext]_storageVars, NEW p \in files \ files', NEW e \in Entity, row[e] = p
               PROVE  p \in doomed /\ \E c \in Cnx : stage[c] = "postcommit" /\ p \in deleteFiles[c]
    OBVIOUS
  <2>1. PICK c \in Cnx : \/ stage[c] = "postcommit" /\ p \in deleteFiles[c]
                         \/ stage[c] = "rollback" /\ p \in addFiles[c]
    BY UnlinkedBy
  <2>2. ~(stage[c] = "rollback" /\ p \in addFiles[c])
    BY DEF FileInv, AddedInv
  <2>3. stage[c] = "postcommit" /\ p \in deleteFiles[c] => p \in doomed
    BY DEF FileInv, ObsoleteInv
  <2> QED
    BY <2>1, <2>2, <2>3
<1> QED
  BY <1>1, FileInvariant, PTL DEF StorageSpec, OnlyCommitUnlinks

================================================================================
