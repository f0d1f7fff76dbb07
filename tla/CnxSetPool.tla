------------------------------ MODULE CnxSetPool -------------------------------
(***************************************************************************)
(* The pool of database connections of a repository and the life of the    *)
(* repository connections (`with' blocks) that borrow from it              *)
(* (_CnxSetPool of cubicweb/server/repository.py, Connection.__enter__ and *)
(* __exit__ of session.py, ConnectionWrapper of sqlutils.py).              *)
(*                                                                         *)
(* Threads enter and leave connections, nested when a hook, an operation   *)
(* or a callback opens an internal connection of its own.  A cnxset is     *)
(* handed over with the database transaction it carries.                   *)
(***************************************************************************)
EXTENDS Naturals, SequencesExt, FiniteSets

CONSTANTS
    Thread,    \* the threads that open repository connections
    CnxSet,    \* the database connections: the whole pool, or, without one,
               \* the most that are open at a time
    MaxDepth,  \* bound: connections one thread nests
    Faults     \* the faults a behaviour may meet

(* language: the preferred language of the user cannot be installed;       *)
(* dbdown: rollback fails and so does reopening the connection.            *)
AllFaults == {"language", "dbdown"}

ASSUME CnxSetAssumption == IsFiniteSet(CnxSet)
ASSUME MaxDepthAssumption == MaxDepth \in Nat
ASSUME PoolFaultsAssumption == Faults \subseteq AllFaults

VARIABLES
    pooled,   \* option connections-pooler-enabled, read once
    queue,    \* _CnxSetPool._queue
    open,     \* cnxsets whose database connection is open
    held,     \* held[t]: cnxsets of the connections t is in, innermost last
    waiting,  \* threads inside _CnxSetPool.get
    dirty,    \* cnxsets carrying uncommitted writes
    lost      \* history: cnxsets a failed __enter__ or __exit__ did not give back

vars == <<pooled, queue, open, held, waiting, dirty, lost>>

\* _CnxSetPool.__init__ on a set of fresh connections.
Init ==
    /\ pooled \in BOOLEAN
    /\ IF pooled
       THEN /\ queue \in Bijection(1..Cardinality(CnxSet), CnxSet)
            /\ open = CnxSet
       ELSE /\ queue = <<>>
            /\ open = {}
    /\ held = [t \in Thread |-> <<>>]
    /\ waiting = {}
    /\ dirty = {}
    /\ lost = {}

Held == UNION {ToSet(held[t]) : t \in Thread}

\* A thread that is inside a connection and not blocked in the pool.
Inside(t) == t \notin waiting /\ held[t] # <<>>

--------------------------------------------------------------------------------

\* Connection.__enter__ calls get(); without a pool at most CnxSet are open.
Enter(t) ==
    /\ t \notin waiting
    /\ Len(held[t]) < MaxDepth
    /\ pooled \/ Cardinality(open) + Cardinality(waiting) < Cardinality(CnxSet)
    /\ waiting' = waiting \cup {t}
    /\ UNCHANGED <<pooled, queue, open, held, dirty, lost>>

\* Mutant: the cnxset is looked at and stays in the queue.
Take_Peek(c) ==
    /\ queue # <<>>
    /\ c = Head(queue)
    /\ UNCHANGED <<queue, open>>

\* What get() does to the pool when it hands out c.
Take(c) ==
    IF pooled
    THEN /\ queue # <<>>
         /\ c = Head(queue)
         /\ queue' = Tail(queue)
         /\ UNCHANGED open
    ELSE /\ c \notin open
         /\ open' = open \cup {c}
         /\ UNCHANGED queue

\* get() returns and __enter__ ends.
Get(t) ==
    /\ t \in waiting
    /\ waiting' = waiting \ {t}
    /\ \E c \in CnxSet : Take(c) /\ held' = [held EXCEPT ![t] = Append(@, c)]
    /\ UNCHANGED <<pooled, dirty, lost>>

\* set_language raises in __enter__: __exit__ will not be called.  Without a pool
\* nothing refers to the cnxset any more, which closes it.
EnterRaises(t) ==
    /\ "language" \in Faults
    /\ t \in waiting
    /\ waiting' = waiting \ {t}
    /\ IF pooled
       THEN \E c \in CnxSet : Take(c) /\ lost' = lost \cup {c}
       ELSE UNCHANGED <<queue, open, lost>>
    /\ UNCHANGED <<pooled, held, dirty>>

\* Mutant: only a nested connection waits with a timeout.
GetTimesOut_OnlyNested(t) ==
    /\ pooled
    /\ t \in waiting
    /\ held[t] # <<>>
    /\ queue = <<>>
    /\ waiting' = waiting \ {t}
    /\ UNCHANGED <<pooled, queue, open, held, dirty, lost>>

\* No cnxset came within five seconds: get() raises.
GetTimesOut(t) ==
    /\ pooled
    /\ t \in waiting
    /\ queue = <<>>
    /\ waiting' = waiting \ {t}
    /\ UNCHANGED <<pooled, queue, open, held, dirty, lost>>

--------------------------------------------------------------------------------

\* A query of the innermost connection writes.
Write(t) ==
    /\ Inside(t)
    /\ dirty' = dirty \cup {Last(held[t])}
    /\ UNCHANGED <<pooled, queue, open, held, waiting, lost>>

\* commit() reached the database.
Commit(t) ==
    /\ Inside(t)
    /\ dirty' = dirty \ {Last(held[t])}
    /\ UNCHANGED <<pooled, queue, open, held, waiting, lost>>

\* _CnxSetPool.release
Release(c) ==
    IF pooled
    THEN queue' = Append(queue, c) /\ UNCHANGED open
    ELSE open' = open \ {c} /\ UNCHANGED queue

\* Mutant: __exit__ releases without rolling back.
Exit_NoRollback(t) ==
    /\ Inside(t)
    /\ Release(Last(held[t]))
    /\ held' = [held EXCEPT ![t] = Front(@)]
    /\ UNCHANGED <<pooled, waiting, dirty, lost>>

\* Connection.__exit__: rollback, which may replace the database connection by a
\* new one, and release.
Exit(t) ==
    /\ Inside(t)
    /\ dirty' = dirty \ {Last(held[t])}
    /\ Release(Last(held[t]))
    /\ held' = [held EXCEPT ![t] = Front(@)]
    /\ UNCHANGED <<pooled, waiting, lost>>

\* The rollback of __exit__ raises, the cnxset having lost its connection.
ExitRaises(t) ==
    /\ "dbdown" \in Faults
    /\ Inside(t)
    /\ dirty' = dirty \ {Last(held[t])}
    /\ held' = [held EXCEPT ![t] = Front(@)]
    /\ IF pooled
       THEN lost' = lost \cup {Last(held[t])} /\ UNCHANGED open
       ELSE open' = open \ {Last(held[t])} /\ UNCHANGED lost
    /\ UNCHANGED <<pooled, queue, waiting>>

--------------------------------------------------------------------------------

Next == \E t \in Thread :
    \/ Enter(t)
    \/ Get(t)
    \/ EnterRaises(t)
    \/ GetTimesOut(t)
    \/ Write(t)
    \/ Commit(t)
    \/ Exit(t)
    \/ ExitRaises(t)

Spec == Init /\ [][Next]_vars

--------------------------------------------------------------------------------

TypeOK ==
    /\ pooled \in BOOLEAN
    /\ queue \in Seq(CnxSet)
    /\ open \subseteq CnxSet
    /\ held \in [Thread -> Seq(CnxSet)]
    /\ waiting \subseteq Thread
    /\ dirty \subseteq open
    /\ lost \subseteq CnxSet

\* repository.py:167-185.  A database connection is used by one repository
\* connection at a time: it is at most once in the queue, borrowed at most once,
\* and never both.
OneOwner ==
    /\ IsInjective(queue)
    /\ \A t \in Thread : /\ IsInjective(held[t])
                         /\ ToSet(held[t]) \cap ToSet(queue) = {}
    /\ \A t, u \in Thread : t # u => ToSet(held[t]) \cap ToSet(held[u]) = {}

\* session.py:350, sqlutils.py:190-199.  Nobody inherits the uncommitted writes of
\* another: what waits in the pool carries none.
CleanWhenFree == ToSet(queue) \cap dirty = {}

\* serverconfig.py:135-139: "Each source supporting multiple connections will have
\* this number of opened connections".  An open cnxset is in the pool, or will come
\* back to it (without a pool: be closed) when the connection that borrowed it is
\* left; only an __enter__ or an __exit__ that raised takes one away for good.
NoneLost == open = ToSet(queue) \cup Held \cup lost

\* repository.py:171-178.  A thread does not wait for a cnxset for ever, not even
\* when each thread of the pool waits for a second one.
WaitEnds == \A t \in Thread : t \in waiting ~> t \notin waiting
================================================================================
