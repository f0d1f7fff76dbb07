--------------------------- MODULE AtomicTransaction ---------------------------
(***************************************************************************)
(* What a connection promises to its user: the rows written since the last *)
(* commit or rollback become permanent together, when COMMIT succeeds, or  *)
(* not at all.  Two exceptions belong to the promise, each allowed by a    *)
(* constant: a statement may lose everything the transaction wrote before  *)
(* it (Lose), and a COMMIT that fails may leave the transaction open, so   *)
(* that its rows become permanent with the next one (Keep).                *)
(***************************************************************************)
CONSTANTS
    Row,
    MayLose,  \* statements may lose what the transaction wrote before them
    MayKeep   \* a COMMIT that fails may leave its transaction open

VARIABLES
    permanent,  \* rows of the database
    written,    \* rows the user was told were written, by the current transaction
    lost,       \* those of `written' that a later statement has lost
    leftover,   \* rows of earlier transactions, whose COMMIT failed, still to be committed
    committing  \* COMMIT is being executed

vars == <<permanent, written, lost, leftover, committing>>

Init ==
    /\ permanent = {}
    /\ written = {}
    /\ lost = {}
    /\ leftover = {}
    /\ committing = FALSE

\* Everything written before is lost, what an earlier transaction left included.
LoseAll == MayLose /\ lost' = written /\ leftover' = {}

Write(x) ==
    /\ ~committing
    /\ x \notin written \cup permanent \cup leftover
    /\ written' = written \cup {x}
    /\ LoseAll \/ UNCHANGED <<lost, leftover>>
    /\ UNCHANGED <<permanent, committing>>

\* A statement that fails.
Lose ==
    /\ ~committing
    /\ LoseAll
    /\ UNCHANGED <<permanent, written, committing>>

StartCommit ==
    /\ ~committing
    /\ committing' = TRUE
    /\ UNCHANGED <<permanent, written, lost, leftover>>

Commit ==
    /\ committing
    /\ permanent' = permanent \cup (written \ lost) \cup leftover
    /\ written' = {}
    /\ lost' = {}
    /\ leftover' = {}
    /\ committing' = FALSE

Abort ==
    /\ written' = {}
    /\ lost' = {}
    /\ leftover' = {}
    /\ committing' = FALSE
    /\ UNCHANGED permanent

\* COMMIT fails and its transaction stays open.
Keep ==
    /\ committing
    /\ MayKeep
    /\ leftover' = leftover \cup (written \ lost)
    /\ written' = {}
    /\ lost' = {}
    /\ committing' = FALSE
    /\ UNCHANGED permanent

Next == (\E x \in Row : Write(x)) \/ Lose \/ StartCommit \/ Commit \/ Abort \/ Keep

Spec == Init /\ [][Next]_vars
================================================================================
