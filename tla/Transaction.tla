------------------------------ MODULE Transaction ------------------------------
(***************************************************************************)
(* One repository connection: the transaction it runs on the system        *)
(* database and the operations its hooks register                          *)
(* (cubicweb/server/session.py, hook.py, querier.py, sources/native.py).   *)
(*                                                                         *)
(* An operation is registered while a query, a hook or the handler of      *)
(* another operation runs, and waits in `pending'.  commit() hands         *)
(* precommit_event to the waiting operations one by one, commits the       *)
(* database transaction and hands postcommit_event to each of them.  When  *)
(* a handler raises, the operations already handled get                    *)
(* revertprecommit_event in reverse order and every operation gets         *)
(* rollback_event.                                                         *)
(*                                                                         *)
(* The code that runs between two calls of the engine (the client, a hook, *)
(* a handler) is free: each of its calls is an action that may interleave  *)
(* there.  A connection belongs to one thread, so nothing else does.       *)
(***************************************************************************)
EXTENDS Naturals, SequencesExt

CONSTANTS
    Op,      \* the operation instances; each is registered at most once
    Kind,    \* Kind[o]: the base class, which decides where o is inserted
    Class,   \* Class[o]: its concrete class; a SingleLastOperation replaces its like
    Row,     \* the rows the transactions write
    Faults,  \* the environment faults a behaviour may meet
    NoOp     \* no operation is being handled

Kinds == {"normal", "late", "last"}

(* sqlerror: a statement fails and doexec rolls the database back;         *)
(* disconnect: the server hung up, system_sql reconnects and retries;      *)
(* commitaborts: COMMIT fails and the server drops the transaction;        *)
(* commitkeeps: COMMIT fails and leaves it open (a locked SQLite file);    *)
(* crash: the process dies and is started again.                           *)
AllFaults == {"sqlerror", "disconnect", "commitaborts", "commitkeeps", "crash"}

ASSUME KindAssumption == Kind \in [Op -> Kinds]
ASSUME ClassAssumption == \A o, p \in Op : Class[o] = Class[p] => Kind[o] = Kind[p]
ASSUME NoOpAssumption == NoOp \notin Op
ASSUME FaultsAssumption == Faults \subseteq AllFaults

Event == {"precommit", "revertprecommit", "rollback", "postcommit"}

VARIABLES
    commitState,      \* Connection.commit_state
    pending,          \* Connection.pending_operations
    processed,        \* the local list of commit()
    cursor,           \* how many of `processed' are still to be reverted
    hooksInProgress,  \* Connection.hooks_in_progress
    prevmode,         \* what the running running_hooks_ops will restore
    phase,            \* where the thread is
    handling,         \* the operation whose handler runs and its event
    dirty,            \* rows written by the open database transaction
    committed,        \* rows of the committed database
    fired,            \* history: the events each operation was handed
    replaced,         \* history: operations dropped for one of their class
    durable,          \* history: operations of database-committed transactions
    acked,            \* history: rows whose writing returned, this transaction
    refused           \* history: a query was refused before commit()

engine == <<commitState, pending, processed, cursor, hooksInProgress, prevmode,
            phase, handling>>
data == <<dirty, committed>>
history == <<fired, replaced, durable, acked, refused>>
vars == <<engine, data, history>>

Idle == [op |-> NoOp, event |-> "none"]
Handling == [op : Op, event : Event] \cup {Idle}

Phases == {"query", "hook", "precommit", "revert", "rollback", "dbcommit",
           "postcommit"}

Init ==
    /\ commitState = "none"
    /\ pending = <<>>
    /\ processed = <<>>
    /\ cursor = 0
    /\ hooksInProgress = FALSE
    /\ prevmode = FALSE
    /\ phase = "query"
    /\ handling = Idle
    /\ dirty = {}
    /\ committed = {}
    /\ fired = [o \in Op |-> {}]
    /\ replaced = {}
    /\ durable = {}
    /\ acked = {}
    /\ refused = FALSE

--------------------------------------------------------------------------------
(* Registration.                                                           *)

\* Operations already registered once.
Registered == ToSet(pending) \cup ToSet(processed) \cup replaced
              \cup {o \in Op : fired[o] # {}}

\* Mutant: operations are appended whatever their kind.
BeforeTrailing_Append(q, kinds) == Len(q)

\* How many operations of q precede its trailing run of the given kinds.
BeforeTrailing(q, kinds) == SelectLastInSeq(q, LAMBDA o : Kind[o] \notin kinds)

\* The kinds an operation of kind k is inserted in front of.
Overtaken(k) == CASE k = "normal" -> {"late", "last"}
                  [] k = "late"   -> {"last"}
                  [] k = "last"   -> {}

\* SingleLastOperation.equivalent_index: the last one of q of the class of o.
EquivalentIndex(q, o) ==
    IF Kind[o] = "last" THEN SelectLastInSeq(q, LAMBDA p : Class[p] = Class[o]) ELSE 0

\* The operation that registering o supersedes, if any, and the queue without it.
Superseded(q, o) == LET i == EquivalentIndex(q, o) IN IF i = 0 THEN {} ELSE {q[i]}
WithoutEquivalent(q, o) ==
    LET i == EquivalentIndex(q, o) IN IF i = 0 THEN q ELSE RemoveAt(q, i)

\* Insertion at the place of o's kind, which insert_index computes.
Inserted(q, o) == InsertAt(q, BeforeTrailing(q, Overtaken(Kind[o])) + 1, o)

\* Code of the repository, of a hook or of a handler creates an operation.
\* Postcommit handlers must not use the connection any more (hook.py:711-715).
Register(o) ==
    /\ \/ phase \in {"query", "hook"}
       \/ handling.event \in {"precommit", "revertprecommit", "rollback"}
    /\ o \notin Registered
    /\ pending' = Inserted(WithoutEquivalent(pending, o), o)
    /\ replaced' = replaced \cup Superseded(pending, o)
    /\ UNCHANGED <<commitState, processed, cursor, hooksInProgress, prevmode,
                   phase, handling, data, fired, durable, acked, refused>>

--------------------------------------------------------------------------------
(* Queries.                                                                *)

\* Where code may write to the database.
MayWrite == phase \in {"query", "hook"} \/ handling.event = "precommit"

\* doexec succeeds.
Write(x) ==
    /\ MayWrite
    /\ x \notin acked \cup dirty \cup committed
    /\ dirty' = dirty \cup {x}
    /\ acked' = acked \cup {x}
    /\ UNCHANGED <<engine, committed, fired, replaced, durable, refused>>

\* system_sql: the connection is lost, reopened, and the statement is run
\* again in the new database transaction.
WriteAfterReconnect(x) ==
    /\ "disconnect" \in Faults
    /\ MayWrite
    /\ x \notin acked \cup dirty \cup committed
    /\ dirty' = {x}
    /\ acked' = acked \cup {x}
    /\ UNCHANGED <<engine, committed, fired, replaced, durable, refused>>

\* doexec fails: it rolls the database back and raises.  A constraint
\* violation of a plain query becomes a ValidationError; the caller may
\* swallow the exception.
SqlError(validation) ==
    /\ "sqlerror" \in Faults
    /\ MayWrite
    /\ dirty' = {}
    /\ IF validation /\ commitState = "none"
       THEN commitState' = "uncommitable" /\ refused' = TRUE
       ELSE UNCHANGED <<commitState, refused>>
    /\ UNCHANGED <<pending, processed, cursor, hooksInProgress, prevmode, phase,
                   handling, committed, fired, replaced, durable, acked>>

\* QuerierHelper.execute lets an Unauthorized or ValidationError through.
QueryRefused ==
    /\ phase \in {"query", "hook"}
    /\ commitState' = IF commitState = "none" THEN "uncommitable" ELSE commitState
    /\ refused' = TRUE
    /\ UNCHANGED <<pending, processed, cursor, hooksInProgress, prevmode, phase,
                   handling, data, fired, replaced, durable, acked>>

\* call_hooks enters running_hooks_ops and runs the hooks of a query.
CallHooks ==
    /\ phase = "query"
    /\ phase' = "hook"
    /\ prevmode' = hooksInProgress
    /\ hooksInProgress' = TRUE
    /\ UNCHANGED <<commitState, pending, processed, cursor, handling, data, history>>

HooksReturn ==
    /\ phase = "hook"
    /\ phase' = "query"
    /\ hooksInProgress' = prevmode
    /\ UNCHANGED <<commitState, pending, processed, cursor, prevmode, handling, data,
                   history>>

\* A hook raises: running_hooks_ops has no `finally' and the flag stays set.
HookRaises(validation) ==
    /\ phase = "hook"
    /\ phase' = "query"
    /\ IF validation
       THEN /\ commitState' = IF commitState = "none" THEN "uncommitable" ELSE commitState
            /\ refused' = TRUE
       ELSE UNCHANGED <<commitState, refused>>
    /\ UNCHANGED <<pending, processed, cursor, hooksInProgress, prevmode, handling, data,
                   fired, replaced, durable, acked>>

--------------------------------------------------------------------------------
(* The event engine of commit() and rollback().                            *)

\* handle_event(e): operation o is handed event e.
Handle(o, e) ==
    /\ handling' = [op |-> o, event |-> e]
    /\ fired' = [fired EXCEPT ![o] = @ \cup {e}]

\* Connection.clear
Clear ==
    /\ pending' = <<>>
    /\ processed' = <<>>
    /\ cursor' = 0
    /\ commitState' = "none"
    /\ phase' = "query"
    /\ handling' = Idle
    /\ acked' = {}
    /\ refused' = FALSE

\* Mutant: commit() does not look at 'uncommitable'.
Commit_Unguarded ==
    /\ phase = "query"
    /\ commitState' = "precommit"
    /\ phase' = "precommit"
    /\ processed' = <<>>
    /\ cursor' = 0
    /\ prevmode' = hooksInProgress
    /\ hooksInProgress' = TRUE
    /\ UNCHANGED <<pending, handling, data, history>>

\* commit() is called; in any other state it raises or returns at once.
Commit ==
    /\ phase = "query"
    /\ commitState = "none"
    /\ commitState' = "precommit"
    /\ phase' = "precommit"
    /\ processed' = <<>>
    /\ cursor' = 0
    /\ prevmode' = hooksInProgress
    /\ hooksInProgress' = TRUE
    /\ UNCHANGED <<pending, handling, data, history>>

PrecommitNext ==
    /\ phase = "precommit"
    /\ handling = Idle
    /\ pending # <<>>
    /\ Handle(Head(pending), "precommit")
    /\ pending' = Tail(pending)
    /\ processed' = Append(processed, Head(pending))
    /\ UNCHANGED <<commitState, cursor, hooksInProgress, prevmode, phase, data,
                   replaced, durable, acked, refused>>

\* The handler returns.  An exception is swallowed except in precommit.
HandlerReturns ==
    /\ handling # Idle
    /\ handling' = Idle
    /\ UNCHANGED <<commitState, pending, processed, cursor, hooksInProgress, prevmode,
                   phase, data, history>>

\* Mutants: the failed operation is not reverted; one too many is.
PrecommitRaises_SkipFailed ==
    /\ handling.event = "precommit"
    /\ handling' = Idle
    /\ phase' = "revert"
    /\ cursor' = Len(processed) - 1
    /\ prevmode' = hooksInProgress
    /\ UNCHANGED <<commitState, pending, processed, hooksInProgress, data, history>>

PrecommitRaises ==
    /\ handling.event = "precommit"
    /\ handling' = Idle
    /\ phase' = "revert"
    /\ cursor' = Len(processed)
    /\ prevmode' = hooksInProgress  \* set and restored as found: it stays TRUE
    /\ UNCHANGED <<commitState, pending, processed, hooksInProgress, data, history>>

PrecommitDone ==
    /\ phase = "precommit"
    /\ handling = Idle
    /\ pending = <<>>
    /\ pending' = processed
    /\ phase' = "dbcommit"
    /\ hooksInProgress' = prevmode
    /\ UNCHANGED <<commitState, processed, cursor, prevmode, handling, data, history>>

\* Mutants: operations are reverted in the order of their precommit; the same one is
\* reverted again.
RevertNext_Forward ==
    /\ phase = "revert"
    /\ handling = Idle
    /\ cursor > 0
    /\ Handle(processed[Len(processed) - cursor + 1], "revertprecommit")
    /\ cursor' = cursor - 1
    /\ UNCHANGED <<commitState, pending, processed, hooksInProgress, prevmode, phase,
                   data, replaced, durable, acked, refused>>

RevertNext ==
    /\ phase = "revert"
    /\ handling = Idle
    /\ cursor > 0
    /\ Handle(processed[cursor], "revertprecommit")
    /\ cursor' = cursor - 1
    /\ UNCHANGED <<commitState, pending, processed, hooksInProgress, prevmode, phase,
                   data, replaced, durable, acked, refused>>

\* Mutant: the processed operations are not put back.
RevertDone_KeepPending ==
    /\ phase = "revert"
    /\ handling = Idle
    /\ cursor = 0
    /\ phase' = "rollback"
    /\ hooksInProgress' = prevmode
    /\ UNCHANGED <<commitState, pending, processed, cursor, prevmode, handling, data,
                   history>>

\* Every operation goes back to the queue and rollback() is called.
RevertDone ==
    /\ phase = "revert"
    /\ handling = Idle
    /\ cursor = 0
    /\ pending' = processed \o pending
    /\ phase' = "rollback"
    /\ hooksInProgress' = prevmode
    /\ UNCHANGED <<commitState, processed, cursor, prevmode, handling, data, history>>

\* rollback() is called by the client or by __exit__.
Rollback ==
    /\ phase = "query"
    /\ phase' = "rollback"
    /\ UNCHANGED <<commitState, pending, processed, cursor, hooksInProgress, prevmode,
                   handling, data, history>>

\* Mutant: the operation stays in the queue while its handler runs and after.
RollbackNext_NoPop ==
    /\ phase = "rollback"
    /\ handling = Idle
    /\ pending # <<>>
    /\ Handle(Head(pending), "rollback")
    /\ UNCHANGED <<commitState, pending, processed, cursor, hooksInProgress, prevmode,
                   phase, data, replaced, durable, acked, refused>>

RollbackNext ==
    /\ phase = "rollback"
    /\ handling = Idle
    /\ pending # <<>>
    /\ Handle(Head(pending), "rollback")
    /\ pending' = Tail(pending)
    /\ UNCHANGED <<commitState, processed, cursor, hooksInProgress, prevmode, phase,
                   data, replaced, durable, acked, refused>>

\* Mutant: the database transaction stays open.
RollbackDone_DbOpen ==
    /\ phase = "rollback"
    /\ handling = Idle
    /\ pending = <<>>
    /\ Clear
    /\ UNCHANGED <<hooksInProgress, prevmode, data, fired, replaced, durable>>

\* ConnectionWrapper.rollback cannot keep the database transaction open:
\* when it fails the connection is replaced.
RollbackDone ==
    /\ phase = "rollback"
    /\ handling = Idle
    /\ pending = <<>>
    /\ dirty' = {}
    /\ Clear
    /\ UNCHANGED <<hooksInProgress, prevmode, committed, fired, replaced, durable>>

DbCommit ==
    /\ phase = "dbcommit"
    /\ committed' = committed \cup dirty
    /\ dirty' = {}
    /\ durable' = durable \cup ToSet(pending)
    /\ acked' = {}
    /\ commitState' = "postcommit"
    /\ phase' = "postcommit"
    /\ prevmode' = hooksInProgress
    /\ hooksInProgress' = TRUE
    /\ UNCHANGED <<pending, processed, cursor, handling, fired, replaced, refused>>

\* Mutant: the exception of COMMIT is swallowed, as rollback() swallows its own.
DbCommitFails_Swallowed ==
    /\ phase = "dbcommit"
    /\ \/ "commitaborts" \in Faults /\ dirty' = {}
       \/ "commitkeeps" \in Faults /\ dirty' = dirty
    /\ commitState' = "postcommit"
    /\ phase' = "postcommit"
    /\ UNCHANGED <<pending, processed, cursor, hooksInProgress, prevmode, handling,
                   committed, history>>

\* COMMIT raises: only the `finally' clause of commit() runs.
DbCommitFails ==
    /\ phase = "dbcommit"
    /\ \/ "commitaborts" \in Faults /\ dirty' = {}
       \/ "commitkeeps" \in Faults /\ dirty' = dirty
    /\ Clear
    /\ UNCHANGED <<hooksInProgress, prevmode, committed, fired, replaced, durable>>

PostcommitNext ==
    /\ phase = "postcommit"
    /\ handling = Idle
    /\ pending # <<>>
    /\ Handle(Head(pending), "postcommit")
    /\ pending' = Tail(pending)
    /\ UNCHANGED <<commitState, processed, cursor, hooksInProgress, prevmode, phase,
                   data, replaced, durable, acked, refused>>

PostcommitDone ==
    /\ phase = "postcommit"
    /\ handling = Idle
    /\ pending = <<>>
    /\ hooksInProgress' = prevmode
    /\ Clear
    /\ UNCHANGED <<prevmode, data, fired, replaced, durable>>

\* The process dies; another one opens a connection on the same database.
Crash ==
    /\ "crash" \in Faults
    /\ dirty' = {}
    /\ hooksInProgress' = FALSE
    /\ prevmode' = FALSE
    /\ Clear
    /\ UNCHANGED <<committed, fired, replaced, durable>>

--------------------------------------------------------------------------------
(* What the calling thread does by itself once commit() or rollback() is   *)
(* called, and what is left to the code it calls.                          *)
Engine ==
    \/ HooksReturn
    \/ PrecommitNext
    \/ HandlerReturns
    \/ PrecommitDone
    \/ RevertNext
    \/ RevertDone
    \/ RollbackNext
    \/ RollbackDone
    \/ DbCommit
    \/ PostcommitNext
    \/ PostcommitDone

Caller ==
    \/ \E o \in Op : Register(o)
    \/ \E x \in Row : Write(x) \/ WriteAfterReconnect(x)
    \/ \E v \in BOOLEAN : SqlError(v) \/ HookRaises(v)
    \/ QueryRefused
    \/ CallHooks
    \/ Commit
    \/ Rollback
    \/ PrecommitRaises

Next == Engine \/ Caller \/ DbCommitFails \/ Crash

Spec == Init /\ [][Next]_vars

(* A thread that is inside commit() or rollback() keeps running: handlers  *)
(* return and the engine goes on.                                          *)
FairSpec == Spec /\ WF_vars(Engine)

--------------------------------------------------------------------------------
(* Properties.                                                             *)

TypeOK ==
    /\ commitState \in {"none", "precommit", "postcommit", "uncommitable"}
    /\ pending \in Seq(Op)
    /\ processed \in Seq(Op)
    /\ cursor \in 0..Len(processed)
    /\ hooksInProgress \in BOOLEAN
    /\ prevmode \in BOOLEAN
    /\ phase \in Phases
    /\ handling \in Handling
    /\ dirty \subseteq Row
    /\ committed \subseteq Row
    /\ fired \in [Op -> SUBSET Event]
    /\ replaced \subseteq Op
    /\ durable \subseteq Op
    /\ acked \subseteq Row
    /\ refused \in BOOLEAN

Histories == {{}, {"precommit"}, {"precommit", "postcommit"},
              {"precommit", "revertprecommit"},
              {"precommit", "revertprecommit", "rollback"}, {"rollback"}}

\* hook.py:692-715.  The events one operation is handed always make one of the
\* documented histories: nothing is postcommitted or reverted that was not
\* precommitted, and no operation is both rolled back and postcommitted.  An
\* operation superseded by one of its class never acts on a commit.
EventHistory ==
    \A o \in Op : /\ fired[o] \in Histories
                  /\ o \in replaced => "postcommit" \notin fired[o]

\* hook.py:692-715.  No event is handed twice to an operation, although commit()
\* puts the processed operations back in the queue twice.
EventOnce ==
    [][\A o \in Op, e \in Event :
          handling' = [op |-> o, event |-> e] /\ handling' # handling
             => e \notin fired[o]]_vars

\* session.py:757-766.  Operations learn the truth about the database: postcommit
\* is handed only after their transaction was committed, revertprecommit and
\* rollback only when it was not, whatever fails.
EventsTellTheOutcome ==
    \A o \in Op : /\ "postcommit" \in fired[o] => o \in durable
                  /\ fired[o] \cap {"revertprecommit", "rollback"} # {} => o \notin durable

\* session.py:742-752.  When a precommit fails, an operation is reverted only
\* after all those that were precommitted after it.
RevertedInReverse ==
    \A i, j \in DOMAIN processed :
        i < j /\ "revertprecommit" \in fired[processed[i]]
           => "revertprecommit" \in fired[processed[j]]

Rank(o) == CASE Kind[o] = "normal" -> 0 [] Kind[o] = "late" -> 1 [] Kind[o] = "last" -> 2

\* hook.py:738-750, 895-907.  commit() precommits no late operation while a normal
\* one waits, and no single-last one while any other waits, whatever was
\* registered by the handlers of this commit.
PrecommitInKindOrder ==
    [][handling' # handling /\ handling'.event = "precommit"
          => \A i \in DOMAIN pending' :
                Rank(handling'.op) <= Rank(pending'[i])]_vars

\* hook.py:916-934.  Two instances of a single-last class never wait together.
OneLastWaiting ==
    phase \in {"query", "hook", "precommit"} =>
       \A i, j \in DOMAIN pending :
          i # j /\ Kind[pending[i]] = "last" => Class[pending[i]] # Class[pending[j]]

\* session.py:730-739: "call rollback_event on *all* operations" if there is an
\* error on commit.  Once the thread is back to its caller, an operation that was
\* precommitted has been postcommitted or rolled back, unless one of its class,
\* registered meanwhile, superseded it.
EveryOperationConcluded ==
    phase = "query" =>
       \A o \in Op \ replaced :
          fired[o] # {} => fired[o] \cap {"postcommit", "rollback"} # {}

\* commit() or rollback() returns, or commit() raises, having run its loops.
Completes ==
    /\ phase \in {"rollback", "postcommit"}
    /\ handling = Idle
    /\ pending = <<>>
    /\ phase' = "query"

\* session.py:718-774.  Whatever fails short of COMMIT itself and of the process, an
\* operation leaves the queue only to be handed an event or because one of its class
\* supersedes it; and when the thread goes back to its caller each operation it
\* precommitted was postcommitted or rolled back.
NoOperationForgotten ==
    [][/\ \A o \in ToSet(pending) :
             \/ o \in ToSet(pending')
             \/ handling'.op = o
             \/ o \in replaced'
             \/ DbCommitFails \/ Crash
       /\ Completes =>
             \A o \in ToSet(processed) :
                fired[o] \cap {"postcommit", "rollback"} # {} \/ o \in replaced]_vars

\* session.py:183-186.  A transaction in which a query was refused (Unauthorized,
\* ValidationError) leaves nothing in the database until it is rolled back.
RefusedNeverCommits ==
    [][committed' # committed => ~refused]_vars

\* session.py:718-774.  The rows whose writing returned become permanent together, by
\* the COMMIT of their transaction, or not at all, whatever handlers do, whichever
\* statement, COMMIT or process fails; but for the rows that a failing or retried
\* statement loses and for those of a failed COMMIT that leaves the transaction open,
\* which the next COMMIT makes permanent.
Abstract == INSTANCE AtomicTransaction WITH
    permanent <- committed,
    written <- acked,
    lost <- acked \ dirty,
    leftover <- dirty \ acked,
    committing <- phase = "dbcommit",
    MayLose <- Faults \cap {"sqlerror", "disconnect"} # {},
    MayKeep <- "commitkeeps" \in Faults
AllOrNothing == Abstract!Spec

\* A commit() or rollback(), and the hooks of a query, end: reverting, restoring the
\* queue and the operations handlers register meanwhile do not go on for ever.
TransactionEnds == phase # "query" ~> phase = "query"
================================================================================
