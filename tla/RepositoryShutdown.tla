--------------------------- MODULE RepositoryShutdown --------------------------
(***************************************************************************)
(* Repository.shutdown() with the threads that are still at work           *)
(* (cubicweb/server/repository.py, RepoThread of server/utils.py).         *)
(*                                                                         *)
(* Background tasks (mail sending, feed synchronisation) are threads that  *)
(* list themselves in _running_threads; shutdown() joins the listed ones,  *)
(* then closes what it finds in the pool of CnxSetPool, step by step and   *)
(* concurrently with the threads that borrow from it.                      *)
(***************************************************************************)
EXTENDS CnxSetPool

CONSTANTS
    Task,  \* the threads that are RepoThreads; the others serve clients
    NoTask \* no thread is being joined

ASSUME TaskAssumption == Task \subseteq Thread /\ IsFiniteSet(Task) /\ NoTask \notin Thread

VARIABLES
    taskState,       \* of each task, see TaskStates
    runningThreads,  \* Repository._running_threads
    shutdown,        \* where shutdown() is
    cursor,          \* its position in runningThreads
    joining          \* the thread it waits for

tasks == <<taskState, runningThreads>>
stopping == <<shutdown, cursor, joining>>
allVars == <<vars, tasks, stopping>>

\* listed: appended, not started; removed: about to die.
TaskStates == {"new", "listed", "running", "removed", "dead"}

ShutdownStates == {"up", "joining", "emptyCheck", "take", "down", "raised"}

ShutdownInit ==
    /\ Init
    /\ taskState = [t \in Task |-> "new"]
    /\ runningThreads = <<>>
    /\ shutdown = "up"
    /\ cursor = 0
    /\ joining = NoTask

--------------------------------------------------------------------------------
(* Background tasks.                                                       *)

\* threaded_task: by a startup hook or by the code of a connection.
ListTask(t) ==
    /\ taskState[t] = "new"
    /\ shutdown = "up" \/ \E u \in Thread : Inside(u)
    /\ taskState' = [taskState EXCEPT ![t] = "listed"]
    /\ runningThreads' = Append(runningThreads, t)
    /\ UNCHANGED <<vars, stopping>>

StartTask(t) ==
    /\ taskState[t] = "listed"
    /\ taskState' = [taskState EXCEPT ![t] = "running"]
    /\ UNCHANGED <<vars, runningThreads, stopping>>

\* Its function returned or raised: the `finally' of auto_remove_func.
RemoveTask(t) ==
    /\ taskState[t] = "running"
    /\ t \notin waiting
    /\ held[t] = <<>>
    /\ taskState' = [taskState EXCEPT ![t] = "removed"]
    /\ runningThreads' = RemoveFirst(runningThreads, t)
    /\ UNCHANGED <<vars, stopping>>

TaskDies(t) ==
    /\ taskState[t] = "removed"
    /\ taskState' = [taskState EXCEPT ![t] = "dead"]
    /\ UNCHANGED <<vars, runningThreads, stopping>>

Runs(t) == t \in Task => taskState[t] = "running"

\* A thread that runs uses its connections.
UseConnection(t) ==
    /\ Runs(t)
    /\ \/ Enter(t)
       \/ Get(t)
       \/ EnterRaises(t)
       \/ GetTimesOut(t)
       \/ Write(t)
       \/ Commit(t)
       \/ Exit(t)
       \/ ExitRaises(t)
    /\ UNCHANGED <<tasks, stopping>>

--------------------------------------------------------------------------------
(* shutdown().                                                             *)

BeginShutdown ==
    /\ shutdown = "up"
    /\ shutdown' = "joining"
    /\ UNCHANGED <<vars, tasks, cursor, joining>>

\* The `for' loop takes the next element of the list as the list now is.
JoinNext ==
    /\ shutdown = "joining"
    /\ joining = NoTask
    /\ IF cursor < Len(runningThreads)
       THEN /\ cursor' = cursor + 1
            /\ joining' = runningThreads[cursor + 1]
            /\ UNCHANGED shutdown
       ELSE /\ shutdown' = "emptyCheck"
            /\ UNCHANGED <<cursor, joining>>
    /\ UNCHANGED <<vars, tasks>>

\* join() raises when the thread was not started yet.
JoinRaises ==
    /\ joining # NoTask
    /\ taskState[joining] = "listed"
    /\ shutdown' = "raised"
    /\ joining' = NoTask
    /\ UNCHANGED <<vars, tasks, cursor>>

\* Mutant: join() never returns when its thread removed itself from the list.
JoinReturns_WhileListed ==
    /\ joining # NoTask
    /\ taskState[joining] = "dead"
    /\ joining \in ToSet(runningThreads)
    /\ joining' = NoTask
    /\ UNCHANGED <<vars, tasks, shutdown, cursor>>

JoinReturns ==
    /\ joining # NoTask
    /\ taskState[joining] = "dead"
    /\ joining' = NoTask
    /\ UNCHANGED <<vars, tasks, shutdown, cursor>>

\* _CnxSetPool.close: q.empty(), which another thread may falsify at once.
CloseCheck ==
    /\ shutdown = "emptyCheck"
    /\ shutdown' = IF queue = <<>> THEN "down" ELSE "take"
    /\ UNCHANGED <<vars, tasks, cursor, joining>>

\* Mutant: close() goes through _cnxsets, the borrowed ones included.
CloseTake_Borrowed ==
    /\ shutdown = "take"
    /\ \E c \in open : /\ open' = open \ {c}
                       /\ queue' = SelectSeq(queue, LAMBDA d : d # c)
    /\ shutdown' = "emptyCheck"
    /\ UNCHANGED <<pooled, held, waiting, dirty, lost, tasks, cursor, joining>>

CloseTake ==
    /\ shutdown = "take"
    /\ IF queue = <<>>
       THEN /\ shutdown' = "raised"
            /\ UNCHANGED <<queue, open>>
       ELSE /\ queue' = Tail(queue)
            /\ open' = open \ {Head(queue)}
            /\ shutdown' = "emptyCheck"
    /\ UNCHANGED <<pooled, held, waiting, dirty, lost, tasks, cursor, joining>>

Shutdown == JoinNext \/ JoinRaises \/ JoinReturns \/ CloseCheck \/ CloseTake

TaskStep(t) == ListTask(t) \/ StartTask(t) \/ RemoveTask(t) \/ TaskDies(t)

ShutdownNext ==
    \/ \E t \in Task : TaskStep(t)
    \/ \E t \in Thread : UseConnection(t)
    \/ BeginShutdown
    \/ Shutdown

ShutdownSpec == ShutdownInit /\ [][ShutdownNext]_allVars

(* The thread in shutdown() keeps running and the pool answers everyone.   *)
(* The code of a started task is finite: it leaves what it entered and     *)
(* does not start over for ever.                                           *)
FairShutdownSpec ==
    /\ ShutdownSpec
    /\ WF_allVars(Shutdown)
    /\ \A t \in Thread : WF_allVars(UseConnection(t) /\ (Get(t) \/ GetTimesOut(t)))
    /\ \A t \in Task :
          /\ WF_allVars(StartTask(t))
          /\ WF_allVars(TaskDies(t))
          /\ SF_allVars(RemoveTask(t))
          /\ \A d \in 1..MaxDepth :
                SF_allVars(UseConnection(t) /\ Exit(t) /\ Len(held[t]) = d)

--------------------------------------------------------------------------------

ShutdownTypeOK ==
    /\ TypeOK
    /\ taskState \in [Task -> TaskStates]
    /\ runningThreads \in Seq(Task)
    /\ IsInjective(runningThreads)
    /\ shutdown \in ShutdownStates
    /\ cursor \in 0..Cardinality(Task)
    /\ joining \in Task \cup {NoTask}

\* repository.py:451-455.  Started tasks that end let shutdown() end.
ShutdownEnds == shutdown # "up" ~> shutdown \in {"down", "raised"}
================================================================================
