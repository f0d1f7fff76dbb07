----------------------------- MODULE DataFeedLock ------------------------------
(***************************************************************************)
(* The lock of a data feed source: the attribute `in_synchronization' of   *)
(* its entity, which every process on the database tests and sets before   *)
(* it pulls the source (cubicweb/server/sources/datafeed.py:129-222).      *)
(*                                                                         *)
(* It is a time stamp.  A process that dies leaves it; once it is older    *)
(* than max-lock-lifetime it does not count any more.  A second time       *)
(* stamp, `latest_retrieval', tells when the source was last pulled.       *)
(*                                                                         *)
(* Who pulls is a task of the scheduler, which enters itself again when it *)
(* is over (server/utils.py:98-121), a service, which pulls in a thread,   *)
(* and a command; a process is in one call at a time.                      *)
(***************************************************************************)
EXTENDS Naturals

CONSTANTS
    Process,     \* those that may pull the source
    Scheduler,   \* those with a scheduler, which has the periodic task
    MaxCrashes,  \* bound
    MaxThreads   \* bound: background threads of a process

ASSUME SchedulerAssumption == Scheduler \subseteq Process
ASSUME FeedBoundsAssumption == MaxCrashes \in Nat /\ MaxThreads \in Nat

VARIABLES
    inSynchronization,  \* "null", a "recent" time stamp or an "old" one
    latestRetrieval,    \* "recent" if within the synchronization interval, or "old"
    stage,              \* what pull_data does in each process
    threads,            \* how many background threads pull the source
    task,               \* the periodic task of each process, see Tasks
    beaten,             \* history: those that tested the attribute before another set it
    overtaken,          \* history: those whose lock another may have taken meanwhile
    crashes             \* bound: how often a process died

lockVars == <<inSynchronization, latestRetrieval, stage, threads, task, beaten, overtaken,
              crashes>>

\* none: the process has no scheduler; entered: in its queue; runs: it is the one in the
\* call; dropped: it will not be entered again.
Tasks == {"none", "entered", "runs", "dropped"}

\* looping_task
AtStart(p) == IF p \in Scheduler THEN "entered" ELSE "none"

LockInit ==
    /\ inSynchronization = "null"
    /\ latestRetrieval = "old"
    /\ stage = [p \in Process |-> "idle"]
    /\ threads = [p \in Process |-> 0]
    /\ task = [p \in Process |-> AtStart(p)]
    /\ beaten = {}
    /\ overtaken = {}
    /\ crashes = 0

\* Those that hold the lock, as far as they know.
Holders == {p \in Process : stage[p] \in {"locked", "pulling", "pulled"}}

Goto(p, s) == stage' = [stage EXCEPT ![p] = s]

\* Mutant: the task is not entered again.
Returned_Kept(p) == UNCHANGED task

\* The call is over.  If it was the task's it enters itself again, whatever it raised.
Returned(p) == task' = [task EXCEPT ![p] = IF @ = "runs" THEN "entered" ELSE @]

\* The source is made from its entity; pull_data goes on if it is forced to or the source
\* is not fresh.
Call(p, force) ==
    /\ stage[p] = "idle"
    /\ force \/ latestRetrieval = "old"
    /\ Goto(p, "called")
    /\ UNCHANGED <<inSynchronization, latestRetrieval, threads, task, beaten, overtaken,
                   crashes>>

\* The scheduler runs the task; when the source is fresh it is entered again at once.
Fire(p) ==
    /\ task[p] = "entered"
    /\ stage[p] = "idle"
    /\ latestRetrieval = "old"
    /\ task' = [task EXCEPT ![p] = "runs"]
    /\ Goto(p, "called")
    /\ UNCHANGED <<inSynchronization, latestRetrieval, threads, beaten, overtaken, crashes>>

\* Mutant: the time stamp is not tested.
Test_NoTest(p) ==
    /\ stage[p] = "called"
    /\ Goto(p, "tested")
    /\ UNCHANGED <<inSynchronization, latestRetrieval, threads, task, beaten, overtaken,
                   crashes>>

\* acquire_synchronization_lock: the selection of the SET query finds the source, or
\* "a concurrent synchronization is already running".
Test(p) ==
    /\ stage[p] = "called"
    /\ IF inSynchronization \in {"null", "old"}
       THEN Goto(p, "tested") /\ UNCHANGED task
       ELSE Goto(p, "idle") /\ Returned(p)
    /\ UNCHANGED <<inSynchronization, latestRetrieval, threads, beaten, overtaken, crashes>>

\* acquire_synchronization_lock: the update and the commit.  Who selected the source
\* before will set the attribute a second time.
Set(p) ==
    /\ stage[p] = "tested"
    /\ inSynchronization' = "recent"
    /\ Goto(p, "locked")
    /\ beaten' = {q \in Process \ {p} : stage[q] = "tested"}
    /\ overtaken' = IF p \in beaten THEN overtaken \cup Holders ELSE overtaken
    /\ UNCHANGED <<latestRetrieval, threads, task, crashes>>

\* _pull_data
Pull(p) ==
    /\ stage[p] = "locked"
    /\ Goto(p, "pulling")
    /\ UNCHANGED <<inSynchronization, latestRetrieval, threads, task, beaten, overtaken,
                   crashes>>

\* update_latest_retrieval, unless the parser raised.
Retrieved == latestRetrieval' \in {latestRetrieval, "recent"}

\* _pull_data returns or raises.
Pulled(p) ==
    /\ stage[p] = "pulling"
    /\ Retrieved
    /\ Goto(p, "pulled")
    /\ UNCHANGED <<inSynchronization, threads, task, beaten, overtaken, crashes>>

\* KeyboardInterrupt or SystemExit in the task: not re-scheduled.
Interrupted(p) ==
    /\ stage[p] = "pulling"
    /\ task[p] = "runs"
    /\ task' = [task EXCEPT ![p] = "dropped"]
    /\ Goto(p, "pulled")
    /\ UNCHANGED <<inSynchronization, latestRetrieval, threads, beaten, overtaken, crashes>>

\* _async_pull_data, for the service: a thread is started.
PullInThread(p) ==
    /\ stage[p] = "locked"
    /\ task[p] # "runs"
    /\ threads[p] < MaxThreads
    /\ threads' = [threads EXCEPT ![p] = @ + 1]
    /\ Goto(p, "pulled")
    /\ UNCHANGED <<inSynchronization, latestRetrieval, task, beaten, overtaken, crashes>>

\* _synchronize_source returns or raises.
ThreadEnds(p) ==
    /\ threads[p] > 0
    /\ threads' = [threads EXCEPT ![p] = @ - 1]
    /\ Retrieved
    /\ UNCHANGED <<inSynchronization, stage, task, beaten, overtaken, crashes>>

\* release_synchronization_lock: the attribute is cleared, whoever set it.
Release(p) ==
    /\ stage[p] = "pulled"
    /\ inSynchronization' = "null"
    /\ Goto(p, "idle")
    /\ Returned(p)
    /\ overtaken' = (overtaken \cup Holders) \ {p}
    /\ UNCHANGED <<latestRetrieval, threads, beaten, crashes>>

\* The rollback of pull_data or its release raises, and the time stamp stays.
ReleaseRaises(p) ==
    /\ stage[p] = "pulled"
    /\ Goto(p, "idle")
    /\ Returned(p)
    /\ overtaken' = overtaken \ {p}
    /\ UNCHANGED <<inSynchronization, latestRetrieval, threads, beaten, crashes>>

\* The process dies and starts again.
Crash(p) ==
    /\ crashes < MaxCrashes
    /\ crashes' = crashes + 1
    /\ Goto(p, "idle")
    /\ threads' = [threads EXCEPT ![p] = 0]
    /\ task' = [task EXCEPT ![p] = AtStart(p)]
    /\ beaten' = beaten \ {p}
    /\ overtaken' = overtaken \ {p}
    /\ UNCHANGED <<inSynchronization, latestRetrieval>>

\* max-lock-lifetime passes, even if a synchronization is not over.
Expire ==
    /\ inSynchronization = "recent"
    /\ inSynchronization' = "old"
    /\ overtaken' = overtaken \cup Holders
    /\ UNCHANGED <<latestRetrieval, stage, threads, task, beaten, crashes>>

\* The synchronization interval passes.
Interval ==
    /\ latestRetrieval' = "old"
    /\ UNCHANGED <<inSynchronization, stage, threads, task, beaten, overtaken, crashes>>

\* What a process goes on doing once it was called, by its task or by someone.
Work(p) == \/ Fire(p) \/ Test(p) \/ Set(p) \/ Pull(p)
           \/ PullInThread(p) \/ Pulled(p) \/ Release(p)

LockNext == \/ Expire \/ Interval
            \/ \E p \in Process : \/ Work(p) \/ Call(p, TRUE) \/ Call(p, FALSE)
                                  \/ ThreadEnds(p)
                                  \/ Interrupted(p) \/ ReleaseRaises(p) \/ Crash(p)

LockSpec == LockInit /\ [][LockNext]_lockVars

\* Time passes, a scheduler runs what was entered, and a pull ends.
FairSpec == /\ LockSpec
            /\ WF_lockVars(Expire) /\ WF_lockVars(Interval)
            /\ \A p \in Process : WF_lockVars(Work(p)) /\ WF_lockVars(ThreadEnds(p))

--------------------------------------------------------------------------------

TypeOK ==
    /\ inSynchronization \in {"null", "recent", "old"}
    /\ latestRetrieval \in {"recent", "old"}
    /\ stage \in [Process -> {"idle", "called", "tested", "locked", "pulling", "pulled"}]
    /\ threads \in [Process -> 0..MaxThreads]
    /\ task \in [Process -> Tasks]
    /\ beaten \subseteq Process
    /\ overtaken \subseteq Process
    /\ crashes \in 0..MaxCrashes

(* datafeed.py:149, "a concurrent synchronization is already running": one  *)
(* call at a time has the lock and its mark stays until it releases it, in *)
(* spite of processes that die and locks that are taken over.  The code    *)
(* breaks this in three ways, and in no other: the lock gets too old while *)
(* it is held; two calls test the attribute before either sets it; a call  *)
(* whose lock was taken over releases the one that replaced it.            *)
LockIsMarked ==
    /\ \A p, q \in Holders \ overtaken : p = q
    /\ Holders \subseteq overtaken \/ inSynchronization = "recent"

\* datafeed.py:64-67, utils.py:98-102.  Whatever the synchronizations raise, whoever dies
\* and whatever lock is left behind, the source is synchronized again and again, by calls
\* nobody forces, unless the task of each scheduler got "a BaseException".
SynchronizedAgain ==
    \/ []<>(\E p \in Process : stage[p] = "pulling" \/ threads[p] > 0)
    \/ <>[](\A p \in Scheduler : task[p] = "dropped")
================================================================================
