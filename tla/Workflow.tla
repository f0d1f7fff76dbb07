------------------------------- MODULE Workflow -------------------------------
(***************************************************************************)
(* The state of one workflowable entity: the hooks and the operations of   *)
(* cubicweb/hooks/workflow.py with the adapter of entities/wfobjs.py, by   *)
(* several connections on a database at READ COMMITTED.                    *)
(*                                                                         *)
(* A change of state is the insertion of a TrInfo, whose rank a unique     *)
(* index protects, between a hook that checks it and a hook that rewrites  *)
(* the relation in_state.  What follows from it, automatic transitions,    *)
(* exits of subworkflows and changes of workflow, is left to operations    *)
(* that read everything again at precommit.  Reading goes through the      *)
(* entity cache of the connection, which lives as long as the transaction. *)
(***************************************************************************)
EXTENDS Integers, Sequences, FiniteSets, SequencesExt, TLC

CONSTANTS
    Cnx,          \* the repository connections
    Manager,      \* those of managers
    State, Transition, Workflows,
    StateOf,      \* the workflow of a state
    TransitionOf, \* the workflow of a transition
    Initial,      \* the initial state of a workflow
    From,         \* the states in which a transition is allowed
    Destination,  \* its destination state, or None to go back to the previous state
    Sub,          \* the workflow it enters, for the workflow transitions
    Exits,        \* for these, where each exit point leads, None being back
    Automatic,    \* the automatic transitions
    Restricted,   \* those only managers may fire
    Default,      \* the workflow of the type of the entity
    Custom,       \* another workflow that applies to it
    None, Unread,
    MaxHistory,   \* bound: changes of state
    MaxCalls      \* bound: changes the transactions in progress ask for

ASSUME SchemaAssumption ==
    /\ Manager \subseteq Cnx
    /\ {Default, Custom} \subseteq Workflows
    /\ StateOf \in [State -> Workflows] /\ TransitionOf \in [Transition -> Workflows]
    /\ Initial \in [Workflows -> State]
    /\ Destination \in [Transition -> State \cup {None}]
    /\ DOMAIN Sub \subseteq Transition /\ Automatic \subseteq Transition
    /\ \A w \in Workflows : StateOf[Initial[w]] = w
    /\ \A t \in Transition \ DOMAIN Sub : Destination[t] # None =>
           StateOf[Destination[t]] = TransitionOf[t]
    /\ \A t \in Transition : \A s \in From[t] : StateOf[s] = TransitionOf[t]
    /\ \A t \in DOMAIN Sub :
           /\ Sub[t] \in Workflows
           /\ \A s \in DOMAIN Exits[t] :
                  /\ StateOf[s] = Sub[t]
                  /\ \/ Exits[t][s] = None
                     \/ Exits[t][s] \in State /\ StateOf[Exits[t][s]] = TransitionOf[t]

\* _FireAutotransitionOp asserts it, and an entity in two states would be lost.
ASSUME AutoAssumption ==
    \A s \in State : Cardinality({t \in Automatic : s \in From[t]}) <= 1

VARIABLES
    exists,     \* the entity is committed
    inState,    \* the states it is related to by in_state, committed
    history,    \* its committed TrInfo entities, by rank
    custom,     \* its committed custom workflow, or None
    creator,    \* the connection whose transaction creates it, or None
    gone,       \* gone[c]: committed rows of in_state its transaction deleted
    added,      \* rows of in_state it inserted
    mine,       \* TrInfo entities it inserted
    changed,    \* the custom workflow it sets or removes; Unread if it does not
    cache,      \* what the cached entity knows: its state, rank and custom workflow
    phase,      \* "open", or "precommit" while its operations are run
    calls,      \* changes of state or of workflow that the transaction asked for
    ops,        \* its pending operations
    call,       \* the change of state in progress, or None
    outdated,   \* history: the transactions that read what others changed since
    raced       \* history: one of these wrote something and was committed

database == <<exists, inState, history, custom>>
writes == <<creator, gone, added, mine, changed>>
control == <<phase, calls, ops, call>>
races == <<outdated, raced>>
vars == <<database, writes, cache, control, races>>

TrInfo == [by : Transition \cup {None}, from : State, to : State]
InProgress == [step : {"check"}, by : Transition \cup {None}, to : State \cup {None},
         wf : Workflows \cup {None}]
        \cup [step : {"write"}, from : State, to : State, trinfo : BOOLEAN]
ASSUME NoneAssumption == None \notin InProgress \cup State \cup Transition \cup Cnx
ASSUME UnreadAssumption == Unread \notin State \cup {None} /\ Unread \notin Nat

Fresh == [state |-> Unread, rank |-> Unread, custom |-> Unread]

Init ==
    /\ exists = FALSE /\ inState = {} /\ history = <<>> /\ custom = None
    /\ creator = None
    /\ gone = [c \in Cnx |-> {}] /\ added = gone
    /\ mine = [c \in Cnx |-> <<>>]
    /\ changed = [c \in Cnx |-> Unread]
    /\ cache = [c \in Cnx |-> Fresh]
    /\ phase = [c \in Cnx |-> "open"]
    /\ calls = [c \in Cnx |-> 0]
    /\ ops = [c \in Cnx |-> <<>>]
    /\ call = [c \in Cnx |-> None]
    /\ outdated = {} /\ raced = FALSE

--------------------------------------------------------------------------------
(* Reading.                                                                *)

Others(c) == Cnx \ {c}

InDatabase(c) == (inState \ gone[c]) \cup added[c]

\* entity.in_state[0]: any of the rows, should there be several.
CurrentStates(c) ==
    IF cache[c].state # Unread THEN {cache[c].state}
    ELSE IF InDatabase(c) = {} THEN {None} ELSE InDatabase(c)

CustomWorkflow(c) ==
    IF cache[c].custom # Unread THEN cache[c].custom
    ELSE IF changed[c] # Unread THEN changed[c] ELSE custom

MainWorkflow(c) == IF CustomWorkflow(c) = None THEN Default ELSE CustomWorkflow(c)

\* workflow_history: the cache does not see what others committed since.
WorkflowHistory(c) ==
    IF cache[c].rank = Unread THEN history \o mine[c]
    ELSE SubSeq(history, 1, cache[c].rank - Len(mine[c])) \o mine[c]

\* subworkflow_input_trinfo: the entries into subworkflows that are still open.
Entries(h) ==
    LET Step(open, i) ==
            LET from == StateOf[i.from]
                to == StateOf[i.to]
                top == Last(open)
            IN  IF i.by = None \/ from = to THEN open
                ELSE IF open # <<>> /\ StateOf[top.to] = from /\ StateOf[top.from] = to
                THEN Front(open) ELSE Append(open, i)
    IN  FoldLeft(Step, <<>>, h)

\* The last of them, if there is one.
Entry(h) == {i \in ToSet(h) : Entries(h) # <<>> /\ i = Last(Entries(h))}

MayBeFired(c, t) == t \in Restricted => c \in Manager

--------------------------------------------------------------------------------
(* Changing the state, in the steps that other connections may separate.   *)

\* A query about the entity, between two others.
Asking(c) ==
    /\ phase[c] = "open" /\ call[c] = None
    /\ exists \/ creator = c

\* The hook on the TrInfo first counts those there are.
Begin(c, by, to, wf) ==
    /\ Len(history) + Len(mine[c]) < MaxHistory
    /\ cache' = [cache EXCEPT ![c].rank = Len(WorkflowHistory(c))]
    /\ call' = [call EXCEPT ![c] = [step |-> "check", by |-> by, to |-> to, wf |-> wf]]

\* Changes asked for by the transactions in progress.
Requested == FoldFunction(+, 0, calls)

\* fire_transition and, for a manager, change_state.
FireTransition(c, t) ==
    /\ Asking(c)
    /\ Requested < MaxCalls
    /\ calls' = [calls EXCEPT ![c] = @ + 1]
    /\ Begin(c, t, None, None)
    /\ UNCHANGED <<database, writes, phase, ops, races>>

ChangeState(c, s) ==
    /\ Asking(c)
    /\ c \in Manager
    /\ Requested < MaxCalls
    /\ calls' = [calls EXCEPT ![c] = @ + 1]
    /\ Begin(c, None, s, None)
    /\ UNCHANGED <<database, writes, phase, ops, races>>

\* Where the TrInfo leads when nothing says it.
DestinationOf(c, t) ==
    IF t \in DOMAIN Sub THEN Initial[Sub[t]]
    ELSE IF Destination[t] # None THEN Destination[t]
    ELSE Last(WorkflowHistory(c)).from

\* FireTransitionHook: from the state s, the change asked for is allowed.  A
\* change with both a transition and a state is the exit of a subworkflow.
Allowed(c, i, s) ==
    /\ s # None
    /\ IF i.by = None
       THEN StateOf[i.to] = IF i.wf = None THEN StateOf[s] ELSE i.wf
       ELSE i.to = None =>
                /\ s \in From[i.by]
                /\ MayBeFired(c, i.by)
                /\ \/ i.by \in DOMAIN Sub
                   \/ Destination[i.by] # None
                   \/ WorkflowHistory(c) # <<>>

\* Mutant: without the constraint, two TrInfo may have the same rank.
RankIsFree_Always(c) == TRUE

\* The unique index on the rank of the TrInfo of an entity: the insertion waits for
\* those that are not committed and fails if the rank is taken.
RankIsFree(c) ==
    /\ \A o \in Others(c) : mine[o] = <<>>
    /\ cache[c].rank = Len(history) + Len(mine[c])

\* FireTransitionHook, then the insertion.
AddTrInfo(c) ==
    /\ call[c] # None /\ call[c].step = "check"
    /\ RankIsFree(c)
    /\ \E s \in CurrentStates(c) :
           LET i == call[c]
               to == IF i.to = None THEN DestinationOf(c, i.by) ELSE i.to
           IN  /\ Allowed(c, i, s)
               /\ mine' = [mine EXCEPT ![c] =
                               Append(@, [by |-> i.by, from |-> s, to |-> to])]
               /\ cache' = [cache EXCEPT ![c].rank = @ + 1, ![c].state = s]
               /\ call' = [call EXCEPT ![c] = [step |-> "write", from |-> s, to |-> to,
                                               trinfo |-> TRUE]]
    /\ ops' = [ops EXCEPT ![c] = Append(@, [op |-> "auto"])]
    /\ UNCHANGED <<database, creator, gone, added, changed, phase, calls, races>>

\* _change_state, whose statements wait for those who delete the rows it deletes or
\* insert the one it inserts; then, after a TrInfo, FiredTransitionHook compares
\* the main workflow of the entity and the current one.
Write(c) ==
    /\ call[c] # None /\ call[c].step = "write"
    /\ LET i == call[c]
           old == {i.from} \cup (InDatabase(c) \ {i.to})
       IN  /\ \A o \in Others(c) : gone[o] \cap (old \cup {i.to}) = {}
                                   /\ i.to \notin added[o]
           /\ i.to \notin InDatabase(c) \ old
           /\ gone' = [gone EXCEPT ![c] = @ \cup (old \cap inState)]
           /\ added' = [added EXCEPT ![c] = (@ \ old) \cup {i.to}]
           /\ ops' = [ops EXCEPT ![c] =
                  IF ~i.trinfo THEN Append(@, [op |-> "auto"])
                  ELSE IF MainWorkflow(c) # StateOf[i.to]
                  THEN Append(@, [op |-> "exit", state |-> i.to]) ELSE @]
           /\ cache' = [cache EXCEPT ![c].state = i.to,
                            ![c].custom = IF i.trinfo THEN CustomWorkflow(c) ELSE @]
    /\ call' = [call EXCEPT ![c] = None]
    /\ UNCHANGED <<database, creator, mine, changed, phase, calls, races>>

--------------------------------------------------------------------------------
(* The other queries of a transaction.                                     *)

\* SetInitialStateHook, when the entity is added.
Create(c) ==
    /\ phase[c] = "open" /\ ~exists /\ creator = None
    /\ creator' = c
    /\ ops' = [ops EXCEPT ![c] = Append(@, [op |-> "initial"])]
    /\ UNCHANGED <<database, gone, added, mine, changed, cache>>
    /\ UNCHANGED <<phase, calls, call, races>>

\* set_initial_state, on a new entity, checked by CheckInStateChangeAllowed.
SetInitialState(c, s) ==
    /\ Asking(c) /\ creator = c
    /\ CurrentStates(c) = {None}
    /\ StateOf[s] = MainWorkflow(c)
    /\ added' = [added EXCEPT ![c] = {s}]
    /\ cache' = [cache EXCEPT ![c].state = s, ![c].custom = CustomWorkflow(c)]
    /\ UNCHANGED <<database, creator, gone, mine, changed, control, races>>

\* A query that loads the state of the entity, at the beginning of a transaction.
Look(c) ==
    /\ Asking(c) /\ exists /\ cache[c] = Fresh
    /\ \E s \in CurrentStates(c) : cache' = [cache EXCEPT ![c].state = s]
    /\ UNCHANGED <<database, writes, control, races>>

\* SetCustomWorkflow and DelCustomWorkflow, after the row is written.
SetCustomWorkflow(c, w) ==
    /\ Asking(c) /\ Requested < MaxCalls
    /\ c \in Manager
    /\ \A o \in Others(c) : changed[o] = Unread
    /\ w # IF changed[c] = Unread THEN custom ELSE changed[c]
    /\ changed' = [changed EXCEPT ![c] = w]
    /\ cache' = [cache EXCEPT ![c].custom = w]
    /\ ops' = [ops EXCEPT ![c] = Append(@, [op |-> "workflow",
                                            wf |-> IF w = None THEN Default ELSE w])]
    /\ calls' = [calls EXCEPT ![c] = @ + 1]
    /\ UNCHANGED <<database, creator, gone, added, mine, phase, call, races>>

--------------------------------------------------------------------------------
(* The operations, in the order of their registration.                     *)

Precommit(c) ==
    /\ phase[c] = "open" /\ call[c] = None /\ ops[c] # <<>>
    /\ phase' = [phase EXCEPT ![c] = "precommit"]
    /\ UNCHANGED <<database, writes, cache, calls, ops, call, races>>

Running(c, o) ==
    /\ phase[c] = "precommit" /\ call[c] = None /\ ops[c] # <<>>
    /\ Head(ops[c]).op = o

InitialOf(c) == Initial[MainWorkflow(c)]

\* _SetInitialStateOp, on an entity that nobody else sees yet.
RunSetInitialState(c) ==
    /\ Running(c, "initial")
    /\ IF CurrentStates(c) = {None}
       THEN LET s == InitialOf(c)
            IN  /\ added' = [added EXCEPT ![c] = {s}]
                /\ ops' = [ops EXCEPT ![c] = Append(Tail(@), [op |-> "auto"])]
                /\ cache' = [cache EXCEPT ![c].state = s,
                                          ![c].custom = CustomWorkflow(c)]
       ELSE ops' = [ops EXCEPT ![c] = Tail(@)] /\ UNCHANGED <<added, cache>>
    /\ UNCHANGED <<database, creator, gone, mine, changed, phase, calls, call, races>>

\* Mutant: automatic transitions are left to managers.
AutoTransitions_Manager(c, s) ==
    {t \in Automatic : s \in From[t] /\ c \in Manager}

\* possible_transitions('auto'); the states that allow a transition are of its
\* workflow.
AutoTransitions(c, s) ==
    {t \in Automatic : s \in From[t] /\ MayBeFired(c, t)}

\* _FireAutotransitionOp.
RunFireAutotransition(c) ==
    /\ Running(c, "auto")
    /\ ops' = [ops EXCEPT ![c] = Tail(@)]
    /\ \E s \in CurrentStates(c) :
           IF AutoTransitions(c, s) = {}
           THEN call' = call /\ cache' = [cache EXCEPT ![c].state = s]
           ELSE \E t \in AutoTransitions(c, s) : Begin(c, t, None, None)
    /\ UNCHANGED <<database, writes, phase, calls, races>>

\* Mutant: the workflow of the entity is not read again.
NothingToDo_Before(c, s, wf) ==
    \/ wf # IF custom = None THEN Default ELSE custom
    \/ StateOf[s] = wf

\* The workflow was changed again since, or the state is one of its states.
NothingToDo(c, s, wf) == MainWorkflow(c) # wf \/ StateOf[s] = wf

\* _WorkflowChangedOp: unless there is nothing to do, go to the initial state, with a
\* TrInfo if there are others.
RunWorkflowChanged(c) ==
    /\ Running(c, "workflow")
    /\ ops' = [ops EXCEPT ![c] = Tail(@)]
    /\ LET wf == Head(ops[c]).wf
           initial == Initial[wf]
       IN  \E s \in CurrentStates(c) :
               /\ s # None
               /\ IF NothingToDo(c, s, wf)
                  THEN UNCHANGED <<cache, call>>
                  ELSE IF WorkflowHistory(c) = <<>>
                  THEN /\ call' = [call EXCEPT ![c] = [step |-> "write", from |-> s,
                                                to |-> initial, trinfo |-> FALSE]]
                       /\ cache' = [cache EXCEPT ![c].rank = 0, ![c].state = s]
                  ELSE Begin(c, None, initial, wf)
    /\ UNCHANGED <<database, writes, phase, calls, races>>

\* _SubWorkflowExitOp: if the state that was reached is an exit point of the
\* transition that entered the subworkflow, take it.
RunSubWorkflowExit(c) ==
    /\ Running(c, "exit")
    /\ ops' = [ops EXCEPT ![c] = Tail(@)]
    /\ \E s \in CurrentStates(c) :
       \E entry \in Entry(WorkflowHistory(c)) :
           LET state == Head(ops[c]).state
           IN  /\ StateOf[s] # MainWorkflow(c)
               /\ entry.by \in DOMAIN Sub
               /\ IF state \in DOMAIN Exits[entry.by]
                  THEN LET out == Exits[entry.by][state]
                           to == IF out = None THEN entry.from ELSE out
                       IN  Begin(c, entry.by, to, None)
                  ELSE UNCHANGED <<cache, call>>
    /\ UNCHANGED <<database, writes, phase, calls, races>>

--------------------------------------------------------------------------------
(* The end of a transaction.                                               *)

Clear(c) ==
    /\ creator' = IF creator = c THEN None ELSE creator
    /\ gone' = [gone EXCEPT ![c] = {}]
    /\ added' = [added EXCEPT ![c] = {}]
    /\ mine' = [mine EXCEPT ![c] = <<>>]
    /\ changed' = [changed EXCEPT ![c] = Unread]
    /\ cache' = [cache EXCEPT ![c] = Fresh]
    /\ phase' = [phase EXCEPT ![c] = "open"]
    /\ calls' = [calls EXCEPT ![c] = 0]
    /\ ops' = [ops EXCEPT ![c] = <<>>]
    /\ call' = [call EXCEPT ![c] = None]

\* What o read is no longer true, now that c is committed, and nothing will tell
\* o: not even the rank of the TrInfo that it is about to insert.
Outdates(c, o) ==
    /\ cache[o].state # Unread \/ cache[o].custom # Unread
    /\ InDatabase(c) # inState \/ mine[c] # <<>> \/ changed[c] # Unread
    /\ mine[c] = <<>> \/ call[o] = None \/ call[o].step # "check"

Commit(c) ==
    /\ phase[c] = "precommit" /\ call[c] = None /\ ops[c] = <<>>
    /\ outdated' = (outdated \ {c}) \cup {o \in Others(c) : Outdates(c, o)}
    /\ raced' = (raced \/ c \in outdated)
    /\ exists' = (exists \/ creator = c)
    /\ inState' = InDatabase(c)
    /\ history' = history \o mine[c]
    /\ custom' = IF changed[c] = Unread THEN custom ELSE changed[c]
    /\ Clear(c)

\* Asked for, or after a hook, an operation or a statement that failed: a call that
\* is refused leaves nothing else to do.
Rollback(c) ==
    /\ outdated' = outdated \ {c}
    /\ Clear(c)
    /\ UNCHANGED <<database, raced>>

\* What follows a race is not explored: every property is about its absence.
Next ==
    ~raced /\ \E c \in Cnx :
        \/ Create(c) \/ Look(c)
        \/ \E s \in State : SetInitialState(c, s) \/ ChangeState(c, s)
        \/ \E t \in Transition : FireTransition(c, t)
        \/ \E w \in {Custom, None} : SetCustomWorkflow(c, w)
        \/ AddTrInfo(c) \/ Write(c)
        \/ Precommit(c)
        \/ RunSetInitialState(c) \/ RunFireAutotransition(c)
        \/ RunWorkflowChanged(c) \/ RunSubWorkflowExit(c)
        \/ Commit(c) \/ Rollback(c)

Spec == Init /\ [][Next]_vars

--------------------------------------------------------------------------------
(* Properties.                                                             *)

\* An entity has one state, each TrInfo starts where the one before it ended and
\* the last one ended in the state of the entity: what the unique index on the
\* rank is for, with transactions that fire at once, subworkflows, automatic
\* transitions and changes of workflow, unless a transaction changed something
\* after having read the state or the workflow before another one changed it.
HistoryChain == ~raced =>
    /\ exists => Cardinality(inState) = 1
    /\ \A i \in 1 .. Len(history) - 1 : history[i].to = history[i + 1].from
    /\ history # <<>> => inState = {Last(history).to}

MainCommitted == IF custom = None THEN Default ELSE custom

\* The state is one of the main workflow, or of the subworkflow that the last open
\* entry of the history entered, so that the entity can leave it: whatever the
\* order in which a transaction changes the workflow and the state, the operations
\* end in one that fits or refuse the commit.
InItsWorkflow == ~raced =>
    \A s \in inState : StateOf[s] # MainCommitted =>
        /\ Entries(history) # <<>>
        /\ Last(Entries(history)).by \in DOMAIN Sub
        /\ Sub[Last(Entries(history)).by] = StateOf[s]

\* No entity is left at an exit point of the subworkflow it entered, nor in a state
\* with an automatic transition that whoever put it there may fire, unless
\* set_initial_state did: what the operations registered by each change must reach
\* before the commit, a change after another.
Settled == ~raced =>
    \A s \in inState :
        /\ history # <<>> \/ s = Initial[MainCommitted] =>
               \A t \in Automatic \ Restricted : s \notin From[t]
        /\ StateOf[s] # MainCommitted =>
               s \notin DOMAIN Exits[Last(Entries(history)).by]
================================================================================
