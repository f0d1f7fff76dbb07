# Verification of the CubicWeb repository

TLA+ models of the part of CubicWeb that keeps data consistent: the *repository*
(`cubicweb/server`) and the hooks that belong to it (`cubicweb/hooks`). The models are
checked with TLC on small instances; part of what they state is proved with TLAPS for every
instance. Paths below are relative to the repository, `server/` and `hooks/` standing for
`cubicweb/server/` and `cubicweb/hooks/`. `PROJECT.json` holds the machine-readable index:
components, runs, the lines every definition models, mutants, findings, hazards, theorems.

Contents: 1 the system, 2 the hazards, 3 the modules, 4 the runs, 5 bounds and fairness,
6 the proofs, 7 where the code departs from its promises, 8 what is not
modelled, 9 the plan, 10 how to run.

## 1. The system

A CubicWeb instance is a process with one `Repository`. Clients (web requests, background
tasks, commands) open a repository `Connection` in a `with` block, run RQL queries, and call
`commit()` or `rollback()`. Several instances may share one SQL database.

| component | state it keeps | operations | interacts with |
|---|---|---|---|
| connection, transaction (`server/session.py`) | `commit_state`, `pending_operations`, `hooks_in_progress`, `transaction_data`, entity cache | `execute`, `commit`, `rollback`, `__enter__`, `__exit__` | hooks, operations, cnxset pool, system source |
| hooks and operations (`server/hook.py`) | the queue of the connection, the data of each operation | registration by kind, `precommit`, `revertprecommit`, `postcommit`, `rollback` events | every other component: this is where they attach |
| cnxset pool (`server/repository.py`) | queue of database connections | `get` with a timeout of 5 s, `release`, `close` | threads of all connections |
| threads, shutdown (`server/repository.py`, `server/utils.py`) | `_running_threads`, scheduler | `threaded_task`, `looping_task`, `shutdown` | pool, data feeds, mail |
| eid type cache (`server/repository.py`) | `_type_cache`, shared by all connections | lookup, `clear_caches`, cleaning operations | entities table, other instances through `server/cwzmq.py` |
| file storage (`server/sources/storages.py`) | files on disk, paths in rows | `entity_added`, `entity_updated`, `entity_deleted` and two operations | database transaction, operations |
| relation cardinality (`server/repository.py`, `hooks/integrity.py`) | relations, data of the check operations | `glob_add_relations`, deletions, precommit checks | database transactions of others |
| unique constraint lock (`hooks/integrity.py`) | a process-wide lock, a marker in `transaction_data` | check under the lock, release by an operation | full text rows, COMMIT |
| data feed sources (`server/sources/datafeed.py`) | `in_synchronization`, `latest_retrieval` in the database | `pull_data`, in the foreground or in a thread | periodic tasks of several processes, parsers |
| scheduler (`server/utils.py`) | periodic tasks | `looping_task`, running one task at a time | data feeds |
| LDAP source (`sobjects/ldapparser.py`, `server/sources/ldapfeed.py`) | users and groups copied from a directory | `process_urls`: import, members, activation, deactivation | importer, workflow of users |
| data import (`dataimport/importer.py`) | queues of external entities, deferred relations | `import_entities` | stores, parsers of sources |
| undo (`server/sources/native.py`) | records of transactions and of their actions | record, `undo_transaction`, cleanup | row locks, other transactions |
| full text index (`server/sources/native.py`) | rows of the index, the set of indexed eids | `FTIndexEntityOp`, its hooks | relations between texts and what contains them |
| relation cache (`server/session.py`, `entity.py`) | related entities of the entities of a connection | `related`, `update_rel_cache_add`, `_del` | hooks that write relations |
| workflow (`hooks/workflow.py`, `entities/wfobjs.py`) | `in_state`, `TrInfo` entities, custom workflow | `fire_transition`, `change_state`, operations | entity cache, order of operations |
| schema synchronization (`hooks/syncschema.py`) | schema objects in memory, tables | one operation for each change of a type or definition | COMMIT, reverts, all connections |
| property synchronization (`hooks/syncsession.py`) | properties in the registry | postcommit operations | all connections |
| computed attributes (`hooks/synccomputed.py`) | columns computed from others | hooks generated from formulas, one operation | the queries of that operation |
| eid generator, security, notification | a sequence; permissions; mail | `create_eid`, checks, sending | the transaction |
| querier, planner, RQL to SQL | caches of parsed queries | pure translation | system source |
| registry, entities, web, pyramid, tools | configuration, objects, HTML | selection, rendering | clients of the above |

What makes each of them correct:

* a transaction is all or nothing, and every operation that prepared something is told how
  it ended, exactly once and in a documented order;
* a database connection has one owner at a time, comes back clean, and comes back at all;
* shutting down closes every connection and none in use;
* a cache shared by transactions never keeps what a rollback or a deletion took away;
* a path in a committed row is a file on disk, and no other file stays;
* committed relations obey their cardinality, committed values their uniqueness, whatever
  runs concurrently;
* a source is synchronized by one process at a time, and again after that process dies; what it
  no longer lists is deactivated, what a failed pull did not see is not;
* what is kept beside the data - schema objects, tables, properties, full text, cached relations,
  computed values - is what the committed data say;
* the history of an entity leads, state after state, to the one it is in;
* undoing a transaction gives the state without it, or tells where it could not.

The hard behaviours are the same everywhere: COMMIT itself may fail, a failed statement
silently ends the database transaction, handlers register operations while the queue is
consumed, database transactions do not see each other, and a process may die between the
database and what it keeps outside of it.

## 2. The hazards

`PROJECT.json` lists them at the line where each bites, with the properties that would catch
it. One has none: the hooks flag that an exception leaves set (`server/session.py:364`) changes which actions
are recorded as public, which no model tells apart. Another (`server/sources/datafeed.py:169`) is a promise
the code does not make. A third (`hooks/workflow.py:174`), a transition fired from a stale cached state, is a race the code
has: `HistoryChain` excepts it, and is about transitions fired at once.

## 3. The modules

Every component module has its variables, its initial states, one action per operation, its next-state
relation, its specification and its properties, and a type invariant where a proof needs one; `MC<Module>` adds constants
for TLC. Modules that a run takes together have names of their own for these (`FtiInit`, `LdapNext`). Definitions whose name
has a suffix (`Commit_Unguarded`) and a comment "Mutant" are deliberately wrong variants: a
property that does not fail when one takes the place of the original would say nothing.

### Transaction, AtomicTransaction

`Transaction` is one connection. `pending`, `processed` and `cursor` are the two lists of
`commit()` and the position of its reverting loop; `phase` says where the thread is; `handling` is
the handler that runs. `Register` computes the place of an operation (`insert_index`,
`equivalent_index`). Code outside the engine - client, hook, handler - is free: its writes, refusals
and registrations are actions that may come at any point where it runs. `Handle` is
`handle_event`, `Clear` is `Connection.clear`. `SqlError` is `doexec`, which rolls the database
back before it raises; `WriteAfterReconnect` is `system_sql`; COMMIT may abort or, with SQLite,
leave the transaction open. `fired`, `replaced`, `durable`, `acked` and `refused` are history.
`AtomicTransaction` says what a client is promised: the rows it was told were written since its last
commit or rollback become permanent together, by their COMMIT, or not at all. Two exceptions belong to the
promise, each behind a constant: a statement may lose everything written before it (`MayLose`, for
a statement that fails and one retried on a new connection), and a COMMIT that fails may leave its transaction open, so that its rows
become permanent with the next one (`MayKeep`). `AllOrNothing` is that specification under the
mapping at the end of `Transaction`, where an exception is allowed only if its fault is among `Faults`.

Left out: handlers that call `rollback()` themselves, writes of revert and rollback handlers,
registration in postcommit handlers (forbidden by `server/hook.py:711`), the test mode in which a
postcommit exception propagates, hooks that trigger queries that trigger hooks (depth one is
kept, so the flag is saved once).

### CnxSetPool, RepositoryShutdown

`CnxSetPool` is the queue of `_CnxSetPool` and the threads that open connections, nested up to
`MaxDepth`. `EnterRaises` and `ExitRaises` are the two ways a `with` block loses its cnxset;
`lost` records what they lost. `pooled` is the configuration option, read once: without a pool each
connection opens its own cnxset, and `Enter` bounds how many are open. `RepositoryShutdown` extends
the pool with the threads of `threaded_task`, the Python list they remove themselves from, and
`shutdown()`: the `for` loop over that list is a cursor, as CPython implements it, and `close()`
goes step by step next to the threads that still take from the pool and give back to it.

### EidTypeCache

One `_type_cache` per instance, the `entities` table, and per connection the sets behind
`neweids` and `pendingeids`. A lookup is two steps, the reading of the table and the filling of the
cache. `messages` are the `delete` messages of `hooks/zmq.py`, unordered and possibly lost. Types
never change, so a cache is the set of eids it knows. `home` says which instance a connection belongs
to, so one run covers one instance and two. Two histories: `missed`, the deletions an instance could not
notice, and `abandoned`, the eids no cleaning operation knows.

### FileStorage

`files` is the disk, `row` the committed column, `written` what each transaction wrote, `lock`
the row locks of the database, `addFiles` and `deleteFiles` the data of `AddFileOp` and
`DeleteFileOp`. A replacement reads the old path, writes the file, then executes a statement that may
wait for a row: three steps, as in the code, with other transactions in between. Two histories name
the exceptions: `doomed`, files to be removed although a row has them or will - their replacement was undone, or they were
imported while an operation was to remove them -, and `forgotten`, files that no operation will unlink. A file imported
again under the path its row holds is always of the second kind: `entity_updated` compares that path, a `str`,
with the `bytes` of the value, they differ whatever they spell, and the operation removes it after the commit.

### RelationCardinality

One relation type of any cardinality in `Cards`, its committed pairs, and per connection the pairs it
added and removed. A call of `glob_add_relations` goes statement by statement, other transactions in between:
`BeginAdd` takes the batch, `AddAgain` and `AddPair` are the body of the loop for a subject that the batch knows already and
for a new one - the deletion of the other relations, the list it shortens, the positions it recalls in it -, `InsertPairs` the insertion
of those left. The database is READ COMMITTED: a transaction sees its own writes and what is
committed. `checks` is the data of the two check operations, `contested` the entities whose
relations two transactions changed, or were about to change, at once.

### UniqueConstraintLock

The lock of each process, its holder, the late operations of each transaction in registration
order, the values each transaction wrote, and one row of the full text table that indexing locks.
It is a Python lock, so waiting for it does not count in the deadlock detection of the database.

### DataFeedLock

`inSynchronization` is the time stamp in the database - null, recent, or older than
`max-lock-lifetime` - and `latestRetrieval` the other one. `Test` and `Set` are the SELECT and the UPDATE
that an RQL SET query becomes, and other processes act between them. `Expire` may happen while the lock is
held. `threads` counts the background pulls of each process. `Crash` loses everything but the database.
`overtaken` is the history of who may have lost the lock without knowing it: its time stamp got too
old, a call that tested before it was set has set it again (`raced`), or the release of an earlier holder
cleared it.

The periodic task is here too: three callers pull a source, the task of the scheduler
(`UpdateFeedsStartupHook`: not forced, in the foreground), the service (forced, in a thread) and a command, and a
process is in one call at a time. `Returned` is the end of a task, which the scheduler enters again whatever it raised;
KeyboardInterrupt and SystemExit (`Interrupted`) drop it for good. `ReleaseRaises` leaves the mark until it expires.

### LDAPFeed

A pull is one transaction: `BeginPull`, the search of users and their import, that of groups, default relations, the
members group after group, reactivation, deactivation, commit. The directory changes at any time, managers act between
pulls. A search the directory refuses answers nobody (`_search`), so `found'` is `people` or nothing; a statement that
raises is caught by `process_urls()` with what was written kept (`Caught`). `before` is the state that the pull read when it
began: `handle_deletion` compares with that.

Left out: email addresses, attributes and passwords, authentication, changes by managers during a pull, directory groups
with the name of a local one, two pulls at once.

### Importer

`Postpone` and `Take` are the two fates of an entity of the stream. Within the `while new` loop `LookAtNext` is the body of
the innermost loop, one entity of the queue of one type, `EndsType` what follows that loop; `NextRound` says whether
another round begins. `needs` are the inlined relations; other relations wait for
`StreamEnds`. `applied` is what was created or updated. The order of the types that the hint lacks is left open, as the
insertion order of a dictionary filled by the stream.

Left out: values, several relation types, errors of stores.

### Undo

Rows are entities, with a value, or pairs of a relation type that a subject has at most once. An action is prepared
(`Create`, `Update`, `Delete`, `Relate`, `Unrelate`: what the code reads and records) and written (`Write`), with
other transactions in between; a row lock makes the writer wait. `log` holds the records in the order of `tx_time`,
which is when a transaction first recorded something. `Undo` starts the reversal, `UndoAction` takes the next action,
`UndoReports` and `UndoRaises` are those that cannot be undone, `Cleanup` drops records. `HasLater` is the query for later
transactions on an entity: it joins the record of the transaction undone, and answers nothing once that record is gone. `Vanished`
are the entities a commit deletes by undoing their creation, `Blind` those among them whose record was gone at that commit; `excused`
takes in the later records about these.

Left out: inlined relations, schema changes and permissions in between, the caller's edits mixed with an undo, what
hooks write during one, equal time stamps. Deletions by a cascade or of a rival are one step with their preparation.

### Workflow

One entity, a main workflow, a subworkflow that leads on to another state or back, a custom workflow, an automatic
transition (`MCWorkflow` gives the graph). `inState`, `history` and `custom` are committed; `gone`, `added`, `mine` and `changed`
what a transaction wrote; `cache` what its cached entity knows, read by `Look` and trusted later. A change of state has three
steps (`Begin`, `Allowed` with `AddTrInfo`, `Write`), and the four operations run in the order of their registration.

Left out: deletion of the entity, several custom workflows, RQL conditions (a restriction to managers stands for them),
checks of the definition of a workflow.

### SchemaSync

Items are entity types, relation types, definitions, constraints, unique constraints and permissions. `stored` are the
committed entities, `tables` the tables, columns and indexes, `memory` the objects of the process. A transaction adds and
deletes items (with what lies under them), each registering an operation; `Run...` are the precommit
events, `Reverted` and `RevertTo` what they know to take back, `AfterCommit` the changes applied after COMMIT.

Left out: renaming and updating, computed relation types, propagation to subclasses, an item added and deleted by the same
transaction, symmetric relations and inlined ones that are not attributes, other processes.

### PropertySync, FullTextIndex, RelationCache, ComputedAttributes

`PropertySync`: properties of the site or of a user; `todo` is the list of sets and pops that a transaction applies to
the registry after its COMMIT, while others commit.

`FullTextIndex`: a text is a number of changes. `toIndex` is the data of the operation, `indexed` the set that keeps an
entity from being indexed twice; the deletion of the old rows of the index and the insertion of the new are two steps.

`RelationCache`: one connection and one relation, plain, symmetric or inlined. A call writes, runs hooks - which may
read, and fill caches - and updates the caches: each is a step of `doing`. `wrong` are the entries the code gives up.

`ComputedAttributes`: the formulas of the documentation and the tests, an age from a birth year and a total from ages, so
that the operation has to register itself anew while it runs. Clerks change data in concurrent transactions. Left out:
other formulas, several entity types.

### MCDerivedData, MCDataFeed

Components that share nothing are checked by one run as parts of a behaviour each: `part` says which one the behaviour is
about, and the others stay in one state. That costs the sum of their states and not the product, and loses nothing,
since they do not interact.

### SequenceLemmas, TransactionProofs, PoolAndStorageProofs, DerivedDataProofs, RelationCardinalityProofs, UniqueConstraintLockProofs, FeedAndWorkflowProofs, UndoProofs

The proofs, see section 6. `DerivedDataProofs` goes with the run of the same name, `FeedAndWorkflowProofs` with `DataFeed` and
`Workflow`, `PoolAndStorageProofs` with `PoolAndShutdown` and `FileStorage`.

### How exceptions are stated

The code does not keep all its promises (section 7). Where it does not, a property is not weakened to
what happens to hold of a friendly environment: the environment is left free, a history variable records
the one step at which the code gives up, and the property says that nothing but that step breaks the
promise. So `NoneLost` says that a cnxset is lost only by an `__enter__` or `__exit__` that raised,
and would be violated by any other leak.

## 4. The runs

| run | instance | question |
|---|---|---|
| TransactionSafety | a normal, a late, two single-last operations of one class, one row, all five faults, fair | events form legal histories, once each, in kind order, reverted in reverse, and tell the outcome of the database; nothing is forgotten; no refused transaction is committed; `commit()` and `rollback()` end |
| TransactionAtomicity | three operations, two rows, all five faults | a connection implements `AtomicTransaction`, its two exceptions included |
| CommitErrorKeepsOperations | three operations, a COMMIT that fails | violation, section 7 |
| PoolAndShutdown | a client and two tasks, two cnxsets, nesting of two, pooled or not, failing enter and exit, fair | one owner, clean when free, none lost; `get()` ends; `shutdown()` ends |
| DerivedData | two instances and three connections for the type cache; two writers for each of the others; all faults | memory, tables, registry, index, caches and computed values follow the committed data; the type cache forgets what was rolled back and what was deleted |
| FileStorage | two connections, one entity, two new files and an import, all four faults | a readable path is a file, no file is orphaned, a committed file is never unlinked by a rollback, nor by a commit: but for the files in `doomed` and `forgotten` |
| RelationCardinality | two connections, two subjects, two objects, cardinalities `1+`, `+1`, `*?`, batches of two | committed relations obey their cardinality; whatever loses a required one is checked |
| BatchOfPairs | one connection, two subjects of cardinality `?`, a batch of four pairs | violation, section 7 |
| UniqueConstraint | three connections of one process, two entities, one value, operations in any order, failing COMMITs, fair | committed values are unique; the lock follows a transaction and is given back |
| DataFeed | three processes, schedulers in two, a background thread each, two deaths, fair; two people, a local group, a team, two changes; streams of three external entities of two types | the lock has one holder and keeps its mark; the source is synchronized again and again; a failed pull deactivates nobody, another follows the directory; what can be imported is |
| Undo | two connections, a subject and three objects, one with two values, two recorded transactions of two actions and a cascade | rows are restored or reported; undoing goes back through the committed states; no later record is left about an entity undone, but for races and missing records (`excused`) |
| Workflow | two connections, one of a manager, the workflows of `MCWorkflow`, four changes of state, two calls | the history is a chain that ends in the one state of the entity; the state is in its workflow; no exit and no automatic transition is left unfired |

Each run explores all the faults of its module together; a property that a fault breaks names it in its
statement. Every property has a mutant in `PROJECT.json`, a plausible slip in the code it is about
(a forgotten reset, a guard dropped, a wrong order) that makes it fail in the same run.

Deadlock is checked except where bounds or the system stop a behaviour: `Undo` states its end (`Exhausted`), while
`DerivedData`, `DataFeed` and `Workflow` stop when their changes are spent. In `UniqueConstraint` the system
itself stops: a transaction that indexes after it took the Python lock waits for a row of a transaction that waits
for the Python lock, neither lock manager sees the cycle, and the process stops. `LockGivenBack` names that cycle
(`Deadlocked`) and shows that nothing else but a failed COMMIT keeps the lock.

## 5. Bounds and fairness

Bounds are constants: operations, rows, threads, files, eids, `MaxDepth`, `MaxBatch`, `MaxCrashes`,
`MaxThreads`. They are chosen for the case that matters to happen.

* Two single-last instances are needed for one to supersede the other, and one operation of each kind for all
  insertions to meet; an instance is registered at most once, as in the code.
* A pool of two with three threads that nest twice is exhausted by threads that wait for each other; two tasks
  are the fewest for `shutdown()` to skip one.
* `MaxBatch` and `MaxContested` bound one call and one history; the proofs of section 6 hold for all of their values but
  where a theorem says otherwise.
* Two transactions on one row or relation make every race of the code, which reads before it writes once.
  `UniqueConstraint` has three, so that one waits for the lock while another leaks it or closes a cycle.
* The type cache has one eid and three connections: eids do not meet, the operations taking sets and treating each
  member alike, while a lookup may be late on the deletion and on its message.
* `MaxChanges`, `MaxEdits`, `MaxTexts` and `MaxWrites` are 3: one change each and one more by either, which makes every
  two changes cross in all orders before and after a commit. `MaxHires` is 2, over initial states where people work
  already; 3 was run once, on this part alone, with the same result.
* Two recorded transactions of two actions, one a deletion with its cascade, let one undo what the other
  depends on, in the other order and while it runs.
* Four changes of state, of which a user asks for two, are what it takes to enter a subworkflow, leave it, follow
  an automatic transition and start again; two calls may be of one transaction or of two.
* Two changes of a directory or by managers: one before a pull and one within it. Three entities of two types are a
  chain that has to go through both queues twice.
* Two new files and an imported one let a value be replaced and come back.
* Batches of two show every branch of the loop of `glob_add_relations`; positions only go wrong from three
  pairs on, which `BatchOfPairs` shows with four. `MaxContested` is 1: a second contested entity would only excuse more.
* Three processes let one take over a lock while another waits; two deaths let a takeover die as well.

Where no bound on changes is named, transactions follow one another without limit. Symmetry is used where no liveness is
checked, on sets whose elements the specification does not tell apart (in `DerivedData` the writers of the schema alone).

Fairness is only on what the interpreter or the database does by itself:

* `Transaction.FairSpec`: the loops of `commit()` and `rollback()` go on and a handler that was called
  returns or raises (weak). A client is not obliged to commit.
* `RepositoryShutdown.FairShutdownSpec`: a waiting `get()` returns or times out, the timeout being in the code
  (weak); `shutdown()` goes on; a task, whose code is finite, leaves the connections it entered and does not
  start over for ever (strong fairness of ending and, for each depth, of leaving, since it may always
  open one more). `shutdown()` joins without timeout, so it ends only if its tasks do.
* `UniqueConstraintLock.FairSpec`: a thread in `commit()` or `rollback()` goes on when it is not blocked. A
  Python lock is not fair, and which of the waiting threads gets it is left open (weak); the database queues
  those who wait for a row (strong fairness of `Index`).
* `DataFeedLock.FairSpec`, kept by `MCDataFeed`: time passes, a scheduler runs `update_feeds` every minute
  (`hooks/__init__.py:68`) as long as its task is entered again, a pull returns
  or raises - HTTP requests have a timeout - and a process dies finitely often.

## 6. The proofs

TLAPS proves the following with no bound on the constants, which only obey the assumptions named in the
modules.

**Transaction** (`TransactionProofs`, with facts on insertion and removal in sequences in
`SequenceLemmas`). The inductive invariant is
`Inv == TypeOK /\ PhaseInv /\ QueueInv /\ HistoryInv /\ OrderInv`. `PhaseInv` ties `commit_state` to the place
in the code; `QueueInv` says an operation is in one place at a time; `HistoryInv` gives, for each
operation, the events it got as a function of where it is - the fact none of the properties says by
itself, since an event fired twice would show only later; `OrderInv` keeps the queue sorted by kind,
which is what makes the insertion from a handler land after everything that already ran. Theorems: `TypeCorrect`,
`HistoriesCorrect`, `OutcomeCorrect`, `RevertOrderCorrect`, `OneLastCorrect`, `EventOnceCorrect`,
`KindOrderCorrect`, `RefusedCorrect` (no run states `EventOnce` nor `OneLastWaiting`), and
`AtomicityCorrect`: every step of a connection maps to a step of `AtomicTransaction` or a stutter, whatever the faults.
`DataInv` is what it needs besides `Inv`: a COMMIT that succeeds leaves no row behind, written or acknowledged.

`NothingForgotten`: an operation that was handed an event stays in a list of the connection until its last one.

**CnxSetPool, RepositoryShutdown** (`PoolAndStorageProofs`). `PoolInv`: the queue, the `with` blocks and `lost` share the
cnxsets out, each in one place; what a connection has not rolled back it still holds. It is proved of the pool alone
(`PoolInvariant`) and with `shutdown()` (`ShutdownPoolInvariant`), where `OneOwnerHolds`, `CleanWhenFreeHolds` and
`NoneLostHolds` follow. `ShutdownTypes` adds `TaskInv`, the list of threads having a task exactly while it runs.

**DerivedData** (`DerivedDataProofs`). Five components, each with an invariant that says who is going to put right what is not:

* EidTypeCache, `RolledBackForgottenHolds` and `DeletedForgottenHolds`: an uncommitted or deleted eid that a cache knows is
  in the data of a cleaning operation still to run, in a lookup under way, in a message, or in one of the two histories;
* PropertySync, `RegistryInStepHolds`: where the registry differs from the committed property, a committed transaction is
  still to apply it;
* RelationCache, `CachesFollowHolds`: for each entry, what the rest of the call does to it (`Due`) gives what the database
  would answer, no entity twice;
* ComputedAttributes, `FormulasHoldHolds`: for each transaction, a column is right in what it sees or is in the data of an
  operation to run, whatever the others commit meanwhile;
* FullTextIndex, `FoundAsStoredHolds`: what a transaction indexed is the text it sees, or the container is left to an operation,
  to a step of the one that runs, or to a history.

**FileStorage** (`PoolAndStorageProofs`). `FileInv` ties rows, row locks, files and the data of the two operations: a file has one
user, a statement that waits has its files in the operations, a replaced file is to be unlinked or forgotten, and every
file on disk has a row or an operation that will remove it. `ValueOnDiskHolds`, `NoOrphanHolds` and, as an action property,
`OnlyCommitUnlinksHolds`. A file that a row has and an operation is to remove is in `doomed`: that part of the invariant carries the
first and the third.

**RelationCardinality** (`RelationCardinalityProofs`). `PresentInv`: pairs refer to living entities, an entity whose relations
two transactions change is contested, what a transaction took away is in its checks, and what it checked is there until it
commits. The last is the point: between the check and COMMIT another transaction commits, and either it touched
the same entity, or it left its relations alone. `RequiredPresentHolds` and `BrokenIsCheckedHolds` hold for every
batch. `AtMostOneHolds` has two hypotheses, since the code does not keep it otherwise: batches of at most two pairs
(`BatchOfPairs` refutes it for four) and relation types with one single end at most - with `??` a pair whose subject is known already
skips the deletion of its rivals, and two pairs are enough (`server/repository.py:885`).

**UniqueConstraintLock** (`UniqueConstraintLockProofs`). `UniqueCorrect`: if all connections live in one
process, no two committed entities have the same value. Uniqueness is not inductive: `AcceptedInv` adds
that a value that is not to be checked any more was accepted by a transaction that still has the lock
and duplicates nothing visible, `QueueInv` that what is to be checked has its operation in the queue.
`TypeCorrect` and `InvariantCorrect` go with it. `LockFollowsCorrect` is an action property and needs the types alone, so
it holds for any number of processes.

**DataFeedLock, LDAPFeed, Importer** (`FeedAndWorkflowProofs`). `LockCorrect`: at most one call holds a lock that nobody could take
over, and its mark stays, for any number of processes, threads and deaths. The invariant needs
`FreeOnceTested`: while a process is between test and set and nobody set the mark meanwhile, no call
has the lock, for otherwise it would set the mark of another's synchronization. `TypeCorrect` goes with it.
`DirectoryFollowedHolds`: a pull is a straight line, and `LdapInv` says at each of its steps what was copied and what is to
be. `ImportCompleteHolds`: what waits in a queue lacks something unless the scan under way has still to look at it or
imported something since it did; so when the importer is back to its stream what was applied is closed under "is ready", and it
is contained in each closed set, for only what is ready was applied.

**Workflow** (`FeedAndWorkflowProofs`). `HistoryChain` says something at commits alone, and a transaction decides long before: the
invariant is about what each connection sees. A transaction is `Live` if nobody outdated what it read and if it did not count
the changes of state before another one added its own; a live one sees (`SeesTruly`) one state, the one it cached, and a history
that ends there, but while it writes, when its last TrInfo ends where the relation is about to lead. `CommitStep` is the point: a
commit either changes nothing another transaction sees, or outdates it, or takes the rank that it is about to use, which the
unique index refuses. This is the race for the rank alone: a transaction that decides on a state cached before another one changed it
is not live, and `raced` excepts what it commits. `CreatorInv` does without reads for an entity that is not committed, `OneWriter` is the wait for the
index. The lemmas about the operations hold for any schema that `SchemaAssumption` allows.

**Undo** (`UndoProofs`). Assumed: finitely many eids, some value, and a mark for "no statement" that is no action. `UndoInv` has
four parts. `TypeInv`: types, and one place for each open record. `DatabaseInv`: a row nobody writes is what was
committed, foreign keys hold in the tables and in what was committed, and two rows in flux bound by a key are of one
transaction. `UndoingInv`: what an undo still has to take back is the beginning of its record, and a row that is in
none of it is restored, reported or overtaken. `HistoryInv`: who wrote a record about an entity whose creation was
undone began before it was (`unborn`), or did not see it (`missed`), or the undo did not find the record of what it undoes (`Blind`). `UndoRestoresOrReports` and `UndoLeavesNoOrphan` follow. The
attempt to prove the latter refuted what `NoOrphanRecord` first said: an undo that raised half way and is
committed all the same leaves the records that it refused to look at, so the property now compares with the undone
record, and the instance is large enough to show it. `UndoInverts` (that is `UndoIsInverse`) needs three invariants more, together
`BackInv`. `PairsInv`: a relation is there or not, and no action updates one. `TellingInv`: the rows a connection wrote are
those of its record, and unless another transaction replaced a value in between, the record of a transaction about to commit
tells of each row what was committed. `PastInv` is about the history variable `past`: each entry leads to the next one (the
last to what is committed) by its record alone, whose first action on a row tells what the row was. An undo without error,
then, makes of what is committed the last entry of `past`.

Only model-checked:

* all liveness (`TransactionEnds`, `WaitEnds`, `ShutdownEnds`, `LockGivenBack`, `SynchronizedAgain`), which rests on
  fairness and `ENABLED`, out of reach of this prover;
* SchemaSync (`MemoryInStep`, `TablesInStep`): memory and tables are what folds over the list of operations
  make of them, and what a fold computes for every list would need an induction that the installed provers cannot do;
* Workflow `InItsWorkflow` and `Settled`, which follow the operations of a transaction to the end of their queue, for the same
  reason.

## 7. Where the code departs from its promises

Two runs end with a counterexample; `PROJECT.json` quotes the sentence of the repository each contradicts.

* **CommitErrorKeepsOperations** (`EveryOperationConcluded`, `server/session.py:758`): `cnxset.commit()` is
  outside the try whose except clause reverts and rolls back, so when COMMIT raises (serialization failure,
  deferred constraint, lost connection) `clear()` drops every precommitted operation without handing it any
  event. Much of what follows comes from it.
* **BatchOfPairs** (`AtMostOne`, `server/repository.py:884`): `del` shifts the list but the positions
  recalled for the other subjects are not shifted, so the next duplicate drops the wrong pair and a subject of
  cardinality `?` ends with two relations.

Other departures are steps of the models, each the reason for an exception in a property or for a case that it
leaves out:

| code | what happens | where it shows |
|---|---|---|
| `server/hook.py:929` | a single-last instance registered after the first one was popped does not supersede it: both are precommitted | `EventHistory` is per instance; `OneLastWaiting` speaks of the queue |
| `server/session.py:367` | an exception in a hook or handler leaves `hooks_in_progress` set for the rest of the connection | `hooksInProgress` in `Transaction` |
| `server/sqlutils.py`, `server/sources/native.py:688` | a failed or retried statement loses the earlier writes, and the operations of the transaction go on | `Lose` and `LoseAll` in `AtomicTransaction`; `doomed`, `abandoned` |
| `server/session.py:758`, `server/sqlutils.py:185` | a COMMIT that fails with SQLite leaves the database transaction open: its rows become permanent with the next transaction of the cnxset unless that is rolled back | `Keep` in `AtomicTransaction` |
| `server/session.py:345`, `:350` | `set_language` raising in `__enter__`, or the rollback of `__exit__`, takes a cnxset out of the pool for good | `lost` in `NoneLost` |
| `server/repository.py:451` | the list shrinks under the loop that joins its threads: a task is skipped and the pool closed while it works | the cursor of `RepositoryShutdown`; `NoneLost` and `ShutdownEnds` hold all the same |
| `server/repository.py:717` | an addition refused before `add_info`, or whose COMMIT failed, stays in the type cache | `abandoned` in `RolledBackForgotten` |
| `server/repository.py:665` | the answer of a lookup is cached although its entity was deleted meanwhile | `missed` in `DeletedForgotten` |
| `server/sources/storages.py:163` | two transactions that replace a value read the same old path: the file of the first to commit stays | `forgotten` in `NoOrphan` |
| `server/sources/storages.py:200` | `fsimport` gives a `bytes` path, `oldpath` is a `str`: a file imported again under the path its row holds, or while a transaction replaces it, is unlinked after the commit though the committed row has it | `doomed` in `ValueOnDisk` and `OnlyCommitUnlinks` |
| `server/repository.py:880`, `hooks/integrity.py:86` | deletions and checks do not see what other transactions are writing | `contested` in `AtMostOne`, `RequiredPresent` |
| `server/repository.py:897`, `:886` | the position recalled for an object is one too far; a pair of a known subject skips the deletion of the rivals of its object | `Position` and `AddAgain`, as in the code |
| `hooks/integrity.py:61` | a failed COMMIT leaves the lock taken for the life of the process | `LockFollowsTransaction`, `LockGivenBack` |
| `hooks/integrity.py:38` | the lock is that of one process: two instances on a database can both commit a value | `UniqueCorrect` assumes one process |
| `server/sources/datafeed.py:145`, `:154` | test and set interleave; a lock outlived is taken over, and its first holder clears the mark of the second | `overtaken` in `LockIsMarked` |
| `server/sources/datafeed.py:187` | a background pull runs without the lock | `threads` in `DataFeedLock` |
| `server/sources/datafeed.py:169` | the interval is tested before the lock is taken: a source just synchronized is pulled again | `Call` in `DataFeedLock` |
| `server/utils.py:112` | KeyboardInterrupt or SystemExit in a periodic task drops it for good | `Interrupted`, excepted by `SynchronizedAgain` |
| `server/sources/ldapfeed.py:317` | an LDAP error is an empty answer: every user of the source is deactivated, and reactivated by the next pull | `found'` in `SearchUsers`: `DirectoryFollowed` speaks of what the search has found |
| `sobjects/ldapparser.py:110` | a statement that fails between the DELETE and the SET of the members of a group is caught, and the emptied group committed | `MembersRaise`: the property says nothing of groups when a pull reports an error |
| `sobjects/ldapparser.py:223` | only users are looked at: a group the directory deleted keeps its members | `handle_deletion` |
| `sobjects/ldapparser.py:110`, `:191` | a default group that the directory lists too loses the members it got by default | the last conjunct of `DirectoryFollowed` |
| `sobjects/ldapparser.py:183` | pops a `str` from a dictionary with keys in bytes, so nothing is popped; `is_deleted` makes up for it | `handle_deletion` starts from all of `before.managed` |
| `sobjects/ldapparser.py:230` | a user that a manager deactivated is reactivated by the next pull | `ensure_activated` |
| `dataimport/importer.py:436` | `map` is lazy in Python 3: what could not be imported is never logged | not in `Importer`, which has no log |
| `dataimport/importer.py:376` | an entity that waits is applied after a later one with the same external id | `LookAtNext`; values are left out |
| `hooks/synccomputed.py:54` | computed from what other transactions have not committed: two at once leave a stale value | `raced` in `FormulasHold` |
| `hooks/synccomputed.py:48` | a grouped formula has no row for an entity without related ones: the last value stays | `Staff(cell, f) = {}` in `FormulasHold` |
| `server/sources/native.py:590` | the value to record is read before the UPDATE that may wait: undo restores a value that was replaced meanwhile | `stale` in `UndoIsInverse` |
| `server/sources/native.py:171` | later transactions are those with a later first action: one that began before and committed after is not seen, nor one that runs meanwhile | `excused` in `NoOrphanRecord`, `overtaken` in `RestoredOrReported` |
| `server/sources/native.py:170`, `:1158` | the search for later transactions joins the record of the one undone: cleaned up or undone by another meanwhile, it finds none, and the entity is deleted although later records tell of it | `HasLater`; `excused` by `Blind` in `NoOrphanRecord` |
| `server/sources/native.py:998` | the record is deleted although errors were reported; an UPDATE or DELETE of no row is none | `UndoAction`, `reported` |
| `schemas/workflow.py:163`, `hooks/workflow.py:174` | the unique rank is to prevent simultaneous transitions, but one checked on a cached state gets a free rank with a stale `from_state` | `raced` in `HistoryChain` |
| `hooks/workflow.py:94` | a change of workflow of an entity without history changes its state without a TrInfo | `HistoryChain` asks for no first entry |
| `hooks/workflow.py:134` | the exit operation looks at the transition that registered it: leaving and entering again in one transaction leaves the subworkflow, or makes commit refuse | `RunSubWorkflowExit` |
| `entities/wfobjs.py:567` | `set_initial_state` in a state with an automatic transition does not fire it | excepted by `Settled` |
| `hooks/syncschema.py:906`, `:932` | no revert of a permission; a relation type rolled back before its operation ran stays in memory | `leftover` in `MemoryInStep` |
| `hooks/syncschema.py:598`, `:620` | the table is created or dropped on the definitions in memory or in the transaction: others' uncommitted ones count, or do not | `blind`, `misled` in `TablesInStep` |
| `hooks/syncsession.py:97` | deleting the property of a user pops the value of the site; other keys and gifts are not followed | `unsynced` in `RegistryInStep` |
| `server/sources/native.py:1302` | an entity indexed once in a precommit is not indexed again when a later operation changes it | `late` in `FullTextIndex` |
| `server/session.py:499` | a symmetric deletion updates the entry of the object with the object; the object side is never told of an addition | `wrong` in `CachesFollow` |

Read while modelling, and in no model: `server/session.py` calls `glob_update_entity` with three arguments in
`delete_relation` on an inlined relation, which raises; `constraint_by_eid` raises ValueError where its caller in
`hooks/syncschema.py` catches KeyError and IndexError.

## 8. Not modelled

* RQL parsing, planning and SQL generation, rendering, form handling, predicates, schema definitions: most of the
  source, large pure computations on trees and strings without shared state, which a model would copy.
* The massive store (`dataimport/massive_store.py`): what it promises rests on the locks that PostgreSQL takes for DDL and on
  the catalogue. Reading it shows that `finish()` drops its bookkeeping when it raises, which orphans the staged tables,
  and that a relation type is noted as initialised before the statement that may fail.
* The pyramid front end: which callback runs first - saving the session, committing, closing - is decided by Pyramid,
  which is not in the tree.
* Security: permission expressions are data, and their evaluation is RQL. Notification: composing and sending mail.
* The eid generator: an increment under a lock, on a connection of its own.
* Administrator commands, which run alone on a stopped instance; tools, tests and packaging.

The list of components in `PROJECT.json` gives the reason part by part, and for those modelled in part what is left.

## 9. Plan

Done, in this order: Transaction and its proofs, CnxSetPool, RepositoryShutdown, EidTypeCache, FileStorage,
RelationCardinality, UniqueConstraintLock, DataFeedLock; then Undo, Workflow, SchemaSync, PropertySync, FullTextIndex,
RelationCache, ComputedAttributes, the scheduler in DataFeedLock, LDAPFeed, Importer.

Proofs to come, if a prover with induction over data is at hand: SchemaSync `MemoryInStep` and `TablesInStep`, Workflow
`InItsWorkflow` and `Settled` (section 6 says why not now). Each other invariant and action property a passing run checks is a theorem;
liveness stays with TLC.

Models to come: deletion of composites (`hooks/integrity.py`), deferred permission checks.

## 10. Running

    tlc -workers 2 -config PoolAndShutdown.cfg MCRepositoryShutdown.tla
    tlapm TransactionProofs.tla

Run names are the names of the `.cfg` files; `PROJECT.json` says which module each belongs to. Each run takes from a
few seconds to four minutes, `PoolAndShutdown`, `DerivedData`, `DataFeed` and `UniqueConstraint` the longest. The proofs take
half an hour, `DerivedDataProofs` and `UndoProofs` the longest.
