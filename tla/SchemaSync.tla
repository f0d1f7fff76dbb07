------------------------------- MODULE SchemaSync ------------------------------
(***************************************************************************)
(* The schema of a running instance is kept three times: as entities, as   *)
(* the tables of the database and as objects that all the connections of   *)
(* the process share.  A transaction that changes the entities changes the *)
(* tables with them, and the objects by operations that each apply their   *)
(* change before or after COMMIT and that may know how to take it back     *)
(* (cubicweb/hooks/syncschema.py).                                         *)
(*                                                                         *)
(* The entities and the tables follow the transactions of the database;    *)
(* the objects follow nothing but these operations, which other            *)
(* connections see, and decide upon, as they are applied.                  *)
(***************************************************************************)
EXTENDS Naturals, FiniteSets, Sequences, SequencesExt

CONSTANTS
    Writer,       \* connections that change the schema
    EType,        \* names of entity types
    RType,        \* names of relation types
    Attribute,    \* those of attributes: a column for each subject type
    Def,          \* relation definitions: pairs of a subject and a relation type
    Constrained,  \* definitions that may get a constraint
    UniqueOn,     \* entity types that may get a unique_together constraint
    Guarded,      \* entity types that may get a permission
    Start,        \* bound: schemas an instance starts with
    MaxChanges    \* bound: changes asked for in a behaviour

ASSUME DefAssumption == Def \subseteq EType \X RType
ASSUME SubsetsAssumption ==
    Attribute \subseteq RType /\ Constrained \subseteq Def
    /\ UniqueOn \subseteq EType /\ Guarded \subseteq EType

VARIABLES
    stored,     \* the schema as committed entities
    tables,     \* committed tables, columns, indexes and checks, named by their item
    memory,     \* the schema objects the process shares
    phase,      \* of the transaction of each writer: query, refused, precommit, reverting
                \* or postcommit
    plus,       \* items its transaction has added,
    minus,      \* and deleted
    made,       \* tables its database transaction has created,
    gone,       \* and dropped
    queue,      \* pending operations
    processed,  \* operations whose precommit was called
    changes,    \* bound: changes asked for so far
    leftover,   \* history: items that memory may be wrong about, see MemoryInStep
    blind,      \* history: tables not created for a definition that was not committed
    misled      \* history: tables that may be wrong, see TablesInStep

transactionOf == <<phase, plus, minus, made, gone, queue, processed>>
syncHistory == <<leftover, blind, misled>>
syncVars == <<stored, tables, memory, transactionOf, changes, syncHistory>>

ETypeItem(e) == <<"etype", e>>
RTypeItem(r) == <<"rtype", r>>
RDef(d) == <<"rdef", d[1], d[2]>>
Constraint(d) == <<"constraint", d[1], d[2]>>

ETypes == {ETypeItem(e) : e \in EType}
RTypes == {RTypeItem(r) : r \in RType}
RDefs == {RDef(d) : d \in Def}
Constraints == {Constraint(d) : d \in Constrained}
Uniques == {<<"unique", e>> : e \in UniqueOn}
Permissions == {<<"permission", e>> : e \in Guarded}
Item == ETypes \cup RTypes \cup RDefs \cup Constraints \cup Uniques \cup Permissions

Attributes == {i \in RDefs : i[3] \in Attribute}

\* The items an item refers to, and all those that go when it is deleted.
Parents(i) ==
    CASE i \in ETypes \cup RTypes -> {}
      [] i \in RDefs -> {ETypeItem(i[2]), RTypeItem(i[3])}
      [] i \in Constraints -> {RDef(<<i[2], i[3]>>)}
      [] OTHER -> {ETypeItem(i[2])}
Under ==
    [i \in Item |-> {j \in Item : \/ i \in Parents(j)
                                \/ \E p \in Parents(j) : i \in Parents(p)}]

DefsOf(r, schema) == {i \in RDefs \cap schema : RTypeItem(i[3]) = r}

\* What the database should hold for a schema.
Physical(schema) ==
    (schema \cap (ETypes \cup Attributes \cup Constraints \cup Uniques))
        \cup {r \in RTypes : DefsOf(r, schema) \ Attributes # {}}

Closed(schema) == \A i \in schema : Parents(i) \subseteq schema

Op(do, i) == [do |-> do, item |-> i]

SyncInit ==
    /\ stored \in Start
    /\ tables = Physical(stored)
    /\ memory = stored
    /\ phase = [w \in Writer |-> "query"]
    /\ plus = [w \in Writer |-> {}]
    /\ minus = [w \in Writer |-> {}]
    /\ made = [w \in Writer |-> {}]
    /\ gone = [w \in Writer |-> {}]
    /\ queue = [w \in Writer |-> <<>>]
    /\ processed = [w \in Writer |-> <<>>]
    /\ changes = 0
    /\ leftover = {}
    /\ blind = [w \in Writer |-> {}]
    /\ misled = {}

Touched(w) == plus[w] \cup minus[w]
SchemaOf(w) == (stored \cup plus[w]) \ minus[w]

\* Items whose addition or deletion would wait for the transaction of another writer.
Locked(w) ==
    UNION {Touched(v) \cup UNION {Parents(i) : i \in plus[v]} :
           v \in {v \in Writer \ {w} : phase[v] # "postcommit"}}
Deleting(w) ==
    UNION {minus[v] : v \in {v \in Writer \ {w} : phase[v] # "postcommit"}}

\* Two rules bound the model: a transaction changes an item once, and the name of a
\* type is not used again while another writer is handed its postcommit events.
MayChange(w, items) ==
    /\ phase[w] = "query"
    /\ items \cap (Touched(w) \cup Locked(w)) = {}
    /\ changes < MaxChanges
    /\ changes' = changes + 1

--------------------------------------------------------------------------------
(* The hooks.                                                              *)

\* Constraints are added by late operations, which stay last.
Late(o) == o.do = "add" /\ o.item \in Constraints
Insert(ops, new) ==
    SelectSeq(ops, LAMBDA o : ~Late(o)) \o new \o SelectSeq(ops, Late)

\* The after_add hooks; that of a relation type changes the objects at once.
AddItem(w, i) ==
    /\ MayChange(w, {i})
    /\ i \notin SchemaOf(w)
    /\ i \in ETypes \cup RTypes => \A v \in Writer : i \notin Touched(v)
    /\ Parents(i) \subseteq SchemaOf(w) \ Deleting(w)
    /\ i \in RTypes => i \notin memory
    /\ memory' = IF i \in RTypes THEN memory \cup {i} ELSE memory
    /\ plus' = [plus EXCEPT ![w] = @ \cup {i}]
    /\ queue' = [queue EXCEPT ![w] = Insert(@, <<Op("add", i)>>)]
    /\ UNCHANGED <<stored, tables, phase, minus, made, gone, processed, syncHistory>>

\* Deleting an entity deletes its components; the constraints first.
OfDef(i, schema) ==
    LET cstr == Constraint(<<i[2], i[3]>>)
    IN  (IF cstr \in schema THEN <<Op("del", cstr)>> ELSE <<>>) \o <<Op("del", i)>>
OfDefs(schema, defs) ==
    FlattenSeq([n \in 1..Cardinality(defs) |-> OfDef(SetToSeq(defs)[n], schema)])

\* Operations registered for the deletion of i from a schema.
Deletion(i, schema) ==
    LET defs == Under[i] \cap RDefs \cap schema
    IN  CASE i \in ETypes -> <<Op("del", i), Op("drop", i)>> \o OfDefs(schema, defs)
          [] i \in RTypes -> OfDefs(schema, defs) \o <<Op("del", i)>>
          [] i \in RDefs -> OfDef(i, schema)
          [] OTHER -> <<Op("del", i)>>

Cascade(w, i) == ({i} \cup Under[i]) \cap SchemaOf(w)

\* The operation that drops a unique index goes before all the others.
RemoveItem(w, i) ==
    /\ phase[w] = "query" /\ i \in SchemaOf(w)
    /\ MayChange(w, Cascade(w, i))
    /\ Cascade(w, i) \cap Constraints \subseteq memory
    /\ minus' = [minus EXCEPT ![w] = @ \cup Cascade(w, i)]
    /\ queue' = [queue EXCEPT ![w] = IF i \in Uniques THEN <<Op("del", i)>> \o @
                                     ELSE Insert(@, Deletion(i, SchemaOf(w)))]
    /\ UNCHANGED <<stored, tables, memory, phase, plus, made, gone, processed,
                   syncHistory>>

\* A hook raises: the relation type is in memory, or the constraint is not.
RefuseChange(w) ==
    /\ phase[w] = "query"
    /\ \E i \in Item :
        \/ MayChange(w, {i}) /\ i \in (RTypes \cap memory) \ SchemaOf(w)
        \/ /\ i \in SchemaOf(w) /\ MayChange(w, Cascade(w, i))
           /\ ~(Cascade(w, i) \cap Constraints \subseteq memory)
    /\ phase' = [phase EXCEPT ![w] = "refused"]
    /\ UNCHANGED <<stored, tables, memory, plus, minus, made, gone, queue, processed,
                   syncHistory>>

--------------------------------------------------------------------------------
(* precommit_event of the operations.                                      *)

StartCommit(w) ==
    /\ phase[w] = "query" /\ queue[w] # <<>>
    /\ phase' = [phase EXCEPT ![w] = "precommit"]
    /\ UNCHANGED <<stored, tables, memory, changes, plus, minus, made, gone, queue, processed,
                   syncHistory>>

Runs(w, dos, items) ==
    /\ phase[w] = "precommit" /\ queue[w] # <<>>
    /\ Head(queue[w]).do \in dos /\ Head(queue[w]).item \in items

\* The operation at the head of the queue is done and has registered others.
Ran(w, new) ==
    /\ queue' = [queue EXCEPT ![w] = Insert(Tail(@), new)]
    /\ processed' = [processed EXCEPT ![w] = Append(@, Head(queue[w]))]
    /\ UNCHANGED <<stored, tables, changes, phase, plus, leftover, misled>>

\* What w sees of the tables.
TablesOf(w) == (tables \cup made[w]) \ gone[w]
Create(w, items) == made' = [made EXCEPT ![w] = @ \cup items]
Destroy(w, items) ==
    /\ made' = [made EXCEPT ![w] = @ \ items]
    /\ gone' = [gone EXCEPT ![w] = @ \cup items]

\* CWETypeAddOp
RunAddEType(w) ==
    LET i == Head(queue[w]).item
    IN  /\ Runs(w, {"add"}, ETypes)
        /\ i \notin memory
        /\ memory' = memory \cup {i}
        /\ Create(w, {i})
        /\ Ran(w, <<>>)
        /\ UNCHANGED <<minus, gone, blind>>

\* CWAttributeAddOp
RunAddAttribute(w) ==
    LET i == Head(queue[w]).item
    IN  /\ Runs(w, {"add"}, Attributes)
        /\ i \notin memory /\ Parents(i) \subseteq memory
        /\ memory' = memory \cup {i}
        /\ Create(w, {i})
        /\ Ran(w, <<>>)
        /\ UNCHANGED <<minus, gone, blind>>

\* The table of a relation is created with its first definition in memory.
NeedsTable(w, r) == DefsOf(r, memory) = {} /\ r \notin made[w]

\* CWRelationAddOp; CREATE TABLE fails when the table exists and waits for a
\* transaction that creates it.
RunAddRelation(w) ==
    LET i == Head(queue[w]).item
        rtype == RTypeItem(i[3])
        unsafe == DefsOf(rtype, SchemaOf(w)) = {i} /\ rtype \notin made[w]
    IN  /\ Runs(w, {"add"}, RDefs \ Attributes)
        /\ i \notin memory /\ Parents(i) \subseteq memory
        /\ memory' = memory \cup {i}
        /\ IF NeedsTable(w, rtype)
           THEN /\ rtype \notin TablesOf(w)
                /\ \A v \in Writer : rtype \notin made[v]
                /\ Create(w, {rtype})
                /\ UNCHANGED blind
           ELSE /\ blind' = IF unsafe THEN [blind EXCEPT ![w] = @ \cup {rtype}] ELSE blind
                /\ UNCHANGED made
        /\ Ran(w, <<>>)
        /\ UNCHANGED <<minus, gone>>

\* Mutant: the other definitions are looked for in memory.
LastDef_InMemory(w, r) == Cardinality(DefsOf(r, memory)) <= 1

LastDef(w, r) == DefsOf(r, SchemaOf(w)) = {}

\* RDefDelOp.  Deleting a relation type waits for those who add definitions of it,
\* and fails.
RunDelRDef(w) ==
    LET i == Head(queue[w]).item
        rtype == RTypeItem(i[3])
        last == LastDef(w, rtype)
        drop == IF i \in Attributes
                THEN IF ETypeItem(i[2]) \in minus[w] THEN <<>> ELSE <<Op("drop", i)>>
                ELSE IF last THEN <<Op("drop", rtype)>> ELSE <<>>
        with == last /\ rtype \notin minus[w]
    IN  /\ Runs(w, {"del"}, RDefs)
        /\ with => rtype \notin Locked(w)
        /\ memory' = memory \ {i}
        /\ minus' = IF with THEN [minus EXCEPT ![w] = @ \cup {rtype}] ELSE minus
        /\ Ran(w, drop \o (IF with THEN <<Op("del", rtype)>> ELSE <<>>))
        /\ UNCHANGED <<made, gone, blind>>

\* DropTable, DropRelationTable and DropColumn.
RunDrop(w) ==
    LET i == Head(queue[w]).item
    IN  /\ Runs(w, {"drop"}, Item)
        /\ i \in TablesOf(w) \cup gone[w]
        /\ Destroy(w, {i} \cup IF i \in RTypes THEN {} ELSE Under[i])
        /\ Ran(w, <<>>)
        /\ UNCHANGED <<memory, minus, blind>>

\* CWConstraintAddOp
RunAddConstraint(w) ==
    LET i == Head(queue[w]).item
    IN  /\ Runs(w, {"add"}, Constraints)
        /\ memory' = memory \cup {i}
        /\ Create(w, {i})
        /\ Ran(w, <<>>)
        /\ UNCHANGED <<minus, gone, blind>>

\* CWConstraintDelOp; the column may be going away.
RunDelConstraint(w) ==
    LET i == Head(queue[w]).item
    IN  /\ Runs(w, {"del"}, Constraints)
        /\ memory' = memory \ {i}
        /\ IF Parents(i) \subseteq minus[w] THEN UNCHANGED <<made, gone>>
           ELSE Destroy(w, {i})
        /\ Ran(w, <<>>)
        /\ UNCHANGED <<minus, blind>>

\* CWUniqueTogetherConstraintAddOp and CWUniqueTogetherConstraintDelOp
RunUnique(w) ==
    LET o == Head(queue[w])
    IN  /\ Runs(w, {"add", "del"}, Uniques)
        /\ IF o.do = "add" THEN Create(w, {o.item}) /\ UNCHANGED gone
           ELSE Destroy(w, {o.item})
        /\ Ran(w, <<>>)
        /\ UNCHANGED <<memory, minus, blind>>

\* MemSchemaPermissionAdd and MemSchemaPermissionDel; those of `specializes' alike.
RunPermission(w) ==
    LET o == Head(queue[w])
    IN  /\ Runs(w, {"add", "del"}, Permissions)
        /\ memory' = IF o.do = "add" THEN memory \cup {o.item} ELSE memory \ {o.item}
        /\ Ran(w, <<>>)
        /\ UNCHANGED <<minus, made, gone, blind>>

\* Operations without a precommit event.
RunNothing(w) ==
    /\ Runs(w, {"del"}, ETypes \cup RTypes) \/ Runs(w, {"add"}, RTypes)
    /\ Ran(w, <<>>)
    /\ UNCHANGED <<memory, minus, made, gone, blind>>

\* What an operation that fails may have done to the objects: most change them first.
Applied(o) ==
    CASE o.do = "add" /\ Parents(o.item) \subseteq memory /\ o.item \notin Uniques ->
            memory \cup {o.item}
      [] o.do = "del" /\ o.item \in RDefs \cup Constraints -> memory \ {o.item}
      [] OTHER -> memory

Reverted(o) == \/ o.do = "add" /\ o.item \notin Uniques
               \/ o.do = "del" /\ o.item \in RDefs \cup Constraints \cup Permissions

\* Any precommit event may raise; the failed operation is reverted too.
RunFails(w) ==
    /\ Runs(w, {"add", "del", "drop"}, Item)
    /\ memory' \in {memory, Applied(Head(queue[w]))}
    /\ phase' = [phase EXCEPT ![w] = "reverting"]
    /\ queue' = [queue EXCEPT ![w] = Tail(@)]
    /\ processed' = [processed EXCEPT ![w] =
                        SelectSeq(Append(@, Head(queue[w])), Reverted)]
    /\ UNCHANGED <<stored, tables, changes, plus, minus, made, gone, syncHistory>>

--------------------------------------------------------------------------------
(* revertprecommit_event, in reverse order, and the end of a rollback.     *)

\* The library takes the relation type away with its last definition.
WithoutDef(i, schema) ==
    LET rtype == RTypeItem(i[3])
    IN  schema \ IF i \in schema /\ DefsOf(rtype, schema) = {i} THEN {i, rtype} ELSE {i}

\* Mutant: a definition removed from memory is not put back.
RevertTo_DefsLost(o) ==
    CASE o.do = "add" /\ o.item \in ETypes \cup RTypes ->
            memory \ ({o.item} \cup Under[o.item])
      [] o.do = "add" /\ o.item \in RDefs -> WithoutDef(o.item, memory)
      [] o.do = "add" /\ o.item \in Constraints -> memory \ {o.item}
      [] o.do = "del" /\ o.item \in Constraints -> memory \cup {o.item}
      [] OTHER -> memory

\* What the objects are reverted to: permissions are left as they are.
RevertTo(o) ==
    CASE o.do = "add" /\ o.item \in ETypes \cup RTypes ->
            memory \ ({o.item} \cup Under[o.item])
      [] o.do = "add" /\ o.item \in RDefs -> WithoutDef(o.item, memory)
      [] o.do = "add" /\ o.item \in Constraints -> memory \ {o.item}
      [] o.do = "del" /\ o.item \in Constraints -> memory \cup {o.item}
      [] o.do = "del" /\ o.item \in RDefs /\ Parents(o.item) \subseteq memory ->
            memory \cup {o.item}
      [] OTHER -> memory

\* Left over: a permission, the type of a definition, a definition without its type.
Revert(w) ==
    LET o == Last(processed[w])
        wrong == CASE o.item \in Permissions -> {o.item}
                   [] o.do = "add" -> (memory \ RevertTo(o)) \cap stored
                   [] o.item \in RDefs /\ ~(Parents(o.item) \subseteq memory) -> {o.item}
                   [] OTHER -> {}
    IN  /\ phase[w] = "reverting" /\ processed[w] # <<>>
        /\ memory' = RevertTo(o)
        /\ leftover' = leftover \cup wrong
        /\ processed' = [processed EXCEPT ![w] = Front(@)]
        /\ UNCHANGED <<stored, tables, changes, phase, plus, minus, made, gone, queue, blind,
                       misled>>

Over(w) ==
    /\ phase' = [phase EXCEPT ![w] = "query"]
    /\ plus' = [plus EXCEPT ![w] = {}]
    /\ minus' = [minus EXCEPT ![w] = {}]
    /\ made' = [made EXCEPT ![w] = {}]
    /\ gone' = [gone EXCEPT ![w] = {}]
    /\ queue' = [queue EXCEPT ![w] = <<>>]
    /\ processed' = [processed EXCEPT ![w] = <<>>]
    /\ blind' = [blind EXCEPT ![w] = {}]

\* Connection.rollback: a relation type whose operation never ran stays in memory.
RollbackChanges(w) ==
    /\ \/ phase[w] \in {"query", "refused"}
       \/ phase[w] = "reverting" /\ processed[w] = <<>>
    /\ leftover' = leftover \cup {i \in RTypes : Op("add", i) \in ToSet(queue[w])}
    /\ Over(w)
    /\ UNCHANGED <<stored, tables, memory, changes, misled>>

--------------------------------------------------------------------------------
(* COMMIT, and postcommit_event of the operations.                         *)

AfterCommit(o) == \/ o.do # "drop" /\ o.item \in Uniques
                  \/ o.do = "del" /\ o.item \in ETypes \cup RTypes

\* Misled: a table that another transaction did not leave, or relies on, after all.
CommitChanges(w) ==
    LET schema == SchemaOf(w)
        alone == {r \in RTypes \ minus[w] : /\ DefsOf(r, minus[w]) # {}
                                            /\ DefsOf(r, schema) = {}}
    IN  /\ phase[w] = "precommit" /\ queue[w] = <<>>
        /\ stored' = schema
        /\ tables' = TablesOf(w)
        /\ misled' = (misled \ (made[w] \cup gone[w])) \cup alone \cup blind[w]
        /\ blind' = [v \in Writer |-> IF v = w THEN {} ELSE blind[v] \ made[w]]
        /\ leftover' = leftover \ Touched(w)
        /\ made' = [made EXCEPT ![w] = {}]
        /\ gone' = [gone EXCEPT ![w] = {}]
        /\ phase' = [phase EXCEPT ![w] = "postcommit"]
        /\ processed' = [processed EXCEPT ![w] = SelectSeq(@, AfterCommit)]
        /\ UNCHANGED <<memory, changes, plus, minus, queue>>

\* COMMIT raises: nothing is reverted, and all that was applied is left over.
CommitChangesFails(w) ==
    /\ phase[w] = "precommit" /\ queue[w] = <<>>
    /\ leftover' = leftover \cup {o.item : o \in {o \in ToSet(processed[w]) : Reverted(o)}}
    /\ Over(w)
    /\ UNCHANGED <<stored, tables, memory, changes, misled>>

\* A unique constraint another transaction has changed meanwhile is left over.
PostcommitChange(w) ==
    LET o == Head(processed[w])
        unique == o.item \in Uniques /\ Parents(o.item) \subseteq memory
    IN  /\ phase[w] = "postcommit" /\ processed[w] # <<>>
        /\ memory' = CASE unique /\ o.do = "add" -> memory \cup {o.item}
                       [] o.do = "del" -> memory \ ({o.item} \cup Under[o.item])
                       [] OTHER -> memory
        /\ leftover' = IF unique /\ (o.do = "add") # (o.item \in stored)
                       THEN leftover \cup {o.item} ELSE leftover
        /\ processed' = [processed EXCEPT ![w] = Tail(@)]
        /\ UNCHANGED <<stored, tables, changes, phase, plus, minus, made, gone, queue, blind,
                       misled>>

PostcommitDone(w) ==
    /\ phase[w] = "postcommit" /\ processed[w] = <<>>
    /\ Over(w)
    /\ UNCHANGED <<stored, tables, memory, changes, leftover, misled>>

\* The process dies; the next one reads the schema from the database.
Restart ==
    /\ \E w \in Writer : phase[w] # "query"
    /\ memory' = stored
    /\ leftover' = {}
    /\ phase' = [w \in Writer |-> "query"]
    /\ plus' = [w \in Writer |-> {}]
    /\ minus' = [w \in Writer |-> {}]
    /\ made' = [w \in Writer |-> {}]
    /\ gone' = [w \in Writer |-> {}]
    /\ queue' = [w \in Writer |-> <<>>]
    /\ processed' = [w \in Writer |-> <<>>]
    /\ blind' = [w \in Writer |-> {}]
    /\ UNCHANGED <<stored, tables, changes, misled>>

SyncStep(w) ==
    \/ \E i \in Item : AddItem(w, i) \/ RemoveItem(w, i)
    \/ RefuseChange(w)
    \/ StartCommit(w)
    \/ RunAddEType(w)
    \/ RunAddAttribute(w)
    \/ RunAddRelation(w)
    \/ RunDelRDef(w)
    \/ RunDrop(w)
    \/ RunAddConstraint(w)
    \/ RunDelConstraint(w)
    \/ RunUnique(w)
    \/ RunPermission(w)
    \/ RunNothing(w)
    \/ RunFails(w)
    \/ Revert(w)
    \/ RollbackChanges(w)
    \/ CommitChanges(w)
    \/ CommitChangesFails(w)
    \/ PostcommitChange(w)
    \/ PostcommitDone(w)

SyncNext == (\E w \in Writer : SyncStep(w)) \/ Restart

SyncSpec == SyncInit /\ [][SyncNext]_syncVars

--------------------------------------------------------------------------------

\* hooks/syncschema.py: the objects of an item that no transaction in progress changes
\* are in step with the database.  But for: a permission whose transaction failed (the
\* `XXX revertprecommit_event' of MemSchemaPermissionAdd), a relation type rolled back
\* before its operation ran, what was applied when COMMIT raised, a relation type the
\* library removed with a reverted definition, a unique constraint whose postcommit
\* events came in another order than the commits.
MemoryInStep ==
    \A i \in Item : (\A w \in Writer : i \notin Touched(w)) =>
        i \in leftover \/ (i \in memory <=> i \in stored)

\* CWRelationAddOp and RDefDelOp: "if it's the first instance of this relation type, add
\* the necessary table", and drop it with the last.  The tables are those the committed
\* schema needs.  But for: the table of a relation whose first definition was committed
\* while memory held one of a transaction that failed, or of one whose last two
\* definitions were deleted by two transactions.
TablesInStep ==
    \A i \in Item : i \in misled \/ (i \in tables <=> i \in Physical(stored))
================================================================================
