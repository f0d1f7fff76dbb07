-------------------------- MODULE RelationCardinality --------------------------
(***************************************************************************)
(* The cardinality of a relation type (cubicweb/server/repository.py,      *)
(* cubicweb/hooks/integrity.py) under the transactions of several          *)
(* connections.                                                            *)
(*                                                                         *)
(* "1" and "?" forbid a second relation: adding one deletes the others,    *)
(* and a batch drops its own duplicates first.  "1" and "+" require one:   *)
(* what may have lost its last relation is checked before COMMIT.          *)
(*                                                                         *)
(* An addition is a call in several statements: for each pair of the batch *)
(* the deletion of the others, then the insertion of those that are left.  *)
(*                                                                         *)
(* The relation is not inlined, both integrity hook categories are active, *)
(* and the database is READ COMMITTED: a statement waits for the rows that *)
(* another transaction writes, not for those that it read.                 *)
(***************************************************************************)
EXTENDS Integers, SequencesExt

CONSTANTS
    Cnx,
    Subject, Object,           \* the entities at either end
    Cards,                     \* pairs of cardinalities a relation type may have
    MaxBatch,                  \* bound: pairs added by one call
    MaxContested               \* bound: entities in contested

Entity == Subject \cup Object
Pair == Subject \X Object

ASSUME CardAssumption == Cards \subseteq {"1", "?", "+", "*"} \X {"1", "?", "+", "*"}
ASSUME EndsAssumption == Subject \cap Object = {}
ASSUME BoundsAssumption == MaxBatch \in Nat /\ MaxContested \in Nat

VARIABLES
    cards,      \* the cardinality of the relation type: of its subject, of its object
    entities,   \* committed entities
    related,    \* committed pairs
    created,    \* per connection: entities it added
    deleted,    \* pendingeids
    added,      \* pairs it added
    removed,    \* pairs it deleted
    checks,     \* data of _CheckSRelationOp and _CheckORelationOp
    batch,      \* the call of glob_add_relations in progress
    stage,      \* "open", "adding" during that call, or "checked" between the
                \* precommit event and COMMIT
    contested   \* history: entities whose relations two transactions changed at once

transaction == <<created, deleted, added, removed, checks, batch, stage>>
vars == <<cards, entities, related, transaction, contested>>

SubjectCard == cards[1]
ObjectCard == cards[2]

\* The pairs to go through, those to insert, and for a single end 1 + its index in
\* the latter, or 0.
Batch(pairs) == [todo |-> pairs, kept |-> <<>>, subjects |-> [s \in Subject |-> 0],
                 objects |-> [o \in Object |-> 0]]
NoBatch == Batch(<<>>)

Init ==
    /\ cards \in Cards
    /\ entities = {}
    /\ related = {}
    /\ created = [c \in Cnx |-> {}]
    /\ deleted = [c \in Cnx |-> {}]
    /\ added = [c \in Cnx |-> {}]
    /\ removed = [c \in Cnx |-> {}]
    /\ checks = [c \in Cnx |-> {}]
    /\ batch = [c \in Cnx |-> NoBatch]
    /\ stage = [c \in Cnx |-> "open"]
    /\ contested = {}

\* What c reads.
Visible(c) == (related \ removed[c]) \cup added[c]
Alive(c) == (entities \cup created[c]) \ deleted[c]

\* The ends of the relation that e can be at, where a relation is required.
Ends == {<<"subject", s>> : s \in Subject} \cup {<<"object", o>> : o \in Object}
Required(end) == (IF end[1] = "subject" THEN SubjectCard ELSE ObjectCard) \in {"1", "+"}
Lacks(end, pairs) == \A p \in pairs : (IF end[1] = "subject" THEN p[1] ELSE p[2]) # end[2]

Single(card) == card \in {"1", "?"}

--------------------------------------------------------------------------------
(* Writes.                                                                 *)

\* The rows that c deletes or inserts are not in the hands of another transaction.
Unheld(c, pairs) ==
    \A d \in Cnx \ {c} : pairs \cap (added[d] \cup removed[d]) = {}

\* A pair keeps the entities it refers to from being deleted, and conversely.
Referable(c, pairs) ==
    \A p \in pairs : /\ {p[1], p[2]} \subseteq Alive(c)
                     /\ \A d \in Cnx : {p[1], p[2]} \cap deleted[d] = {}

Linked(pairs) == {p[1] : p \in pairs} \cup {p[2] : p \in pairs}

\* What the transaction of c changes, or is about to.
Changes(c) == added[c] \cup removed[c] \cup ToSet(batch[c].todo) \cup ToSet(batch[c].kept)

Contest(c, pairs) ==
    /\ contested' = contested \cup
           {e \in Linked(pairs) : \E d \in Cnx \ {c} : e \in Linked(Changes(d))}
    /\ Cardinality(contested') <= MaxContested

Write(c, gone, new) ==
    /\ added' = [added EXCEPT ![c] = (@ \ gone) \cup new]
    /\ removed' = [removed EXCEPT ![c] = @ \cup (gone \cap related)]
    /\ Contest(c, gone \cup new)

\* Mutant: a deleted relation is only checked from its subject.
Broken_SubjectOnly(pairs, dying) ==
    {end \in Ends : Required(end) /\ end[2] \notin dying /\ end[1] = "subject"
                    /\ ~Lacks(end, pairs)}

\* CheckCardinalityHookBeforeDeleteRelation, for the pairs about to be deleted.
Broken(pairs, dying) ==
    {end \in Ends : Required(end) /\ end[2] \notin dying /\ ~Lacks(end, pairs)}

\* An entity gets a new eid.
CreateEntity(c, e) ==
    /\ stage[c] = "open"
    /\ e \notin entities /\ \A d \in Cnx : e \notin created[d] \cup deleted[d]
    /\ created' = [created EXCEPT ![c] = @ \cup {e}]
    /\ checks' = [checks EXCEPT ![c] = @ \cup {end \in Ends : end[2] = e /\ Required(end)}]
    /\ UNCHANGED <<cards, entities, related, deleted, added, removed, batch, stage,
                   contested>>

\* glob_delete_entities and _delete_cascade_multi
DeleteEntity(c, e) ==
    /\ stage[c] = "open"
    /\ e \in Alive(c)
    /\ \A d \in Cnx \ {c} : e \notin deleted[d] /\ \A p \in added[d] : e \notin {p[1], p[2]}
    /\ LET gone == {p \in Visible(c) : e \in {p[1], p[2]}} IN
          /\ Unheld(c, gone)
          /\ Write(c, gone, {})
          /\ checks' = [checks EXCEPT ![c] = @ \cup Broken(gone, deleted[c] \cup {e})]
    /\ deleted' = [deleted EXCEPT ![c] = @ \cup {e}]
    /\ UNCHANGED <<cards, entities, related, created, batch, stage>>

\* glob_delete_relation
DeleteRelation(c, p) ==
    /\ stage[c] = "open"
    /\ p \in Visible(c)
    /\ Unheld(c, {p})
    /\ Write(c, {p}, {})
    /\ checks' = [checks EXCEPT ![c] = @ \cup Broken({p}, deleted[c])]
    /\ UNCHANGED <<cards, entities, related, created, deleted, batch, stage>>

(* glob_add_relations goes through the pairs of a batch.  kept is the list *)
(* that will be inserted; subjects and objects recall, for an end that is  *)
(* single, a position in that list.  A position is recalled for an object  *)
(* after its pair is counted in, one too far (repository.py:893, 895).     *)
Position(card, known, key, i) == IF Single(card) THEN [known EXCEPT ![key] = i] ELSE known

\* The pairs of a call are distinct.
BeginAdd(c, pairs) ==
    /\ stage[c] = "open"
    /\ Referable(c, ToSet(pairs))
    /\ stage' = [stage EXCEPT ![c] = "adding"]
    /\ batch' = [batch EXCEPT ![c] = Batch(pairs)]
    /\ Contest(c, ToSet(pairs))
    /\ UNCHANGED <<cards, entities, related, created, deleted, added, removed, checks>>

\* The other relations of the ends that are single.
Siblings(c, p) == {q \in Visible(c) : Single(SubjectCard) /\ q[1] = p[1] /\ q # p}

\* Mutant: the other relations of the object are left.
Rivals_None(c, p) == {}

Rivals(c, p) == {q \in Visible(c) : Single(ObjectCard) /\ q[2] = p[2] /\ q # p}

\* The query that deletes them.
Drop(c, gone) ==
    /\ stage[c] = "adding" /\ batch[c].todo # <<>>
    /\ Unheld(c, gone)
    /\ Write(c, gone, {})
    /\ checks' = [checks EXCEPT ![c] = @ \cup Broken(gone, deleted[c])]
    /\ UNCHANGED <<cards, entities, related, created, deleted, stage>>

\* The next pair has a subject that the batch already gave another object.
AddAgain(c) ==
    LET p == Head(batch[c].todo)
        i == batch[c].subjects[p[1]]
    IN  /\ Drop(c, Siblings(c, p))
        /\ i # 0
        /\ batch' = [batch EXCEPT ![c].todo = Tail(@),
               ![c].kept = RemoveAt(Append(@, p), i),
               ![c].subjects = Position(SubjectCard, @, p[1], Len(batch[c].kept))]

\* It has not; its object may have been given another subject.
AddPair(c) ==
    LET p == Head(batch[c].todo)
        i == batch[c].objects[p[2]]
        n == Len(batch[c].kept) + 1
    IN  /\ Drop(c, Siblings(c, p) \cup Rivals(c, p))
        /\ batch[c].subjects[p[1]] = 0
        /\ batch' = [batch EXCEPT ![c].todo = Tail(@),
               ![c].kept = IF i = 0 THEN Append(@, p) ELSE RemoveAt(Append(@, p), i),
               ![c].subjects = Position(SubjectCard, @, p[1], n),
               ![c].objects = Position(ObjectCard, @, p[2], IF i = 0 THEN n + 1 ELSE n)]

\* Those it inserts are new in the table, and refer to what is still there.
InsertPairs(c) ==
    LET new == ToSet(batch[c].kept)
    IN  /\ stage[c] = "adding" /\ batch[c].todo = <<>>
        /\ Referable(c, new)
        /\ new \cap Visible(c) = {} /\ Unheld(c, new)
        /\ Write(c, {}, new)
        /\ stage' = [stage EXCEPT ![c] = "open"]
        /\ batch' = [batch EXCEPT ![c] = NoBatch]
        /\ UNCHANGED <<cards, entities, related, created, deleted, checks>>

--------------------------------------------------------------------------------
(* The end of the transaction.                                             *)

Over(c) ==
    /\ created' = [created EXCEPT ![c] = {}]
    /\ deleted' = [deleted EXCEPT ![c] = {}]
    /\ added' = [added EXCEPT ![c] = {}]
    /\ removed' = [removed EXCEPT ![c] = {}]
    /\ checks' = [checks EXCEPT ![c] = {}]
    /\ batch' = [batch EXCEPT ![c] = NoBatch]
    /\ stage' = [stage EXCEPT ![c] = "open"]

\* Mutant: only the entities the transaction added are checked.
Missing_CreatedOnly(c) == {end \in checks[c] : end[2] \in created[c] \ deleted[c]
                                                /\ Lacks(end, Visible(c))}

\* _CheckRequiredRelationOperation finds what is missing, if anything.
Missing(c) == {end \in checks[c] : end[2] \notin deleted[c] /\ Lacks(end, Visible(c))}

CheckRequired(c) ==
    /\ stage[c] = "open"
    /\ Missing(c) = {}
    /\ stage' = [stage EXCEPT ![c] = "checked"]
    /\ UNCHANGED <<cards, entities, related, created, deleted, added, removed, checks,
                   batch, contested>>

DbCommit(c) ==
    /\ stage[c] = "checked"
    /\ entities' = (entities \cup created[c]) \ deleted[c]
    /\ related' = (related \ removed[c]) \cup added[c]
    /\ Over(c)
    /\ UNCHANGED <<cards, contested>>

\* The caller's choice, a validation error or a duplicate key.
Rollback(c) ==
    /\ stage[c] \in {"open", "adding"}
    /\ Over(c)
    /\ UNCHANGED <<cards, entities, related, contested>>

Batches ==
    UNION {{b \in [1..n -> Pair] : IsInjective(b)} : n \in 1..MaxBatch}

Step(c) ==
    \/ \E e \in Entity : CreateEntity(c, e) \/ DeleteEntity(c, e)
    \/ \E p \in Pair : DeleteRelation(c, p)
    \/ \E pairs \in Batches : BeginAdd(c, pairs)
    \/ AddAgain(c) \/ AddPair(c) \/ InsertPairs(c)
    \/ CheckRequired(c)
    \/ DbCommit(c)
    \/ Rollback(c)

Next == \E c \in Cnx : Step(c)

Spec == Init /\ [][Next]_vars

--------------------------------------------------------------------------------

\* repository.py:75, 871-873.  An end of cardinality "1" or "?" never has two relations
\* in the committed database, whatever was added, alone or in pairs, but for an entity
\* whose relations two transactions changed at once.
AtMostOne ==
    \A p, q \in related : p # q =>
        /\ Single(SubjectCard) /\ p[1] = q[1] => p[1] \in contested
        /\ Single(ObjectCard) /\ p[2] = q[2] => p[2] \in contested

\* integrity.py:138.  A committed entity has a relation at every end that requires one,
\* with the same exception.
RequiredPresent ==
    \A end \in Ends :
        end[2] \in entities /\ Required(end) /\ Lacks(end, related) => end[2] \in contested

\* integrity.py:142-176.  What a transaction broke it will check: an entity that lost, or
\* never got, a required relation is in the data of the precommit operation, whatever
\* batches, replacements and cascades happened, unless it was already so in the database.
BrokenIsChecked ==
    \A c \in Cnx, end \in Ends :
        /\ end[2] \in Alive(c)
        /\ Required(end)
        /\ Lacks(end, Visible(c))
        => end \in checks[c] \/ (end[2] \in entities /\ Lacks(end, related))
================================================================================
