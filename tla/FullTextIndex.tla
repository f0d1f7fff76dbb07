----------------------------- MODULE FullTextIndex -----------------------------
(***************************************************************************)
(* The full text index of the entities of the database, kept up by an      *)
(* operation of the transactions that change a text (FTIndexEntityOp of    *)
(* cubicweb/server/sources/native.py).  The words of some entities, the    *)
(* parts, are indexed with those of the entity that contains them.         *)
(*                                                                         *)
(* A text is the number of times it was changed.                           *)
(***************************************************************************)
EXTENDS Naturals, FiniteSets

CONSTANTS
    Author,     \* connections that change texts
    Container,  \* entities indexed for themselves and for what they contain
    Part,       \* entities whose type has a fulltext_container relation
    Nowhere,    \* the container of a part without one
    MaxTexts    \* bound: changes in a behaviour

ASSUME TextAssumption == Nowhere \notin Container /\ Container \cap Part = {}

VARIABLES
    text,      \* the committed texts
    inside,    \* the committed containers of the parts
    draft,     \* texts the transaction of an author has changed
    moved,     \* and parts that it has moved
    saving,    \* whether it has called commit()
    toIndex,   \* data of its FTIndexEntityOp
    indexed,   \* transaction_data['indexedeids']
    target,    \* rows and containers of the index it is replacing
    index,     \* committed rows of the index: whose words, from whom, which words
    fresh,     \* rows its database transaction has inserted,
    dropped,   \* and deleted
    texts,     \* bound: changes so far
    late,      \* history: containers changed after the transaction had indexed them,
    crossed,   \*     or by another commit since it began to index them
    unfound    \* history: containers whose rows may be wrong

ofAuthor == <<draft, moved, saving, toIndex, indexed, target, fresh, dropped, late,
              crossed>>
ftiVars == <<text, inside, index, texts, unfound, ofAuthor>>

Doc == Container \cup Part
NoTarget == [rows |-> {}, docs |-> {}]
NoDraft == [d \in {} |-> 0]

\* The words of a container, in which those of its parts are merged.
Words(k, txt, ins) == [d \in {k} \cup {p \in Part : ins[p] = k} |-> txt[d]]
Row(a, k, txt, ins) == [of |-> k, by |-> a, words |-> Words(k, txt, ins)]

FtiInit ==
    /\ text = [d \in Doc |-> 0]
    /\ inside \in [Part -> Container \cup {Nowhere}]
    /\ index = {Row(a, k, text, inside) : a \in {CHOOSE a \in Author : TRUE}, k \in Container}
    /\ draft = [a \in Author |-> NoDraft]
    /\ moved = [a \in Author |-> NoDraft]
    /\ saving = [a \in Author |-> FALSE]
    /\ toIndex = [a \in Author |-> {}]
    /\ indexed = [a \in Author |-> {}]
    /\ target = [a \in Author |-> NoTarget]
    /\ fresh = [a \in Author |-> {}]
    /\ dropped = [a \in Author |-> {}]
    /\ texts = 0
    /\ late = [a \in Author |-> {}]
    /\ crossed = [a \in Author |-> {}]
    /\ unfound = {}

\* What a sees: READ COMMITTED.
TextOf(a) == [d \in Doc |-> IF d \in DOMAIN draft[a] THEN draft[a][d] ELSE text[d]]
InsideOf(a) == [p \in Part |-> IF p \in DOMAIN moved[a] THEN moved[a][p] ELSE inside[p]]
Locks(a) == UNION {DOMAIN draft[b] \cup DOMAIN moved[b] : b \in Author \ {a}}

\* IFTIndexableAdapter.fti_containers
FtiContainers(d, ins) == IF d \in Container THEN {d} ELSE {ins[d]} \ {Nowhere}

With(f, x, v) == [y \in DOMAIN f \cup {x} |-> IF y = x THEN v ELSE f[y]]

\* a changes nothing between its unindexing and its indexing.
Writable(a, d) == d \notin Locks(a) /\ target[a] = NoTarget /\ texts < MaxTexts

\* index_entity, and what it will not do again for an entity already indexed.
Asks(a, docs, ins) ==
    /\ toIndex' = [toIndex EXCEPT ![a] = @ \cup docs]
    /\ late' = [late EXCEPT ![a] =
                  @ \cup UNION {FtiContainers(d, ins) : d \in docs \cap indexed[a]}]
    /\ texts' = texts + 1
    /\ UNCHANGED <<text, inside, saving, indexed, target, index, fresh, dropped,
                   crossed, unfound>>

\* An indexed attribute changes: by a query, or by an operation during the commit.
ChangeText(a, d) ==
    /\ Writable(a, d)
    /\ draft' = [draft EXCEPT ![a] = With(@, d, TextOf(a)[d] + 1)]
    /\ Asks(a, {d}, InsideOf(a))
    /\ UNCHANGED moved

\* UpdateFTIHook: both containers of a part that moves.
MovePart(a, p, k) ==
    /\ Writable(a, p) /\ k # InsideOf(a)[p]
    /\ moved' = [moved EXCEPT ![a] = With(@, p, k)]
    /\ Asks(a, {k, InsideOf(a)[p]} \ {Nowhere}, [InsideOf(a) EXCEPT ![p] = k])
    /\ UNCHANGED draft

Save(a) ==
    /\ ~saving[a] /\ (DOMAIN draft[a] \cup DOMAIN moved[a]) # {}
    /\ saving' = [saving EXCEPT ![a] = TRUE]
    /\ UNCHANGED <<text, inside, index, texts, unfound, draft, moved, toIndex, indexed,
                   target, fresh, dropped, late, crossed>>

\* Mutant: the entities are indexed, not what contains them.
ToReindex_Themselves(a) == (toIndex[a] \ indexed[a]) \cap Container

\* The containers of the entities not yet indexed in the transaction.
ToReindex(a) == UNION {FtiContainers(d, InsideOf(a)) : d \in toIndex[a] \ indexed[a]}

\* FTIndexEntityOp.precommit_event takes its data and looks for the rows to delete;
\* it waits for those who have deleted them.
StartIndexing(a) ==
    /\ saving[a] /\ toIndex[a] # {} /\ target[a] = NoTarget
    /\ target' = [target EXCEPT ![a] =
                    [rows |-> {w \in (index \ dropped[a]) \cup fresh[a] : w.of \in ToReindex(a)},
                     docs |-> ToReindex(a)]]
    /\ indexed' = [indexed EXCEPT ![a] = @ \cup toIndex[a]]
    /\ toIndex' = [toIndex EXCEPT ![a] = {}]
    /\ UNCHANGED <<text, inside, index, texts, unfound, draft, moved, saving, fresh,
                   dropped, late, crossed>>

\* fti_unindex_entities, then fti_index_entities for some of the containers: an error
\* is logged, and ends the loop.
Index(a, docs) ==
    /\ target[a].docs # {}
    /\ target[a].rows \cap UNION {dropped[b] : b \in Author \ {a}} = {}
    /\ dropped' = [dropped EXCEPT ![a] = @ \cup (target[a].rows \cap index)]
    /\ fresh' = [fresh EXCEPT ![a] = (@ \ target[a].rows) \cup
                    {Row(a, k, TextOf(a), InsideOf(a)) : k \in docs}]
    /\ late' = [late EXCEPT ![a] = (@ \ docs) \cup (target[a].docs \ docs)]
    /\ target' = [target EXCEPT ![a] = NoTarget]
    /\ UNCHANGED <<text, inside, index, texts, unfound, draft, moved, saving, toIndex,
                   indexed, crossed>>

Indexing(a) == Index(a, target[a].docs)
IndexingFails(a) == \E docs \in SUBSET target[a].docs \ {target[a].docs} : Index(a, docs)

Forget(a) ==
    /\ draft' = [draft EXCEPT ![a] = NoDraft]
    /\ moved' = [moved EXCEPT ![a] = NoDraft]
    /\ saving' = [saving EXCEPT ![a] = FALSE]
    /\ toIndex' = [toIndex EXCEPT ![a] = {}]
    /\ indexed' = [indexed EXCEPT ![a] = {}]
    /\ target' = [target EXCEPT ![a] = NoTarget]
    /\ fresh' = [fresh EXCEPT ![a] = {}]
    /\ dropped' = [dropped EXCEPT ![a] = {}]
    /\ late' = [late EXCEPT ![a] = {}]
    /\ texts' = texts

\* The containers b has rows for, is indexing or was to index.
Busy(b) == {w.of : w \in fresh[b]} \cup target[b].docs \cup late[b]

CommitTexts(a) ==
    LET changed == (UNION {FtiContainers(d, InsideOf(a)) : d \in DOMAIN draft[a]})
                   \cup (UNION {{moved[a][p], inside[p]} \ {Nowhere} : p \in DOMAIN moved[a]})
                   \cup {w.of : w \in fresh[a]}
    IN  /\ saving[a] /\ toIndex[a] = {} /\ target[a] = NoTarget
        /\ text' = TextOf(a)
        /\ inside' = InsideOf(a)
        /\ index' = (index \ dropped[a]) \cup fresh[a]
        /\ unfound' = (unfound \ {w.of : w \in fresh[a]}) \cup late[a] \cup crossed[a]
        /\ crossed' = [b \in Author |-> IF b = a THEN {}
                                        ELSE crossed[b] \cup (changed \cap Busy(b))]
        /\ Forget(a)

AbandonTexts(a) ==
    /\ Forget(a)
    /\ crossed' = [crossed EXCEPT ![a] = {}]
    /\ UNCHANGED <<text, inside, index, unfound>>

FtiNext == \E a \in Author :
    \/ \E d \in Doc : ChangeText(a, d)
    \/ \E p \in Part, k \in Container : MovePart(a, p, k)
    \/ Save(a)
    \/ StartIndexing(a)
    \/ Indexing(a)
    \/ IndexingFails(a)
    \/ CommitTexts(a)
    \/ AbandonTexts(a)

FtiSpec == FtiInit /\ [][FtiNext]_ftiVars

--------------------------------------------------------------------------------

\* native.py:1287-1289: indexation is triggered on precommit "after other precommit
\* operation which may add relations to the entity".  Every container is found by the
\* words of its committed text and of those of its parts, once, but for: one changed
\* again in the commit that had indexed it, one the index refused, one that two
\* transactions indexed at the same time.
FoundAsStored ==
    \A k \in Container \ unfound :
        {w.words : w \in {w \in index : w.of = k}} = {Words(k, text, inside)}
================================================================================
