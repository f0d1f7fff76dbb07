-------------------------------- MODULE Importer -------------------------------
(***************************************************************************)
(* The import of a stream of external entities, which name each other by   *)
(* external ids and come in any order (ExtEntitiesImporter of              *)
(* cubicweb/dataimport/importer.py).                                       *)
(*                                                                         *)
(* An entity waits in a queue for the entities that its inlined relations  *)
(* need; the other relations, here of one type, wait for the end.  Of the  *)
(* values of an entity only the inlined relations are kept.                *)
(***************************************************************************)
EXTENDS Naturals, FiniteSets, Sequences

CONSTANTS
    ExtId,
    TypeOf,       \* entity type of each external id
    Hint,         \* etypes_order_hint, a sequence
    Given,        \* sets of external ids that may be known before the import
    Link,         \* pairs of external ids that may be related
    MaxNeeds, MaxStream  \* bounds: relations of an entity, entities of the stream

ASSUME ImporterAssumption ==
    /\ TypeOf \in [ExtId -> {TypeOf[x] : x \in ExtId}]
    /\ IsFiniteSet({TypeOf[x] : x \in ExtId})
    /\ Hint \in Seq({Hint[i] : i \in DOMAIN Hint})
    /\ Given \subseteq SUBSET ExtId /\ Link \subseteq ExtId \X ExtId

VARIABLES
    extid2eid,    \* the known external ids
    queue,        \* of each type, the entities not ready
    order_hint,
    at,           \* position in order_hint, 0 when the stream is read
    seen,         \* entities looked at in the queue of that type
    new_queue,    \* those of them that are not ready
    new,          \* an entity left the queue in this round
    applied,      \* history: entities yielded
    taken,        \* number of entities read
    deferred,     \* relations left to insert
    existing,     \* existing_relations
    symmetric,
    known,        \* history: the external ids known before the import,
    asked, kept,  \*     all the relations of the stream, those there before
    inserted,     \* number of times each was inserted
    importStep    \* read, relations, over

ofRound == <<at, seen, new_queue, new>>
ofStream == <<known, extid2eid, queue, order_hint, ofRound, applied, taken>>
ofRelations == <<deferred, existing, symmetric, asked, kept, inserted, importStep>>
importVars == <<ofStream, ofRelations>>

ExtTypes == {TypeOf[x] : x \in ExtId}
ExtEntity(i) == [pos : {i}, extid : ExtId,
                 needs : {n \in SUBSET ExtId : Cardinality(n) <= MaxNeeds}]
QueuedTypes(q) == {t \in ExtTypes : q[t] # <<>>}

ImportInit ==
    /\ known \in Given /\ extid2eid = known
    /\ queue = [t \in ExtTypes |-> <<>>]
    /\ order_hint = Hint
    /\ at = 0 /\ seen = 0 /\ new_queue = <<>> /\ new = FALSE
    /\ applied = {} /\ taken = 0
    /\ deferred = {} /\ existing = {} /\ symmetric = FALSE
    /\ asked = {} /\ kept = {}
    /\ inserted = [l \in ExtId \X ExtId |-> 0]
    /\ importStep = "read"

is_ready(e, eids) == e.needs \subseteq eids

\* The rest of order_hint: the types of the queue that it lacks, in any order.
Enumerations(s) == {f \in [1..Cardinality(s) -> s] : {f[i] : i \in DOMAIN f} = s}
Lacking(q) == QueuedTypes(q) \ {order_hint[i] : i \in DOMAIN order_hint}

\* An entity of the stream that has to wait.
Postpone(e) ==
    /\ importStep = "read" /\ at = 0 /\ taken < MaxStream
    /\ ~is_ready(e, extid2eid)
    /\ queue' = [queue EXCEPT ![TypeOf[e.extid]] = Append(@, e)]
    /\ taken' = taken + 1
    /\ UNCHANGED <<known, extid2eid, order_hint, ofRound, applied, ofRelations>>

\* One that is created or updated; the queue may have something ready then.
Take(e) ==
    /\ importStep = "read" /\ at = 0 /\ taken < MaxStream
    /\ is_ready(e, extid2eid)
    /\ extid2eid' = extid2eid \cup {e.extid}
    /\ applied' = applied \cup {e}
    /\ taken' = taken + 1
    /\ IF QueuedTypes(queue) = {}
       THEN UNCHANGED <<order_hint, at>>
       ELSE /\ \E rest \in Enumerations(Lacking(queue)) : order_hint' = order_hint \o rest
            /\ at' = 1
    /\ UNCHANGED <<known, queue, seen, new_queue, new, ofRelations>>

\* Mutant: the queue is gone through once.
NextRound_Once(again) == 0

\* After the last type, another round if an entity left the queue.
NextRound(again) == IF again THEN 1 ELSE 0

\* The queue of the type at hand; order_hint may name types that have none.
Etype == order_hint[at]
HasNext == Etype \in ExtTypes /\ seen < Len(queue[Etype])

\* Its next entity, imported if it is ready before the one after it is looked at.
LookAtNext ==
    /\ at # 0 /\ HasNext
    /\ LET e == queue[Etype][seen + 1]
       IN  IF is_ready(e, extid2eid)
           THEN /\ extid2eid' = extid2eid \cup {e.extid}
                /\ applied' = applied \cup {e}
                /\ new' = TRUE
                /\ UNCHANGED new_queue
           ELSE /\ new_queue' = Append(new_queue, e)
                /\ UNCHANGED <<extid2eid, applied, new>>
    /\ seen' = seen + 1
    /\ UNCHANGED <<known, queue, order_hint, at, taken, ofRelations>>

\* Its queue keeps those that are not ready; the next type, or the next round.
EndsType ==
    /\ at # 0 /\ ~HasNext
    /\ queue' = IF Etype \in ExtTypes THEN [queue EXCEPT ![Etype] = new_queue] ELSE queue
    /\ seen' = 0 /\ new_queue' = <<>>
    /\ IF at < Len(order_hint)
       THEN at' = at + 1 /\ UNCHANGED new
       ELSE at' = NextRound(new) /\ new' = FALSE
    /\ UNCHANGED <<known, extid2eid, order_hint, applied, taken, ofRelations>>

--------------------------------------------------------------------------------
(* prepare_insert_deferred_relations                                       *)

Reversed(l) == <<l[2], l[1]>>
BothWays(s) == s \cup {Reversed(l) : l \in s}

\* The stream ends: the relations it held, those the repository has.
StreamEnds(links, old, sym) ==
    /\ importStep = "read" /\ at = 0
    /\ importStep' = "relations"
    /\ symmetric' = sym
    /\ deferred' = links /\ asked' = links
    /\ existing' = (IF sym THEN BothWays(old) ELSE old) /\ kept' = existing'
    /\ UNCHANGED <<ofStream, inserted>>

InsertRelation(l) ==
    /\ importStep = "relations" /\ l \in deferred
    /\ deferred' = deferred \ {l}
    /\ IF l[1] \in extid2eid /\ l[2] \in extid2eid /\ l \notin existing
       THEN /\ inserted' = [inserted EXCEPT ![l] = @ + 1]
            /\ existing' = existing \cup (IF symmetric THEN BothWays({l}) ELSE {l})
       ELSE UNCHANGED <<inserted, existing>>
    /\ UNCHANGED <<ofStream, symmetric, asked, kept, importStep>>

ImportEnds ==
    /\ importStep = "relations" /\ deferred = {}
    /\ importStep' = "over"
    /\ UNCHANGED <<ofStream, deferred, existing, symmetric, asked, kept, inserted>>

ImportNext ==
    \/ \E e \in ExtEntity(taken) : Postpone(e) \/ Take(e)
    \/ LookAtNext
    \/ EndsType
    \/ \E links \in SUBSET Link, sym \in BOOLEAN :
          \E old \in SUBSET {l \in Link : {l[1], l[2]} \subseteq extid2eid} :
             StreamEnds(links, old, sym)
    \/ \E l \in deferred : InsertRelation(l)
    \/ ImportEnds

ImportSpec == ImportInit /\ [][ImportNext]_importVars

--------------------------------------------------------------------------------

Postponed == UNION {{queue[t][i] : i \in DOMAIN queue[t]} : t \in ExtTypes}

\* Sets of external ids that hold an entity of the stream when they hold what it needs.
ClosedSets ==
    {k \in SUBSET ExtId : \A e \in applied \cup Postponed : is_ready(e, k) => e.extid \in k}

\* importer.py:335-336, "an order which attempts to satisfy schema constraints": whenever
\* the importer is back to the stream every entity that can be imported has been, once,
\* and the others wait: it knows the least closed set.  At the end every relation between
\* known entities is there, once, in one direction if it is symmetric.
ImportComplete ==
    /\ at = 0 =>
          /\ Cardinality(applied \cup Postponed) = taken
          /\ \A e \in Postponed : ~is_ready(e, extid2eid)
          /\ \A k \in ClosedSets : known \subseteq k => extid2eid \subseteq k
    /\ importStep = "over" => \A l \in asked :
          LET times == inserted[l] + (IF symmetric /\ l # Reversed(l)
                                      THEN inserted[Reversed(l)] ELSE 0)
          IN  times = IF {l[1], l[2]} \subseteq extid2eid /\ l \notin kept THEN 1 ELSE 0
================================================================================
