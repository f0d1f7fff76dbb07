----------------------------- MODULE RelationCache -----------------------------
(***************************************************************************)
(* The cache of related entities that a repository connection keeps for    *)
(* the time of a transaction (Entity._cw_related_cache), filled by         *)
(* Entity.related and then updated with each relation that is added or     *)
(* deleted (update_rel_cache_add and update_rel_cache_del of               *)
(* cubicweb/server/session.py, called from repository.py).                 *)
(*                                                                         *)
(* Relations do not disturb each other: a behaviour is about one, which is *)
(* plain (a table, any cardinality), symmetric (a table with both          *)
(* directions, that hooks of integrity.py complete) or inlined (a column   *)
(* of the subject, which has at most one object).                          *)
(***************************************************************************)
EXTENDS Naturals

CONSTANTS
    Person,     \* entities, subjects and objects of the relation
    Nobody,     \* no entity
    NotCached,
    MaxWrites   \* bound: changes in a behaviour

ASSUME CacheAssumption == Nobody \notin Person /\ NotCached \notin [Person -> Nat]

VARIABLES
    relation,    \* "plain", "symmetric" or "inlined"
    savedPairs,  \* the committed pairs <<subject, object>>
    pairs,       \* those a query of the connection finds
    related,     \* related[<<role, e>>]: a bag of entities, or NotCached
    doing,       \* the step the call under way has to do next
    writes,      \* bound: changes so far
    wrong        \* history: keys that may differ from the database

relVars == <<relation, savedPairs, pairs, related, doing, writes, wrong>>

Role == {"subject", "object"}
CacheKey == Role \X Person
NothingToDo == [step |-> "nothing"]

\* The query of Entity.related: nobody comes twice.
Found(rows, key) ==
    [p \in Person |->
        IF (IF key[1] = "subject" THEN <<key[2], p>> ELSE <<p, key[2]>>) \in rows
        THEN 1 ELSE 0]

RelInit ==
    /\ relation \in {"plain", "symmetric", "inlined"}
    /\ savedPairs = {}
    /\ pairs = {}
    /\ related = [k \in CacheKey |-> NotCached]
    /\ doing = NothingToDo
    /\ writes = 0
    /\ wrong = {}

Cached == {k \in CacheKey : related[k] # NotCached}
Writes == writes < MaxWrites /\ writes' = writes + 1

\* _update_entity_rel_cache_add and _update_entity_rel_cache_del
CacheWith(r, key, e) ==
    IF r[key] = NotCached THEN r ELSE [r EXCEPT ![key][e] = @ + 1]
CacheWithout(r, key, e) ==
    IF r[key] = NotCached \/ r[key][e] = 0 THEN r ELSE [r EXCEPT ![key][e] = @ - 1]

\* Mutant: the cache of the object is forgotten.
update_rel_cache_add_SubjectOnly(r, x, y) == CacheWith(r, <<"subject", x>>, y)

update_rel_cache_add(r, x, y) ==
    CacheWith(CacheWith(r, <<"subject", x>>, y),
          IF relation = "symmetric" THEN <<"subject", y>> ELSE <<"object", y>>, x)

\* For a symmetric relation, the object is taken out of what it is the object of.
update_rel_cache_del(r, x, y) ==
    CacheWithout(CacheWithout(r, <<"subject", x>>, y), <<"object", y>>,
          IF relation = "symmetric" THEN y ELSE x)

--------------------------------------------------------------------------------

\* Keys that a hook would fill while the database has only half of the change, the
\* other half of which the cache is told of, or never is.
TooEarly ==
    CASE doing.step = "mirror" ->
            {<<"subject", doing.object>>, <<"object", doing.subject>>}
      [] doing.step = "cache" -> {<<"subject", doing.subject>>, <<"object", doing.object>>}
      [] OTHER -> {}

\* Keys of the cache that the call under way is about to bring up to date.
AboutToFollow ==
    TooEarly \cup (IF doing.step = "cache" /\ doing.previous # Nobody
                   THEN {<<"object", doing.previous>>} ELSE {})

\* Entity.related and cw_set_relation_cache, called by anybody or by a hook of the
\* call under way.  Who is found as the subject of an inlined relation has no other
\* object.
Fill(key) ==
    /\ related[key] = NotCached
    /\ LET found == Found(pairs, key)
           told == IF relation = "inlined" /\ key[1] = "object"
                   THEN {<<"subject", p>> : p \in {q \in Person : found[q] > 0}}
                   ELSE {}
           filled == {key} \cup told
       IN  /\ related' = [k \in CacheKey |->
                            IF k = key THEN found
                            ELSE IF k \in told
                            THEN [p \in Person |-> IF p = key[2] THEN 1 ELSE 0]
                            ELSE related[k]]
           /\ wrong' = (wrong \ filled) \cup (filled \cap TooEarly)
    /\ UNCHANGED <<relation, savedPairs, pairs, doing, writes>>

\* The hooks of integrity.py do the same in the other direction.
Mirrored(x, y) ==
    IF relation = "symmetric" THEN [step |-> "mirror", subject |-> x, object |-> y]
    ELSE NothingToDo

\* glob_add_relations, until its after_add_relation hooks.
AddRelation(x, y) ==
    /\ relation # "inlined" /\ doing = NothingToDo
    /\ <<x, y>> \notin pairs
    /\ relation = "symmetric" => x # y
    /\ Writes
    /\ pairs' = pairs \cup {<<x, y>>}
    /\ related' = update_rel_cache_add(related, x, y)
    /\ doing' = Mirrored(x, y)
    /\ wrong' = wrong \cup (IF relation = "symmetric"
                            THEN Cached \cap {<<"object", x>>, <<"object", y>>} ELSE {})
    /\ UNCHANGED <<relation, savedPairs>>

\* glob_delete_relation, until its after_delete_relation hooks.
DeleteRelation(x, y) ==
    /\ doing = NothingToDo
    /\ <<x, y>> \in pairs
    /\ Writes
    /\ pairs' = pairs \ {<<x, y>>}
    /\ related' = update_rel_cache_del(related, x, y)
    /\ doing' = Mirrored(x, y)
    /\ wrong' = wrong \cup
         (IF relation = "symmetric"
          THEN Cached \cap {<<"subject", y>>, <<"object", x>>, <<"object", y>>} ELSE {})
    /\ UNCHANGED <<relation, savedPairs>>

\* EnsureSymmetricRelationsAdd and EnsureSymmetricRelationsDelete, which leave the
\* cache alone.
Mirror ==
    /\ doing.step = "mirror"
    /\ LET there == <<doing.subject, doing.object>> \in pairs
           back == {<<doing.object, doing.subject>>}
       IN  pairs' = IF there THEN pairs \cup back ELSE pairs \ back
    /\ doing' = NothingToDo
    /\ UNCHANGED <<relation, savedPairs, related, writes, wrong>>

(* glob_update_entity sets an inlined relation in three steps.             *)

\* The previous object comes from the cache, filled for the occasion; it is not
\* deleted when it is the new one.
StartUpdate(x, y) ==
    /\ relation = "inlined" /\ doing = NothingToDo
    /\ related[<<"subject", x>>] # NotCached
    /\ Writes
    /\ \E previous \in Person \cup {Nobody} :
        /\ IF \E p \in Person : related[<<"subject", x>>][p] > 0
           THEN previous # Nobody /\ related[<<"subject", x>>][previous] > 0
           ELSE previous = Nobody
        /\ doing' = [step |-> "write", subject |-> x, object |-> y,
                     previous |-> IF previous = y THEN Nobody ELSE previous]
    /\ UNCHANGED <<relation, savedPairs, pairs, related, wrong>>

Held(x) == {p \in Person : <<x, p>> \in pairs}

\* update_entity; the hooks that follow may read the relation.
WriteUpdate ==
    /\ doing.step = "write"
    /\ pairs' = {q \in pairs : q[1] # doing.subject} \cup {<<doing.subject, doing.object>>}
    /\ doing' = [doing EXCEPT !.step = "cache"]
    /\ wrong' = IF Held(doing.subject) \subseteq {doing.previous} THEN wrong
                ELSE wrong \cup {<<"subject", doing.subject>>}
                           \cup {<<"object", p>> : p \in Held(doing.subject)}
    /\ UNCHANGED <<relation, savedPairs, related, writes>>

UpdateCache ==
    /\ doing.step = "cache"
    /\ LET x == doing.subject
           shorter == IF doing.previous = Nobody THEN related
                      ELSE update_rel_cache_del(related, x, doing.previous)
       IN  related' = update_rel_cache_add(shorter, x, doing.object)
    /\ doing' = NothingToDo
    /\ UNCHANGED <<relation, savedPairs, pairs, writes, wrong>>

--------------------------------------------------------------------------------

\* Another transaction commits: the connection sees it at once.
OtherCommits(x, y) ==
    /\ doing.step \in {"nothing", "write"}
    /\ Writes
    /\ LET touched == CASE relation = "plain" -> {<<x, y>>}
                        [] relation = "symmetric" -> {<<x, y>>, <<y, x>>}
                        [] relation = "inlined" -> {x} \X Person
           now == IF <<x, y>> \in savedPairs THEN {}
                  ELSE IF relation = "symmetric" THEN touched ELSE {<<x, y>>}
           changed == now \cup (savedPairs \cap touched)
       IN  /\ relation = "symmetric" => x # y
           /\ pairs \cap touched = savedPairs \cap touched
           /\ savedPairs' = (savedPairs \ touched) \cup now
           /\ pairs' = (pairs \ touched) \cup now
           /\ wrong' = wrong \cup (Cached \cap UNION {{<<"subject", q[1]>>, <<"object", q[2]>>} :
                                                      q \in changed})
    /\ UNCHANGED <<relation, related, doing>>

\* doexec fails: the database rolls back, the caller swallows the exception and goes
\* on with the cache it has.
SqlErrorHere ==
    /\ \/ doing # NothingToDo
       \/ pairs # savedPairs
    /\ pairs' = savedPairs
    /\ doing' = NothingToDo
    /\ wrong' = wrong \cup {k \in Cached : Found(pairs, k) # Found(savedPairs, k)}
                      \cup (Cached \cap AboutToFollow)
    /\ UNCHANGED <<relation, savedPairs, related, writes>>

\* commit or rollback; Connection.clear forgets the entities and their caches.
EndOfTransaction ==
    /\ doing = NothingToDo
    /\ savedPairs' \in {pairs, savedPairs}
    /\ pairs' = savedPairs'
    /\ related' = [k \in CacheKey |-> NotCached]
    /\ wrong' = {}
    /\ UNCHANGED <<relation, doing, writes>>

RelNext ==
    \/ \E k \in CacheKey : Fill(k)
    \/ \E x, y \in Person :
        \/ AddRelation(x, y)
        \/ DeleteRelation(x, y)
        \/ StartUpdate(x, y)
        \/ OtherCommits(x, y)
    \/ Mirror
    \/ WriteUpdate
    \/ UpdateCache
    \/ SqlErrorHere
    \/ EndOfTransaction

RelSpec == RelInit /\ [][RelNext]_relVars

--------------------------------------------------------------------------------

\* session.py:487-554 keeps the caches of a transaction in step with the relations it
\* adds and deletes: what is cached is what the database would answer, nobody missing
\* and nobody twice, except while a call is under way, and, for the rest of the
\* transaction, after a commit of another transaction or a failed statement, after
\* half of a symmetric deletion, for the object side of a symmetric relation, when a
\* hook filled the cache before the call had told it of the change, and when a
\* relation was set to the object it already had.
CachesFollow ==
    \A k \in Cached \ (wrong \cup AboutToFollow) : related[k] = Found(pairs, k)
================================================================================
