----------------------------- MODULE MCDerivedData -----------------------------
(***************************************************************************)
(* What a repository derives from its data and keeps beside them: the type *)
(* cache of the instances, the schema objects and the tables, the values   *)
(* of the properties, the full text index, the related entities of a       *)
(* connection, the computed attributes.  Operations of the hooks framework *)
(* keep them in step, each its own: a behaviour is about one of them, and  *)
(* the others stay as they start, in one state.                            *)
(***************************************************************************)
EXTENDS EidTypeCache, SchemaSync, PropertySync, FullTextIndex, RelationCache,
        ComputedAttributes

CONSTANTS T, U, r, n

VARIABLE part

MCDef == {<<T, r>>, <<U, r>>, <<T, n>>}
MCConstrained == {<<T, n>>}

\* Schemas with nothing, with types and no definition, with some and with all items.
MCTypes == {<<"etype", T>>, <<"etype", U>>, <<"rtype", r>>}
MCNumber == {<<"rtype", n>>, <<"rdef", T, n>>, <<"constraint", T, n>>}
MCStart ==
    {{}, MCTypes,
     MCTypes \cup MCNumber \cup {<<"rdef", T, r>>},
     MCTypes \cup MCNumber \cup {<<"rdef", T, r>>, <<"rdef", U, r>>, <<"unique", T>>,
                                 <<"permission", T>>}}

\* The writers of the schema, where the states are most, are interchangeable.
DerivedSymmetry == Permutations(Writer)

DerivedInit ==
    /\ part \in {"types", "schema", "properties", "texts", "relations", "computed"}
    /\ Init /\ (part # "types" => rows = {} /\ home = CHOOSE h \in [Cnx -> Instance] : TRUE)
    /\ SyncInit /\ (part # "schema" => stored = {})
    /\ PropInit
    /\ FtiInit /\ (part # "texts" => \A p \in Part : inside[p] = Nowhere)
    /\ RelInit /\ (part # "relations" => relation = "plain")
    /\ ComputedInit /\ (part # "computed" => \A p \in Employee : p \notin Known(cell))

DerivedNext ==
    /\ \/ part = "types" /\ Next
       \/ part # "types" /\ UNCHANGED vars
    /\ \/ part = "schema" /\ SyncNext
       \/ part # "schema" /\ UNCHANGED syncVars
    /\ \/ part = "properties" /\ PropNext
       \/ part # "properties" /\ UNCHANGED propVars
    /\ \/ part = "texts" /\ FtiNext
       \/ part # "texts" /\ UNCHANGED ftiVars
    /\ \/ part = "relations" /\ RelNext
       \/ part # "relations" /\ UNCHANGED relVars
    /\ \/ part = "computed" /\ ComputedNext
       \/ part # "computed" /\ UNCHANGED computedVars
    /\ UNCHANGED part

DerivedSpec ==
    DerivedInit /\ [][DerivedNext]_<<part, vars, syncVars, propVars, ftiVars, relVars,
                                     computedVars>>
================================================================================
