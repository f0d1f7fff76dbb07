------------------------- MODULE MCRelationCardinality -------------------------
(* Instances of RelationCardinality for TLC.                               *)
EXTENDS RelationCardinality

\* Compositions, described from the part and from the whole, and an optional link.
UsualCards == {<<"1", "+">>, <<"+", "1">>, <<"*", "?">>}

\* Subjects with at most one object.
OptionalObject == {<<"?", "*">>}

CardinalitySymmetry ==
    Permutations(Cnx) \cup Permutations(Subject) \cup Permutations(Object)
================================================================================
