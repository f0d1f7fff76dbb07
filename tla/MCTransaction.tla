----------------------------- MODULE MCTransaction -----------------------------
(* Instances of Transaction for TLC.                                       *)
EXTENDS Transaction, TLC

CONSTANTS n1, n2, l1, s1, s2

\* A normal operation, a late one and two instances of one single-last class.
MixedOp == {n1, l1, s1, s2}
\* Two normal operations and a single-last one.
PlainOp == {n1, n2, s1}

MCKind(ops) == [o \in ops |-> IF o \in {n1, n2} THEN "normal"
                              ELSE IF o = l1 THEN "late" ELSE "last"]
MCClass(ops) == [o \in ops |-> IF o \in {n1, n2} THEN "N"
                               ELSE IF o = l1 THEN "L" ELSE "S"]

MixedKind == MCKind(MixedOp)
MixedClass == MCClass(MixedOp)
PlainKind == MCKind(PlainOp)
PlainClass == MCClass(PlainOp)
================================================================================
