-------------------------------- MODULE MCUndo ---------------------------------
(* An instance of Undo for TLC.                                            *)
EXTENDS Undo

\* Objects that do not exist at first and have no value are alike; what a deletion
\* records besides the entity is one pair at most, for there is one subject.
UndoSymmetry == Permutations(Cnx) \cup Permutations(Object \ (Existing \cup Valued))
================================================================================
