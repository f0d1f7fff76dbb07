----------------------------- MODULE MCFileStorage -----------------------------
(* An instance of FileStorage for TLC.                                     *)
EXTENDS FileStorage, TLC

\* The names mkstemp draws and the connections are interchangeable.
FileSymmetry == Permutations(Path \ Imports) \cup Permutations(Cnx)
================================================================================
