------------------------ MODULE MCUniqueConstraintLock -------------------------
(* An instance of UniqueConstraintLock for TLC.                            *)
EXTENDS UniqueConstraintLock

CONSTANT p

\* One process serves all the connections.
OneHome == [x \in Cnx |-> p]
================================================================================
