------------------------- MODULE MCRepositoryShutdown --------------------------
(* Instances of RepositoryShutdown for TLC.                                *)
EXTENDS RepositoryShutdown
================================================================================
