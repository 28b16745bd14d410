------------------------ MODULE MCPostgresPersistence ------------------------
(***************************************************************************)
(* Instances of the PostgreSQL store for TLC.                              *)
(***************************************************************************)
EXTENDS PostgresPersistence

MCTasks == {"t1", "t2"}
=============================================================================
