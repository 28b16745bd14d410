-------------------------- MODULE MCFilePersistence --------------------------
(***************************************************************************)
(* Instances of the file store for TLC.  A record is two fragments, so     *)
(* MaxSize = 2 rotates after every append and MaxSize = 3 after every      *)
(* second one.                                                             *)
(***************************************************************************)
EXTENDS FilePersistence

One == {"t1"}
Two == {"t1", "t2"}
=============================================================================
