------------------------- MODULE MCResourceDeletion -------------------------
(***************************************************************************)
(* Instances of ResourceDeletion for TLC.                                  *)
(***************************************************************************)
EXTENDS ResourceDeletion
=============================================================================
