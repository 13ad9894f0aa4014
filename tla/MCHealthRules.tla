---------------------------- MODULE MCHealthRules ----------------------------
(***************************************************************************)
(* Instances of HealthRules for TLC.                                       *)
(***************************************************************************)
EXTENDS HealthRules
=============================================================================
