---------------------------- MODULE MCHealthCheck ----------------------------
(***************************************************************************)
(* Small instances of HealthCheck for TLC.  The checks differ in the length *)
(* of their names, so they are not interchangeable.                         *)
(***************************************************************************)
EXTENDS HealthCheck
=============================================================================
