-------------------------- MODULE MCServiceManager --------------------------
(***************************************************************************)
(* Small instances of ServiceManager for TLC.                               *)
(***************************************************************************)
EXTENDS ServiceManager, TLC

(* Requests are interchangeable, and so are names: the initial states and    *)
(* the steps quantify over both.                                             *)
Symmetry == Permutations(Requests) \cup Permutations(Names)
=============================================================================
