-------------------------- MODULE MCClusterRequests --------------------------
(***************************************************************************)
(* A small instance of ClusterRequests for TLC.                             *)
(***************************************************************************)
EXTENDS ClusterRequests, TLC

Symmetry == Permutations(Requests) \cup Permutations(Tasks) \cup Permutations(Nodes)
=============================================================================
