------------------------------- MODULE MCListing -------------------------------
(***************************************************************************)
(* Small instances of Listing for TLC.                                      *)
(***************************************************************************)
EXTENDS Listing, TLC

Symmetry == Permutations(Names) \cup Permutations(Slots)
=============================================================================
