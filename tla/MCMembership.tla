----------------------------- MODULE MCMembership -----------------------------
(***************************************************************************)
(* Small instances of Membership for TLC.                                   *)
(***************************************************************************)
EXTENDS Membership, TLC

(* Requests, names but the empty one, usernames and the roles of the start  *)
(* are each interchangeable.                                                *)
Symmetry == Permutations(Requests) \cup Permutations(Names \ {Empty})
               \cup Permutations(FirstRoles) \cup Permutations(Usernames)
=============================================================================
