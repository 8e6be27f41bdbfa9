------------------------------ MODULE UserTables ------------------------------
(***************************************************************************)
(* What the tables of users and roles promise, with every change of a user  *)
(* one indivisible step: a request asks for a change and it is made as it   *)
(* was asked for, once, or not at all.  A creation gives the user a         *)
(* username of its own and adds the roles it names to those the id was      *)
(* given before; a change of roles replaces all of them, whatever is behind *)
(* the ids; and no two roles have one name.  Membership, whose requests     *)
(* write row by row and overlap, is shown to implement this module.         *)
(***************************************************************************)
CONSTANTS Requests, UserIds, RoleIds, Usernames, Names,
          None    \* no such user or role, no change

VARIABLES
    username,   \* the username of each user, or None
    has,        \* the roles of each id of a user
    roles,      \* the name of each role, or None
    wants       \* the change each request asks for, or None

tables == <<username, has, roles>>
vars == <<tables, wants>>

Users == {u \in UserIds : username[u] # None}

Existing == {i \in RoleIds : roles[i] # None}

(* A change with a username creates the user, the others set its roles.     *)
Changes == [user : UserIds, username : Usernames \cup {None}, ids : SUBSET RoleIds]

Init ==
    /\ username \in [UserIds -> Usernames \cup {None}]
    /\ roles \in [RoleIds -> Names \cup {None}]
    /\ has \in [UserIds -> SUBSET RoleIds]
    /\ \A u, v \in Users : username[u] = username[v] => u = v
    /\ \A i, j \in Existing : roles[i] = roles[j] => i = j
    /\ wants = [r \in Requests |-> None]

Ask(r) ==
    /\ wants[r] = None /\ wants'[r] \in Changes
    /\ wants'[r].username # None => wants'[r].ids \subseteq Existing
    /\ wants' = [wants EXCEPT ![r] = wants'[r]]
    /\ UNCHANGED tables

(* The changes of the requests in R are not made.                           *)
GiveUp(R) ==
    /\ wants' = [r \in Requests |-> IF r \in R THEN None ELSE wants[r]]
    /\ UNCHANGED tables

CreateUser(r) ==
    /\ wants[r] # None /\ wants[r].username # None /\ wants[r].user \notin Users
    /\ wants[r].username \notin {username[v] : v \in Users}
    /\ username' = [username EXCEPT ![wants[r].user] = wants[r].username]
    /\ has' = [has EXCEPT ![wants[r].user] = @ \cup wants[r].ids]
    /\ wants' = [wants EXCEPT ![r] = None]
    /\ UNCHANGED roles

SetRoles(r) ==
    /\ wants[r] # None /\ wants[r].username = None
    /\ has' = [has EXCEPT ![wants[r].user] = wants[r].ids]
    /\ wants' = [wants EXCEPT ![r] = None]
    /\ UNCHANGED <<username, roles>>

(* A role is created, or gets another name.                                 *)
NameRole(i) ==
    /\ UNCHANGED <<username, has, wants>>
    /\ \E name \in Names \ {roles[j] : j \in Existing} :
          roles' = [roles EXCEPT ![i] = name]

Next ==
    \/ \E r \in Requests : Ask(r) \/ CreateUser(r) \/ SetRoles(r)
    \/ \E R \in SUBSET Requests : GiveUp(R)
    \/ \E i \in RoleIds : NameRole(i)

Spec == Init /\ [][Next]_vars
=============================================================================
