------------------------------ MODULE Membership ------------------------------
(***************************************************************************)
(* Users, their roles and the tokens that carry them (identity/             *)
(* membership.go).  CreateUser and UpdateUserRole write the tables          *)
(* userprofiles, accounts and users_roles in a transaction; roles are       *)
(* created and renamed, and tokens are made, in separate calls without one. *)
(* A transaction's writes are seen by others when it commits, and its locks *)
(* make others wait for it, as in InnoDB.  Every call needs a connection of *)
(* the pool (app/init.go), and a transaction keeps the one it began with.   *)
(* The repository has no schema.  users_roles is taken to have no foreign   *)
(* key, for nothing in the code checks the ids in it; usernames and names   *)
(* of roles are taken to be unique.                                         *)
(***************************************************************************)
EXTENDS Naturals, FiniteSets

CONSTANTS
    Requests,     \* the requests; the user or role one inserts has its id
    FirstUser,    \* id of the user that is there at the start
    FirstRoles,   \* ids of the roles that are there at the start
    Usernames,
    Names,        \* names of roles
    Empty,        \* the name that is the empty string: no endpoint refuses it
    None,         \* no such user or role
    MaxNamed,     \* how many roles a request names
    MaxInFlight,  \* how many requests are served at a time
    MaxConns,     \* connections of the pool
    MaxFaults     \* how many calls fail and how often the process dies

UserIds == Requests \cup {FirstUser}
RoleIds == Requests \cup FirstRoles

ASSUME IdsAssumption == FirstUser \notin Requests /\ FirstRoles \cap Requests = {}
(* The roles an id is to have and, for a user that is to be created, its    *)
(* username, or None.                                                       *)
Changes == [user : UserIds, username : Usernames \cup {None}, ids : SUBSET RoleIds]

ASSUME NoneAssumption ==
    None \notin UserIds \cup RoleIds \cup Usernames \cup Names /\ None \notin Changes
ASSUME EmptyAssumption == Empty \in Names
ASSUME BoundsAssumption ==
    /\ MaxInFlight \in Nat /\ MaxFaults \in Nat /\ MaxConns \in Nat \ {0}
    /\ MaxNamed \in Nat \ {0}

Ops == {"create_user", "assign", "create_role", "rename_role", "token"}

\* The calls of CreateUser and UpdateUserRole that are made in a transaction.
TxCalls == {"InsertProfile", "InsertAccount", "FindRoles", "DeleteRoles", "AddRole", "Commit"}

Calls == TxCalls \cup {"Begin", "InsertRole", "FindRole", "UpdateRole",
                       "GetUser", "GetRolesByUser", "GetRole", "Sign"}

Answers == {"200", "refused", "failed", "lost"}

(* op, the operation; user, whom it is about; username and names, what the  *)
(* request names; ids, the roles it is to have; todo, those left to add, or *)
(* names left to look up; got, the roles of the token so far; held and      *)
(* renamesSeen, history: the user's roles that exist and the count of       *)
(* renames when GetRolesByUser read their names.                            *)
Locals == [op : Ops, user : UserIds, username : Usernames \cup {None}, names : SUBSET Names,
           ids : SUBSET RoleIds, todo : SUBSET (RoleIds \cup Names),
           got : SUBSET RoleIds,
           held : SUBSET RoleIds, renamesSeen : Nat]

(* The writes of a transaction that is not committed. *)
Writes == [profile : BOOLEAN, account : Usernames \cup {None},
           clear : BOOLEAN, add : SUBSET RoleIds]

VARIABLES
    profiles,   \* userprofiles: the ids in it
    accounts,   \* accounts: the username of each user, or None
    members,    \* users_roles: pairs of user and role
    roles,      \* roles: the name of each role, or None
    tx,         \* the writes of each request's transaction
    granted,    \* history: the roles committed requests asked for, of each user
    renames,    \* history: how many times a role was renamed
    faults,     \* failed calls and crashes so far
    pc,         \* the call each request makes next, or its answer
    loc         \* the locals of each request

userVars == <<profiles, accounts, members, granted>>
roleVars == <<roles, renames>>
vars == <<userVars, roleVars, tx, faults, pc, loc>>

NoWrites == [profile |-> FALSE, account |-> None, clear |-> FALSE, add |-> {}]

NoLocals == [op |-> "token", user |-> FirstUser, username |-> None, names |-> {},
             ids |-> {}, todo |-> {}, got |-> {}, held |-> {}, renamesSeen |-> 0]

Init ==
    /\ profiles = {FirstUser}
    /\ \E n \in Usernames :
          accounts = [u \in UserIds |-> IF u = FirstUser THEN n ELSE None]
    /\ \E has \in SUBSET FirstRoles :
          /\ members = {FirstUser} \X has
          /\ granted = [u \in UserIds |-> IF u = FirstUser THEN has ELSE {}]
    /\ \E name \in [FirstRoles -> Names] :
          /\ \A i, j \in FirstRoles : name[i] = name[j] => i = j
          /\ roles = [i \in RoleIds |-> IF i \in FirstRoles THEN name[i] ELSE None]
    /\ tx = [r \in Requests |-> NoWrites]
    /\ pc = [r \in Requests |-> "idle"]
    /\ loc = [r \in Requests |-> NoLocals]
    /\ renames = 0 /\ faults = 0

-----------------------------------------------------------------------------
(* Parts of the steps *)

Fault == faults < MaxFaults /\ faults' = faults + 1

Active == {r \in Requests : pc[r] \in Calls}

(* A transaction keeps its connection until it ends, any other call gives   *)
(* it back at once; without a free one a call waits, with no limit of time. *)
InTx == {r \in Requests : pc[r] \in TxCalls}

Free == Cardinality(InTx) < MaxConns

Goto(r, call) == pc' = [pc EXCEPT ![r] = call]

Write(r, w) == tx' = [tx EXCEPT ![r] = w]

(* Slip: a request that fails leaves its transaction open.                  *)
ReturnOpen(r, answer) ==
    /\ Goto(r, answer)
    /\ IF answer = "200" THEN Write(r, NoWrites) ELSE UNCHANGED tx
    /\ loc' = [loc EXCEPT ![r] = NoLocals]

(* The request ends; the deferred Rollback takes the transaction back if it *)
(* was not committed.                                                       *)
Return(r, answer) ==
    /\ Goto(r, answer)
    /\ Write(r, NoWrites)
    /\ loc' = [loc EXCEPT ![r] = NoLocals]

(* A call that changes the database returns an error after all.             *)
ReturnOrFail(r) ==
    \/ Return(r, "200") /\ UNCHANGED faults
    \/ Return(r, "failed") /\ Fault

Fails(r) == Fault /\ Return(r, "failed") /\ UNCHANGED <<userVars, roleVars>>

RolesOf(u) == {i \in RoleIds : <<u, i>> \in members}

Existing == {i \in RoleIds : roles[i] # None}

(* Slips the runs must catch: a lookup without a condition; roles added     *)
(* outside the transaction; names taken for ids; a commit that does not     *)
(* wait for the last role; a deletion of roles outside of the transaction.  *)
DeleteRolesDirectly(r) ==
    /\ pc[r] = "DeleteRoles"
    /\ members' = {m \in members : m[1] # loc[r].user}
    /\ loc' = [loc EXCEPT ![r].todo = loc[r].ids]
    /\ Goto(r, IF loc[r].ids = {} THEN "Commit" ELSE "AddRole")
    /\ UNCHANGED <<profiles, accounts, granted, roleVars, tx, faults>>
AfterRolesEarly(todo) == "Commit"
FoundAny(n) == Existing
AddRoleDirectly(r) ==
    /\ pc[r] = "AddRole"
    /\ \E i \in loc[r].todo :
          /\ members' = members \cup {<<loc[r].user, i>>}
          /\ loc' = [loc EXCEPT ![r].todo = @ \ {i}]
          /\ Goto(r, IF loc[r].todo = {i} THEN "Commit" ELSE "AddRole")
    /\ UNCHANGED <<profiles, accounts, granted, roleVars, tx, faults>>
WantedByName(r) == loc[r].names

(* The role with a name: names are taken to be unique, as the URLs need.    *)
Named(n) == {i \in Existing : roles[i] = n}

(* What GetRoleByName finds and takes the first of: an empty name is no     *)
(* condition of its SELECT, which then has every role, in no order.         *)
Found(n) == IF n = Empty THEN Existing ELSE Named(n)

-----------------------------------------------------------------------------

FirstCall == [create_user |-> "Begin", assign |-> "Begin",
              create_role |-> "InsertRole", rename_role |-> "FindRole",
              token |-> "GetUser"]

(* CreateUser makes its user, a token is for one that logged in.            *)
(* UpdateUserRole is given ids and checks neither the user's nor the roles',*)
(* the others names, which may be empty.                                    *)
Start(r) ==
    /\ pc[r] = "idle"
    /\ Cardinality(Active) < MaxInFlight
    /\ \E op \in Ops, u \in UserIds, username \in Usernames \cup {None},
          names \in SUBSET Names, ids \in SUBSET RoleIds :
          /\ Cardinality(names) <= MaxNamed /\ Cardinality(ids) <= MaxNamed
          /\ op = "create_user" <=> username # None
          /\ op \in {"assign", "token"} => names = {}
          /\ op \in {"create_role", "rename_role"} => Cardinality(names) = 1
          /\ op # "assign" => ids = {}
          /\ op = "token" => u \in profiles
          /\ op \notin {"assign", "token"} => u = FirstUser
          /\ loc' = [loc EXCEPT ![r].op = op, ![r].username = username,
                ![r].user = IF op = "create_user" THEN r ELSE u,
                ![r].names = names, ![r].ids = ids]
          /\ Goto(r, FirstCall[op])
    /\ UNCHANGED <<userVars, roleVars, tx, faults>>

(* An empty or overlong username, display name or password is refused.      *)
Refuse(r) ==
    /\ pc[r] = "idle"
    /\ Return(r, "refused")
    /\ UNCHANGED <<userVars, roleVars, faults>>

Begin(r) ==
    /\ pc[r] = "Begin" /\ Free
    /\ \/ /\ Goto(r, IF loc[r].op = "create_user" THEN "InsertProfile" ELSE "DeleteRoles")
          /\ UNCHANGED <<userVars, roleVars, tx, faults, loc>>
       \/ Fails(r)

-----------------------------------------------------------------------------
(* CreateUser *)

InsertProfile(r) ==
    /\ pc[r] = "InsertProfile"
    /\ \/ /\ Write(r, [tx[r] EXCEPT !.profile = TRUE])
          /\ Goto(r, "InsertAccount")
          /\ UNCHANGED <<userVars, roleVars, faults, loc>>
       \/ Fails(r)

(* usernames are unique; a duplicate of an uncommitted one waits for it,    *)
(* and the wait may end in an error.                                        *)
NameHeld(r) == \E q \in Requests : tx[q].account = loc[r].username

InsertAccount(r) ==
    /\ pc[r] = "InsertAccount"
    /\ \/ /\ ~NameHeld(r) /\ \A u \in UserIds : accounts[u] # loc[r].username
          /\ Write(r, [tx[r] EXCEPT !.account = loc[r].username])
          /\ Goto(r, "FindRoles")
          /\ UNCHANGED <<userVars, roleVars, faults, loc>>
       \/ /\ ~NameHeld(r) /\ \E u \in UserIds : accounts[u] = loc[r].username
          /\ Return(r, "refused")
          /\ UNCHANGED <<userVars, roleVars, faults>>
       \/ Fails(r)

(* The roles of the names of a CreateUser. *)
Wanted(r) == UNION {Named(n) : n \in loc[r].names}

AfterRoles(todo) == IF todo = {} THEN "Commit" ELSE "AddRole"

(* FindRoles reads outside the transaction, on a connection of its own.  A  *)
(* name without a role is an error, and the transaction takes back the      *)
(* roles added before it was met; a failed SELECT is logged and leaves      *)
(* every name without a role.                                               *)
FindRoles(r) ==
    /\ pc[r] = "FindRoles" /\ Free
    /\ \/ /\ \A n \in loc[r].names : Named(n) # {}
          /\ loc' = [loc EXCEPT ![r].ids = Wanted(r), ![r].todo = Wanted(r)]
          /\ Goto(r, AfterRoles(Wanted(r)))
          /\ UNCHANGED <<userVars, roleVars, tx, faults>>
       \/ /\ \E n \in loc[r].names : Named(n) = {}
          /\ Return(r, "refused")
          /\ UNCHANGED <<userVars, roleVars, faults>>
       \/ Fails(r)

(* What a transaction deletes or adds in users_roles locks the rows of the  *)
(* user's id until it ends, and others wait for them; a wait that the       *)
(* database ends as a deadlock is a failed call.                            *)
Holds(r) == tx[r].clear \/ tx[r].add # {}

UserHeld(r) == \E q \in Requests \ {r} : Holds(q) /\ loc[q].user = loc[r].user

DeleteRoles(r) ==
    /\ pc[r] = "DeleteRoles"
    /\ \/ /\ ~UserHeld(r)
          /\ Write(r, [tx[r] EXCEPT !.clear = TRUE])
          /\ loc' = [loc EXCEPT ![r].todo = loc[r].ids]
          /\ Goto(r, AfterRoles(loc[r].ids))
          /\ UNCHANGED <<userVars, roleVars, faults>>
       \/ Fails(r)

AddRole(r) ==
    /\ pc[r] = "AddRole"
    /\ \/ /\ ~UserHeld(r)
          /\ \E i \in loc[r].todo :
                /\ Write(r, [tx[r] EXCEPT !.add = @ \cup {i}])
                /\ loc' = [loc EXCEPT ![r].todo = @ \ {i}]
                /\ Goto(r, AfterRoles(loc[r].todo \ {i}))
          /\ UNCHANGED <<userVars, roleVars, faults>>
       \/ Fails(r)

(* createUserEndpoint then reads the user it made.  If the call returns an  *)
(* error the transaction may have been committed.                           *)
Commit(r) ==
    /\ pc[r] = "Commit"
    /\ \/ /\ profiles' = IF tx[r].profile THEN profiles \cup {loc[r].user} ELSE profiles
          /\ accounts' = IF tx[r].account = None THEN accounts
                         ELSE [accounts EXCEPT ![loc[r].user] = tx[r].account]
          /\ members' = {m \in members : ~(tx[r].clear /\ m[1] = loc[r].user)}
                           \cup {loc[r].user} \X tx[r].add
          /\ granted' = [granted EXCEPT ![loc[r].user] =
                 IF loc[r].op = "create_user" THEN @ \cup loc[r].ids ELSE loc[r].ids]
          /\ \/ /\ loc[r].op = "create_user"
                /\ Goto(r, "GetUser") /\ Write(r, NoWrites)
                /\ UNCHANGED <<faults, loc>>
             \/ loc[r].op = "assign" /\ Return(r, "200") /\ UNCHANGED faults
             \/ Return(r, "failed") /\ Fault
          /\ UNCHANGED roleVars
       \/ Fails(r)

-----------------------------------------------------------------------------
(* CreateRole, roleUpdateEndpoint *)

InsertRole(r) ==
    /\ pc[r] = "InsertRole" /\ Free
    /\ \/ \E n \in loc[r].names :
             \/ /\ Named(n) = {}
                /\ roles' = [roles EXCEPT ![r] = n]
                /\ ReturnOrFail(r)
                /\ UNCHANGED <<userVars, renames>>
             \/ /\ Named(n) # {}
                /\ Return(r, "failed")
                /\ UNCHANGED <<userVars, roleVars, faults>>
       \/ Fails(r)

(* roleUpdateEndpoint reads the role named in the URL; a failed SELECT is   *)
(* logged and finds no role.  The new name is in the body, which may be     *)
(* empty; the URL's is not.                                                 *)
FindRole(r) ==
    /\ pc[r] = "FindRole" /\ Free
    /\ \/ \E old \in Names \ {Empty} :
             \/ /\ Found(old) # {}
                /\ loc' = [loc EXCEPT ![r].todo = {old}]
                /\ Goto(r, "UpdateRole")
                /\ UNCHANGED <<userVars, roleVars, tx, faults>>
             \/ /\ Found(old) = {}
                /\ Return(r, "refused")
                /\ UNCHANGED <<userVars, roleVars, faults>>
       \/ Fails(r)

(* UPDATE ... WHERE name: the role that has the name now.  If there is none *)
(* no row changes, and whether the new name is taken does not matter.       *)
UpdateRole(r) ==
    /\ pc[r] = "UpdateRole" /\ Free
    /\ \/ \E n \in loc[r].names :
             LET found == UNION {Named(old) : old \in loc[r].todo} IN
             \/ /\ found = {} \/ Named(n) \subseteq found
                /\ roles' = [i \in RoleIds |-> IF i \in found THEN n ELSE roles[i]]
                /\ renames' = IF roles' = roles THEN renames ELSE renames + 1
                /\ ReturnOrFail(r)
                /\ UNCHANGED userVars
             \/ /\ ~(Named(n) \subseteq found) /\ found # {}
                /\ Return(r, "failed")
                /\ UNCHANGED <<userVars, roleVars, faults>>
       \/ Fails(r)

-----------------------------------------------------------------------------
(* GetUserByID and GenerateToken *)

GetUser(r) ==
    /\ pc[r] = "GetUser" /\ Free
    /\ \/ /\ loc[r].user \in profiles
          /\ Goto(r, "GetRolesByUser")
          /\ UNCHANGED <<userVars, roleVars, tx, faults, loc>>
       \/ Fails(r)

AfterNames(todo) == IF todo = {} THEN "Sign" ELSE "GetRole"

(* The join gives the names of the user's roles that exist; a failed SELECT *)
(* is logged and gives none.  createUserEndpoint is done then.              *)
Held(u) == RolesOf(u) \cap Existing

GetRolesByUser(r) ==
    /\ pc[r] = "GetRolesByUser" /\ Free
    /\ \/ /\ loc[r].op = "create_user"
          /\ Return(r, "200")
          /\ UNCHANGED <<userVars, roleVars, faults>>
       \/ LET names == {roles[i] : i \in Held(loc[r].user)} IN
             /\ loc[r].op = "token"
             /\ loc' = [loc EXCEPT ![r].todo = names, ![r].renamesSeen = renames,
                                   ![r].held = Held(loc[r].user)]
             /\ Goto(r, AfterNames(names))
             /\ UNCHANGED <<userVars, roleVars, tx, faults>>
       \/ /\ loc[r].op = "token" /\ Fault
          /\ loc' = [loc EXCEPT ![r].todo = {}, ![r].renamesSeen = renames,
                                ![r].held = Held(loc[r].user)]
          /\ Goto(r, AfterNames({}))
          /\ UNCHANGED <<userVars, roleVars, tx>>
       \/ Fails(r)

(* GetRoleByName: no role with the name, or a failed SELECT that is logged, *)
(* gives nil, which stands for no role among those of the token.            *)
GetRole(r) ==
    /\ pc[r] = "GetRole" /\ Free
    /\ \/ \E n \in loc[r].todo :
             /\ \/ /\ \E i \in Found(n) :
                         loc' = [loc EXCEPT ![r].todo = @ \ {n}, ![r].got = @ \cup {i}]
                   /\ UNCHANGED faults
                \/ /\ loc' = [loc EXCEPT ![r].todo = @ \ {n}]
                   /\ (Found(n) = {} /\ UNCHANGED faults) \/ Fault
             /\ Goto(r, AfterNames(loc[r].todo \ {n}))
             /\ UNCHANGED <<userVars, roleVars, tx>>
       \/ Fails(r)

Sign(r) ==
    /\ pc[r] = "Sign"
    /\ Return(r, "200")
    /\ UNCHANGED <<userVars, roleVars, faults>>

(* The process dies and is started again; the database takes back what was  *)
(* not committed.                                                           *)
Crash ==
    /\ Active # {} /\ Fault
    /\ pc' = [r \in Requests |-> IF r \in Active THEN "lost" ELSE pc[r]]
    /\ tx' = [r \in Requests |-> NoWrites]
    /\ loc' = [r \in Requests |-> NoLocals]
    /\ UNCHANGED <<userVars, roleVars>>

Next ==
    \/ \E r \in Requests :
          \/ Start(r) \/ Refuse(r) \/ Begin(r)
          \/ InsertProfile(r) \/ InsertAccount(r) \/ FindRoles(r)
          \/ DeleteRoles(r) \/ AddRole(r) \/ Commit(r)
          \/ InsertRole(r) \/ FindRole(r) \/ UpdateRole(r)
          \/ GetUser(r) \/ GetRolesByUser(r) \/ GetRole(r) \/ Sign(r)
    \/ Crash

Spec == Init /\ [][Next]_vars

-----------------------------------------------------------------------------
(* Properties *)

(* Type invariant: the tables, the open transactions and the locals. *)
TypeOK ==
    /\ profiles \subseteq UserIds
    /\ accounts \in [UserIds -> Usernames \cup {None}]
    /\ members \subseteq UserIds \X RoleIds
    /\ roles \in [RoleIds -> Names \cup {None}]
    /\ tx \in [Requests -> Writes]
    /\ granted \in [UserIds -> SUBSET RoleIds]
    /\ renames \in Nat /\ faults \in Nat
    /\ pc \in [Requests -> {"idle"} \cup Calls \cup Answers]
    /\ loc \in [Requests -> Locals]

(* The three tables agree whatever requests overlap, fail or die: a profile *)
(* has an account and an account a profile, and an id has exactly the roles *)
(* the last committed UpdateUserRole gave it and, if it was created since,  *)
(* those of its creation, never part of what a request asked for (the       *)
(* transactions of membership.go:230-296 and 590-618).                      *)
UsersWhole ==
    /\ \A u \in UserIds : u \in profiles <=> accounts[u] # None
    /\ \A u, v \in profiles : accounts[u] = accounts[v] => u = v
    /\ \A u \in UserIds : RolesOf(u) = granted[u]

(* The token of membership.go:376-391 carries roles the user had when their *)
(* names were read, unless one of them has the empty name, for which any    *)
(* role is found; and, if no call failed, all of the user's with a name.    *)
(* Both only if no role was renamed while GenerateToken looked the names up *)
(* one by one.                                                              *)
WithName(ids) == {i \in ids : roles[i] # Empty}

TokenRolesHeld ==
    \A r \in Requests :
       pc[r] = "Sign" /\ renames = loc[r].renamesSeen =>
          /\ loc[r].held = WithName(loc[r].held) => loc[r].got \subseteq loc[r].held
          /\ faults = 0 => WithName(loc[r].held) \subseteq loc[r].got

(* Creators are the requests that need a second connection in their         *)
(* transaction.  As long as they are fewer than the pool has (app/init.go:  *)
(* 26), requests never all wait for each other, be it for a connection, a   *)
(* username or a user's roles: some request in service can take its step.   *)
Creators == {r \in InTx : loc[r].op = "create_user"}

Waits(r) ==
    \/ pc[r] = "InsertAccount" /\ NameHeld(r)
    \/ pc[r] \in {"DeleteRoles", "AddRole"} /\ UserHeld(r)
    \/ pc[r] \in (Calls \ (TxCalls \cup {"Sign"})) \cup {"FindRoles"} /\ ~Free

NotAllWait ==
    Cardinality(Creators) < MaxConns /\ Active # {} => \E r \in Active : ~Waits(r)

(* The change a transaction has begun to make: CreateUser knows the roles   *)
(* once it has found their names.                                           *)
Wants(r) ==
    IF pc[r] \in {"DeleteRoles", "AddRole", "Commit"}
    THEN [user |-> loc[r].user, username |-> loc[r].username, ids |-> loc[r].ids]
    ELSE None

(* The same tables with every change one step: a user appears with all the  *)
(* roles its creation names or not at all, roles are replaced by those that *)
(* one request names or stay, and another's username or a role's name is    *)
(* never taken (membership.go:230-296 and 590-618, roles.go:157 and 204).   *)
U == INSTANCE UserTables WITH username <- accounts,
                              has <- [u \in UserIds |-> RolesOf(u)],
                              wants <- [r \in Requests |-> Wants(r)]

ImplementsUserTables == U!Spec

(* What makes UsersWhole and TokenRolesHeld inductive, of each request with *)
(* its call, its locals l and its writes w: the transaction has written     *)
(* what was asked for so far; a user or role to be inserted is not there    *)
(* yet; and a token has, or will look up, the roles whose names were read.  *)
WritesFit(call, l, w) ==
    LET create == call \in TxCalls /\ l.op = "create_user"
        assign == call \in TxCalls /\ l.op = "assign"
    IN /\ w.profile <=> create /\ call # "InsertProfile"
       /\ w.account = IF create /\ call \notin {"InsertProfile", "InsertAccount"}
                      THEN l.username ELSE None
       /\ w.clear <=> assign /\ call # "DeleteRoles"
       /\ w.add = IF call \in {"AddRole", "Commit"} THEN l.ids \ l.todo ELSE {}

CallFits(call, l) ==
    /\ l.op = "create_user" => l.ids \subseteq Existing
    /\ call \in {"InsertProfile", "InsertAccount", "FindRoles"} => l.op = "create_user"
    /\ call = "DeleteRoles" => l.op = "assign"
    /\ call \in TxCalls \cup {"Begin"} /\ l.op = "assign" => l.username = None
    /\ call = "Begin" => l.op \in {"create_user", "assign"}
    /\ call \in {"AddRole", "Commit"} =>
          l.op \in {"create_user", "assign"} /\ l.todo \subseteq l.ids
    /\ call = "Commit" => l.todo = {}
    /\ call = "UpdateRole" => \E old \in Names : l.todo = {old}

IdsFit(r, call, l) ==
    /\ call = "idle" => r \notin profiles
    /\ call \in {"idle", "InsertRole"} => roles[r] = None
    /\ call \in TxCalls \cup {"Begin"} /\ l.op = "create_user" =>
          l.user = r /\ r \notin profiles /\ l.username # None

TokenFits(call, l) ==
    /\ call \notin {"GetRole", "Sign"} => l.got = {}
    /\ call \in {"GetRole", "Sign"} =>
          /\ l.held \subseteq Existing /\ l.renamesSeen <= renames
          /\ renames = l.renamesSeen =>
                /\ l.held = WithName(l.held) => l.got \subseteq l.held
                /\ l.todo \subseteq {roles[i] : i \in l.held}
                /\ faults = 0 =>
                      \A i \in WithName(l.held) : i \in l.got \/ roles[i] \in l.todo
    /\ call = "Sign" => l.todo = {}

Fits(r, call, l, w) ==
    WritesFit(call, l, w) /\ CallFits(call, l) /\ IdsFit(r, call, l) /\ TokenFits(call, l)

(* And of the tables: no two users, those of open transactions among them,  *)
(* have one username; no two transactions write the roles of one user; and  *)
(* names of roles are unique.                                               *)
UsernamesFree ==
    \A r \in Requests : tx[r].account # None =>
       /\ \A u \in UserIds : accounts[u] # tx[r].account
       /\ \A q \in Requests \ {r} : tx[q].account # tx[r].account

RowsFree == \A r \in Requests : Holds(r) => ~UserHeld(r)

RolesNamed == \A i, j \in Existing : roles[i] = roles[j] => i = j

Inductive ==
    /\ TypeOK /\ UsersWhole /\ UsernamesFree /\ RowsFree /\ RolesNamed
    /\ \A r \in Requests : Fits(r, pc[r], loc[r], tx[r])
=============================================================================
