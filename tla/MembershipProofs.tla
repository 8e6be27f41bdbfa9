--------------------------- MODULE MembershipProofs ---------------------------
(***************************************************************************)
(* Proofs, for every number of requests, roles, faults and overlaps, that   *)
(* the tables of users agree and that a token carries roles its user had.   *)
(***************************************************************************)
EXTENDS Membership, TLAPS

USE IdsAssumption, NoneAssumption, EmptyAssumption, BoundsAssumption

(* What the invariant says of the state and of request r.                   *)
LEMMA Known ==
  ASSUME Inductive, NEW r \in Requests
  PROVE  /\ r \in UserIds /\ r \in RoleIds
         /\ loc[r] \in Locals /\ tx[r] \in Writes
         /\ loc = [loc EXCEPT ![r] = loc[r]] /\ tx = [tx EXCEPT ![r] = tx[r]]
         /\ profiles \subseteq UserIds /\ accounts \in [UserIds -> Usernames \cup {None}]
         /\ members \subseteq UserIds \X RoleIds /\ granted \in [UserIds -> SUBSET RoleIds]
         /\ roles \in [RoleIds -> Names \cup {None}]
         /\ renames \in Nat /\ faults \in Nat
         /\ Fits(r, pc[r], loc[r], tx[r])
<1>1. r \in UserIds /\ r \in RoleIds
  BY DEF UserIds, RoleIds
<1>2. /\ loc[r] \in Locals /\ tx[r] \in Writes
      /\ loc = [loc EXCEPT ![r] = loc[r]] /\ tx = [tx EXCEPT ![r] = tx[r]]
  BY DEF Inductive, TypeOK
<1>. QED  BY <1>1, <1>2 DEF Inductive, TypeOK

(* A request that was answered is in no call, and none of its locals count. *)
LEMMA AnswersApart ==
  /\ TxCalls \subseteq Calls /\ Answers \cap Calls = {} /\ "idle" \notin Calls \cup Answers
  /\ \A a \in Answers : a \notin TxCalls \cup {"Begin", "InsertRole", "UpdateRole", "GetRole", "Sign", "idle"}
  BY DEF TxCalls, Calls, Answers

(* The roles are kept if no role but request r's appears, none goes, and    *)
(* a renamed one is counted.                                                *)
RolesKept(r) ==
    /\ roles' \in [RoleIds -> Names \cup {None}]
    /\ \A i \in RoleIds : roles[i] # None => roles'[i] # None
    /\ \A i \in RoleIds \ {r} : roles[i] = None => roles'[i] = None
    /\ renames' \in Nat /\ renames <= renames'
    /\ renames' = renames => \A i \in RoleIds : roles[i] # None => roles'[i] = roles[i]

(* What fits another request still does after a step of request r.          *)
LEMMA OthersFit ==
  ASSUME Inductive, NEW r \in Requests, NEW q \in Requests \ {r}, RolesKept(r),
         profiles \subseteq profiles', profiles' \subseteq profiles \cup {r},
         faults' \in Nat, faults <= faults',
         pc'[q] = pc[q], loc'[q] = loc[q], tx'[q] = tx[q]
  PROVE  Fits(q, pc[q], loc[q], tx[q])'
<1>1. /\ Fits(q, pc[q], loc[q], tx[q]) /\ loc[q] \in Locals /\ renames \in Nat /\ faults \in Nat
      /\ q \in RoleIds /\ roles \in [RoleIds -> Names \cup {None}]
  BY Known
<1>2. WritesFit(pc[q], loc[q], tx[q])'
  BY <1>1 DEF Fits, WritesFit
<1>3. Existing \subseteq Existing'
  BY DEF Existing, RolesKept
<1>4. CallFits(pc[q], loc[q])'
  BY <1>1, <1>3 DEF Fits, CallFits
<1>5. IdsFit(q, pc[q], loc[q])'
  BY <1>1 DEF Fits, IdsFit, RolesKept
<1>6. TokenFits(pc[q], loc[q])'
  <2>. DEFINE l == loc[q]
  <2>1. CASE pc[q] \in {"GetRole", "Sign"}
    <3>1. /\ l.held \subseteq Existing /\ l.renamesSeen <= renames /\ l.renamesSeen \in Nat
          /\ renames' \in Nat /\ renames <= renames'
      BY <1>1, <2>1 DEF Fits, TokenFits, Locals, RolesKept
    <3>2. ASSUME renames' = l.renamesSeen
          PROVE  /\ renames = l.renamesSeen
                 /\ \A i \in l.held : roles'[i] = roles[i]
                 /\ {i \in l.held : roles'[i] # Empty} = WithName(l.held)
      <4>1. renames = l.renamesSeen /\ \A i \in l.held : roles'[i] = roles[i]
        BY <1>1, <3>1, <3>2 DEF RolesKept, Existing
      <4>. QED  BY <4>1 DEF WithName
    <3>3. ASSUME renames' = l.renamesSeen
          PROVE  /\ l.held = {i \in l.held : roles'[i] # Empty} => l.got \subseteq l.held
                 /\ l.todo \subseteq {roles'[i] : i \in l.held}
                 /\ faults' = 0 => \A i \in {j \in l.held : roles'[j] # Empty} :
                                      i \in l.got \/ roles'[i] \in l.todo
      <4>1. /\ l.held = WithName(l.held) => l.got \subseteq l.held
            /\ l.todo \subseteq {roles[i] : i \in l.held}
            /\ faults = 0 => \A i \in WithName(l.held) : i \in l.got \/ roles[i] \in l.todo
        BY <1>1, <2>1, <3>2, <3>3 DEF Fits, TokenFits
      <4>2. faults' = 0 => faults = 0
        BY <1>1
      <4>. QED  BY <4>1, <4>2, <3>2, <3>3
    <3>4. pc[q] = "Sign" => l.todo = {}
      BY <1>1 DEF Fits, TokenFits
    <3>5. l.held \subseteq Existing' /\ l.renamesSeen <= renames'
      BY <1>1, <1>3, <3>1
    <3>6. l = loc'[q] /\ pc'[q] = pc[q]
      OBVIOUS
    <3>. HIDE DEF l
    <3>. QED  BY <2>1, <3>3, <3>4, <3>5, <3>6 DEF TokenFits, WithName
  <2>2. CASE pc[q] \notin {"GetRole", "Sign"}
    BY <1>1, <2>2 DEF Fits, TokenFits
  <2>. QED  BY <2>1, <2>2
<1>. QED  BY <1>2, <1>4, <1>5, <1>6 DEF Fits

(* A step in which request r makes call c next with locals l and writes w:  *)
(* enough that the tables and what belongs to r are in order afterwards.    *)
LEMMA StepInductive ==
  ASSUME Inductive, NEW r \in Requests, NEW c \in Calls \cup Answers,
         NEW l \in Locals, NEW w \in Writes,
         pc' = [pc EXCEPT ![r] = c], loc' = [loc EXCEPT ![r] = l], tx' = [tx EXCEPT ![r] = w],
         RolesKept(r), faults' \in Nat, faults <= faults',
         profiles \subseteq profiles', profiles' \subseteq profiles \cup {r},
         accounts' \in [UserIds -> Usernames \cup {None}],
         members' \subseteq UserIds \X RoleIds, granted' \in [UserIds -> SUBSET RoleIds],
         UsersWhole', UsernamesFree', RowsFree', RolesNamed',
         Fits(r, pc[r], loc[r], tx[r])'
  PROVE  Inductive'
<1>1. /\ pc \in [Requests -> {"idle"} \cup Calls \cup Answers]
      /\ loc \in [Requests -> Locals] /\ tx \in [Requests -> Writes]
      /\ profiles \subseteq UserIds /\ r \in UserIds
  BY Known DEF Inductive, TypeOK
<1>2. TypeOK'
  BY <1>1 DEF TypeOK, RolesKept
<1>3. ASSUME NEW q \in Requests PROVE Fits(q, pc[q], loc[q], tx[q])'
  <2>1. CASE q = r  BY <2>1
  <2>2. CASE q # r
    <3>1. pc'[q] = pc[q] /\ loc'[q] = loc[q] /\ tx'[q] = tx[q]
      BY <1>1, <2>2
    <3>. QED  BY <2>2, <3>1, OthersFit
  <2>. QED  BY <2>1, <2>2
<1>. QED  BY <1>2, <1>3 DEF Inductive

(* Users' roles are locked once while request r holds none, or those of a   *)
(* user that nobody else holds.                                             *)
LEMMA RowsStay ==
  ASSUME Inductive, NEW r \in Requests, NEW l \in Locals, NEW w \in Writes,
         loc' = [loc EXCEPT ![r] = l], tx' = [tx EXCEPT ![r] = w],
         w.clear \/ w.add # {} => l.user = loc[r].user /\ ~UserHeld(r)
  PROVE  RowsFree'
<1>1. /\ tx'[r] = w /\ loc'[r] = l
      /\ \A q \in Requests \ {r} : tx'[q] = tx[q] /\ loc'[q] = loc[q]
  BY DEF Inductive, TypeOK
<1>2. \A p, q \in Requests : Holds(p) /\ Holds(q) /\ p # q => loc[p].user # loc[q].user
  BY DEF Inductive, RowsFree, UserHeld
<1>3. ASSUME NEW p \in Requests, NEW q \in Requests, Holds(p)', Holds(q)', p # q
      PROVE  loc'[p].user # loc'[q].user
  <2>1. CASE p = r
    BY <1>1, <1>3, <2>1 DEF Holds, UserHeld
  <2>2. CASE q = r
    BY <1>1, <1>3, <2>2 DEF Holds, UserHeld
  <2>3. CASE p # r /\ q # r
    BY <1>1, <1>2, <1>3, <2>3 DEF Holds
  <2>. QED  BY <2>1, <2>2, <2>3
<1>. QED  BY <1>3 DEF RowsFree, UserHeld

(* A step that leaves the tables alone.                                     *)
LEMMA LocalInductive ==
  ASSUME Inductive, NEW r \in Requests, NEW c \in Calls \cup Answers,
         NEW l \in Locals, NEW w \in Writes,
         pc' = [pc EXCEPT ![r] = c], loc' = [loc EXCEPT ![r] = l], tx' = [tx EXCEPT ![r] = w],
         UNCHANGED <<userVars, roleVars>>, faults' \in Nat, faults <= faults',
         w.account # None =>
            /\ \A u \in UserIds : accounts[u] # w.account
            /\ \A q \in Requests \ {r} : tx[q].account # w.account,
         c \in {"AddRole", "Commit"} => l.user = loc[r].user /\ (w = tx[r] \/ ~UserHeld(r)),
         Fits(r, pc[r], loc[r], tx[r])'
  PROVE  Inductive'
<1>1. /\ profiles' = profiles /\ accounts' = accounts /\ members' = members
      /\ granted' = granted /\ roles' = roles /\ renames' = renames
  BY DEF userVars, roleVars
<1>2. RolesKept(r)
  BY <1>1, Known DEF RolesKept
<1>3. UsersWhole' /\ RolesNamed'
  BY <1>1 DEF Inductive, UsersWhole, RolesNamed, RolesOf, Existing
<1>4. UsernamesFree'
  <2>1. UsernamesFree /\ tx \in [Requests -> Writes]
    BY DEF Inductive, TypeOK
  <2>. QED  BY <1>1, <2>1 DEF UsernamesFree
<1>5. RowsFree'
  <2>1. pc'[r] = c /\ loc'[r] = l /\ tx'[r] = w
    BY DEF Inductive, TypeOK
  <2>2. WritesFit(c, l, w) /\ CallFits(c, l)'
    BY <2>1 DEF Fits, WritesFit, CallFits
  <2>3. w.clear \/ w.add # {} => c \in {"AddRole", "Commit"}
    BY <2>2 DEF WritesFit, CallFits, TxCalls, Writes
  <2>4. w = tx[r] /\ (w.clear \/ w.add # {}) => ~UserHeld(r)
    BY DEF Inductive, RowsFree, Holds
  <2>. QED  BY <2>3, <2>4, RowsStay
<1>. QED  BY <1>1, <1>2, <1>3, <1>4, <1>5, StepInductive, Known

(* A request without writes and locals, whatever its answer.                *)
LEMMA ReturnFits ==
  ASSUME Inductive, NEW r \in Requests, NEW a \in Answers, Return(r, a)
  PROVE  /\ pc' = [pc EXCEPT ![r] = a] /\ loc' = [loc EXCEPT ![r] = NoLocals]
         /\ tx' = [tx EXCEPT ![r] = NoWrites]
         /\ NoLocals \in Locals /\ NoWrites \in Writes
         /\ Fits(r, pc[r], loc[r], tx[r])'
<1>1. /\ pc' = [pc EXCEPT ![r] = a] /\ loc' = [loc EXCEPT ![r] = NoLocals]
      /\ tx' = [tx EXCEPT ![r] = NoWrites]
  BY DEF Return, Goto, Write
<1>2. NoLocals \in Locals /\ NoWrites \in Writes
  BY DEF NoLocals, Locals, Ops, UserIds, NoWrites, Writes
<1>3. pc'[r] = a /\ loc'[r] = NoLocals /\ tx'[r] = NoWrites
  BY <1>1 DEF Inductive, TypeOK
<1>4. a \notin TxCalls \cup {"Begin", "InsertRole", "UpdateRole", "GetRole", "Sign", "idle"}
  BY AnswersApart
<1>5. WritesFit(pc[r], loc[r], tx[r])'
  BY <1>3, <1>4 DEF WritesFit, NoWrites, TxCalls
<1>6. CallFits(pc[r], loc[r])'
  BY <1>3, <1>4 DEF CallFits, NoLocals, TxCalls
<1>7. IdsFit(r, pc[r], loc[r])'
  BY <1>3, <1>4 DEF IdsFit
<1>8. TokenFits(pc[r], loc[r])'
  BY <1>3, <1>4 DEF TokenFits, NoLocals
<1>. QED  BY <1>1, <1>2, <1>5, <1>6, <1>7, <1>8 DEF Fits

(* A request that ends and changes no table.                                *)
LEMMA ReturnInductive ==
  ASSUME Inductive, NEW r \in Requests, NEW a \in Answers, Return(r, a),
         UNCHANGED <<userVars, roleVars>>, faults' \in Nat, faults <= faults'
  PROVE  Inductive'
<1>1. a \in Calls \cup Answers /\ NoWrites.account = None /\ a \notin {"AddRole", "Commit"}
  BY AnswersApart DEF NoWrites, TxCalls
<1>. QED  BY <1>1, ReturnFits, LocalInductive

(* A call that fails, and the request with it.                              *)
LEMMA FailsInductive ==
  ASSUME Inductive, NEW r \in Requests, Fails(r) PROVE Inductive'
<1>1. "failed" \in Answers /\ faults \in Nat
  BY Known DEF Answers
<1>2. faults' \in Nat /\ faults <= faults'
  BY <1>1 DEF Fails, Fault
<1>. QED  BY <1>1, <1>2, ReturnInductive DEF Fails

-----------------------------------------------------------------------------
(* Users: each lemma shows that one action keeps the invariant *)

(* A request begins with a call that asks for what its body names.          *)
LEMMA StartInductive ==
  ASSUME Inductive, NEW r \in Requests, Start(r) PROVE Inductive'
<1>1. PICK op \in Ops, u \in UserIds, username \in Usernames \cup {None},
           names \in SUBSET Names, ids \in SUBSET RoleIds :
        /\ Cardinality(names) <= MaxNamed /\ Cardinality(ids) <= MaxNamed
        /\ op = "create_user" <=> username # None
        /\ op \in {"assign", "token"} => names = {}
        /\ op \in {"create_role", "rename_role"} => Cardinality(names) = 1
        /\ op # "assign" => ids = {}
        /\ op = "token" => u \in profiles
        /\ op \notin {"assign", "token"} => u = FirstUser
        /\ loc' = [loc EXCEPT ![r].op = op, ![r].username = username,
              ![r].user = IF op = "create_user" THEN r ELSE u,
              ![r].names = names, ![r].ids = ids]
        /\ Goto(r, FirstCall[op])
  BY DEF Start
<1>2. /\ pc[r] = "idle" /\ r \in UserIds /\ loc[r] \in Locals /\ tx[r] \in Writes
      /\ Fits(r, pc[r], loc[r], tx[r]) /\ faults \in Nat
      /\ UNCHANGED <<userVars, roleVars, tx, faults>>
  BY Known DEF Start
<1>. DEFINE l == [loc[r] EXCEPT !.op = op, !.username = username,
                    !.user = IF op = "create_user" THEN r ELSE u, !.names = names, !.ids = ids]
<1>. DEFINE c == FirstCall[op]
<1>3. l \in Locals
  BY <1>2 DEF Locals
<1>4. /\ l.op = op /\ l.username = username /\ l.user = (IF op = "create_user" THEN r ELSE u)
      /\ l.ids = ids /\ l.got = loc[r].got
  BY <1>2 DEF Locals
<1>5. loc' = [loc EXCEPT ![r] = l]
  BY <1>1, <1>2 DEF Inductive, TypeOK
<1>6. /\ c \in {"Begin", "InsertRole", "FindRole", "GetUser"}
      /\ c = "Begin" <=> op \in {"create_user", "assign"}
  BY DEF FirstCall, Ops
<1>7. c \in Calls /\ c \notin TxCalls
  BY <1>6 DEF Calls, TxCalls
<1>. HIDE DEF l, c
<1>8. pc' = [pc EXCEPT ![r] = c] /\ tx' = [tx EXCEPT ![r] = tx[r]] /\ faults' = faults
  BY <1>1, <1>2, Known DEF Goto, c
<1>9. pc'[r] = c /\ loc'[r] = l /\ tx'[r] = tx[r]
  BY <1>5, <1>8 DEF Inductive, TypeOK
<1>10. /\ tx[r].profile = FALSE /\ tx[r].account = None /\ tx[r].clear = FALSE
       /\ tx[r].add = {} /\ l.got = {} /\ r \notin profiles /\ roles[r] = None
  <2>1. "idle" \notin TxCalls  BY DEF TxCalls
  <2>. QED  BY <1>2, <1>4, <2>1 DEF Fits, WritesFit, IdsFit, TokenFits, Writes
<1>11. WritesFit(pc[r], loc[r], tx[r])'
  BY <1>4, <1>6, <1>7, <1>9, <1>10 DEF WritesFit
<1>12. CallFits(pc[r], loc[r])'
  BY <1>1, <1>4, <1>6, <1>7, <1>9 DEF CallFits
<1>13. IdsFit(r, pc[r], loc[r])'
  BY <1>1, <1>2, <1>4, <1>6, <1>7, <1>9, <1>10 DEF IdsFit, userVars, roleVars
<1>14. TokenFits(pc[r], loc[r])'
  BY <1>6, <1>9, <1>10 DEF TokenFits
<1>15. Fits(r, pc[r], loc[r], tx[r])'
  BY <1>11, <1>12, <1>13, <1>14 DEF Fits
<1>16. UNCHANGED <<userVars, roleVars>> /\ faults' \in Nat /\ faults <= faults'
  BY <1>2
<1>. QED  BY <1>2, <1>3, <1>5, <1>6, <1>7, <1>8, <1>10, <1>15, <1>16, LocalInductive

LEMMA RefuseInductive ==
  ASSUME Inductive, NEW r \in Requests, Refuse(r) PROVE Inductive'
<1>1. "refused" \in Answers /\ faults \in Nat
  BY Known DEF Answers
<1>. QED  BY <1>1, ReturnInductive DEF Refuse

LEMMA BeginInductive ==
  ASSUME Inductive, NEW r \in Requests, Begin(r) PROVE Inductive'
<1>1. CASE Fails(r)  BY <1>1, FailsInductive
<1>. DEFINE c == IF loc[r].op = "create_user" THEN "InsertProfile" ELSE "DeleteRoles"
<1>2. CASE Goto(r, c) /\ UNCHANGED <<userVars, roleVars, tx, faults, loc>>
  <2>1. /\ pc[r] = "Begin" /\ loc[r] \in Locals /\ tx[r] \in Writes /\ faults \in Nat
        /\ Fits(r, pc[r], loc[r], tx[r])
    BY Known DEF Begin
  <2>2. /\ c \in {"InsertProfile", "DeleteRoles"} /\ c \in TxCalls /\ c \in Calls
        /\ "Begin" \notin TxCalls
        /\ c = "InsertProfile" <=> loc[r].op = "create_user"
    BY DEF TxCalls, Calls
  <2>3. /\ pc' = [pc EXCEPT ![r] = c] /\ tx' = [tx EXCEPT ![r] = tx[r]]
        /\ loc' = [loc EXCEPT ![r] = loc[r]]
    BY <1>2, Known DEF Goto
  <2>. HIDE DEF c
  <2>4. pc'[r] = c /\ loc'[r] = loc[r] /\ tx'[r] = tx[r]
    BY <2>3 DEF Inductive, TypeOK
  <2>5. loc[r].op \in {"create_user", "assign"} /\ tx[r].account = None
    BY <2>1, <2>2 DEF Fits, CallFits, WritesFit
  <2>6. WritesFit(pc[r], loc[r], tx[r])'
    BY <2>1, <2>2, <2>4, <2>5 DEF Fits, WritesFit
  <2>7. (CallFits(pc[r], loc[r]) /\ IdsFit(r, pc[r], loc[r]) /\ TokenFits(pc[r], loc[r]))'
    BY <1>2, <2>1, <2>2, <2>4, <2>5
       DEF Fits, CallFits, IdsFit, TokenFits, Existing, userVars, roleVars
  <2>8. Fits(r, pc[r], loc[r], tx[r])'
    BY <2>6, <2>7 DEF Fits
  <2>9. UNCHANGED <<userVars, roleVars>> /\ faults' \in Nat /\ faults <= faults'
    BY <1>2, <2>1
  <2>. QED  BY <2>1, <2>2, <2>3, <2>5, <2>8, <2>9, LocalInductive
<1>. QED  BY <1>1, <1>2 DEF Begin

LEMMA InsertProfileInductive ==
  ASSUME Inductive, NEW r \in Requests, InsertProfile(r) PROVE Inductive'
<1>1. CASE Fails(r)  BY <1>1, FailsInductive
<1>2. CASE /\ Write(r, [tx[r] EXCEPT !.profile = TRUE])
           /\ Goto(r, "InsertAccount")
           /\ UNCHANGED <<userVars, roleVars, faults, loc>>
  <2>. DEFINE w == [tx[r] EXCEPT !.profile = TRUE]
  <2>1. /\ pc[r] = "InsertProfile" /\ loc[r] \in Locals /\ tx[r] \in Writes
        /\ Fits(r, pc[r], loc[r], tx[r]) /\ faults \in Nat
    BY Known DEF InsertProfile
  <2>2. /\ w \in Writes /\ w.profile = TRUE /\ w.account = tx[r].account
        /\ w.clear = tx[r].clear /\ w.add = tx[r].add
    BY <2>1 DEF Writes
  <2>. HIDE DEF w
  <2>3. /\ pc' = [pc EXCEPT ![r] = "InsertAccount"] /\ tx' = [tx EXCEPT ![r] = w]
        /\ loc' = [loc EXCEPT ![r] = loc[r]]
    BY <1>2, Known DEF Goto, Write, w
  <2>4. pc'[r] = "InsertAccount" /\ loc'[r] = loc[r] /\ tx'[r] = w
    BY <2>3 DEF Inductive, TypeOK
  <2>5. {"InsertProfile", "InsertAccount"} \subseteq TxCalls
    BY DEF TxCalls
  <2>6. w.account = None /\ WritesFit(pc[r], loc[r], tx[r])'
    BY <2>1, <2>2, <2>4, <2>5 DEF Fits, WritesFit, CallFits
  <2>7. (CallFits(pc[r], loc[r]) /\ IdsFit(r, pc[r], loc[r]) /\ TokenFits(pc[r], loc[r]))'
    BY <1>2, <2>1, <2>4, <2>5
       DEF Fits, CallFits, IdsFit, TokenFits, Existing, userVars, roleVars
  <2>8. Fits(r, pc[r], loc[r], tx[r])' /\ "InsertAccount" \in Calls
    BY <2>6, <2>7 DEF Fits, Calls, TxCalls
  <2>9. UNCHANGED <<userVars, roleVars>> /\ faults' \in Nat /\ faults <= faults'
    BY <1>2, <2>1
  <2>. QED  BY <2>1, <2>2, <2>3, <2>6, <2>8, <2>9, LocalInductive
<1>. QED  BY <1>1, <1>2 DEF InsertProfile

LEMMA InsertAccountInductive ==
  ASSUME Inductive, NEW r \in Requests, InsertAccount(r) PROVE Inductive'
<1>1. CASE Fails(r)  BY <1>1, FailsInductive
<1>2. CASE Return(r, "refused") /\ UNCHANGED <<userVars, roleVars, faults>>
  <2>1. "refused" \in Answers /\ faults \in Nat
    BY Known DEF Answers
  <2>. QED  BY <1>2, <2>1, ReturnInductive
<1>3. CASE /\ ~NameHeld(r) /\ \A u \in UserIds : accounts[u] # loc[r].username
           /\ Write(r, [tx[r] EXCEPT !.account = loc[r].username])
           /\ Goto(r, "FindRoles")
           /\ UNCHANGED <<userVars, roleVars, faults, loc>>
  <2>. DEFINE w == [tx[r] EXCEPT !.account = loc[r].username]
  <2>1. /\ pc[r] = "InsertAccount" /\ loc[r] \in Locals /\ tx[r] \in Writes
        /\ Fits(r, pc[r], loc[r], tx[r]) /\ faults \in Nat
        /\ \A q \in Requests : tx[q].account # loc[r].username
    BY <1>3, Known DEF InsertAccount, NameHeld
  <2>2. /\ w \in Writes /\ w.profile = tx[r].profile /\ w.account = loc[r].username
        /\ w.clear = tx[r].clear /\ w.add = tx[r].add
    BY <2>1 DEF Writes, Locals
  <2>. HIDE DEF w
  <2>3. /\ pc' = [pc EXCEPT ![r] = "FindRoles"] /\ tx' = [tx EXCEPT ![r] = w]
        /\ loc' = [loc EXCEPT ![r] = loc[r]]
    BY <1>3, Known DEF Goto, Write, w
  <2>4. pc'[r] = "FindRoles" /\ loc'[r] = loc[r] /\ tx'[r] = w
    BY <2>3 DEF Inductive, TypeOK
  <2>5. {"InsertAccount", "FindRoles"} \subseteq TxCalls
    BY DEF TxCalls
  <2>6. WritesFit(pc[r], loc[r], tx[r])'
    BY <2>1, <2>2, <2>4, <2>5 DEF Fits, WritesFit, CallFits
  <2>7. (CallFits(pc[r], loc[r]) /\ IdsFit(r, pc[r], loc[r]) /\ TokenFits(pc[r], loc[r]))'
    BY <1>3, <2>1, <2>4, <2>5
       DEF Fits, CallFits, IdsFit, TokenFits, Existing, userVars, roleVars
  <2>8. Fits(r, pc[r], loc[r], tx[r])' /\ "FindRoles" \in Calls
    BY <2>6, <2>7 DEF Fits, Calls, TxCalls
  <2>9. UNCHANGED <<userVars, roleVars>> /\ faults' \in Nat /\ faults <= faults'
    BY <1>3, <2>1
  <2>10. /\ \A u \in UserIds : accounts[u] # w.account
         /\ \A q \in Requests \ {r} : tx[q].account # w.account
    BY <1>3, <2>1, <2>2
  <2>. QED  BY <2>1, <2>2, <2>3, <2>8, <2>9, <2>10, LocalInductive
<1>. QED  BY <1>1, <1>2, <1>3 DEF InsertAccount
(* After its roles are known a request adds them or, without any, commits.  *)
LEMMA AfterRolesCalls ==
  ASSUME NEW todo PROVE
    /\ AfterRoles(todo) \in {"AddRole", "Commit"} /\ AfterRoles(todo) \in Calls
    /\ AfterRoles(todo) = "Commit" => todo = {}
    /\ {"FindRoles", "DeleteRoles", "AddRole", "Commit"} \subseteq TxCalls
  BY DEF AfterRoles, Calls, TxCalls

LEMMA FindRolesInductive ==
  ASSUME Inductive, NEW r \in Requests, FindRoles(r) PROVE Inductive'
<1>1. CASE Fails(r)  BY <1>1, FailsInductive
<1>2. CASE Return(r, "refused") /\ UNCHANGED <<userVars, roleVars, faults>>
  <2>1. "refused" \in Answers /\ faults \in Nat
    BY Known DEF Answers
  <2>. QED  BY <1>2, <2>1, ReturnInductive
<1>. DEFINE ids == Wanted(r)
<1>3. CASE /\ loc' = [loc EXCEPT ![r].ids = ids, ![r].todo = ids]
           /\ Goto(r, AfterRoles(ids))
           /\ UNCHANGED <<userVars, roleVars, tx, faults>>
  <2>. DEFINE l == [loc[r] EXCEPT !.ids = ids, !.todo = ids]  c == AfterRoles(ids)
  <2>1. /\ pc[r] = "FindRoles" /\ loc[r] \in Locals /\ tx[r] \in Writes
        /\ Fits(r, pc[r], loc[r], tx[r]) /\ faults \in Nat
        /\ tx' = [tx EXCEPT ![r] = tx[r]]
    BY <1>3, Known DEF FindRoles
  <2>2. ids \subseteq Existing /\ ids \subseteq RoleIds
    BY DEF Wanted, Named, Existing
  <2>3. /\ l \in Locals /\ l.op = loc[r].op /\ l.user = loc[r].user
        /\ l.username = loc[r].username /\ l.ids = ids /\ l.todo = ids /\ l.got = loc[r].got
    BY <2>1, <2>2 DEF Locals
  <2>4. loc' = [loc EXCEPT ![r] = l] /\ pc' = [pc EXCEPT ![r] = c]
    BY <1>3 DEF Goto, Inductive, TypeOK
  <2>. HIDE DEF ids
  <2>5. c \in {"AddRole", "Commit"} /\ c \in Calls /\ c \in TxCalls /\ (c = "Commit" => ids = {})
    BY AfterRolesCalls
  <2>. HIDE DEF l, c
  <2>6. pc'[r] = c /\ loc'[r] = l /\ tx'[r] = tx[r]
    BY <2>1, <2>4 DEF Inductive, TypeOK
  <2>7. pc[r] \in TxCalls
    BY <2>1, AfterRolesCalls
  <2>8. WritesFit(pc[r], loc[r], tx[r])'
    BY <2>1, <2>3, <2>5, <2>6, <2>7 DEF Fits, WritesFit, CallFits
  <2>9. (CallFits(pc[r], loc[r]) /\ IdsFit(r, pc[r], loc[r]) /\ TokenFits(pc[r], loc[r]))'
    BY <1>3, <2>1, <2>2, <2>3, <2>5, <2>6, <2>7
       DEF Fits, CallFits, IdsFit, TokenFits, Existing, userVars, roleVars
  <2>10. Fits(r, pc[r], loc[r], tx[r])'
    BY <2>8, <2>9 DEF Fits
  <2>11. UNCHANGED <<userVars, roleVars>> /\ faults' \in Nat /\ faults <= faults'
    BY <1>3, <2>1
  <2>12. tx[r].account # None =>
            /\ \A u \in UserIds : accounts[u] # tx[r].account
            /\ \A q \in Requests \ {r} : tx[q].account # tx[r].account
    BY DEF Inductive, UsernamesFree
  <2>. QED  BY <2>1, <2>3, <2>4, <2>5, <2>10, <2>11, <2>12, LocalInductive
<1>. QED  BY <1>1, <1>2, <1>3 DEF FindRoles

LEMMA DeleteRolesInductive ==
  ASSUME Inductive, NEW r \in Requests, DeleteRoles(r) PROVE Inductive'
<1>1. CASE Fails(r)  BY <1>1, FailsInductive
<1>. DEFINE ids == loc[r].ids
<1>2. CASE /\ ~UserHeld(r)
           /\ Write(r, [tx[r] EXCEPT !.clear = TRUE])
           /\ loc' = [loc EXCEPT ![r].todo = ids]
           /\ Goto(r, AfterRoles(ids))
           /\ UNCHANGED <<userVars, roleVars, faults>>
  <2>. DEFINE l == [loc[r] EXCEPT !.todo = ids]  c == AfterRoles(ids)
              w == [tx[r] EXCEPT !.clear = TRUE]
  <2>1. /\ pc[r] = "DeleteRoles" /\ loc[r] \in Locals /\ tx[r] \in Writes
        /\ Fits(r, pc[r], loc[r], tx[r]) /\ faults \in Nat
    BY Known DEF DeleteRoles
  <2>2. /\ w \in Writes /\ w.profile = tx[r].profile /\ w.account = tx[r].account
        /\ w.clear = TRUE /\ w.add = tx[r].add
    BY <2>1 DEF Writes
  <2>3. /\ l \in Locals /\ l.op = loc[r].op /\ l.user = loc[r].user
        /\ l.username = loc[r].username /\ l.ids = ids /\ l.todo = ids /\ l.got = loc[r].got
    BY <2>1 DEF Locals
  <2>4. /\ loc' = [loc EXCEPT ![r] = l] /\ pc' = [pc EXCEPT ![r] = c]
        /\ tx' = [tx EXCEPT ![r] = w]
    BY <1>2 DEF Goto, Write, Inductive, TypeOK
  <2>5. c \in {"AddRole", "Commit"} /\ c \in Calls /\ c \in TxCalls /\ (c = "Commit" => ids = {})
    BY AfterRolesCalls
  <2>. HIDE DEF l, c, w
  <2>6. pc'[r] = c /\ loc'[r] = l /\ tx'[r] = w
    BY <2>4 DEF Inductive, TypeOK
  <2>7. pc[r] \in TxCalls
    BY <2>1, AfterRolesCalls
  <2>8. w.account = None /\ WritesFit(pc[r], loc[r], tx[r])'
    BY <2>1, <2>2, <2>3, <2>5, <2>6, <2>7 DEF Fits, WritesFit, CallFits
  <2>9. (CallFits(pc[r], loc[r]) /\ IdsFit(r, pc[r], loc[r]) /\ TokenFits(pc[r], loc[r]))'
    BY <1>2, <2>1, <2>3, <2>5, <2>6, <2>7
       DEF Fits, CallFits, IdsFit, TokenFits, Existing, userVars, roleVars
  <2>10. Fits(r, pc[r], loc[r], tx[r])'
    BY <2>8, <2>9 DEF Fits
  <2>11. UNCHANGED <<userVars, roleVars>> /\ faults' \in Nat /\ faults <= faults'
    BY <1>2, <2>1
  <2>. QED  BY <1>2, <2>2, <2>3, <2>4, <2>5, <2>8, <2>10, <2>11, LocalInductive
<1>. QED  BY <1>1, <1>2 DEF DeleteRoles

LEMMA AddRoleInductive ==
  ASSUME Inductive, NEW r \in Requests, AddRole(r) PROVE Inductive'
<1>1. CASE Fails(r)  BY <1>1, FailsInductive
<1>2. ASSUME ~UserHeld(r), NEW i \in loc[r].todo,
             Write(r, [tx[r] EXCEPT !.add = @ \cup {i}]),
             loc' = [loc EXCEPT ![r].todo = @ \ {i}],
             Goto(r, AfterRoles(loc[r].todo \ {i})),
             UNCHANGED <<userVars, roleVars, faults>>
      PROVE  Inductive'
  <2>. DEFINE todo == loc[r].todo \ {i}
  <2>. DEFINE l == [loc[r] EXCEPT !.todo = todo]  c == AfterRoles(todo)
              w == [tx[r] EXCEPT !.add = @ \cup {i}]
  <2>1. /\ pc[r] = "AddRole" /\ loc[r] \in Locals /\ tx[r] \in Writes
        /\ Fits(r, pc[r], loc[r], tx[r]) /\ faults \in Nat
    BY Known DEF AddRole
  <2>2. pc[r] \in TxCalls
    BY <2>1, AfterRolesCalls
  <2>3. /\ loc[r].todo \subseteq loc[r].ids /\ loc[r].ids \subseteq RoleIds
        /\ tx[r].add = loc[r].ids \ loc[r].todo
    BY <2>1, <2>2 DEF Fits, CallFits, WritesFit, Locals
  <2>4. /\ w \in Writes /\ w.profile = tx[r].profile /\ w.account = tx[r].account
        /\ w.clear = tx[r].clear /\ w.add = tx[r].add \cup {i}
    BY <2>1, <2>3 DEF Writes
  <2>5. /\ l \in Locals /\ l.op = loc[r].op /\ l.user = loc[r].user
        /\ l.username = loc[r].username /\ l.ids = loc[r].ids /\ l.todo = todo
        /\ l.got = loc[r].got
    BY <2>1 DEF Locals
  <2>6. /\ loc' = [loc EXCEPT ![r] = l] /\ pc' = [pc EXCEPT ![r] = c]
        /\ tx' = [tx EXCEPT ![r] = w]
    BY <1>2 DEF Goto, Write, Inductive, TypeOK
  <2>7. c \in {"AddRole", "Commit"} /\ c \in Calls /\ c \in TxCalls /\ (c = "Commit" => todo = {})
    BY AfterRolesCalls
  <2>8. w.add = l.ids \ l.todo
    BY <2>3, <2>4, <2>5
  <2>. HIDE DEF l, c, w
  <2>9. pc'[r] = c /\ loc'[r] = l /\ tx'[r] = w
    BY <2>6 DEF Inductive, TypeOK
  <2>10. WritesFit(pc[r], loc[r], tx[r])'
    BY <2>1, <2>2, <2>4, <2>5, <2>7, <2>8, <2>9 DEF Fits, WritesFit, CallFits
  <2>11. (CallFits(pc[r], loc[r]) /\ IdsFit(r, pc[r], loc[r]) /\ TokenFits(pc[r], loc[r]))'
    BY <1>2, <2>1, <2>2, <2>3, <2>5, <2>7, <2>9
       DEF Fits, CallFits, IdsFit, TokenFits, Existing, userVars, roleVars
  <2>12. Fits(r, pc[r], loc[r], tx[r])'
    BY <2>10, <2>11 DEF Fits
  <2>13. UNCHANGED <<userVars, roleVars>> /\ faults' \in Nat /\ faults <= faults'
    BY <1>2, <2>1
  <2>14. w.account # None =>
            /\ \A u \in UserIds : accounts[u] # w.account
            /\ \A q \in Requests \ {r} : tx[q].account # w.account
    BY <2>4 DEF Inductive, UsernamesFree
  <2>. QED  BY <1>2, <2>4, <2>5, <2>6, <2>7, <2>12, <2>13, <2>14, LocalInductive
<1>. QED  BY <1>1, <1>2 DEF AddRole
(* The tables after a commit: the user of the request is whole.             *)
LEMMA CommitTables ==
  ASSUME Inductive, NEW r \in Requests, pc[r] = "Commit",
         profiles' = IF tx[r].profile THEN profiles \cup {loc[r].user} ELSE profiles,
         accounts' = IF tx[r].account = None THEN accounts
                     ELSE [accounts EXCEPT ![loc[r].user] = tx[r].account],
         members' = {m \in members : ~(tx[r].clear /\ m[1] = loc[r].user)}
                       \cup {loc[r].user} \X tx[r].add,
         granted' = [granted EXCEPT ![loc[r].user] =
                       IF loc[r].op = "create_user" THEN @ \cup loc[r].ids ELSE loc[r].ids],
         tx' = [tx EXCEPT ![r] = NoWrites], UNCHANGED roleVars
  PROVE  /\ profiles \subseteq profiles' /\ profiles' \subseteq profiles \cup {r}
         /\ accounts' \in [UserIds -> Usernames \cup {None}]
         /\ members' \subseteq UserIds \X RoleIds /\ granted' \in [UserIds -> SUBSET RoleIds]
         /\ UsersWhole' /\ UsernamesFree' /\ RolesNamed'
<1>. DEFINE l == loc[r]  w == tx[r]
<1>1. /\ l \in Locals /\ w \in Writes /\ Fits(r, pc[r], l, w) /\ r \in UserIds
      /\ profiles \subseteq UserIds /\ accounts \in [UserIds -> Usernames \cup {None}]
      /\ members \subseteq UserIds \X RoleIds /\ granted \in [UserIds -> SUBSET RoleIds]
      /\ UsersWhole /\ UsernamesFree /\ RolesNamed
  BY Known DEF Inductive
<1>2. l.user \in UserIds /\ l.ids \subseteq RoleIds /\ l.username \in Usernames \cup {None}
  BY <1>1 DEF Locals
<1>3. pc[r] \in TxCalls
  BY AfterRolesCalls
<1>4. w.add = l.ids /\ l.op \in {"create_user", "assign"}
  BY <1>1, <1>3 DEF Fits, CallFits, WritesFit
<1>5. CASE l.op = "create_user"
  <2>1. /\ w.profile /\ ~w.clear /\ w.account = l.username /\ l.username # None
        /\ l.user = r /\ r \notin profiles
    BY <1>1, <1>3, <1>5 DEF Fits, WritesFit, IdsFit
  <2>2. /\ profiles' = profiles \cup {r} /\ accounts' = [accounts EXCEPT ![r] = l.username]
        /\ granted' = [granted EXCEPT ![r] = granted[r] \cup l.ids]
    BY <1>5, <2>1
  <2>3. members' = members \cup {r} \X l.ids
    BY <1>4, <2>1
  <2>5. \A u \in UserIds : RolesOf(u)' = granted'[u]
    <3>1. RolesOf(r)' = RolesOf(r) \cup l.ids
      BY <1>2, <2>3 DEF RolesOf
    <3>2. ASSUME NEW u \in UserIds \ {r} PROVE RolesOf(u)' = RolesOf(u)
      BY <2>3 DEF RolesOf
    <3>. QED  BY <1>1, <2>2, <3>1, <3>2 DEF UsersWhole
  <2>6. \A u \in UserIds : u \in profiles' <=> accounts'[u] # None
    BY <1>1, <2>1, <2>2 DEF UsersWhole
  <2>7. \A u \in UserIds : accounts[u] # l.username
    BY <1>1, <2>1 DEF UsernamesFree
  <2>8. \A u, v \in profiles' : accounts'[u] = accounts'[v] => u = v
    BY <1>1, <2>2, <2>7 DEF UsersWhole
  <2>9. UsersWhole'
    BY <2>5, <2>6, <2>8 DEF UsersWhole
  <2>10. UsernamesFree'
    <3>1. tx'[r].account = None /\ \A q \in Requests \ {r} : tx'[q] = tx[q]
      BY <1>1 DEF NoWrites, Inductive, TypeOK
    <3>2. \A q \in Requests \ {r} : tx[q].account # None => tx[q].account # l.username
      BY <1>1, <2>1 DEF UsernamesFree
    <3>. QED  BY <1>1, <2>2, <3>1, <3>2 DEF UsernamesFree
  <2>11. RolesNamed'
    BY <1>1 DEF RolesNamed, Existing, roleVars
  <2>. QED  BY <1>1, <1>2, <2>2, <2>3, <2>9, <2>10, <2>11
<1>6. CASE l.op = "assign"
  <2>1. ~w.profile /\ w.clear /\ w.account = None
    BY <1>1, <1>3, <1>6 DEF Fits, WritesFit
  <2>2. /\ profiles' = profiles /\ accounts' = accounts
        /\ granted' = [granted EXCEPT ![l.user] = l.ids]
        /\ members' = {m \in members : m[1] # l.user} \cup {l.user} \X l.ids
    BY <1>4, <1>6, <2>1
  <2>3. \A u \in UserIds : RolesOf(u)' = granted'[u]
    <3>1. PICK v \in UserIds : v = l.user
      BY <1>2
    <3>2. RolesOf(v)' = l.ids
      BY <1>2, <2>2, <3>1 DEF RolesOf
    <3>3. ASSUME NEW u \in UserIds \ {v} PROVE RolesOf(u)' = RolesOf(u)
      BY <2>2, <3>1 DEF RolesOf
    <3>. QED  BY <1>1, <1>2, <2>2, <3>1, <3>2, <3>3 DEF UsersWhole
  <2>4. UsersWhole'
    BY <1>1, <2>2, <2>3 DEF UsersWhole
  <2>5. UsernamesFree'
    <3>1. tx'[r].account = None /\ \A q \in Requests \ {r} : tx'[q] = tx[q]
      BY <1>1 DEF NoWrites, Inductive, TypeOK
    <3>. QED  BY <1>1, <2>2, <3>1 DEF UsernamesFree
  <2>6. RolesNamed'
    BY <1>1 DEF RolesNamed, Existing, roleVars
  <2>. QED  BY <1>1, <1>2, <2>2, <2>4, <2>5, <2>6
<1>. QED  BY <1>4, <1>5, <1>6

LEMMA CommitInductive ==
  ASSUME Inductive, NEW r \in Requests, Commit(r) PROVE Inductive'
<1>1. CASE Fails(r)  BY <1>1, FailsInductive
<1>2. CASE /\ profiles' = IF tx[r].profile THEN profiles \cup {loc[r].user} ELSE profiles
           /\ accounts' = IF tx[r].account = None THEN accounts
                          ELSE [accounts EXCEPT ![loc[r].user] = tx[r].account]
           /\ members' = {m \in members : ~(tx[r].clear /\ m[1] = loc[r].user)}
                            \cup {loc[r].user} \X tx[r].add
           /\ granted' = [granted EXCEPT ![loc[r].user] =
                  IF loc[r].op = "create_user" THEN @ \cup loc[r].ids ELSE loc[r].ids]
           /\ \/ /\ loc[r].op = "create_user"
                 /\ Goto(r, "GetUser") /\ Write(r, NoWrites)
                 /\ UNCHANGED <<faults, loc>>
              \/ loc[r].op = "assign" /\ Return(r, "200") /\ UNCHANGED faults
              \/ Return(r, "failed") /\ Fault
           /\ UNCHANGED roleVars
  <2>1. /\ pc[r] = "Commit" /\ faults \in Nat /\ loc[r] \in Locals
        /\ Fits(r, pc[r], loc[r], tx[r]) /\ loc = [loc EXCEPT ![r] = loc[r]]
    BY Known DEF Commit
  <2>2. tx' = [tx EXCEPT ![r] = NoWrites] /\ NoWrites \in Writes
    BY <1>2 DEF Return, Write, NoWrites, Writes
  <2>3. /\ profiles \subseteq profiles' /\ profiles' \subseteq profiles \cup {r}
        /\ accounts' \in [UserIds -> Usernames \cup {None}]
        /\ members' \subseteq UserIds \X RoleIds /\ granted' \in [UserIds -> SUBSET RoleIds]
        /\ UsersWhole' /\ UsernamesFree' /\ RolesNamed'
    BY <1>2, <2>1, <2>2, CommitTables
  <2>10. ASSUME NEW l \in Locals, loc' = [loc EXCEPT ![r] = l] PROVE RowsFree'
    BY <2>2, <2>10, RowsStay DEF NoWrites
  <2>4. RolesKept(r)
    BY <1>2, Known DEF RolesKept, roleVars
  <2>5. ASSUME NEW a \in Answers, Return(r, a), faults' \in Nat, faults <= faults'
        PROVE  Inductive'
    <3>1. a \in Calls \cup Answers
      OBVIOUS
    <3>. QED  BY <2>2, <2>3, <2>4, <2>5, <2>10, <3>1, ReturnFits, StepInductive
  <2>6. CASE Goto(r, "GetUser") /\ UNCHANGED <<faults, loc>>
    <3>1. /\ pc' = [pc EXCEPT ![r] = "GetUser"] /\ loc' = [loc EXCEPT ![r] = loc[r]]
          /\ faults' \in Nat /\ faults <= faults'
      BY <2>1, <2>6 DEF Goto
    <3>2. pc'[r] = "GetUser" /\ loc'[r] = loc[r] /\ tx'[r] = NoWrites
      BY <2>2, <3>1 DEF Inductive, TypeOK
    <3>3. "GetUser" \notin TxCalls /\ "GetUser" \in Calls \cup Answers
      BY DEF TxCalls, Calls
    <3>4. WritesFit(pc[r], loc[r], tx[r])'
      BY <3>2, <3>3 DEF WritesFit, NoWrites
    <3>5. (CallFits(pc[r], loc[r]) /\ IdsFit(r, pc[r], loc[r]) /\ TokenFits(pc[r], loc[r]))'
      BY <1>2, <2>1, <3>2, <3>3
         DEF Fits, CallFits, IdsFit, TokenFits, Existing, roleVars
    <3>6. Fits(r, pc[r], loc[r], tx[r])'
      BY <3>4, <3>5 DEF Fits
    <3>. QED  BY <2>1, <2>2, <2>3, <2>4, <2>10, <3>1, <3>3, <3>6, StepInductive
  <2>7. {"200", "failed"} \subseteq Answers
    BY DEF Answers
  <2>8. CASE Return(r, "200") /\ UNCHANGED faults
    BY <2>1, <2>5, <2>7, <2>8
  <2>9. CASE Return(r, "failed") /\ Fault
    <3>1. faults' \in Nat /\ faults <= faults'
      BY <2>1, <2>9 DEF Fault
    <3>. QED  BY <2>5, <2>7, <2>9, <3>1
  <2>. QED  BY <1>2, <2>6, <2>8, <2>9
<1>. QED  BY <1>1, <1>2 DEF Commit

-----------------------------------------------------------------------------
(* Roles *)

(* A request that ends after it has changed the roles.                      *)
LEMMA RolesInductive ==
  ASSUME Inductive, NEW r \in Requests, ReturnOrFail(r), UNCHANGED userVars, RolesKept(r),
         \A i, j \in RoleIds : roles'[i] = roles'[j] /\ roles'[i] # None => i = j
  PROVE  Inductive'
<1>1. PICK a \in {"200", "failed"} : Return(r, a)
  BY DEF ReturnOrFail
<1>2. a \in Answers /\ a \in Calls \cup Answers
  BY DEF Answers
<1>3. faults' \in Nat /\ faults <= faults'
  BY Known DEF ReturnOrFail, Fault
<1>4. /\ UsersWhole /\ UsernamesFree /\ RolesNamed /\ tx \in [Requests -> Writes]
      /\ profiles' = profiles /\ accounts' = accounts /\ members' = members
      /\ granted' = granted
      /\ accounts \in [UserIds -> Usernames \cup {None}]
      /\ members \subseteq UserIds \X RoleIds /\ granted \in [UserIds -> SUBSET RoleIds]
  BY DEF Inductive, TypeOK, userVars
<1>5. UsersWhole'
  BY <1>4 DEF UsersWhole, RolesOf
<1>6. UsernamesFree'
  <2>1. tx' = [tx EXCEPT ![r] = NoWrites]
    BY <1>1, <1>2, ReturnFits
  <2>2. tx'[r].account = None /\ \A q \in Requests \ {r} : tx'[q] = tx[q]
    BY <1>4, <2>1 DEF NoWrites
  <2>. QED  BY <1>4, <2>2 DEF UsernamesFree
<1>7. RolesNamed'
  <2>1. Existing \subseteq Existing'
    BY DEF Existing, RolesKept
  <2>2. \A i, j \in Existing' : roles'[i] = roles'[j] => i = j
    BY DEF Existing
  <2>. QED  BY <1>4, <2>1, <2>2 DEF RolesNamed
<1>8. RowsFree'
  BY <1>1, <1>2, ReturnFits, RowsStay DEF NoWrites
<1>. QED  BY <1>1, <1>2, <1>3, <1>4, <1>5, <1>6, <1>7, <1>8, ReturnFits, StepInductive

LEMMA InsertRoleInductive ==
  ASSUME Inductive, NEW r \in Requests, InsertRole(r) PROVE Inductive'
<1>1. CASE Fails(r)  BY <1>1, FailsInductive
<1>2. CASE Return(r, "failed") /\ UNCHANGED <<userVars, roleVars, faults>>
  <2>1. "failed" \in Answers /\ faults \in Nat
    BY Known DEF Answers
  <2>. QED  BY <1>2, <2>1, ReturnInductive
<1>3. ASSUME NEW n \in loc[r].names, Named(n) = {}, roles' = [roles EXCEPT ![r] = n],
             ReturnOrFail(r), UNCHANGED <<userVars, renames>>
      PROVE  Inductive'
  <2>1. /\ pc[r] = "InsertRole" /\ n \in Names /\ r \in RoleIds /\ renames \in Nat
        /\ roles \in [RoleIds -> Names \cup {None}] /\ RolesNamed
        /\ Fits(r, pc[r], loc[r], tx[r])
    BY Known DEF InsertRole, Inductive, Locals
  <2>2. roles[r] = None
    BY <2>1 DEF Fits, IdsFit
  <2>3. RolesKept(r)
    BY <1>3, <2>1, <2>2 DEF RolesKept
  <2>4. ASSUME NEW i \in RoleIds, NEW j \in RoleIds, roles'[i] = roles'[j], roles'[i] # None
        PROVE  i = j
    BY <1>3, <2>1, <2>4 DEF RolesNamed, Existing, Named
  <2>. QED  BY <1>3, <2>3, <2>4, RolesInductive
<1>. QED  BY <1>1, <1>2, <1>3 DEF InsertRole

LEMMA FindRoleInductive ==
  ASSUME Inductive, NEW r \in Requests, FindRole(r) PROVE Inductive'
<1>1. CASE Fails(r)  BY <1>1, FailsInductive
<1>2. CASE Return(r, "refused") /\ UNCHANGED <<userVars, roleVars, faults>>
  <2>1. "refused" \in Answers /\ faults \in Nat
    BY Known DEF Answers
  <2>. QED  BY <1>2, <2>1, ReturnInductive
<1>3. ASSUME NEW old \in Names, loc' = [loc EXCEPT ![r].todo = {old}],
             Goto(r, "UpdateRole"), UNCHANGED <<userVars, roleVars, tx, faults>>
      PROVE  Inductive'
  <2>. DEFINE l == [loc[r] EXCEPT !.todo = {old}]
  <2>1. /\ pc[r] = "FindRole" /\ loc[r] \in Locals /\ tx[r] \in Writes /\ faults \in Nat
        /\ Fits(r, pc[r], loc[r], tx[r]) /\ tx' = [tx EXCEPT ![r] = tx[r]]
    BY <1>3, Known DEF FindRole
  <2>2. l \in Locals /\ l.ids = loc[r].ids /\ l.todo = {old} /\ l.got = loc[r].got
    BY <2>1 DEF Locals
  <2>3. loc' = [loc EXCEPT ![r] = l] /\ pc' = [pc EXCEPT ![r] = "UpdateRole"]
    BY <1>3 DEF Goto, Inductive, TypeOK
  <2>. HIDE DEF l
  <2>4. pc'[r] = "UpdateRole" /\ loc'[r] = l /\ tx'[r] = tx[r]
    BY <2>1, <2>3 DEF Inductive, TypeOK
  <2>5. {"FindRole", "UpdateRole"} \cap TxCalls = {} /\ "UpdateRole" \in Calls \cup Answers
    BY DEF TxCalls, Calls
  <2>6. tx[r].account = None /\ WritesFit(pc[r], loc[r], tx[r])'
    BY <2>1, <2>4, <2>5 DEF Fits, WritesFit
  <2>7. (CallFits(pc[r], loc[r]) /\ IdsFit(r, pc[r], loc[r]) /\ TokenFits(pc[r], loc[r]))'
    BY <1>3, <2>1, <2>2, <2>4, <2>5
       DEF Fits, CallFits, IdsFit, TokenFits, Existing, roleVars
  <2>8. Fits(r, pc[r], loc[r], tx[r])'
    BY <2>6, <2>7 DEF Fits
  <2>9. UNCHANGED <<userVars, roleVars>> /\ faults' \in Nat /\ faults <= faults'
    BY <1>3, <2>1
  <2>. QED  BY <2>1, <2>2, <2>3, <2>5, <2>6, <2>8, <2>9, LocalInductive
<1>. QED  BY <1>1, <1>2, <1>3 DEF FindRole

LEMMA UpdateRoleInductive ==
  ASSUME Inductive, NEW r \in Requests, UpdateRole(r) PROVE Inductive'
<1>1. CASE Fails(r)  BY <1>1, FailsInductive
<1>2. CASE Return(r, "failed") /\ UNCHANGED <<userVars, roleVars, faults>>
  <2>1. "failed" \in Answers /\ faults \in Nat
    BY Known DEF Answers
  <2>. QED  BY <1>2, <2>1, ReturnInductive
<1>. DEFINE found == UNION {Named(old) : old \in loc[r].todo}
<1>3. ASSUME NEW n \in loc[r].names, found = {} \/ Named(n) \subseteq found,
             roles' = [i \in RoleIds |-> IF i \in found THEN n ELSE roles[i]],
             renames' = IF roles' = roles THEN renames ELSE renames + 1,
             ReturnOrFail(r), UNCHANGED userVars
      PROVE  Inductive'
  <2>1. /\ pc[r] = "UpdateRole" /\ n \in Names /\ n # None /\ renames \in Nat
        /\ roles \in [RoleIds -> Names \cup {None}] /\ RolesNamed
        /\ Fits(r, pc[r], loc[r], tx[r])
    BY Known DEF UpdateRole, Inductive, Locals
  <2>2. PICK old \in Names : found = Named(old)
    BY <2>1 DEF Fits, CallFits
  <2>3. found \subseteq Existing /\ \A i, j \in found : i = j
    BY <2>1, <2>2 DEF Named, RolesNamed
  <2>4. RolesKept(r)
    BY <1>3, <2>1, <2>3 DEF RolesKept, Existing
  <2>5. ASSUME NEW i \in RoleIds, NEW j \in RoleIds, roles'[i] = roles'[j], roles'[i] # None
        PROVE  i = j
    <3>1. CASE found = {}
      BY <1>3, <2>1, <2>5, <3>1 DEF RolesNamed, Existing
    <3>2. CASE Named(n) \subseteq found
      <4>1. \A k \in RoleIds : roles[k] = n => k \in found
        BY <2>1, <3>2 DEF Named, Existing
      <4>. QED  BY <1>3, <2>1, <2>3, <2>5, <4>1 DEF RolesNamed, Existing
    <3>. QED  BY <1>3, <3>1, <3>2
  <2>. QED  BY <1>3, <2>4, <2>5, RolesInductive
<1>. QED  BY <1>1, <1>2, <1>3 DEF UpdateRole
-----------------------------------------------------------------------------
(* Tokens *)

(* A step outside of a transaction, to a call that asks only that the token *)
(* fits.                                                                    *)
LEMMA TokenStepInductive ==
  ASSUME Inductive, NEW r \in Requests,
         NEW c \in {"GetRolesByUser", "GetRole", "Sign"}, NEW l \in Locals,
         pc[r] \in {"GetUser", "GetRolesByUser", "GetRole"},
         pc' = [pc EXCEPT ![r] = c], loc' = [loc EXCEPT ![r] = l],
         l.ids = loc[r].ids, l.op = loc[r].op,
         UNCHANGED <<userVars, roleVars>>, tx' = tx, faults' \in Nat, faults <= faults',
         TokenFits(pc[r], loc[r])'
  PROVE  Inductive'
<1>1. /\ tx[r] \in Writes /\ Fits(r, pc[r], loc[r], tx[r]) /\ tx' = [tx EXCEPT ![r] = tx[r]]
  BY Known
<1>2. pc'[r] = c /\ loc'[r] = l /\ tx'[r] = tx[r]
  BY <1>1 DEF Inductive, TypeOK
<1>3. {"GetUser", "GetRolesByUser", "GetRole", "Sign"} \cap TxCalls = {} /\ c \in Calls \cup Answers
  BY DEF TxCalls, Calls
<1>4. tx[r].account = None /\ WritesFit(pc[r], loc[r], tx[r])'
  BY <1>1, <1>2, <1>3 DEF Fits, WritesFit
<1>5. (CallFits(pc[r], loc[r]) /\ IdsFit(r, pc[r], loc[r]))'
  BY <1>1, <1>2, <1>3 DEF Fits, CallFits, IdsFit, Existing, roleVars
<1>6. Fits(r, pc[r], loc[r], tx[r])'
  BY <1>4, <1>5 DEF Fits
<1>. QED  BY <1>1, <1>3, <1>4, <1>6, LocalInductive

LEMMA GetUserInductive ==
  ASSUME Inductive, NEW r \in Requests, GetUser(r) PROVE Inductive'
<1>1. CASE Fails(r)  BY <1>1, FailsInductive
<1>2. CASE Goto(r, "GetRolesByUser") /\ UNCHANGED <<userVars, roleVars, tx, faults, loc>>
  <2>1. /\ pc[r] = "GetUser" /\ loc[r] \in Locals /\ faults \in Nat
        /\ Fits(r, pc[r], loc[r], tx[r]) /\ loc' = [loc EXCEPT ![r] = loc[r]]
    BY <1>2, Known DEF GetUser
  <2>2. pc' = [pc EXCEPT ![r] = "GetRolesByUser"] /\ pc'[r] = "GetRolesByUser" /\ loc' = loc
    BY <1>2 DEF Goto, Inductive, TypeOK
  <2>3. TokenFits(pc[r], loc[r])'
    BY <2>1, <2>2 DEF Fits, TokenFits
  <2>4. UNCHANGED <<userVars, roleVars>> /\ tx' = tx /\ faults' \in Nat /\ faults <= faults'
    BY <1>2, <2>1
  <2>. QED  BY <2>1, <2>2, <2>3, <2>4, TokenStepInductive
<1>. QED  BY <1>1, <1>2 DEF GetUser

LEMMA GetRolesByUserInductive ==
  ASSUME Inductive, NEW r \in Requests, GetRolesByUser(r) PROVE Inductive'
<1>1. CASE Fails(r)  BY <1>1, FailsInductive
<1>2. CASE Return(r, "200") /\ UNCHANGED <<userVars, roleVars, faults>>
  <2>1. "200" \in Answers /\ faults \in Nat
    BY Known DEF Answers
  <2>. QED  BY <1>2, <2>1, ReturnInductive
<1>. DEFINE held == Held(loc[r].user)  names == {roles[i] : i \in held}
<1>3. ASSUME NEW todo \in {names, {}}, faults' = 0 => todo = names,
             loc' = [loc EXCEPT ![r].todo = todo, ![r].renamesSeen = renames, ![r].held = held],
             Goto(r, AfterNames(todo)), UNCHANGED <<userVars, roleVars, tx>>,
             faults' \in Nat, faults <= faults'
      PROVE  Inductive'
  <2>. DEFINE l == [loc[r] EXCEPT !.todo = todo, !.renamesSeen = renames, !.held = held]
              c == AfterNames(todo)
  <2>1. /\ pc[r] = "GetRolesByUser" /\ loc[r] \in Locals /\ renames \in Nat
        /\ Fits(r, pc[r], loc[r], tx[r]) /\ roles \in [RoleIds -> Names \cup {None}]
    BY Known DEF GetRolesByUser
  <2>2. held \subseteq Existing
    BY DEF Held
  <2>3. /\ todo \subseteq {roles[i] : i \in held} /\ todo \subseteq Names /\ held \subseteq RoleIds
        /\ faults' = 0 => \A i \in held : roles[i] \in todo
    BY <1>3, <2>1, <2>2 DEF Existing
  <2>4. /\ l \in Locals /\ l.ids = loc[r].ids /\ l.op = loc[r].op
        /\ l.todo = todo /\ l.got = loc[r].got
        /\ l.held = held /\ l.renamesSeen = renames
    BY <2>1, <2>3 DEF Locals
  <2>5. loc' = [loc EXCEPT ![r] = l] /\ pc' = [pc EXCEPT ![r] = c]
    BY <1>3 DEF Goto, Inductive, TypeOK
  <2>6. c \in {"GetRole", "Sign"} /\ (c = "Sign" => todo = {})
    BY DEF AfterNames
  <2>7. l.got = {}
    BY <2>1, <2>4 DEF Fits, TokenFits
  <2>. HIDE DEF l, c, names, held
  <2>8. pc'[r] = c /\ loc'[r] = l /\ roles' = roles /\ renames' = renames
    BY <1>3, <2>5 DEF Inductive, TypeOK, roleVars
  <2>9. Existing' = Existing
    BY <2>8 DEF Existing
  <2>10. TokenFits(pc[r], loc[r])'
    BY <2>1, <2>2, <2>3, <2>4, <2>6, <2>7, <2>8, <2>9 DEF TokenFits, WithName
  <2>11. UNCHANGED <<userVars, roleVars>> /\ tx' = tx
    BY <1>3
  <2>. QED  BY <1>3, <2>1, <2>4, <2>5, <2>6, <2>10, <2>11, TokenStepInductive
<1>4. CASE /\ loc' = [loc EXCEPT ![r].todo = names,
                                 ![r].renamesSeen = renames, ![r].held = held]
           /\ Goto(r, AfterNames(names))
           /\ UNCHANGED <<userVars, roleVars, tx, faults>>
  <2>. HIDE DEF names, held
  <2>1. UNCHANGED <<userVars, roleVars, tx>> /\ faults' \in Nat /\ faults <= faults'
    BY <1>4, Known
  <2>. QED  BY <1>3, <1>4, <2>1
<1>5. CASE /\ Fault
           /\ loc' = [loc EXCEPT ![r].todo = {}, ![r].renamesSeen = renames, ![r].held = held]
           /\ Goto(r, AfterNames({}))
           /\ UNCHANGED <<userVars, roleVars, tx>>
  <2>1. faults' \in Nat /\ faults <= faults' /\ faults' # 0
    BY <1>5, Known DEF Fault
  <2>. HIDE DEF names, held
  <2>. QED  BY <1>3, <1>5, <2>1
<1>. QED  BY <1>1, <1>2, <1>4, <1>5 DEF GetRolesByUser

(* The first role found for the name of a role the user holds: that role,   *)
(* unless the name is empty; none if a call failed.                         *)
LEMMA GetRoleInductive ==
  ASSUME Inductive, NEW r \in Requests, GetRole(r) PROVE Inductive'
<1>1. CASE Fails(r)  BY <1>1, FailsInductive
<1>2. ASSUME NEW n \in loc[r].todo, NEW more \in SUBSET Found(n),
             faults' = 0 => more # {} \/ Found(n) = {},
             loc' = [loc EXCEPT ![r].todo = @ \ {n}, ![r].got = @ \cup more],
             Goto(r, AfterNames(loc[r].todo \ {n})), UNCHANGED <<userVars, roleVars, tx>>,
             faults' \in Nat, faults <= faults'
      PROVE  Inductive'
  <2>. DEFINE todo == loc[r].todo \ {n}  got == loc[r].got \cup more  held == loc[r].held
  <2>. DEFINE l == [loc[r] EXCEPT !.todo = todo, !.got = got]  c == AfterNames(todo)
  <2>1. /\ pc[r] = "GetRole" /\ loc[r] \in Locals /\ renames \in Nat /\ faults \in Nat
        /\ Fits(r, pc[r], loc[r], tx[r]) /\ RolesNamed
    BY Known DEF GetRole, Inductive
  <2>2. more \subseteq RoleIds /\ Existing \subseteq RoleIds
    BY DEF Found, Named, Existing
  <2>3. /\ l \in Locals /\ l.ids = loc[r].ids /\ l.op = loc[r].op /\ l.todo = todo
        /\ l.got = got /\ l.held = held /\ l.renamesSeen = loc[r].renamesSeen
    BY <2>1, <2>2 DEF Locals
  <2>4. loc' = [loc EXCEPT ![r] = l] /\ pc' = [pc EXCEPT ![r] = c]
    BY <1>2 DEF Goto, Inductive, TypeOK
  <2>5. c \in {"GetRole", "Sign"} /\ (c = "Sign" => todo = {})
    BY DEF AfterNames
  <2>6. held \subseteq Existing /\ loc[r].renamesSeen <= renames
    BY <2>1 DEF Fits, TokenFits
  <2>7. ASSUME renames = loc[r].renamesSeen
        PROVE  /\ held = WithName(held) => got \subseteq held
               /\ todo \subseteq {roles[i] : i \in held}
               /\ faults' = 0 => \A i \in WithName(held) : i \in got \/ roles[i] \in todo
    <3>1. /\ held = WithName(held) => loc[r].got \subseteq held
          /\ loc[r].todo \subseteq {roles[i] : i \in held}
          /\ faults = 0 => \A i \in WithName(held) : i \in loc[r].got \/ roles[i] \in loc[r].todo
      BY <2>1, <2>7 DEF Fits, TokenFits
    <3>2. PICK k \in held : roles[k] = n
      BY <3>1
    <3>3. n # Empty => Found(n) = {k}
      BY <2>1, <2>6, <3>2 DEF Found, Named, RolesNamed
    <3>4. held = WithName(held) => n # Empty
      BY <3>2 DEF WithName
    <3>5. ASSUME faults' = 0, NEW i \in WithName(held) PROVE i \in got \/ roles[i] \in todo
      <4>1. faults = 0 /\ i \in held /\ roles[i] # Empty
        BY <1>2, <2>1, <3>5 DEF WithName
      <4>2. CASE roles[i] = n
        <5>1. i = k
          BY <2>1, <2>6, <3>2, <4>1, <4>2 DEF RolesNamed
        <5>. QED  BY <1>2, <3>3, <3>5, <4>1, <4>2, <5>1
      <4>3. CASE roles[i] # n
        BY <3>1, <3>5, <4>1, <4>3
      <4>. QED  BY <4>2, <4>3
    <3>. QED  BY <3>1, <3>2, <3>3, <3>4, <3>5
  <2>. HIDE DEF l, c, held
  <2>8. pc'[r] = c /\ loc'[r] = l /\ roles' = roles /\ renames' = renames
    BY <1>2, <2>4 DEF Inductive, TypeOK, roleVars
  <2>9. Existing' = Existing /\ \A ids : WithName(ids)' = WithName(ids)
    BY <2>8 DEF Existing, WithName
  <2>10. TokenFits(pc[r], loc[r])'
    BY <2>3, <2>5, <2>6, <2>7, <2>8, <2>9 DEF TokenFits, WithName
  <2>11. UNCHANGED <<userVars, roleVars>> /\ tx' = tx
    BY <1>2
  <2>. QED  BY <1>2, <2>1, <2>3, <2>4, <2>5, <2>10, <2>11, TokenStepInductive
<1>3. ASSUME NEW n \in loc[r].todo, NEW i \in Found(n),
             loc' = [loc EXCEPT ![r].todo = @ \ {n}, ![r].got = @ \cup {i}],
             Goto(r, AfterNames(loc[r].todo \ {n})), UNCHANGED <<userVars, roleVars, tx, faults>>
      PROVE  Inductive'
  <2>1. /\ UNCHANGED <<userVars, roleVars, tx>> /\ faults' \in Nat /\ faults <= faults'
        /\ {i} \in SUBSET Found(n) /\ {i} # {}
    BY <1>3, Known
  <2>. QED  BY <1>2, <1>3, <2>1
<1>4. ASSUME NEW n \in loc[r].todo, loc' = [loc EXCEPT ![r].todo = @ \ {n}],
             (Found(n) = {} /\ UNCHANGED faults) \/ Fault,
             Goto(r, AfterNames(loc[r].todo \ {n})), UNCHANGED <<userVars, roleVars, tx>>
      PROVE  Inductive'
  <2>1. loc' = [loc EXCEPT ![r].todo = @ \ {n}, ![r].got = @ \cup {}]
    <3>1. loc[r] \in Locals /\ loc \in [Requests -> Locals]
      BY DEF Inductive, TypeOK
    <3>2. [loc[r] EXCEPT !.todo = @ \ {n}] = [loc[r] EXCEPT !.todo = @ \ {n}, !.got = @ \cup {}]
      BY <3>1 DEF Locals
    <3>. QED  BY <1>4, <3>1, <3>2
  <2>2. /\ faults' \in Nat /\ faults <= faults' /\ (faults' = 0 => Found(n) = {})
        /\ {} \in SUBSET Found(n)
    BY <1>4, Known DEF Fault
  <2>. QED  BY <1>2, <1>4, <2>1, <2>2
<1>. QED  BY <1>1, <1>3, <1>4 DEF GetRole

LEMMA SignInductive ==
  ASSUME Inductive, NEW r \in Requests, Sign(r) PROVE Inductive'
<1>1. "200" \in Answers /\ faults \in Nat
  BY Known DEF Answers
<1>. QED  BY <1>1, ReturnInductive DEF Sign
-----------------------------------------------------------------------------
(* The theorems *)

(* The user and the roles of the start are whole, and no request has begun. *)
LEMMA InitInductive == Init => Inductive
<1>. SUFFICES ASSUME Init PROVE Inductive
  OBVIOUS
<1>1. PICK n \in Usernames : accounts = [u \in UserIds |-> IF u = FirstUser THEN n ELSE None]
  BY DEF Init
<1>2. PICK has \in SUBSET FirstRoles :
         /\ members = {FirstUser} \X has
         /\ granted = [u \in UserIds |-> IF u = FirstUser THEN has ELSE {}]
  BY DEF Init
<1>3. PICK name \in [FirstRoles -> Names] :
         /\ \A i, j \in FirstRoles : name[i] = name[j] => i = j
         /\ roles = [i \in RoleIds |-> IF i \in FirstRoles THEN name[i] ELSE None]
  BY DEF Init
<1>4. /\ profiles = {FirstUser} /\ tx = [r \in Requests |-> NoWrites]
      /\ pc = [r \in Requests |-> "idle"] /\ loc = [r \in Requests |-> NoLocals]
      /\ renames = 0 /\ faults = 0
  BY DEF Init
<1>5. FirstUser \in UserIds /\ FirstRoles \subseteq RoleIds /\ Requests \subseteq RoleIds
  BY DEF UserIds, RoleIds
<1>6. NoLocals \in Locals /\ NoWrites \in Writes
  BY DEF NoLocals, Locals, Ops, UserIds, NoWrites, Writes
<1>7. TypeOK
  BY <1>1, <1>2, <1>3, <1>4, <1>5, <1>6 DEF TypeOK
<1>8. Existing = FirstRoles /\ FirstRoles \cap Requests = {} /\ FirstUser \notin Requests
  BY <1>3, <1>5 DEF Existing
<1>9. UsersWhole
  BY <1>1, <1>2, <1>4, <1>5 DEF UsersWhole, RolesOf
<1>10. UsernamesFree
  BY <1>4 DEF UsernamesFree, NoWrites
<1>11. RowsFree /\ RolesNamed
  BY <1>3, <1>4, <1>5, <1>8 DEF RowsFree, Holds, NoWrites, RolesNamed
<1>12. ASSUME NEW r \in Requests PROVE Fits(r, pc[r], loc[r], tx[r])
  <2>1. pc[r] = "idle" /\ loc[r] = NoLocals /\ tx[r] = NoWrites /\ roles[r] = None
    BY <1>3, <1>4, <1>5, <1>8
  <2>2. "idle" \notin TxCalls
    BY DEF TxCalls
  <2>. QED  BY <1>4, <1>8, <2>1, <2>2
            DEF Fits, WritesFit, CallFits, IdsFit, TokenFits, NoWrites, NoLocals
<1>. QED  BY <1>7, <1>9, <1>10, <1>11, <1>12 DEF Inductive

(* A crash ends the requests in flight and their transactions.              *)
LEMMA CrashInductive == ASSUME Inductive, Crash PROVE Inductive'
<1>1. /\ profiles' = profiles /\ accounts' = accounts /\ members' = members
      /\ granted' = granted /\ roles' = roles /\ renames' = renames
      /\ faults \in Nat /\ faults' = faults + 1 /\ TypeOK
  BY DEF Crash, Fault, userVars, roleVars, Inductive, TypeOK
<1>2. ASSUME NEW r \in Requests
      PROVE  /\ tx'[r] = NoWrites /\ loc'[r] = NoLocals /\ pc'[r] \in {pc[r], "lost"}
             /\ pc'[r] \notin Calls
  BY <1>1 DEF Crash, Active, Calls, TxCalls, TypeOK
<1>3. NoLocals \in Locals /\ NoWrites \in Writes /\ "lost" \in Answers
  BY DEF NoLocals, Locals, Ops, UserIds, NoWrites, Writes, Answers
<1>4. TypeOK'
  BY <1>1, <1>3 DEF TypeOK, Crash
<1>5. UsersWhole' /\ RolesNamed'
  BY <1>1 DEF Inductive, UsersWhole, RolesNamed, RolesOf, Existing
<1>6. UsernamesFree' /\ RowsFree'
  BY <1>2 DEF UsernamesFree, RowsFree, Holds, NoWrites
<1>7. ASSUME NEW r \in Requests PROVE Fits(r, pc[r], loc[r], tx[r])'
  <2>1. /\ pc'[r] \notin TxCalls
        /\ pc'[r] \notin {"Begin", "InsertRole", "UpdateRole", "GetRole", "Sign"}
    BY <1>2 DEF Calls
  <2>2. pc'[r] = "idle" => r \notin profiles /\ roles[r] = None
    BY <1>2, Known DEF Fits, IdsFit
  <2>3. WritesFit(pc[r], loc[r], tx[r])'
    BY <1>2, <2>1 DEF WritesFit, NoWrites, TxCalls
  <2>4. CallFits(pc[r], loc[r])'
    BY <1>2, <2>1 DEF CallFits, NoLocals, TxCalls
  <2>5. (IdsFit(r, pc[r], loc[r]) /\ TokenFits(pc[r], loc[r]))'
    BY <1>1, <1>2, <2>1, <2>2 DEF IdsFit, TokenFits, NoLocals
  <2>. QED  BY <2>3, <2>4, <2>5 DEF Fits
<1>. QED  BY <1>4, <1>5, <1>6, <1>7 DEF Inductive

(* Every step keeps the invariant.                                          *)
LEMMA NextInductive == Inductive /\ [Next]_vars => Inductive'
<1>. SUFFICES ASSUME Inductive, [Next]_vars PROVE Inductive'
  OBVIOUS
<1>1. CASE UNCHANGED vars
  <2>1. /\ profiles' = profiles /\ accounts' = accounts /\ members' = members
        /\ granted' = granted /\ roles' = roles /\ renames' = renames
        /\ tx' = tx /\ faults' = faults /\ pc' = pc /\ loc' = loc
    BY <1>1 DEF vars, userVars, roleVars
  <2>2. TypeOK' /\ UsersWhole' /\ UsernamesFree' /\ RowsFree' /\ RolesNamed'
    BY <2>1 DEF Inductive, TypeOK, UsersWhole, UsernamesFree, RowsFree, Holds, UserHeld,
                RolesNamed, RolesOf, Existing
  <2>3. ASSUME NEW r \in Requests PROVE Fits(r, pc[r], loc[r], tx[r])'
    BY <2>1, Known DEF Fits, WritesFit, CallFits, IdsFit, TokenFits, Existing, WithName
  <2>. QED  BY <2>2, <2>3 DEF Inductive
<1>. QED
  BY <1>1, StartInductive, RefuseInductive, BeginInductive, InsertProfileInductive,
     InsertAccountInductive, FindRolesInductive, DeleteRolesInductive, AddRoleInductive, CommitInductive,
     InsertRoleInductive, FindRoleInductive, UpdateRoleInductive, GetUserInductive,
     GetRolesByUserInductive, GetRoleInductive, SignInductive, CrashInductive
  DEF Next

(* The invariant itself: the tables are whole, and each open transaction has *)
(* written what its request asked for, no more.                             *)
THEOREM InductiveAlways == Spec => []Inductive
  BY InitInductive, NextInductive, PTL DEF Spec

(* The tables, the open transactions and the locals keep their shapes.      *)
THEOREM TypeCorrect == Spec => []TypeOK
<1>1. Inductive => TypeOK  BY DEF Inductive
<1>. QED  BY <1>1, InitInductive, NextInductive, PTL DEF Spec

(* Whatever requests overlap, fail or die: profiles and accounts agree,     *)
(* usernames are unique, and an id has the roles of its last change and of  *)
(* its creation since, whether it was there when they were given or not.    *)
THEOREM Whole == Spec => []UsersWhole
<1>1. Inductive => UsersWhole  BY DEF Inductive
<1>. QED  BY <1>1, InitInductive, NextInductive, PTL DEF Spec

(* Unless a role was renamed while the token was made: a token carries only *)
(* roles the user had, if none of them has the empty name, and all with a   *)
(* name if no call failed.                                                  *)
THEOREM TokenHeld == Spec => []TokenRolesHeld
<1>1. Inductive => TokenRolesHeld
  <2>1. ASSUME Inductive, NEW r \in Requests, pc[r] = "Sign", renames = loc[r].renamesSeen
        PROVE  /\ loc[r].held = WithName(loc[r].held) => loc[r].got \subseteq loc[r].held
               /\ faults = 0 => WithName(loc[r].held) \subseteq loc[r].got
    BY <2>1, Known DEF Fits, TokenFits
  <2>. QED  BY <2>1 DEF TokenRolesHeld
<1>. QED  BY <1>1, InitInductive, NextInductive, PTL DEF Spec

-----------------------------------------------------------------------------
(* Waiting *)

(* A transaction that holds a username or a user's roles is past the call   *)
(* that took them.                                                          *)
LEMMA HoldersPast ==
  ASSUME Inductive, NEW q \in Requests
  PROVE  /\ tx[q].account # None => pc[q] \in {"FindRoles", "AddRole", "Commit"}
         /\ tx[q].clear \/ tx[q].add # {} => pc[q] \in {"AddRole", "Commit"}
         /\ pc[q] \in TxCalls => loc[q].op \in {"create_user", "assign"}
         /\ pc[q] \in TxCalls /\ loc[q].op = "assign" =>
               pc[q] \in {"DeleteRoles", "AddRole", "Commit"}
<1>1. Fits(q, pc[q], loc[q], tx[q]) /\ tx[q] \in Writes
  BY Known
<1>. QED  BY <1>1 DEF Fits, WritesFit, CallFits, TxCalls

(* Who holds a user's roles does not wait, and so one who waits for them    *)
(* does not stop everyone.                                                  *)
LEMMA HolderMoves ==
  ASSUME Inductive, NEW r \in Requests, Holds(r) \/ UserHeld(r)
  PROVE  \E q \in Active : ~Waits(q)
<1>1. PICK q \in Requests : Holds(q)
  BY DEF UserHeld
<1>2. pc[q] \in {"AddRole", "Commit"} /\ ~UserHeld(q)
  BY <1>1, HoldersPast DEF Holds, Inductive, RowsFree
<1>3. q \in Active /\ ~Waits(q)
  BY <1>2 DEF Waits, Active, Calls, TxCalls
<1>. QED  BY <1>3

(* While a connection is free, a request in service goes on, or the one     *)
(* that holds what it waits for, or the one which that one waits for.       *)
LEMMA SomeoneMoves ==
  ASSUME Inductive, Free, NEW r \in Active
  PROVE  \E q \in Active : ~Waits(q)
<1>1. r \in Requests /\ pc[r] \in Calls /\ loc[r].username \in Usernames \cup {None}
  BY Known DEF Active, Locals
<1>2. ASSUME NEW q \in Requests, pc[q] \in {"FindRoles", "AddRole", "Commit"}
      PROVE  \E p \in Active : ~Waits(p)
  <2>1. CASE UserHeld(q)
    BY <2>1, HolderMoves
  <2>2. CASE ~UserHeld(q)
    <3>1. q \in Active /\ ~Waits(q)
      BY <1>2, <2>2 DEF Waits, Active, Calls, TxCalls
    <3>. QED  BY <3>1
  <2>. QED  BY <2>1, <2>2
<1>3. CASE pc[r] = "InsertAccount" /\ NameHeld(r)
  <2>1. PICK q \in Requests : tx[q].account = loc[r].username
    BY <1>3 DEF NameHeld
  <2>2. loc[r].username # None
    <3>1. Fits(r, pc[r], loc[r], tx[r]) /\ "InsertAccount" \in TxCalls
      BY <1>1, Known DEF TxCalls
    <3>. QED  BY <1>3, <3>1 DEF Fits, CallFits, IdsFit
  <2>. QED  BY <1>2, <2>1, <2>2, HoldersPast
<1>4. CASE UserHeld(r)
  BY <1>1, <1>4, HolderMoves
<1>5. CASE ~Waits(r)
  BY <1>5
<1>. QED  BY <1>3, <1>4, <1>5 DEF Waits

(* If no connection is free, one of them is not a CreateUser's: its request, *)
(* or the one it waits for, can go on.                                      *)
LEMMA InductiveMoves == Inductive => NotAllWait
<1>. SUFFICES ASSUME Inductive, Cardinality(Creators) < MaxConns, Active # {}
              PROVE  \E q \in Active : ~Waits(q)
  BY DEF NotAllWait
<1>1. CASE Free
  BY <1>1, SomeoneMoves
<1>2. CASE ~Free
  <2>1. Creators # InTx
    BY <1>2 DEF Free
  <2>2. PICK r \in Requests : pc[r] \in TxCalls /\ loc[r].op # "create_user"
    BY <2>1 DEF Creators, InTx
  <2>3. pc[r] \in {"DeleteRoles", "AddRole", "Commit"}
    BY <2>2, HoldersPast
  <2>4. CASE UserHeld(r)
    BY <2>4, HolderMoves
  <2>5. CASE ~UserHeld(r)
    <3>1. r \in Active /\ ~Waits(r)
      BY <2>3, <2>5 DEF Waits, Active, Calls, TxCalls
    <3>. QED  BY <3>1
  <2>. QED  BY <2>4, <2>5
<1>. QED  BY <1>1, <1>2

(* Whatever the number of requests and of connections: while fewer          *)
(* CreateUsers are in their transactions than the pool has connections,     *)
(* requests do not all wait for each other.                                 *)
THEOREM NoDeadlock == Spec => []NotAllWait
  BY InductiveMoves, InitInductive, NextInductive, PTL DEF Spec

-----------------------------------------------------------------------------
(* Membership implements UserTables *)

Changing == {"DeleteRoles", "AddRole", "Commit"}

(* The roles of every user are those it was granted.                        *)
LEMMA HasGranted == Inductive => [u \in UserIds |-> RolesOf(u)] = granted
  BY DEF Inductive, TypeOK, UsersWhole

(* Steps that leave the tables alone: of a request whose change stays as it *)
(* is, one that asks for no change now, and one that asks for one.          *)
LEMMA Stutters ==
  ASSUME UNCHANGED <<userVars, roleVars>>, \A q \in Requests : Wants(q)' = Wants(q)
  PROVE  UNCHANGED U!vars
  BY DEF userVars, roleVars, U!vars, U!tables, RolesOf

LEMMA GivesUp ==
  ASSUME NEW r \in Requests, UNCHANGED <<userVars, roleVars>>,
         \A q \in Requests \ {r} : Wants(q)' = Wants(q), Wants(r)' = None
  PROVE  U!Next
<1>1. U!GiveUp({r})
  BY DEF U!GiveUp, U!tables, userVars, roleVars, RolesOf
<1>2. {r} \in SUBSET Requests
  OBVIOUS
<1>. QED  BY <1>1, <1>2 DEF U!Next

LEMMA Asks ==
  ASSUME NEW r \in Requests, UNCHANGED <<userVars, roleVars>>,
         \A q \in Requests \ {r} : Wants(q)' = Wants(q), Wants(r) = None,
         Wants(r)' \in U!Changes,
         Wants(r)'.username # None => Wants(r)'.ids \subseteq Existing
  PROVE  U!Next
<1>1. U!Existing = Existing
  BY DEF U!Existing, Existing
<1>2. U!Ask(r)
  BY <1>1 DEF U!Ask, U!tables, userVars, roleVars, RolesOf
<1>. QED  BY <1>2 DEF U!Next

(* A step of request r leaves what others ask for alone.                    *)
LEMMA OthersWant ==
  ASSUME NEW r \in Requests,
         \A q \in Requests \ {r} : pc'[q] = pc[q] /\ loc'[q] = loc[q]
  PROVE  \A q \in Requests \ {r} : Wants(q)' = Wants(q)
  BY DEF Wants

(* A request that ends, its tables as they were, asks for no change.        *)
LEMMA ReturnRefines ==
  ASSUME Inductive, NEW r \in Requests, NEW a \in Answers, Return(r, a),
         UNCHANGED <<userVars, roleVars>>
  PROVE  U!Next
<1>1. /\ pc'[r] = a /\ a \notin Changing
      /\ \A q \in Requests \ {r} : pc'[q] = pc[q] /\ loc'[q] = loc[q]
  BY AnswersApart DEF Return, Goto, Inductive, TypeOK, Changing, TxCalls
<1>2. Wants(r)' = None
  BY <1>1 DEF Wants, Changing
<1>. QED  BY <1>1, <1>2, OthersWant, GivesUp

LEMMA FailsRefines ==
  ASSUME Inductive, NEW r \in Requests, Fails(r) PROVE U!Next
<1>1. "failed" \in Answers
  BY DEF Answers
<1>. QED  BY <1>1, ReturnRefines DEF Fails

LEMMA InitRefines == Init => U!Init
<1>. SUFFICES ASSUME Init PROVE U!Init
  OBVIOUS
<1>1. Inductive
  BY InitInductive
<1>2. /\ [u \in UserIds |-> RolesOf(u)] = granted
      /\ TypeOK /\ UsersWhole /\ RolesNamed
  BY <1>1, HasGranted DEF Inductive
<1>3. U!Users = profiles /\ U!Existing = Existing
  BY <1>2 DEF TypeOK, UsersWhole, U!Users, U!Existing, Existing
<1>4. [r \in Requests |-> Wants(r)] = [r \in Requests |-> None]
  BY DEF Init, Wants
<1>. QED  BY <1>2, <1>3, <1>4 DEF U!Init, TypeOK, UsersWhole, RolesNamed

(* A transaction asks for its change when it first writes the user's roles. *)
LEMMA BeginRefines ==
  ASSUME Inductive, NEW r \in Requests, Begin(r) PROVE U!Next
<1>1. CASE Fails(r)  BY <1>1, FailsRefines
<1>2. CASE /\ Goto(r, IF loc[r].op = "create_user" THEN "InsertProfile" ELSE "DeleteRoles")
           /\ UNCHANGED <<userVars, roleVars, tx, faults, loc>>
  <2>1. /\ pc[r] = "Begin" /\ loc[r] \in Locals /\ Fits(r, pc[r], loc[r], tx[r]) /\ loc' = loc
        /\ pc'[r] = (IF loc[r].op = "create_user" THEN "InsertProfile" ELSE "DeleteRoles")
        /\ \A q \in Requests \ {r} : pc'[q] = pc[q] /\ loc'[q] = loc[q]
    BY <1>2, Known DEF Begin, Goto, Inductive, TypeOK
  <2>2. \A q \in Requests \ {r} : Wants(q)' = Wants(q)
    BY <2>1, OthersWant
  <2>3. CASE loc[r].op = "create_user"
    <3>1. Wants(r)' = None
      BY <2>1, <2>3 DEF Wants
    <3>. QED  BY <1>2, <2>2, <3>1, GivesUp
  <2>4. CASE loc[r].op # "create_user"
    <3>1. loc[r].username = None
      BY <2>1, <2>4 DEF Fits, CallFits
    <3>2. Wants(r) = None
      BY <2>1 DEF Wants
    <3>3. Wants(r)' = [user |-> loc[r].user, username |-> loc[r].username, ids |-> loc[r].ids]
      BY <2>1, <2>4 DEF Wants
    <3>4. Wants(r)' \in U!Changes /\ Wants(r)'.username = None
      BY <2>1, <3>1, <3>3 DEF U!Changes, Locals
    <3>. QED  BY <1>2, <2>2, <3>2, <3>4, Asks
  <2>. QED  BY <2>3, <2>4
<1>. QED  BY <1>1, <1>2 DEF Begin

LEMMA FindRolesRefines ==
  ASSUME Inductive, NEW r \in Requests, FindRoles(r) PROVE U!Next
<1>1. CASE Fails(r)  BY <1>1, FailsRefines
<1>2. CASE Return(r, "refused") /\ UNCHANGED <<userVars, roleVars, faults>>
  <2>1. "refused" \in Answers
    BY DEF Answers
  <2>. QED  BY <1>2, <2>1, ReturnRefines
<1>. DEFINE ids == Wanted(r)  c == AfterRoles(ids)
<1>3. CASE /\ loc' = [loc EXCEPT ![r].ids = ids, ![r].todo = ids]
           /\ Goto(r, c)
           /\ UNCHANGED <<userVars, roleVars, tx, faults>>
  <2>1. ids \subseteq Existing /\ ids \subseteq RoleIds
    BY DEF Wanted, Named, Existing
  <2>. HIDE DEF ids
  <2>2. c \in Changing
    BY AfterRolesCalls DEF Changing
  <2>. HIDE DEF c
  <2>3. /\ pc[r] = "FindRoles" /\ loc[r] \in Locals /\ pc'[r] = c
        /\ loc'[r] = [loc[r] EXCEPT !.ids = ids, !.todo = ids]
        /\ \A q \in Requests \ {r} : pc'[q] = pc[q] /\ loc'[q] = loc[q]
    BY <1>3, Known DEF FindRoles, Goto, Inductive, TypeOK
  <2>4. /\ loc'[r].user = loc[r].user /\ loc'[r].username = loc[r].username
        /\ loc'[r].ids = ids
    BY <2>3 DEF Locals
  <2>5. Wants(r) = None
    BY <2>3 DEF Wants
  <2>6. Wants(r)' = [user |-> loc[r].user, username |-> loc[r].username, ids |-> ids]
    BY <2>2, <2>3, <2>4 DEF Wants, Changing
  <2>7. Wants(r)' \in U!Changes /\ Wants(r)'.ids \subseteq Existing
    BY <2>1, <2>3, <2>6 DEF U!Changes, Locals
  <2>. QED  BY <1>3, <2>3, <2>5, <2>7, OthersWant, Asks
<1>. QED  BY <1>1, <1>2, <1>3 DEF FindRoles

(* Its rows are written while it asks for the same change.                  *)
LEMMA RowsRefine ==
  ASSUME Inductive, NEW r \in Requests, DeleteRoles(r) \/ AddRole(r)
  PROVE  U!Next \/ UNCHANGED U!vars
<1>1. CASE Fails(r)  BY <1>1, FailsRefines
<1>2. CASE ~Fails(r)
  <2>1. /\ pc[r] \in Changing /\ pc'[r] \in Changing
        /\ UNCHANGED <<userVars, roleVars>>
        /\ \E todo : loc' = [loc EXCEPT ![r].todo = todo]
        /\ \A q \in Requests \ {r} : pc'[q] = pc[q]
    <3>1. CASE DeleteRoles(r)
      BY <1>2, <3>1, AfterRolesCalls DEF DeleteRoles, Goto, Inductive, TypeOK, Changing
    <3>2. CASE AddRole(r)
      <4>1. PICK i : /\ loc' = [loc EXCEPT ![r].todo = @ \ {i}]
                     /\ Goto(r, AfterRoles(loc[r].todo \ {i}))
                     /\ UNCHANGED <<userVars, roleVars>>
        BY <1>2, <3>2 DEF AddRole
      <4>2. loc' = [loc EXCEPT ![r].todo = loc[r].todo \ {i}]
        BY <4>1 DEF Inductive, TypeOK
      <4>. QED  BY <3>2, <4>1, <4>2, AfterRolesCalls
                DEF AddRole, Goto, Inductive, TypeOK, Changing
    <3>. QED  BY <3>1, <3>2
  <2>2. PICK todo : loc' = [loc EXCEPT ![r].todo = todo]
    BY <2>1
  <2>3. /\ loc[r] \in Locals /\ loc'[r] = [loc[r] EXCEPT !.todo = todo]
        /\ \A q \in Requests \ {r} : loc'[q] = loc[q]
    BY <2>2, Known DEF Inductive, TypeOK
  <2>4. /\ loc'[r].user = loc[r].user /\ loc'[r].username = loc[r].username
        /\ loc'[r].ids = loc[r].ids
    BY <2>3 DEF Locals
  <2>5. Wants(r)' = Wants(r)
    BY <2>1, <2>4 DEF Wants, Changing
  <2>6. \A q \in Requests : Wants(q)' = Wants(q)
    BY <2>1, <2>3, <2>5, OthersWant
  <2>. QED  BY <2>1, <2>6, Stutters
<1>. QED  BY <1>1, <1>2

(* A commit creates the user with its roles, or sets the roles of one.      *)
LEMMA CommitRefines ==
  ASSUME Inductive, NEW r \in Requests, Commit(r)
  PROVE  U!Next
<1>1. CASE Fails(r)
  BY <1>1, FailsRefines
<1>2. CASE ~Fails(r)
  <2>. DEFINE l == loc[r]  w == tx[r]
  <2>1. /\ pc[r] = "Commit" /\ roles' = roles
        /\ accounts' = IF w.account = None THEN accounts
                       ELSE [accounts EXCEPT ![l.user] = w.account]
        /\ granted' = [granted EXCEPT ![l.user] =
                         IF l.op = "create_user" THEN @ \cup l.ids ELSE l.ids]
    BY <1>2 DEF Commit, roleVars
  <2>2. /\ l \in Locals /\ Fits(r, pc[r], l, w) /\ r \in UserIds
        /\ UsersWhole /\ UsernamesFree /\ accounts \in [UserIds -> Usernames \cup {None}]
    BY Known DEF Inductive
  <2>3. l.op \in {"create_user", "assign"} /\ "Commit" \in TxCalls
    BY <2>1, <2>2 DEF Fits, CallFits, TxCalls
  <2>4. /\ [u \in UserIds |-> RolesOf(u)] = granted
        /\ [u \in UserIds |-> RolesOf(u)]' = granted'
    <3>1. Inductive /\ Inductive'
      BY CommitInductive
    <3>. QED  BY <3>1, HasGranted DEF Inductive, TypeOK, UsersWhole
  <2>5. U!Users = {u \in UserIds : accounts[u] # None}
    BY DEF U!Users
  <2>6. /\ pc'[r] \notin Changing
        /\ \A q \in Requests \ {r} : pc'[q] = pc[q] /\ loc'[q] = loc[q]
    BY <1>2 DEF Commit, Return, Goto, Changing, Inductive, TypeOK
  <2>. DEFINE wants == [q \in Requests |-> Wants(q)]
  <2>7. /\ wants[r] = [user |-> l.user, username |-> l.username, ids |-> l.ids]
        /\ wants[r] # None
    <3>1. Wants(r) = [user |-> l.user, username |-> l.username, ids |-> l.ids]
      BY <2>1 DEF Wants
    <3>2. Wants(r) # None
      BY <2>2, <3>1 DEF Changes, Locals
    <3>. QED  BY <3>1, <3>2
  <2>8. wants' = [wants EXCEPT ![r] = None]
    <3>1. Wants(r)' = None
      BY <2>6 DEF Wants, Changing
    <3>2. \A q \in Requests \ {r} : Wants(q)' = Wants(q)
      BY <2>6, OthersWant
    <3>. QED  BY <3>1, <3>2
  <2>. HIDE DEF wants
  <2>9. CASE l.op = "create_user"
    <3>1. /\ l.user = r /\ r \notin profiles /\ l.username # None
          /\ w.account = l.username
      BY <2>1, <2>2, <2>3, <2>9 DEF Fits, WritesFit, IdsFit
    <3>2. r \notin U!Users /\ \A u \in UserIds : accounts[u] # l.username
      BY <2>2, <2>5, <3>1 DEF UsersWhole, UsernamesFree
    <3>3. l.username \notin {accounts[v] : v \in U!Users}
      BY <2>5, <3>2
    <3>4. accounts' = [accounts EXCEPT ![r] = l.username]
      BY <2>1, <3>1
    <3>5. granted' = [granted EXCEPT ![r] = @ \cup l.ids]
      BY <2>1, <2>9, <3>1
    <3>6. wants[r].user = r /\ wants[r].username = l.username /\ wants[r].ids = l.ids
      BY <2>7, <3>1
    <3>. DEFINE has == [u \in UserIds |-> RolesOf(u)]
    <3>7. has' = [has EXCEPT ![r] = @ \cup l.ids]
      BY <2>4, <3>5
    <3>. HIDE DEF l, has
    <3>8. U!CreateUser(r)
      <4>1. /\ wants[r] # None /\ wants[r].username # None /\ wants[r].user \notin U!Users
            /\ wants[r].username \notin {accounts[v] : v \in U!Users}
        BY <2>7, <3>1, <3>2, <3>3, <3>6
      <4>2. /\ accounts' = [accounts EXCEPT ![wants[r].user] = wants[r].username]
            /\ has' = [has EXCEPT ![wants[r].user] = @ \cup wants[r].ids]
        BY <3>4, <3>6, <3>7
      <4>. QED  BY <2>1, <2>8, <4>1, <4>2 DEF U!CreateUser, wants, has
    <3>. QED  BY <3>8 DEF U!Next
  <2>10. CASE l.op = "assign"
    <3>1. l.username = None /\ w.account = None
      BY <2>1, <2>2, <2>3, <2>10 DEF Fits, WritesFit, CallFits
    <3>2. U!SetRoles(r)
      BY <2>1, <2>4, <2>7, <2>8, <2>10, <3>1 DEF U!SetRoles, wants
    <3>. QED  BY <3>2 DEF U!Next
  <2>. QED  BY <2>3, <2>9, <2>10
<1>. QED  BY <1>1, <1>2

(* A step that writes one role and ends the request.                        *)
LEMMA NamesRole ==
  ASSUME Inductive, NEW r \in Requests, pc[r] \notin Changing, ReturnOrFail(r),
         UNCHANGED userVars, NEW i \in RoleIds, NEW n \in Names \ {roles[j] : j \in Existing},
         roles' = [roles EXCEPT ![i] = n]
  PROVE  U!Next
<1>1. PICK a \in {"200", "failed"} : Return(r, a)
  BY DEF ReturnOrFail
<1>2. /\ pc'[r] \notin Changing
      /\ \A q \in Requests \ {r} : pc'[q] = pc[q] /\ loc'[q] = loc[q]
  BY <1>1 DEF Return, Goto, Changing, Inductive, TypeOK
<1>3. \A q \in Requests : Wants(q)' = Wants(q)
  <2>1. Wants(r) = None /\ Wants(r)' = None
    BY <1>2 DEF Wants, Changing
  <2>. QED  BY <1>2, <2>1, OthersWant
<1>4. U!Existing = Existing
  BY DEF U!Existing, Existing
<1>5. U!NameRole(i)
  BY <1>3, <1>4 DEF U!NameRole, userVars, RolesOf
<1>. QED  BY <1>5 DEF U!Next

(* The role a CreateRole inserts has a name of its own.                     *)
LEMMA InsertRoleRefines ==
  ASSUME Inductive, NEW r \in Requests, InsertRole(r) PROVE U!Next
<1>1. CASE Fails(r)  BY <1>1, FailsRefines
<1>2. CASE Return(r, "failed") /\ UNCHANGED <<userVars, roleVars, faults>>
  <2>1. "failed" \in Answers
    BY DEF Answers
  <2>. QED  BY <1>2, <2>1, ReturnRefines
<1>3. ASSUME NEW n \in loc[r].names, Named(n) = {}, roles' = [roles EXCEPT ![r] = n],
             ReturnOrFail(r), UNCHANGED userVars
      PROVE  U!Next
  <2>1. n \in Names /\ r \in RoleIds /\ pc[r] \notin Changing
    BY Known DEF Locals, InsertRole, Changing
  <2>2. n \in Names \ {roles[j] : j \in Existing}
    BY <1>3, <2>1 DEF Named
  <2>. QED  BY <1>3, <2>1, <2>2, NamesRole
<1>. QED  BY <1>1, <1>2, <1>3 DEF InsertRole

(* An update names one role, changes nothing, or has lost its role.         *)
LEMMA UpdateRoleRefines ==
  ASSUME Inductive, NEW r \in Requests, UpdateRole(r) PROVE U!Next
<1>1. CASE Fails(r)  BY <1>1, FailsRefines
<1>2. CASE Return(r, "failed") /\ UNCHANGED <<userVars, roleVars, faults>>
  <2>1. "failed" \in Answers
    BY DEF Answers
  <2>. QED  BY <1>2, <2>1, ReturnRefines
<1>. DEFINE found == UNION {Named(old) : old \in loc[r].todo}
<1>3. ASSUME NEW n \in loc[r].names, found = {} \/ Named(n) \subseteq found,
             roles' = [i \in RoleIds |-> IF i \in found THEN n ELSE roles[i]],
             renames' = IF roles' = roles THEN renames ELSE renames + 1,
             ReturnOrFail(r), UNCHANGED userVars
      PROVE  U!Next
  <2>1. /\ n \in Names /\ roles \in [RoleIds -> Names \cup {None}] /\ RolesNamed
        /\ pc[r] = "UpdateRole" /\ Fits(r, pc[r], loc[r], tx[r])
    BY Known DEF UpdateRole, Inductive, Locals
  <2>2. PICK old \in Names : found = Named(old)
    BY <2>1 DEF Fits, CallFits
  <2>3. found \subseteq RoleIds /\ \A i, j \in found : i = j
    BY <2>1, <2>2 DEF Named, RolesNamed, Existing
  <2>. HIDE DEF found
  <2>4. CASE roles' = roles
    <3>1. PICK a \in {"200", "failed"} : Return(r, a)
      BY <1>3 DEF ReturnOrFail
    <3>2. a \in Answers /\ UNCHANGED <<userVars, roleVars>>
      BY <1>3, <2>4 DEF Answers, roleVars
    <3>. QED  BY <3>1, <3>2, ReturnRefines
  <2>5. CASE roles' # roles
    <3>1. PICK k \in found : roles[k] # n
      BY <1>3, <2>1, <2>3, <2>5
    <3>2. roles' = [roles EXCEPT ![k] = n]
      BY <1>3, <2>1, <2>3, <3>1
    <3>3. Named(n) = {}
      BY <1>3, <2>3, <3>1 DEF Named
    <3>4. n \in Names \ {roles[j] : j \in Existing}
      BY <2>1, <3>3 DEF Named
    <3>5. pc[r] \notin Changing /\ k \in RoleIds
      BY <2>1, <2>3 DEF Changing
    <3>. QED  BY <1>3, <3>2, <3>4, <3>5, NamesRole
  <2>. QED  BY <2>4, <2>5
<1>. QED  BY <1>1, <1>2, <1>3 DEF UpdateRole

(* Calls before and after the change, or of requests that make none.        *)
LEMMA OtherCallsRefine ==
  ASSUME Inductive, NEW r \in Requests,
         \/ Start(r) \/ Refuse(r) \/ InsertProfile(r) \/ InsertAccount(r) \/ FindRole(r)
         \/ GetUser(r) \/ GetRolesByUser(r) \/ GetRole(r) \/ Sign(r)
  PROVE  U!Next
<1>1. ASSUME pc'[r] \notin Changing, UNCHANGED <<userVars, roleVars>>,
             \A q \in Requests \ {r} : pc'[q] = pc[q] /\ loc'[q] = loc[q]
      PROVE  U!Next
  <2>1. Wants(r)' = None
    BY <1>1 DEF Wants, Changing
  <2>. QED  BY <1>1, <2>1, OthersWant, GivesUp
<1>2. pc \in [Requests -> {"idle"} \cup Calls \cup Answers] /\ loc \in [Requests -> Locals]
  BY DEF Inductive, TypeOK
<1>3. CASE Start(r)
  <2>1. PICK op \in Ops, u \in UserIds, username \in Usernames \cup {None},
             names \in SUBSET Names, ids \in SUBSET RoleIds :
          /\ Cardinality(names) <= MaxNamed /\ Cardinality(ids) <= MaxNamed
          /\ op = "create_user" <=> username # None
          /\ op \in {"assign", "token"} => names = {}
          /\ op \in {"create_role", "rename_role"} => Cardinality(names) = 1
          /\ op # "assign" => ids = {}
          /\ op = "token" => u \in profiles
          /\ op \notin {"assign", "token"} => u = FirstUser
          /\ loc' = [loc EXCEPT ![r].op = op, ![r].username = username,
                ![r].user = IF op = "create_user" THEN r ELSE u,
                ![r].names = names, ![r].ids = ids]
          /\ Goto(r, FirstCall[op])
    BY <1>3 DEF Start
  <2>2. FirstCall[op] \notin Changing
    BY DEF FirstCall, Ops, Changing
  <2>3. UNCHANGED <<userVars, roleVars>>
    BY <1>3 DEF Start
  <2>4. /\ pc'[r] = FirstCall[op]
        /\ \A q \in Requests \ {r} : pc'[q] = pc[q] /\ loc'[q] = loc[q]
    BY <1>2, <2>1 DEF Goto
  <2>. QED  BY <1>1, <2>2, <2>3, <2>4
<1>4. CASE Refuse(r) \/ Sign(r)
  BY <1>1, <1>2, <1>4 DEF Refuse, Sign, Return, Goto, Changing
<1>5. CASE InsertProfile(r) \/ InsertAccount(r) \/ GetUser(r)
  BY <1>1, <1>2, <1>5 DEF InsertProfile, InsertAccount, GetUser, Fails, Return, Goto, Changing
<1>6. CASE FindRole(r)
  BY <1>1, <1>2, <1>6 DEF FindRole, Fails, Return, Goto, Changing
<1>7. CASE GetRolesByUser(r)
  BY <1>1, <1>2, <1>7 DEF GetRolesByUser, AfterNames, Fails, Return, Goto, Changing
<1>8. CASE GetRole(r)
  BY <1>1, <1>2, <1>8 DEF GetRole, AfterNames, Fails, Return, Goto, Changing
<1>. QED  BY <1>3, <1>4, <1>5, <1>6, <1>7, <1>8

(* A crash gives up every change that is not committed.                     *)
LEMMA CrashRefines == ASSUME Inductive, Crash PROVE U!Next
<1>1. ASSUME NEW r \in Requests PROVE Wants(r)' = None
  <2>1. pc'[r] \notin Changing
    BY DEF Crash, Active, Calls, TxCalls, Changing
  <2>. QED  BY <2>1 DEF Wants, Changing
<1>2. U!GiveUp(Requests)
  BY <1>1 DEF U!GiveUp, U!tables, Crash, userVars, roleVars, RolesOf
<1>. QED  BY <1>2 DEF U!Next

(* Every step is one of UserTables or leaves its tables alone.              *)
LEMMA StepRefines == Inductive /\ [Next]_vars => [U!Next]_(U!vars)
<1>. SUFFICES ASSUME Inductive, [Next]_vars PROVE U!Next \/ UNCHANGED U!vars
  OBVIOUS
<1>1. CASE UNCHANGED vars
  <2>1. UNCHANGED <<userVars, roleVars>> /\ \A q \in Requests : Wants(q)' = Wants(q)
    BY <1>1 DEF vars, Wants
  <2>. QED  BY <2>1, Stutters
<1>. QED
  BY <1>1, OtherCallsRefine, BeginRefines, FindRolesRefines, RowsRefine, CommitRefines,
     InsertRoleRefines, UpdateRoleRefines, CrashRefines
  DEF Next

(* For every number of requests, roles, connections and faults: seen        *)
(* together, the tables change as if each change were one step, made as it  *)
(* was asked for or not at all.                                             *)
THEOREM Refinement == Spec => ImplementsUserTables
  BY InitRefines, StepRefines, InductiveAlways, PTL DEF Spec, ImplementsUserTables, U!Spec
=============================================================================
