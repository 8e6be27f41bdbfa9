------------------------- MODULE AccountPolicyProofs -------------------------
(***************************************************************************)
(* Proofs, for every number of requests, passwords and faults, that a       *)
(* request served alone changes its account as AccountPolicy says, whatever *)
(* requests that overlapped did before it.                                  *)
(***************************************************************************)
EXTENDS AccountProofs, FiniteSetTheorems

(* The copy of a request is the row it read, changed as its operation says. *)
Fresh(call, l, a) ==
    /\ call = "SaveFailure" => ~Refused(a) /\ l.copy = Failed(a)
    /\ call = "ClearFailures" => ~Refused(a) /\ l.copy = [a EXCEPT !.count = 0]
    /\ call = "Update" =>
          \/ l.op = "unlock" /\ l.copy = Unlocked(a)
          \/ l.op # "unlock" /\ \E p \in Passwords : l.copy = [a EXCEPT !.password = p]

(* A request in service that overlapped no other is the only one in service *)
(* and its copy is not stale.                                               *)
Alone ==
    \A r \in Requests \ overlapped : pc[r] \in Calls =>
        /\ \A q \in Requests \ {r} : pc[q] \notin Calls
        /\ Fresh(pc[r], loc[r], account)

AloneInv == Inductive /\ Alone /\ CountSinceLoginAlone

(* What a step of a request does: its call and its locals change, and it is *)
(* still fresh if it is alone.                                              *)
LEMMA MoveAlone ==
  ASSUME Inductive, Alone, NEW r \in Requests, pc[r] \in Calls,
         NEW c \in Calls \cup Answers, NEW l \in Locals,
         pc' = [pc EXCEPT ![r] = c], loc' = [loc EXCEPT ![r] = l],
         overlapped' = overlapped,
         r \notin overlapped => Fresh(c, l, account')
  PROVE  Alone'
<1>1. /\ \A q \in Requests \ {r} : pc'[q] = pc[q] /\ loc'[q] = loc[q]
      /\ pc'[r] = c /\ loc'[r] = l
  BY DEF Inductive, TypeOK
<1>2. ASSUME NEW q \in Requests \ overlapped, pc'[q] \in Calls
      PROVE  /\ \A s \in Requests \ {q} : pc'[s] \notin Calls
             /\ Fresh(pc'[q], loc'[q], account')
  <2>1. q = r
    BY <1>1, <1>2 DEF Alone
  <2>2. \A s \in Requests \ {r} : pc[s] \notin Calls
    BY <2>1 DEF Alone
  <2>. QED  BY <1>1, <2>1, <2>2
<1>. QED  BY <1>2 DEF Alone, Fresh, Refused, Failed, Unlocked

(* A call that writes nothing later is fresh with any copy.                 *)
LEMMA FreshNone ==
  ASSUME NEW c, NEW l, NEW a, c \notin {"SaveFailure", "ClearFailures", "Update"}
  PROVE  Fresh(c, l, a)
  BY DEF Fresh

(* A step in which request r goes on to a call that writes nothing later.   *)
LEMMA GoAlone ==
  ASSUME Inductive, Alone, NEW r \in Requests, pc[r] \in Calls,
         NEW c \in Calls \cup Answers, c \notin {"SaveFailure", "ClearFailures", "Update"},
         pc' = [pc EXCEPT ![r] = c], UNCHANGED <<loc, overlapped>>
  PROVE  Alone'
<1>1. loc[r] \in Locals /\ loc' = [loc EXCEPT ![r] = loc[r]]
  BY Types
<1>2. Fresh(c, loc[r], account')
  BY FreshNone
<1>. QED  BY <1>1, <1>2, MoveAlone

(* Each step keeps a request that is alone fresh.                           *)
LEMMA StartAlone ==
  ASSUME Inductive, Alone, NEW r \in Requests, Start(r) PROVE Alone'
<1>1. PICK c \in {"Get", "refused"} : pc' = [pc EXCEPT ![r] = c]
  BY DEF Start, Goto
<1>2. pc'[r] = c /\ pc[r] = "idle" /\ \A q \in Requests \ {r} : pc'[q] = pc[q]
  BY <1>1 DEF Start, Inductive, TypeOK
<1>3. PICK op \in Ops, given \in Passwords, old \in Passwords \cup {NoCheck} :
        loc' = [loc EXCEPT ![r].op = op, ![r].given = given, ![r].old = old]
  BY DEF Start
<1>4. ASSUME NEW q \in Requests \ overlapped', pc'[q] \in Calls
      PROVE  /\ \A s \in Requests \ {q} : pc'[s] \notin Calls
             /\ Fresh(pc'[q], loc'[q], account')
  <2>1. CASE Active = {}
    <3>1. \A s \in Requests : pc[s] \notin Calls
      BY <2>1 DEF Active
    <3>2. q = r
      BY <1>2, <1>4, <3>1
    <3>3. Fresh(c, loc'[q], account')
      BY FreshNone
    <3>. QED  BY <1>2, <3>1, <3>2, <3>3
  <2>2. CASE Active # {}
    <3>1. q \notin Active /\ q # r
      BY <2>2 DEF Start
    <3>. QED  BY <1>2, <1>4, <3>1 DEF Active
  <2>. QED  BY <2>1, <2>2
<1>. QED  BY <1>4 DEF Alone, Fresh, Refused, Failed, Unlocked

LEMMA GetLoginAlone ==
  ASSUME Inductive, Alone, NEW r \in Requests, GetLogin(r) PROVE Alone'
<1>1. pc[r] \in Calls /\ UNCHANGED <<account, overlapped>> /\ loc[r] \in Locals
  BY Types DEF GetLogin, Calls
<1>2. CASE Goto(r, "locked") /\ UNCHANGED loc
  BY <1>1, <1>2, GoAlone DEF Goto, Answers
<1>3. ASSUME NEW c \in {"SaveFailure", "ClearFailures", "GenerateToken"}, NEW a \in Accounts,
             Goto(r, c), ~Refused(account), loc' = [loc EXCEPT ![r].copy = a],
             c = "SaveFailure" => a = Failed(account),
             c = "ClearFailures" => a = [account EXCEPT !.count = 0]
      PROVE  Alone'
  <2>. DEFINE l == [loc[r] EXCEPT !.copy = a]
  <2>1. l \in Locals /\ l.copy = a /\ loc' = [loc EXCEPT ![r] = l]
    BY <1>1, <1>3 DEF Locals, Inductive, TypeOK
  <2>. HIDE DEF l
  <2>2. Fresh(c, l, account)
    BY <1>3, <2>1 DEF Fresh
  <2>. QED  BY <1>1, <1>3, <2>1, <2>2, MoveAlone DEF Goto, Calls
<1>4. Failed(account) \in Accounts /\ [account EXCEPT !.count = 0] \in Accounts
  BY Types DEF Failed, Accounts
<1>. QED  BY <1>2, <1>3, <1>4 DEF GetLogin

LEMMA GetForUpdateAlone ==
  ASSUME Inductive, Alone, NEW r \in Requests, GetForUpdate(r) PROVE Alone'
<1>1. /\ pc[r] \in Calls /\ UNCHANGED <<account, overlapped>>
      /\ loc[r] \in Locals /\ loc[r].given \in Passwords
  BY Types DEF GetForUpdate, Calls, Locals
<1>2. CASE Goto(r, "refused") /\ UNCHANGED loc
  BY <1>1, <1>2, GoAlone DEF Goto, Answers
<1>3. ASSUME NEW a \in Accounts, Goto(r, "Update"), loc' = [loc EXCEPT ![r].copy = a],
             \/ loc[r].op = "unlock" /\ a = Unlocked(account)
             \/ loc[r].op # "unlock" /\ \E p \in Passwords : a = [account EXCEPT !.password = p]
      PROVE  Alone'
  <2>. DEFINE l == [loc[r] EXCEPT !.copy = a]
  <2>1. l \in Locals /\ l.copy = a /\ l.op = loc[r].op /\ loc' = [loc EXCEPT ![r] = l]
    BY <1>1, <1>3 DEF Locals, Inductive, TypeOK
  <2>. HIDE DEF l
  <2>2. Fresh("Update", l, account)
    BY <1>3, <2>1 DEF Fresh
  <2>. QED  BY <1>1, <1>3, <2>1, <2>2, MoveAlone DEF Goto, Calls
<1>4. Unlocked(account) \in Accounts /\ [account EXCEPT !.password = loc[r].given] \in Accounts
  BY <1>1, Types DEF Unlocked, Accounts
<1>. QED  BY <1>1, <1>2, <1>3, <1>4 DEF GetForUpdate

LEMMA WriteAlone ==
  ASSUME Inductive, Alone, NEW r \in Requests,
         SaveFailure(r) \/ ClearFailures(r) \/ GenerateToken(r) \/ Update(r) \/ GetFails(r)
  PROVE  Alone'
<1>1. \E c \in {"login_fail", "GenerateToken", "token", "200", "failed"} :
         pc' = [pc EXCEPT ![r] = c]
  BY DEF SaveFailure, ClearFailures, GenerateToken, Update, GetFails, Fails, Goto
<1>2. pc[r] \in Calls /\ UNCHANGED <<loc, overlapped>>
  BY DEF SaveFailure, ClearFailures, GenerateToken, Update, GetFails, Fails, Calls
<1>. QED  BY <1>1, <1>2, GoAlone DEF Calls, Answers

LEMMA CrashAlone == ASSUME Crash PROVE Alone'
<1>1. \A r \in Requests : pc'[r] \notin Calls
  BY DEF Crash, Active, Calls
<1>. QED  BY <1>1 DEF Alone

(* The state Init sets up, and every step from one with the invariant.      *)
LEMMA InitAlone == Init => AloneInv
<1>. SUFFICES ASSUME Init PROVE AloneInv
  OBVIOUS
<1>1. Inductive
  BY InitInductive
<1>2. Alone
  BY DEF Init, Alone, Calls
<1>3. CountSinceLoginAlone
  <2>1. PICK p \in Passwords, n \in 0..5 :
          /\ account = [password |-> p, count |-> n, locked |-> n > 4]
          /\ wrong = n /\ sinceClear = n
    BY DEF Init
  <2>2. account.count = n
    BY <2>1, Zenon
  <2>. QED  BY <2>1, <2>2 DEF CountSinceLoginAlone, CountSinceLogin
<1>. QED  BY <1>1, <1>2, <1>3 DEF AloneInv

(* What the counters of an alone request's copy come to when written.       *)
LEMMA FailureWritten ==
  ASSUME Inductive, Alone, NEW r \in Requests, r \notin overlapped,
         pc[r] = "SaveFailure", SaveCounters(loc[r].copy)
  PROVE  P!FailedLogin /\ account'.count = account.count + 1
<1>1. loc[r].copy = Failed(account) /\ ~Refused(account)
  BY DEF Alone, Calls, Fresh
<1>2. /\ account \in Accounts /\ account.count \in Nat /\ account.locked = FALSE
      /\ account.count <= 4
  BY <1>1, Types DEF Refused, Accounts
<1>3. Failed(account).count = account.count + 1 /\ Failed(account).locked = FALSE
  BY <1>2 DEF Failed, Accounts
<1>4. account' = [account EXCEPT !.count = Failed(account).count,
                                 !.locked = Failed(account).locked \/ Failed(account).count > 4]
  BY <1>1 DEF SaveCounters
<1>5. (Failed(account).locked \/ Failed(account).count > 4) = (account.count + 1 > 4)
  <2>1. (FALSE \/ account.count + 1 > 4) = (account.count + 1 > 4)
    BY <1>2, SMT
  <2>. QED  BY <1>3, <2>1, Zenon
<1>6. account' = [account EXCEPT !.count = account.count + 1,
                                 !.locked = account.count + 1 > 4]
  BY <1>3, <1>4, <1>5, Zenon
<1>7. account'.count = account.count + 1
  BY <1>2, <1>6 DEF Accounts
<1>. QED  BY <1>2, <1>6, <1>7 DEF P!FailedLogin

LEMMA LoginWritten ==
  ASSUME Inductive, Alone, NEW r \in Requests, r \notin overlapped,
         pc[r] = "ClearFailures", SaveCounters(loc[r].copy)
  PROVE  P!Login /\ account'.count = 0
<1>. DEFINE a == loc[r].copy
<1>1. a = [account EXCEPT !.count = 0] /\ ~Refused(account)
  BY DEF Alone, Calls, Fresh
<1>2. /\ account \in Accounts /\ account.locked = FALSE
      /\ a.count = 0 /\ a.locked = FALSE
  BY <1>1, Types DEF Refused, Accounts
<1>3. account' = [account EXCEPT !.count = a.count, !.locked = a.locked \/ a.count > 4]
  BY DEF SaveCounters
<1>. HIDE DEF a
<1>4. ~(0 > 4)
  OBVIOUS
<1>5. account' = [account EXCEPT !.count = 0, !.locked = FALSE]
  <2>1. (a.locked \/ a.count > 4) = FALSE
    BY <1>2, <1>4, Zenon
  <2>. QED  BY <1>2, <1>3, <2>1, Zenon
<1>6. [account EXCEPT !.count = 0, !.locked = FALSE] = [account EXCEPT !.count = 0]
  BY <1>2 DEF Accounts
<1>. QED  BY <1>2, <1>5, <1>6 DEF P!Login, Accounts

(* Every step keeps the invariant, and a row changed by a request that is   *)
(* alone changes as the policy says.                                        *)
LEMMA RequestAlone ==
  ASSUME AloneInv, NEW r \in Requests,
         \/ Start(r) \/ GetLogin(r) \/ GetForUpdate(r) \/ GetFails(r)
         \/ SaveFailure(r) \/ ClearFailures(r) \/ GenerateToken(r) \/ Update(r)
  PROVE  /\ CountSinceLoginAlone'
         /\ \/ P!Next \/ UNCHANGED account \/ r \in overlapped
         /\ \A q \in Requests \ {r} : pc'[q] = pc[q]
<1>. USE DEF AloneInv
<1>1. overlapped' = {} => overlapped = {} /\ account.count <= sinceClear
  BY DEF Start, GetLogin, GetForUpdate, GetFails, SaveFailure, ClearFailures,
         GenerateToken, Update, Fails, CountSinceLoginAlone, CountSinceLogin
<1>2. /\ account \in Accounts /\ account.count \in Nat /\ sinceClear \in Nat
  BY Types DEF Accounts
<1>3. \A q \in Requests \ {r} : pc'[q] = pc[q]
  BY DEF Start, GetLogin, GetForUpdate, GetFails, SaveFailure, ClearFailures,
         GenerateToken, Update, Fails, Goto, Inductive, TypeOK
<1>4. CASE UNCHANGED <<account, sinceClear>>
  BY <1>1, <1>3, <1>4 DEF CountSinceLoginAlone, CountSinceLogin
<1>5. CASE pc[r] = "SaveFailure" /\ SaveCounters(loc[r].copy) /\ sinceClear' = sinceClear + 1
           /\ overlapped' = overlapped
  <2>1. CASE r \in overlapped
    BY <1>3, <1>5, <2>1 DEF CountSinceLoginAlone
  <2>2. CASE r \notin overlapped
    BY <1>1, <1>2, <1>3, <1>5, <2>2, FailureWritten
       DEF CountSinceLoginAlone, CountSinceLogin, P!Next
  <2>. QED  BY <2>1, <2>2
<1>6. CASE pc[r] = "ClearFailures" /\ SaveCounters(loc[r].copy) /\ sinceClear' = 0
           /\ overlapped' = overlapped
  <2>1. CASE r \in overlapped
    BY <1>3, <1>6, <2>1 DEF CountSinceLoginAlone
  <2>2. CASE r \notin overlapped
    BY <1>1, <1>2, <1>3, <1>6, <2>2, LoginWritten
       DEF CountSinceLoginAlone, CountSinceLogin, P!Next
  <2>. QED  BY <2>1, <2>2
<1>7. CASE /\ pc[r] = "Update" /\ account' = loc[r].copy
           /\ sinceClear' = IF loc[r].op = "unlock" THEN 0 ELSE sinceClear
           /\ overlapped' = overlapped
  <2>1. CASE r \in overlapped
    BY <1>3, <1>7, <2>1 DEF CountSinceLoginAlone
  <2>2. CASE r \notin overlapped
    <3>1. Fresh("Update", loc[r], account)
      BY <1>7, <2>2 DEF Alone, Calls
    <3>2. CASE loc[r].op = "unlock" /\ account' = Unlocked(account)
      <4>1. account'.count = 0
        BY <1>2, <3>2 DEF Unlocked, Accounts
      <4>. QED  BY <1>1, <1>2, <1>3, <1>7, <3>2, <4>1
                DEF CountSinceLoginAlone, CountSinceLogin, P!Next, P!Unlock, Unlocked
    <3>3. CASE loc[r].op # "unlock" /\ \E p \in Passwords : account' = [account EXCEPT !.password = p]
      <4>1. account'.count = account.count
        BY <1>2, <3>3 DEF Accounts
      <4>. QED  BY <1>1, <1>2, <1>3, <1>7, <3>3, <4>1
                DEF CountSinceLoginAlone, CountSinceLogin, P!Next, P!ChangePassword
    <3>. QED  BY <1>7, <3>1, <3>2, <3>3 DEF Fresh
  <2>. QED  BY <2>1, <2>2
<1>8. \/ UNCHANGED <<account, sinceClear>>
      \/ /\ pc[r] = "SaveFailure" /\ SaveCounters(loc[r].copy) /\ sinceClear' = sinceClear + 1
         /\ overlapped' = overlapped
      \/ /\ pc[r] = "ClearFailures" /\ SaveCounters(loc[r].copy) /\ sinceClear' = 0
         /\ overlapped' = overlapped
      \/ /\ pc[r] = "Update" /\ account' = loc[r].copy
         /\ sinceClear' = IF loc[r].op = "unlock" THEN 0 ELSE sinceClear
         /\ overlapped' = overlapped
  BY DEF Start, GetLogin, GetForUpdate, GetFails, SaveFailure, ClearFailures,
         GenerateToken, Update, Fails
<1>. QED  BY <1>4, <1>5, <1>6, <1>7, <1>8

Policy == (\E r \in Requests \ overlapped : pc'[r] # pc[r]) => P!Next

LEMMA NextAlone ==
  AloneInv /\ [Next]_vars => AloneInv' /\ [Policy]_account
<1>. SUFFICES ASSUME AloneInv, [Next]_vars PROVE AloneInv' /\ [Policy]_account
  OBVIOUS
<1>1. Inductive'
  BY NextInductive DEF AloneInv
<1>2. CASE UNCHANGED vars
  BY <1>1, <1>2 DEF vars, AloneInv, Alone, Fresh, Refused, Failed, Unlocked,
                    CountSinceLoginAlone, CountSinceLogin
<1>3. ASSUME NEW r \in Requests,
             \/ Start(r) \/ GetLogin(r) \/ GetForUpdate(r) \/ GetFails(r)
             \/ SaveFailure(r) \/ ClearFailures(r) \/ GenerateToken(r) \/ Update(r)
      PROVE  AloneInv' /\ [Policy]_account
  <2>1. Alone'
    BY <1>3, StartAlone, GetLoginAlone, GetForUpdateAlone, WriteAlone DEF AloneInv
  <2>2. /\ CountSinceLoginAlone'
        /\ \/ P!Next \/ UNCHANGED account \/ r \in overlapped
        /\ \A q \in Requests \ {r} : pc'[q] = pc[q]
    BY <1>3, RequestAlone
  <2>3. [Policy]_account
    BY <2>2 DEF Policy
  <2>. QED  BY <1>1, <2>1, <2>2, <2>3 DEF AloneInv
<1>4. CASE Crash
  <2>1. Alone' /\ UNCHANGED <<account, sinceClear, overlapped>>
    BY <1>4, CrashAlone DEF Crash
  <2>. QED  BY <1>1, <2>1 DEF AloneInv, CountSinceLoginAlone, CountSinceLogin
<1>. QED  BY <1>2, <1>3, <1>4 DEF Next

(* membership.go:349 holds of requests that do not overlap: the count       *)
(* starts again at a login or an unlock.                                    *)
THEOREM SerialCount == Spec => []CountSinceLoginAlone
<1>1. AloneInv => CountSinceLoginAlone  BY DEF AloneInv
<1>. QED  BY <1>1, InitAlone, NextAlone, PTL DEF Spec

(* Whatever overlapping requests wrote before, what a request that is       *)
(* served alone writes is one step of the policy of the lock.               *)
THEOREM AlonePolicy == Spec => PolicyWhenAlone
<1>1. Init => P!Init
  <2>. SUFFICES ASSUME Init PROVE P!Init
    OBVIOUS
  <2>1. PICK p \in Passwords, n \in 0..5 :
          account = [password |-> p, count |-> n, locked |-> n > 4]
    BY DEF Init
  <2>. QED  BY <2>1 DEF P!Init
<1>2. AloneInv /\ [Next]_vars => AloneInv' /\ [(\E r \in Requests \ overlapped : pc'[r] # pc[r]) => P!Next]_account
  BY NextAlone DEF Policy
<1>. QED  BY <1>1, <1>2, InitAlone, PTL DEF Spec, PolicyWhenAlone

-----------------------------------------------------------------------------
(* Requests served one at a time *)

OneAtATime == overlapped = {} /\ \A q, r \in Active : q = r

LEMMA StartOne ==
  ASSUME MaxInFlight = 1, Inductive, OneAtATime, NEW r \in Requests, Start(r)
  PROVE  OneAtATime'
<1>1. Active = {}
  <2>1. ASSUME NEW q \in Active PROVE FALSE
    <3>1. Active = {q}
      BY <2>1 DEF OneAtATime
    <3>2. Cardinality(Active) = 1
      BY <3>1, FS_Singleton
    <3>. QED  BY <3>2 DEF Start
  <2>. QED  BY <2>1
<1>2. \A q \in Requests \ {r} : pc'[q] = pc[q]
  BY DEF Start, Goto, Inductive, TypeOK
<1>3. Active' \subseteq {r}
  BY <1>1, <1>2 DEF Active
<1>. QED  BY <1>1, <1>3 DEF OneAtATime, Start

(* No other step puts a request in service. *)
LEMMA ServedStep ==
  ASSUME Inductive, NEW r \in Requests,
         \/ GetLogin(r) \/ GetForUpdate(r) \/ GetFails(r)
         \/ SaveFailure(r) \/ ClearFailures(r) \/ GenerateToken(r) \/ Update(r)
  PROVE  Active' \subseteq Active /\ overlapped' = overlapped
<1>1. pc[r] \in Calls /\ overlapped' = overlapped
  BY DEF GetLogin, GetForUpdate, GetFails, SaveFailure, ClearFailures, GenerateToken,
         Update, Fails, Calls
<1>2. \A q \in Requests \ {r} : pc'[q] = pc[q]
  BY DEF GetLogin, GetForUpdate, GetFails, SaveFailure, ClearFailures, GenerateToken,
         Update, Fails, Goto, Inductive, TypeOK
<1>. QED  BY <1>1, <1>2 DEF Active

LEMMA NextOne ==
  ASSUME MaxInFlight = 1
  PROVE  Inductive /\ OneAtATime /\ [Next]_vars => OneAtATime'
<1>. SUFFICES ASSUME Inductive, OneAtATime, [Next]_vars PROVE OneAtATime'
  OBVIOUS
<1>1. CASE Active' \subseteq Active /\ overlapped' = overlapped
  BY <1>1 DEF OneAtATime
<1>2. CASE UNCHANGED vars
  BY <1>1, <1>2 DEF vars, Active
<1>3. CASE Crash
  <2>1. \A r \in Requests : pc'[r] \notin Calls
    BY <1>3 DEF Crash, Active, Calls
  <2>. QED  BY <1>1, <1>3, <2>1 DEF Crash, Active
<1>. QED  BY <1>1, <1>2, <1>3, StartOne, ServedStep DEF Next

(* Served one at a time, the requests change the account as the policy      *)
(* says, whatever fails and wherever the process dies: no write of an       *)
(* earlier request comes late.                                              *)
THEOREM SerialPolicy == ASSUME MaxInFlight = 1 PROVE Spec => P!Spec
<1>1. Init => P!Init
  <2>. SUFFICES ASSUME Init PROVE P!Init
    OBVIOUS
  <2>1. PICK p \in Passwords, n \in 0..5 :
          account = [password |-> p, count |-> n, locked |-> n > 4]
    BY DEF Init
  <2>. QED  BY <2>1 DEF P!Init
<1>2. Init => OneAtATime
  BY DEF Init, OneAtATime, Active, Calls
<1>3. AloneInv /\ OneAtATime /\ [Next]_vars => AloneInv' /\ OneAtATime' /\ [P!Next]_account
  <2>. SUFFICES ASSUME AloneInv, OneAtATime, [Next]_vars
                PROVE  AloneInv' /\ OneAtATime' /\ [P!Next]_account
    OBVIOUS
  <2>1. AloneInv' /\ OneAtATime'
    BY NextAlone, NextOne DEF AloneInv
  <2>2. ASSUME NEW r \in Requests,
               \/ Start(r) \/ GetLogin(r) \/ GetForUpdate(r) \/ GetFails(r)
               \/ SaveFailure(r) \/ ClearFailures(r) \/ GenerateToken(r) \/ Update(r)
        PROVE  P!Next \/ UNCHANGED account
    BY <2>2, RequestAlone DEF OneAtATime
  <2>3. CASE UNCHANGED vars \/ Crash
    BY <2>1, <2>3 DEF vars, Crash
  <2>. QED  BY <2>1, <2>2, <2>3 DEF Next
<1>. QED  BY <1>1, <1>2, <1>3, InitAlone, PTL DEF Spec, P!Spec

(* And then the comment at membership.go:349 is true: no failure outlives a *)
(* successful login.                                                        *)
THEOREM SerialSinceLogin == ASSUME MaxInFlight = 1 PROVE Spec => []CountSinceLogin
<1>1. Init => OneAtATime
  BY DEF Init, OneAtATime, Active, Calls
<1>2. AloneInv /\ OneAtATime => CountSinceLogin
  BY DEF AloneInv, OneAtATime, CountSinceLoginAlone
<1>3. AloneInv /\ OneAtATime /\ [Next]_vars => AloneInv' /\ OneAtATime'
  BY NextAlone, NextOne DEF AloneInv
<1>. QED  BY <1>1, <1>2, <1>3, InitAlone, PTL DEF Spec
=============================================================================
