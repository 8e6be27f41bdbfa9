---------------------------- MODULE AccountProofs ----------------------------
(***************************************************************************)
(* Proofs, for every number of requests, passwords, faults and overlaps,    *)
(* that the lock columns of an account stay consistent.                     *)
(***************************************************************************)
EXTENDS Account, TLAPS

USE OpsAssumption, NoCheckAssumption, BoundsAssumption

(* Every initial row is consistent and no request holds a copy yet.         *)
LEMMA InitInductive == Init => Inductive
<1>. SUFFICES ASSUME Init PROVE Inductive
  OBVIOUS
<1>1. PICK p \in Passwords, n \in 0..5 :
        /\ account = [password |-> p, count |-> n, locked |-> n > 4]
        /\ wrong = n /\ sinceClear = n
  BY DEF Init
<1>2. account \in Accounts /\ account.count = n /\ (account.locked <=> n > 4)
  <2>. DEFINE b == n > 4
  <2>1. b \in BOOLEAN /\ account = [password |-> p, count |-> n, locked |-> b]
    BY <1>1
  <2>2. account \in Accounts
    BY <2>1 DEF Accounts
  <2>3. account.count = n /\ account.locked = b
    BY <2>1, Zenon
  <2>. QED  BY <2>2, <2>3
<1>3. TypeOK
  BY <1>1, <1>2 DEF Init, TypeOK, Locals, Accounts
<1>4. LockedAtFive /\ CountEarned
  BY <1>1, <1>2 DEF LockedAtFive, Consistent, CountEarned
<1>5. CopiesConsistent
  BY DEF Init, CopiesConsistent, CopyFits
<1>. QED  BY <1>3, <1>4, <1>5 DEF Inductive

(* What the invariant says of the row and of request r's copy.              *)
LEMMA Types ==
  ASSUME Inductive, NEW r \in Requests
  PROVE  /\ loc[r] \in Locals /\ loc[r].copy \in Accounts /\ account \in Accounts
         /\ loc = [loc EXCEPT ![r] = loc[r]]
         /\ wrong \in Nat /\ faults \in Nat /\ sinceClear \in Nat
         /\ overlapped \subseteq Requests
         /\ Consistent(account) /\ account.count <= wrong
         /\ CopyFits(pc[r], loc[r].copy, wrong)
<1>1. /\ loc[r] \in Locals /\ loc = [loc EXCEPT ![r] = loc[r]]
      /\ wrong \in Nat /\ faults \in Nat /\ sinceClear \in Nat /\ account \in Accounts
      /\ overlapped \subseteq Requests
  BY DEF Inductive, TypeOK
<1>2. loc[r].copy \in Accounts
  BY <1>1 DEF Locals
<1>3. Consistent(account)
  BY DEF Inductive, LockedAtFive
<1>4. account.count <= wrong
  BY DEF Inductive, CountEarned
<1>5. CopyFits(pc[r], loc[r].copy, wrong)
  BY DEF Inductive, CopiesConsistent
<1>. QED  BY <1>1, <1>2, <1>3, <1>4, <1>5

(* A copy that fits still does when more wrong passwords were given.        *)
LEMMA FitsMonotone ==
  ASSUME NEW a \in Accounts, NEW c, NEW m \in Nat, NEW n \in Nat, m <= n, CopyFits(c, a, m)
  PROVE  CopyFits(c, a, n)
<1>1. a.count \in Nat  BY DEF Accounts
<1>. QED  BY <1>1 DEF CopyFits

(* A step in which request r makes call c next with the locals l, and the   *)
(* row stays: enough that the copy in l fits c.                             *)
LEMMA CopyInductive ==
  ASSUME Inductive, NEW r \in Requests, NEW c \in Calls \cup Answers, NEW l \in Locals,
         pc' = [pc EXCEPT ![r] = c], loc' = [loc EXCEPT ![r] = l],
         account' = account, faults' \in Nat, sinceClear' \in Nat,
         overlapped' \subseteq Requests, wrong' \in Nat, wrong <= wrong', CopyFits(c, l.copy, wrong')
  PROVE  Inductive'
<1>1. /\ \A q \in Requests \ {r} : pc'[q] = pc[q] /\ loc'[q] = loc[q]
      /\ loc'[r] = l /\ pc'[r] = c
  BY DEF Inductive, TypeOK
<1>2. TypeOK'
  BY DEF Inductive, TypeOK
<1>3. LockedAtFive'
  BY DEF Inductive, LockedAtFive, Consistent
<1>4. CountEarned'
  BY DEF Inductive, TypeOK, Accounts, CountEarned
<1>5. CopiesConsistent'
  <2>1. ASSUME NEW q \in Requests PROVE CopyFits(pc'[q], loc'[q].copy, wrong')
    <3>1. CASE q = r  BY <1>1, <3>1
    <3>2. CASE q # r
      <4>1. loc[q].copy \in Accounts /\ CopyFits(pc[q], loc[q].copy, wrong) /\ wrong \in Nat
        BY Types
      <4>2. CopyFits(pc[q], loc[q].copy, wrong')
        BY <4>1, FitsMonotone
      <4>. QED  BY <1>1, <3>2, <4>2
    <3>. QED  BY <3>1, <3>2
  <2>. QED  BY <2>1 DEF CopiesConsistent, CopyFits, Consistent
<1>. QED  BY <1>2, <1>3, <1>4, <1>5 DEF Inductive

(* A call that needs no copy is fitted by any.                              *)
LEMMA NeedsNone ==
  ASSUME NEW c, NEW a, NEW n,
         c \notin {"SaveFailure", "ClearFailures", "Update"}
  PROVE  CopyFits(c, a, n)
  BY DEF CopyFits

(* A step in which only the call of request r, and perhaps faults, change.  *)
LEMMA StayInductive ==
  ASSUME Inductive, NEW r \in Requests, NEW c \in Calls \cup Answers, Goto(r, c),
         UNCHANGED <<account, loc, wrong, sinceClear, overlapped>>, faults' \in Nat,
         CopyFits(c, loc[r].copy, wrong)
  PROVE  Inductive'
<1>1. loc[r] \in Locals /\ loc' = [loc EXCEPT ![r] = loc[r]] /\ pc' = [pc EXCEPT ![r] = c]
  BY Types DEF Goto
<1>2. /\ wrong' \in Nat /\ sinceClear' \in Nat /\ wrong <= wrong'
      /\ overlapped' \subseteq Requests
      /\ account' = account /\ CopyFits(c, loc[r].copy, wrong')
  BY Types
<1>. QED  BY <1>1, <1>2, CopyInductive

(* A step in which request r writes a consistent row and has no copy left.  *)
LEMMA WriteInductive ==
  ASSUME Inductive, NEW r \in Requests, NEW c \in Calls \cup Answers,
         c \notin {"SaveFailure", "ClearFailures", "Update"},
         pc' = [pc EXCEPT ![r] = c], UNCHANGED <<loc, wrong, overlapped>>,
         account' \in Accounts, Consistent(account)', account'.count <= wrong,
         faults' \in Nat, sinceClear' \in Nat
  PROVE  Inductive'
<1>1. TypeOK'
  BY DEF Inductive, TypeOK
<1>2. LockedAtFive' /\ CountEarned'
  BY DEF LockedAtFive, CountEarned
<1>3. CopiesConsistent'
  <2>1. pc'[r] = c /\ \A q \in Requests \ {r} : pc'[q] = pc[q]
    BY DEF Inductive, TypeOK
  <2>2. \A q \in Requests : CopyFits(pc'[q], loc[q].copy, wrong)
    BY <2>1, NeedsNone, Types
  <2>. QED  BY <2>2 DEF CopiesConsistent, CopyFits, Consistent
<1>. QED  BY <1>1, <1>2, <1>3 DEF Inductive

(* A call that fails before its effect.                                     *)
LEMMA FailsInductive ==
  ASSUME Inductive, NEW r \in Requests, Fails(r) PROVE Inductive'
<1>1. CopyFits("failed", loc[r].copy, wrong) /\ "failed" \in Answers
  BY NeedsNone DEF Answers
<1>2. faults' \in Nat
  BY Types DEF Fails, Fault
<1>. QED  BY <1>1, <1>2, StayInductive DEF Fails

(* Each operation's own step.                                               *)
LEMMA StartInductive ==
  ASSUME Inductive, NEW r \in Requests, Start(r) PROVE Inductive'
<1>1. PICK op \in Ops, given \in Passwords, old \in Passwords \cup {NoCheck} :
        loc' = [loc EXCEPT ![r].op = op, ![r].given = given, ![r].old = old]
  BY DEF Start
<1>. DEFINE l == [loc[r] EXCEPT !.op = op, !.given = given, !.old = old]
<1>2. l \in Locals /\ loc' = [loc EXCEPT ![r] = l]
  BY <1>1 DEF Inductive, TypeOK, Locals
<1>3. PICK c \in {"Get", "refused"} : Goto(r, c)
  BY DEF Start
<1>4. c \in Calls \cup Answers /\ CopyFits(c, l.copy, wrong')
  BY NeedsNone DEF Calls, Answers
<1>5. /\ pc' = [pc EXCEPT ![r] = c] /\ account' = account
      /\ wrong' \in Nat /\ wrong <= wrong' /\ faults' \in Nat /\ sinceClear' \in Nat
      /\ overlapped' \subseteq Requests
  BY <1>3, Types DEF Start, Goto, Active
<1>. HIDE DEF l
<1>. QED  BY <1>2, <1>4, <1>5, CopyInductive

LEMMA GetLoginInductive ==
  ASSUME Inductive, NEW r \in Requests, GetLogin(r) PROVE Inductive'
<1>. DEFINE l(a) == [loc[r] EXCEPT !.copy = a]
            cleared == [account EXCEPT !.count = 0]
<1>1. UNCHANGED <<account, faults, sinceClear, overlapped>>
  BY DEF GetLogin
<1>2. CASE Refused(account) /\ Goto(r, "locked") /\ UNCHANGED <<loc, wrong>>
  <2>1. CopyFits("locked", loc[r].copy, wrong) /\ "locked" \in Answers
    BY NeedsNone DEF Answers
  <2>. QED  BY <1>1, <1>2, <2>1, Types, StayInductive
<1>3. CASE /\ ~Refused(account) /\ Goto(r, "SaveFailure") /\ wrong' = wrong + 1
           /\ loc' = [loc EXCEPT ![r].copy = Failed(account)]
  <2>1. Failed(account) \in Accounts
    BY Types DEF Failed, Accounts
  <2>2. CopyFits("SaveFailure", Failed(account), wrong + 1)
    <3>1. account.count \in Nat /\ account.count <= 4 /\ account.locked = FALSE
      BY <1>3, Types DEF Refused, Accounts
    <3>2. Failed(account).count = account.count + 1 /\ Failed(account).locked = FALSE
      BY <3>1, Types DEF Failed, Accounts
    <3>3. account.count <= wrong /\ wrong \in Nat
      BY Types
    <3>. QED  BY <3>1, <3>2, <3>3 DEF CopyFits
  <2>3. /\ l(Failed(account)) \in Locals /\ l(Failed(account)).copy = Failed(account)
        /\ loc' = [loc EXCEPT ![r] = l(Failed(account))] /\ "SaveFailure" \in Calls
    BY <1>3, <2>1, Types DEF Locals, Inductive, TypeOK, Calls
  <2>4. /\ pc' = [pc EXCEPT ![r] = "SaveFailure"] /\ wrong' \in Nat /\ wrong <= wrong'
        /\ faults' \in Nat /\ sinceClear' \in Nat /\ overlapped' \subseteq Requests
    BY <1>1, <1>3, Types DEF Goto
  <2>. HIDE DEF l
  <2>. QED  BY <1>1, <1>3, <2>2, <2>3, <2>4, CopyInductive
<1>4. CASE /\ ~Refused(account) /\ UNCHANGED wrong
           /\ Goto(r, IF account.count > 0 THEN "ClearFailures" ELSE "GenerateToken")
           /\ loc' = [loc EXCEPT ![r].copy = cleared]
  <2>. DEFINE c == IF account.count > 0 THEN "ClearFailures" ELSE "GenerateToken"
  <2>1. cleared \in Accounts /\ cleared.count = 0 /\ cleared.locked = account.locked
    BY Types DEF Accounts
  <2>2. Consistent(cleared)
    BY <1>4, <2>1, Types DEF Consistent, Refused
  <2>3. c \in Calls /\ CopyFits(c, cleared, wrong)
    <3>1. c \in {"ClearFailures", "GenerateToken"} /\ wrong >= 0
      BY Types
    <3>. HIDE DEF cleared, c
    <3>. QED  BY <2>1, <2>2, <3>1 DEF CopyFits, Calls
  <2>4. /\ l(cleared) \in Locals /\ l(cleared).copy = cleared
        /\ loc' = [loc EXCEPT ![r] = l(cleared)]
    BY <1>4, <2>1, Types DEF Locals, Inductive, TypeOK
  <2>5. /\ pc' = [pc EXCEPT ![r] = c] /\ wrong' \in Nat /\ wrong <= wrong'
        /\ faults' \in Nat /\ sinceClear' \in Nat /\ overlapped' \subseteq Requests
    BY <1>1, <1>4, Types DEF Goto
  <2>. HIDE DEF l, c, cleared
  <2>. QED  BY <1>1, <1>4, <2>3, <2>4, <2>5, CopyInductive
<1>. QED  BY <1>2, <1>3, <1>4 DEF GetLogin

LEMMA GetForUpdateInductive ==
  ASSUME Inductive, NEW r \in Requests, GetForUpdate(r) PROVE Inductive'
<1>. DEFINE l(a) == [loc[r] EXCEPT !.copy = a]
            changed == [account EXCEPT !.password = loc[r].given]
<1>1. UNCHANGED <<account, faults, sinceClear, wrong, overlapped>>
  BY DEF GetForUpdate
<1>2. CASE Goto(r, "refused") /\ UNCHANGED loc
  <2>1. CopyFits("refused", loc[r].copy, wrong) /\ "refused" \in Answers
    BY NeedsNone DEF Answers
  <2>. QED  BY <1>1, <1>2, <2>1, Types, StayInductive
<1>3. ASSUME NEW a \in Accounts, Consistent(a), a.count <= wrong,
             Goto(r, "Update"), loc' = [loc EXCEPT ![r].copy = a]
      PROVE  Inductive'
  <2>1. /\ l(a) \in Locals /\ l(a).copy = a
        /\ loc' = [loc EXCEPT ![r] = l(a)] /\ "Update" \in Calls
    BY <1>3, Types DEF Locals, Inductive, TypeOK, Calls
  <2>2. CopyFits("Update", a, wrong)
    BY <1>3 DEF CopyFits
  <2>3. /\ pc' = [pc EXCEPT ![r] = "Update"] /\ wrong' \in Nat /\ wrong <= wrong'
        /\ faults' \in Nat /\ sinceClear' \in Nat /\ overlapped' \subseteq Requests
    BY <1>1, <1>3, Types DEF Goto
  <2>. HIDE DEF l
  <2>. QED  BY <1>1, <1>3, <2>1, <2>2, <2>3, CopyInductive
<1>4. /\ changed \in Accounts /\ changed.count = account.count
      /\ changed.locked = account.locked
  BY Types DEF Locals, Accounts
<1>5. Consistent(changed) /\ changed.count <= wrong
  BY <1>4, Types DEF Consistent
<1>6. /\ Unlocked(account) \in Accounts /\ Unlocked(account).count = 0
      /\ Unlocked(account).locked = FALSE
  BY Types DEF Unlocked, Accounts
<1>7. Consistent(Unlocked(account)) /\ Unlocked(account).count <= wrong
  BY <1>6, Types DEF Consistent
<1>. HIDE DEF changed
<1>. QED  BY <1>2, <1>3, <1>4, <1>5, <1>6, <1>7 DEF GetForUpdate, changed

LEMMA TokenInductive ==
  ASSUME Inductive, NEW r \in Requests, GenerateToken(r) PROVE Inductive'
<1>1. CASE Goto(r, "token") /\ UNCHANGED <<account, loc, faults, wrong, sinceClear, overlapped>>
  <2>1. CopyFits("token", loc[r].copy, wrong) /\ "token" \in Answers
    BY NeedsNone DEF Answers
  <2>. QED  BY <1>1, <2>1, Types, StayInductive
<1>. QED  BY <1>1, FailsInductive DEF GenerateToken

LEMMA SaveInductive ==
  ASSUME Inductive, NEW r \in Requests, SaveFailure(r) \/ ClearFailures(r) PROVE Inductive'
<1>. DEFINE a == loc[r].copy
            c == IF pc[r] = "SaveFailure" THEN "login_fail" ELSE "GenerateToken"
<1>0. a \in Accounts /\ CopyFits(pc[r], a, wrong) /\ pc[r] \in {"SaveFailure", "ClearFailures"}
  BY Types DEF SaveFailure, ClearFailures
<1>. HIDE DEF a
<1>1. a.count \in Nat /\ a.count <= 5 /\ a.count <= wrong
  BY <1>0 DEF CopyFits, Accounts, Consistent
<1>2. a.locked = FALSE
  BY <1>0 DEF CopyFits, Accounts, Consistent
<1>3. c \in Calls \cup Answers
      /\ c \notin {"SaveFailure", "ClearFailures", "Update"}
  BY DEF Calls, Answers
<1>4. /\ pc' = [pc EXCEPT ![r] = c] /\ UNCHANGED <<loc, wrong, overlapped>>
      /\ faults' \in Nat /\ sinceClear' \in Nat
  BY Types DEF SaveFailure, ClearFailures, Goto, Fault
<1>5. account' \in Accounts /\ Consistent(account)' /\ account'.count <= wrong
  <2>1. CASE SaveCounters(a)
    <3>1. /\ account' \in Accounts /\ account'.count = a.count
          /\ (account'.locked <=> a.locked \/ a.count > 4)
      BY <1>1, <2>1, Types DEF SaveCounters, Accounts
    <3>2. account'.locked <=> a.count = 5
      BY <1>1, <1>2, <3>1
    <3>. QED  BY <1>1, <3>1, <3>2 DEF Consistent
  <2>2. CASE UNCHANGED account
    BY <2>2, Types DEF Consistent
  <2>. QED  BY <2>1, <2>2 DEF SaveFailure, ClearFailures, a
<1>. HIDE DEF c
<1>. QED  BY <1>3, <1>4, <1>5, WriteInductive

LEMMA UpdateInductive ==
  ASSUME Inductive, NEW r \in Requests, Update(r) PROVE Inductive'
<1>1. CASE /\ account' = loc[r].copy
           /\ sinceClear' = IF loc[r].op = "unlock" THEN 0 ELSE sinceClear
           /\ \/ Goto(r, "200") /\ UNCHANGED faults
              \/ Goto(r, "failed") /\ Fault
           /\ UNCHANGED <<loc, wrong, overlapped>>
  <2>1. CopyFits("Update", loc[r].copy, wrong)
    BY Types DEF Update
  <2>2. account' \in Accounts /\ Consistent(account)' /\ account'.count <= wrong
    BY <1>1, <2>1, Types DEF CopyFits, Consistent
  <2>3. faults' \in Nat /\ sinceClear' \in Nat
    BY <1>1, Types DEF Fault
  <2>4. \E c \in {"200", "failed"} : c \in Answers /\ pc' = [pc EXCEPT ![r] = c]
    BY <1>1 DEF Goto, Answers
  <2>. QED  BY <1>1, <2>2, <2>3, <2>4, WriteInductive
<1>. QED  BY <1>1, FailsInductive DEF Update

LEMMA CrashInductive == ASSUME Inductive, Crash PROVE Inductive'
<1>1. TypeOK'
  BY DEF Crash, Fault, Inductive, TypeOK, Answers
<1>2. LockedAtFive' /\ CountEarned'
  BY DEF Crash, Inductive, LockedAtFive, Consistent, CountEarned
<1>3. CopiesConsistent'
  <2>1. \A r \in Requests : pc'[r] \in {pc[r], "lost"}
    BY DEF Crash
  <2>2. \A r \in Requests : CopyFits(pc'[r], loc[r].copy, wrong)
    BY <2>1, NeedsNone, Types
  <2>. QED  BY <2>2 DEF CopiesConsistent, CopyFits, Consistent, Crash
<1>. QED  BY <1>1, <1>2, <1>3 DEF Inductive

(* Every step keeps the invariant.                                          *)
LEMMA NextInductive == Inductive /\ [Next]_vars => Inductive'
<1>. SUFFICES ASSUME Inductive, [Next]_vars PROVE Inductive'
  OBVIOUS
<1>1. CASE UNCHANGED vars
  BY <1>1 DEF vars, Inductive, TypeOK, LockedAtFive, Consistent, CountEarned,
                CopiesConsistent, CopyFits
<1>. QED  BY <1>1, StartInductive, GetLoginInductive, GetForUpdateInductive, TokenInductive,
             SaveInductive, UpdateInductive, FailsInductive, CrashInductive
          DEF Next, GetFails

(* The invariant itself: besides the row, every copy of it that a request    *)
(* may yet write back is consistent.                                        *)
THEOREM InductiveAlways == Spec => []Inductive
  BY InitInductive, NextInductive, PTL DEF Spec

(* The row and the copies of it keep their shapes.                          *)
THEOREM TypeCorrect == Spec => []TypeOK
<1>1. Inductive => TypeOK  BY DEF Inductive
<1>. QED  BY <1>1, InitInductive, NextInductive, PTL DEF Spec

(* Locked exactly at five failures, and never past five, however many       *)
(* logins, unlocks and changes of password overlap, fail or are cut off.    *)
THEOREM LockExact == Spec => []LockedAtFive
<1>1. Inductive => LockedAtFive  BY DEF Inductive
<1>. QED  BY <1>1, InitInductive, NextInductive, PTL DEF Spec

(* Nobody is locked out by fewer wrong passwords than the row counts.       *)
THEOREM LockEarned == Spec => []CountEarned
<1>1. Inductive => CountEarned  BY DEF Inductive
<1>. QED  BY <1>1, InitInductive, NextInductive, PTL DEF Spec
=============================================================================
