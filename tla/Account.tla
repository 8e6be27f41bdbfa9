------------------------------- MODULE Account -------------------------------
(***************************************************************************)
(* Login, change of password and unlock of one account: identity/           *)
(* membership.go reads the row of the table `accounts`, works on its copy   *)
(* and writes the copy back in a later call (identity/account.go), without  *)
(* a transaction and without a check that the row is still the one read.    *)
(***************************************************************************)
EXTENDS Naturals, FiniteSets

CONSTANTS
    Requests,     \* the requests, each served once
    Passwords,    \* the passwords in use
    NoCheck,      \* an administrator changes a password without the old one
    Ops,          \* the operations the requests may be
    MaxInFlight,  \* how many requests are served at a time
    MaxFaults     \* how many calls fail and how often the process dies

ASSUME OpsAssumption == Ops \subseteq {"login", "password", "unlock"}
ASSUME NoCheckAssumption == NoCheck \notin Passwords
ASSUME BoundsAssumption == MaxInFlight \in Nat /\ MaxFaults \in Nat

(* A row of accounts: the password its hash and salt accept, the failed     *)
(* password attempts and the lock.                                          *)
Accounts == [password : Passwords, count : Nat, locked : BOOLEAN]

(* op, the operation; given, the password of the request; old, the old      *)
(* password of a change; copy, the account it works on.                     *)
Locals == [op : {"login", "password", "unlock"}, given : Passwords,
           old : Passwords \cup {NoCheck}, copy : Accounts]

Calls == {"Get", "SaveFailure", "ClearFailures", "GenerateToken", "Update"}

Answers == {"token", "login_fail", "locked", "refused", "200", "failed", "lost"}

VARIABLES
    account,     \* the row
    pc,          \* the call each request makes next, or its answer
    loc,         \* the locals of each request
    faults,      \* failed calls and crashes so far
    wrong,       \* history: wrong passwords compared so far
    sinceClear,  \* history: failures written since the last login or unlock
    overlapped   \* history: the requests served while another one was

vars == <<account, pc, loc, faults, wrong, sinceClear, overlapped>>

Init ==
    /\ \E p \in Passwords, n \in 0..5 :
          /\ account = [password |-> p, count |-> n, locked |-> n > 4]
          /\ wrong = n /\ sinceClear = n
    /\ pc = [r \in Requests |-> "idle"]
    /\ \E p \in Passwords :
          loc = [r \in Requests |->
             [op |-> "login", given |-> p, old |-> NoCheck,
              copy |-> [password |-> p, count |-> 0, locked |-> FALSE]]]
    /\ faults = 0
    /\ overlapped = {}

-----------------------------------------------------------------------------

Fault == faults < MaxFaults /\ faults' = faults + 1

Active == {r \in Requests : pc[r] \in Calls}

Goto(r, call) == pc' = [pc EXCEPT ![r] = call]

Fails(r) ==
    /\ Fault /\ Goto(r, "failed")
    /\ UNCHANGED <<account, loc, wrong, sinceClear, overlapped>>

(* A new password that is too long, or not confirmed, is refused unread.    *)
Start(r) ==
    /\ pc[r] = "idle"
    /\ Cardinality(Active) < MaxInFlight
    /\ \E op \in Ops, given \in Passwords, old \in Passwords \cup {NoCheck} :
          /\ loc' = [loc EXCEPT ![r].op = op, ![r].given = given, ![r].old = old]
          /\ \/ Goto(r, "Get")
             \/ op = "password" /\ Goto(r, "refused")
    /\ overlapped' = IF Active = {} THEN overlapped ELSE overlapped \cup Active \cup {r}
    /\ UNCHANGED <<account, faults, wrong, sinceClear>>

(* Slips the runs must catch: an unlock that writes only the columns it     *)
(* sets, forgets the lock or forgets the count; a failure that is not       *)
(* checked against the limit; a count added to the row's instead of written *)
(* over it.                                                                 *)
UnlockedPartRow(a) == [count |-> 0, locked |-> FALSE]
UnlockedKeepsLock(a) == [a EXCEPT !.count = 0]
UnlockedKeepsCount(a) == [a EXCEPT !.locked = FALSE]
SaveCountersNoLimit(a) ==
    account' = [account EXCEPT !.count = a.count, !.locked = a.locked]
SaveCountersAdds(a) ==
    account' = [account EXCEPT !.count = @ + a.count, !.locked = a.locked \/ a.count > 4]

(* The account is refused before its password is compared. *)
Refused(a) == a.count > 4 \/ a.locked

(* The copy after a wrong password, and after an unlock. *)
Failed(a) == [a EXCEPT !.count = @ + 1]
Unlocked(a) == [a EXCEPT !.count = 0, !.locked = FALSE]

(* Login up to the comparison of the hashes; createLoginLog is empty, and   *)
(* the time of the last login, which nothing reads, is left out.  With the  *)
(* right password only a count that was read above zero is cleared.         *)
GetLogin(r) ==
    /\ pc[r] = "Get" /\ loc[r].op = "login"
    /\ \/ /\ Refused(account)
          /\ Goto(r, "locked") /\ UNCHANGED <<loc, wrong>>
       \/ /\ ~Refused(account) /\ loc[r].given # account.password
          /\ Goto(r, "SaveFailure")
          /\ loc' = [loc EXCEPT ![r].copy = Failed(account)]
          /\ wrong' = wrong + 1
       \/ /\ ~Refused(account) /\ loc[r].given = account.password
          /\ Goto(r, IF account.count > 0 THEN "ClearFailures" ELSE "GenerateToken")
          /\ loc' = [loc EXCEPT ![r].copy = [account EXCEPT !.count = 0]]
          /\ UNCHANGED wrong
    /\ UNCHANGED <<account, faults, sinceClear, overlapped>>

(* UpdateAccountPassword and UpdateAccountLock up to their write. *)
GetForUpdate(r) ==
    /\ pc[r] = "Get" /\ loc[r].op # "login"
    /\ \/ /\ loc[r].op = "password" /\ loc[r].old \notin {NoCheck, account.password}
          /\ Goto(r, "refused") /\ UNCHANGED loc
       \/ /\ loc[r].op = "password" /\ loc[r].old \in {NoCheck, account.password}
          /\ Goto(r, "Update")
          /\ loc' = [loc EXCEPT ![r].copy = [account EXCEPT !.password = loc[r].given]]
       \/ /\ loc[r].op = "unlock"
          /\ Goto(r, "Update")
          /\ loc' = [loc EXCEPT ![r].copy = Unlocked(account)]
    /\ UNCHANGED <<account, faults, wrong, sinceClear, overlapped>>

GetFails(r) == pc[r] = "Get" /\ Fails(r)

(* UpdateAccountFailPassword writes the two lock columns, and locks at five. *)
SaveCounters(a) ==
    account' = [account EXCEPT !.count = a.count, !.locked = a.locked \/ a.count > 4]

(* Its error is ignored. *)
SaveFailure(r) ==
    /\ pc[r] = "SaveFailure"
    /\ \/ /\ SaveCounters(loc[r].copy) /\ sinceClear' = sinceClear + 1
          /\ UNCHANGED faults
       \/ Fault /\ UNCHANGED <<account, sinceClear>>
    /\ Goto(r, "login_fail")
    /\ UNCHANGED <<loc, wrong, overlapped>>

ClearFailures(r) ==
    /\ pc[r] = "ClearFailures"
    /\ \/ /\ SaveCounters(loc[r].copy) /\ sinceClear' = 0
          /\ UNCHANGED faults
       \/ Fault /\ UNCHANGED <<account, sinceClear>>
    /\ Goto(r, "GenerateToken")
    /\ UNCHANGED <<loc, wrong, overlapped>>

(* It reads the profile and the roles of the user and signs the token.      *)
GenerateToken(r) ==
    /\ pc[r] = "GenerateToken"
    /\ \/ /\ Goto(r, "token")
          /\ UNCHANGED <<account, loc, faults, wrong, sinceClear, overlapped>>
       \/ Fails(r)

(* AccountRepo.Update writes every column of the copy.  On an error the row *)
(* may be written all the same.                                             *)
Update(r) ==
    /\ pc[r] = "Update"
    /\ \/ /\ account' = loc[r].copy
          /\ sinceClear' = IF loc[r].op = "unlock" THEN 0 ELSE sinceClear
          /\ \/ Goto(r, "200") /\ UNCHANGED faults
             \/ Goto(r, "failed") /\ Fault
          /\ UNCHANGED <<loc, wrong, overlapped>>
       \/ Fails(r)

(* The process dies and is started again. *)
Crash ==
    /\ Active # {} /\ Fault
    /\ pc' = [r \in Requests |-> IF r \in Active THEN "lost" ELSE pc[r]]
    /\ UNCHANGED <<account, loc, wrong, sinceClear, overlapped>>

Next ==
    \/ \E r \in Requests :
          \/ Start(r) \/ GetLogin(r) \/ GetForUpdate(r) \/ GetFails(r)
          \/ SaveFailure(r) \/ ClearFailures(r) \/ GenerateToken(r)
          \/ Update(r)
    \/ Crash

Spec == Init /\ [][Next]_vars

-----------------------------------------------------------------------------
(* Properties *)

(* Type invariant: the row and the copies of it. *)
TypeOK ==
    /\ account \in Accounts
    /\ pc \in [Requests -> {"idle"} \cup Calls \cup Answers]
    /\ loc \in [Requests -> Locals]
    /\ faults \in Nat /\ wrong \in Nat /\ sinceClear \in Nat
    /\ overlapped \subseteq Requests

(* An account is locked exactly when its count is five and the count never  *)
(* passes five, however the copies that the requests write back overlap:    *)
(* Login refuses on either column (membership.go:322-327), so a row in      *)
(* which they disagree would be refused or admitted for the wrong reason.   *)
Consistent(a) == a.count <= 5 /\ (a.locked <=> a.count = 5)

LockedAtFive == Consistent(account)

(* No account is counted or locked for more wrong passwords than were given. *)
CountEarned == account.count <= wrong

(* membership.go:349 "a successful login clears the number of failures":    *)
(* the row counts no more failures than were written since the last login   *)
(* or unlock that wrote it.                                                 *)
CountSinceLogin == account.count <= sinceClear

(* It is true for as long as no two requests were served at a time.         *)
CountSinceLoginAlone == overlapped = {} => CountSinceLogin

P == INSTANCE AccountPolicy

(* What a request that was served alone writes is one step of the policy,   *)
(* whatever overlapping requests wrote before it.                           *)
PolicyWhenAlone ==
    /\ P!Init
    /\ [][(\E r \in Requests \ overlapped : pc'[r] # pc[r]) => P!Next]_account

(* LockedAtFive and CountEarned are inductive together with the same facts  *)
(* about the copies that are about to be written.                           *)
CopyFits(call, a, given) ==
    /\ call \in {"ClearFailures", "Update"} => Consistent(a)
    /\ call = "SaveFailure" => a.count <= 5 /\ a.locked = FALSE
    /\ call = "ClearFailures" => a.count = 0
    /\ call \in {"SaveFailure", "ClearFailures", "Update"} => a.count <= given

CopiesConsistent == \A r \in Requests : CopyFits(pc[r], loc[r].copy, wrong)

Inductive == TypeOK /\ LockedAtFive /\ CountEarned /\ CopiesConsistent
=============================================================================
