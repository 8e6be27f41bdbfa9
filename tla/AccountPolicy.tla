---------------------------- MODULE AccountPolicy ----------------------------
(***************************************************************************)
(* What the lock on an account promises, with every request one step: a     *)
(* wrong password counts, the fifth in a row locks the account, a           *)
(* successful login or an unlock starts the count again, and only a change  *)
(* of password changes the password.                                        *)
(***************************************************************************)
EXTENDS Naturals

CONSTANTS Passwords

VARIABLE account

Init ==
    account \in [password : Passwords, count : 0..5, locked : BOOLEAN]

FailedLogin ==
    /\ ~account.locked
    /\ account' = [account EXCEPT !.count = @ + 1, !.locked = account.count + 1 > 4]

Login ==
    /\ ~account.locked
    /\ account' = [account EXCEPT !.count = 0]

ChangePassword ==
    \E p \in Passwords : account' = [account EXCEPT !.password = p]

Unlock ==
    account' = [account EXCEPT !.count = 0, !.locked = FALSE]

Next == FailedLogin \/ Login \/ ChangePassword \/ Unlock

Spec == Init /\ [][Next]_account
=============================================================================
