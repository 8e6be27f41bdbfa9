SPECIFICATION Spec
CONSTANTS
    Requests = {r1, r2, r3}
    Passwords = {p1, p2}
    NoCheck = NoCheck
    Ops = {"login", "password", "unlock"}
    MaxInFlight = 3
    MaxFaults = 1
SYMMETRY Symmetry
CHECK_DEADLOCK FALSE
INVARIANTS TypeOK LockedAtFive CountEarned CountSinceLoginAlone Inductive
PROPERTY PolicyWhenAlone
