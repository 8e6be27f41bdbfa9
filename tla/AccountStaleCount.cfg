SPECIFICATION Spec
CONSTANTS
    Requests = {r1, r2}
    Passwords = {p1, p2}
    NoCheck = NoCheck
    Ops = {"login"}
    MaxInFlight = 2
    MaxFaults = 0
SYMMETRY Symmetry
CHECK_DEADLOCK FALSE
INVARIANT CountSinceLogin
