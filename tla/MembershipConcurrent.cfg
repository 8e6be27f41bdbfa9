SPECIFICATION Spec
CONSTANTS
    Requests = {r1, r2, r3}
    FirstUser = u
    FirstRoles = {i1}
    Usernames = {a, b}
    Names = {empty, n1}
    Empty = empty
    MaxNamed = 1
    None = None
    MaxInFlight = 3
    MaxConns = 2
    MaxFaults = 1
SYMMETRY Symmetry
CHECK_DEADLOCK FALSE
INVARIANTS TypeOK UsersWhole TokenRolesHeld NotAllWait Inductive
PROPERTY ImplementsUserTables
