SPECIFICATION Spec
CONSTANTS
    Requests = {r1, r2, r3}
    Seed = s
    Names = {n1, n2}
    NoRow = NoRow
    NoSvc = NoSvc
    MaxInFlight = 2
    MaxFaults = 1
    CanMove = TRUE
SYMMETRY Symmetry
CHECK_DEADLOCK FALSE
INVARIANTS TypeOK Inductive DeletedStayDeleted
PROPERTIES ImplementsDeployment DeploysNotOlder
