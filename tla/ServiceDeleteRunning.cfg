SPECIFICATION Spec
CONSTANTS
    Requests = {r1}
    Seed = s
    Names = {n1, n2}
    NoRow = NoRow
    NoSvc = NoSvc
    MaxInFlight = 1
    MaxFaults = 0
    CanMove = FALSE
SYMMETRY Symmetry
CHECK_DEADLOCK FALSE
PROPERTY DeleteOnlyStopped
