SPECIFICATION Spec
CONSTANTS
    Requests = {r1, r2, r3}
    Seed = s
    Names = {n1, n2}
    NoRow = NoRow
    NoSvc = NoSvc
    MaxInFlight = 1
    MaxFaults = 2
    CanMove = FALSE
SYMMETRY Symmetry
CHECK_DEADLOCK FALSE
INVARIANTS NoOrphans RedeployRunsLatest
PROPERTY ImplementsRegistry
