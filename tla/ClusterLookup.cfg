SPECIFICATION Spec
CONSTANTS
    Requests = {r1, r2}
    Clusters = {c1, c2}
    Home = c1
    Zero = Zero
    Nil = Nil
    Nodes = {n1}
    Tasks = {t1, t2}
    Configs = {k1}
    MaxTries = 3
    MaxFaults = 1
    MaxChanges = 3
SYMMETRY Symmetry
CHECK_DEADLOCK FALSE
INVARIANTS TypeOK ChecksPlaced DockerOnFound NodeUpdatesKept StatusBracketed AuditExact
PROPERTY EachCallCounts
