SPECIFICATION Spec
CONSTANTS
    Names = {n1, n2, n3}
    Slots = {e1, e2}
    NoRole = NoRole
    All = All
    PageSizes = {0, 1, 2, 101}
SYMMETRY Symmetry
CHECK_DEADLOCK FALSE
INVARIANTS TypeOK ListExact PagesExact
