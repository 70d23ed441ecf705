SPECIFICATION Spec
CONSTANTS
    Orgs = {o1, o2}
    Ids = {i1, i2, i3}
    Names = {n1, n2}
    Limits = {1, 2, 12}
    Offsets = {0, 16}
    Half = 8
    Times = {1, 2, 3}
SYMMETRY Symmetry
INVARIANTS
    TypeOK
    SweepIsExact
    ListIsConsistent
CHECK_DEADLOCK FALSE
