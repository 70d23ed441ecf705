SPECIFICATION SafeSpec
CONSTANTS
    Orgs = {o1, o2}
    Items = {i1}
    Calls = {c1, c2, c3}
    Worker = Worker
    None = None
    MaxFaults = 0
SYMMETRY Symmetry
INVARIANTS
    DeleteIsFinal
CHECK_DEADLOCK FALSE
