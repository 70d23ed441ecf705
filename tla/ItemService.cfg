SPECIFICATION Spec
CONSTANTS
    Orgs = {o1, o2}
    Items = {i1}
    Calls = {c1, c2, c3}
    Worker = Worker
    None = None
    MaxFaults = 1
INVARIANTS
    TypeOK
    TenantIsolation
    InvalidationWorks
    EternalOnlyIfTorn
    DeletedForGood
PROPERTY StaleFadesOut
CHECK_DEADLOCK FALSE
