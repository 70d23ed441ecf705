SPECIFICATION Spec
CONSTANTS
    Requests = {r1, r2}
    Ids = {i1}
    Apis = {a1, a2}
    Workers = {w1}
    None = None
    BatchSize = 2
    MaxFaults = 1
INVARIANTS
    TypeOK
    AtomicOutbox
    HonestReply
    NothingSkipped
    FirstCopiesInOrder
    HandledInOrder
PROPERTIES
    EveryCommitHandled
    KeepsPromise
CHECK_DEADLOCK FALSE
