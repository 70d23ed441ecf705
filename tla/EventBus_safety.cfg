SPECIFICATION SafeSpec
CONSTANTS
    Subs = {s1, s2}
    Backlog = 3
    BatchSize = 2
    MaxRetries = 3
    ErrCap = 1
    UseForwarder = TRUE
    MaxFaults = 3
SYMMETRY Symmetry
INVARIANTS
    TypeOK
    HandledUpToOffset
    DrainedOrTimedOut
CHECK_DEADLOCK FALSE
