SPECIFICATION SafeSpec
CONSTANTS
    Subs = {s1}
    Backlog = 2
    BatchSize = 2
    MaxRetries = 3
    ErrCap = 1
    UseForwarder = FALSE
    MaxFaults = 4
INVARIANTS
    DocumentedBackoff
CHECK_DEADLOCK FALSE
