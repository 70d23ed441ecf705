SPECIFICATION Spec
CONSTANTS
    Subs = {s1}
    Backlog = 3
    BatchSize = 2
    MaxRetries = 3
    ErrCap = 1
    UseForwarder = TRUE
    MaxFaults = 6
PROPERTIES
    CallsReturn
    LoopComesBack
    EveryMessageHandled
CHECK_DEADLOCK FALSE
