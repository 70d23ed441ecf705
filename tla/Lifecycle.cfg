SPECIFICATION FairSpec
CONSTANTS
    Kinds = {"api", "worker"}
    Jobs = {j1, j2, j3}
INVARIANTS
    JobsFindAllOpen
    ShutdownSpoilsLittle
    CleanExitClosesAll
PROPERTY SignalEndsProcess
CHECK_DEADLOCK FALSE
