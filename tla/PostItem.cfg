SPECIFICATION FairSpec
CONSTANTS
    MinName = 3
    MaxName = 4
    Longest = 4
    Names <- MCNames
    OwnerLengths = {2, 3}
    Bodies = {"json", "trailing", "malformed", "big", "slow"}
INVARIANTS
    ValidatorsAgree
    HonestStatus
    AnswersComeInTime
    LogIsTrueInTime
PROPERTY EveryRequestEnds
CHECK_DEADLOCK FALSE
