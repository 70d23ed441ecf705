SPECIFICATION FairSpec
CONSTANT MaxChanges = 2
INVARIANTS
    StatusIsEarned
    BlameHasCause
PROPERTY HealthAnswers
CHECK_DEADLOCK FALSE
