SPECIFICATION FairSpec
CONSTANTS
    Workers = 2
    FdLimit = 5
    MaxCallers = 3
    MaxOpened = 2
    MaxAuths = 2
    MaxInits = 1
    MaxStarts = 2
CHECK_DEADLOCK FALSE
INVARIANTS
    TypeOK
    TasksAccountedFor
PROPERTIES
    HealthAnsweredUnlessStarved
    LostListenerComesBack
    ExhaustionIsCleared
    ServiceSpec
