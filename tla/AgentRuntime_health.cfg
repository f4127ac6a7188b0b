SPECIFICATION FairSpec
CONSTANTS
    Workers = 2
    FdLimit = 8
    MaxCallers = 0
    MaxOpened = 1
    MaxAuths = 2
    MaxInits = 0
    MaxStarts = 1
CHECK_DEADLOCK FALSE
PROPERTIES
    HealthAnswered
