SPECIFICATION FairSpec
CONSTANTS
    Workers = 2
    FdLimit = 5
    MaxCallers = 0
    MaxOpened = 2
    MaxAuths = 1
    MaxInits = 0
    MaxStarts = 2
CHECK_DEADLOCK FALSE
PROPERTIES
    ServiceRestarts
