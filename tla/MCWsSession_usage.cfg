SPECIFICATION FairSpec
CONSTANTS
    ClientKeys = {c1}
    NoKey = NoKey
    MaxFrames = 3
    MaxSignals = 0
    OutCap = 1
CHECK_DEADLOCK FALSE
PROPERTIES
    RequestedUsageIsServed
