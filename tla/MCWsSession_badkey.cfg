SPECIFICATION Spec
CONSTANTS
    ClientKeys = {c1}
    NoKey = NoKey
    MaxFrames = 2
    MaxSignals = 0
    OutCap = 1
CHECK_DEADLOCK FALSE
INVARIANTS
    BadKeyIsAnswered
