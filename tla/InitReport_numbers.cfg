SPECIFICATION Spec
CONSTANTS
    Grain = 4
    Span = 7
    I32Max = 1
    Sizes = {0, 2, 3}
    Junk = Junk
    MaxRows = 2
    Width = 6
    ProcLimit = 3
    MaxInits = 4
CHECK_DEADLOCK FALSE
INVARIANTS
    TypeOK
    ReportedPlaceIsNearest
    ReportedDiskIsSumOfDevices
    ReportsUseUpProcesses
