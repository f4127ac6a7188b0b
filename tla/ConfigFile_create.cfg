SPECIFICATION Spec
CONSTANTS
    Creators = {c1, c2}
    Absent = Absent
    Garbled = Garbled
CHECK_DEADLOCK FALSE
INVARIANTS
    TypeOK
    ExistingFileKept
    SucceededLoads
