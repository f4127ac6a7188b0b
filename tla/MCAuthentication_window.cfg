SPECIFICATION Spec
CONSTANTS
    Owners = {o1, o2}
    NoOwner = NoOwner
    Sessions = {s1, s2}
    Window = 2
    Width = 6
    MaxTime = 4
    MaxChanges = 1
SYMMETRY AccountSymmetry
CHECK_DEADLOCK FALSE
INVARIANTS
    TypeOK
    AcceptedByOwnerOfOpening
    AcceptedExactlyInWindow
