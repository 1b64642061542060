CONSTANTS
    a = a
    b = b
    w1 = w1
    w2 = w2
    Contents = {a, b}
    Workers = {w1, w2}
    MaxVersions = 3
    MaxCalls = 5
    MaxFailures = 1
    None = None
SYMMETRY MCSymmetry
SPECIFICATION Spec
INVARIANTS
    TypeOK
    VersionsWhole
    NewestIsCurrent
    NoOrphans
PROPERTY
    LogSpec
CHECK_DEADLOCK FALSE
