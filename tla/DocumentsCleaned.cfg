CONSTANTS
    a = a
    b = b
    w1 = w1
    w2 = w2
    Contents = {a, b}
    Workers = {w1, w2}
    MaxVersions = 4
    MaxCalls = 4
    MaxFailures = 0
    None = None
SYMMETRY MCSymmetry
SPECIFICATION Spec
PROPERTY
    CleansOnlyOrphans
CHECK_DEADLOCK FALSE
