CONSTANTS
    c1 = c1
    c2 = c2
    c3 = c3
    w1 = w1
    w2 = w2
    Contacts = {c1, c2, c3}
    Workers = {w1, w2}
    MaxCalls = 5
    MaxFailures = 1
    None = None
SYMMETRY MCSymmetry
SPECIFICATION Spec
INVARIANTS
    TypeOK
    RegisteredOnce
    ErasedIsForgotten
PROPERTY
    ClosedStaysClosed
CHECK_DEADLOCK FALSE
