CONSTANTS
    ws1 = ws1
    ws2 = ws2
    agent = agent
    admin = admin
    w1 = w1
    w2 = w2
    Tenants = {ws1, ws2}
    Roles = {agent, admin}
    Workers = {w1, w2}
    TTL = 1
    MaxLag = 1
    MaxChanges = 2
    MaxFailures = 1
    NoRow = NoRow
SYMMETRY MCSymmetry
SPECIFICATION Spec
INVARIANTS
    TypeOK
    SnapshotHonest
    StaleBounded
PROPERTY
    EditKeepsWorkspace
CHECK_DEADLOCK FALSE
