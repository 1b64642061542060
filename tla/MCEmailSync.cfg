CONSTANTS
    Count = 4
    i1 = i1
    i2 = i2
    i3 = i3
    i4 = i4
    ana = ana
    eva = eva
    Messages = {i1, i2, i3, i4}
    Mailbox <- MCMailbox
    SenderOf <- MCSenderOf
    NameOnly = {eva}
    RootOf <- MCRootOf
    Leads = {i1, i3}
    Undated = {i2}
    Runners = {n1, n2}
    Batch = 2
    MaxFailures = 1
    None = None
SPECIFICATION Spec
INVARIANTS
    TypeOK
    CursorCovers
    DuplicatesOverlap
    LeadReachesTimeline
PROPERTIES
    IntakeSpec
    StorableStored
