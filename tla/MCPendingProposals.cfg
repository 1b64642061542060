CONSTANTS
    Proposals = {p1}
    Requests = {r1, r2, r3, r4, r5}
    Existing = existing
    None = None
    Kinds = {"create", "update", "photos"}
    Skews <- MCSkews
SPECIFICATION Spec
SYMMETRY RequestSymmetry
INVARIANTS
    TypeOK
    ClaimOncePerStay
    NoPhantomAcceptance
    DuplicateHasCause
    AcceptedRowLives
PROPERTY
    LedgerSpec
\* Every request of the instance may have ended.
CHECK_DEADLOCK FALSE
