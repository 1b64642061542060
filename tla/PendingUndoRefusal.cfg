CONSTANTS
    Proposals = {p1}
    Requests = {r1, r2, r3}
    Existing = existing
    None = None
    Kinds = {"create", "update"}
    Skews <- NoSkew
SPECIFICATION Spec
SYMMETRY RequestSymmetry
INVARIANT RefusalMeansHumanEdit
CHECK_DEADLOCK FALSE
