CONSTANTS
    lead = lead
    offer = offer
    agreed = agreed
    w1 = w1
    w2 = w2
    Stages = {lead, offer, agreed}
    Agreement = {agreed}
    Patches <- MCPatches
    RuleSets <- MCRuleSets
    Workers = {w1, w2}
    MaxCalls = 4
    MaxFailures = 1
    Unset = Unset
    Anywhere = Anywhere
SYMMETRY MCSymmetry
SPECIFICATION Spec
INVARIANTS
    TypeOK
    RulesWhole
    CommissionRight
    AgreedDealHasFile
PROPERTY
    MovesDeclared
CHECK_DEADLOCK FALSE
