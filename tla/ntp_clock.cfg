CONSTANTS
    Hz = 2
    BuildTime = 3
    SaneMaxAge = 9
    Epsilon = 2
    Budget = 5
    MaxForward = 3
    UintMax = 19
    TotpStep = 3
    MaxNow = 14
    MaxSyncs = 4
SPECIFICATION Spec
INVARIANTS
    BudgetNeverOverrun
    WalkBackBounded
    WalkAheadBounded
PROPERTIES
    RollbackUnderOneStep
