CONSTANTS
    plain2 = plain2
    plain1 = plain1
    early1 = early1
    Calls <- MCCalls
    Early <- MCEarly
    Savers = {saver}
    Limits = {limits1, limits2}
    Wipers = {wiper}
    Estimate <- MCEstimate
    Actual <- MCActual
    PoolLimit = 2
    LastDay = 2
    Free = Free
    None = None
SPECIFICATION Spec
CHECK_DEADLOCK FALSE
INVARIANTS CountsMatchEvents TokensAccounted BudgetHeld BreaksNeedThreads PatchedAfterWipeOnly
CONSTRAINT FourStart
SYMMETRY LimitsSymmetry
