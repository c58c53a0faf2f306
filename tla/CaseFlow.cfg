CONSTANTS
    c1 = c1
    r1 = r1
    l1 = l1
    a1 = a1
    none = none
    None = none
    Callers <- MCCallers
    Repairers <- MCRepairers
    Liquidations <- MCLiquidations
    Adls <- MCAdls
    Versions <- MCVersions
    Horizon = 1
    CommandBound = 2
SPECIFICATION Spec
INVARIANTS
    FailureReachesRiskCase
    CloseMeansAllSucceeded
    RepairedMeansStored
PROPERTY
    FactsStayEquivalent
CHECK_DEADLOCK FALSE
