CONSTANTS
    c1 = c1
    c2 = c2
    l1 = l1
    a1 = a1
    none = none
    None = none
    Callers <- MCCallers
    Repairers <- MCRepairers
    Liquidations <- MCLiquidations
    Adls <- MCAdls
    Versions <- MCVersions
    Horizon = 0
    CommandBound = 2
SPECIFICATION Spec
PROPERTY
    OnlyStaleReadsHarm
CHECK_DEADLOCK FALSE
