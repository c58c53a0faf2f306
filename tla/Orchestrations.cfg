CONSTANTS
    v1 = v1
    v2 = v2
    p1 = p1
    p2 = p2
    risk = risk
    liquidation = liquidation
    q1 = q1
    None = None
    Versions <- MCVersions
    ContentOf <- MCContentOf
    Registered <- MCRegistered
    Descriptors <- MCDescriptors
    RiskCases <- MCRiskCases
    LiquidationCases <- MCLiquidationCases
    Requests <- MCRequests
    CaseViews <- MCCaseViews
    Losses <- MCLosses
    RunBound = 2
    OperationBound = 3
SPECIFICATION Spec
INVARIANTS
    TrailExplainsActive
    RunsAreAccountedFor
CHECK_DEADLOCK FALSE
