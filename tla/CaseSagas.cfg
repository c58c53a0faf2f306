CONSTANTS
    r1 = r1
    r2 = r2
    k1 = k1
    none = none
    Runs <- MCRuns
    Cases <- MCCases
    KindsOf <- MCKindsOf
    None = none
    Targets = 2
    Checks = 1
    RestartBound = 1
    RefusalBound = 1
SPECIFICATION Spec
CHECK_DEADLOCK FALSE
INVARIANTS
    OutcomeIsTrueOfEngines
    EffectsOnce
    RunsAreIdentified
