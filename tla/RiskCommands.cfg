CONSTANTS
    c1 = c1
    c2 = c2
    o1 = o1
    o2 = o2
    k1 = k1
    k2 = k2
    None = None
    Callers <- MCCallers
    Operators <- MCOperators
    References <- MCReferences
    EnforcedKeys <- MCEnforcedKeys
    RiskActions <- MCRiskActions
    FirstStates <- MCFirstStates
    Horizon = 0
    OperatorBound = 2
    CommandBound = 2
SYMMETRY MCSymmetry
SPECIFICATION Spec
INVARIANTS
    KeyRunsOnce
    AnswersTellTheTruth
    EventsAreAccountedFor
PROPERTY
    ReopenedOnlyByStaleRead
CHECK_DEADLOCK FALSE
