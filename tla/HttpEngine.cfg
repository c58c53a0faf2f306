SPECIFICATION FairSpec
CONSTANTS
    Callers = {c1, c2, c3}
    MaxAttempts = 2
    Threshold = 2
    ResetTimeout = 1
    MaxConcurrency = 2
    NoTrace = NoTrace
INVARIANTS
    SlotsAccountedFor
    BreakerMatchesCalls
    NothingSentAfterShutdown
PROPERTIES
    CallsAreAnswered
    ShutdownEnds
