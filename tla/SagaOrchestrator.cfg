SPECIFICATION FairSpec
CONSTANTS
    NSteps = 3
    StepTimeout = 2
    InvocationTimeouts = {0, 1, 3, 5}
    DefaultSagaTimeout = 0
    FallibleAppends = {"audit_budget", "audit_compensating", "audit_enqueued",
                       "audit_timed_out", "audit_completed"}
    TimerSkew = 1
    MaxElapsed = 6
INVARIANTS
    TypeOK
    EffectsHaveDurableIntent
    StrictReverseOrder
    FinalRecordIsSettled
    OutcomeMatchesWorld
    OutcomeIsDurable
    DeadLettersAccountedFor
    TimeoutVerdictFollowsBudget
    AuditNeverAheadOfRecord
PROPERTIES
    RowIsUndoStack
    RunSagaSettles
CHECK_DEADLOCK FALSE
