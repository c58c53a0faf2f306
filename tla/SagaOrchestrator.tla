-------------------------- MODULE SagaOrchestrator --------------------------
(***************************************************************************)
(* One invocation of runSaga (application/src/saga/saga-orchestrator.ts):  *)
(* the forward phase, the compensation phase, every save of the saga row,  *)
(* every audit append and every dead letter, with the step timer and the   *)
(* saga's time budget.  The steps themselves are remote calls: a call that *)
(* was sent stays in flight until its effect lands, whether or not the     *)
(* orchestrator still waits for it.                                        *)
(*                                                                         *)
(* Each await of the source is a value of pc; what runs between two awaits *)
(* is one atomic action, as it is on the JavaScript event loop.  Steps are *)
(* numbered from 1 (from 0 in the source).                                 *)
(*                                                                         *)
(* Operators whose comment starts with "Faulty:" are not part of the       *)
(* specification: each is a slip that the definition after it could        *)
(* contain, kept to see that a property catches it.                        *)
(***************************************************************************)
EXTENDS Naturals, Sequences

CONSTANTS
    NSteps,              \* steps.length
    StepTimeout,         \* options.defaultStepTimeoutMs, in clock ticks
    InvocationTimeouts,  \* values of invocation.sagaTimeoutMs; 0: not configured
    DefaultSagaTimeout,  \* options.defaultSagaTimeoutMs; 0: not configured
    FallibleAppends,     \* points whose audit append may fail (it changes nothing else)
    TimerSkew,           \* how many ticks a timer may fire before clock() agrees
    MaxElapsed           \* elapsed time saturates here: every later instant is alike

\* A step timeout of 0 would fail every saga at its first step; callers
\* configure a positive one (the default is 30 s).
ASSUME StepTimeoutAssumption == NSteps \in Nat /\ StepTimeout \in Nat \ {0}
ASSUME BudgetAssumption == /\ InvocationTimeouts \subseteq Nat
                           /\ DefaultSagaTimeout \in Nat
                           /\ TimerSkew \in Nat
\* Elapsed time is only ever compared with a budget, so a ceiling at or above
\* every budget loses nothing.
ASSUME MaxElapsedAssumption == /\ MaxElapsed \in Nat
                               /\ DefaultSagaTimeout <= MaxElapsed
                               /\ \A t \in InvocationTimeouts : t <= MaxElapsed

VARIABLES
    \* InternalSagaState
    overallStatus, currentStepIndex, stepStatuses, compensationContexts,
    \* locals of runSaga and runCompensationPhase
    pc, i, j, succeeded, elapsedBeforeStep, effectiveStepTimeout,
    failure,             \* error code of the first failure
    overallTimedOut, result,
    \* clocks
    invocationTimeout, elapsed, timer,
    \* what outlives the process: saga row, dead letters, audit trail, the world
    durable, deadLetters, audit, inFlight, world,
    degraded             \* steps reported to onDegradedFailure as not enqueued

memory == <<overallStatus, currentStepIndex, stepStatuses, compensationContexts>>
locals == <<i, j, succeeded, elapsedBeforeStep, effectiveStepTimeout, failure,
            overallTimedOut>>
clocks == <<invocationTimeout, elapsed, timer>>
remote == <<inFlight, world>>
letters == <<deadLetters, degraded>>
vars == <<memory, locals, clocks, remote, letters, pc, result, durable, audit>>

Steps == 1 .. NSteps
StepStatus == {"pending", "executing", "succeeded", "failed", "compensating",
               "compensated", "dead_lettered"}
Settled == {"compensated", "dead_lettered"}
Terminal == {"completed", "compensated", "partially_compensated", "timed_out"}
OverallStatus == {"in_progress", "compensating"} \cup Terminal

SavePoints == {"save_started", "save_budget", "save_executing", "save_outcome",
               "save_compensating", "save_step_compensating",
               "save_compensate_outcome", "save_final"}
AuditPoints == {"audit_started", "audit_budget", "audit_outcome",
                "audit_compensating", "audit_compensate_outcome",
                "audit_enqueued", "audit_timed_out", "audit_completed"}
Done == {"returned", "rejected", "crashed"}
ProgramPoints == SavePoints \cup AuditPoints \cup Done
                 \cup {"forward", "execute", "failed", "backward", "compensate",
                       "enqueue"}

Calls == {"execute", "compensate"} \X Steps
AuditEvents == [type : {"saga.started", "saga.compensation.started",
                        "saga.timed_out", "saga.completed"}]
               \cup [type : {"saga.step.execute", "saga.step.compensate"},
                     step : Steps, ok : BOOLEAN]
               \cup [type : {"saga.dead_letter.enqueued"}, step : Steps]

-----------------------------------------------------------------------------
(***************************************************************************)
(* Pure helpers of the source.                                             *)
(***************************************************************************)

\* invocation.sagaTimeoutMs wins over the default; 0 stands for infinity.
SagaTimeout == IF invocationTimeout > 0 THEN invocationTimeout
                                        ELSE DefaultSagaTimeout
SagaBounded == SagaTimeout > 0

\* Faulty: the remaining budget is not capped by the step timeout.
UncappedStepTimeout(e) ==
    IF ~SagaBounded THEN StepTimeout
    ELSE IF SagaTimeout <= e THEN 0 ELSE SagaTimeout - e

\* computeEffectiveStepTimeoutMs
EffectiveStepTimeout(e) ==
    IF ~SagaBounded THEN StepTimeout
    ELSE IF SagaTimeout <= e THEN 0
    ELSE IF SagaTimeout - e < StepTimeout THEN SagaTimeout - e
    ELSE StepTimeout

IsStepEligibleForCompensation(status) == status = "succeeded"

AggregateCompensationOutcome(statuses) ==
    IF \E s \in Steps : statuses[s] = "dead_lettered"
    THEN "partially_compensated" ELSE "compensated"

\* Faulty: the clock is read again after the timer fired (KI-P8-003).
StepTimeoutIsOverallNow(code) ==
    code = "TQ-SAG-001" /\ SagaBounded /\ elapsed >= SagaTimeout

\* The verdict on a failed step: the timeout is the saga's when the timer was
\* installed with all that was left of the budget.
StepTimeoutIsOverall(code) ==
    /\ code = "TQ-SAG-001"
    /\ SagaBounded
    /\ elapsedBeforeStep + effectiveStepTimeout >= SagaTimeout

SagaResultOf(status) == IF status \in Terminal THEN status ELSE "completed"

\* Faulty: the backward loop walks the succeeded steps in execution order.
FirstSucceededFirst == succeeded[Len(succeeded) + 1 - j]

\* The succeeded entry the backward loop is at: j counts down from the end.
StepToCompensate == succeeded[j]

\* Faulty: the contexts stay in memory.
SnapshotWithoutContexts ==
    [overall |-> overallStatus, index |-> currentStepIndex,
     statuses |-> stepStatuses, contexts |-> <<>>]

BuildSnapshot == [overall |-> overallStatus, index |-> currentStepIndex,
                  statuses |-> stepStatuses, contexts |-> compensationContexts]

NoRow == [overall |-> "none", index |-> 1,
          statuses |-> [s \in Steps |-> "pending"], contexts |-> <<>>]

-----------------------------------------------------------------------------
(***************************************************************************)
(* The two port calls the orchestrator makes everywhere.                   *)
(***************************************************************************)

\* A save that is acknowledged: the row is replaced as a whole.
SaveOk(from, to) ==
    /\ pc = from
    /\ durable' = BuildSnapshot
    /\ pc' = to
    /\ UNCHANGED result

\* A save that fails is fatal: runSaga returns TQ-SAG-002 at once.  The row
\* may have been written all the same (the acknowledgement was lost).
SaveFails ==
    /\ pc \in SavePoints
    /\ durable' \in {durable, BuildSnapshot}
    /\ pc' = "returned"
    /\ result' = "error"
    /\ UNCHANGED <<memory, locals, clocks, remote, letters, audit>>

\* An audit append that fails is reported and otherwise ignored.
AuditAppend(from, event, to) ==
    /\ pc = from
    /\ \/ audit' = audit \cup {event}
       \/ from \in FallibleAppends /\ audit' = audit
    /\ pc' = to

-----------------------------------------------------------------------------
Init ==
    /\ overallStatus = "in_progress"
    /\ currentStepIndex = 1
    /\ stepStatuses = [s \in Steps |-> "pending"]
    /\ compensationContexts = <<>>
    /\ pc = "save_started"
    /\ i = 1 /\ j = 0
    /\ succeeded = <<>>
    /\ elapsedBeforeStep = 0 /\ effectiveStepTimeout = 0
    /\ failure = "none"
    /\ overallTimedOut = FALSE
    /\ result = "none"
    /\ invocationTimeout \in InvocationTimeouts
    /\ elapsed = 0 /\ timer = 0
    /\ durable = NoRow
    /\ deadLetters = {} /\ degraded = {}
    /\ audit = {}
    /\ inFlight = {}
    /\ world = [s \in Steps |-> "clean"]

SaveStarted ==
    /\ SaveOk("save_started", "audit_started")
    /\ UNCHANGED <<memory, locals, clocks, remote, letters, audit>>

AuditStarted ==
    /\ AuditAppend("audit_started", [type |-> "saga.started"], "forward")
    /\ UNCHANGED <<memory, locals, clocks, remote, letters, durable, result>>

-----------------------------------------------------------------------------
(***************************************************************************)
(* Forward phase.                                                          *)
(***************************************************************************)

\* Head of the loop: the budget is spent, so step i fails without starting.
ExhaustBudget ==
    /\ pc = "forward" /\ i <= NSteps
    /\ currentStepIndex' = i
    /\ elapsedBeforeStep' = elapsed
    /\ effectiveStepTimeout' = EffectiveStepTimeout(elapsed)
    /\ EffectiveStepTimeout(elapsed) = 0
    /\ stepStatuses' = [stepStatuses EXCEPT ![i] = "failed"]
    /\ failure' = "TQ-SAG-004"
    /\ pc' = "save_budget"
    /\ UNCHANGED <<overallStatus, compensationContexts, i, j, succeeded,
                   overallTimedOut, clocks, remote, letters, result, durable,
                   audit>>

SaveBudget ==
    /\ SaveOk("save_budget", "audit_budget")
    /\ UNCHANGED <<memory, locals, clocks, remote, letters, audit>>

AuditBudget ==
    /\ AuditAppend("audit_budget",
                   [type |-> "saga.step.execute", step |-> i, ok |-> FALSE],
                   "failed")
    /\ overallTimedOut' = TRUE
    /\ UNCHANGED <<memory, i, j, succeeded, elapsedBeforeStep,
                   effectiveStepTimeout, failure, clocks, remote, letters,
                   durable, result>>

\* Head of the loop: step i is marked executing before it is called.
StartStep ==
    /\ pc = "forward" /\ i <= NSteps
    /\ currentStepIndex' = i
    /\ elapsedBeforeStep' = elapsed
    /\ effectiveStepTimeout' = EffectiveStepTimeout(elapsed)
    /\ EffectiveStepTimeout(elapsed) > 0
    /\ stepStatuses' = [stepStatuses EXCEPT ![i] = "executing"]
    /\ pc' = "save_executing"
    /\ UNCHANGED <<overallStatus, compensationContexts, i, j, succeeded, failure,
                   overallTimedOut, clocks, remote, letters, result, durable,
                   audit>>

\* Faulty: the step is called without waiting for the save.
ExecuteBeforeSave ==
    /\ pc = "save_executing" /\ pc' = "execute"
    /\ inFlight' = inFlight \cup {<<"execute", i>>}
    /\ timer' = effectiveStepTimeout
    /\ UNCHANGED <<memory, locals, invocationTimeout, elapsed, world, letters,
                   audit, durable, result>>

\* Once the row says executing, step.execute is called and its timer installed.
SaveExecuting ==
    /\ SaveOk("save_executing", "execute")
    /\ inFlight' = inFlight \cup {<<"execute", i>>}
    /\ timer' = effectiveStepTimeout
    /\ UNCHANGED <<memory, locals, invocationTimeout, elapsed, world, letters,
                   audit>>

ExecuteSucceeds ==
    /\ pc = "execute"
    /\ <<"execute", i>> \notin inFlight
    /\ succeeded' = Append(succeeded, i)
    /\ stepStatuses' = [stepStatuses EXCEPT ![i] = "succeeded"]
    /\ compensationContexts' = Append(compensationContexts, i)
    /\ timer' = 0
    /\ pc' = "save_outcome"
    /\ UNCHANGED <<overallStatus, currentStepIndex, i, j, elapsedBeforeStep,
                   effectiveStepTimeout, failure, overallTimedOut,
                   invocationTimeout, elapsed, remote, letters, result, durable,
                   audit>>

\* Marks step i failed with the given error code.  The call is left as it is:
\* its effect may have landed, may land later, or never.
FailStep(code) ==
    /\ pc = "execute"
    /\ stepStatuses' = [stepStatuses EXCEPT ![i] = "failed"]
    /\ failure' = code
    /\ timer' = 0
    /\ pc' = "save_outcome"
    /\ UNCHANGED <<overallStatus, currentStepIndex, compensationContexts, i, j,
                   succeeded, elapsedBeforeStep, effectiveStepTimeout,
                   overallTimedOut, invocationTimeout, elapsed, remote, letters,
                   result, durable, audit>>

\* step.execute answers with an error, its own timeout code included.
ExecuteFails == \E code \in {"TQ-SAG-001", "TQ-SAG-002"} : FailStep(code)

\* The timer wins the race; the task itself is not aborted.
ExecuteTimesOut == timer <= TimerSkew /\ FailStep("TQ-SAG-001")

\* Faulty: a save that fails is passed over like a failed audit append.
SaveOutcomeOrNot ==
    /\ pc = "save_outcome" /\ pc' = "audit_outcome"
    /\ durable' \in {durable, BuildSnapshot}
    /\ UNCHANGED <<memory, locals, clocks, remote, letters, audit, result>>

SaveOutcome ==
    /\ SaveOk("save_outcome", "audit_outcome")
    /\ UNCHANGED <<memory, locals, clocks, remote, letters, audit>>

AuditOutcome ==
    LET ok == stepStatuses[i] = "succeeded"
    IN  /\ AuditAppend("audit_outcome",
                       [type |-> "saga.step.execute", step |-> i, ok |-> ok],
                       IF ok THEN "forward" ELSE "failed")
        /\ i' = IF ok THEN i + 1 ELSE i
        /\ overallTimedOut' = (~ok /\ StepTimeoutIsOverall(failure))
        /\ UNCHANGED <<memory, j, succeeded, elapsedBeforeStep,
                       effectiveStepTimeout, failure, clocks, remote, letters,
                       durable, result>>

ForwardDone ==
    /\ pc = "forward" /\ i > NSteps
    /\ overallStatus' = "completed"
    /\ pc' = "save_final"
    /\ UNCHANGED <<currentStepIndex, stepStatuses, compensationContexts, locals,
                   clocks, remote, letters, result, durable, audit>>

-----------------------------------------------------------------------------
(***************************************************************************)
(* Compensation phase.                                                     *)
(***************************************************************************)

\* Faulty: off by one, a single succeeded step is not compensated.
TooLittleToCompensate ==
    /\ pc = "failed" /\ Len(succeeded) <= 1
    /\ overallStatus' = IF overallTimedOut THEN "timed_out" ELSE "compensated"
    /\ pc' = "save_final"
    /\ UNCHANGED <<currentStepIndex, stepStatuses, compensationContexts, locals,
                   clocks, remote, letters, result, durable, audit>>

\* The first step failed: nothing to compensate.
NothingToCompensate ==
    /\ pc = "failed" /\ succeeded = <<>>
    /\ overallStatus' = IF overallTimedOut THEN "timed_out" ELSE "compensated"
    /\ pc' = "save_final"
    /\ UNCHANGED <<currentStepIndex, stepStatuses, compensationContexts, locals,
                   clocks, remote, letters, result, durable, audit>>

BeginCompensation ==
    /\ pc = "failed" /\ succeeded # <<>>
    /\ overallStatus' = "compensating"
    /\ pc' = "save_compensating"
    /\ UNCHANGED <<currentStepIndex, stepStatuses, compensationContexts, locals,
                   clocks, remote, letters, result, durable, audit>>

SaveCompensating ==
    /\ SaveOk("save_compensating", "audit_compensating")
    /\ UNCHANGED <<memory, locals, clocks, remote, letters, audit>>

AuditCompensating ==
    /\ AuditAppend("audit_compensating", [type |-> "saga.compensation.started"],
                   "backward")
    /\ j' = Len(succeeded)
    /\ UNCHANGED <<memory, i, succeeded, elapsedBeforeStep, effectiveStepTimeout,
                   failure, overallTimedOut, clocks, remote, letters, durable,
                   result>>

\* Head of the backward loop: an eligible step is marked compensating, any
\* other is passed over.
StartCompensate ==
    /\ pc = "backward" /\ j > 0
    /\ LET s == StepToCompensate
       IN  IF IsStepEligibleForCompensation(stepStatuses[s])
           THEN /\ stepStatuses' = [stepStatuses EXCEPT ![s] = "compensating"]
                /\ pc' = "save_step_compensating"
                /\ UNCHANGED j
           ELSE j' = j - 1 /\ UNCHANGED <<pc, stepStatuses>>
    /\ UNCHANGED <<overallStatus, currentStepIndex, compensationContexts, i,
                   succeeded, elapsedBeforeStep, effectiveStepTimeout, failure,
                   overallTimedOut, clocks, remote, letters, result, durable,
                   audit>>

SaveStepCompensating ==
    /\ SaveOk("save_step_compensating", "compensate")
    /\ inFlight' = inFlight \cup {<<"compensate", StepToCompensate>>}
    /\ timer' = StepTimeout
    /\ UNCHANGED <<memory, locals, invocationTimeout, elapsed, world, letters,
                   audit>>

\* Ends the wait for compensate with the given status of the step.
SettleCompensate(status) ==
    /\ pc = "compensate"
    /\ stepStatuses' = [stepStatuses EXCEPT ![StepToCompensate] = status]
    /\ timer' = 0
    /\ pc' = "save_compensate_outcome"
    /\ UNCHANGED <<overallStatus, currentStepIndex, compensationContexts, locals,
                   invocationTimeout, elapsed, remote, letters, result, durable,
                   audit>>

CompensateSucceeds ==
    /\ SettleCompensate("compensated")
    /\ <<"compensate", StepToCompensate>> \notin inFlight

CompensateFails == SettleCompensate("dead_lettered")

\* Faulty: compensate is awaited without a timer.
CompensateNeverTimesOut == FALSE

CompensateTimesOut == timer <= TimerSkew /\ SettleCompensate("dead_lettered")

SaveCompensateOutcome ==
    /\ SaveOk("save_compensate_outcome", "audit_compensate_outcome")
    /\ UNCHANGED <<memory, locals, clocks, remote, letters, audit>>

\* The audit is followed by the next step backwards or by the dead letter.
AuditCompensateOutcome ==
    LET ok == stepStatuses[StepToCompensate] = "compensated"
    IN  /\ AuditAppend("audit_compensate_outcome",
                       [type |-> "saga.step.compensate", step |-> StepToCompensate,
                        ok |-> ok],
                       IF ok THEN "backward" ELSE "enqueue")
        /\ j' = IF ok THEN j - 1 ELSE j
        /\ UNCHANGED <<memory, i, succeeded, elapsedBeforeStep,
                       effectiveStepTimeout, failure, overallTimedOut, clocks,
                       remote, letters, durable, result>>

EnqueueDeadLetter ==
    /\ pc = "enqueue"
    /\ deadLetters' = deadLetters \cup {StepToCompensate}
    /\ pc' = "audit_enqueued"
    /\ UNCHANGED <<memory, locals, clocks, remote, degraded, result, durable,
                   audit>>

\* Faulty: a failed enqueue goes unreported.
EnqueueFailsSilently ==
    /\ pc = "enqueue"
    /\ j' = j - 1
    /\ pc' = "backward"
    /\ UNCHANGED <<memory, i, succeeded, elapsedBeforeStep, effectiveStepTimeout,
                   failure, overallTimedOut, clocks, remote, letters, result,
                   durable, audit>>

\* A failed enqueue is reported and the chain goes on; the entry may be there
\* all the same.
EnqueueFails ==
    /\ pc = "enqueue"
    /\ deadLetters' \in {deadLetters, deadLetters \cup {StepToCompensate}}
    /\ degraded' = degraded \cup {StepToCompensate}
    /\ j' = j - 1
    /\ pc' = "backward"
    /\ UNCHANGED <<memory, i, succeeded, elapsedBeforeStep, effectiveStepTimeout,
                   failure, overallTimedOut, clocks, remote, result, durable,
                   audit>>

\* Faulty: the backward loop stops at the first compensation that fails.
StopAfterDeadLetter ==
    /\ AuditAppend("audit_enqueued",
                   [type |-> "saga.dead_letter.enqueued", step |-> StepToCompensate],
                   "backward")
    /\ j' = 0
    /\ UNCHANGED <<memory, i, succeeded, elapsedBeforeStep, effectiveStepTimeout,
                   failure, overallTimedOut, clocks, remote, letters, durable,
                   result>>

AuditEnqueued ==
    /\ AuditAppend("audit_enqueued",
                   [type |-> "saga.dead_letter.enqueued", step |-> StepToCompensate],
                   "backward")
    /\ j' = j - 1
    /\ UNCHANGED <<memory, i, succeeded, elapsedBeforeStep, effectiveStepTimeout,
                   failure, overallTimedOut, clocks, remote, letters, durable,
                   result>>

CompensationDone ==
    /\ pc = "backward" /\ j = 0
    /\ overallStatus' = AggregateCompensationOutcome(stepStatuses)
    /\ pc' = "save_final"
    /\ UNCHANGED <<currentStepIndex, stepStatuses, compensationContexts, locals,
                   clocks, remote, letters, result, durable, audit>>

-----------------------------------------------------------------------------
(***************************************************************************)
(* End of runSaga.                                                         *)
(***************************************************************************)
\* Faulty: the final save is left out.
FinishUnsaved ==
    /\ pc = "save_final"
    /\ pc' = IF overallTimedOut THEN "audit_timed_out" ELSE "audit_completed"
    /\ UNCHANGED <<memory, locals, clocks, remote, letters, audit, durable, result>>

SaveFinal ==
    /\ SaveOk("save_final",
              IF overallTimedOut THEN "audit_timed_out" ELSE "audit_completed")
    /\ UNCHANGED <<memory, locals, clocks, remote, letters, audit>>

AuditTimedOut ==
    /\ AuditAppend("audit_timed_out", [type |-> "saga.timed_out"],
                   "audit_completed")
    /\ UNCHANGED <<memory, locals, clocks, remote, letters, durable, result>>

AuditCompleted ==
    /\ AuditAppend("audit_completed", [type |-> "saga.completed"], "returned")
    /\ result' = SagaResultOf(overallStatus)
    /\ UNCHANGED <<memory, locals, clocks, remote, letters, durable>>

-----------------------------------------------------------------------------
(***************************************************************************)
(* Environment.                                                            *)
(***************************************************************************)

\* A step that throws instead of answering rejects runSaga: nothing catches it.
StepThrows ==
    /\ pc \in {"execute", "compensate"}
    /\ pc' = "rejected"
    /\ timer' = 0
    /\ UNCHANGED <<memory, locals, invocationTimeout, elapsed, remote, letters,
                   result, durable, audit>>

Crash ==
    /\ pc \notin Done
    /\ pc' = "crashed"
    /\ timer' = 0
    /\ UNCHANGED <<memory, locals, invocationTimeout, elapsed, remote, letters,
                   result, durable, audit>>

\* The effect of a call reaches the world, awaited or not.
Land(call) ==
    /\ call \in inFlight
    /\ inFlight' = inFlight \ {call}
    /\ world' = [world EXCEPT ![call[2]] = IF call[1] = "execute" THEN "applied"
                                                                 ELSE "reverted"]
    /\ UNCHANGED <<memory, locals, clocks, letters, pc, result, durable, audit>>

Tick ==
    /\ pc \notin Done
    /\ elapsed < MaxElapsed \/ timer > 0
    /\ elapsed' = IF elapsed < MaxElapsed THEN elapsed + 1 ELSE elapsed
    /\ timer' = IF timer > 0 THEN timer - 1 ELSE 0
    /\ UNCHANGED <<memory, locals, invocationTimeout, remote, letters, pc, result,
                   durable, audit>>

Forward == \/ ExhaustBudget \/ SaveBudget \/ AuditBudget
           \/ StartStep \/ SaveExecuting \/ ExecuteTimesOut
           \/ SaveOutcome \/ AuditOutcome \/ ForwardDone
Backward == \/ NothingToCompensate \/ BeginCompensation \/ SaveCompensating
            \/ AuditCompensating \/ StartCompensate \/ SaveStepCompensating
            \/ CompensateTimesOut \/ SaveCompensateOutcome
            \/ AuditCompensateOutcome \/ EnqueueDeadLetter \/ EnqueueFails
            \/ AuditEnqueued \/ CompensationDone
\* The steps the program takes by itself: its own code, answers of the stores,
\* and timers.
Orchestrator == \/ SaveStarted \/ AuditStarted \/ Forward \/ Backward
                \/ SaveFails \/ SaveFinal \/ AuditTimedOut \/ AuditCompleted
StepAnswers == \/ ExecuteSucceeds \/ ExecuteFails
               \/ CompensateSucceeds \/ CompensateFails \/ StepThrows

Next == \/ Orchestrator
        \/ StepAnswers
        \/ Crash
        \/ Tick
        \/ \E call \in Calls : Land(call)

Spec == Init /\ [][Next]_vars

\* The stores answer, with success or failure, and time passes; no step need
\* ever answer.
FairSpec == Spec /\ WF_vars(Orchestrator) /\ WF_vars(Tick)
=============================================================================
