--------------------------- MODULE SagaProperties ---------------------------
(***************************************************************************)
(* What SagaOrchestrator promises: to whoever finds the row of an          *)
(* interrupted saga, to the caller of runSaga, and to the reader of the    *)
(* audit trail.                                                            *)
(***************************************************************************)
EXTENDS SagaOrchestrator

Snapshots == [overall : OverallStatus, index : 1 .. (NSteps + 1),
              statuses : [Steps -> StepStatus], contexts : Seq(Steps)]

\* Every variable of runSaga, its row and the remote side stays in its domain.
TypeOK ==
    /\ overallStatus \in OverallStatus
    /\ currentStepIndex \in 1 .. (NSteps + 1)
    /\ stepStatuses \in [Steps -> StepStatus]
    /\ compensationContexts \in Seq(Steps)
    /\ pc \in ProgramPoints
    /\ i \in 1 .. (NSteps + 1)
    /\ j \in 0 .. NSteps
    /\ succeeded \in Seq(Steps)
    /\ elapsedBeforeStep \in 0 .. MaxElapsed
    /\ effectiveStepTimeout \in 0 .. StepTimeout
    /\ failure \in {"none", "TQ-SAG-001", "TQ-SAG-002", "TQ-SAG-004"}
    /\ overallTimedOut \in BOOLEAN
    /\ result \in {"none", "error"} \cup Terminal
    /\ invocationTimeout \in InvocationTimeouts
    /\ elapsed \in 0 .. MaxElapsed
    /\ timer \in 0 .. StepTimeout
    /\ durable \in Snapshots \cup {NoRow}
    /\ deadLetters \in SUBSET Steps
    /\ degraded \in SUBSET Steps
    /\ audit \in SUBSET AuditEvents
    /\ inFlight \in SUBSET Calls
    /\ world \in [Steps -> {"clean", "applied", "reverted"}]

-----------------------------------------------------------------------------
(***************************************************************************)
(* The saga row: what a recovery that knows nothing else can rely on.      *)
(***************************************************************************)

\* Write-ahead: whenever a step's execute may have, or may still get, an effect
\* in the world, the row no longer says pending; and whenever a compensate may
\* have one, the row says the compensation was begun.  (Saves precede the calls,
\* a failed save stops the saga, an abandoned call keeps running.)
EffectsHaveDurableIntent ==
    \A s \in Steps :
        /\ (world[s] # "clean" \/ <<"execute", s>> \in inFlight)
              => durable.statuses[s] # "pending"
        /\ (world[s] = "reverted" \/ <<"compensate", s>> \in inFlight)
              => durable.statuses[s] \in {"compensating"} \cup Settled

\* The row holds the compensation context of exactly the steps it says
\* succeeded or are past that: status and context are saved together.
RecordKeepsCompensationContexts ==
    \A s \in Steps :
        (\E k \in 1 .. Len(durable.contexts) : durable.contexts[k] = s)
            <=> durable.statuses[s] \in {"succeeded", "compensating"} \cup Settled

\* Compensation runs in strict reverse order of the steps: in the row, once a
\* step's compensation has begun, that of every later step is over.
StrictReverseOrder ==
    \A s, t \in Steps :
        s < t /\ durable.statuses[s] \in {"compensating"} \cup Settled
            => durable.statuses[t] \in {"pending", "failed"} \cup Settled

\* listIncomplete returns a saga as long as anything is left to do for it: a row
\* with a final overall status has no step under way, and none succeeded unless
\* the whole saga did.
FinalRecordIsSettled ==
    durable.overall \in Terminal =>
        \A s \in Steps :
            durable.statuses[s] \in IF durable.overall = "completed"
                                    THEN {"succeeded"}
                                    ELSE {"pending", "failed"} \cup Settled

\* The documented life of a step status (saga-port.ts), as the row shows it: no
\* save ever takes a step back or past its next status.
NextStatuses(status) ==
    CASE status = "pending" -> {"executing", "failed"}
      [] status = "executing" -> {"succeeded", "failed"}
      [] status = "succeeded" -> {"compensating"}
      [] status = "compensating" -> Settled
      [] OTHER -> {}

DurableStatusesMoveForward ==
    [][\A s \in Steps :
          durable'.statuses[s] \in {durable.statuses[s]}
                                   \cup NextStatuses(durable.statuses[s])]_vars

-----------------------------------------------------------------------------
(***************************************************************************)
(* What the caller of runSaga is told.                                     *)
(***************************************************************************)

\* The result agrees with the world: a completed saga has every effect, any
\* other outcome leaves an effect standing only for a step reported failed or
\* dead-lettered.  A compensation that fails does not stop those after it.
OutcomeMatchesWorld ==
    result \in Terminal =>
        \A s \in Steps :
            IF result = "completed" THEN world[s] = "applied"
            ELSE world[s] = "applied"
                    => stepStatuses[s] \in {"failed", "dead_lettered"}

\* A saga that was told to anyone as over is over in the row too.
OutcomeIsDurable ==
    result \in Terminal => /\ durable.overall = result
                           /\ durable.statuses = stepStatuses

\* When runSaga answers, each step whose compensation failed is in the dead
\* letter store or was reported to onDegradedFailure: never neither.
DeadLettersAccountedFor ==
    result \in Terminal =>
        \A s \in Steps : stepStatuses[s] = "dead_lettered"
                            => s \in deadLetters \cup degraded

\* The verdict on a timed out step does not depend on a second reading of the
\* clock: the saga is timed out exactly when the budget was gone before a step,
\* or a step timed out that had been given all that was left of it.
TimeoutVerdictFollowsBudget ==
    pc \in {"failed", "backward", "save_final", "audit_timed_out"}
        /\ failure # "none"
    => (overallTimedOut <=>
            /\ failure \in {"TQ-SAG-001", "TQ-SAG-004"}
            /\ SagaBounded
            /\ SagaTimeout <= elapsedBeforeStep + StepTimeout)

-----------------------------------------------------------------------------
\* The audit trail never runs ahead of the row: what it says of a step or of the
\* saga was saved before, so a crash cannot leave an audited outcome unsaved.
AuditNeverAheadOfRecord ==
    \A e \in audit :
        CASE e.type = "saga.step.execute" ->
                durable.statuses[e.step] \in
                    IF e.ok THEN {"succeeded", "compensating"} \cup Settled
                            ELSE {"failed"}
          [] e.type = "saga.step.compensate" ->
                durable.statuses[e.step] =
                    IF e.ok THEN "compensated" ELSE "dead_lettered"
          [] e.type = "saga.dead_letter.enqueued" -> e.step \in deadLetters
          [] e.type \in {"saga.completed", "saga.timed_out"} ->
                durable.overall \in Terminal
          [] OTHER -> durable.overall # "none"

-----------------------------------------------------------------------------
\* runSaga always settles, even if no step ever answers: every wait for a step
\* is bounded by a timer, in both phases.
RunSagaSettles == <>(pc \in Done)
=============================================================================
