----------------------------- MODULE SagaProofs -----------------------------
(***************************************************************************)
(* IInv is an inductive invariant of SagaOrchestrator: TypeStep, ShapeStep *)
(* and the lemmas on the row each take one conjunct through the actions,   *)
(* and the theorems after them read the properties off it.  What it does   *)
(* not say of rows, dead letters, audit and timeouts, and the refinement,  *)
(* come last.                                                              *)
(***************************************************************************)
EXTENDS SagaRefinement, SagaInvariant, TLAPS

\* The state runSaga starts from satisfies the invariant.
LEMMA InitInvariant == Init => IInv
<1> SUFFICES ASSUME Init PROVE IInv
  OBVIOUS
<1> USE StepTimeoutAssumption, BudgetAssumption, MaxElapsedAssumption
<1>1. TypeOK
  <2>1. /\ overallStatus \in OverallStatus
        /\ pc \in ProgramPoints
        /\ result \in {"none", "error"} \cup Terminal
        /\ durable \in Snapshots \cup {NoRow}
    BY DEF Init, OverallStatus, ProgramPoints, SavePoints
  <2>2. /\ stepStatuses \in [Steps -> StepStatus]
        /\ world \in [Steps -> {"clean", "applied", "reverted"}]
    BY DEF Init, StepStatus
  <2>3. /\ currentStepIndex \in 1 .. (NSteps + 1)
        /\ i \in 1 .. (NSteps + 1)
        /\ j \in 0 .. NSteps
        /\ elapsedBeforeStep \in 0 .. MaxElapsed /\ elapsed \in 0 .. MaxElapsed
        /\ effectiveStepTimeout \in 0 .. StepTimeout /\ timer \in 0 .. StepTimeout
    BY DEF Init
  <2>4. /\ compensationContexts \in Seq(Steps) /\ succeeded \in Seq(Steps)
        /\ deadLetters \in SUBSET Steps /\ degraded \in SUBSET Steps
        /\ audit \in SUBSET AuditEvents /\ inFlight \in SUBSET Calls
    BY DEF Init
  <2>5. QED
    BY <2>1, <2>2, <2>3, <2>4 DEF Init, TypeOK
<1>2. pc \notin Done => StackOfSteps /\ Shape /\ result = "none"
  BY DEF Init, StackOfSteps, Shape, ForwardAt, Steps
<1>3. RowFollowsMemory
  BY DEF Init, RowFollowsMemory, SavePoints, NoRow, Steps
<1>4. Covers(stepStatuses) /\ Covers(durable.statuses)
  BY DEF Init, Covers, NoRow, Steps
<1>5. RowOK(durable)
  BY DEF Init, RowOK, ContextsMatch, ReverseOrder, SettledWhenFinal, NoRow,
         Steps, Settled, Terminal
<1>6. OutcomeIsDurable
  BY DEF Init, OutcomeIsDurable, Terminal
<1>7. QED
  BY <1>1, <1>2, <1>3, <1>4, <1>5, <1>6 DEF IInv

\* At every program point the memory, if it were saved, would be a good row.
LEMMA MemoryRow ==
  ASSUME TypeOK, StackOfSteps, Shape, pc \notin Done
  PROVE  RowOK(BuildSnapshot)
<1> USE StepTimeoutAssumption DEF BuildSnapshot
<1>0. stepStatuses \in [Steps -> StepStatus] /\ Len(succeeded) \in Nat
      /\ i \in Nat /\ j \in Nat /\ compensationContexts = succeeded
      /\ \A k \in 1 .. Len(succeeded) : succeeded[k] = k
      /\ Len(succeeded) <= NSteps
  BY DEF TypeOK, StackOfSteps
<1>1. ASSUME NEW st \in {"pending", "executing", "failed"}, ForwardAt(st)
      PROVE  RowOK(BuildSnapshot)
  BY <1>0, <1>1 DEF ForwardAt, RowOK, ContextsMatch, ReverseOrder,
                    SettledWhenFinal, Steps, Settled, Terminal
<1>2. CASE ForwardPast
  BY <1>0, <1>2 DEF ForwardPast, RowOK, ContextsMatch, ReverseOrder,
                    SettledWhenFinal, Steps, Settled, Terminal
<1>3. ASSUME overallStatus = "compensating", NEW k \in 0 .. NSteps, k < i,
             NEW sts \in {{"succeeded"}, {"compensating"}, Settled},
             BackwardAt(k, sts)
      PROVE  RowOK(BuildSnapshot)
  <2>1. ContextsMatch(BuildSnapshot)
    BY <1>0, <1>3 DEF BackwardAt, ContextsMatch, Steps, Settled
  <2>2. ReverseOrder(BuildSnapshot)
    BY <1>0, <1>3 DEF BackwardAt, ReverseOrder, Steps, Settled
  <2>3. SettledWhenFinal(BuildSnapshot)
    BY <1>3 DEF SettledWhenFinal, Terminal
  <2>4. QED
    BY <2>1, <2>2, <2>3 DEF RowOK
<1>4. CASE overallStatus \in Terminal \ {"completed"} /\ BackwardAt(0, {})
  <2>1. ContextsMatch(BuildSnapshot)
    BY <1>0, <1>4 DEF BackwardAt, ContextsMatch, Steps, Settled
  <2>2. ReverseOrder(BuildSnapshot)
    BY <1>0, <1>4 DEF BackwardAt, ReverseOrder, Steps, Settled
  <2>3. SettledWhenFinal(BuildSnapshot)
    BY <1>0, <1>4 DEF BackwardAt, SettledWhenFinal, Steps
  <2>4. QED
    BY <2>1, <2>2, <2>3 DEF RowOK
<1>5. CASE /\ overallStatus = "completed"
           /\ Len(succeeded) = NSteps
           /\ \A s \in Steps : stepStatuses[s] = "succeeded"
  BY <1>0, <1>5 DEF RowOK, ContextsMatch, ReverseOrder, SettledWhenFinal,
                    Steps, Settled
<1>6. CASE pc \in {"save_started", "audit_started", "forward", "save_executing",
                   "execute", "save_budget", "audit_budget", "failed",
                   "save_outcome", "audit_outcome"}
  BY <1>1, <1>2, <1>6 DEF Shape
<1>7. CASE pc \in {"save_compensating", "audit_compensating", "backward",
                   "save_step_compensating", "compensate",
                   "save_compensate_outcome", "audit_compensate_outcome",
                   "enqueue", "audit_enqueued"}
  <2>1. i - 1 \in 0 .. NSteps /\ i - 1 < i /\ j \in 0 .. NSteps
    BY DEF TypeOK
  <2>2. QED
    BY <1>0, <1>3, <1>7, <2>1 DEF Shape
<1>8. CASE pc \in {"save_final", "audit_timed_out", "audit_completed"}
  BY <1>4, <1>5, <1>8 DEF Shape
<1>9. QED
  BY <1>6, <1>7, <1>8 DEF TypeOK, ProgramPoints, SavePoints, AuditPoints, Done

\* computeEffectiveStepTimeoutMs never exceeds the step timeout.
LEMMA EffectiveTimeoutType ==
  ASSUME NEW e \in Nat, invocationTimeout \in InvocationTimeouts
  PROVE  EffectiveStepTimeout(e) \in 0 .. StepTimeout
  BY StepTimeoutAssumption, BudgetAssumption
     DEF EffectiveStepTimeout, SagaBounded, SagaTimeout

\* Where the backward loop compensates, step j is the one it stands at.
LEMMA CompensatedStep ==
  ASSUME IInv,
         pc \in {"save_step_compensating", "compensate",
                 "save_compensate_outcome", "audit_compensate_outcome",
                 "enqueue", "audit_enqueued"}
         \/ (pc = "backward" /\ j > 0)
  PROVE  /\ StepToCompensate = j /\ j \in Steps /\ j < i /\ j - 1 \in 0 .. NSteps
         /\ i \in Steps /\ Len(succeeded) = i - 1
  BY StepTimeoutAssumption
     DEF IInv, Shape, BackwardAt, StackOfSteps, StepToCompensate, Steps, TypeOK,
         Done

\* No step takes a variable out of its domain.
LEMMA TypeStep ==
  ASSUME IInv, [Next]_vars
  PROVE  TypeOK'
<1> USE StepTimeoutAssumption, BudgetAssumption, MaxElapsedAssumption
<1> USE DEF memory, locals, clocks, remote, letters, TypeOK
<1>0. TypeOK
  BY DEF IInv
<1>1. BuildSnapshot \in Snapshots
  BY DEF IInv, BuildSnapshot, Snapshots
<1>2. CASE SaveStarted \/ SaveBudget \/ SaveOutcome \/ SaveCompensating
           \/ SaveCompensateOutcome \/ SaveFinal
  BY <1>1, <1>2
     DEF SaveStarted, SaveBudget, SaveOutcome, SaveCompensating, IInv,
         SaveCompensateOutcome, SaveFinal, SaveOk, ProgramPoints, AuditPoints
<1>3. CASE SaveFails
  BY <1>1, <1>3 DEF SaveFails, ProgramPoints, Done, IInv
<1>4. CASE UNCHANGED vars
  BY <1>4 DEF vars, IInv
<1>5. CASE ExhaustBudget
  <2>1. EffectiveStepTimeout(elapsed) \in 0 .. StepTimeout
    BY EffectiveTimeoutType, SMTT(20) DEF IInv
  <2>2. QED
    BY <1>5, <2>1 DEF IInv, ExhaustBudget, ProgramPoints, SavePoints, StepStatus
<1>6. CASE StartStep
  <2>1. EffectiveStepTimeout(elapsed) \in 0 .. StepTimeout
    BY EffectiveTimeoutType, SMTT(20) DEF IInv
  <2>2. QED
    BY <1>6, <2>1 DEF IInv, StartStep, ProgramPoints, SavePoints, StepStatus
<1>7. CASE SaveExecuting
  BY <1>1, <1>7 DEF IInv, SaveExecuting, SaveOk, ProgramPoints, Shape, Calls, Done
<1>8. CASE ExecuteSucceeds
  BY <1>8 DEF IInv, ExecuteSucceeds, ProgramPoints, Shape, Done, SavePoints, StepStatus
<1>9. CASE ExecuteFails \/ ExecuteTimesOut
  <2>1. PICK code \in {"TQ-SAG-001", "TQ-SAG-002"} : FailStep(code)
    BY <1>9 DEF ExecuteFails, ExecuteTimesOut
  <2>2. stepStatuses' \in [Steps -> StepStatus]
    BY <1>0, <2>1 DEF FailStep, StepStatus
  <2>3. pc' \in ProgramPoints /\ timer' \in 0 .. StepTimeout
        /\ failure' \in {"none", "TQ-SAG-001", "TQ-SAG-002", "TQ-SAG-004"}
    BY <2>1 DEF FailStep, ProgramPoints, SavePoints
  <2>4. QED
    BY <1>0, <2>1, <2>2, <2>3 DEF FailStep
<1>10. CASE AuditStarted \/ AuditTimedOut \/ AuditCompleted
  <2>1. \A t \in {"saga.started", "saga.timed_out", "saga.completed"} :
           [type |-> t] \in AuditEvents
    BY DEF AuditEvents
  <2>2. audit' \in SUBSET AuditEvents
    BY <1>0, <1>10, <2>1
       DEF AuditStarted, AuditTimedOut, AuditCompleted, AuditAppend
  <2>3. QED
    BY <1>0, <1>10, <2>2
       DEF AuditStarted, AuditTimedOut, AuditCompleted, AuditAppend, ProgramPoints,
           AuditPoints, Done, SagaResultOf, Terminal
<1>11. CASE AuditBudget
  <2>1. [type |-> "saga.step.execute", step |-> i, ok |-> FALSE] \in AuditEvents
    BY <1>11 DEF IInv, Shape, AuditBudget, AuditAppend, AuditEvents, Done
  <2>2. QED
    BY <1>11, <2>1 DEF IInv, AuditBudget, AuditAppend, ProgramPoints
<1>12. CASE AuditOutcome
  <2>1. \A ok \in BOOLEAN :
           [type |-> "saga.step.execute", step |-> i, ok |-> ok] \in AuditEvents
    BY <1>12 DEF IInv, Shape, ForwardPast, AuditOutcome, AuditAppend, AuditEvents,
                 Done
  <2>2. i \in Steps
    BY <1>12 DEF IInv, Shape, ForwardPast, AuditOutcome, AuditAppend, Done
  <2>3. audit' \in SUBSET AuditEvents /\ overallTimedOut' \in BOOLEAN
    BY <1>0, <1>12, <2>1 DEF AuditOutcome, AuditAppend
  <2>4. i' \in 1 .. (NSteps + 1) /\ pc' \in ProgramPoints
    BY <1>0, <1>12, <2>2 DEF AuditOutcome, AuditAppend, ProgramPoints, Steps
  <2>5. QED
    BY <1>0, <1>12, <2>3, <2>4 DEF AuditOutcome
<1>13. CASE ForwardDone \/ NothingToCompensate \/ BeginCompensation
            \/ CompensationDone
  BY <1>13 DEF IInv, ForwardDone, NothingToCompensate, BeginCompensation,
               CompensationDone, AggregateCompensationOutcome, OverallStatus,
               Terminal, ProgramPoints, SavePoints
<1>14. CASE AuditCompensating
  <2>1. [type |-> "saga.compensation.started"] \in AuditEvents
    BY DEF AuditEvents
  <2>2. Len(succeeded) \in 0 .. NSteps
    BY <1>14 DEF IInv, AuditCompensating, AuditAppend, StackOfSteps, Done
  <2>3. QED
    BY <1>14, <2>1, <2>2 DEF IInv, AuditCompensating, AuditAppend, ProgramPoints
<1>15. CASE StartCompensate
  <2>1. j - 1 \in 0 .. NSteps
    BY <1>15, CompensatedStep DEF StartCompensate
  <2>2. QED
    BY <1>15, <2>1 DEF IInv, StartCompensate, ProgramPoints, SavePoints, StepStatus
<1>16. CASE SaveStepCompensating
  <2>1. <<"compensate", StepToCompensate>> \in Calls
    BY <1>16, CompensatedStep DEF SaveStepCompensating, SaveOk, Calls
  <2>2. QED
    BY <1>0, <1>1, <1>16, <2>1 DEF SaveStepCompensating, SaveOk, ProgramPoints
<1>17. CASE CompensateSucceeds \/ CompensateFails \/ CompensateTimesOut
  <2>1. PICK status \in Settled : SettleCompensate(status)
    BY <1>17 DEF CompensateSucceeds, CompensateFails, CompensateTimesOut, Settled
  <2>2. stepStatuses' \in [Steps -> StepStatus]
    BY <1>0, <2>1 DEF SettleCompensate, StepStatus, Settled
  <2>3. pc' \in ProgramPoints /\ timer' \in 0 .. StepTimeout
    BY <2>1 DEF SettleCompensate, ProgramPoints, SavePoints
  <2>4. QED
    BY <1>0, <2>1, <2>2, <2>3 DEF SettleCompensate
<1>18. CASE AuditCompensateOutcome
  <2>1. StepToCompensate \in Steps /\ j - 1 \in 0 .. NSteps
    BY <1>18, CompensatedStep DEF AuditCompensateOutcome, AuditAppend
  <2>2. \A ok \in BOOLEAN : [type |-> "saga.step.compensate",
                            step |-> StepToCompensate, ok |-> ok] \in AuditEvents
    BY <2>1 DEF AuditEvents
  <2>3. QED
    BY <1>18, <2>1, <2>2 DEF IInv, AuditCompensateOutcome, AuditAppend, ProgramPoints
<1>19. CASE EnqueueDeadLetter \/ EnqueueFails
  <2>1. StepToCompensate \in Steps /\ j - 1 \in 0 .. NSteps
    BY <1>19, CompensatedStep DEF EnqueueDeadLetter, EnqueueFails
  <2>2. QED
    BY <1>19, <2>1 DEF IInv, EnqueueDeadLetter, EnqueueFails, ProgramPoints,
                       AuditPoints
<1>20. CASE AuditEnqueued
  <2>1. StepToCompensate \in Steps /\ j - 1 \in 0 .. NSteps
    BY <1>20, CompensatedStep DEF AuditEnqueued, AuditAppend
  <2>2. [type |-> "saga.dead_letter.enqueued", step |-> StepToCompensate]
           \in AuditEvents
    BY <2>1 DEF AuditEvents
  <2>3. QED
    BY <1>20, <2>1, <2>2 DEF IInv, AuditEnqueued, AuditAppend, ProgramPoints
<1>21. CASE StepThrows \/ Crash
  BY <1>21, SMTT(20) DEF IInv, StepThrows, Crash, ProgramPoints, Done
<1>22. CASE Tick
  BY <1>22, SMTT(20) DEF IInv, Tick
<1>23. ASSUME NEW call \in Calls, Land(call)
       PROVE  TypeOK'
  BY <1>23 DEF IInv, Land, Calls
<1>24. QED
  BY <1>2, <1>3, <1>4, <1>5, <1>6, <1>7, <1>8, <1>9, <1>10, <1>11, <1>12, <1>13,
     <1>14, <1>15, <1>16, <1>17, <1>18, <1>19, <1>20, <1>21, <1>22, <1>23
     DEF Next, Orchestrator, Forward, Backward, StepAnswers

\* Each action leads from the memory its program point calls for to the memory the
\* next one calls for.
LEMMA ShapeStep ==
  ASSUME IInv, [Next]_vars, pc' \notin Done
  PROVE  (StackOfSteps /\ Shape /\ result = "none")'
<1> USE StepTimeoutAssumption
<1> USE DEF memory, locals, clocks, remote, letters
<1>0. /\ TypeOK /\ Len(succeeded) \in Nat /\ i \in Nat /\ j \in Nat
      /\ stepStatuses \in [Steps -> StepStatus]
  BY DEF IInv, TypeOK
<1>1. pc \notin Done => StackOfSteps /\ Shape /\ result = "none"
  BY DEF IInv
<1>2. CASE SaveStarted \/ SaveBudget \/ SaveOutcome \/ SaveFinal \/ SaveExecuting
           \/ AuditStarted \/ AuditTimedOut \/ AuditBudget
  BY <1>1, <1>2
     DEF SaveStarted, SaveBudget, SaveOutcome, SaveFinal, SaveExecuting, SaveOk,
         AuditStarted, AuditTimedOut, AuditBudget, AuditAppend, StackOfSteps, Shape,
         ForwardAt, ForwardPast, BackwardAt, Done
<1>3. CASE SaveCompensating \/ SaveStepCompensating \/ SaveCompensateOutcome
           \/ EnqueueDeadLetter
  BY <1>1, <1>3
     DEF SaveCompensating, SaveStepCompensating, SaveCompensateOutcome, SaveOk,
         EnqueueDeadLetter, StackOfSteps, Shape, BackwardAt, Done
<1>4. CASE Tick \/ (\E call \in Calls : Land(call)) \/ UNCHANGED vars
  BY <1>1, <1>4
     DEF Tick, Land, vars, StackOfSteps, Shape, ForwardAt, ForwardPast, BackwardAt
<1>5. CASE ExhaustBudget \/ StartStep
  BY <1>0, <1>1, <1>5
     DEF ExhaustBudget, StartStep, StackOfSteps, Shape, ForwardAt, Steps, Done
<1>6. CASE ExecuteSucceeds
  <2>1. i \in Steps /\ ForwardAt("executing") /\ StackOfSteps
    BY <1>1, <1>6 DEF ExecuteSucceeds, Shape, Done
  <2>2. /\ Len(succeeded') = i
        /\ \A k \in 1 .. i : succeeded'[k] = k
        /\ compensationContexts' = succeeded'
    BY <1>0, <1>6, <2>1 DEF ExecuteSucceeds, StackOfSteps, ForwardAt, TypeOK, Steps
  <2>3. ForwardPast'
    BY <1>0, <1>6, <2>1, <2>2 DEF ExecuteSucceeds, ForwardAt, ForwardPast, Steps
  <2>4. StackOfSteps'
    BY <1>6, <2>1, <2>2 DEF ExecuteSucceeds, StackOfSteps, Steps
  <2>5. QED
    BY <1>1, <1>6, <2>3, <2>4 DEF ExecuteSucceeds, Shape, Done
<1>7. CASE ExecuteFails \/ ExecuteTimesOut
  <2>1. PICK code \in {"TQ-SAG-001", "TQ-SAG-002"} : FailStep(code)
    BY <1>7 DEF ExecuteFails, ExecuteTimesOut
  <2>2. i \in Steps /\ ForwardAt("executing") /\ StackOfSteps /\ result = "none"
    BY <1>1, <2>1 DEF FailStep, Shape, Done
  <2>3. (i \in Steps /\ ForwardAt("failed") /\ StackOfSteps)'
    BY <1>0, <2>1, <2>2 DEF FailStep, ForwardAt, StackOfSteps
  <2>4. QED
    BY <2>1, <2>2, <2>3 DEF FailStep, Shape
<1>8. CASE AuditOutcome
  <2>1. CASE stepStatuses[i] = "succeeded"
    <3>1. ForwardPast /\ StackOfSteps /\ result = "none"
      BY <1>0, <1>1, <1>8, <2>1
         DEF AuditOutcome, AuditAppend, Shape, ForwardAt, Steps, Done
    <3>2. /\ i' = i + 1 /\ pc' = "forward"
          /\ UNCHANGED <<memory, succeeded, result>>
      BY <1>8, <2>1 DEF AuditOutcome, AuditAppend
    <3>3. StackOfSteps'
      BY <3>1, <3>2 DEF StackOfSteps
    <3>4. ForwardAt("pending")'
      <4>1. Len(succeeded') = i' - 1 /\ overallStatus' = "in_progress"
        BY <1>0, <3>1, <3>2 DEF ForwardPast
      <4>2. \A s \in Steps : stepStatuses'[s] = IF s <= i THEN "succeeded"
                                                        ELSE "pending"
        BY <3>1, <3>2 DEF ForwardPast
      <4>3. \A s \in Steps : s <= i <=> s < i'
        BY <1>0, <3>2 DEF Steps
      <4>4. QED
        BY <4>1, <4>2, <4>3 DEF ForwardAt
    <3>5. QED
      BY <3>1, <3>2, <3>3, <3>4 DEF Shape
  <2>2. CASE stepStatuses[i] # "succeeded"
    <3>1. i \in Steps /\ ForwardAt("failed") /\ StackOfSteps /\ result = "none"
      BY <1>0, <1>1, <1>8, <2>2
         DEF AuditOutcome, AuditAppend, Shape, ForwardPast, Steps, Done
    <3>2. (i \in Steps /\ ForwardAt("failed") /\ StackOfSteps)'
      BY <1>8, <2>2, <3>1
         DEF AuditOutcome, AuditAppend, ForwardAt, StackOfSteps
    <3>3. QED
      BY <1>8, <2>2, <3>1, <3>2 DEF AuditOutcome, AuditAppend, Shape
  <2>3. QED
    BY <2>1, <2>2
<1>9. CASE ForwardDone
  <2>1. ForwardAt("pending") /\ StackOfSteps /\ result = "none" /\ i = NSteps + 1
    BY <1>0, <1>1, <1>9 DEF ForwardDone, Shape, TypeOK, Done
  <2>2. QED
    BY <1>0, <1>9, <2>1 DEF ForwardDone, ForwardAt, StackOfSteps, Shape, Steps
<1>10. CASE NothingToCompensate \/ BeginCompensation
  <2>1. i \in Steps /\ ForwardAt("failed") /\ StackOfSteps /\ result = "none"
    BY <1>1, <1>10 DEF NothingToCompensate, BeginCompensation, Shape, Done
  <2>2. StackOfSteps'
    BY <1>10, <2>1 DEF NothingToCompensate, BeginCompensation, StackOfSteps
  <2>3. CASE NothingToCompensate
    <3>1. i = 1
      BY <1>0, <2>1, <2>3 DEF NothingToCompensate, ForwardAt
    <3>2. BackwardAt(0, {})' /\ overallStatus' \in Terminal \ {"completed"}
      BY <1>0, <2>1, <2>3, <3>1
         DEF NothingToCompensate, ForwardAt, BackwardAt, Steps, Terminal
    <3>3. QED
      BY <2>1, <2>2, <2>3, <3>2 DEF NothingToCompensate, Shape
  <2>4. CASE BeginCompensation
    <3>1. BackwardAt(i - 1, {"succeeded"})'
      BY <1>0, <2>1, <2>4 DEF BeginCompensation, ForwardAt, BackwardAt, Steps
    <3>2. QED
      BY <2>1, <2>2, <2>4, <3>1 DEF BeginCompensation, Shape
  <2>5. QED
    BY <1>10, <2>3, <2>4
<1>11. CASE AuditCompensating
  <2>1. /\ StackOfSteps /\ result = "none" /\ overallStatus = "compensating"
        /\ BackwardAt(i - 1, {"succeeded"})
    BY <1>1, <1>11 DEF AuditCompensating, AuditAppend, Shape, Done
  <2>2. j' = i - 1 /\ i' = i /\ j' < i'
    BY <1>0, <1>11, <2>1 DEF AuditCompensating, BackwardAt
  <2>3. BackwardAt(j, {"succeeded"})'
    BY <1>11, <2>1, <2>2 DEF AuditCompensating, BackwardAt
  <2>4. QED
    BY <1>11, <2>1, <2>2, <2>3
       DEF AuditCompensating, AuditAppend, StackOfSteps, Shape
<1>12. CASE StartCompensate
  <2>1. /\ StackOfSteps /\ result = "none" /\ overallStatus = "compensating"
        /\ BackwardAt(j, {"succeeded"}) /\ j > 0 /\ j < i
    BY <1>1, <1>12 DEF StartCompensate, Shape, Done
  <2>2. StepToCompensate = j /\ j \in Steps /\ j \in 1 .. (i - 1)
    BY <1>0, <1>12, <2>1, CompensatedStep DEF StartCompensate
  <2>3. /\ stepStatuses' = [stepStatuses EXCEPT ![j] = "compensating"]
        /\ pc' = "save_step_compensating"
        /\ UNCHANGED <<overallStatus, compensationContexts, i, j, succeeded, result>>
    BY <1>12, <2>1, <2>2
       DEF StartCompensate, BackwardAt, IsStepEligibleForCompensation
  <2>4. BackwardAt(j, {"compensating"})'
    BY <1>0, <2>1, <2>2, <2>3 DEF BackwardAt
  <2>5. QED
    BY <2>1, <2>2, <2>3, <2>4 DEF StackOfSteps, Shape
<1>13. CASE CompensateSucceeds \/ CompensateFails \/ CompensateTimesOut
  <2>1. PICK status \in Settled : SettleCompensate(status)
    BY <1>13 DEF CompensateSucceeds, CompensateFails, CompensateTimesOut, Settled
  <2>2. /\ StackOfSteps /\ result = "none" /\ overallStatus = "compensating"
        /\ BackwardAt(j, {"compensating"}) /\ j \in 1 .. (i - 1)
    BY <1>1, <2>1 DEF SettleCompensate, Shape, Done
  <2>3. StepToCompensate = j /\ j \in Steps
    BY <2>1, CompensatedStep DEF SettleCompensate
  <2>4. BackwardAt(j, Settled)'
    BY <1>0, <2>1, <2>2, <2>3 DEF SettleCompensate, BackwardAt
  <2>5. QED
    BY <2>1, <2>2, <2>4 DEF SettleCompensate, StackOfSteps, Shape
<1>14. CASE AuditCompensateOutcome \/ EnqueueFails \/ AuditEnqueued
  <2>1. /\ StackOfSteps /\ result = "none" /\ overallStatus = "compensating"
        /\ BackwardAt(j, Settled) /\ j \in 1 .. (i - 1)
    BY <1>1, <1>14
       DEF AuditCompensateOutcome, EnqueueFails, AuditEnqueued, AuditAppend, Shape,
           Done
  <2>2. UNCHANGED <<memory, i, succeeded, result>>
    BY <1>14 DEF AuditCompensateOutcome, EnqueueFails, AuditEnqueued
  <2>3. StackOfSteps'
    BY <2>1, <2>2 DEF StackOfSteps
  <2>4. CASE pc' = "enqueue"
    <3>1. j' = j
      BY <1>14, <2>4
         DEF AuditCompensateOutcome, EnqueueFails, AuditEnqueued, AuditAppend
    <3>2. QED
      BY <2>1, <2>2, <2>3, <2>4, <3>1 DEF Shape, BackwardAt
  <2>5. CASE pc' = "backward"
    <3>1. j' = j - 1
      BY <1>14, <2>5
         DEF AuditCompensateOutcome, EnqueueFails, AuditEnqueued, AuditAppend
    <3>2. BackwardAt(j, {"succeeded"})' /\ j' < i'
      <4>1. \A s \in Steps : /\ s < j - 1 => s < j
                             /\ s = j - 1 => s < j
                             /\ j - 1 < s /\ s < i => s = j \/ (j < s /\ s < i)
        BY <1>0 DEF Steps
      <4>2. j - 1 < i
        BY <1>0, <2>1
      <4>3. QED
        BY <2>1, <2>2, <3>1, <4>1, <4>2 DEF BackwardAt
    <3>3. QED
      BY <2>1, <2>2, <2>3, <2>5, <3>2 DEF Shape
  <2>6. QED
    BY <1>14, <2>4, <2>5
       DEF AuditCompensateOutcome, EnqueueFails, AuditEnqueued, AuditAppend
<1>15. CASE CompensationDone
  <2>1. /\ StackOfSteps /\ result = "none" /\ BackwardAt(0, {"succeeded"})
    BY <1>1, <1>15 DEF CompensationDone, Shape, Done
  <2>2. /\ overallStatus' \in Terminal \ {"completed"} /\ pc' = "save_final"
        /\ UNCHANGED <<stepStatuses, compensationContexts, i, succeeded, result>>
    BY <1>15 DEF CompensationDone, AggregateCompensationOutcome, Terminal
  <2>3. BackwardAt(0, {})'
    BY <2>1, <2>2 DEF BackwardAt, Steps
  <2>4. QED
    BY <2>1, <2>2, <2>3 DEF StackOfSteps, Shape
<1>16. ~(SaveFails \/ AuditCompleted \/ StepThrows \/ Crash)
  BY DEF SaveFails, AuditCompleted, AuditAppend, StepThrows, Crash, Done
<1>17. QED
  BY <1>2, <1>3, <1>4, <1>5, <1>6, <1>7, <1>8, <1>9, <1>10, <1>11, <1>12, <1>13,
     <1>14, <1>15, <1>16
     DEF Next, Orchestrator, Forward, Backward, StepAnswers

-----------------------------------------------------------------------------
(***************************************************************************)
(* The row.                                                                *)
(***************************************************************************)

\* Only a save writes the row, and it writes the memory as it stands.
LEMMA RowReplaced ==
  ASSUME [Next]_vars
  PROVE  \/ UNCHANGED durable
         \/ pc \in SavePoints /\ durable' = BuildSnapshot /\ UNCHANGED memory
<1>1. CASE \/ SaveStarted \/ SaveBudget \/ SaveOutcome \/ SaveFinal \/ SaveExecuting
           \/ SaveCompensating \/ SaveStepCompensating \/ SaveCompensateOutcome
  BY <1>1 DEF SaveStarted, SaveBudget, SaveOutcome, SaveFinal, SaveExecuting,
              SaveCompensating, SaveStepCompensating, SaveCompensateOutcome,
              SaveOk, SavePoints
<1>2. CASE SaveFails
  BY <1>2 DEF SaveFails
<1>3. CASE \/ AuditStarted \/ AuditBudget \/ AuditOutcome \/ AuditCompensating
           \/ AuditCompensateOutcome \/ AuditEnqueued \/ AuditTimedOut
           \/ AuditCompleted \/ EnqueueDeadLetter \/ EnqueueFails
  BY <1>3 DEF AuditStarted, AuditBudget, AuditOutcome, AuditCompensating,
              AuditCompensateOutcome, AuditEnqueued, AuditTimedOut,
              AuditCompleted, EnqueueDeadLetter, EnqueueFails
<1>4. CASE \/ ExhaustBudget \/ StartStep \/ ForwardDone \/ ExecuteSucceeds
           \/ ExecuteFails \/ ExecuteTimesOut \/ NothingToCompensate
           \/ BeginCompensation \/ StartCompensate \/ CompensationDone
           \/ CompensateSucceeds \/ CompensateFails \/ CompensateTimesOut
  BY <1>4 DEF ExhaustBudget, StartStep, ForwardDone, ExecuteSucceeds, ExecuteFails,
              ExecuteTimesOut, FailStep, NothingToCompensate, BeginCompensation,
              StartCompensate, CompensationDone, CompensateSucceeds,
              CompensateFails, CompensateTimesOut, SettleCompensate
<1>5. CASE StepThrows \/ Crash \/ Tick \/ (\E call \in Calls : Land(call))
           \/ UNCHANGED vars
  BY <1>5 DEF StepThrows, Crash, Tick, Land, vars
<1>6. QED
  BY <1>1, <1>2, <1>3, <1>4, <1>5
     DEF Next, Orchestrator, Forward, Backward, StepAnswers

\* Whatever is not a save, an answer or a turn of a loop leaves the memory alone;
\* what changes it does so right after a save and asks for the next one.
LEMMA MemoryMoves ==
  ASSUME IInv, [Next]_vars
  PROVE  \/ UNCHANGED memory
         \/ /\ pc \notin SavePoints \cup Done /\ pc' \in SavePoints
            /\ UNCHANGED <<durable, remote>>
            /\ \A s \in Steps : stepStatuses'[s] \in {stepStatuses[s]}
                                        \cup NextStatuses(stepStatuses[s])
<1> USE DEF memory, remote
<1>0. stepStatuses \in [Steps -> StepStatus]
  BY DEF IInv, TypeOK
<1>1. pc \notin Done => Shape
  BY DEF IInv
<1>2. CASE UNCHANGED durable /\ UNCHANGED stepStatuses /\ pc' \in SavePoints
           /\ pc \notin SavePoints \cup Done /\ UNCHANGED remote
  BY <1>2
<1>3. CASE ForwardDone \/ NothingToCompensate \/ BeginCompensation
           \/ CompensationDone
  BY <1>2, <1>3 DEF ForwardDone, NothingToCompensate, BeginCompensation,
                    CompensationDone, SavePoints, Done
<1>4. CASE ExhaustBudget \/ StartStep
  <2>1. i \in Steps /\ stepStatuses[i] = "pending"
    BY <1>1, <1>4, StepTimeoutAssumption
       DEF ExhaustBudget, StartStep, Shape, ForwardAt, Done, IInv, TypeOK, Steps
  <2>2. PICK st \in {"executing", "failed"} :
             stepStatuses' = [stepStatuses EXCEPT ![i] = st]
    BY <1>4 DEF ExhaustBudget, StartStep
  <2>3. \A s \in Steps : stepStatuses'[s] \in {stepStatuses[s]}
                                        \cup NextStatuses(stepStatuses[s])
    BY <1>0, <2>1, <2>2 DEF NextStatuses
  <2>4. QED
    BY <1>4, <2>3 DEF ExhaustBudget, StartStep, SavePoints, Done
<1>5. CASE ExecuteSucceeds \/ ExecuteFails \/ ExecuteTimesOut
  <2>1. i \in Steps /\ stepStatuses[i] = "executing"
    BY <1>1, <1>5, StepTimeoutAssumption
       DEF ExecuteSucceeds, ExecuteFails, ExecuteTimesOut, FailStep, Shape,
           ForwardAt, Done, IInv, TypeOK, Steps
  <2>2. PICK st \in {"succeeded", "failed"} :
             stepStatuses' = [stepStatuses EXCEPT ![i] = st]
    BY <1>5 DEF ExecuteSucceeds, ExecuteFails, ExecuteTimesOut, FailStep
  <2>3. \A s \in Steps : stepStatuses'[s] \in {stepStatuses[s]}
                                        \cup NextStatuses(stepStatuses[s])
    BY <1>0, <2>1, <2>2 DEF NextStatuses
  <2>4. QED
    BY <1>5, <2>3 DEF ExecuteSucceeds, ExecuteFails, ExecuteTimesOut, FailStep,
                      SavePoints, Done
<1>6. CASE StartCompensate
  <2>1. j \in Steps /\ StepToCompensate = j /\ stepStatuses[j] = "succeeded"
    BY <1>1, <1>6, CompensatedStep DEF StartCompensate, Shape, BackwardAt, Done
  <2>2. stepStatuses' = [stepStatuses EXCEPT ![j] = "compensating"]
        /\ pc' = "save_step_compensating"
    BY <1>6, <2>1 DEF StartCompensate, IsStepEligibleForCompensation
  <2>3. \A s \in Steps : stepStatuses'[s] \in {stepStatuses[s]}
                                        \cup NextStatuses(stepStatuses[s])
    BY <1>0, <2>1, <2>2 DEF NextStatuses
  <2>4. QED
    BY <1>6, <2>2, <2>3 DEF StartCompensate, SavePoints, Done
<1>7. CASE CompensateSucceeds \/ CompensateFails \/ CompensateTimesOut
  <2>1. PICK st \in Settled : SettleCompensate(st)
    BY <1>7 DEF CompensateSucceeds, CompensateFails, CompensateTimesOut, Settled
  <2>2. j \in Steps /\ StepToCompensate = j /\ stepStatuses[j] = "compensating"
    BY <1>1, <2>1, CompensatedStep DEF SettleCompensate, Shape, BackwardAt, Done
  <2>3. \A s \in Steps : stepStatuses'[s] \in {stepStatuses[s]}
                                        \cup NextStatuses(stepStatuses[s])
    BY <1>0, <2>1, <2>2 DEF SettleCompensate, NextStatuses
  <2>4. QED
    BY <2>1, <2>3 DEF SettleCompensate, SavePoints, Done
<1>8. CASE \/ SaveStarted \/ SaveBudget \/ SaveOutcome \/ SaveFinal \/ SaveExecuting
           \/ SaveCompensating \/ SaveStepCompensating \/ SaveCompensateOutcome
           \/ SaveFails
  BY <1>8 DEF SaveStarted, SaveBudget, SaveOutcome, SaveFinal, SaveExecuting,
              SaveCompensating, SaveStepCompensating, SaveCompensateOutcome,
              SaveFails
<1>9. CASE \/ AuditStarted \/ AuditBudget \/ AuditOutcome \/ AuditCompensating
           \/ AuditCompensateOutcome \/ AuditEnqueued \/ AuditTimedOut
           \/ AuditCompleted \/ EnqueueDeadLetter \/ EnqueueFails
  BY <1>9 DEF AuditStarted, AuditBudget, AuditOutcome, AuditCompensating,
              AuditCompensateOutcome, AuditEnqueued, AuditTimedOut,
              AuditCompleted, EnqueueDeadLetter, EnqueueFails
<1>10. CASE StepThrows \/ Crash \/ Tick \/ (\E call \in Calls : Land(call))
            \/ UNCHANGED vars
  BY <1>10 DEF StepThrows, Crash, Tick, Land, vars
<1>11. QED
  BY <1>3, <1>4, <1>5, <1>6, <1>7, <1>8, <1>9, <1>10
     DEF Next, Orchestrator, Forward, Backward, StepAnswers

\* A program point that is not a save is left with the row as it was; one that
\* is a save is left only by the save (or for good).
LEMMA SavePointLeft ==
  ASSUME [Next]_vars, pc \in SavePoints, pc' \notin Done, pc' # pc
  PROVE  durable' = BuildSnapshot /\ UNCHANGED memory
<1> USE DEF SavePoints, Done
<1>1. CASE \/ SaveStarted \/ SaveBudget \/ SaveOutcome \/ SaveFinal \/ SaveExecuting
           \/ SaveCompensating \/ SaveStepCompensating \/ SaveCompensateOutcome
  BY <1>1 DEF SaveStarted, SaveBudget, SaveOutcome, SaveFinal, SaveExecuting,
              SaveCompensating, SaveStepCompensating, SaveCompensateOutcome, SaveOk
<1>2. ~(SaveFails \/ StepThrows \/ Crash)
  BY DEF SaveFails, StepThrows, Crash
<1>3. ~(\/ AuditStarted \/ AuditBudget \/ AuditOutcome \/ AuditCompensating
        \/ AuditCompensateOutcome \/ AuditEnqueued \/ AuditTimedOut
        \/ AuditCompleted \/ EnqueueDeadLetter \/ EnqueueFails)
  BY DEF AuditStarted, AuditBudget, AuditOutcome, AuditCompensating,
         AuditCompensateOutcome, AuditEnqueued, AuditTimedOut, AuditCompleted,
         AuditAppend, EnqueueDeadLetter, EnqueueFails
<1>4. ~(\/ ExhaustBudget \/ StartStep \/ ForwardDone \/ ExecuteSucceeds
        \/ ExecuteFails \/ ExecuteTimesOut \/ NothingToCompensate
        \/ BeginCompensation \/ StartCompensate \/ CompensationDone
        \/ CompensateSucceeds \/ CompensateFails \/ CompensateTimesOut)
  BY DEF ExhaustBudget, StartStep, ForwardDone, ExecuteSucceeds, ExecuteFails,
         ExecuteTimesOut, FailStep, NothingToCompensate, BeginCompensation,
         StartCompensate, CompensationDone, CompensateSucceeds, CompensateFails,
         CompensateTimesOut, SettleCompensate
<1>5. ~(Tick \/ (\E call \in Calls : Land(call)) \/ UNCHANGED vars)
  BY DEF Tick, Land, vars
<1>6. QED
  BY <1>1, <1>2, <1>3, <1>4, <1>5
     DEF Next, Orchestrator, Forward, Backward, StepAnswers

\* A saga that has ended in some way does not start again.
LEMMA DoneIsFinal ==
  ASSUME [Next]_vars, pc \in Done
  PROVE  pc' \in Done /\ UNCHANGED <<memory, durable, result>>
<1> USE DEF Done
<1>1. ~(Orchestrator \/ StepAnswers \/ Crash \/ Tick)
  <2>1. ~(\/ SaveStarted \/ SaveBudget \/ SaveOutcome \/ SaveFinal \/ SaveExecuting
          \/ SaveCompensating \/ SaveStepCompensating \/ SaveCompensateOutcome
          \/ SaveFails)
    BY DEF SaveStarted, SaveBudget, SaveOutcome, SaveFinal, SaveExecuting,
           SaveCompensating, SaveStepCompensating, SaveCompensateOutcome, SaveOk,
           SaveFails, SavePoints
  <2>2. ~(\/ AuditStarted \/ AuditBudget \/ AuditOutcome \/ AuditCompensating
          \/ AuditCompensateOutcome \/ AuditEnqueued \/ AuditTimedOut
          \/ AuditCompleted \/ EnqueueDeadLetter \/ EnqueueFails)
    BY DEF AuditStarted, AuditBudget, AuditOutcome, AuditCompensating,
           AuditCompensateOutcome, AuditEnqueued, AuditTimedOut, AuditCompleted,
           AuditAppend, EnqueueDeadLetter, EnqueueFails
  <2>3. ~(\/ ExhaustBudget \/ StartStep \/ ForwardDone \/ ExecuteSucceeds
          \/ ExecuteFails \/ ExecuteTimesOut \/ NothingToCompensate
          \/ BeginCompensation \/ StartCompensate \/ CompensationDone
          \/ CompensateSucceeds \/ CompensateFails \/ CompensateTimesOut)
    BY DEF ExhaustBudget, StartStep, ForwardDone, ExecuteSucceeds, ExecuteFails,
           ExecuteTimesOut, FailStep, NothingToCompensate, BeginCompensation,
           StartCompensate, CompensationDone, CompensateSucceeds, CompensateFails,
           CompensateTimesOut, SettleCompensate
  <2>4. ~(StepThrows \/ Crash \/ Tick)
    BY DEF StepThrows, Crash, Tick
  <2>5. QED
    BY <2>1, <2>2, <2>3, <2>4 DEF Orchestrator, Forward, Backward, StepAnswers
<1>2. CASE (\E call \in Calls : Land(call)) \/ UNCHANGED vars
  BY <1>2 DEF Land, vars
<1>3. QED
  BY <1>1, <1>2 DEF Next

\* The row stays one move behind the memory.
LEMMA RowFollowsStep ==
  ASSUME IInv, [Next]_vars
  PROVE  RowFollowsMemory'
<1> SUFFICES ASSUME pc' \notin Done
             PROVE  /\ pc' \notin SavePoints => durable' = BuildSnapshot'
                    /\ \A s \in Steps :
                          stepStatuses'[s] \in {durable'.statuses[s]}
                                  \cup NextStatuses(durable'.statuses[s])
  BY DEF RowFollowsMemory, NextStatuses
<1>1. pc \notin Done
  BY DoneIsFinal
<1>2. RowFollowsMemory
  BY DEF IInv
<1>3. UNCHANGED memory => BuildSnapshot' = BuildSnapshot
  BY DEF memory, BuildSnapshot
<1>4. BuildSnapshot.statuses = stepStatuses
  BY DEF BuildSnapshot
<1>5. CASE UNCHANGED memory /\ durable' = BuildSnapshot
  BY <1>3, <1>4, <1>5 DEF memory
<1>6. CASE UNCHANGED memory /\ UNCHANGED durable
  <2>1. \A s \in Steps : stepStatuses'[s] \in {durable'.statuses[s]}
                                  \cup NextStatuses(durable'.statuses[s])
    BY <1>1, <1>2, <1>6 DEF RowFollowsMemory, memory
  <2>2. CASE pc \notin SavePoints
    BY <1>1, <1>2, <1>3, <1>6, <2>1, <2>2 DEF RowFollowsMemory
  <2>3. CASE pc \in SavePoints
    <3>1. pc' = pc \/ durable' = BuildSnapshot
      BY <2>3, SavePointLeft
    <3>2. QED
      BY <1>5, <1>6, <2>1, <2>3, <3>1
  <2>4. QED
    BY <2>2, <2>3
<1>7. CASE ~UNCHANGED memory
  <2>1. /\ pc \notin SavePoints \cup Done /\ pc' \in SavePoints
        /\ UNCHANGED durable
        /\ \A s \in Steps : stepStatuses'[s] \in {stepStatuses[s]}
                                   \cup NextStatuses(stepStatuses[s])
    BY <1>7, MemoryMoves
  <2>2. durable = BuildSnapshot
    BY <1>2, <2>1 DEF RowFollowsMemory
  <2>3. QED
    BY <1>4, <2>1, <2>2
<1>8. QED
  BY <1>5, <1>6, <1>7, RowReplaced

\* A saved row is a memory, and every memory is a good row.
LEMMA RowOKStep ==
  ASSUME IInv, [Next]_vars
  PROVE  RowOK(durable')
<1>1. CASE UNCHANGED durable
  BY <1>1 DEF IInv
<1>2. CASE pc \in SavePoints /\ durable' = BuildSnapshot
  <2>1. TypeOK /\ StackOfSteps /\ Shape /\ pc \notin Done
    BY <1>2 DEF IInv, SavePoints, Done
  <2>2. QED
    BY <1>2, <2>1, MemoryRow
<1>3. QED
  BY <1>1, <1>2, RowReplaced

\* The world shows only what the memory, and then the row, admits to.
LEMMA CoversStep ==
  ASSUME IInv, [Next]_vars
  PROVE  Covers(stepStatuses)' /\ Covers(durable.statuses)'
<1>0. /\ Covers(stepStatuses) /\ Covers(durable.statuses)
      /\ world \in [Steps -> {"clean", "applied", "reverted"}]
      /\ (pc \notin Done => Shape)
  BY DEF IInv, TypeOK
<1>1. BuildSnapshot.statuses = stepStatuses
  BY DEF BuildSnapshot
<1>2. ASSUME NEW call \in Calls, Land(call)
      PROVE  Covers(stepStatuses)' /\ Covers(durable.statuses)'
  <2>1. ASSUME NEW statuses, Covers(statuses), NEW s \in Steps
        PROVE  /\ (world'[s] # "clean" \/ <<"execute", s>> \in inFlight')
                     => statuses[s] # "pending"
               /\ (world'[s] = "reverted" \/ <<"compensate", s>> \in inFlight')
                     => statuses[s] \in {"compensating"} \cup Settled
    <3>1. /\ \A c : c \in inFlight' => c \in inFlight
          /\ world'[s] = world[s] \/ (call[2] = s /\ world'[s] =
                IF call[1] = "execute" THEN "applied" ELSE "reverted")
      BY <1>0, <1>2 DEF Land
    <3>2. CASE world'[s] = world[s]
      BY <2>1, <3>1, <3>2 DEF Covers
    <3>3. CASE call[2] = s /\ world'[s] = IF call[1] = "execute" THEN "applied"
                                                              ELSE "reverted"
      <4>1. call = <<call[1], s>> /\ call \in inFlight
            /\ call[1] \in {"execute", "compensate"}
        BY <1>2, <3>3 DEF Calls, Land
      <4>2. QED
        BY <2>1, <3>1, <3>3, <4>1 DEF Covers, Settled
    <3>4. QED
      BY <3>1, <3>2, <3>3
  <2>2. UNCHANGED <<stepStatuses, durable>>
    BY <1>2 DEF Land, memory
  <2>3. QED
    BY <1>0, <2>1, <2>2 DEF Covers
<1>3. CASE SaveExecuting
  <2>1. /\ stepStatuses[i] = "executing" /\ durable' = BuildSnapshot
        /\ UNCHANGED <<stepStatuses, world>>
        /\ inFlight' = inFlight \cup {<<"execute", i>>}
    BY <1>0, <1>3, StepTimeoutAssumption
       DEF SaveExecuting, SaveOk, Shape, ForwardAt, memory, Done, Steps, IInv, TypeOK
  <2>2. \A s \in Steps : /\ <<"execute", s>> \in inFlight'
                              => <<"execute", s>> \in inFlight \/ s = i
                         /\ <<"compensate", s>> \in inFlight'
                              => <<"compensate", s>> \in inFlight
    BY <2>1
  <2>3. Covers(stepStatuses)'
    BY <1>0, <2>1, <2>2 DEF Covers
  <2>4. QED
    BY <1>1, <2>1, <2>3 DEF Covers
<1>4. CASE SaveStepCompensating
  <2>1. /\ stepStatuses[j] = "compensating" /\ durable' = BuildSnapshot
        /\ UNCHANGED <<stepStatuses, world>>
        /\ inFlight' = inFlight \cup {<<"compensate", j>>}
    BY <1>0, <1>4, CompensatedStep
       DEF SaveStepCompensating, SaveOk, Shape, BackwardAt, memory, Done
  <2>2. \A s \in Steps : /\ <<"execute", s>> \in inFlight'
                              => <<"execute", s>> \in inFlight
                         /\ <<"compensate", s>> \in inFlight'
                              => <<"compensate", s>> \in inFlight \/ s = j
    BY <2>1
  <2>3. Covers(stepStatuses)'
    BY <1>0, <2>1, <2>2 DEF Covers
  <2>4. QED
    BY <1>1, <2>1, <2>3 DEF Covers
<1>5. CASE UNCHANGED remote
  <2>1. Covers(stepStatuses)'
    <3>1. CASE UNCHANGED memory
      BY <1>0, <1>5, <3>1 DEF Covers, remote, memory
    <3>2. CASE \A s \in Steps : stepStatuses'[s] \in {stepStatuses[s]}
                                         \cup NextStatuses(stepStatuses[s])
      <4>1. \A s \in Steps :
               /\ stepStatuses[s] # "pending" => stepStatuses'[s] # "pending"
               /\ stepStatuses[s] \in {"compensating"} \cup Settled
                     => stepStatuses'[s] \in {"compensating"} \cup Settled
        BY <3>2 DEF NextStatuses, Settled
      <4>2. QED
        BY <1>0, <1>5, <4>1 DEF Covers, remote
    <3>3. QED
      BY <3>1, <3>2, MemoryMoves
  <2>2. Covers(durable.statuses)'
    <3>1. CASE UNCHANGED durable
      BY <1>0, <1>5, <3>1 DEF Covers, remote
    <3>2. CASE durable' = BuildSnapshot
      BY <1>0, <1>1, <1>5, <3>2 DEF Covers, remote
    <3>3. QED
      BY <3>1, <3>2, RowReplaced
  <2>3. QED
    BY <2>1, <2>2
<1>6. UNCHANGED remote \/ SaveExecuting \/ SaveStepCompensating
      \/ (\E call \in Calls : Land(call))
  <2>1. CASE \/ SaveStarted \/ SaveBudget \/ SaveOutcome \/ SaveFinal
             \/ SaveCompensating \/ SaveCompensateOutcome \/ SaveFails
    BY <2>1 DEF SaveStarted, SaveBudget, SaveOutcome, SaveFinal, SaveCompensating,
                SaveCompensateOutcome, SaveFails
  <2>2. CASE \/ AuditStarted \/ AuditBudget \/ AuditOutcome \/ AuditCompensating
             \/ AuditCompensateOutcome \/ AuditEnqueued \/ AuditTimedOut
             \/ AuditCompleted \/ EnqueueDeadLetter \/ EnqueueFails
    BY <2>2 DEF AuditStarted, AuditBudget, AuditOutcome, AuditCompensating,
                AuditCompensateOutcome, AuditEnqueued, AuditTimedOut,
                AuditCompleted, EnqueueDeadLetter, EnqueueFails
  <2>3. CASE \/ ExhaustBudget \/ StartStep \/ ForwardDone \/ ExecuteSucceeds
             \/ ExecuteFails \/ ExecuteTimesOut \/ NothingToCompensate
             \/ BeginCompensation \/ StartCompensate \/ CompensationDone
             \/ CompensateSucceeds \/ CompensateFails \/ CompensateTimesOut
    BY <2>3 DEF ExhaustBudget, StartStep, ForwardDone, ExecuteSucceeds,
                ExecuteFails, ExecuteTimesOut, FailStep, NothingToCompensate,
                BeginCompensation, StartCompensate, CompensationDone,
                CompensateSucceeds, CompensateFails, CompensateTimesOut,
                SettleCompensate
  <2>4. CASE StepThrows \/ Crash \/ Tick \/ UNCHANGED vars
    BY <2>4 DEF StepThrows, Crash, Tick, vars
  <2>5. QED
    BY <2>1, <2>2, <2>3, <2>4
       DEF Next, Orchestrator, Forward, Backward, StepAnswers
<1>7. QED
  BY <1>2, <1>3, <1>4, <1>5, <1>6

\* Only the end of runSaga sets a final result, right after the final save.
LEMMA OutcomeStep ==
  ASSUME IInv, [Next]_vars
  PROVE  OutcomeIsDurable'
<1>1. CASE pc \in Done
  BY <1>1, DoneIsFinal DEF IInv, OutcomeIsDurable, memory
<1>2. CASE pc \notin Done /\ pc' \notin Done
  <2>1. result' = "none"
    BY <1>2, ShapeStep
  <2>2. QED
    BY <2>1 DEF OutcomeIsDurable, Terminal
<1>3. CASE pc \notin Done /\ pc' \in Done
  <2>1. CASE AuditCompleted
    <3>1. pc \notin SavePoints /\ durable = BuildSnapshot /\ Shape
      BY <1>3, <2>1
         DEF AuditCompleted, AuditAppend, IInv, RowFollowsMemory, SavePoints
    <3>2. overallStatus \in Terminal
      BY <2>1, <3>1 DEF AuditCompleted, AuditAppend, Shape, Terminal
    <3>3. QED
      BY <2>1, <3>1, <3>2
         DEF AuditCompleted, SagaResultOf, OutcomeIsDurable, BuildSnapshot, memory
  <2>2. CASE SaveFails
    BY <2>2 DEF SaveFails, OutcomeIsDurable, Terminal
  <2>3. CASE StepThrows \/ Crash
    BY <1>3, <2>3 DEF IInv, StepThrows, Crash, OutcomeIsDurable, Terminal
  <2>4. AuditCompleted \/ SaveFails \/ StepThrows \/ Crash
    <3> USE <1>3 DEF Done, AuditPoints
    <3>1. ~(\/ SaveStarted \/ SaveBudget \/ SaveOutcome \/ SaveFinal
            \/ SaveExecuting \/ SaveCompensating \/ SaveStepCompensating
            \/ SaveCompensateOutcome)
      BY DEF SaveStarted, SaveBudget, SaveOutcome, SaveFinal, SaveExecuting,
             SaveCompensating, SaveStepCompensating, SaveCompensateOutcome, SaveOk
    <3>2. ~(\/ AuditStarted \/ AuditBudget \/ AuditOutcome \/ AuditCompensating
            \/ AuditCompensateOutcome \/ AuditEnqueued \/ AuditTimedOut
            \/ EnqueueDeadLetter \/ EnqueueFails)
      BY DEF AuditStarted, AuditBudget, AuditOutcome, AuditCompensating,
             AuditCompensateOutcome, AuditEnqueued, AuditTimedOut, AuditAppend,
             EnqueueDeadLetter, EnqueueFails
    <3>3. ~(\/ ExhaustBudget \/ StartStep \/ ForwardDone \/ ExecuteSucceeds
            \/ ExecuteFails \/ ExecuteTimesOut \/ NothingToCompensate
            \/ BeginCompensation \/ StartCompensate \/ CompensationDone
            \/ CompensateSucceeds \/ CompensateFails \/ CompensateTimesOut)
      BY DEF ExhaustBudget, StartStep, ForwardDone, ExecuteSucceeds, ExecuteFails,
             ExecuteTimesOut, FailStep, NothingToCompensate, BeginCompensation,
             StartCompensate, CompensationDone, CompensateSucceeds,
             CompensateFails, CompensateTimesOut, SettleCompensate
    <3>4. ~(Tick \/ (\E call \in Calls : Land(call)) \/ UNCHANGED vars)
      BY DEF Tick, Land, vars
    <3>5. QED
      BY <3>1, <3>2, <3>3, <3>4
         DEF Next, Orchestrator, Forward, Backward, StepAnswers
  <2>5. QED
    BY <2>1, <2>2, <2>3, <2>4
<1>4. QED
  BY <1>1, <1>2, <1>3

\* Every step of the orchestrator, of a step that answers, of the clock and of
\* the world preserves the invariant.
LEMMA NextInvariant == IInv /\ [Next]_vars => IInv'
<1> SUFFICES ASSUME IInv, [Next]_vars PROVE IInv'
  OBVIOUS
<1>1. TypeOK' /\ RowFollowsMemory' /\ OutcomeIsDurable'
  BY TypeStep, RowFollowsStep, OutcomeStep
<1>2. Covers(stepStatuses)' /\ Covers(durable.statuses)'
  BY CoversStep
<1>3. RowOK(durable)'
  BY RowOKStep DEF RowOK, ContextsMatch, ReverseOrder, SettledWhenFinal
<1>4. (pc \notin Done => StackOfSteps /\ Shape /\ result = "none")'
  BY ShapeStep
<1>5. QED
  BY <1>1, <1>2, <1>3, <1>4 DEF IInv

-----------------------------------------------------------------------------
(***************************************************************************)
(* What holds of every execution of runSaga, for any number of steps, any  *)
(* timeouts, and wherever it crashes, loses an acknowledgement or a reply. *)
(***************************************************************************)

\* The inductive invariant of runSaga holds throughout.
THEOREM InvariantHolds == Spec => []IInv
<1>1. Init => IInv
  BY InitInvariant
<1>2. IInv /\ [Next]_vars => IInv'
  BY NextInvariant
<1>3. QED
  BY <1>1, <1>2, PTL DEF Spec

\* Type correctness of runSaga's state, its row and the remote side.
THEOREM TypeCorrect == Spec => []TypeOK
<1>1. IInv => TypeOK
  BY DEF IInv
<1>2. QED
  BY <1>1, InvariantHolds, PTL

\* No step is ever called before the row says so: the write-ahead property of
\* the saga row.
THEOREM WriteAhead == Spec => []EffectsHaveDurableIntent
<1>1. IInv => EffectsHaveDurableIntent
  BY DEF IInv, Covers, EffectsHaveDurableIntent
<1>2. QED
  BY <1>1, InvariantHolds, PTL

\* The row always holds what is needed to compensate the steps it shows as done.
THEOREM ContextsAreSaved == Spec => []RecordKeepsCompensationContexts
<1>1. IInv => RecordKeepsCompensationContexts
  BY DEF IInv, RowOK, ContextsMatch, RecordKeepsCompensationContexts
<1>2. QED
  BY <1>1, InvariantHolds, PTL

\* The row shows compensation in strict reverse order of the steps.
THEOREM ReverseCompensation == Spec => []StrictReverseOrder
<1>1. IInv => StrictReverseOrder
  BY DEF IInv, RowOK, ReverseOrder, StrictReverseOrder
<1>2. QED
  BY <1>1, InvariantHolds, PTL

\* A row with a final status leaves nothing for a recovery to do.
THEOREM FinalMeansSettled == Spec => []FinalRecordIsSettled
<1>1. IInv => FinalRecordIsSettled
  BY DEF IInv, RowOK, SettledWhenFinal, FinalRecordIsSettled
<1>2. QED
  BY <1>1, InvariantHolds, PTL

\* The outcome the caller is told is the one in the row.
THEOREM OutcomeSaved == Spec => []OutcomeIsDurable
<1>1. IInv => OutcomeIsDurable
  BY DEF IInv
<1>2. QED
  BY <1>1, InvariantHolds, PTL

\* A save changes no status by more than one move.
LEMMA RowMoves ==
  ASSUME IInv, [Next]_vars
  PROVE  \A s \in Steps : durable'.statuses[s] \in {durable.statuses[s]}
                                         \cup NextStatuses(durable.statuses[s])
<1>1. CASE UNCHANGED durable
  BY <1>1
<1>2. CASE pc \in SavePoints /\ durable' = BuildSnapshot
  <2>1. durable'.statuses = stepStatuses /\ pc \notin Done
    BY <1>2 DEF BuildSnapshot, SavePoints, Done
  <2>2. QED
    BY <2>1 DEF IInv, RowFollowsMemory
<1>3. QED
  BY <1>1, <1>2, RowReplaced

\* Row by row, a step's status only ever makes its next documented move.
THEOREM RowMovesForward == Spec => DurableStatusesMoveForward
<1> DEFINE Moves == \A s \in Steps :
          durable'.statuses[s] \in {durable.statuses[s]}
                                   \cup NextStatuses(durable.statuses[s])
<1>1. IInv /\ [Next]_vars => Moves
  BY RowMoves
<1>2. QED
  BY <1>1, InvariantHolds, PTL DEF Spec, DurableStatusesMoveForward

-----------------------------------------------------------------------------
(***************************************************************************)
(* The world.                                                              *)
(***************************************************************************)

\* Before the first save nothing was called.
LEMMA InitWorld == Init => WorldMatches
  BY DEF Init, WorldMatches, Settled

\* A call is acknowledged only once it has landed, and a step is compensated only
\* after its execute was acknowledged.
LEMMA WorldStep ==
  ASSUME IInv, WorldMatches, [Next]_vars
  PROVE  WorldMatches'
<1> USE DEF memory, locals, remote
<1>0. /\ Covers(stepStatuses) /\ (pc \notin Done => Shape)
      /\ world \in [Steps -> {"clean", "applied", "reverted"}]
      /\ stepStatuses \in [Steps -> StepStatus] /\ i \in Nat /\ i >= 1
  BY StepTimeoutAssumption DEF IInv, TypeOK
<1>1. ASSUME NEW call \in Calls, Land(call)
      PROVE  WorldMatches'
  <2>1. PICK op \in {"execute", "compensate"}, t \in Steps : call = <<op, t>>
    BY DEF Calls
  <2>2. /\ call \in inFlight /\ inFlight' = inFlight \ {<<op, t>>}
        /\ world' = [world EXCEPT ![t] = IF op = "execute" THEN "applied"
                                                        ELSE "reverted"]
        /\ UNCHANGED <<stepStatuses, pc, i, j>>
    BY <1>1, <2>1 DEF Land
  <2>3. \A s \in Steps : s # t => world'[s] = world[s]
    BY <1>0, <2>2
  <2>4. CASE op = "execute"
    <3>1. stepStatuses[t] \notin {"succeeded", "compensating"} \cup Settled
      BY <2>1, <2>2, <2>4 DEF WorldMatches
    <3>2. world'[t] = "applied"
      BY <1>0, <2>2, <2>4
    <3>3. pc = "compensate" => j \in Steps /\ stepStatuses[j] = "compensating"
      BY <1>0, CompensatedStep DEF Shape, BackwardAt, Done
    <3>4. pc = "execute" => i \in Steps
      BY <1>0 DEF Shape, Done
    <3>5. QED
      BY <2>2, <2>3, <2>4, <3>1, <3>2, <3>3, <3>4 DEF WorldMatches, Settled
  <2>5. CASE op = "compensate"
    <3>1. stepStatuses[t] \in {"compensating"} \cup Settled
      BY <1>0, <2>1, <2>2, <2>5 DEF Covers
    <3>2. world'[t] = "reverted" /\ stepStatuses[t] # "compensated"
      BY <1>0, <2>1, <2>2, <2>5 DEF WorldMatches
    <3>3. pc = "execute" => i \in Steps /\ stepStatuses[i] = "executing"
      BY <1>0 DEF Shape, ForwardAt, Done, Steps
    <3>4. pc = "compensate" => j \in Steps
      BY <1>0, CompensatedStep
    <3>5. QED
      BY <2>2, <2>3, <2>5, <3>1, <3>2, <3>3, <3>4 DEF WorldMatches, Settled
  <2>6. QED
    BY <2>4, <2>5
<1>2. CASE SaveExecuting
  <2>1. i \in Steps /\ stepStatuses[i] = "executing"
    BY <1>0, <1>2 DEF SaveExecuting, SaveOk, Shape, ForwardAt, Done, Steps
  <2>2. QED
    BY <1>2, <2>1 DEF SaveExecuting, SaveOk, WorldMatches, Settled
<1>3. CASE SaveStepCompensating
  <2>1. /\ StepToCompensate = j /\ j \in Steps
        /\ stepStatuses[j] = "compensating"
    BY <1>0, <1>3, CompensatedStep
       DEF SaveStepCompensating, SaveOk, Shape, BackwardAt, Done
  <2>2. QED
    BY <1>3, <2>1 DEF SaveStepCompensating, SaveOk, WorldMatches, Settled
<1>4. CASE ExecuteSucceeds
  <2>1. i \in Steps
    BY <1>0, <1>4 DEF ExecuteSucceeds, Shape, Done
  <2>2. world[i] = "applied" /\ <<"execute", i>> \notin inFlight
    BY <1>4 DEF ExecuteSucceeds, WorldMatches
  <2>3. QED
    BY <1>0, <1>4, <2>1, <2>2 DEF ExecuteSucceeds, WorldMatches, Settled
<1>5. CASE CompensateSucceeds
  <2>1. /\ StepToCompensate = j /\ j \in Steps
        /\ stepStatuses[j] = "compensating"
    BY <1>0, <1>5, CompensatedStep
       DEF CompensateSucceeds, SettleCompensate, Shape, BackwardAt, Done
  <2>2. world[j] = "reverted" /\ <<"compensate", j>> \notin inFlight
    BY <1>5, <2>1 DEF CompensateSucceeds, SettleCompensate, WorldMatches
  <2>3. QED
    BY <1>0, <1>5, <2>1, <2>2
       DEF CompensateSucceeds, SettleCompensate, WorldMatches, Settled
<1>6. CASE CompensateFails \/ CompensateTimesOut
  <2>1. /\ StepToCompensate = j /\ j \in Steps
        /\ stepStatuses[j] = "compensating"
    BY <1>0, <1>6, CompensatedStep
       DEF CompensateFails, CompensateTimesOut, SettleCompensate, Shape,
           BackwardAt, Done
  <2>2. QED
    BY <1>0, <1>6, <2>1
       DEF CompensateFails, CompensateTimesOut, SettleCompensate, WorldMatches,
           Settled
<1>7. CASE ExecuteFails \/ ExecuteTimesOut
  <2>1. PICK code \in {"TQ-SAG-001", "TQ-SAG-002"} : FailStep(code)
    BY <1>7 DEF ExecuteFails, ExecuteTimesOut
  <2>2. \A s \in Steps : stepStatuses'[s] # stepStatuses[s]
                            => stepStatuses'[s] = "failed"
    BY <1>0, <2>1 DEF FailStep
  <2>3. QED
    BY <2>1, <2>2 DEF FailStep, WorldMatches, Settled
<1>8. CASE StartStep \/ ExhaustBudget
  <2>1. PICK st \in {"executing", "failed"} :
             stepStatuses' = [stepStatuses EXCEPT ![i] = st]
    BY <1>8 DEF StartStep, ExhaustBudget
  <2>2. \A s \in Steps : stepStatuses'[s] # stepStatuses[s]
                            => stepStatuses'[s] \in {"executing", "failed"}
    BY <1>0, <2>1
  <2>3. UNCHANGED remote /\ pc' \notin {"execute", "compensate"}
    BY <1>8 DEF StartStep, ExhaustBudget
  <2>4. QED
    BY <2>2, <2>3 DEF WorldMatches, Settled
<1>9. CASE StartCompensate
  <2>1. /\ StepToCompensate = j /\ j \in Steps
        /\ stepStatuses[j] = "succeeded"
    BY <1>0, <1>9, CompensatedStep DEF StartCompensate, Shape, BackwardAt, Done
  <2>2. /\ stepStatuses' = [stepStatuses EXCEPT ![j] = "compensating"]
        /\ UNCHANGED remote /\ pc' \notin {"execute", "compensate"}
    BY <1>9, <2>1 DEF StartCompensate, IsStepEligibleForCompensation
  <2>3. QED
    BY <1>0, <2>1, <2>2 DEF WorldMatches, Settled
<1>10. CASE UNCHANGED <<remote, stepStatuses>>
            /\ pc' \notin {"execute", "compensate"}
  BY <1>10 DEF WorldMatches
<1>11. CASE \/ SaveStarted \/ SaveBudget \/ SaveOutcome \/ SaveFinal
            \/ SaveCompensating \/ SaveCompensateOutcome \/ SaveFails
  BY <1>10, <1>11
     DEF SaveStarted, SaveBudget, SaveOutcome, SaveFinal, SaveCompensating,
         SaveCompensateOutcome, SaveFails, SaveOk
<1>12. CASE \/ AuditStarted \/ AuditBudget \/ AuditOutcome \/ AuditCompensating
            \/ AuditCompensateOutcome \/ AuditEnqueued \/ AuditTimedOut
            \/ AuditCompleted \/ EnqueueDeadLetter \/ EnqueueFails
  BY <1>10, <1>12
     DEF AuditStarted, AuditBudget, AuditOutcome, AuditCompensating,
         AuditCompensateOutcome, AuditEnqueued, AuditTimedOut, AuditCompleted,
         AuditAppend, EnqueueDeadLetter, EnqueueFails
<1>13. CASE \/ ForwardDone \/ NothingToCompensate \/ BeginCompensation
            \/ CompensationDone \/ StepThrows \/ Crash
  BY <1>10, <1>13
     DEF ForwardDone, NothingToCompensate, BeginCompensation, CompensationDone,
         StepThrows, Crash
<1>14. CASE Tick \/ UNCHANGED vars
  BY <1>14 DEF Tick, vars, WorldMatches
<1>15. QED
  BY <1>1, <1>2, <1>3, <1>4, <1>5, <1>6, <1>7, <1>8, <1>9, <1>11, <1>12, <1>13,
     <1>14
     DEF Next, Orchestrator, Forward, Backward, StepAnswers

\* What the caller of runSaga is told agrees with the world, late answers and
\* abandoned calls included.
THEOREM OutcomeIsTrue == Spec => []OutcomeMatchesWorld
<1>1. Init => WorldMatches
  BY InitWorld
<1>2. IInv /\ WorldMatches /\ [Next]_vars => WorldMatches'
  BY WorldStep
<1>3. IInv /\ WorldMatches => OutcomeMatchesWorld
  <2> SUFFICES ASSUME IInv, WorldMatches, result \in Terminal, NEW s \in Steps
               PROVE  IF result = "completed" THEN world[s] = "applied"
                      ELSE world[s] = "applied"
                              => stepStatuses[s] \in {"failed", "dead_lettered"}
    BY DEF OutcomeMatchesWorld
  <2>1. stepStatuses[s] \in IF result = "completed" THEN {"succeeded"}
                            ELSE {"pending", "failed"} \cup Settled
    BY DEF IInv, OutcomeIsDurable, RowOK, SettledWhenFinal
  <2>2. stepStatuses[s] = "pending" => world[s] = "clean"
    BY DEF IInv, Covers
  <2>3. QED
    BY <2>1, <2>2 DEF WorldMatches, Settled
<1>4. QED
  BY <1>1, <1>2, <1>3, InvariantHolds, PTL DEF Spec

-----------------------------------------------------------------------------
(***************************************************************************)
(* What IInv does not say, and the promises after it: the row before each  *)
(* save, the dead letters, the audit trail and the verdict on a timeout.   *)
(* With it, the saved row implements the undo stack.                       *)
(***************************************************************************)
DeadSteps == {s \in Steps : stepStatuses[s] = "dead_lettered"}

\* What an undo stack reads from a row.
Reads(row, phase, done, residue, verdict) ==
    /\ PhaseOf(row) = phase /\ DoneOf(row) = done
    /\ ResidueOf(row) = residue /\ VerdictOf(row) = verdict

\* The row that a save is about to replace: one step behind the memory.
RowBefore ==
    /\ pc = "save_started" => durable = NoRow
    /\ pc \in {"save_executing", "save_budget", "save_outcome"}
          => Reads(durable, "forward", 1 .. (i - 1), {}, "none")
    /\ pc = "save_compensating" => Reads(durable, "backward", 1 .. (i - 1), {}, "none")
    /\ pc = "save_step_compensating"
          => Reads(durable, "backward", 1 .. j, DeadSteps, "none")
    /\ pc = "save_compensate_outcome"
          => Reads(durable, "backward", 1 .. j, DeadSteps \ {j}, "none")
    /\ pc = "save_final" /\ overallStatus = "completed"
          => Reads(durable, "forward", Steps, {}, "none")
    /\ pc = "save_final" /\ overallStatus # "completed"
          => Reads(durable, "backward", {}, DeadSteps, "none")

\* The final status tells whether a compensation failed.
VerdictIsKnown ==
    pc \in {"save_final", "audit_timed_out", "audit_completed"}
      => (overallStatus = "partially_compensated" <=> DeadSteps # {})

\* Each failed compensation was enqueued or reported, but for the one at hand.
LettersInv ==
    /\ pc \notin Done => \A s \in DeadSteps :
         \/ s \in deadLetters \cup degraded
         \/ s = j /\ pc \in {"save_compensate_outcome", "audit_compensate_outcome",
                             "enqueue"}
    /\ pc = "audit_enqueued" => j \in deadLetters
    /\ DeadLettersAccountedFor

\* From the start of a step to the verdict on it, the timeout is the one computed
\* before the step, and the failure is the one its outcome shows.
VerdictDue(codes) ==
    /\ failure \in codes
    /\ effectiveStepTimeout = EffectiveStepTimeout(elapsedBeforeStep)

Verdict ==
    overallTimedOut <=> /\ failure \in {"TQ-SAG-001", "TQ-SAG-004"}
                        /\ SagaBounded
                        /\ SagaTimeout <= elapsedBeforeStep + StepTimeout

VerdictInv ==
    /\ pc \in {"save_started", "audit_started", "forward"} => failure = "none"
    /\ pc \in {"save_executing", "execute"} => VerdictDue({"none"})
    /\ pc \in {"save_budget", "audit_budget"}
          => VerdictDue({"TQ-SAG-004"}) /\ effectiveStepTimeout = 0
    /\ pc \in {"save_outcome", "audit_outcome"} /\ stepStatuses[i] = "succeeded"
          => VerdictDue({"none"})
    /\ pc \in {"save_outcome", "audit_outcome"} /\ stepStatuses[i] # "succeeded"
          => VerdictDue({"TQ-SAG-001", "TQ-SAG-002"})
    /\ pc \in {"failed", "save_compensating", "audit_compensating", "backward",
               "save_step_compensating", "compensate", "save_compensate_outcome",
               "audit_compensate_outcome", "enqueue", "audit_enqueued"} => Verdict
    /\ pc \in {"save_final", "audit_timed_out", "audit_completed"}
          => failure = "none" \/ Verdict

\* A row with a final status is not replaced.
FinalRowStays == pc \in SavePoints => durable.overall \notin Terminal

PromisesInv ==
    /\ IInv /\ RowBefore /\ VerdictIsKnown /\ LettersInv /\ VerdictInv
    /\ FinalRowStays /\ AuditNeverAheadOfRecord

-----------------------------------------------------------------------------
(***************************************************************************)
(* What the memory would read as, if it were saved.                        *)
(***************************************************************************)

\* Forward at step i: the steps below it are done; a failed one turns the stack.
LEMMA ForwardReads ==
  ASSUME IInv, NEW st \in {"pending", "executing", "failed"}, ForwardAt(st),
         st = "failed" => i \in Steps
  PROVE  Reads(BuildSnapshot, IF st = "failed" THEN "backward" ELSE "forward",
               1 .. (i - 1), {}, "none")
<1>0. i \in 1 .. (NSteps + 1) /\ NSteps \in Nat
  BY StepTimeoutAssumption DEF IInv, TypeOK
<1>1. /\ BuildSnapshot.overall = "in_progress"
      /\ BuildSnapshot.statuses = stepStatuses
      /\ \A s \in Steps : stepStatuses[s] = IF s < i THEN "succeeded"
                                            ELSE IF s = i THEN st ELSE "pending"
  BY DEF ForwardAt, BuildSnapshot
<1>2. VerdictOf(BuildSnapshot) = "none"
  BY <1>1 DEF VerdictOf
<1>3. DoneOf(BuildSnapshot) = 1 .. (i - 1) /\ ResidueOf(BuildSnapshot) = {}
  BY <1>0, <1>1 DEF DoneOf, ResidueOf, Steps
<1>4. PhaseOf(BuildSnapshot) = IF st = "failed" THEN "backward" ELSE "forward"
  BY <1>0, <1>1 DEF PhaseOf, Terminal, Steps
<1>5. QED
  BY <1>2, <1>3, <1>4 DEF Reads

\* Step i has just been done.
LEMMA PastReads ==
  ASSUME IInv, ForwardPast
  PROVE  Reads(BuildSnapshot, "forward", 1 .. i, {}, "none")
<1>0. i \in 1 .. NSteps /\ NSteps \in Nat
  BY StepTimeoutAssumption DEF ForwardPast, Steps
<1>1. /\ BuildSnapshot.overall = "in_progress"
      /\ BuildSnapshot.statuses = stepStatuses
      /\ \A s \in Steps : stepStatuses[s] = IF s <= i THEN "succeeded" ELSE "pending"
  BY DEF ForwardPast, BuildSnapshot
<1>2. VerdictOf(BuildSnapshot) = "none"
  BY <1>1 DEF VerdictOf
<1>3. DoneOf(BuildSnapshot) = 1 .. i /\ ResidueOf(BuildSnapshot) = {}
  BY <1>0, <1>1 DEF DoneOf, ResidueOf, Steps
<1>4. PhaseOf(BuildSnapshot) = "forward"
  BY <1>0, <1>1 DEF PhaseOf, Terminal, Steps
<1>5. QED
  BY <1>2, <1>3, <1>4 DEF Reads

\* The compensation stands at step k: those below it are done, and k too unless its
\* own compensation is over.
LEMMA BackwardReads ==
  ASSUME IInv, NEW k \in 0 .. NSteps, k < i,
         NEW sts \in {{"succeeded"}, {"compensating"}, Settled, {}}, BackwardAt(k, sts)
  PROVE  /\ DoneOf(BuildSnapshot) = 1 .. (IF sts = Settled THEN k - 1 ELSE k)
         /\ ResidueOf(BuildSnapshot) = DeadSteps
         /\ overallStatus = "compensating" =>
              PhaseOf(BuildSnapshot) = "backward" /\ VerdictOf(BuildSnapshot) = "none"
<1>0. i \in 1 .. NSteps /\ NSteps \in Nat /\ BuildSnapshot.statuses = stepStatuses
      /\ BuildSnapshot.overall = overallStatus
  BY StepTimeoutAssumption DEF BackwardAt, Steps, BuildSnapshot
<1>1. /\ "succeeded" \notin Settled /\ "compensating" \notin Settled
      /\ "failed" \notin Settled /\ "pending" \notin Settled
      /\ Settled = {"compensated", "dead_lettered"}
  BY DEF Settled
<1>2. DoneOf(BuildSnapshot) = 1 .. (IF sts = Settled THEN k - 1 ELSE k)
  <2>1. CASE sts = Settled
    BY <1>0, <1>1, <2>1 DEF BackwardAt, DoneOf, Steps
  <2>2. CASE sts # Settled
    <3>1. \A s \in Steps : stepStatuses[s] \in {"succeeded", "compensating"} <=> s <= k
      <4>1. \A x \in sts : x \in {"succeeded", "compensating"}
        BY <2>2
      <4>2. TAKE s \in Steps
      <4>3. s = k => stepStatuses[s] \in {"succeeded", "compensating"}
        BY <4>1 DEF BackwardAt
      <4>4. /\ s < k => stepStatuses[s] = "succeeded"
            /\ s > k => stepStatuses[s] \in Settled \cup {"failed", "pending"}
        BY <1>0 DEF BackwardAt, Steps
      <4> QED
        BY <1>0, <4>3, <4>4 DEF Settled, Steps
    <3> QED
      BY <1>0, <2>2, <3>1 DEF DoneOf, Steps
  <2> QED
    BY <2>1, <2>2
<1>3. ResidueOf(BuildSnapshot) = DeadSteps
  BY <1>0 DEF ResidueOf, DeadSteps
<1>4. ASSUME overallStatus = "compensating"
      PROVE  PhaseOf(BuildSnapshot) = "backward" /\ VerdictOf(BuildSnapshot) = "none"
  BY <1>0, <1>4 DEF PhaseOf, VerdictOf, Terminal
<1>5. QED
  BY <1>2, <1>3, <1>4

\* What the memory reads as at every program point.
LEMMA MemoryReads ==
  ASSUME IInv
  PROVE  /\ pc \in {"save_started", "audit_started", "forward", "save_executing", "execute"}
              => Reads(BuildSnapshot, "forward", 1 .. (i - 1), {}, "none")
         /\ pc \in {"save_budget", "audit_budget", "failed"}
              => Reads(BuildSnapshot, "backward", 1 .. (i - 1), {}, "none")
         /\ pc \in {"save_outcome", "audit_outcome"}
              => \/ Reads(BuildSnapshot, "forward", 1 .. i, {}, "none") /\ i \in Steps
                 \/ Reads(BuildSnapshot, "backward", 1 .. (i - 1), {}, "none") /\ i \in Steps
         /\ pc \in {"save_compensating", "audit_compensating"}
              => Reads(BuildSnapshot, "backward", 1 .. (i - 1), DeadSteps, "none")
         /\ pc \in {"backward", "save_step_compensating", "compensate"}
              => Reads(BuildSnapshot, "backward", 1 .. j, DeadSteps, "none")
         /\ pc \in {"save_compensate_outcome", "audit_compensate_outcome", "enqueue",
                    "audit_enqueued"}
              => Reads(BuildSnapshot, "backward", 1 .. (j - 1), DeadSteps, "none")
<1>0. /\ pc \notin Done => Shape
      /\ i \in 1 .. (NSteps + 1) /\ j \in 0 .. NSteps /\ NSteps \in Nat
  BY StepTimeoutAssumption DEF IInv, TypeOK
<1>1. ASSUME NEW k \in 0 .. NSteps, k < i, overallStatus = "compensating",
             NEW sts \in {{"succeeded"}, {"compensating"}, Settled, {}}, BackwardAt(k, sts)
      PROVE  Reads(BuildSnapshot, "backward", 1 .. (IF sts = Settled THEN k - 1 ELSE k),
                   DeadSteps, "none")
  BY <1>1, BackwardReads DEF Reads
<1>2. {"succeeded"} # Settled /\ {"compensating"} # Settled
  BY DEF Settled
<1>3. CASE pc \in {"save_started", "audit_started", "forward", "save_executing", "execute"}
  BY <1>0, <1>3, ForwardReads DEF Shape, Done
<1>4. CASE pc \in {"save_budget", "audit_budget", "failed"}
  BY <1>0, <1>4, ForwardReads DEF Shape, Done
<1>5. CASE pc \in {"save_outcome", "audit_outcome"}
  <2>1. ForwardPast \/ (i \in Steps /\ ForwardAt("failed"))
    BY <1>0, <1>5 DEF Shape, Done
  <2>2. ASSUME i \in Steps, ForwardAt("failed")
        PROVE  Reads(BuildSnapshot, "backward", 1 .. (i - 1), {}, "none")
    BY <2>2, ForwardReads
  <2> QED
    BY <1>5, <2>1, <2>2, PastReads DEF ForwardPast
<1>6. CASE pc \in {"save_compensating", "audit_compensating"}
  <2>1. overallStatus = "compensating" /\ BackwardAt(i - 1, {"succeeded"})
    BY <1>0, <1>6 DEF Shape, Done
  <2>2. i - 1 \in 0 .. NSteps /\ i - 1 < i
    BY <1>0
  <2> QED
    BY <1>1, <1>2, <1>6, <2>1, <2>2
<1>7. CASE pc \in {"backward", "save_step_compensating", "compensate"}
  <2>1. /\ overallStatus = "compensating" /\ j < i
        /\ BackwardAt(j, {"succeeded"}) \/ BackwardAt(j, {"compensating"})
    BY <1>0, <1>7 DEF Shape, Done
  <2> QED
    BY <1>0, <1>1, <1>2, <1>7, <2>1
<1>8. CASE pc \in {"save_compensate_outcome", "audit_compensate_outcome", "enqueue",
                   "audit_enqueued"}
  <2>1. overallStatus = "compensating" /\ j < i /\ BackwardAt(j, Settled)
    BY <1>0, <1>8 DEF Shape, Done
  <2> QED
    BY <1>0, <1>1, <1>8, <2>1
<1>9. QED
  BY <1>3, <1>4, <1>5, <1>6, <1>7, <1>8

-----------------------------------------------------------------------------
(***************************************************************************)
(* The row before a save.                                                  *)
(***************************************************************************)

\* A save point is entered by one of these actions, or it was there before.
LEMMA SavePointEntered ==
  ASSUME [Next]_vars, pc' \in SavePoints
  PROVE  \/ UNCHANGED <<pc, memory, locals, durable, letters, audit>>
         \/ /\ \/ ExhaustBudget \/ StartStep \/ ForwardDone \/ ExecuteSucceeds
               \/ ExecuteFails \/ ExecuteTimesOut \/ NothingToCompensate
               \/ BeginCompensation \/ StartCompensate \/ CompensationDone
               \/ CompensateSucceeds \/ CompensateFails \/ CompensateTimesOut
            /\ pc \notin SavePoints \cup Done
            /\ UNCHANGED <<durable, letters, audit>>
<1>1. ~(\/ SaveStarted \/ SaveBudget \/ SaveOutcome \/ SaveFinal \/ SaveExecuting
        \/ SaveCompensating \/ SaveStepCompensating \/ SaveCompensateOutcome
        \/ SaveFails \/ StepThrows \/ Crash)
  BY DEF SaveStarted, SaveBudget, SaveOutcome, SaveFinal, SaveExecuting,
         SaveCompensating, SaveStepCompensating, SaveCompensateOutcome, SaveOk,
         SaveFails, StepThrows, Crash, SavePoints
<1>2. ~(\/ AuditStarted \/ AuditBudget \/ AuditOutcome \/ AuditCompensating
        \/ AuditCompensateOutcome \/ AuditEnqueued \/ AuditTimedOut
        \/ AuditCompleted \/ EnqueueDeadLetter \/ EnqueueFails)
  BY DEF AuditStarted, AuditBudget, AuditOutcome, AuditCompensating,
         AuditCompensateOutcome, AuditEnqueued, AuditTimedOut, AuditCompleted,
         AuditAppend, EnqueueDeadLetter, EnqueueFails, SavePoints
<1>3. CASE Tick \/ (\E call \in Calls : Land(call)) \/ UNCHANGED vars
  BY <1>3 DEF Tick, Land, vars, memory, locals, letters
<1>4. CASE \/ ExhaustBudget \/ StartStep \/ ForwardDone \/ ExecuteSucceeds
           \/ ExecuteFails \/ ExecuteTimesOut \/ NothingToCompensate
           \/ BeginCompensation \/ StartCompensate \/ CompensationDone
           \/ CompensateSucceeds \/ CompensateFails \/ CompensateTimesOut
  BY <1>4 DEF ExhaustBudget, StartStep, ForwardDone, ExecuteSucceeds, ExecuteFails,
              ExecuteTimesOut, FailStep, NothingToCompensate, BeginCompensation,
              StartCompensate, CompensationDone, CompensateSucceeds,
              CompensateFails, CompensateTimesOut, SettleCompensate, letters,
              SavePoints, Done
<1>5. QED
  BY <1>1, <1>2, <1>3, <1>4 DEF Next, Orchestrator, Forward, Backward, StepAnswers

\* Each turn of a loop asks for a save of the row it has just changed in memory.
LEMMA RowBeforeStep ==
  ASSUME IInv, RowBefore, [Next]_vars
  PROVE  RowBefore'
<1> SUFFICES ASSUME pc' \in SavePoints
             PROVE  RowBefore'
  BY DEF RowBefore, SavePoints
<1>0. /\ stepStatuses \in [Steps -> StepStatus] /\ i \in 1 .. (NSteps + 1)
      /\ j \in 0 .. NSteps /\ NSteps \in Nat /\ (pc \notin Done => Shape)
  BY StepTimeoutAssumption DEF IInv, TypeOK
<1>1. CASE UNCHANGED <<pc, memory, locals, durable>>
  BY <1>1 DEF memory, locals, RowBefore, DeadSteps
<1> DEFINE Row0(phase, done, residue) == Reads(durable', phase, done, residue, "none")
<1>2. ASSUME pc \notin SavePoints \cup Done, UNCHANGED durable
      PROVE  durable' = BuildSnapshot
  BY <1>2 DEF IInv, RowFollowsMemory
<1>3. DeadSteps = ResidueOf(BuildSnapshot)
  BY DEF DeadSteps, ResidueOf, BuildSnapshot
<1>4. ASSUME pc \notin SavePoints \cup Done, UNCHANGED durable,
             ExhaustBudget \/ StartStep \/ ExecuteSucceeds \/ ExecuteFails
               \/ ExecuteTimesOut
      PROVE  RowBefore'
  <2>1. /\ pc \in {"forward", "execute"} /\ i' = i
        /\ pc' \in {"save_budget", "save_executing", "save_outcome"}
    BY <1>4 DEF ExhaustBudget, StartStep, ExecuteSucceeds, ExecuteFails,
                ExecuteTimesOut, FailStep
  <2>2. Row0("forward", 1 .. (i - 1), {})
    BY <1>2, <1>4, <2>1, MemoryReads
  <2> QED
    BY <2>1, <2>2 DEF RowBefore
<1>5. ASSUME pc \notin SavePoints \cup Done, UNCHANGED durable, NothingToCompensate
      PROVE  RowBefore'
  <2>1. /\ pc = "failed" /\ pc' = "save_final" /\ stepStatuses' = stepStatuses
        /\ overallStatus' # "completed" /\ Len(succeeded) = 0
    BY <1>5 DEF NothingToCompensate
  <2>2. Row0("backward", 1 .. (i - 1), {}) /\ i - 1 = 0
    BY <1>0, <1>2, <1>5, <2>1, MemoryReads DEF Shape, ForwardAt, Done
  <2>3. 1 .. (i - 1) = {} /\ DeadSteps = {} /\ DeadSteps' = DeadSteps
    BY <1>2, <1>3, <1>5, <2>1, <2>2 DEF Reads, DeadSteps
  <2> QED
    BY <2>1, <2>2, <2>3 DEF RowBefore
<1>6. ASSUME pc \notin SavePoints \cup Done, UNCHANGED durable, BeginCompensation
      PROVE  RowBefore'
  <2>1. pc = "failed" /\ pc' = "save_compensating" /\ i' = i
    BY <1>6 DEF BeginCompensation, locals
  <2>2. Row0("backward", 1 .. (i - 1), {})
    BY <1>2, <1>6, <2>1, MemoryReads
  <2> QED
    BY <2>1, <2>2 DEF RowBefore
<1>7. ASSUME pc \notin SavePoints \cup Done, UNCHANGED durable, StartCompensate
      PROVE  RowBefore'
  <2>1. /\ pc = "backward" /\ pc' = "save_step_compensating" /\ j' = j
        /\ StepToCompensate = j /\ j \in Steps
        /\ stepStatuses' = [stepStatuses EXCEPT ![j] = "compensating"]
    BY <1>7, CompensatedStep DEF StartCompensate, SavePoints
  <2>2. stepStatuses[j] = "succeeded"
    BY <1>0, <2>1 DEF Shape, BackwardAt, Done
  <2>3. DeadSteps' = DeadSteps
    BY <1>0, <2>1, <2>2 DEF DeadSteps
  <2>4. Row0("backward", 1 .. j, DeadSteps)
    BY <1>2, <1>7, <2>1, MemoryReads
  <2> QED
    BY <2>1, <2>3, <2>4 DEF RowBefore
<1>8. ASSUME pc \notin SavePoints \cup Done, UNCHANGED durable, NEW st \in Settled,
             SettleCompensate(st)
      PROVE  RowBefore'
  <2>1. /\ pc = "compensate" /\ pc' = "save_compensate_outcome" /\ j' = j
        /\ StepToCompensate = j /\ j \in Steps
        /\ stepStatuses' = [stepStatuses EXCEPT ![j] = st]
    BY <1>8, CompensatedStep DEF SettleCompensate, locals
  <2>2. stepStatuses[j] = "compensating"
    BY <1>0, <2>1 DEF Shape, BackwardAt, Done
  <2>3. DeadSteps = DeadSteps' \ {j}
    BY <1>0, <2>1, <2>2 DEF DeadSteps
  <2>4. Row0("backward", 1 .. j, DeadSteps)
    BY <1>2, <1>8, <2>1, MemoryReads
  <2> QED
    BY <2>1, <2>3, <2>4 DEF RowBefore
<1>9. ASSUME pc \notin SavePoints \cup Done, UNCHANGED durable, ForwardDone
      PROVE  RowBefore'
  <2>1. pc = "forward" /\ pc' = "save_final" /\ overallStatus' = "completed" /\ i > NSteps
    BY <1>9 DEF ForwardDone
  <2>2. Row0("forward", 1 .. (i - 1), {}) /\ 1 .. (i - 1) = Steps
    BY <1>0, <1>2, <1>9, <2>1, MemoryReads DEF Steps
  <2> QED
    BY <2>1, <2>2 DEF RowBefore
<1>10. ASSUME pc \notin SavePoints \cup Done, UNCHANGED durable, CompensationDone
       PROVE  RowBefore'
  <2>1. /\ pc = "backward" /\ pc' = "save_final" /\ j = 0
        /\ overallStatus' # "completed" /\ stepStatuses' = stepStatuses
    BY <1>10 DEF CompensationDone, AggregateCompensationOutcome
  <2>2. Row0("backward", 1 .. j, DeadSteps) /\ 1 .. j = {}
    BY <1>2, <1>10, <2>1, MemoryReads
  <2>3. DeadSteps' = DeadSteps
    BY <2>1 DEF DeadSteps
  <2> QED
    BY <2>1, <2>2, <2>3 DEF RowBefore
<1>11. QED
  BY <1>1, <1>4, <1>5, <1>6, <1>7, <1>8, <1>9, <1>10, SavePointEntered
     DEF CompensateSucceeds, CompensateFails, CompensateTimesOut, Settled

\* The final status is chosen from the statuses of the steps, which then stay.
LEMMA VerdictKnownStep ==
  ASSUME IInv, VerdictIsKnown, [Next]_vars
  PROVE  VerdictIsKnown'
<1> SUFFICES ASSUME pc' \in {"save_final", "audit_timed_out", "audit_completed"}
             PROVE  overallStatus' = "partially_compensated" <=> DeadSteps' # {}
  BY DEF VerdictIsKnown
<1>0. pc \notin Done => Shape
  BY DEF IInv
<1>1. DeadSteps = ResidueOf(BuildSnapshot)
  BY DEF DeadSteps, ResidueOf, BuildSnapshot
<1>2. CASE UNCHANGED memory /\ pc \in {"save_final", "audit_timed_out", "audit_completed"}
  BY <1>2 DEF VerdictIsKnown, memory, DeadSteps
<1>3. CASE ForwardDone
  <2>1. DeadSteps = {} /\ DeadSteps' = DeadSteps
    BY <1>1, <1>3, MemoryReads DEF ForwardDone, Reads, DeadSteps
  <2> QED
    BY <1>3, <2>1 DEF ForwardDone
<1>4. CASE NothingToCompensate
  <2>1. DeadSteps = {} /\ DeadSteps' = DeadSteps
    BY <1>1, <1>4, MemoryReads DEF NothingToCompensate, Reads, DeadSteps
  <2> QED
    BY <1>4, <2>1 DEF NothingToCompensate
<1>5. CASE CompensationDone
  BY <1>5 DEF CompensationDone, AggregateCompensationOutcome, DeadSteps
<1>6. CASE pc' = "save_final" /\ UNCHANGED <<pc, memory>>
  BY <1>2, <1>6
<1>7. CASE pc' = "save_final"
  BY <1>3, <1>4, <1>5, <1>6, <1>7, SavePointEntered
     DEF SavePoints, ExhaustBudget, StartStep, ExecuteSucceeds, ExecuteFails,
         ExecuteTimesOut, FailStep, BeginCompensation, StartCompensate,
         CompensateSucceeds, CompensateFails, CompensateTimesOut, SettleCompensate
<1>8. CASE pc' \in {"audit_timed_out", "audit_completed"}
  <2>1. UNCHANGED memory
    BY <1>8, MemoryMoves DEF SavePoints
  <2>2. pc \in {"save_final", "audit_timed_out", "audit_completed"}
    <3>1. CASE SaveFinal \/ AuditTimedOut \/ AuditCompleted
      BY <3>1 DEF SaveFinal, SaveOk, AuditTimedOut, AuditCompleted, AuditAppend
    <3>2. CASE Tick \/ (\E call \in Calls : Land(call)) \/ UNCHANGED vars
      BY <1>8, <3>2 DEF Tick, Land, vars
    <3>3. ~(\/ SaveStarted \/ SaveBudget \/ SaveOutcome \/ SaveExecuting
            \/ SaveCompensating \/ SaveStepCompensating \/ SaveCompensateOutcome
            \/ SaveFails \/ StepThrows \/ Crash)
      BY <1>8 DEF SaveStarted, SaveBudget, SaveOutcome, SaveExecuting,
                  SaveCompensating, SaveStepCompensating, SaveCompensateOutcome,
                  SaveOk, SaveFails, StepThrows, Crash
    <3>4. ~(\/ AuditStarted \/ AuditBudget \/ AuditOutcome \/ AuditCompensating
            \/ AuditCompensateOutcome \/ AuditEnqueued \/ EnqueueDeadLetter
            \/ EnqueueFails)
      BY <1>8 DEF AuditStarted, AuditBudget, AuditOutcome, AuditCompensating,
                  AuditCompensateOutcome, AuditEnqueued, AuditAppend,
                  EnqueueDeadLetter, EnqueueFails
    <3>5. ~(\/ ExhaustBudget \/ StartStep \/ ForwardDone \/ ExecuteSucceeds
            \/ ExecuteFails \/ ExecuteTimesOut \/ NothingToCompensate
            \/ BeginCompensation \/ CompensationDone \/ CompensateSucceeds
            \/ CompensateFails \/ CompensateTimesOut)
      BY <1>8 DEF ExhaustBudget, StartStep, ForwardDone, ExecuteSucceeds,
                  ExecuteFails, ExecuteTimesOut, FailStep, NothingToCompensate,
                  BeginCompensation, CompensationDone, CompensateSucceeds,
                  CompensateFails, CompensateTimesOut, SettleCompensate
    <3>6. ~StartCompensate
      BY <1>8 DEF StartCompensate
    <3> QED
      BY <3>1, <3>2, <3>3, <3>4, <3>5, <3>6
         DEF Next, Orchestrator, Forward, Backward, StepAnswers
  <2> QED
    BY <1>2, <2>1, <2>2
<1>9. QED
  BY <1>7, <1>8

-----------------------------------------------------------------------------
(***************************************************************************)
(* The refinement.                                                         *)
(***************************************************************************)

\* The row that ends a saga: the stack is closed, full or empty.
LEMMA FinalReads ==
  ASSUME IInv, VerdictIsKnown, pc = "save_final"
  PROVE  IF overallStatus = "completed"
         THEN Reads(BuildSnapshot, "closed", Steps, {}, "completed")
         ELSE Reads(BuildSnapshot, "closed", {}, DeadSteps,
                    IF DeadSteps = {} THEN "undone" ELSE "residue")
<1>0. /\ Shape /\ BuildSnapshot.overall = overallStatus
      /\ BuildSnapshot.statuses = stepStatuses /\ NSteps \in Nat /\ i \in 1 .. (NSteps + 1)
  BY StepTimeoutAssumption DEF IInv, TypeOK, Done, BuildSnapshot
<1>1. CASE overallStatus = "completed"
  <2>1. \A s \in Steps : stepStatuses[s] = "succeeded"
    BY <1>0, <1>1 DEF Shape
  <2>2. DoneOf(BuildSnapshot) = Steps /\ ResidueOf(BuildSnapshot) = {}
    BY <1>0, <2>1 DEF DoneOf, ResidueOf
  <2>3. PhaseOf(BuildSnapshot) = "closed" /\ VerdictOf(BuildSnapshot) = "completed"
    BY <1>0, <1>1 DEF PhaseOf, VerdictOf, Terminal
  <2> QED
    BY <1>1, <2>2, <2>3 DEF Reads
<1>2. CASE overallStatus # "completed"
  <2>1. overallStatus \in Terminal \ {"completed"} /\ BackwardAt(0, {})
    BY <1>0, <1>2 DEF Shape
  <2>2. i \in Steps
    BY <2>1 DEF BackwardAt
  <2>3. 0 \in 0 .. NSteps /\ 0 < i /\ {} # Settled
    BY <1>0, <2>2 DEF Steps, Settled
  <2>4. DoneOf(BuildSnapshot) = 1 .. 0 /\ ResidueOf(BuildSnapshot) = DeadSteps
    BY <2>1, <2>3, BackwardReads
  <2>5. VerdictOf(BuildSnapshot) = IF DeadSteps = {} THEN "undone" ELSE "residue"
    <3>1. CASE overallStatus = "partially_compensated"
      BY <1>0, <3>1 DEF VerdictOf, VerdictIsKnown
    <3>2. CASE overallStatus \in {"compensated", "timed_out"}
      BY <1>0, <3>2 DEF VerdictOf, VerdictIsKnown
    <3> QED
      BY <2>1, <3>1, <3>2 DEF Terminal
  <2>6. PhaseOf(BuildSnapshot) = "closed"
    BY <1>0, <2>1 DEF PhaseOf
  <2> QED
    BY <1>2, <2>4, <2>5, <2>6 DEF Reads
<1>3. QED
  BY <1>1, <1>2

\* At first there is no row: the stack is empty.
LEMMA NoRowReads == Reads(NoRow, "forward", {}, {}, "none")
<1>1. NoRow.overall = "none" /\ \A s \in Steps : NoRow.statuses[s] = "pending"
  BY DEF NoRow
<1>2. VerdictOf(NoRow) = "none"
  BY <1>1 DEF VerdictOf
<1>3. PhaseOf(NoRow) = "forward" /\ DoneOf(NoRow) = {} /\ ResidueOf(NoRow) = {}
  BY <1>1 DEF PhaseOf, DoneOf, ResidueOf, Terminal
<1>4. QED
  BY <1>2, <1>3 DEF Reads

\* A save is one step of the stack, or none.
LEMMA SaveIsOneStep ==
  ASSUME IInv, RowBefore, VerdictIsKnown, pc \in SavePoints, durable' = BuildSnapshot
  PROVE  Row!Next \/ UNCHANGED Row!stack
<1> USE DEF Reads, Row!stack
<1>0. /\ Shape /\ NSteps \in Nat /\ i \in 1 .. (NSteps + 1) /\ j \in 0 .. NSteps
      /\ stepStatuses \in [Steps -> StepStatus]
  BY StepTimeoutAssumption DEF IInv, TypeOK, SavePoints, Done
<1>1. CASE pc = "save_started"
  <2>1. Reads(durable', "forward", 1 .. (i - 1), {}, "none")
    BY <1>1, MemoryReads
  <2>2. Reads(durable, "forward", {}, {}, "none")
    BY <1>1, NoRowReads DEF RowBefore
  <2>3. 1 .. (i - 1) = {}
    <3>1. \A s \in Steps : stepStatuses[s] \in {"pending", "executing", "failed"}
      BY <1>1 DEF IInv, RowFollowsMemory, RowBefore, NoRow, NextStatuses, Done
    <3>2. \A s \in Steps : s < i => stepStatuses[s] = "succeeded"
      BY <1>0, <1>1 DEF Shape, ForwardAt
    <3>3. ~(1 < i)
      BY <1>0, <3>1, <3>2 DEF Steps
    <3> QED
      BY <1>0, <3>3
  <2> QED
    BY <2>1, <2>2, <2>3
<1>2. CASE pc = "save_executing"
  <2>1. Reads(durable', "forward", 1 .. (i - 1), {}, "none")
    BY <1>2, MemoryReads
  <2>2. Reads(durable, "forward", 1 .. (i - 1), {}, "none")
    BY <1>2 DEF RowBefore
  <2> QED
    BY <2>1, <2>2
<1>3. ASSUME Reads(durable, "forward", 1 .. (i - 1), {}, "none"), i \in Steps,
             Reads(durable', "backward", 1 .. (i - 1), {}, "none")
      PROVE  Row!Next
  <2>1. 1 .. (i - 1) # 1 .. NSteps
    BY <1>0, <1>3 DEF Steps
  <2>2. Row!Fail
    BY <1>3, <2>1 DEF Row!Fail
  <2> QED
    BY <2>2 DEF Row!Next
<1>4. CASE pc = "save_budget"
  BY <1>0, <1>3, <1>4, MemoryReads DEF Shape, RowBefore
<1>5. CASE pc = "save_outcome"
  <2>1. Reads(durable, "forward", 1 .. (i - 1), {}, "none")
    BY <1>5 DEF RowBefore
  <2>2. CASE i \in Steps /\ Reads(durable', "forward", 1 .. i, {}, "none")
    <3>1. Row!Push(i)
      BY <2>1, <2>2 DEF Row!Push
    <3> QED
      BY <2>2, <3>1 DEF Row!Next, Steps
  <2>3. CASE i \in Steps /\ Reads(durable', "backward", 1 .. (i - 1), {}, "none")
    BY <1>3, <2>1, <2>3
  <2> QED
    BY <1>5, <2>2, <2>3, MemoryReads
<1>6. CASE pc = "save_compensating"
  <2>1. Reads(durable, "backward", 1 .. (i - 1), {}, "none")
    BY <1>6 DEF RowBefore
  <2>2. Reads(durable', "backward", 1 .. (i - 1), DeadSteps, "none")
    BY <1>6, MemoryReads
  <2>3. DeadSteps = {}
    BY <1>0, <1>6 DEF Shape, BackwardAt, DeadSteps, Settled, Steps
  <2> QED
    BY <2>1, <2>2, <2>3
<1>7. CASE pc = "save_step_compensating"
  <2>1. Reads(durable, "backward", 1 .. j, DeadSteps, "none")
    BY <1>7 DEF RowBefore
  <2>2. Reads(durable', "backward", 1 .. j, DeadSteps, "none")
    BY <1>7, MemoryReads
  <2> QED
    BY <2>1, <2>2
<1>8. CASE pc = "save_compensate_outcome"
  <2>1. Reads(durable, "backward", 1 .. j, DeadSteps \ {j}, "none")
    BY <1>8 DEF RowBefore
  <2>2. Reads(durable', "backward", 1 .. (j - 1), DeadSteps, "none")
    BY <1>8, MemoryReads
  <2>3. j \in 1 .. NSteps
    BY <1>8, CompensatedStep DEF Steps
  <2>4. DeadSteps \in {DeadSteps \ {j}, (DeadSteps \ {j}) \cup {j}}
    OBVIOUS
  <2>5. Row!Pop(j)
    BY <2>1, <2>2, <2>4 DEF Row!Pop
  <2> QED
    BY <2>3, <2>5 DEF Row!Next
<1>9. CASE pc = "save_final"
  <2>1. CASE overallStatus = "completed"
    <3>1. Reads(durable, "forward", Steps, {}, "none")
      BY <1>9, <2>1 DEF RowBefore
    <3>2. Reads(durable', "closed", Steps, {}, "completed")
      BY <1>9, <2>1, FinalReads
    <3>3. Row!Close
      BY <3>1, <3>2 DEF Row!Close, Steps
    <3> QED
      BY <3>3 DEF Row!Next
  <2>2. CASE overallStatus # "completed"
    <3>1. Reads(durable, "backward", {}, DeadSteps, "none")
      BY <1>9, <2>2 DEF RowBefore
    <3>2. Reads(durable', "closed", {}, DeadSteps,
                IF DeadSteps = {} THEN "undone" ELSE "residue")
      BY <1>9, <2>2, FinalReads
    <3>3. Row!Close
      BY <3>1, <3>2 DEF Row!Close
    <3> QED
      BY <3>3 DEF Row!Next
  <2> QED
    BY <2>1, <2>2
<1>10. QED
  BY <1>1, <1>2, <1>4, <1>5, <1>6, <1>7, <1>8, <1>9 DEF SavePoints

\* Before the first step, the row is about to be written and nothing is decided.
LEMMA InitRowBefore == Init => RowBefore /\ VerdictIsKnown
  BY DEF Init, RowBefore, VerdictIsKnown

\* Whatever fails and whenever the process dies, the saved row of a saga behaves as an
\* undo stack: pushed in step order, popped from the top, closed only full or empty.
THEOREM RowRefinesUndoStack == Spec => RowIsUndoStack
<1>1. Init => Row!Init
  BY NoRowReads DEF Init, Reads, Row!Init
<1>2. IInv /\ RowBefore /\ VerdictIsKnown /\ [Next]_vars
        => RowBefore' /\ VerdictIsKnown'
  BY RowBeforeStep, VerdictKnownStep
<1>3. IInv /\ RowBefore /\ VerdictIsKnown /\ [Next]_vars => [Row!Next]_(Row!stack)
  BY RowReplaced, SaveIsOneStep DEF Row!stack
<1>4. QED
  BY <1>1, <1>2, <1>3, InitRowBefore, InvariantHolds, PTL DEF Spec, RowIsUndoStack, Row!Spec

-----------------------------------------------------------------------------
(***************************************************************************)
(* Dead letters.                                                           *)
(***************************************************************************)

\* A compensation that failed is enqueued, or reported, before the next one is begun.
LEMMA LettersStep ==
  ASSUME IInv, LettersInv, [Next]_vars
  PROVE  LettersInv'
<1> DEFINE AtHand == {"save_compensate_outcome", "audit_compensate_outcome", "enqueue"}
<1> USE DEF letters
<1>0. /\ stepStatuses \in [Steps -> StepStatus] /\ (pc \notin Done => Shape)
      /\ pc \notin Done => result = "none"
      /\ "none" \notin Terminal /\ "error" \notin Terminal
      /\ AtHand \cap Done = {} /\ "audit_enqueued" \notin Done
      /\ \A s \in DeadSteps : s \in Steps /\ stepStatuses[s] = "dead_lettered"
  BY DEF IInv, TypeOK, Terminal, Done, DeadSteps
<1>1. ASSUME UNCHANGED <<letters, result>>, DeadSteps' \subseteq DeadSteps,
             \/ pc' \in Done /\ pc' # "audit_enqueued"
             \/ UNCHANGED <<pc, j>>
             \/ pc \notin AtHand \cup Done /\ pc' # "audit_enqueued"
      PROVE  LettersInv'
  <2>1. DeadLettersAccountedFor'
    BY <1>1 DEF LettersInv, DeadLettersAccountedFor, DeadSteps
  <2> QED
    BY <1>0, <1>1, <2>1 DEF LettersInv
<1>2. CASE \/ SaveStarted \/ SaveBudget \/ SaveOutcome \/ SaveFinal \/ SaveExecuting
           \/ SaveCompensating \/ SaveStepCompensating
  BY <1>1, <1>2
     DEF SaveStarted, SaveBudget, SaveOutcome, SaveFinal, SaveExecuting,
         SaveCompensating, SaveStepCompensating, SaveOk, memory, DeadSteps, Done
<1>3. CASE \/ AuditStarted \/ AuditBudget \/ AuditOutcome \/ AuditCompensating
           \/ AuditTimedOut \/ AuditEnqueued
  <2>1. pc = "audit_enqueued" => j \in deadLetters
    BY DEF LettersInv
  <2> QED
    BY <1>1, <1>3
       DEF AuditStarted, AuditBudget, AuditOutcome, AuditCompensating, AuditTimedOut,
           AuditEnqueued, AuditAppend, memory, DeadSteps, Done
<1>4. CASE ForwardDone \/ NothingToCompensate \/ BeginCompensation \/ CompensationDone
  BY <1>1, <1>4 DEF ForwardDone, NothingToCompensate, BeginCompensation,
                    CompensationDone, DeadSteps, Done
<1>5. CASE \/ ExhaustBudget \/ StartStep \/ ExecuteSucceeds \/ ExecuteFails
           \/ ExecuteTimesOut
  <2>1. PICK st \in {"failed", "executing", "succeeded"} :
             stepStatuses' = [stepStatuses EXCEPT ![i] = st]
    BY <1>5 DEF ExhaustBudget, StartStep, ExecuteSucceeds, ExecuteFails,
                ExecuteTimesOut, FailStep
  <2>2. DeadSteps' \subseteq DeadSteps
    BY <1>0, <2>1 DEF DeadSteps
  <2> QED
    BY <1>1, <1>5, <2>2
       DEF ExhaustBudget, StartStep, ExecuteSucceeds, ExecuteFails, ExecuteTimesOut,
           FailStep, Done
<1>6. CASE StartCompensate
  <2>1. \/ stepStatuses' = [stepStatuses EXCEPT ![StepToCompensate] = "compensating"]
        \/ stepStatuses' = stepStatuses
    BY <1>6 DEF StartCompensate
  <2>2. DeadSteps' \subseteq DeadSteps
    BY <1>0, <2>1 DEF DeadSteps
  <2> QED
    BY <1>1, <1>6, <2>2 DEF StartCompensate, Done
<1>7. CASE CompensateSucceeds \/ CompensateFails \/ CompensateTimesOut
  <2>1. PICK st \in Settled : SettleCompensate(st)
    BY <1>7 DEF CompensateSucceeds, CompensateFails, CompensateTimesOut, Settled
  <2>2. /\ stepStatuses' = [stepStatuses EXCEPT ![j] = st]
        /\ pc = "compensate" /\ pc' = "save_compensate_outcome" /\ j' = j
        /\ UNCHANGED <<letters, result>> /\ pc \notin Done
    BY <2>1, CompensatedStep DEF SettleCompensate, locals, Done
  <2>3. DeadSteps' \subseteq DeadSteps \cup {j}
    BY <1>0, <2>2 DEF DeadSteps
  <2>4. DeadLettersAccountedFor'
    BY <1>0, <2>2 DEF DeadLettersAccountedFor
  <2> QED
    BY <2>2, <2>3, <2>4 DEF LettersInv
<1>8. CASE SaveCompensateOutcome
  BY <1>0, <1>8
     DEF SaveCompensateOutcome, SaveOk, memory, locals, LettersInv, DeadSteps,
         DeadLettersAccountedFor, Done
<1>9. CASE AuditCompensateOutcome
  <2>1. StepToCompensate = j /\ pc = "audit_compensate_outcome"
    BY <1>9, CompensatedStep DEF AuditCompensateOutcome, AuditAppend
  <2>2. CASE stepStatuses[j] = "compensated"
    BY <1>0, <1>9, <2>1, <2>2
       DEF AuditCompensateOutcome, AuditAppend, memory, LettersInv, DeadSteps,
           DeadLettersAccountedFor, Done
  <2>3. CASE stepStatuses[j] # "compensated"
    BY <1>0, <1>9, <2>1, <2>3
       DEF AuditCompensateOutcome, AuditAppend, memory, LettersInv, DeadSteps,
           DeadLettersAccountedFor, Done
  <2> QED
    BY <2>2, <2>3
<1>10. CASE EnqueueDeadLetter \/ EnqueueFails
  <2>1. StepToCompensate = j /\ pc = "enqueue"
    BY <1>10, CompensatedStep DEF EnqueueDeadLetter, EnqueueFails
  <2> QED
    BY <1>0, <1>10, <2>1
       DEF EnqueueDeadLetter, EnqueueFails, memory, locals, LettersInv, DeadSteps,
           DeadLettersAccountedFor, Done
<1>11. CASE SaveFails
  BY <1>0, <1>11 DEF SaveFails, LettersInv, DeadLettersAccountedFor, Done
<1>12. CASE AuditCompleted
  BY <1>0, <1>12 DEF AuditCompleted, AuditAppend, memory, LettersInv, DeadSteps,
                     DeadLettersAccountedFor, Done
<1>13. CASE StepThrows \/ Crash \/ Tick \/ (\E call \in Calls : Land(call))
            \/ UNCHANGED vars
  BY <1>1, <1>13 DEF StepThrows, Crash, Tick, Land, vars, memory, locals, DeadSteps, Done
<1>14. QED
  BY <1>2, <1>3, <1>4, <1>5, <1>6, <1>7, <1>8, <1>9, <1>10, <1>11, <1>12, <1>13
     DEF Next, Orchestrator, Forward, Backward, StepAnswers

-----------------------------------------------------------------------------
(***************************************************************************)
(* The verdict on a timeout.                                               *)
(***************************************************************************)

\* A saga keeps the time budget it was invoked with.
LEMMA BudgetStays == [Next]_vars => invocationTimeout' = invocationTimeout
<1> SUFFICES ASSUME [Next]_vars
             PROVE  invocationTimeout' = invocationTimeout
  OBVIOUS
<1> USE DEF clocks
<1>1. CASE \/ SaveStarted \/ SaveBudget \/ SaveOutcome \/ SaveFinal \/ SaveExecuting
           \/ SaveCompensating \/ SaveStepCompensating \/ SaveCompensateOutcome
           \/ SaveFails
  BY <1>1 DEF SaveStarted, SaveBudget, SaveOutcome, SaveFinal, SaveExecuting,
              SaveCompensating, SaveStepCompensating, SaveCompensateOutcome, SaveFails
<1>2. CASE \/ AuditStarted \/ AuditBudget \/ AuditOutcome \/ AuditCompensating
           \/ AuditCompensateOutcome \/ AuditEnqueued \/ AuditTimedOut
           \/ AuditCompleted \/ EnqueueDeadLetter \/ EnqueueFails
  BY <1>2 DEF AuditStarted, AuditBudget, AuditOutcome, AuditCompensating,
              AuditCompensateOutcome, AuditEnqueued, AuditTimedOut,
              AuditCompleted, EnqueueDeadLetter, EnqueueFails
<1>3. CASE \/ ExhaustBudget \/ StartStep \/ ForwardDone \/ ExecuteSucceeds
           \/ ExecuteFails \/ ExecuteTimesOut \/ NothingToCompensate
           \/ BeginCompensation \/ StartCompensate \/ CompensationDone
           \/ CompensateSucceeds \/ CompensateFails \/ CompensateTimesOut
  BY <1>3 DEF ExhaustBudget, StartStep, ForwardDone, ExecuteSucceeds, ExecuteFails,
              ExecuteTimesOut, FailStep, NothingToCompensate, BeginCompensation,
              StartCompensate, CompensationDone, CompensateSucceeds,
              CompensateFails, CompensateTimesOut, SettleCompensate
<1>4. CASE StepThrows \/ Crash \/ Tick \/ (\E call \in Calls : Land(call))
           \/ UNCHANGED vars
  BY <1>4 DEF StepThrows, Crash, Tick, Land, vars
<1>5. QED
  BY <1>1, <1>2, <1>3, <1>4 DEF Next, Orchestrator, Forward, Backward, StepAnswers

\* A budget that leaves nothing for a step is spent.
LEMMA NothingLeft ==
  ASSUME NEW e \in Nat, invocationTimeout \in InvocationTimeouts,
         EffectiveStepTimeout(e) = 0
  PROVE  SagaBounded /\ SagaTimeout <= e + StepTimeout
  BY StepTimeoutAssumption, BudgetAssumption
     DEF EffectiveStepTimeout, SagaBounded, SagaTimeout

\* A step was given all that was left exactly when the budget ends within a step timeout.
LEMMA AllThatWasLeft ==
  ASSUME NEW e \in Nat, invocationTimeout \in InvocationTimeouts, SagaBounded
  PROVE  e + EffectiveStepTimeout(e) >= SagaTimeout <=> SagaTimeout <= e + StepTimeout
  BY StepTimeoutAssumption, BudgetAssumption
     DEF EffectiveStepTimeout, SagaBounded, SagaTimeout

\* The verdict follows from what was computed before the step, whenever its timer fired.
LEMMA VerdictStep ==
  ASSUME IInv, VerdictInv, [Next]_vars
  PROVE  VerdictInv'
<1> DEFINE kept == <<failure, elapsedBeforeStep, effectiveStepTimeout>>
           Start == {"save_started", "audit_started", "forward"}
           Late == {"failed", "save_compensating", "audit_compensating", "backward",
                    "save_step_compensating", "compensate", "save_compensate_outcome",
                    "audit_compensate_outcome", "enqueue", "audit_enqueued"}
           Last == {"save_final", "audit_timed_out", "audit_completed"}
<1>0. /\ stepStatuses \in [Steps -> StepStatus] /\ (pc \notin Done => Shape)
      /\ elapsedBeforeStep \in Nat /\ elapsed \in Nat
      /\ invocationTimeout \in InvocationTimeouts
  BY MaxElapsedAssumption DEF IInv, TypeOK
<1>1. /\ SagaBounded' = SagaBounded /\ SagaTimeout' = SagaTimeout
      /\ \A e : EffectiveStepTimeout(e)' = EffectiveStepTimeout(e)
  BY BudgetStays DEF SagaBounded, SagaTimeout, EffectiveStepTimeout
<1>2. ASSUME UNCHANGED kept
      PROVE  \A codes : VerdictDue(codes)' <=> VerdictDue(codes)
  BY <1>1, <1>2, BudgetStays
     DEF VerdictDue, EffectiveStepTimeout, SagaBounded, SagaTimeout
<1>3. ASSUME UNCHANGED kept, UNCHANGED overallTimedOut
      PROVE  Verdict' <=> Verdict
  BY <1>1, <1>3 DEF Verdict
<1>4. ASSUME UNCHANGED <<kept, overallTimedOut>>, pc \in Late, pc' \in Late \cup Last
      PROVE  VerdictInv'
  <2>1. Verdict'
    <3>1. UNCHANGED kept /\ UNCHANGED overallTimedOut
      BY <1>4
    <3>2. Verdict
      BY <1>4 DEF VerdictInv
    <3> QED
      BY <1>3, <3>1, <3>2
  <2>2. pc' \notin Start \cup {"save_executing", "execute", "save_budget", "audit_budget",
                              "save_outcome", "audit_outcome"}
    BY <1>4
  <2> QED
    BY <2>1, <2>2 DEF VerdictInv
<1>5. ASSUME pc' \in Done
      PROVE  VerdictInv'
  BY <1>5 DEF VerdictInv, Done
<1>6. CASE UNCHANGED <<kept, overallTimedOut, pc, stepStatuses, i>>
  BY <1>2, <1>3, <1>6 DEF VerdictInv
<1>7. CASE SaveStarted \/ AuditStarted
  BY <1>7 DEF SaveStarted, SaveOk, AuditStarted, AuditAppend, locals, VerdictInv
<1>8. CASE SaveBudget \/ SaveExecuting \/ SaveOutcome
  BY <1>2, <1>8 DEF SaveBudget, SaveExecuting, SaveOutcome, SaveOk, memory, locals,
                    VerdictInv
<1>9. CASE SaveFinal \/ AuditTimedOut
  BY <1>3, <1>9 DEF SaveFinal, SaveOk, AuditTimedOut, AuditAppend, locals, VerdictInv
<1>10. CASE ForwardDone
  BY <1>10 DEF ForwardDone, locals, VerdictInv
<1>11. CASE NothingToCompensate \/ BeginCompensation \/ SaveCompensating
            \/ AuditCompensating \/ SaveStepCompensating \/ SaveCompensateOutcome
            \/ AuditCompensateOutcome \/ EnqueueDeadLetter \/ EnqueueFails
            \/ AuditEnqueued \/ CompensationDone
  BY <1>4, <1>11
     DEF NothingToCompensate, BeginCompensation, SaveCompensating, AuditCompensating,
         SaveStepCompensating, SaveCompensateOutcome, AuditCompensateOutcome,
         EnqueueDeadLetter, EnqueueFails, AuditEnqueued, CompensationDone, SaveOk,
         AuditAppend, locals
<1>12. CASE StartCompensate
  BY <1>4, <1>12 DEF StartCompensate
<1>13. CASE CompensateSucceeds \/ CompensateFails \/ CompensateTimesOut
  BY <1>4, <1>13 DEF CompensateSucceeds, CompensateFails, CompensateTimesOut,
                     SettleCompensate, locals
<1>14. CASE ExhaustBudget
  <2>1. VerdictDue({"TQ-SAG-004"})'
    BY <1>1, <1>14, BudgetStays
       DEF ExhaustBudget, VerdictDue, EffectiveStepTimeout, SagaBounded, SagaTimeout
  <2> QED
    BY <1>14, <2>1 DEF ExhaustBudget, VerdictInv
<1>15. CASE StartStep
  <2>1. VerdictDue({"none"})'
    BY <1>15, BudgetStays
       DEF StartStep, VerdictDue, EffectiveStepTimeout, SagaBounded, SagaTimeout,
           VerdictInv
  <2> QED
    BY <1>15, <2>1 DEF StartStep, VerdictInv
<1>16. CASE ExecuteSucceeds
  <2>1. VerdictDue({"none"})' /\ i \in Steps
    BY <1>0, <1>2, <1>16 DEF ExecuteSucceeds, VerdictInv, Shape, Done
  <2> QED
    BY <1>0, <1>16, <2>1 DEF ExecuteSucceeds, VerdictInv
<1>17. CASE ExecuteFails \/ ExecuteTimesOut
  <2>1. PICK code \in {"TQ-SAG-001", "TQ-SAG-002"} : FailStep(code)
    BY <1>17 DEF ExecuteFails, ExecuteTimesOut
  <2>2. VerdictDue({"none"}) /\ i \in Steps
    BY <1>0, <2>1 DEF FailStep, VerdictInv, Shape, Done
  <2>3. VerdictDue({"TQ-SAG-001", "TQ-SAG-002"})'
    BY <2>1, <2>2, BudgetStays
       DEF FailStep, VerdictDue, EffectiveStepTimeout, SagaBounded, SagaTimeout
  <2> QED
    BY <1>0, <2>1, <2>2, <2>3 DEF FailStep, VerdictInv
<1>18. CASE AuditBudget
  <2>1. failure = "TQ-SAG-004" /\ EffectiveStepTimeout(elapsedBeforeStep) = 0
    BY <1>18 DEF AuditBudget, AuditAppend, VerdictInv, VerdictDue
  <2>2. Verdict'
    BY <1>0, <1>1, <1>18, <2>1, NothingLeft DEF AuditBudget, Verdict
  <2> QED
    BY <1>18, <2>2 DEF AuditBudget, AuditAppend, VerdictInv
<1>19. CASE AuditOutcome
  <2>1. CASE stepStatuses[i] = "succeeded"
    BY <1>19, <2>1 DEF AuditOutcome, AuditAppend, VerdictInv, VerdictDue
  <2>2. CASE stepStatuses[i] # "succeeded"
    <3>1. /\ failure \in {"TQ-SAG-001", "TQ-SAG-002"}
          /\ effectiveStepTimeout = EffectiveStepTimeout(elapsedBeforeStep)
      BY <1>19, <2>2 DEF AuditOutcome, AuditAppend, VerdictInv, VerdictDue
    <3>2. overallTimedOut' <=> /\ failure = "TQ-SAG-001" /\ SagaBounded
                               /\ SagaTimeout <= elapsedBeforeStep + StepTimeout
      BY <1>0, <1>19, <2>2, <3>1, AllThatWasLeft DEF AuditOutcome, StepTimeoutIsOverall
    <3>3. Verdict'
      BY <1>1, <1>19, <3>1, <3>2 DEF AuditOutcome, Verdict
    <3> QED
      BY <1>19, <2>2, <3>3 DEF AuditOutcome, AuditAppend, VerdictInv
  <2> QED
    BY <2>1, <2>2
<1>20. CASE SaveFails \/ AuditCompleted \/ StepThrows \/ Crash
  BY <1>5, <1>20 DEF SaveFails, AuditCompleted, AuditAppend, StepThrows, Crash, Done
<1>21. CASE Tick \/ (\E call \in Calls : Land(call)) \/ UNCHANGED vars
  BY <1>6, <1>21 DEF Tick, Land, vars, memory, locals
<1>22. QED
  BY <1>7, <1>8, <1>9, <1>10, <1>11, <1>12, <1>13, <1>14, <1>15, <1>16, <1>17, <1>18,
     <1>19, <1>20, <1>21
     DEF Next, Orchestrator, Forward, Backward, StepAnswers

-----------------------------------------------------------------------------
(***************************************************************************)
(* The audit trail.                                                        *)
(***************************************************************************)

\* No save is asked for once the final one was made.
LEMMA FinalRowStep ==
  ASSUME IInv, FinalRowStays, [Next]_vars
  PROVE  FinalRowStays'
<1> SUFFICES ASSUME pc' \in SavePoints
             PROVE  durable'.overall \notin Terminal
  BY DEF FinalRowStays
<1>1. CASE UNCHANGED <<pc, memory, locals, durable, letters, audit>>
  BY <1>1 DEF FinalRowStays
<1>2. ASSUME \/ ExhaustBudget \/ StartStep \/ ForwardDone \/ ExecuteSucceeds
             \/ ExecuteFails \/ ExecuteTimesOut \/ NothingToCompensate
             \/ BeginCompensation \/ StartCompensate \/ CompensationDone
             \/ CompensateSucceeds \/ CompensateFails \/ CompensateTimesOut,
             pc \notin SavePoints \cup Done, UNCHANGED <<durable, letters, audit>>
      PROVE  durable'.overall \notin Terminal
  <2>1. durable' = BuildSnapshot /\ Shape
    BY <1>2 DEF IInv, RowFollowsMemory
  <2>2. pc \in {"forward", "execute", "failed", "backward", "compensate"}
    BY <1>2 DEF ExhaustBudget, StartStep, ForwardDone, ExecuteSucceeds, ExecuteFails,
                ExecuteTimesOut, FailStep, NothingToCompensate, BeginCompensation,
                StartCompensate, CompensationDone, CompensateSucceeds,
                CompensateFails, CompensateTimesOut, SettleCompensate
  <2>3. overallStatus \in {"in_progress", "compensating"}
    BY <2>1, <2>2 DEF Shape, ForwardAt
  <2> QED
    BY <2>1, <2>3 DEF BuildSnapshot, Terminal
<1>3. QED
  BY <1>1, <1>2, SavePointEntered

\* What an event of the audit trail says of a row and of the dead letters.
TrueOf(e, row, dead) ==
    /\ e.type = "saga.step.execute" =>
         row.statuses[e.step] \in IF e.ok THEN {"succeeded", "compensating"} \cup Settled
                                          ELSE {"failed"}
    /\ e.type = "saga.step.compensate" =>
         row.statuses[e.step] = IF e.ok THEN "compensated" ELSE "dead_lettered"
    /\ e.type = "saga.dead_letter.enqueued" => e.step \in dead
    /\ e.type \in {"saga.completed", "saga.timed_out"} => row.overall \in Terminal
    /\ e.type \in {"saga.started", "saga.compensation.started"} => row.overall # "none"

Claims(e, row, dead) ==
    CASE e.type = "saga.step.execute" ->
            row.statuses[e.step] \in
                IF e.ok THEN {"succeeded", "compensating"} \cup Settled ELSE {"failed"}
      [] e.type = "saga.step.compensate" ->
            row.statuses[e.step] = IF e.ok THEN "compensated" ELSE "dead_lettered"
      [] e.type = "saga.dead_letter.enqueued" -> e.step \in dead
      [] e.type \in {"saga.completed", "saga.timed_out"} -> row.overall \in Terminal
      [] OTHER -> row.overall # "none"

\* The cases of AuditNeverAheadOfRecord are one per type of event.
LEMMA ClaimsByType ==
  ASSUME NEW e \in AuditEvents, NEW row, NEW dead
  PROVE  Claims(e, row, dead) <=> TrueOf(e, row, dead)
<1>1. e.type \in {"saga.started", "saga.compensation.started", "saga.timed_out",
                  "saga.completed", "saga.step.execute", "saga.step.compensate",
                  "saga.dead_letter.enqueued"}
  BY DEF AuditEvents
<1>2. CASE e.type = "saga.step.execute"
  BY <1>2 DEF TrueOf, Claims
<1>3. CASE e.type = "saga.step.compensate"
  BY <1>3 DEF TrueOf, Claims
<1>4. CASE e.type = "saga.dead_letter.enqueued"
  BY <1>4 DEF TrueOf, Claims
<1>5. CASE e.type \in {"saga.completed", "saga.timed_out"}
  BY <1>5 DEF TrueOf, Claims
<1>6. CASE e.type \in {"saga.started", "saga.compensation.started"}
  BY <1>6 DEF TrueOf, Claims
<1>7. QED
  BY <1>1, <1>2, <1>3, <1>4, <1>5, <1>6

\* What the trail says of a step stays true as the row moves on.
LEMMA ClaimsStay ==
  ASSUME IInv, FinalRowStays, [Next]_vars, deadLetters \subseteq deadLetters',
         NEW e \in AuditEvents, TrueOf(e, durable, deadLetters)
  PROVE  TrueOf(e, durable', deadLetters')
<1>1. CASE e.type = "saga.step.execute"
  <2>1. e.step \in Steps /\ e.ok \in BOOLEAN
    BY <1>1 DEF AuditEvents
  <2>2. durable'.statuses[e.step] \in {durable.statuses[e.step]}
                                       \cup NextStatuses(durable.statuses[e.step])
    BY <2>1, RowMoves
  <2>3. \A st \in {"succeeded", "compensating"} \cup Settled :
          NextStatuses(st) \subseteq {"succeeded", "compensating"} \cup Settled
    BY DEF NextStatuses, Settled
  <2>4. NextStatuses("failed") = {}
    BY DEF NextStatuses
  <2>5. durable'.statuses[e.step] \in
          IF e.ok THEN {"succeeded", "compensating"} \cup Settled ELSE {"failed"}
    BY <1>1, <2>1, <2>2, <2>3, <2>4 DEF TrueOf
  <2> QED
    BY <1>1, <2>5 DEF TrueOf
<1>2. CASE e.type = "saga.step.compensate"
  <2>1. e.step \in Steps
    BY <1>2 DEF AuditEvents
  <2>2. durable'.statuses[e.step] \in {durable.statuses[e.step]}
                                       \cup NextStatuses(durable.statuses[e.step])
    BY <2>1, RowMoves
  <2>3. NextStatuses("compensated") = {} /\ NextStatuses("dead_lettered") = {}
    BY DEF NextStatuses
  <2>4. durable'.statuses[e.step] = durable.statuses[e.step]
    BY <1>2, <2>2, <2>3 DEF TrueOf
  <2> QED
    BY <1>2, <2>4 DEF TrueOf
<1>3. durable.overall \in Terminal => durable' = durable
  BY RowReplaced DEF FinalRowStays
<1>4. durable.overall # "none" => durable'.overall # "none"
  BY RowReplaced DEF IInv, TypeOK, BuildSnapshot, OverallStatus, Terminal
<1>5. CASE e.type = "saga.dead_letter.enqueued"
  BY <1>5 DEF TrueOf
<1>6. CASE e.type \in {"saga.completed", "saga.timed_out"}
  BY <1>3, <1>6 DEF TrueOf
<1>7. CASE e.type \in {"saga.started", "saga.compensation.started"}
  BY <1>4, <1>7 DEF TrueOf
<1>8. QED
  BY <1>1, <1>2, <1>5, <1>6, <1>7 DEF AuditEvents

\* An event is appended right after the save of what it says.
LEMMA AuditStep ==
  ASSUME IInv, LettersInv, FinalRowStays, AuditNeverAheadOfRecord, [Next]_vars, TypeOK'
  PROVE  AuditNeverAheadOfRecord'
<1> USE DEF letters
<1> DEFINE True(e) == TrueOf(e, durable', deadLetters')
<1>0. /\ audit \subseteq AuditEvents /\ audit' \subseteq AuditEvents
      /\ (pc \notin Done => Shape) /\ stepStatuses \in [Steps -> StepStatus]
      /\ BuildSnapshot.statuses = stepStatuses /\ BuildSnapshot.overall = overallStatus
  BY DEF IInv, TypeOK, BuildSnapshot
<1>1. \A e \in audit : Claims(e, durable, deadLetters)
  BY Zenon DEF AuditNeverAheadOfRecord, Claims
<1>2. ASSUME \A e \in audit' : Claims(e, durable', deadLetters')
      PROVE  AuditNeverAheadOfRecord'
  BY <1>2, Zenon DEF AuditNeverAheadOfRecord, Claims
<1>3. ASSUME deadLetters \subseteq deadLetters', \A e \in audit' \ audit : True(e)
      PROVE  AuditNeverAheadOfRecord'
  <2>1. \A e \in audit : TrueOf(e, durable, deadLetters)
    BY <1>0, <1>1, ClaimsByType
  <2>2. \A e \in audit : True(e)
    BY <1>0, <1>3, <2>1, ClaimsStay
  <2>3. \A e \in audit' : Claims(e, durable', deadLetters')
    BY <1>0, <1>3, <2>2, ClaimsByType
  <2> QED
    BY <1>2, <2>3
<1>4. ASSUME NEW from \in AuditPoints, NEW event, NEW to, AuditAppend(from, event, to),
             UNCHANGED <<durable, letters>>, True(event)
      PROVE  AuditNeverAheadOfRecord'
  BY <1>3, <1>4 DEF AuditAppend
<1>5. ASSUME pc \in AuditPoints
      PROVE  durable = BuildSnapshot /\ Shape
  BY <1>0, <1>5 DEF IInv, RowFollowsMemory, AuditPoints, SavePoints, Done
<1>6. ASSUME audit' = audit, deadLetters \subseteq deadLetters'
      PROVE  AuditNeverAheadOfRecord'
  BY <1>3, <1>6
<1>7. CASE \/ SaveStarted \/ SaveBudget \/ SaveOutcome \/ SaveFinal \/ SaveExecuting
           \/ SaveCompensating \/ SaveStepCompensating \/ SaveCompensateOutcome
           \/ SaveFails
  BY <1>6, <1>7 DEF SaveStarted, SaveBudget, SaveOutcome, SaveFinal, SaveExecuting,
              SaveCompensating, SaveStepCompensating, SaveCompensateOutcome, SaveFails
<1>8. CASE \/ ExhaustBudget \/ StartStep \/ ForwardDone \/ ExecuteSucceeds
           \/ ExecuteFails \/ ExecuteTimesOut \/ NothingToCompensate
           \/ BeginCompensation \/ StartCompensate \/ CompensationDone
           \/ CompensateSucceeds \/ CompensateFails \/ CompensateTimesOut
  BY <1>6, <1>8
     DEF ExhaustBudget, StartStep, ForwardDone, ExecuteSucceeds, ExecuteFails,
         ExecuteTimesOut, FailStep, NothingToCompensate, BeginCompensation,
         StartCompensate, CompensationDone, CompensateSucceeds, CompensateFails,
         CompensateTimesOut, SettleCompensate
<1>9. CASE EnqueueDeadLetter \/ EnqueueFails \/ StepThrows \/ Crash \/ Tick
           \/ (\E call \in Calls : Land(call)) \/ UNCHANGED vars
  BY <1>6, <1>9 DEF EnqueueDeadLetter, EnqueueFails, StepThrows, Crash, Tick, Land, vars
<1>10. CASE AuditStarted
  <2>1. pc = "audit_started"
    BY <1>10 DEF AuditStarted, AuditAppend
  <2>2. durable.overall = "in_progress"
    BY <1>0, <1>5, <2>1 DEF AuditPoints, Shape, ForwardAt
  <2>3. TrueOf([type |-> "saga.started"], durable, deadLetters)
    BY <2>2 DEF TrueOf
  <2> QED
    BY <1>4, <1>10, <2>3 DEF AuditStarted, AuditPoints
<1>11. CASE AuditBudget
  <2>1. pc = "audit_budget"
    BY <1>11 DEF AuditBudget, AuditAppend
  <2>2. i \in Steps /\ durable.statuses[i] = "failed"
    <3>1. Shape /\ durable.statuses = stepStatuses
      BY <1>0, <1>5, <2>1 DEF AuditPoints
    <3>2. i \in Steps /\ ForwardAt("failed")
      BY <2>1, <3>1 DEF Shape
    <3> QED
      BY <3>1, <3>2 DEF ForwardAt, Steps
  <2>3. TrueOf([type |-> "saga.step.execute", step |-> i, ok |-> FALSE], durable,
               deadLetters)
    BY <2>2 DEF TrueOf
  <2> QED
    BY <1>4, <1>11, <2>3 DEF AuditBudget, AuditPoints
<1>12. CASE AuditOutcome
  <2> DEFINE ok == stepStatuses[i] = "succeeded"
  <2>1. pc = "audit_outcome"
    BY <1>12 DEF AuditOutcome, AuditAppend
  <2>2. /\ i \in Steps
        /\ durable.statuses[i] \in IF ok THEN {"succeeded"} ELSE {"failed"}
    <3>1. Shape /\ durable.statuses = stepStatuses
      BY <1>0, <1>5, <2>1 DEF AuditPoints
    <3>2. ForwardPast \/ (i \in Steps /\ ForwardAt("failed"))
      BY <2>1, <3>1 DEF Shape
    <3> QED
      BY <3>1, <3>2 DEF ForwardAt, ForwardPast, Steps
  <2>3. TrueOf([type |-> "saga.step.execute", step |-> i, ok |-> ok], durable,
               deadLetters)
    BY <2>2 DEF TrueOf
  <2>4. AuditAppend("audit_outcome",
                    [type |-> "saga.step.execute", step |-> i, ok |-> ok],
                    IF ok THEN "forward" ELSE "failed")
        /\ UNCHANGED <<durable, letters>>
    BY <1>12 DEF AuditOutcome
  <2> HIDE DEF ok
  <2> QED
    BY <1>4, <2>3, <2>4 DEF AuditPoints
<1>13. CASE AuditCompensating
  <2>1. pc = "audit_compensating"
    BY <1>13 DEF AuditCompensating, AuditAppend
  <2>2. durable.overall = "compensating"
    BY <1>0, <1>5, <2>1 DEF AuditPoints, Shape
  <2>3. TrueOf([type |-> "saga.compensation.started"], durable, deadLetters)
    BY <2>2 DEF TrueOf
  <2> QED
    BY <1>4, <1>13, <2>3 DEF AuditCompensating, AuditPoints
<1>14. CASE AuditCompensateOutcome
  <2> DEFINE ok == stepStatuses[j] = "compensated"
  <2>1. pc = "audit_compensate_outcome" /\ StepToCompensate = j /\ j \in Steps
    BY <1>14, CompensatedStep DEF AuditCompensateOutcome, AuditAppend
  <2>2. durable.statuses[j] = IF ok THEN "compensated" ELSE "dead_lettered"
    BY <1>0, <1>5, <2>1 DEF AuditPoints, Shape, BackwardAt, Settled
  <2>3. TrueOf([type |-> "saga.step.compensate", step |-> j, ok |-> ok], durable,
               deadLetters)
    BY <2>2 DEF TrueOf
  <2>4. AuditAppend("audit_compensate_outcome",
                    [type |-> "saga.step.compensate", step |-> j, ok |-> ok],
                    IF ok THEN "backward" ELSE "enqueue")
        /\ UNCHANGED <<durable, letters>>
    BY <1>14, <2>1 DEF AuditCompensateOutcome
  <2> HIDE DEF ok
  <2> QED
    BY <1>4, <2>3, <2>4 DEF AuditPoints
<1>15. CASE AuditEnqueued
  <2>1. pc = "audit_enqueued" /\ StepToCompensate = j
    BY <1>15, CompensatedStep DEF AuditEnqueued, AuditAppend
  <2>2. TrueOf([type |-> "saga.dead_letter.enqueued", step |-> j], durable, deadLetters)
    BY <2>1 DEF TrueOf, LettersInv
  <2> QED
    BY <1>4, <1>15, <2>1, <2>2 DEF AuditEnqueued, AuditPoints
<1>16. CASE AuditTimedOut \/ AuditCompleted
  <2>1. pc \in {"audit_timed_out", "audit_completed"}
    BY <1>16 DEF AuditTimedOut, AuditCompleted, AuditAppend
  <2>2. durable.overall \in Terminal
    BY <1>0, <1>5, <2>1 DEF AuditPoints, Shape, Terminal
  <2>3. /\ TrueOf([type |-> "saga.timed_out"], durable, deadLetters)
        /\ TrueOf([type |-> "saga.completed"], durable, deadLetters)
    BY <2>2 DEF TrueOf
  <2> QED
    BY <1>4, <1>16, <2>3 DEF AuditTimedOut, AuditCompleted, AuditPoints
<1>17. QED
  BY <1>7, <1>8, <1>9, <1>10, <1>11, <1>12, <1>13, <1>14, <1>15, <1>16
     DEF Next, Orchestrator, Forward, Backward, StepAnswers

-----------------------------------------------------------------------------
(***************************************************************************)
(* Theorems on what runSaga reports.                                       *)
(***************************************************************************)

\* Nothing has failed, been enqueued or audited before the first save.
LEMMA InitPromises == Init => LettersInv /\ VerdictInv /\ FinalRowStays
                                /\ AuditNeverAheadOfRecord
<1> SUFFICES ASSUME Init
             PROVE  LettersInv /\ VerdictInv /\ FinalRowStays /\ AuditNeverAheadOfRecord
  OBVIOUS
<1>1. LettersInv
  BY DEF Init, LettersInv, DeadSteps, DeadLettersAccountedFor, Terminal
<1>2. VerdictInv
  BY DEF Init, VerdictInv
<1>3. FinalRowStays
  BY DEF Init, FinalRowStays, NoRow, Terminal
<1>4. AuditNeverAheadOfRecord
  BY DEF Init, AuditNeverAheadOfRecord
<1>5. QED
  BY <1>1, <1>2, <1>3, <1>4

\* The invariants of this module, together with the one of the saga.
THEOREM PromisesHold == Spec => []PromisesInv
<1>1. Init => PromisesInv
  BY InitInvariant, InitRowBefore, InitPromises DEF PromisesInv
<1>2. PromisesInv /\ [Next]_vars => PromisesInv'
  BY NextInvariant, RowBeforeStep, VerdictKnownStep, LettersStep, VerdictStep,
     FinalRowStep, AuditStep, TypeStep DEF PromisesInv
<1>3. QED
  BY <1>1, <1>2, PTL DEF Spec

\* When runSaga answers, each step whose compensation failed is in the dead letter
\* store or was reported to onDegradedFailure, however many steps there are.
THEOREM DeadLettersAreAccountedFor == Spec => []DeadLettersAccountedFor
<1>1. PromisesInv => DeadLettersAccountedFor
  BY DEF PromisesInv, LettersInv
<1>2. QED
  BY <1>1, PromisesHold, PTL

\* Whether a timeout is the step's or the saga's is decided by the budget that was left
\* before the step, for every budget and step timeout and however early a timer fires.
THEOREM TimeoutVerdictIsDecided == Spec => []TimeoutVerdictFollowsBudget
<1>1. PromisesInv => TimeoutVerdictFollowsBudget
  BY DEF PromisesInv, VerdictInv, Verdict, TimeoutVerdictFollowsBudget
<1>2. QED
  BY <1>1, PromisesHold, PTL

\* The audit trail never runs ahead of the row, whichever appends and saves fail.
THEOREM AuditFollowsRecord == Spec => []AuditNeverAheadOfRecord
<1>1. PromisesInv => AuditNeverAheadOfRecord
  BY DEF PromisesInv
<1>2. QED
  BY <1>1, PromisesHold, PTL
=============================================================================
