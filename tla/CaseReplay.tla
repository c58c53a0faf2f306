------------------------------ MODULE CaseReplay ------------------------------
(***************************************************************************)
(* Replaying the audit events of a case: the in-memory event store, the    *)
(* consistency check of a stream, the reconstruction of the case from it,  *)
(* the replay of one case and of a batch, and the comparison of the batch  *)
(* with expected final states.                                             *)
(*                                                                         *)
(* An event is a record [case, type, caseType]: caseType is what the       *)
(* payload says of it, or None.  The store numbers events as it appends    *)
(* them, so the place of an event in the sequence is its sequenceNumber.   *)
(***************************************************************************)
EXTENDS Naturals, FiniteSets, Sequences, SequencesExt, Selections

CONSTANT None

EventTypes == {"Started", "StepCompleted", "Failed", "CompensationPlanned",
               "CompensationExecuted", "Completed"}

\* createInMemoryAuditEventStore: events are only ever appended.
Appended(store, events) == store \o events

EventsOf(store, case) == Selected(store, {i \in DOMAIN store : store[i].case = case})

-----------------------------------------------------------------------------
Has(stream, types) == \E i \in DOMAIN stream : stream[i].type \in types

\* validateReplayConsistency.  Case ids agree, versions are constants of the
\* producer and sequence numbers grow, all by the way the store is built:
\* what is left to fail is a stream without a Started event.
StreamIsConsistent(stream, case) ==
    /\ \A i \in DOMAIN stream : stream[i].case = case
    /\ Has(stream, {"Started"})

StateAfter(type) ==
    CASE type = "Started" -> "orchestration_started"
      [] type = "StepCompleted" -> "step_completed"
      [] type = "Failed" -> "orchestration_failed"
      [] type = "CompensationPlanned" -> "compensation_planned"
      [] type = "CompensationExecuted" -> "compensation_executed"
      [] type = "Completed" -> "orchestration_completed"

\* Only the payload of the first event is asked; the producer is always the
\* risk case orchestrator.
CaseTypeOf(stream) ==
    IF stream[1].caseType # None THEN stream[1].caseType ELSE "risk_case"

\* reconstructCaseFromReplayInput: succeeded once any run of the case came to
\* an end, with the state that the very last event stands for.
Reconstruction(stream) ==
    [status |-> IF Has(stream, {"Completed", "Failed"}) /\ Has(stream, {"Started"})
                THEN "succeeded" ELSE "incomplete",
     finalState |-> StateAfter(Last(stream).type),
     caseType |-> CaseTypeOf(stream)]

\* Faulty: the stream counts as ended by the first end it holds.
ReconstructionOfFirstRun(stream) ==
    LET ends == {i \in DOMAIN stream : stream[i].type \in {"Completed", "Failed"}}
        end == IF ends = {} THEN Len(stream) ELSE CHOOSE i \in ends : \A j \in ends : i <= j
    IN  [status |-> IF ends # {} THEN "succeeded" ELSE "incomplete",
         finalState |-> StateAfter(stream[end].type),
         caseType |-> CaseTypeOf(stream)]

Rebuilt(stream) == Reconstruction(stream)

\* runCaseReplay.
Replay(store, case) ==
    LET stream == EventsOf(store, case)
    IN  IF stream = <<>> THEN [error |-> "replay_input_invalid"]
        ELSE IF ~StreamIsConsistent(stream, case)
        THEN [error |-> "replay_consistency_failed"]
        ELSE [error |-> None,
              status |-> Rebuilt(stream).status,
              finalState |-> Rebuilt(stream).finalState]

-----------------------------------------------------------------------------
\* buildComparison: an expectation is a final state, or None.
Comparison(replay, expected) ==
    IF replay.error # None THEN "failed"
    ELSE IF replay.status = "incomplete" THEN "incomplete"
    ELSE IF expected \in {None, replay.finalState} THEN "matched"
    ELSE "mismatched"

\* runBatchCaseReplay over the cases of expectations.
BatchReplay(store, expectations) ==
    [c \in DOMAIN expectations |-> Comparison(Replay(store, c), expectations[c])]

\* buildReplayBaselineSnapshot.
BaselineStatus(comparisons) ==
    LET kinds == {comparisons[c] : c \in DOMAIN comparisons}
    IN  IF kinds \intersect {"mismatched", "failed"} # {} THEN "failed"
        ELSE IF "incomplete" \in kinds THEN "passed_with_notice"
        ELSE "passed"
=============================================================================
