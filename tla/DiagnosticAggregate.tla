------------------------ MODULE DiagnosticAggregate ------------------------
(***************************************************************************)
(* The aggregate view of a case's diagnostics, and the acceptance of phase *)
(* 2 that freezes it: the builder folds the signals of a diagnostic query  *)
(* into nine core fields, a matrix of twelve scenarios and three failure   *)
(* combinations compares them with what they were, and a gate, a checklist *)
(* and a close decision judge the drift.  The whole acceptance is one call *)
(* (runPhase2FinalAcceptance), so it is a function of the signals here.    *)
(***************************************************************************)
EXTENDS Naturals, Sequences, FiniteSets

------------------------------------------------------------------------
(* What a diagnostic query answers, as far as the aggregate looks at it.   *)
(* "none" stands for an absent part.                                       *)
Risks == {"low", "medium", "high"}
Hints == {"no_action_needed", "retry_repair_recommended",
          "manual_confirmation_recommended", "investigate_validation_conflict",
          "investigate_missing_read_view", "investigate_persistence_failure"}
Severities == {"none", "info", "warning", "critical"}
Continuities == {"none", "passed", "notice", "failed"}
RepairStatuses == {"none", "not_repaired", "repair_failed_retryable", "repaired",
                   "repair_failed_manual_confirmation_required", "manually_confirmed"}
LinkStatuses == {"none", "passed", "missing_record", "status_mismatch", "key_mismatch",
                 "timeline_invalid"}

Signals ==
  [risk : Risks, hint : Hints, alert : Severities, history : Continuities,
   replay : {"none", "passed", "notice", "failed"}, suppression : Continuities,
   lifecycle : Continuities, recommended : BOOLEAN, repair : RepairStatuses,
   link : LinkStatuses]

(* An alert of severity info is recorded for a replay that passed. *)
AlertsAttention(s) == s.alert \in {"warning", "critical"}

CanRetry(s) == s.repair \in {"repair_failed_retryable", "manually_confirmed"}

------------------------------------------------------------------------
(* The builder. *)
CrossSession(s) ==
  /\ s.history # "failed" /\ s.suppression # "failed" /\ s.lifecycle # "failed"
  /\ s.link \in {"none", "passed"}

NeedsAttention(s) ==
  \/ AlertsAttention(s)
  \/ s.risk = "high"
  \/ s.replay = "failed"
  \/ s.repair \in {"repair_failed_retryable", "repair_failed_manual_confirmation_required"}
  \/ ~CrossSession(s)

NeedsRepair(s) ==
  CanRetry(s) \/ s.recommended \/ s.hint = "retry_repair_recommended"

NeedsReview(s) ==
  \/ s.hint \in {"manual_confirmation_recommended", "investigate_validation_conflict"}
  \/ s.alert = "critical"
  \/ s.repair = "repair_failed_manual_confirmation_required"

Explanation(s) ==
  CASE ~CrossSession(s) -> "inconsistent"
    [] CrossSession(s) /\ NeedsAttention(s) -> "attention_required"
    [] ~NeedsAttention(s) /\ (NeedsRepair(s) \/ NeedsReview(s)) -> "partially_explained"
    [] OTHER -> "fully_explained"

NextStep(s) ==
  IF ~CrossSession(s) THEN "investigate_cross_session_inconsistency"
  ELSE IF NeedsReview(s) THEN "perform_manual_review_and_confirmation"
  ELSE IF NeedsRepair(s) THEN "execute_controlled_repair_or_retry"
  ELSE IF NeedsAttention(s) THEN "inspect_current_alert_and_validation_signals"
  ELSE "no_action_needed"

(* The first reason that is there, and a part that is there has a reason,  *)
(* also when it passed: the link's reason hides the reason of a failure.   *)
Reason(s) ==
  IF CrossSession(s) THEN <<"step", NextStep(s)>>
  ELSE IF s.link # "none" THEN <<"link", s.link>>
  ELSE IF s.lifecycle # "none" THEN <<"lifecycle", s.lifecycle>>
  ELSE IF s.suppression # "none" THEN <<"suppression", s.suppression>>
  ELSE <<"history", s.history>>

(* The summary spells out the six fields it is made of. *)
Summary(a) ==
  <<a.riskLevel, a.manualActionHint, a.requiresAttention, a.requiresRepairAction,
    a.requiresManualReview, a.isCrossSessionConsistent>>

Core(risk, hint, attention, repair, review, consistent, explanation, step) ==
  LET a == [riskLevel |-> risk, manualActionHint |-> hint,
            requiresAttention |-> attention, requiresRepairAction |-> repair,
            requiresManualReview |-> review, isCrossSessionConsistent |-> consistent,
            explanationStatus |-> explanation, recommendedNextStep |-> step] IN
  [f \in DOMAIN a \cup {"aggregateSummary"} |->
     IF f = "aggregateSummary" THEN Summary(a) ELSE a[f]]

Aggregate(s) ==
  Core(s.risk, s.hint, NeedsAttention(s), NeedsRepair(s), NeedsReview(s),
       CrossSession(s), Explanation(s), NextStep(s))

CoreFields ==
  {"riskLevel", "manualActionHint", "requiresAttention", "requiresRepairAction",
   "requiresManualReview", "isCrossSessionConsistent", "explanationStatus",
   "aggregateSummary", "recommendedNextStep"}

(* The seven rules of the consistency validator of an aggregate. *)
AggregateConsistent(s, a) ==
  /\ s.risk = "high" => a.requiresAttention
  /\ AlertsAttention(s) => a.requiresAttention
  /\ s.hint = "retry_repair_recommended" => a.requiresRepairAction
  /\ CanRetry(s) => a.requiresRepairAction
  /\ s.repair = "repair_failed_manual_confirmation_required" => a.requiresManualReview
  /\ s.link \notin {"none", "passed"} => ~a.isCrossSessionConsistent
  /\ s.replay = "failed" => a.explanationStatus # "fully_explained"

(* The query answers the view it built, or overrides one the validator     *)
(* refuses.                                                                *)
AggregateView(s) ==
  LET a == Aggregate(s) IN
  IF AggregateConsistent(s, a) THEN a
  ELSE [a EXCEPT !.requiresAttention = TRUE, !.isCrossSessionConsistent = FALSE,
                 !.explanationStatus = "inconsistent",
                 !.recommendedNextStep = "investigate_cross_session_inconsistency",
                 !.aggregateSummary = Append(@, "aggregate_consistency=failed")]

------------------------------------------------------------------------
(* The scenarios, and what their aggregates are expected to be. *)
Stable ==
  [risk |-> "low", hint |-> "no_action_needed", alert |-> "none", history |-> "none",
   replay |-> "none", suppression |-> "none", lifecycle |-> "none",
   recommended |-> FALSE, repair |-> "none", link |-> "passed"]

Retryable ==
  [Stable EXCEPT !.risk = "medium", !.hint = "retry_repair_recommended",
                 !.repair = "repair_failed_retryable", !.suppression = "passed"]

ReplayFailed == [Stable EXCEPT !.history = "failed", !.replay = "failed"]

Alarmed == [Stable EXCEPT !.risk = "high", !.alert = "critical"]

ScenarioSignals ==
  [M01 |-> [Stable EXCEPT !.history = "passed", !.suppression = "passed",
                          !.repair = "repaired"],
   M02 |-> [Retryable EXCEPT !.history = "passed"],
   M03 |-> [Alarmed EXCEPT !.hint = "manual_confirmation_recommended",
                           !.history = "passed", !.suppression = "passed",
                           !.repair = "repair_failed_manual_confirmation_required"],
   M04 |-> [ReplayFailed EXCEPT !.history = "passed"],
   M05 |-> ReplayFailed,
   M06 |-> [Stable EXCEPT !.suppression = "passed", !.repair = "repaired"],
   M07 |-> [Stable EXCEPT !.suppression = "failed"],
   M08 |-> [Stable EXCEPT !.link = "missing_record"],
   M09 |-> [Stable EXCEPT !.link = "status_mismatch"],
   M10 |-> [Alarmed EXCEPT !.hint = "investigate_validation_conflict"],
   M11 |-> [Retryable EXCEPT !.suppression = "failed", !.recommended = TRUE],
   M12 |-> [ReplayFailed EXCEPT !.link = "status_mismatch"]]

CombinationSignals ==
  [FC01 |-> [Alarmed EXCEPT !.hint = "investigate_validation_conflict",
                            !.repair = "repair_failed_manual_confirmation_required"],
   FC02 |-> ScenarioSignals.M11,
   FC03 |-> ScenarioSignals.M12]

AllGreen ==
  Core("low", "no_action_needed", FALSE, FALSE, FALSE, TRUE, "fully_explained",
       "no_action_needed")
LowButInconsistent ==
  Core("low", "no_action_needed", TRUE, FALSE, FALSE, FALSE, "inconsistent",
       "investigate_cross_session_inconsistency")
ToReview(hint) ==
  Core("high", hint, TRUE, FALSE, TRUE, TRUE, "attention_required",
       "perform_manual_review_and_confirmation")
ToRepair(consistent, explanation, step) ==
  Core("medium", "retry_repair_recommended", TRUE, TRUE, FALSE, consistent, explanation,
       step)

ScenarioExpects ==
  [M01 |-> AllGreen,
   M02 |-> ToRepair(TRUE, "attention_required", "execute_controlled_repair_or_retry"),
   M03 |-> ToReview("manual_confirmation_recommended"),
   M04 |-> Core("low", "no_action_needed", TRUE, FALSE, FALSE, TRUE, "attention_required",
                "inspect_current_alert_and_validation_signals"),
   M05 |-> LowButInconsistent, M06 |-> AllGreen, M07 |-> LowButInconsistent,
   M08 |-> LowButInconsistent, M09 |-> LowButInconsistent,
   M10 |-> ToReview("investigate_validation_conflict"),
   M11 |-> ToRepair(FALSE, "inconsistent", "investigate_cross_session_inconsistency"),
   M12 |-> LowButInconsistent]

(* A combination says nothing of risk, hint and summary.  FC02 expects the *)
(* reason of a link that passed: the reason of its failure is hidden.      *)
CombinationExpects ==
  [FC01 |-> ToReview("investigate_validation_conflict"),
   FC02 |-> ScenarioExpects.M11,
   FC03 |-> LowButInconsistent]

ExpectedReasons ==
  [FC01 |-> {<<"step", "perform_manual_review_and_confirmation">>},
   FC02 |-> {<<"link", "passed">>},
   FC03 |-> {<<"link", "status_mismatch">>}]

(* The frozen baselines of six scenarios and six failure semantics, with   *)
(* the parts of the input they name.                                       *)
BaselineOf ==
  [A |-> ScenarioExpects.M01, B |-> ScenarioExpects.M02, C |-> ScenarioExpects.M03,
   D |-> LowButInconsistent, E |-> LowButInconsistent, F |-> LowButInconsistent,
   history_replay_failed |-> LowButInconsistent,
   command_link_missing_record |-> LowButInconsistent,
   command_link_status_mismatch |-> LowButInconsistent,
   suppression_state_incompatible_version |-> ScenarioExpects.M02,
   suppression_state_manual_confirmation_required |-> ScenarioExpects.M03,
   diagnostic_validation_conflict |-> ToReview("investigate_validation_conflict")]

BaselineParts ==
  LET parts(alert, repair, link) == [alert |-> alert, repair |-> repair, link |-> link] IN
  [A |-> parts("any", "repaired", "passed"),
   B |-> parts("any", "repair_failed_retryable", "passed"),
   C |-> parts("critical", "repair_failed_manual_confirmation_required", "passed"),
   D |-> parts("any", "any", "passed"),
   E |-> parts("any", "any", "missing_record"),
   F |-> parts("any", "any", "passed"),
   history_replay_failed |-> parts("any", "any", "passed"),
   command_link_missing_record |-> parts("any", "any", "missing_record"),
   command_link_status_mismatch |-> parts("any", "any", "status_mismatch"),
   suppression_state_incompatible_version |->
     parts("any", "repair_failed_retryable", "passed"),
   suppression_state_manual_confirmation_required |->
     parts("critical", "repair_failed_manual_confirmation_required", "passed"),
   diagnostic_validation_conflict |-> parts("critical", "any", "passed")]

(* assertCoreCaseAggregateBaselineConsistency, with the aggregates it is   *)
(* compared with; the next step is in no baseline.                         *)
BaselineHolds(b, s, compared) ==
  LET a == AggregateView(s) IN
  /\ \A f \in CoreFields \ {"recommendedNextStep"} : a[f] = BaselineOf[b][f]
  /\ \A p \in {"alert", "repair", "link"} : BaselineParts[b][p] \in {"any", s[p]}
  /\ ~a.isCrossSessionConsistent => a.explanationStatus = "inconsistent"
  /\ s.link \notin {"none", "passed"} => ~a.isCrossSessionConsistent
  /\ \A t \in compared : AggregateView(t) = a

------------------------------------------------------------------------
(* The difference matrix.  A report is about the view a scenario got: the  *)
(* aggregate of its signals, perhaps with another wording of the summary.  *)
BlockingFields == CoreFields \ {"aggregateSummary", "recommendedNextStep"}

ScenarioReport(s, reworded, expected) ==
  LET a == AggregateView(s) IN
  [drift |-> {f \in BlockingFields : a[f] # expected[f]}
               \cup {f \in {"aggregateSummary"} : reworded \/ a[f] # expected[f]},
   semantic |-> TRUE]

CombinationReport(c, s) ==
  LET a == AggregateView(s)
      expected == CombinationExpects[c]
      frozen == {"requiresAttention", "requiresRepairAction", "requiresManualReview",
                 "isCrossSessionConsistent", "explanationStatus"} IN
  [drift |-> {f \in frozen : a[f] # expected[f]},
   semantic |-> /\ \A f \in frozen \cup {"recommendedNextStep"} : a[f] = expected[f]
                /\ Reason(s) \in ExpectedReasons[c]]

(* The signals of the fifteen cases at this moment, and where the summary  *)
(* is worded in another way.                                               *)
Cases == DOMAIN ScenarioSignals \cup DOMAIN CombinationSignals
UsualSignals ==
  [c \in Cases |-> IF c \in DOMAIN ScenarioSignals THEN ScenarioSignals[c]
                   ELSE CombinationSignals[c]]

Phase2Reports(signals, reworded) ==
  [c \in Cases |->
     IF c \in DOMAIN ScenarioSignals
     THEN ScenarioReport(signals[c], c \in reworded, ScenarioExpects[c])
     ELSE CombinationReport(c, signals[c])]

IsBlocking(report) == report.drift \cap BlockingFields # {} \/ ~report.semantic
IsNotice(report) == ~IsBlocking(report) /\ report.drift # {}

Phase2Matrix(reports) ==
  [reports |-> reports,
   status |-> IF \E c \in Cases : IsBlocking(reports[c]) THEN "failed"
              ELSE IF \E c \in Cases : IsNotice(reports[c]) THEN "passed_with_notice"
              ELSE "passed"]

(* The input counts the drift of every field, blocking or not. *)
Phase2Input(matrix) ==
  LET drift == {d \in Cases \X CoreFields : d[2] \in matrix.reports[d[1]].drift} IN
  [blocking |-> {d \in drift : d[2] \in BlockingFields},
   notices |-> {d \in drift : d[2] \notin BlockingFields},
   mismatches |-> {c \in Cases : ~matrix.reports[c].semantic},
   scenarios |-> DOMAIN matrix.reports \cap DOMAIN ScenarioSignals,
   combinations |-> DOMAIN matrix.reports \cap DOMAIN CombinationSignals]

------------------------------------------------------------------------
(* The gate: eight checks, and notices that become too many. *)
EscalationThreshold == 3

FailsIf(bad) == IF bad THEN "fail" ELSE "pass"

Phase2Checks(input) ==
  LET drifted(fields) == \E d \in input.blocking : d[2] \in fields IN
  [baseline_core_fields_stable |->
     IF input.blocking # {} THEN "fail"
     ELSE IF input.notices # {} THEN "warning" ELSE "pass",
   failure_semantics_frozen |-> FailsIf(input.mismatches # {}),
   scenario_matrix_covered |-> FailsIf(Cardinality(input.scenarios) < 12),
   failure_combination_matrix_covered |-> FailsIf(Cardinality(input.combinations) < 3),
   cross_command_consistency_passed |->
     FailsIf(drifted({"requiresAttention", "requiresRepairAction",
                      "requiresManualReview"})),
   cross_session_consistency_passed |-> FailsIf(drifted({"isCrossSessionConsistent"})),
   no_blocking_core_field_drift |-> FailsIf(input.blocking # {}),
   no_blocking_failure_semantic_mismatch |-> FailsIf(input.mismatches # {})]

(* Faulty: notices never become too many. *)
GateWithoutEscalation(input) ==
  LET checks == Phase2Checks(input)
      those(status) == {c \in DOMAIN checks : checks[c] = status} IN
  [checks |-> checks,
   status |-> IF those("fail") # {} THEN "fail"
              ELSE IF those("warning") # {} THEN "pass_with_notice" ELSE "pass",
   blocking |-> those("fail"),
   notices |-> those("warning")]

Phase2Gate(input) ==
  LET checks == Phase2Checks(input)
      those(status) == {c \in DOMAIN checks : checks[c] = status}
      escalated == /\ those("fail") = {} /\ those("warning") # {}
                   /\ Cardinality(input.notices) >= EscalationThreshold IN
  [checks |-> checks,
   status |-> IF those("fail") # {} \/ escalated THEN "fail"
              ELSE IF those("warning") # {} THEN "pass_with_notice" ELSE "pass",
   blocking |-> those("fail") \cup (IF escalated THEN {"notice_escalation"} ELSE {}),
   notices |-> those("warning")]

PipelineStatus(gate) ==
  CASE gate.status = "pass" -> "ready"
    [] gate.status = "pass_with_notice" -> "ready_with_notices"
    [] gate.status = "fail" -> "not_ready"

Phase2Pipeline(signals, reworded) ==
  LET matrix == Phase2Matrix(Phase2Reports(signals, reworded))
      gate == Phase2Gate(Phase2Input(matrix)) IN
  [matrix |-> matrix, input |-> Phase2Input(matrix), gate |-> gate,
   status |-> PipelineStatus(gate)]

PipelineConsistent(p) ==
  /\ ~(p.matrix.status = "passed" /\ p.gate.status = "fail")
  /\ ~(p.matrix.status = "failed" /\ p.gate.status = "pass")
  /\ p.input.blocking # {} \/ p.input.mismatches # {} =>
       \E c \in DOMAIN p.gate.checks : p.gate.checks[c] = "fail"
  /\ p.status = PipelineStatus(p.gate)

------------------------------------------------------------------------
(* The final acceptance and the close decision.  Whether the boundary      *)
(* scenarios of the two rounds are covered is what the caller says.        *)
Phase2Checklist(p, round1, round2) ==
  [matrixCompleted |-> /\ Cardinality(p.input.scenarios) >= 12
                       /\ Cardinality(p.input.combinations) >= 3,
   acceptanceInputBuilt |-> p.input.scenarios # {},
   gateEvaluated |-> Cardinality(DOMAIN p.gate.checks) >= 8,
   highRiskBoundaryCoveredRound1 |-> round1,
   highRiskBoundaryCoveredRound2 |-> round2,
   blockingIssuesResolvedOrAcknowledged |-> p.gate.blocking = {}]

AllPassed(checklist) == \A i \in DOMAIN checklist : checklist[i]

Phase2Acceptance(p, round1, round2, runId) ==
  LET checklist == Phase2Checklist(p, round1, round2) IN
  [runId |-> runId, pipeline |-> p, checklist |-> checklist,
   status |-> IF p.status = "not_ready" \/ ~AllPassed(checklist) THEN "not_ready_to_close"
              ELSE IF p.status = "ready_with_notices" THEN "ready_with_notices"
              ELSE "ready_to_close"]

Phase2AcceptanceConsistent(a) ==
  /\ a.status = "ready_to_close" =>
       /\ a.pipeline.status # "not_ready" /\ a.pipeline.gate.status # "fail"
       /\ a.pipeline.gate.blocking = {}
       /\ AllPassed(a.checklist)
  /\ a.status = "not_ready_to_close" =>
       ~(a.pipeline.status = "ready" /\ AllPassed(a.checklist))

(* What the readiness validator asks on top of that. *)
CloseReadinessConsistent(a) ==
  /\ Phase2AcceptanceConsistent(a)
  /\ a.status = "not_ready_to_close" =>
       ~(/\ a.pipeline.status \in {"ready", "ready_with_notices"}
         /\ a.pipeline.gate.blocking = {} /\ AllPassed(a.checklist))
  /\ Cardinality(DOMAIN a.pipeline.gate.checks) >= 8

(* The artifacts the result can lack; the frozen constants are in the code. *)
MissingArtifacts(a) ==
  {x \in {"Phase2AggregateDifferenceMatrix", "Phase2AcceptanceInputSnapshot",
          "Phase2AcceptanceGateResult", "Phase2FinalAcceptanceResult",
          "PHASE2_AGGREGATE_FAILURE_COMBINATION_MATRIX"} :
     CASE x = "Phase2AcceptanceGateResult" -> DOMAIN a.pipeline.gate.checks = {}
       [] x = "Phase2FinalAcceptanceResult" -> a.runId = ""
       [] x = "PHASE2_AGGREGATE_FAILURE_COMBINATION_MATRIX" ->
            a.pipeline.input.combinations = {}
       [] OTHER -> a.pipeline.input.scenarios = {}}

Phase2Decision(a) ==
  LET missing == MissingArtifacts(a)
      matrix == a.pipeline.matrix.status
      gate == a.pipeline.gate IN
  [status |->
     IF \/ missing # {} \/ matrix = "failed" \/ gate.status = "fail"
        \/ a.status = "not_ready_to_close" \/ ~AllPassed(a.checklist) \/ gate.blocking # {}
     THEN "not_closed"
     ELSE IF \/ matrix = "passed_with_notice" \/ gate.status = "pass_with_notice"
             \/ a.status = "ready_with_notices"
     THEN "closed_with_notices"
     ELSE "closed",
   missing |-> missing, blocking |-> gate.blocking, notices |-> gate.notices,
   matrix |-> matrix, gate |-> gate.status, acceptance |-> a.status,
   checklist |-> AllPassed(a.checklist)]

Phase2DecisionConsistent(d) ==
  /\ d.status = "closed" =>
       /\ d.blocking = {} /\ d.matrix = "passed" /\ d.gate = "pass"
       /\ d.acceptance = "ready_to_close" /\ d.checklist /\ d.missing = {}
  /\ d.status = "closed_with_notices" =>
       d.blocking = {} /\ d.notices # {} /\ d.checklist /\ d.missing = {}
=============================================================================
