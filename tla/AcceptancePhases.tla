-------------------------- MODULE AcceptancePhases --------------------------
(***************************************************************************)
(* What the acceptance pipelines of phases 3 to 7 compare and watch.  Each *)
(* phase runs its scenarios, compares the fields of what they observed     *)
(* with a baseline, and lets a gate look at the fields that drifted.       *)
(*                                                                         *)
(* Of a field only its name matters here, and whether it still has the     *)
(* value of the baseline.  PhaseNMoves says, for every scenario, which     *)
(* sets of observed fields one change of the product makes drift together: *)
(* a field that the scenario writes as a literal, or compares with itself, *)
(* is in none of them.                                                     *)
(***************************************************************************)
EXTENDS Naturals, FiniteSets

(* Two tables in one. *)
f ++ g ==
  [x \in DOMAIN f \cup DOMAIN g |-> IF x \in DOMAIN f THEN f[x] ELSE g[x]]

Each(fields) == {{f} : f \in fields}

(* What a check of a gate looks at: blocking drift of these fields in      *)
(* these scenarios fails it, notice drift of those fields makes it warn.   *)
Watches(scenarios, blocking, notices) ==
  [scenarios |-> scenarios, blocking |-> blocking, notices |-> notices]

(* A coverage check asks for a number of scenarios of each of its groups.  *)
(* The checklist has an item for every group.                              *)

------------------------------------------------------------------------
(* Phase 3: the policy registry and the versions of its configuration. *)
Strategies == {"S1", "S2", "S3", "S4", "S5"}
ConfigVersions == {"C1", "C2", "C3", "C4", "C5", "C6"}

Phase3Baselines ==
  [s \in Strategies |->
     {"configVersion", "preflightPassed", "dryRunPassed", "policySelectionSummary"}]
  ++ [s \in ConfigVersions |->
        {"configVersion", "activationStatus", "preflightPassed", "currentActiveVersion",
         "rollbackAvailable", "auditAction", "diffSummary"}]

(* A dry run that fails takes the preflight with it, S4 is expected to     *)
(* fail both; policySelectionSummary is computed from the same constant on *)
(* both sides.                                                             *)
Phase3Moves ==
  [s \in Strategies |->
     {{"configVersion"}, {"preflightPassed", "dryRunPassed"}}
       \cup {IF s = "S4" THEN {"dryRunPassed"} ELSE {"preflightPassed"}}]
  ++ [s \in ConfigVersions |-> Each(Phase3Baselines[s])]

Phase3Notices == {"diffSummary", "policySelectionSummary"}

Phase3Checks ==
  [policy_bundle_resolution_stable |-> Watches(Strategies, {"preflightPassed"}, {}),
   policy_dry_run_stable |-> Watches(DOMAIN Phase3Baselines, {"dryRunPassed"}, {}),
   activation_chain_consistent |->
     Watches(DOMAIN Phase3Baselines,
             {"activationStatus", "currentActiveVersion", "rollbackAvailable"}, {}),
   audit_diff_readview_consistent |->
     Watches(DOMAIN Phase3Baselines, {"auditAction"}, Phase3Notices)]

Phase3Coverage ==
  [strategy_matrix_covered |-> {<<"strategy", Strategies, 5>>},
   config_version_matrix_covered |-> {<<"config_version", ConfigVersions, 6>>}]

Phase3Artifacts ==
  {"policy-contracts", "policy-descriptor-registry-config-root",
   "policy-bundle-prevalidation-dryrun", "real-strategies-v1",
   "config-activation-rollback-preflight", "config-audit-diff-readview",
   "activation-orchestration-baseline-freeze", "difference-matrix-acceptance-input",
   "acceptance-gate", "final-acceptance-runner-preclose-checklist",
   "final-close-decision"}

------------------------------------------------------------------------
(* Phase 4: orchestration of risk and liquidation cases. *)
RiskCases == {"R1", "R2", "R3", "R4", "R5"}
LiquidationCases == {"L1", "L2", "L3", "L4", "L5"}
Refused == {"R4", "R5", "L4", "L5"}

Phase4Baselines ==
  [s \in {"R1", "L1"} |->
     {"resultStatus", "sagaStatus", "idempotencyStatus", "configVersion",
      "pendingCompensation", "replayedFromPreviousResult"}]
  ++ [s \in {"R2", "L2"} |->
        {"resultStatus", "idempotencyStatus", "replayedFromPreviousResult"}]
  ++ [s \in {"R3", "L3"} |->
        {"resultStatus", "sagaStatus", "pendingCompensation", "compensationStatus"}]
  ++ [s \in Refused |-> {"resultStatus", "sagaStatus"}]

Phase4Fields ==
  {"resultStatus", "sagaStatus", "idempotencyStatus", "configVersion",
   "pendingCompensation", "auditEventSummary", "resultSummary",
   "replayedFromPreviousResult", "compensationStatus"}

(* An error is observed as two fields and none of the others, so a run that *)
(* fails where it succeeded, or the other way round, moves every field.     *)
Phase4Moves ==
  [s \in Refused |-> {Phase4Fields}]
  ++ [s \in (RiskCases \cup LiquidationCases) \ Refused |->
        Each(Phase4Fields) \cup {Phase4Fields}]

Phase4Notices == {"resultSummary", "replayedFromPreviousResult"}

Phase4Checks ==
  LET all == RiskCases \cup LiquidationCases IN
  [risk_case_orchestration_stable |->
     Watches(RiskCases, {"resultStatus", "sagaStatus"}, {}),
   liquidation_case_orchestration_stable |->
     Watches(LiquidationCases, {"resultStatus", "sagaStatus"}, {}),
   replay_semantics_stable |-> Watches(all, {"idempotencyStatus"}, {}),
   compensation_semantics_stable |->
     Watches(all, {"pendingCompensation", "compensationStatus"}, {}),
   saga_resume_semantics_stable |-> Watches(all, {"sagaStatus"}, {})]

Phase4Coverage ==
  [orchestration_matrix_covered |->
     {<<"risk_case", RiskCases, 5>>, <<"liquidation_case", LiquidationCases, 5>>}]

Phase4Artifacts ==
  {"risk-case-orchestrator", "saga-idempotency-ports", "compensation-replay-audit",
   "liquidation-case-orchestrator", "saga-resume-skeleton", "path-consistency-helper",
   "difference-matrix-acceptance-input", "acceptance-gate-checklist",
   "final-acceptance-preclose", "final-close-decision"}

------------------------------------------------------------------------
(* Phase 5: replay of single cases and of batches. *)
SingleCases == {"S1", "S2", "S3", "S4", "S5"}
Batches == {"B1", "B2", "B3", "B4", "B5"}

Phase5Baselines ==
  [s \in {"S1"} |-> {"reconstructionStatus", "finalState", "eventCount"}]
  ++ [s \in {"S2", "S3", "S4", "S5"} |-> {"reconstructionStatus", "finalState"}]
  ++ [s \in {"B1"} |->
        {"matchedCases", "mismatchedCases", "failedCases", "incompleteCases"}]
  ++ [s \in {"B2"} |-> {"matchedCases", "mismatchedCases", "failedCases"}]
  ++ [s \in {"B3"} |-> {"matchedCases", "incompleteCases", "failedCases"}]
  ++ [s \in {"B4", "B5"} |-> {"matchedCases", "failedCases"}]

ReplayFields == {"reconstructionStatus", "finalState", "eventCount"}
BatchCounts == {"matchedCases", "mismatchedCases", "failedCases", "incompleteCases"}

(* A case of a batch that ends otherwise leaves one count and enters another; *)
(* a batch that is refused has no counts.                                     *)
Phase5Moves ==
  [s \in {"S1", "S5"} |-> Each(ReplayFields) \cup {ReplayFields}]
  ++ [s \in {"S2", "S3", "S4"} |-> {ReplayFields}]
  ++ [s \in Batches \ {"B5"} |->
        {fields \in SUBSET BatchCounts : Cardinality(fields) = 2} \cup {BatchCounts}]
  ++ [s \in {"B5"} |-> {BatchCounts}]

Phase5Notices == {"eventCount", "matchedCases", "mismatchedCases"}

Phase5Checks ==
  LET all == SingleCases \cup Batches
      any == {"reconstructionStatus", "finalState", "comparisonStatus", "hasDifference",
              "failedCases", "incompleteCases"} IN
  [single_case_replay_stable |-> Watches(SingleCases, any, {}),
   batch_replay_stable |-> Watches(Batches, any, {}),
   reconstruction_semantics_stable |->
     Watches(all, {"reconstructionStatus", "finalState"}, {}),
   comparison_semantics_stable |-> Watches(all, {"comparisonStatus", "hasDifference"}, {}),
   replay_consistency_stable |-> Watches(all, {"failedCases", "incompleteCases"}, {})]

Phase5Coverage ==
  [replay_matrix_covered |->
     {<<"single_case", SingleCases, 5>>, <<"batch_replay", Batches, 5>>}]

Phase5Artifacts ==
  {"event-store-boundary", "single-case-replay-reconstruction",
   "replay-consistency-skeleton", "phase4-audit-events-into-store",
   "batch-replay-skeleton", "comparison-baseline-snapshot",
   "replay-difference-matrix-acceptance-input", "replay-acceptance-gate-checklist",
   "replay-final-acceptance-preclose", "replay-final-close-decision"}

------------------------------------------------------------------------
(* Phase 6: observability and fault drills. *)
Observabilities == {"T1", "T2", "T3", "T4", "T5"}
Drills == {"F1", "F2", "F3", "F4", "F5"}

Phase6Baselines ==
  [T1 |-> {"tracePropagationStatus"}, T2 |-> {"metricRecordingStatus"},
   T3 |-> {"benchmarkStatus"}, T4 |-> {"benchmarkStatus"}, T5 |-> {"overallStatus"},
   F5 |-> {"failedUnexpectedlyCount"}]
  ++ [s \in Drills \ {"F5"} |-> {"drillStatus"}]

(* The benchmarks also observe a duration, which no baseline names. *)
Phase6Moves ==
  [s \in {"T3", "T4"} |-> Each({"benchmarkStatus", "avgDurationMs"})]
  ++ [s \in (Observabilities \cup Drills) \ {"T3", "T4"} |-> {Phase6Baselines[s]}]

Phase6Notices ==
  {"avgDurationMs", "degradedButContinuedCount", "traceSpanCount", "metricCount"}

Phase6Checks ==
  LET all == Observabilities \cup Drills IN
  [trace_propagation_stable |-> Watches(all, {"tracePropagationStatus"}, {}),
   metrics_recording_stable |-> Watches(all, {"metricRecordingStatus"}, {}),
   benchmark_output_stable |-> Watches(all, {"benchmarkStatus"}, {}),
   fault_drill_semantics_stable |->
     Watches(all, {"drillStatus", "failedUnexpectedlyCount"}, {}),
   fault_drill_consistency_stable |-> Watches(all, {"overallStatus"}, {})]

Phase6Coverage ==
  [phase6_matrix_covered |->
     {<<"observability", Observabilities, 5>>, <<"fault_drill", Drills, 5>>}]

Phase6Artifacts ==
  {"trace-context-propagation", "metrics-port-contract", "benchmark-harness-result",
   "observability-consistency-helper", "fault-injection-model",
   "fault-drill-runner-result", "drill-baseline-snapshot",
   "phase6-difference-matrix-input", "phase6-acceptance-gate-checklist",
   "phase6-final-acceptance-preclose", "phase6-final-close-decision"}

------------------------------------------------------------------------
(* Phase 7: the guards of a release, its rollback plan and its runbook. *)
Preflights == {"P1", "P2", "P3", "P4", "P5"}
Rollbacks == {"R1", "R2", "R3", "R4", "R5"}

Phase7Baselines ==
  [P4 |-> {"preflightStatus", "contractBaselineStatus"},
   R1 |-> {"rollbackPlanStatus", "runbookStatus", "rollbackReady", "runbookReady"},
   R2 |-> {"rollbackPlanStatus", "runbookStatus", "rollbackReady"},
   R5 |-> {"runbookStatus", "runbookReady"}]
  ++ [s \in {"P1", "P2"} |-> {"preflightStatus", "blockingIssueCount"}]
  ++ [s \in {"P3", "P5"} |-> {"preflightStatus"}]
  ++ [s \in {"R3", "R4"} |-> {"rollbackPlanStatus", "rollbackReady"}]

(* A preflight that changes its verdict changes the number of blocking     *)
(* issues as well, and P2 may find more of them; a plan's status and its   *)
(* readiness are one verdict; P4's contractBaselineStatus and the whole of *)
(* R2 are written as literals.                                             *)
Phase7Moves ==
  [P2 |-> {{"blockingIssueCount"}, Phase7Baselines["P2"]},
   R1 |-> {{"rollbackPlanStatus", "rollbackReady"}, {"runbookStatus", "runbookReady"}},
   R2 |-> {}]
  ++ [s \in {"P3", "P4", "P5"} |-> {{"preflightStatus"}}]
  ++ [s \in {"P1", "R3", "R4", "R5"} |-> {Phase7Baselines[s]}]

Phase7Notices == {"noticeCount", "rollbackReady", "runbookReady"}

Phase7Checks ==
  LET all == Preflights \cup Rollbacks IN
  [config_preflight_stable |-> Watches(all, {"preflightStatus"}, {}),
   contract_freeze_stable |-> Watches(all, {"contractBaselineStatus"}, {}),
   rollback_plan_ready |-> Watches(all, {"rollbackPlanStatus"}, {}),
   runbook_ready |-> Watches(all, {"runbookStatus"}, {}),
   release_guard_consistency_stable |-> Watches(all, {"summaryStatus"}, {})]

Phase7Coverage ==
  [phase7_matrix_covered |->
     {<<"preflight_contract", Preflights, 5>>, <<"rollback_runbook", Rollbacks, 5>>}]

Phase7Artifacts ==
  {"publish-preflight-runner", "contract-freeze-baseline", "blocking-rules-consistency",
   "rollback-plan-skeleton", "runbook-skeleton", "difference-matrix-draft",
   "phase7-difference-matrix-input", "phase7-acceptance-gate-checklist",
   "phase7-final-acceptance-preclose", "phase7-final-close-decision"}
=============================================================================
