-------------------------- MODULE AcceptanceProofs --------------------------
(***************************************************************************)
(* What the close decision of a phase says of the drift, however often the *)
(* matrix is run, however much of the product changes, and whichever gate  *)
(* a caller hands over.                                                    *)
(***************************************************************************)
EXTENDS AcceptancePipeline, FiniteSetTheorems, TLAPS

Pipelines == {"phase3", "phase4", "phase5", "phase6", "phase7"}

-----------------------------------------------------------------------------
(***************************************************************************)
(* The tables of the phases.                                               *)
(***************************************************************************)
\* Sets of five and six different things have five and six elements.
LEMMA Five ==
  ASSUME NEW a, NEW b, NEW c, NEW d, NEW e,
         a # b, a # c, a # d, a # e, b # c, b # d, b # e, c # d, c # e, d # e
  PROVE  IsFiniteSet({a, b, c, d, e}) /\ Cardinality({a, b, c, d, e}) = 5
<1>1. IsFiniteSet({}) /\ Cardinality({}) = 0
  BY FS_EmptySet
<1>2. IsFiniteSet({} \union {a}) /\ Cardinality({} \union {a}) = 1
  BY <1>1, FS_AddElement
<1>3. IsFiniteSet(({} \union {a}) \union {b}) /\ Cardinality(({} \union {a}) \union {b}) = 2
  BY <1>2, FS_AddElement
<1>4. /\ IsFiniteSet((({} \union {a}) \union {b}) \union {c})
      /\ Cardinality((({} \union {a}) \union {b}) \union {c}) = 3
  BY <1>3, FS_AddElement
<1>5. /\ IsFiniteSet(((({} \union {a}) \union {b}) \union {c}) \union {d})
      /\ Cardinality(((({} \union {a}) \union {b}) \union {c}) \union {d}) = 4
  BY <1>4, FS_AddElement
<1>6. /\ IsFiniteSet((((({} \union {a}) \union {b}) \union {c}) \union {d}) \union {e})
      /\ Cardinality((((({} \union {a}) \union {b}) \union {c}) \union {d}) \union {e}) = 5
  BY <1>5, FS_AddElement
<1>7. (((({} \union {a}) \union {b}) \union {c}) \union {d}) \union {e} = {a, b, c, d, e}
  OBVIOUS
<1> QED
  BY <1>6, <1>7

\* Three more make eight.
LEMMA Eight ==
  ASSUME NEW S, NEW f, NEW g, NEW h, IsFiniteSet(S), Cardinality(S) = 5,
         f \notin S, g \notin S, h \notin S, f # g, f # h, g # h
  PROVE  Cardinality(S \union {f, g, h}) = 8
<1>1. IsFiniteSet(S \union {f}) /\ Cardinality(S \union {f}) = 6
  BY FS_AddElement
<1>2. /\ IsFiniteSet((S \union {f}) \union {g})
      /\ Cardinality((S \union {f}) \union {g}) = 7
  BY <1>1, FS_AddElement
<1>3. Cardinality(((S \union {f}) \union {g}) \union {h}) = 8
  BY <1>2, FS_AddElement
<1>4. ((S \union {f}) \union {g}) \union {h} = S \union {f, g, h}
  OBVIOUS
<1> QED
  BY <1>3, <1>4

\* What the gate and the checklist rely on in the tables of a phase: as many
\* scenarios as they ask for, in every group, and eight checks of different names.
TablesFit(p) ==
  /\ Cardinality(Scenarios(p)) >= FewestScenarios(p)
  /\ \A group \in Groups(p) :
        /\ Scenarios(p) \cap group[2] # {}
        /\ Cardinality(Scenarios(p) \cap group[2]) >= group[3]
  /\ (DOMAIN FieldChecks(p)) \cap DOMAIN CoverageChecks(p) = {}
  /\ {"no_blocking_core_field_drift", "cross_consistency_passed"}
        \cap ((DOMAIN FieldChecks(p)) \union DOMAIN CoverageChecks(p)) = {}
  /\ Cardinality(((DOMAIN FieldChecks(p)) \union DOMAIN CoverageChecks(p))
                   \union {"no_blocking_core_field_drift", "cross_consistency_passed"}) = 8

\* Two groups without a scenario in common are covered by the scenarios of both.
LEMMA TwoGroups ==
  ASSUME NEW X, NEW Y, IsFiniteSet(X), IsFiniteSet(Y), X \cap Y = {},
         Cardinality(X) = 5, Cardinality(Y) \in {5, 6}
  PROVE  /\ Cardinality(X \union Y) = 5 + Cardinality(Y)
         /\ (X \union Y) \cap X = X /\ (X \union Y) \cap Y = Y
         /\ X # {} /\ Y # {}
<1>1. Cardinality(X \union Y) = Cardinality(X) + Cardinality(Y) - Cardinality(X \cap Y)
  BY FS_Union
<1>2. Cardinality(X \cap Y) = 0 /\ Cardinality({}) = 0
  BY FS_EmptySet
<1> QED
  BY <1>1, <1>2

LEMMA Tables3 ==
  /\ Baselines("phase3") = Phase3Baselines
  /\ FieldChecks("phase3") = Phase3Checks /\ CoverageChecks("phase3") = Phase3Coverage
  BY Zenon DEF Baselines, FieldChecks, CoverageChecks

LEMMA Fit3 == TablesFit("phase3")
<1>1. Scenarios("phase3") = Strategies \union ConfigVersions
  BY Tables3 DEF Scenarios, Phase3Baselines, ++
<1>2. Cardinality(Strategies) = 5 /\ IsFiniteSet(Strategies)
  BY Five DEF Strategies
<1>3. Cardinality(ConfigVersions) = 6 /\ IsFiniteSet(ConfigVersions)
  <2>1. ConfigVersions = {"C1", "C2", "C3", "C4", "C5"} \union {"C6"}
    BY DEF ConfigVersions
  <2>2. /\ Cardinality({"C1", "C2", "C3", "C4", "C5"}) = 5
        /\ IsFiniteSet({"C1", "C2", "C3", "C4", "C5"})
    BY Five
  <2> QED
    BY <2>1, <2>2, FS_AddElement
<1>4. Strategies \cap ConfigVersions = {}
  BY DEF Strategies, ConfigVersions
<1>5. /\ Cardinality(Scenarios("phase3")) = 11
      /\ Scenarios("phase3") \cap Strategies = Strategies /\ Strategies # {}
      /\ Scenarios("phase3") \cap ConfigVersions = ConfigVersions /\ ConfigVersions # {}
  BY <1>1, <1>2, <1>3, <1>4, TwoGroups
<1>6. Groups("phase3") = {<<"strategy", Strategies, 5>>, <<"config_version", ConfigVersions, 6>>}
  BY Tables3 DEF Groups, Phase3Coverage
<1>7. /\ DOMAIN FieldChecks("phase3")
           = {"policy_bundle_resolution_stable", "policy_dry_run_stable",
              "activation_chain_consistent", "audit_diff_readview_consistent"}
      /\ DOMAIN CoverageChecks("phase3")
           = {"strategy_matrix_covered", "config_version_matrix_covered"}
  BY Tables3 DEF Phase3Checks, Phase3Coverage
<1>8. Cardinality({"policy_bundle_resolution_stable", "policy_dry_run_stable",
                   "activation_chain_consistent", "audit_diff_readview_consistent",
                   "strategy_matrix_covered"} \union
          {"config_version_matrix_covered", "no_blocking_core_field_drift",
           "cross_consistency_passed"}) = 8
  <2> DEFINE S == {"policy_bundle_resolution_stable", "policy_dry_run_stable",
                   "activation_chain_consistent", "audit_diff_readview_consistent",
                   "strategy_matrix_covered"}
  <2>1. IsFiniteSet(S) /\ Cardinality(S) = 5
    BY Five
  <2>2. /\ "config_version_matrix_covered" \notin S
        /\ "no_blocking_core_field_drift" \notin S /\ "cross_consistency_passed" \notin S
    OBVIOUS
  <2> HIDE DEF S
  <2>3. Cardinality(S \union {"config_version_matrix_covered", "no_blocking_core_field_drift",
                                "cross_consistency_passed"}) = 8
    BY <2>1, <2>2, Eight
  <2> QED
    BY <2>3 DEF S
<1>9. ((DOMAIN FieldChecks("phase3")) \union DOMAIN CoverageChecks("phase3"))
         \union {"no_blocking_core_field_drift", "cross_consistency_passed"}
        = {"policy_bundle_resolution_stable", "policy_dry_run_stable",
           "activation_chain_consistent", "audit_diff_readview_consistent",
           "strategy_matrix_covered"} \union
          {"config_version_matrix_covered", "no_blocking_core_field_drift",
           "cross_consistency_passed"}
  BY <1>7
<1> QED
  BY <1>2, <1>3, <1>5, <1>6, <1>7, <1>8, <1>9 DEF TablesFit, FewestScenarios

LEMMA Tables4 ==
  /\ Baselines("phase4") = Phase4Baselines
  /\ FieldChecks("phase4") = Phase4Checks /\ CoverageChecks("phase4") = Phase4Coverage
  BY Zenon DEF Baselines, FieldChecks, CoverageChecks

LEMMA Fit4 == TablesFit("phase4")
<1>1. Scenarios("phase4") = RiskCases \union LiquidationCases
  BY Tables4 DEF Scenarios, Phase4Baselines, RiskCases, LiquidationCases, Refused, ++
<1>2. Cardinality(RiskCases) = 5 /\ IsFiniteSet(RiskCases)
  BY Five DEF RiskCases
<1>3. Cardinality(LiquidationCases) = 5 /\ IsFiniteSet(LiquidationCases)
  BY Five DEF LiquidationCases
<1>4. RiskCases \cap LiquidationCases = {}
  BY DEF RiskCases, LiquidationCases
<1>5. /\ Cardinality(Scenarios("phase4")) = 10
      /\ Scenarios("phase4") \cap RiskCases = RiskCases /\ RiskCases # {}
      /\ Scenarios("phase4") \cap LiquidationCases = LiquidationCases /\ LiquidationCases # {}
  BY <1>1, <1>2, <1>3, <1>4, TwoGroups
<1>6. Groups("phase4") = {<<"risk_case", RiskCases, 5>>, <<"liquidation_case", LiquidationCases, 5>>}
  BY Tables4 DEF Groups, Phase4Coverage
<1>7. /\ DOMAIN FieldChecks("phase4")
           = {"risk_case_orchestration_stable", "liquidation_case_orchestration_stable",
              "replay_semantics_stable", "compensation_semantics_stable",
              "saga_resume_semantics_stable"}
      /\ DOMAIN CoverageChecks("phase4") = {"orchestration_matrix_covered"}
  BY Tables4 DEF Phase4Checks, Phase4Coverage
<1>8. Cardinality({"risk_case_orchestration_stable", "liquidation_case_orchestration_stable",
                   "replay_semantics_stable", "compensation_semantics_stable",
                   "saga_resume_semantics_stable"} \union
          {"orchestration_matrix_covered", "no_blocking_core_field_drift",
           "cross_consistency_passed"}) = 8
  <2> DEFINE S == {"risk_case_orchestration_stable", "liquidation_case_orchestration_stable",
                   "replay_semantics_stable", "compensation_semantics_stable",
                   "saga_resume_semantics_stable"}
  <2>1. IsFiniteSet(S) /\ Cardinality(S) = 5
    BY Five
  <2>2. /\ "orchestration_matrix_covered" \notin S
        /\ "no_blocking_core_field_drift" \notin S /\ "cross_consistency_passed" \notin S
    OBVIOUS
  <2> HIDE DEF S
  <2>3. Cardinality(S \union {"orchestration_matrix_covered", "no_blocking_core_field_drift",
                                "cross_consistency_passed"}) = 8
    BY <2>1, <2>2, Eight
  <2> QED
    BY <2>3 DEF S
<1>9. ((DOMAIN FieldChecks("phase4")) \union DOMAIN CoverageChecks("phase4"))
         \union {"no_blocking_core_field_drift", "cross_consistency_passed"}
        = {"risk_case_orchestration_stable", "liquidation_case_orchestration_stable",
           "replay_semantics_stable", "compensation_semantics_stable",
           "saga_resume_semantics_stable"} \union
          {"orchestration_matrix_covered", "no_blocking_core_field_drift",
           "cross_consistency_passed"}
  BY <1>7
<1> QED
  BY <1>2, <1>3, <1>5, <1>6, <1>7, <1>8, <1>9 DEF TablesFit, FewestScenarios

LEMMA Tables5 ==
  /\ Baselines("phase5") = Phase5Baselines
  /\ FieldChecks("phase5") = Phase5Checks /\ CoverageChecks("phase5") = Phase5Coverage
  BY Zenon DEF Baselines, FieldChecks, CoverageChecks

LEMMA Fit5 == TablesFit("phase5")
<1>1. Scenarios("phase5") = SingleCases \union Batches
  BY Tables5 DEF Scenarios, Phase5Baselines, SingleCases, Batches, ++
<1>2. Cardinality(SingleCases) = 5 /\ IsFiniteSet(SingleCases)
  BY Five DEF SingleCases
<1>3. Cardinality(Batches) = 5 /\ IsFiniteSet(Batches)
  BY Five DEF Batches
<1>4. SingleCases \cap Batches = {}
  BY DEF SingleCases, Batches
<1>5. /\ Cardinality(Scenarios("phase5")) = 10
      /\ Scenarios("phase5") \cap SingleCases = SingleCases /\ SingleCases # {}
      /\ Scenarios("phase5") \cap Batches = Batches /\ Batches # {}
  BY <1>1, <1>2, <1>3, <1>4, TwoGroups
<1>6. Groups("phase5") = {<<"single_case", SingleCases, 5>>, <<"batch_replay", Batches, 5>>}
  BY Tables5 DEF Groups, Phase5Coverage
<1>7. /\ DOMAIN FieldChecks("phase5")
           = {"single_case_replay_stable", "batch_replay_stable",
              "reconstruction_semantics_stable", "comparison_semantics_stable",
              "replay_consistency_stable"}
      /\ DOMAIN CoverageChecks("phase5") = {"replay_matrix_covered"}
  BY Tables5 DEF Phase5Checks, Phase5Coverage
<1>8. Cardinality({"single_case_replay_stable", "batch_replay_stable",
                   "reconstruction_semantics_stable", "comparison_semantics_stable",
                   "replay_consistency_stable"} \union
          {"replay_matrix_covered", "no_blocking_core_field_drift",
           "cross_consistency_passed"}) = 8
  <2> DEFINE S == {"single_case_replay_stable", "batch_replay_stable",
                   "reconstruction_semantics_stable", "comparison_semantics_stable",
                   "replay_consistency_stable"}
  <2>1. IsFiniteSet(S) /\ Cardinality(S) = 5
    BY Five
  <2>2. /\ "replay_matrix_covered" \notin S
        /\ "no_blocking_core_field_drift" \notin S /\ "cross_consistency_passed" \notin S
    OBVIOUS
  <2> HIDE DEF S
  <2>3. Cardinality(S \union {"replay_matrix_covered", "no_blocking_core_field_drift",
                                "cross_consistency_passed"}) = 8
    BY <2>1, <2>2, Eight
  <2> QED
    BY <2>3 DEF S
<1>9. ((DOMAIN FieldChecks("phase5")) \union DOMAIN CoverageChecks("phase5"))
         \union {"no_blocking_core_field_drift", "cross_consistency_passed"}
        = {"single_case_replay_stable", "batch_replay_stable",
           "reconstruction_semantics_stable", "comparison_semantics_stable",
           "replay_consistency_stable"} \union
          {"replay_matrix_covered", "no_blocking_core_field_drift",
           "cross_consistency_passed"}
  BY <1>7
<1> QED
  BY <1>2, <1>3, <1>5, <1>6, <1>7, <1>8, <1>9 DEF TablesFit, FewestScenarios

LEMMA Tables6 ==
  /\ Baselines("phase6") = Phase6Baselines
  /\ FieldChecks("phase6") = Phase6Checks /\ CoverageChecks("phase6") = Phase6Coverage
  BY Zenon DEF Baselines, FieldChecks, CoverageChecks

LEMMA Fit6 == TablesFit("phase6")
<1>1. Scenarios("phase6") = Observabilities \union Drills
  BY Tables6 DEF Scenarios, Phase6Baselines, Observabilities, Drills, ++
<1>2. Cardinality(Observabilities) = 5 /\ IsFiniteSet(Observabilities)
  BY Five DEF Observabilities
<1>3. Cardinality(Drills) = 5 /\ IsFiniteSet(Drills)
  BY Five DEF Drills
<1>4. Observabilities \cap Drills = {}
  BY DEF Observabilities, Drills
<1>5. /\ Cardinality(Scenarios("phase6")) = 10
      /\ Scenarios("phase6") \cap Observabilities = Observabilities /\ Observabilities # {}
      /\ Scenarios("phase6") \cap Drills = Drills /\ Drills # {}
  BY <1>1, <1>2, <1>3, <1>4, TwoGroups
<1>6. Groups("phase6") = {<<"observability", Observabilities, 5>>, <<"fault_drill", Drills, 5>>}
  BY Tables6 DEF Groups, Phase6Coverage
<1>7. /\ DOMAIN FieldChecks("phase6")
           = {"trace_propagation_stable", "metrics_recording_stable",
              "benchmark_output_stable", "fault_drill_semantics_stable",
              "fault_drill_consistency_stable"}
      /\ DOMAIN CoverageChecks("phase6") = {"phase6_matrix_covered"}
  BY Tables6 DEF Phase6Checks, Phase6Coverage
<1>8. Cardinality({"trace_propagation_stable", "metrics_recording_stable",
                   "benchmark_output_stable", "fault_drill_semantics_stable",
                   "fault_drill_consistency_stable"} \union
          {"phase6_matrix_covered", "no_blocking_core_field_drift",
           "cross_consistency_passed"}) = 8
  <2> DEFINE S == {"trace_propagation_stable", "metrics_recording_stable",
                   "benchmark_output_stable", "fault_drill_semantics_stable",
                   "fault_drill_consistency_stable"}
  <2>1. IsFiniteSet(S) /\ Cardinality(S) = 5
    BY Five
  <2>2. /\ "phase6_matrix_covered" \notin S
        /\ "no_blocking_core_field_drift" \notin S /\ "cross_consistency_passed" \notin S
    OBVIOUS
  <2> HIDE DEF S
  <2>3. Cardinality(S \union {"phase6_matrix_covered", "no_blocking_core_field_drift",
                                "cross_consistency_passed"}) = 8
    BY <2>1, <2>2, Eight
  <2> QED
    BY <2>3 DEF S
<1>9. ((DOMAIN FieldChecks("phase6")) \union DOMAIN CoverageChecks("phase6"))
         \union {"no_blocking_core_field_drift", "cross_consistency_passed"}
        = {"trace_propagation_stable", "metrics_recording_stable",
           "benchmark_output_stable", "fault_drill_semantics_stable",
           "fault_drill_consistency_stable"} \union
          {"phase6_matrix_covered", "no_blocking_core_field_drift",
           "cross_consistency_passed"}
  BY <1>7
<1> QED
  BY <1>2, <1>3, <1>5, <1>6, <1>7, <1>8, <1>9 DEF TablesFit, FewestScenarios

LEMMA Tables7 ==
  /\ Baselines("phase7") = Phase7Baselines
  /\ FieldChecks("phase7") = Phase7Checks /\ CoverageChecks("phase7") = Phase7Coverage
  BY Zenon DEF Baselines, FieldChecks, CoverageChecks

LEMMA Fit7 == TablesFit("phase7")
<1>1. Scenarios("phase7") = Preflights \union Rollbacks
  BY Tables7 DEF Scenarios, Phase7Baselines, Preflights, Rollbacks, ++
<1>2. Cardinality(Preflights) = 5 /\ IsFiniteSet(Preflights)
  BY Five DEF Preflights
<1>3. Cardinality(Rollbacks) = 5 /\ IsFiniteSet(Rollbacks)
  BY Five DEF Rollbacks
<1>4. Preflights \cap Rollbacks = {}
  BY DEF Preflights, Rollbacks
<1>5. /\ Cardinality(Scenarios("phase7")) = 10
      /\ Scenarios("phase7") \cap Preflights = Preflights /\ Preflights # {}
      /\ Scenarios("phase7") \cap Rollbacks = Rollbacks /\ Rollbacks # {}
  BY <1>1, <1>2, <1>3, <1>4, TwoGroups
<1>6. Groups("phase7") = {<<"preflight_contract", Preflights, 5>>, <<"rollback_runbook", Rollbacks, 5>>}
  BY Tables7 DEF Groups, Phase7Coverage
<1>7. /\ DOMAIN FieldChecks("phase7")
           = {"config_preflight_stable", "contract_freeze_stable",
              "rollback_plan_ready", "runbook_ready",
              "release_guard_consistency_stable"}
      /\ DOMAIN CoverageChecks("phase7") = {"phase7_matrix_covered"}
  BY Tables7 DEF Phase7Checks, Phase7Coverage
<1>8. Cardinality({"config_preflight_stable", "contract_freeze_stable",
                   "rollback_plan_ready", "runbook_ready",
                   "release_guard_consistency_stable"} \union
          {"phase7_matrix_covered", "no_blocking_core_field_drift",
           "cross_consistency_passed"}) = 8
  <2> DEFINE S == {"config_preflight_stable", "contract_freeze_stable",
                   "rollback_plan_ready", "runbook_ready",
                   "release_guard_consistency_stable"}
  <2>1. IsFiniteSet(S) /\ Cardinality(S) = 5
    BY Five
  <2>2. /\ "phase7_matrix_covered" \notin S
        /\ "no_blocking_core_field_drift" \notin S /\ "cross_consistency_passed" \notin S
    OBVIOUS
  <2> HIDE DEF S
  <2>3. Cardinality(S \union {"phase7_matrix_covered", "no_blocking_core_field_drift",
                                "cross_consistency_passed"}) = 8
    BY <2>1, <2>2, Eight
  <2> QED
    BY <2>3 DEF S
<1>9. ((DOMAIN FieldChecks("phase7")) \union DOMAIN CoverageChecks("phase7"))
         \union {"no_blocking_core_field_drift", "cross_consistency_passed"}
        = {"config_preflight_stable", "contract_freeze_stable",
           "rollback_plan_ready", "runbook_ready",
           "release_guard_consistency_stable"} \union
          {"phase7_matrix_covered", "no_blocking_core_field_drift",
           "cross_consistency_passed"}
  BY <1>7
<1> QED
  BY <1>2, <1>3, <1>5, <1>6, <1>7, <1>8, <1>9 DEF TablesFit, FewestScenarios

LEMMA Fit == \A p \in Pipelines : TablesFit(p)
  BY Fit3, Fit4, Fit5, Fit6, Fit7 DEF Pipelines

-----------------------------------------------------------------------------
(***************************************************************************)
(* The gate of phases 3 to 7.                                              *)
(***************************************************************************)
Last == {"no_blocking_core_field_drift", "cross_consistency_passed"}

\* The input of the gate of a matrix with these labels, and what the gate makes of it.
InputOf(p, labels) == AcceptanceInput(p, DifferenceMatrix(p, labels))
GateOf(p, labels) == GateResult(p, InputOf(p, labels))

LEMMA InputFields ==
  ASSUME NEW p, NEW labels
  PROVE  /\ InputOf(p, labels).blocking = OfKind(p, labels, Blocking)
         /\ InputOf(p, labels).notices = OfKind(p, labels, Notice)
         /\ InputOf(p, labels).covered = Scenarios(p)
         /\ InputOf(p, labels).overall = MatrixStatus(p, labels)
  BY DEF InputOf, AcceptanceInput, DifferenceMatrix

\* The result of each check, by the table its name stands in.
LEMMA Results ==
  ASSUME NEW p \in Pipelines, NEW input
  PROVE  LET r == CheckResults(p, input) IN
         /\ DOMAIN r = ((DOMAIN FieldChecks(p)) \union DOMAIN CoverageChecks(p)) \union Last
         /\ \A c \in DOMAIN FieldChecks(p) : r[c] = FieldCheck(FieldChecks(p)[c], input)
         /\ \A c \in DOMAIN CoverageChecks(p) :
               r[c] = CoverageCheck(CoverageChecks(p)[c], input)
         /\ r["no_blocking_core_field_drift"] = NoBlockingDrift(input)
         /\ r["cross_consistency_passed"] = CrossConsistency(input)
<1> DEFINE F == [c \in DOMAIN FieldChecks(p) |-> FieldCheck(FieldChecks(p)[c], input)]
           C == [c \in DOMAIN CoverageChecks(p) |-> CoverageCheck(CoverageChecks(p)[c], input)]
           L == [no_blocking_core_field_drift |-> NoBlockingDrift(input),
                 cross_consistency_passed |-> CrossConsistency(input)]
<1>1. CheckResults(p, input) = F ++ C ++ L
  BY DEF CheckResults
<1>2. DOMAIN F = DOMAIN FieldChecks(p) /\ DOMAIN C = DOMAIN CoverageChecks(p) /\ DOMAIN L = Last
  BY DEF Last
<1>3. /\ L["no_blocking_core_field_drift"] = NoBlockingDrift(input)
      /\ L["cross_consistency_passed"] = CrossConsistency(input)
  OBVIOUS
<1>4. \A c \in DOMAIN FieldChecks(p) : F[c] = FieldCheck(FieldChecks(p)[c], input)
  OBVIOUS
<1>5. \A c \in DOMAIN CoverageChecks(p) : C[c] = CoverageCheck(CoverageChecks(p)[c], input)
  OBVIOUS
<1>6. /\ (DOMAIN FieldChecks(p)) \cap DOMAIN CoverageChecks(p) = {}
      /\ Last \cap ((DOMAIN FieldChecks(p)) \union DOMAIN CoverageChecks(p)) = {}
  BY Fit DEF TablesFit, Last
<1> HIDE DEF F, C, L
<1>7. /\ DOMAIN (F ++ C) = (DOMAIN F) \union DOMAIN C
      /\ \A c \in DOMAIN F : (F ++ C)[c] = F[c]
      /\ \A c \in DOMAIN C : c \notin DOMAIN F => (F ++ C)[c] = C[c]
  BY DEF ++
<1>8. /\ DOMAIN (F ++ C ++ L) = (DOMAIN (F ++ C)) \union DOMAIN L
      /\ \A c \in DOMAIN (F ++ C) : (F ++ C ++ L)[c] = (F ++ C)[c]
      /\ \A c \in DOMAIN L : c \notin DOMAIN (F ++ C) => (F ++ C ++ L)[c] = L[c]
  BY DEF ++
<1>9. "no_blocking_core_field_drift" \in Last /\ "cross_consistency_passed" \in Last
  BY DEF Last
<1> QED
  BY <1>1, <1>2, <1>3, <1>4, <1>5, <1>6, <1>7, <1>8, <1>9

\* A check of fields fails only over a blocking drift, and warns only over a notice.
LEMMA FieldChecksAreFair ==
  \A watch, input :
     /\ FieldCheck(watch, input) \in {"fail", "warning", "pass"}
     /\ FieldCheck(watch, input) = "fail" => input.blocking # {}
     /\ FieldCheck(watch, input) = "warning" => input.notices # {}
  BY DEF FieldCheck

\* The checks of coverage pass on every matrix: it covers all its scenarios.
LEMMA CoverageHolds ==
  ASSUME NEW p \in Pipelines, NEW labels, NEW c \in DOMAIN CoverageChecks(p)
  PROVE  CoverageCheck(CoverageChecks(p)[c], InputOf(p, labels)) = "pass"
<1>1. \A e \in CoverageChecks(p)[c] : e \in Groups(p)
  BY DEF Groups
<1>2. \A e \in Groups(p) : Cardinality(Scenarios(p) \cap e[2]) >= e[3]
  BY Fit DEF TablesFit
<1> QED
  BY <1>1, <1>2, InputFields DEF CoverageCheck

\* What a gate says of the labels it was run on.
GateFits(p, labels, g) ==
  /\ g.notices = OfKind(p, labels, Notice)
  /\ g.blocking # {} <=> OfKind(p, labels, Blocking) # {}
  /\ g.status = "fail" <=> OfKind(p, labels, Blocking) # {}
  /\ g.status = "pass_with_notice" <=>
       OfKind(p, labels, Blocking) = {} /\ OfKind(p, labels, Notice) # {}
  /\ OfKind(p, labels, Notice) # {} \/ g.warnings = {}
  /\ g.status = "pass_with_notice" => g.warnings # {}
  /\ Cardinality(DOMAIN g.results) = 8
  /\ \A c \in DOMAIN CoverageChecks(p) : c \in DOMAIN g.results /\ g.results[c] = "pass"

LEMMA GatesFit ==
  ASSUME NEW p \in Pipelines, NEW labels
  PROVE  GateFits(p, labels, GateOf(p, labels))
<1> DEFINE I == InputOf(p, labels)
           R == CheckResults(p, I)
           B == OfKind(p, labels, Blocking)
           N == OfKind(p, labels, Notice)
           g == GateOf(p, labels)
<1>1. I.blocking = B /\ I.notices = N /\ I.overall = MatrixStatus(p, labels)
  BY InputFields
<1>2. /\ DOMAIN R = ((DOMAIN FieldChecks(p)) \union DOMAIN CoverageChecks(p)) \union Last
      /\ \A c \in DOMAIN FieldChecks(p) : R[c] = FieldCheck(FieldChecks(p)[c], I)
      /\ \A c \in DOMAIN CoverageChecks(p) : R[c] = CoverageCheck(CoverageChecks(p)[c], I)
      /\ R["no_blocking_core_field_drift"] = NoBlockingDrift(I)
      /\ R["cross_consistency_passed"] = CrossConsistency(I)
  BY Results
<1>3. \A c \in DOMAIN CoverageChecks(p) : R[c] = "pass"
  BY <1>2, CoverageHolds
<1>4. NoBlockingDrift(I) = IF B # {} THEN "fail" ELSE IF N # {} THEN "warning" ELSE "pass"
  BY <1>1 DEF NoBlockingDrift
<1>5. CrossConsistency(I) = IF B # {} THEN "fail" ELSE IF N # {} THEN "warning" ELSE "pass"
  BY <1>1 DEF CrossConsistency, MatrixStatus
<1>6. /\ g.results = R /\ g.blocking = Those(R, "fail") /\ g.warnings = Those(R, "warning")
      /\ g.notices = I.notices
      /\ g.status = IF Those(R, "fail") # {} THEN "fail"
                    ELSE IF Those(R, "warning") # {} THEN "pass_with_notice" ELSE "pass"
  BY DEF GateOf, GateResult
<1>7. \A c \in DOMAIN FieldChecks(p) :
         /\ R[c] = "fail" => B # {}
         /\ R[c] = "warning" => N # {}
  BY <1>1, <1>2, FieldChecksAreFair
<1>8. Cardinality(DOMAIN R) = 8
  BY <1>2, Fit DEF TablesFit, Last
<1>9. /\ "no_blocking_core_field_drift" \in DOMAIN R
      /\ \A c \in DOMAIN R : \/ c \in DOMAIN FieldChecks(p) \/ c \in DOMAIN CoverageChecks(p)
                             \/ c = "no_blocking_core_field_drift"
                             \/ c = "cross_consistency_passed"
  BY <1>2 DEF Last
<1> HIDE DEF R, B, N, I, g
<1>10. Those(R, "fail") # {} <=> B # {}
  BY <1>2, <1>3, <1>4, <1>5, <1>7, <1>9 DEF Those
<1>11. /\ B = {} /\ N # {} => Those(R, "warning") # {}
       /\ Those(R, "warning") # {} => N # {}
  BY <1>2, <1>3, <1>4, <1>5, <1>7, <1>9 DEF Those
<1> QED
  BY <1>1, <1>2, <1>3, <1>6, <1>8, <1>10, <1>11 DEF GateFits, B, N, g

-----------------------------------------------------------------------------
(***************************************************************************)
(* The final acceptance and the decision of phases 3 to 7, on a matrix and *)
(* a gate that may be of different runs.                                   *)
(***************************************************************************)
\* The item of a group repeats the gate: it passes.
LEMMA CoverageItemPasses ==
  ASSUME NEW p, NEW labels, NEW g, GateFits(p, labels, g), NEW group \in Groups(p)
  PROVE  CoverageItem(p, group, g) = "pass"
<1> DEFINE checks == {c \in (DOMAIN CoverageChecks(p)) \cap DOMAIN g.results :
                        group \in CoverageChecks(p)[c]}
<1>1. PICK c \in DOMAIN CoverageChecks(p) : group \in CoverageChecks(p)[c]
  BY DEF Groups
<1>2. c \in checks
  BY <1>1 DEF GateFits
<1>3. (CHOOSE k \in checks : TRUE) \in checks
  BY <1>2
<1>4. \A k \in checks : g.results[k] = "pass"
  BY DEF GateFits
<1>5. CoverageItem(p, group, g) = g.results[CHOOSE k \in checks : TRUE]
  BY <1>2 DEF CoverageItem
<1> HIDE DEF checks
<1> QED
  BY <1>3, <1>4, <1>5

\* Of the items of the checklist only the blocking issues can fail, and none warns.
LEMMA ChecklistFits ==
  ASSUME NEW p \in Pipelines, NEW labels, NEW seen, NEW g, GateFits(p, seen, g)
  PROVE  LET items == PreCloseChecklist(p, DifferenceMatrix(p, labels), InputOf(p, labels), g)
         IN  /\ Those(items, "warning") = {}
             /\ Those(items, "fail") # {} <=>
                  OfKind(p, labels, Blocking) # {} \/ OfKind(p, seen, Blocking) # {}
<1> DEFINE I == InputOf(p, labels)
           m == DifferenceMatrix(p, labels)
           names == {group[1] : group \in Groups(p)}
           own == [difference_matrix_completed |->
                     Verdict(Cardinality(m.covered) >= FewestScenarios(p)),
                   acceptance_input_built |->
                     Verdict(\A group \in Groups(p) : I.covered \cap group[2] # {}),
                   acceptance_gate_evaluated |->
                     Verdict(Cardinality(DOMAIN g.results) >= FewestChecks),
                   blocking_issues_resolved_or_acknowledged |->
                     Verdict(g.blocking = {} /\ I.blocking = {})]
           covered == [name \in names |->
                         CoverageItem(p, CHOOSE group \in Groups(p) : group[1] = name, g)]
           items == PreCloseChecklist(p, m, I, g)
           clear == g.blocking = {} /\ I.blocking = {}
<1>1. items = own ++ covered
  BY DEF PreCloseChecklist
<1>2. /\ m.covered = Scenarios(p) /\ I.covered = Scenarios(p)
      /\ I.blocking = OfKind(p, labels, Blocking)
  BY InputFields DEF DifferenceMatrix
<1>3. Verdict(Cardinality(m.covered) >= FewestScenarios(p)) = "pass"
  <2>1. Cardinality(Scenarios(p)) >= FewestScenarios(p)
    BY Fit DEF TablesFit
  <2> QED
    BY <1>2, <2>1 DEF Verdict
<1>4. Verdict(\A group \in Groups(p) : I.covered \cap group[2] # {}) = "pass"
  <2>1. \A group \in Groups(p) : Scenarios(p) \cap group[2] # {}
    BY Fit DEF TablesFit
  <2> QED
    BY <1>2, <2>1 DEF Verdict
<1>5. Verdict(Cardinality(DOMAIN g.results) >= FewestChecks) = "pass"
  <2>1. Cardinality(DOMAIN g.results) = 8
    BY DEF GateFits
  <2> QED
    BY <2>1 DEF Verdict, FewestChecks
<1>6. /\ DOMAIN own = {"difference_matrix_completed", "acceptance_input_built",
                       "acceptance_gate_evaluated",
                       "blocking_issues_resolved_or_acknowledged"}
      /\ own["difference_matrix_completed"] = "pass" /\ own["acceptance_input_built"] = "pass"
      /\ own["acceptance_gate_evaluated"] = "pass"
      /\ own["blocking_issues_resolved_or_acknowledged"] = Verdict(clear)
  BY <1>3, <1>4, <1>5
<1>7. \A name \in names : covered[name] = "pass"
  <2> SUFFICES ASSUME NEW name \in names PROVE covered[name] = "pass"
    OBVIOUS
  <2> DEFINE group == CHOOSE group \in Groups(p) : group[1] = name
  <2>1. group \in Groups(p)
    OBVIOUS
  <2>2. CoverageItem(p, group, g) = "pass"
    <3> HIDE DEF group
    <3> QED
      BY <2>1, CoverageItemPasses
  <2> QED
    BY <2>2
<1>8. DOMAIN covered = names
  OBVIOUS
<1>9. Verdict(clear) = IF clear THEN "pass" ELSE "fail"
  BY DEF Verdict
<1> HIDE DEF own, covered, items, clear, names
<1>10. /\ DOMAIN items = (DOMAIN own) \union DOMAIN covered
       /\ \A c \in DOMAIN own : items[c] = own[c]
       /\ \A c \in DOMAIN covered : c \notin DOMAIN own => items[c] = covered[c]
  BY <1>1 DEF ++
<1>11. /\ items["blocking_issues_resolved_or_acknowledged"] = Verdict(clear)
       /\ "blocking_issues_resolved_or_acknowledged" \in DOMAIN items
       /\ \A c \in DOMAIN items : c # "blocking_issues_resolved_or_acknowledged"
                                    => items[c] = "pass"
  BY <1>6, <1>7, <1>8, <1>10
<1>12. Those(items, "warning") = {} /\ (Those(items, "fail") # {} <=> ~clear)
  BY <1>9, <1>11 DEF Those
<1> QED
  BY <1>2, <1>12 DEF GateFits, clear, items

\* What a final acceptance says of the labels of its matrix and of those its gate saw.
AcceptanceFits(p, labels, seen, a) ==
  LET bad == OfKind(p, labels, Blocking) # {} \/ OfKind(p, seen, Blocking) # {} IN
  /\ a.matrix = MatrixStatus(p, labels) /\ a.notices = OfKind(p, seen, Notice)
  /\ a.gate = "fail" => bad
  /\ a.blocking # {} <=> bad
  /\ a.status = "not_ready" <=> bad
  /\ Those(a.checklist, "fail") # {} <=> bad
  /\ a.gate = "pass_with_notice" \/ a.status = "ready_with_notices" => a.warnings # {}
  /\ OfKind(p, seen, Notice) # {} \/ a.warnings = {}
  /\ AcceptanceConsistent(a)

LEMMA AcceptancesFit ==
  ASSUME NEW p \in Pipelines, NEW labels, NEW seen, NEW g, GateFits(p, seen, g)
  PROVE  AcceptanceFits(p, labels, seen,
           FinalAcceptance(p, DifferenceMatrix(p, labels), InputOf(p, labels), g))
<1> DEFINE m == DifferenceMatrix(p, labels)
           items == PreCloseChecklist(p, m, InputOf(p, labels), g)
           a == FinalAcceptance(p, m, InputOf(p, labels), g)
           bad == OfKind(p, labels, Blocking) # {} \/ OfKind(p, seen, Blocking) # {}
<1>1. Those(items, "warning") = {} /\ (Those(items, "fail") # {} <=> bad)
  BY ChecklistFits
<1>2. /\ a.matrix = m.status /\ a.gate = g.status /\ a.checklist = items
      /\ a.status = FinalAcceptanceStatus(g, items)
      /\ a.blocking = g.blocking \union Those(items, "fail")
      /\ a.warnings = g.warnings \union Those(items, "warning")
      /\ a.notices = g.notices
  BY DEF FinalAcceptance
<1>3. m.status = MatrixStatus(p, labels)
  BY DEF DifferenceMatrix
<1>4. /\ g.notices = OfKind(p, seen, Notice)
      /\ g.blocking # {} <=> OfKind(p, seen, Blocking) # {}
      /\ g.status = "fail" <=> OfKind(p, seen, Blocking) # {}
      /\ OfKind(p, seen, Notice) # {} \/ g.warnings = {}
      /\ g.status = "pass_with_notice" => g.warnings # {}
  BY DEF GateFits
<1> HIDE DEF items, m, a, bad
<1>5. a.status = IF bad THEN "not_ready"
                 ELSE IF g.status = "pass_with_notice" THEN "ready_with_notices" ELSE "ready"
  BY <1>1, <1>2, <1>4 DEF FinalAcceptanceStatus, bad
<1>6. a.blocking # {} <=> bad
  BY <1>1, <1>2, <1>4 DEF bad
<1>7. a.warnings = g.warnings
  BY <1>1, <1>2
<1>8. a.gate = "fail" => bad
  BY <1>2, <1>4 DEF bad
<1>9. AcceptanceConsistent(a)
  BY <1>1, <1>2, <1>5, <1>6, <1>8 DEF AcceptanceConsistent
<1> QED
  BY <1>1, <1>2, <1>3, <1>4, <1>5, <1>6, <1>7, <1>8, <1>9 DEF AcceptanceFits, a, m, bad

\* The decision on an acceptance: not closed exactly over a blocking drift or a
\* missing artifact, and a notice of the gate's matrix keeps it from being closed
\* without notices.
LEMMA DecisionsFit ==
  ASSUME NEW p, NEW labels, NEW seen, NEW a, AcceptanceFits(p, labels, seen, a), NEW missing
  PROVE  LET d == CloseDecision(a, missing) IN
         /\ d.status = "not_closed" <=>
              \/ OfKind(p, labels, Blocking) # {} \/ OfKind(p, seen, Blocking) # {}
              \/ d.missing
         /\ d.missing \in BOOLEAN
         /\ DecisionConsistent(d)
         /\ d.notices = OfKind(p, seen, Notice)
         /\ d.status = "closed" => OfKind(p, seen, Notice) = {}
         /\ d.status # "closed" =>
              \/ OfKind(p, labels, Blocking) # {} \/ OfKind(p, seen, Blocking) # {}
              \/ OfKind(p, seen, Notice) # {} \/ d.missing
<1> DEFINE d == CloseDecision(a, missing)
           bad == OfKind(p, labels, Blocking) # {} \/ OfKind(p, seen, Blocking) # {}
           N == OfKind(p, seen, Notice)
<1>1. /\ d.status = CloseStatus(a, missing) /\ d.matrix = a.matrix /\ d.blocking = a.blocking
      /\ d.warnings = a.warnings /\ d.notices = a.notices /\ d.missing = (missing # {})
      /\ d.readyForNextPhase = (d.status # "not_closed")
  BY DEF CloseDecision
<1>2. /\ a.matrix = "failed" => bad
      /\ a.gate = "fail" => bad
      /\ a.blocking # {} <=> bad
      /\ a.status = "not_ready" <=> bad
      /\ Those(a.checklist, "fail") # {} <=> bad
      /\ AcceptanceConsistent(a)
  BY DEF AcceptanceFits, MatrixStatus
<1>3. /\ a.gate = "pass_with_notice" \/ a.status = "ready_with_notices" => a.warnings # {}
      /\ N # {} \/ a.warnings = {}
      /\ a.notices = N
  BY DEF AcceptanceFits
<1> HIDE DEF d, bad, N
<1>4. CloseStatus(a, missing) = IF bad \/ missing # {} THEN "not_closed"
                                ELSE IF N # {} THEN "closed_with_notices" ELSE "closed"
  BY <1>2, <1>3 DEF CloseStatus
<1>5. DecisionConsistent(d)
  BY <1>1, <1>2, <1>3, <1>4 DEF DecisionConsistent
<1> QED
  BY <1>1, <1>3, <1>4, <1>5 DEF d, bad, N

-----------------------------------------------------------------------------
(***************************************************************************)
(* Phase 2: the whole acceptance of one set of reports.                    *)
(***************************************************************************)
\* A report on each of the fifteen cases, about core fields.
ReportsFit(reports) ==
  /\ DOMAIN reports = Cases
  /\ \A c \in Cases : reports[c].drift \subseteq CoreFields /\ reports[c].semantic \in BOOLEAN

LEMMA ReportsAreAboutCoreFields ==
  ASSUME NEW signals, NEW reworded
  PROVE  ReportsFit(Phase2Reports(signals, reworded))
<1>1. BlockingFields \subseteq CoreFields
  BY DEF BlockingFields
<1>2. ASSUME NEW s, NEW wording, NEW expected
      PROVE  /\ ScenarioReport(s, wording, expected).drift \subseteq CoreFields
             /\ ScenarioReport(s, wording, expected).semantic \in BOOLEAN
  BY <1>1 DEF ScenarioReport, CoreFields
<1>3. ASSUME NEW c, NEW s
      PROVE  /\ CombinationReport(c, s).drift \subseteq CoreFields
             /\ CombinationReport(c, s).semantic \in BOOLEAN
  BY DEF CombinationReport, CoreFields
<1> QED
  BY <1>2, <1>3 DEF ReportsFit, Phase2Reports

LEMMA CaseCounts ==
  /\ Cardinality(DOMAIN ScenarioSignals) = 12 /\ DOMAIN ScenarioSignals # {}
  /\ Cardinality(DOMAIN CombinationSignals) = 3 /\ DOMAIN CombinationSignals # {}
<1> DEFINE five == {"M01", "M02", "M03", "M04", "M05"}
           eight == five \union {"M06", "M07", "M08"}
<1>1. IsFiniteSet(five) /\ Cardinality(five) = 5
  BY Five
<1>2. "M06" \notin five /\ "M07" \notin five /\ "M08" \notin five
  OBVIOUS
<1>3. "M09" \notin eight /\ "M10" \notin eight /\ "M11" \notin eight /\ "M12" \notin eight
  OBVIOUS
<1>4. DOMAIN ScenarioSignals = (((eight \union {"M09"}) \union {"M10"}) \union {"M11"})
                                 \union {"M12"}
  <2>1. DOMAIN ScenarioSignals = {"M01", "M02", "M03", "M04", "M05", "M06", "M07", "M08",
                                  "M09", "M10", "M11", "M12"}
    BY Zenon DEF ScenarioSignals
  <2> QED
    BY <2>1
<1>5. DOMAIN CombinationSignals = (({} \union {"FC01"}) \union {"FC02"}) \union {"FC03"}
  <2>1. DOMAIN CombinationSignals = {"FC01", "FC02", "FC03"}
    BY Zenon DEF CombinationSignals
  <2> QED
    BY <2>1
<1> HIDE DEF five
<1>6. IsFiniteSet(eight) /\ Cardinality(eight) = 8
  <2>1. IsFiniteSet(five \union {"M06"}) /\ Cardinality(five \union {"M06"}) = 6
    BY <1>1, <1>2, FS_AddElement
  <2>2. /\ IsFiniteSet((five \union {"M06"}) \union {"M07"})
        /\ Cardinality((five \union {"M06"}) \union {"M07"}) = 7
    BY <1>2, <2>1, FS_AddElement
  <2>3. /\ IsFiniteSet(((five \union {"M06"}) \union {"M07"}) \union {"M08"})
        /\ Cardinality(((five \union {"M06"}) \union {"M07"}) \union {"M08"}) = 8
    BY <1>2, <2>2, FS_AddElement
  <2>4. ((five \union {"M06"}) \union {"M07"}) \union {"M08"} = eight
    OBVIOUS
  <2> QED
    BY <2>3, <2>4
<1> HIDE DEF eight
<1>7. IsFiniteSet(eight \union {"M09"}) /\ Cardinality(eight \union {"M09"}) = 9
  BY <1>3, <1>6, FS_AddElement
<1>8. /\ IsFiniteSet((eight \union {"M09"}) \union {"M10"})
      /\ Cardinality((eight \union {"M09"}) \union {"M10"}) = 10
  BY <1>3, <1>7, FS_AddElement
<1>9. /\ IsFiniteSet(((eight \union {"M09"}) \union {"M10"}) \union {"M11"})
      /\ Cardinality(((eight \union {"M09"}) \union {"M10"}) \union {"M11"}) = 11
  BY <1>3, <1>8, FS_AddElement
<1>10. Cardinality(DOMAIN ScenarioSignals) = 12
  BY <1>3, <1>4, <1>9, FS_AddElement
<1>11. IsFiniteSet({}) /\ Cardinality({}) = 0
  BY FS_EmptySet
<1>12. IsFiniteSet({} \union {"FC01"}) /\ Cardinality({} \union {"FC01"}) = 1
  BY <1>11, FS_AddElement
<1>13. /\ IsFiniteSet(({} \union {"FC01"}) \union {"FC02"})
       /\ Cardinality(({} \union {"FC01"}) \union {"FC02"}) = 2
  BY <1>12, FS_AddElement
<1>14. Cardinality(DOMAIN CombinationSignals) = 3
  BY <1>5, <1>13, FS_AddElement
<1> QED
  BY <1>4, <1>5, <1>10, <1>14

\* The drift of a kind in a set of reports.
DriftOf(reports, kind) ==
  {d \in Cases \X CoreFields :
     d[2] \in reports[d[1]].drift /\ (d[2] \in BlockingFields <=> kind = Blocking)}

Mismatches(reports) == {c \in Cases : ~reports[c].semantic}

LEMMA Input2 ==
  ASSUME NEW reports, ReportsFit(reports)
  PROVE  LET input == Phase2Input(Phase2Matrix(reports)) IN
         /\ input.blocking = DriftOf(reports, Blocking)
         /\ input.notices = DriftOf(reports, Notice)
         /\ input.mismatches = Mismatches(reports)
         /\ input.scenarios = DOMAIN ScenarioSignals
         /\ input.combinations = DOMAIN CombinationSignals
<1>1. Phase2Matrix(reports).reports = reports
  BY DEF Phase2Matrix
<1>2. DOMAIN reports = (DOMAIN ScenarioSignals) \union DOMAIN CombinationSignals
  BY DEF ReportsFit, Cases
<1>3. Blocking # Notice
  BY DEF Blocking, Notice
<1> QED
  BY <1>1, <1>2, <1>3 DEF Phase2Input, DriftOf, Mismatches

\* The status of the matrix, by the drift it shows.
LEMMA Matrix2 ==
  ASSUME NEW reports, ReportsFit(reports)
  PROVE  LET status == Phase2Matrix(reports).status IN
         /\ status \in {"failed", "passed_with_notice", "passed"}
         /\ status = "failed" <=>
              DriftOf(reports, Blocking) # {} \/ Mismatches(reports) # {}
         /\ status = "passed_with_notice" => DriftOf(reports, Notice) # {}
         /\ status = "passed" => DriftOf(reports, Notice) = {}
<1> DEFINE status == Phase2Matrix(reports).status
<1>1. status = IF \E c \in Cases : IsBlocking(reports[c]) THEN "failed"
               ELSE IF \E c \in Cases : IsNotice(reports[c]) THEN "passed_with_notice"
               ELSE "passed"
  BY DEF Phase2Matrix
<1>2. \A c \in Cases : \A f : f \in reports[c].drift => f \in CoreFields
  BY DEF ReportsFit
<1>3. (\E c \in Cases : IsBlocking(reports[c]))
        <=> DriftOf(reports, Blocking) # {} \/ Mismatches(reports) # {}
  <2>1. ASSUME NEW c \in Cases, NEW f \in reports[c].drift, f \in BlockingFields
        PROVE  <<c, f>> \in DriftOf(reports, Blocking)
    BY <1>2, <2>1 DEF DriftOf
  <2>2. ASSUME NEW d \in DriftOf(reports, Blocking)
        PROVE  d[1] \in Cases /\ d[2] \in reports[d[1]].drift /\ d[2] \in BlockingFields
    BY DEF DriftOf
  <2> QED
    BY <2>1, <2>2 DEF IsBlocking, Mismatches
<1>4. (\E c \in Cases : IsNotice(reports[c])) => DriftOf(reports, Notice) # {}
  <2>1. ASSUME NEW c \in Cases, NEW f \in reports[c].drift, f \notin BlockingFields
        PROVE  <<c, f>> \in DriftOf(reports, Notice)
    BY <1>2, <2>1 DEF DriftOf, Blocking, Notice
  <2> QED
    BY <2>1 DEF IsNotice, IsBlocking
<1>5. (\A c \in Cases : ~IsBlocking(reports[c]) /\ ~IsNotice(reports[c]))
        => DriftOf(reports, Notice) = {}
  BY DEF DriftOf, IsNotice
<1> HIDE DEF status
<1> QED
  BY <1>1, <1>3, <1>4, <1>5 DEF status

\* What the gate of phase 2 says of the reports.
GateFits2(reports, g) ==
  LET bad == \/ DriftOf(reports, Blocking) # {} \/ Mismatches(reports) # {}
             \/ Cardinality(DriftOf(reports, Notice)) >= EscalationThreshold IN
  /\ Cardinality(DOMAIN g.checks) = 8
  /\ g.status \in {"pass", "pass_with_notice", "fail"}
  /\ g.status = "fail" <=> bad
  /\ g.blocking # {} <=> bad
  /\ g.status = "pass" => DriftOf(reports, Notice) = {}
  /\ g.status = "pass_with_notice" => g.notices # {}
  /\ DriftOf(reports, Notice) # {} /\ DriftOf(reports, Blocking) = {} => g.notices # {}
  /\ DriftOf(reports, Blocking) # {} \/ Mismatches(reports) # {}
       => \E c \in DOMAIN g.checks : g.checks[c] = "fail"

LEMMA Gates2Fit ==
  ASSUME NEW reports, ReportsFit(reports)
  PROVE  GateFits2(reports, Phase2Gate(Phase2Input(Phase2Matrix(reports))))
<1> DEFINE I == Phase2Input(Phase2Matrix(reports))
           B == DriftOf(reports, Blocking)
           N == DriftOf(reports, Notice)
           M == Mismatches(reports)
           C == Phase2Checks(I)
           g == Phase2Gate(I)
           Bad(status) == {c \in DOMAIN C : C[c] = status}
           escalated == /\ Bad("fail") = {} /\ Bad("warning") # {}
                        /\ Cardinality(I.notices) >= EscalationThreshold
<1>1. /\ I.blocking = B /\ I.notices = N /\ I.mismatches = M
      /\ I.scenarios = DOMAIN ScenarioSignals /\ I.combinations = DOMAIN CombinationSignals
  BY Input2
<1>2. /\ FailsIf(Cardinality(I.scenarios) < 12) = "pass"
      /\ FailsIf(Cardinality(I.combinations) < 3) = "pass"
  BY <1>1, CaseCounts DEF FailsIf
<1>3. /\ DOMAIN C = {"baseline_core_fields_stable", "failure_semantics_frozen",
                     "scenario_matrix_covered", "failure_combination_matrix_covered",
                     "cross_command_consistency_passed"} \union
                    {"cross_session_consistency_passed", "no_blocking_core_field_drift",
                     "no_blocking_failure_semantic_mismatch"}
      /\ C["baseline_core_fields_stable"]
           = IF I.blocking # {} THEN "fail" ELSE IF I.notices # {} THEN "warning" ELSE "pass"
      /\ C["failure_semantics_frozen"] = FailsIf(I.mismatches # {})
      /\ C["scenario_matrix_covered"] = FailsIf(Cardinality(I.scenarios) < 12)
      /\ C["failure_combination_matrix_covered"] = FailsIf(Cardinality(I.combinations) < 3)
      /\ C["cross_command_consistency_passed"]
           = FailsIf(\E d \in I.blocking :
                       d[2] \in {"requiresAttention", "requiresRepairAction",
                                 "requiresManualReview"})
      /\ C["cross_session_consistency_passed"]
           = FailsIf(\E d \in I.blocking : d[2] \in {"isCrossSessionConsistent"})
      /\ C["no_blocking_core_field_drift"] = FailsIf(I.blocking # {})
      /\ C["no_blocking_failure_semantic_mismatch"] = FailsIf(I.mismatches # {})
  BY DEF Phase2Checks
<1>4. Cardinality(DOMAIN C) = 8
  <2> DEFINE S == {"baseline_core_fields_stable", "failure_semantics_frozen",
                   "scenario_matrix_covered", "failure_combination_matrix_covered",
                   "cross_command_consistency_passed"}
  <2>1. IsFiniteSet(S) /\ Cardinality(S) = 5
    BY Five
  <2>2. /\ "cross_session_consistency_passed" \notin S
        /\ "no_blocking_core_field_drift" \notin S
        /\ "no_blocking_failure_semantic_mismatch" \notin S
    OBVIOUS
  <2>3. DOMAIN C = S \union {"cross_session_consistency_passed", "no_blocking_core_field_drift",
                             "no_blocking_failure_semantic_mismatch"}
    BY <1>3
  <2> HIDE DEF S, C
  <2>4. Cardinality(S \union {"cross_session_consistency_passed",
                              "no_blocking_core_field_drift",
                              "no_blocking_failure_semantic_mismatch"}) = 8
    BY <2>1, <2>2, Eight
  <2> QED
    BY <2>3, <2>4
<1>5. /\ g.checks = C
      /\ g.status = IF Bad("fail") # {} \/ escalated THEN "fail"
                    ELSE IF Bad("warning") # {} THEN "pass_with_notice" ELSE "pass"
      /\ g.blocking = Bad("fail") \union (IF escalated THEN {"notice_escalation"} ELSE {})
      /\ g.notices = Bad("warning")
  BY DEF Phase2Gate
<1> HIDE DEF I, C, g
<1>6. \A x : FailsIf(x) \in {"fail", "pass"} /\ (FailsIf(x) = "fail" => x) /\ (x => FailsIf(x) = "fail")
  BY DEF FailsIf
<1>7. Bad("fail") # {} <=> B # {} \/ M # {}
  <2>1. B # {} => C["no_blocking_core_field_drift"] = "fail"
    BY <1>1, <1>3, <1>6
  <2>2. M # {} => C["failure_semantics_frozen"] = "fail"
    BY <1>1, <1>3, <1>6
  <2>3. ASSUME B = {}, M = {} PROVE \A c \in DOMAIN C : C[c] # "fail"
    BY <1>1, <1>2, <1>3, <1>6, <2>3
  <2> QED
    BY <1>3, <2>1, <2>2, <2>3
<1>8. Bad("warning") # {} <=> B = {} /\ N # {}
  <2>1. \A c \in DOMAIN C : c # "baseline_core_fields_stable" => C[c] # "warning"
    BY <1>2, <1>3, <1>6
  <2>2. C["baseline_core_fields_stable"] = "warning" <=> B = {} /\ N # {}
    BY <1>1, <1>3
  <2>3. "baseline_core_fields_stable" \in DOMAIN C
    BY <1>3
  <2> QED
    BY <2>1, <2>2, <2>3
<1>9. Cardinality(N) >= EscalationThreshold => N # {}
  BY FS_EmptySet DEF EscalationThreshold
<1> DEFINE many == Cardinality(N) >= EscalationThreshold
<1>10. escalated <=> B = {} /\ M = {} /\ N # {} /\ many
  BY <1>1, <1>7, <1>8
<1> HIDE DEF B, N, M, many, escalated
<1>11. /\ Bad("fail") # {} \/ escalated <=> B # {} \/ M # {} \/ many
       /\ g.blocking # {} <=> B # {} \/ M # {} \/ many
  BY <1>5, <1>7, <1>9, <1>10 DEF many
<1>12. B # {} \/ M # {} => \E c \in DOMAIN g.checks : g.checks[c] = "fail"
  BY <1>5, <1>7
<1>13. GateFits2(reports, g) <=>
         /\ Cardinality(DOMAIN g.checks) = 8
         /\ g.status \in {"pass", "pass_with_notice", "fail"}
         /\ g.status = "fail" <=> (B # {} \/ M # {} \/ many)
         /\ g.blocking # {} <=> (B # {} \/ M # {} \/ many)
         /\ g.status = "pass" => N = {}
         /\ g.status = "pass_with_notice" => g.notices # {}
         /\ N # {} /\ B = {} => g.notices # {}
         /\ B # {} \/ M # {} => \E c \in DOMAIN g.checks : g.checks[c] = "fail"
  BY DEF GateFits2, B, N, M, many
<1>14. GateFits2(reports, g)
  <2> HIDE DEF Bad
  <2> QED
    BY <1>4, <1>5, <1>8, <1>11, <1>12, <1>13
<1> QED
  BY <1>14 DEF g, I

\* The pipeline of a set of reports, and what is accepted and decided on it.
PipelineOf(reports) ==
  LET matrix2 == Phase2Matrix(reports)
      gate2 == Phase2Gate(Phase2Input(matrix2)) IN
  [matrix |-> matrix2, input |-> Phase2Input(matrix2), gate |-> gate2,
   status |-> PipelineStatus(gate2)]

LEMMA PipelineFields ==
  ASSUME NEW reports
  PROVE  LET p == PipelineOf(reports)
             g == Phase2Gate(Phase2Input(Phase2Matrix(reports))) IN
         /\ p.matrix = Phase2Matrix(reports) /\ p.input = Phase2Input(Phase2Matrix(reports))
         /\ p.gate = g /\ p.status = PipelineStatus(g)
  BY DEF PipelineOf

LEMMA StatusOfPipeline ==
  ASSUME NEW g, g.status \in {"pass", "pass_with_notice", "fail"}
  PROVE  /\ PipelineStatus(g) \in {"ready", "ready_with_notices", "not_ready"}
         /\ PipelineStatus(g) = "ready" <=> g.status = "pass"
         /\ PipelineStatus(g) = "ready_with_notices" <=> g.status = "pass_with_notice"
         /\ PipelineStatus(g) = "not_ready" <=> g.status = "fail"
<1>1. g.status = "pass" => PipelineStatus(g) = "ready"
  BY DEF PipelineStatus
<1>2. g.status = "pass_with_notice" => PipelineStatus(g) = "ready_with_notices"
  BY DEF PipelineStatus
<1>3. g.status = "fail" => PipelineStatus(g) = "not_ready"
  BY DEF PipelineStatus
<1> QED
  BY <1>1, <1>2, <1>3

LEMMA Acceptances2Fit ==
  ASSUME NEW reports, ReportsFit(reports), NEW round1 \in BOOLEAN, NEW round2 \in BOOLEAN,
         NEW runId
  PROVE  LET a == Phase2Acceptance(PipelineOf(reports), round1, round2, runId)
             bad == \/ DriftOf(reports, Blocking) # {} \/ Mismatches(reports) # {}
                    \/ Cardinality(DriftOf(reports, Notice)) >= EscalationThreshold IN
         /\ a.pipeline = PipelineOf(reports) /\ a.runId = runId
         /\ a.checklist.highRiskBoundaryCoveredRound1 = round1
         /\ a.checklist.highRiskBoundaryCoveredRound2 = round2
         /\ AllPassed(a.checklist) <=> round1 /\ round2 /\ ~bad
         /\ a.status = IF bad \/ ~round1 \/ ~round2 THEN "not_ready_to_close"
                       ELSE IF a.pipeline.gate.status = "pass_with_notice"
                       THEN "ready_with_notices" ELSE "ready_to_close"
<1> DEFINE p == PipelineOf(reports)
           g == p.gate
           a == Phase2Acceptance(p, round1, round2, runId)
           items == Phase2Checklist(p, round1, round2)
           bad == \/ DriftOf(reports, Blocking) # {} \/ Mismatches(reports) # {}
                  \/ Cardinality(DriftOf(reports, Notice)) >= EscalationThreshold
<1>1. /\ p.status = PipelineStatus(g) /\ GateFits2(reports, g)
      /\ p.input.scenarios = DOMAIN ScenarioSignals
      /\ p.input.combinations = DOMAIN CombinationSignals
  BY PipelineFields, Gates2Fit, Input2
<1>2. /\ Cardinality(DOMAIN g.checks) = 8 /\ g.status \in {"pass", "pass_with_notice", "fail"}
      /\ g.status = "fail" <=> bad
      /\ g.blocking # {} <=> bad
  BY <1>1 DEF GateFits2
<1>3. /\ p.status = "not_ready" <=> bad
      /\ p.status = "ready_with_notices" <=> g.status = "pass_with_notice"
  BY <1>1, <1>2, StatusOfPipeline
<1>4. /\ a.pipeline = p /\ a.runId = runId /\ a.checklist = items
      /\ a.status = IF p.status = "not_ready" \/ ~AllPassed(items) THEN "not_ready_to_close"
                    ELSE IF p.status = "ready_with_notices" THEN "ready_with_notices"
                    ELSE "ready_to_close"
  BY DEF Phase2Acceptance
<1>5. /\ DOMAIN items = {"matrixCompleted", "acceptanceInputBuilt", "gateEvaluated",
                         "highRiskBoundaryCoveredRound1", "highRiskBoundaryCoveredRound2",
                         "blockingIssuesResolvedOrAcknowledged"}
      /\ items["matrixCompleted"] = (/\ Cardinality(p.input.scenarios) >= 12
                                     /\ Cardinality(p.input.combinations) >= 3)
      /\ items["acceptanceInputBuilt"] = (p.input.scenarios # {})
      /\ items["gateEvaluated"] = (Cardinality(DOMAIN g.checks) >= 8)
      /\ items["highRiskBoundaryCoveredRound1"] = round1
      /\ items["highRiskBoundaryCoveredRound2"] = round2
      /\ items["blockingIssuesResolvedOrAcknowledged"] = (g.blocking = {})
  BY DEF Phase2Checklist
<1> HIDE DEF p, g, a, items, bad
<1>6. AllPassed(items) <=> round1 /\ round2 /\ ~bad
  <2>1. Cardinality(p.input.scenarios) >= 12 /\ Cardinality(p.input.combinations) >= 3
    BY <1>1, CaseCounts
  <2>2. p.input.scenarios # {}
    BY <1>1, CaseCounts
  <2>3. items["matrixCompleted"] /\ items["acceptanceInputBuilt"] /\ items["gateEvaluated"]
    <3>1. Cardinality(DOMAIN g.checks) >= 8
      BY <1>2
    <3> QED
      BY <1>5, <2>1, <2>2, <3>1, Zenon
  <2>4. items["blockingIssuesResolvedOrAcknowledged"] <=> ~bad
    BY <1>2, <1>5
  <2>5. (items["highRiskBoundaryCoveredRound1"] <=> round1)
          /\ (items["highRiskBoundaryCoveredRound2"] <=> round2)
    BY <1>5
  <2>6. \A i \in DOMAIN items :
           i \in {"matrixCompleted", "acceptanceInputBuilt", "gateEvaluated",
                 "highRiskBoundaryCoveredRound1", "highRiskBoundaryCoveredRound2",
                 "blockingIssuesResolvedOrAcknowledged"}
    BY <1>5
  <2>7. AllPassed(items) => items["highRiskBoundaryCoveredRound1"]
          /\ items["highRiskBoundaryCoveredRound2"]
          /\ items["blockingIssuesResolvedOrAcknowledged"]
    BY <1>5 DEF AllPassed
  <2>8. items["highRiskBoundaryCoveredRound1"] /\ items["highRiskBoundaryCoveredRound2"]
          /\ items["blockingIssuesResolvedOrAcknowledged"] => AllPassed(items)
    BY <2>3, <2>6 DEF AllPassed
  <2> QED
    BY <2>4, <2>5, <2>7, <2>8
<1> QED
  BY <1>3, <1>4, <1>5, <1>6 DEF p, g, a, items, bad

LEMMA Missing2 ==
  ASSUME NEW a, DOMAIN a.pipeline.gate.checks # {}, a.pipeline.input.scenarios # {},
         a.pipeline.input.combinations # {}
  PROVE  MissingArtifacts(a) # {} <=> a.runId = ""
<1>1. a.runId = "" => "Phase2FinalAcceptanceResult" \in MissingArtifacts(a)
  BY DEF MissingArtifacts
<1>2. ASSUME NEW x \in MissingArtifacts(a), a.runId # "" PROVE FALSE
  BY <1>2 DEF MissingArtifacts
<1> QED
  BY <1>1, <1>2

\* What a decision of phase 2 says of the reports it rests on.
DecisionFits2(reports, round1, round2, runId, a, d) ==
  /\ d.status = "not_closed" <=>
       \/ DriftOf(reports, Blocking) # {} \/ Mismatches(reports) # {}
       \/ Cardinality(DriftOf(reports, Notice)) >= EscalationThreshold
       \/ ~round1 \/ ~round2 \/ runId = ""
  /\ a.runId = runId
  /\ a.checklist.highRiskBoundaryCoveredRound1 = round1
  /\ a.checklist.highRiskBoundaryCoveredRound2 = round2
  /\ PipelineConsistent(a.pipeline)
  /\ CloseReadinessConsistent(a)
  /\ Phase2DecisionConsistent(d)
  /\ d.status = "closed" => DriftOf(reports, Notice) = {}
  /\ DriftOf(reports, Notice) # {} /\ DriftOf(reports, Blocking) = {} => d.notices # {}

LEMMA Decisions2Fit ==
  ASSUME NEW reports, ReportsFit(reports), NEW round1 \in BOOLEAN, NEW round2 \in BOOLEAN,
         NEW runId
  PROVE  DecisionFits2(reports, round1, round2, runId,
                       Phase2Acceptance(PipelineOf(reports), round1, round2, runId),
                       Phase2Decision(Phase2Acceptance(PipelineOf(reports), round1, round2,
                                                       runId)))
<1> DEFINE p == PipelineOf(reports)
           g == p.gate
           a == Phase2Acceptance(p, round1, round2, runId)
           d == Phase2Decision(a)
           drift == DriftOf(reports, Blocking) # {} \/ Mismatches(reports) # {}
           bad == drift \/ Cardinality(DriftOf(reports, Notice)) >= EscalationThreshold
           N == DriftOf(reports, Notice)
           B == DriftOf(reports, Blocking)
<1>1. /\ p.status = PipelineStatus(g) /\ GateFits2(reports, g)
      /\ p.matrix = Phase2Matrix(reports)
      /\ p.input.blocking = B /\ p.input.mismatches = Mismatches(reports)
      /\ p.input.scenarios = DOMAIN ScenarioSignals
      /\ p.input.combinations = DOMAIN CombinationSignals
  BY PipelineFields, Gates2Fit, Input2
<1>2. /\ Cardinality(DOMAIN g.checks) = 8 /\ g.status \in {"pass", "pass_with_notice", "fail"}
      /\ g.status = "fail" <=> bad
      /\ g.blocking # {} <=> bad
      /\ g.status = "pass" => N = {}
      /\ g.status = "pass_with_notice" => g.notices # {}
      /\ N # {} /\ B = {} => g.notices # {}
      /\ drift => \E c \in DOMAIN g.checks : g.checks[c] = "fail"
  BY <1>1 DEF GateFits2
<1>3. /\ p.status \in {"ready", "ready_with_notices", "not_ready"}
      /\ p.status = "not_ready" <=> bad
      /\ p.status = "ready_with_notices" <=> g.status = "pass_with_notice"
  BY <1>1, <1>2, StatusOfPipeline
<1>4. /\ p.matrix.status \in {"failed", "passed_with_notice", "passed"}
      /\ p.matrix.status = "failed" <=> drift
      /\ p.matrix.status = "passed_with_notice" => N # {}
      /\ p.matrix.status = "passed" => N = {}
  BY <1>1, Matrix2
<1>5. /\ a.pipeline = p /\ a.runId = runId
      /\ a.checklist.highRiskBoundaryCoveredRound1 = round1
      /\ a.checklist.highRiskBoundaryCoveredRound2 = round2
      /\ AllPassed(a.checklist) <=> round1 /\ round2 /\ ~bad
      /\ a.status = IF bad \/ ~round1 \/ ~round2 THEN "not_ready_to_close"
                    ELSE IF g.status = "pass_with_notice" THEN "ready_with_notices"
                    ELSE "ready_to_close"
  BY Acceptances2Fit
<1>6. DOMAIN g.checks # {}
  BY <1>2, FS_EmptySet
<1>7. MissingArtifacts(a) # {} <=> runId = ""
  <2> HIDE DEF a, p, g
  <2>1. DOMAIN a.pipeline.gate.checks # {}
    BY <1>5, <1>6 DEF g
  <2>2. a.pipeline.input.scenarios # {} /\ a.pipeline.input.combinations # {}
    BY <1>1, <1>5, CaseCounts
  <2> QED
    BY <1>5, <2>1, <2>2, Missing2
<1>8. /\ d.missing = MissingArtifacts(a) /\ d.blocking = g.blocking /\ d.notices = g.notices
      /\ d.matrix = p.matrix.status /\ d.gate = g.status /\ d.acceptance = a.status
      /\ d.checklist = AllPassed(a.checklist)
      /\ d.status = IF \/ MissingArtifacts(a) # {} \/ p.matrix.status = "failed"
                       \/ g.status = "fail" \/ a.status = "not_ready_to_close"
                       \/ ~AllPassed(a.checklist) \/ g.blocking # {}
                    THEN "not_closed"
                    ELSE IF \/ p.matrix.status = "passed_with_notice"
                            \/ g.status = "pass_with_notice"
                            \/ a.status = "ready_with_notices"
                    THEN "closed_with_notices"
                    ELSE "closed"
  BY <1>5 DEF Phase2Decision
<1> DEFINE gp == a.pipeline.gate
<1>9. a.pipeline.status = p.status /\ gp = g
  BY <1>5
<1> HIDE DEF a, d, g, p, bad, drift, N, B, gp
<1>10. (drift => bad) /\ (bad /\ ~drift => N # {})
  BY FS_EmptySet DEF bad, N, EscalationThreshold
<1>11. d.status = "not_closed" <=> bad \/ ~round1 \/ ~round2 \/ runId = ""
  BY <1>2, <1>4, <1>5, <1>7, <1>8, <1>10
<1>12. N # {} /\ B = {} => d.notices # {}
  BY <1>2, <1>8
<1>13. ~drift => B = {}
  BY DEF drift, B
<1>14. Phase2DecisionConsistent(d)
  BY <1>2, <1>4, <1>5, <1>7, <1>8, <1>10, <1>13 DEF Phase2DecisionConsistent
<1>15. d.status = "closed" => N = {}
  BY <1>4, <1>8
<1>16. PipelineConsistent(a.pipeline)
  <2>1. p.input.blocking # {} \/ p.input.mismatches # {} <=> drift
    BY <1>1 DEF drift, B
  <2>2. p.matrix.status = "passed" => g.status # "fail"
    BY <1>2, <1>4, <1>10
  <2>3. p.matrix.status = "failed" => g.status # "pass"
    BY <1>2, <1>4, <1>10
  <2>4. p.gate = g
    BY DEF g
  <2> QED
    BY <1>1, <1>2, <1>5, <2>1, <2>2, <2>3, <2>4 DEF PipelineConsistent
<1>17. CloseReadinessConsistent(a)
  BY <1>2, <1>3, <1>5, <1>9 DEF CloseReadinessConsistent, Phase2AcceptanceConsistent, gp
<1> QED
  BY <1>5, <1>11, <1>12, <1>14, <1>15, <1>16, <1>17
     DEF DecisionFits2, a, d, p, bad, drift, N, B

-----------------------------------------------------------------------------
(***************************************************************************)
(* The invariant: every part is what the code makes of the parts before    *)
(* it, though the gate may be of an earlier matrix.                        *)
(***************************************************************************)
PartsFit ==
  /\ matrix = None \/ matrix = DifferenceMatrix(phase, matrix.labels)
  /\ gate = None \/ gate = GateOf(phase, judged)
  /\ acceptance = None
       \/ /\ matrix # None /\ gate # None
          /\ acceptance = FinalAcceptance(phase, matrix, AcceptanceInput(phase, matrix), gate)
  /\ decision = None
       \/ /\ acceptance # None
          /\ \E missing \in SUBSET Artifacts(phase) :
               decision = CloseDecision(acceptance, missing)

Phase2PartsFit ==
  /\ acceptance = None
       \/ /\ ReportsFit(matrix.reports) /\ matrix = Phase2Matrix(matrix.reports)
          /\ \E round1, round2 \in BOOLEAN, runId \in {"", "run"} :
               acceptance = Phase2Acceptance(PipelineOf(matrix.reports), round1, round2, runId)
  /\ decision = None \/ (acceptance # None /\ decision = Phase2Decision(acceptance))

IInv ==
  /\ phase \in Pipelines \union {"phase2"}
  /\ phase # "phase2" => PartsFit
  /\ phase = "phase2" => Phase2PartsFit

\* Before the first call there are no parts.
LEMMA InitInvariant == Init => IInv
  BY PhasesAssumption DEF Init, IInv, Pipelines, PartsFit, Phase2PartsFit

\* A new matrix puts an end to the acceptance of the last one, and leaves the gate.
LEMMA RunMatrixKeeps == IInv /\ RunMatrix => IInv'
<1> SUFFICES ASSUME IInv, RunMatrix PROVE IInv'
  OBVIOUS
<1>1. /\ phase # "phase2" /\ decision = None /\ acceptance' = None
      /\ UNCHANGED <<phase, gate, judged, decision>>
      /\ phase \in Pipelines \union {"phase2"} /\ PartsFit
  BY DEF RunMatrix, IInv
<1>2. PICK labels : matrix' = DifferenceMatrix(phase, labels)
  BY DEF RunMatrix
<1>3. matrix'.labels = labels
  BY <1>2 DEF DifferenceMatrix
<1>4. PartsFit'
  BY <1>1, <1>2, <1>3 DEF PartsFit, GateOf, InputOf
<1> QED
  BY <1>1, <1>4 DEF IInv

\* A gate is run on the matrix there is, which is remembered in judged.
LEMMA RunGateKeeps == IInv /\ RunGate => IInv'
<1> SUFFICES ASSUME IInv, RunGate PROVE IInv'
  OBVIOUS
<1>1. /\ phase # "phase2" /\ matrix # None /\ acceptance = None
      /\ gate' = GateResult(phase, AcceptanceInput(phase, matrix)) /\ judged' = matrix.labels
      /\ UNCHANGED <<phase, matrix, acceptance, decision>>
      /\ phase \in Pipelines \union {"phase2"} /\ PartsFit
  BY DEF RunGate, IInv
<1>2. decision = None /\ matrix = DifferenceMatrix(phase, matrix.labels)
  BY <1>1 DEF PartsFit
<1>3. gate' = GateOf(phase, matrix.labels)
  BY <1>1, <1>2 DEF GateOf, InputOf
<1>4. PartsFit'
  BY <1>1, <1>2, <1>3 DEF PartsFit
<1> QED
  BY <1>1, <1>4 DEF IInv

LEMMA AssembleKeeps == IInv /\ AssembleFinalAcceptance => IInv'
<1> SUFFICES ASSUME IInv, AssembleFinalAcceptance PROVE IInv'
  OBVIOUS
<1>1. /\ phase # "phase2" /\ matrix # None /\ gate # None /\ acceptance = None
      /\ acceptance' = FinalAcceptance(phase, matrix, AcceptanceInput(phase, matrix), gate)
      /\ UNCHANGED <<phase, matrix, gate, judged, decision>>
      /\ phase \in Pipelines \union {"phase2"} /\ PartsFit
  BY DEF AssembleFinalAcceptance, IInv
<1>2. decision = None
  BY <1>1 DEF PartsFit
<1>3. PartsFit'
  BY <1>1, <1>2 DEF PartsFit
<1> QED
  BY <1>1, <1>3 DEF IInv

LEMMA CloseKeeps == IInv /\ Close => IInv'
<1> SUFFICES ASSUME IInv, Close PROVE IInv'
  OBVIOUS
<1>1. /\ phase # "phase2" /\ acceptance # None
      /\ UNCHANGED <<phase, matrix, gate, judged, acceptance>>
      /\ phase \in Pipelines \union {"phase2"} /\ PartsFit
  BY DEF Close, IInv
<1>2. PICK unavailable : decision' = CloseDecision(acceptance, Artifacts(phase) \cap unavailable)
  BY DEF Close
<1>3. Artifacts(phase) \cap unavailable \in SUBSET Artifacts(phase)
  OBVIOUS
<1>4. PartsFit'
  BY <1>1, <1>2, <1>3 DEF PartsFit
<1> QED
  BY <1>1, <1>4 DEF IInv

\* Phase 2 is accepted in one call.
LEMMA RunPhase2Keeps == IInv /\ RunPhase2FinalAcceptance => IInv'
<1> SUFFICES ASSUME IInv, RunPhase2FinalAcceptance PROVE IInv'
  OBVIOUS
<1>1. /\ phase = "phase2" /\ acceptance = None /\ UNCHANGED <<phase, decision>>
      /\ Phase2PartsFit
  BY DEF RunPhase2FinalAcceptance, IInv
<1>2. PICK signals \in Phase2Answers, reworded \in Rewordings, round1 \in BOOLEAN,
           round2 \in BOOLEAN, runId \in {"", "run"} :
         /\ matrix' = Phase2Pipeline(signals, reworded).matrix
         /\ acceptance' = Phase2Acceptance(Phase2Pipeline(signals, reworded), round1, round2,
                                           runId)
  BY DEF RunPhase2FinalAcceptance
<1> DEFINE reports == Phase2Reports(signals, reworded)
<1>3. Phase2Pipeline(signals, reworded) = PipelineOf(reports)
  BY DEF Phase2Pipeline, PipelineOf
<1>4. ReportsFit(reports)
  BY ReportsAreAboutCoreFields
<1> HIDE DEF reports
<1>5. matrix' = Phase2Matrix(reports)
  BY <1>2, <1>3, PipelineFields
<1>6. matrix'.reports = reports
  BY <1>5 DEF Phase2Matrix
<1>7. decision' = None
  BY <1>1 DEF Phase2PartsFit
<1>8. ReportsFit(matrix'.reports) /\ matrix' = Phase2Matrix(matrix'.reports)
  BY <1>4, <1>5, <1>6
<1>9. acceptance' = Phase2Acceptance(PipelineOf(matrix'.reports), round1, round2, runId)
  BY <1>2, <1>3, <1>6
<1>10. Phase2PartsFit'
  BY <1>7, <1>8, <1>9 DEF Phase2PartsFit
<1> QED
  BY <1>1, <1>10 DEF IInv

LEMMA ClosePhase2Keeps == IInv /\ ClosePhase2 => IInv'
<1> SUFFICES ASSUME IInv, ClosePhase2 PROVE IInv'
  OBVIOUS
<1>1. /\ phase = "phase2" /\ acceptance # None /\ UNCHANGED <<phase, matrix, acceptance>>
      /\ decision' = Phase2Decision(acceptance) /\ Phase2PartsFit
  BY DEF ClosePhase2, IInv
<1>2. Phase2PartsFit'
  BY <1>1 DEF Phase2PartsFit
<1> QED
  BY <1>1, <1>2 DEF IInv

LEMMA StutterKeeps == IInv /\ UNCHANGED vars => IInv'
  BY DEF IInv, PartsFit, Phase2PartsFit, vars, GateOf, InputOf

\* The invariant of the acceptance pipelines.
THEOREM InvariantHolds == Spec => []IInv
<1>1. IInv /\ [Next]_vars => IInv'
  BY RunMatrixKeeps, RunGateKeeps, AssembleKeeps, CloseKeeps, RunPhase2Keeps,
     ClosePhase2Keeps, StutterKeeps DEF Next
<1> QED
  BY <1>1, InitInvariant, PTL DEF Spec

-----------------------------------------------------------------------------
(***************************************************************************)
(* What a decision says.                                                   *)
(***************************************************************************)
\* Of a decision of phases 3 to 7, with the acceptance it rests on.
LEMMA DecidedFits ==
  ASSUME IInv, Decided
  PROVE  /\ phase \in Pipelines /\ AcceptanceFits(phase, matrix.labels, judged, acceptance)
         /\ \E missing : decision = CloseDecision(acceptance, missing)
<1>1. decision # None /\ phase \in Pipelines /\ PartsFit
  BY DEF IInv, Decided
<1>2. /\ acceptance # None /\ matrix # None /\ gate # None
      /\ matrix = DifferenceMatrix(phase, matrix.labels)
      /\ gate = GateOf(phase, judged)
      /\ acceptance = FinalAcceptance(phase, matrix, AcceptanceInput(phase, matrix), gate)
      /\ \E missing : decision = CloseDecision(acceptance, missing)
  BY <1>1 DEF PartsFit
<1>3. GateFits(phase, judged, gate)
  BY <1>1, <1>2, GatesFit
<1>4. AcceptanceInput(phase, matrix) = InputOf(phase, matrix.labels)
  BY <1>2 DEF InputOf
<1>5. AcceptanceFits(phase, matrix.labels, judged,
        FinalAcceptance(phase, DifferenceMatrix(phase, matrix.labels),
                        InputOf(phase, matrix.labels), gate))
  BY <1>1, <1>3, AcceptancesFit
<1> QED
  BY <1>1, <1>2, <1>4, <1>5

LEMMA Phase2DecidedFits ==
  ASSUME IInv, Phase2Decided
  PROVE  /\ ReportsFit(matrix.reports) /\ decision = Phase2Decision(acceptance)
         /\ \E round1, round2 \in BOOLEAN, runId \in {"", "run"} :
              acceptance = Phase2Acceptance(PipelineOf(matrix.reports), round1, round2, runId)
  BY DEF IInv, Phase2Decided, Phase2PartsFit

LEMMA DriftIsDrift ==
  \A kind : Phase2Drift(kind) = DriftOf(matrix.reports, kind)
  BY DEF Phase2Drift, DriftOf

LEMMA MatchesDrift == IInv => DecisionMatchesDrift
<1> SUFFICES ASSUME IInv PROVE DecisionMatchesDrift
  OBVIOUS
<1>1. ASSUME Decided
      PROVE  /\ decision.status = "not_closed" <=>
                  \/ OfKind(phase, matrix.labels \cup judged, Blocking) # {}
                  \/ decision.missing
             /\ AcceptanceConsistent(acceptance)
             /\ DecisionConsistent(decision)
  <2>1. AcceptanceFits(phase, matrix.labels, judged, acceptance)
    BY <1>1, DecidedFits
  <2>2. PICK missing : decision = CloseDecision(acceptance, missing)
    BY <1>1, DecidedFits
  <2>3. /\ decision.status = "not_closed" <=>
             \/ OfKind(phase, matrix.labels, Blocking) # {}
             \/ OfKind(phase, judged, Blocking) # {} \/ decision.missing
        /\ DecisionConsistent(decision)
    BY <2>1, <2>2, DecisionsFit
  <2>4. OfKind(phase, matrix.labels \cup judged, Blocking)
          = OfKind(phase, matrix.labels, Blocking) \union OfKind(phase, judged, Blocking)
    BY DEF OfKind
  <2> QED
    BY <2>1, <2>3, <2>4 DEF AcceptanceFits
<1>2. ASSUME Phase2Decided PROVE Phase2DecisionMatchesDrift
  <2>1. ReportsFit(matrix.reports) /\ decision = Phase2Decision(acceptance)
    BY <1>2, Phase2DecidedFits
  <2>2. PICK round1 \in BOOLEAN, round2 \in BOOLEAN, runId \in {"", "run"} :
           acceptance = Phase2Acceptance(PipelineOf(matrix.reports), round1, round2, runId)
    BY <1>2, Phase2DecidedFits
  <2>3. DecisionFits2(matrix.reports, round1, round2, runId, acceptance, decision)
    BY <2>1, <2>2, Decisions2Fit
  <2>4. Mismatches(matrix.reports) # {} <=> \E c \in Cases : ~matrix.reports[c].semantic
    BY DEF Mismatches
  <2> QED
    BY <2>3, <2>4, DriftIsDrift DEF Phase2DecisionMatchesDrift, DecisionFits2
<1> QED
  BY <1>1, <1>2 DEF DecisionMatchesDrift

LEMMA NoticesReach == IInv => NoticesReachTheDecision
<1> SUFFICES ASSUME IInv PROVE NoticesReachTheDecision
  OBVIOUS
<1>1. ASSUME Decided, judged = matrix.labels
      PROVE  /\ decision.status = "closed" <=> matrix.labels = {} /\ ~decision.missing
             /\ OfKind(phase, matrix.labels, Notice) \subseteq decision.notices
  <2>1. AcceptanceFits(phase, matrix.labels, judged, acceptance)
    BY <1>1, DecidedFits
  <2>2. PICK missing : decision = CloseDecision(acceptance, missing)
    BY <1>1, DecidedFits
  <2>3. /\ decision.status = "not_closed" <=>
             \/ OfKind(phase, matrix.labels, Blocking) # {}
             \/ OfKind(phase, judged, Blocking) # {} \/ decision.missing
        /\ decision.notices = OfKind(phase, judged, Notice)
        /\ decision.status = "closed" => OfKind(phase, judged, Notice) = {}
        /\ decision.status # "closed" =>
             \/ OfKind(phase, matrix.labels, Blocking) # {}
             \/ OfKind(phase, judged, Blocking) # {}
             \/ OfKind(phase, judged, Notice) # {} \/ decision.missing
    BY <2>1, <2>2, DecisionsFit
  <2>4. matrix.labels = {} <=> /\ OfKind(phase, matrix.labels, Blocking) = {}
                               /\ OfKind(phase, matrix.labels, Notice) = {}
    BY DEF OfKind, FieldDrift
  <2> QED
    BY <1>1, <2>3, <2>4
<1>2. ASSUME Phase2Decided
      PROVE  /\ decision.status = "closed" => Phase2Drift(Notice) = {}
             /\ Phase2Drift(Notice) # {} /\ Phase2Drift(Blocking) = {} => decision.notices # {}
  <2>1. ReportsFit(matrix.reports) /\ decision = Phase2Decision(acceptance)
    BY <1>2, Phase2DecidedFits
  <2>2. PICK round1 \in BOOLEAN, round2 \in BOOLEAN, runId \in {"", "run"} :
           acceptance = Phase2Acceptance(PipelineOf(matrix.reports), round1, round2, runId)
    BY <1>2, Phase2DecidedFits
  <2>3. DecisionFits2(matrix.reports, round1, round2, runId, acceptance, decision)
    BY <2>1, <2>2, Decisions2Fit
  <2> QED
    BY <2>3, DriftIsDrift DEF DecisionFits2
<1> QED
  BY <1>1, <1>2 DEF NoticesReachTheDecision

\* A phase is kept open by exactly the blocking drift its matrix or its gate saw and
\* by a missing artifact, and no validator finds fault, whichever gate a caller hands
\* over, for any number of runs and any drift; the same of phase 2.
THEOREM DecisionsMatchDrift == Spec => []DecisionMatchesDrift
  BY InvariantHolds, MatchesDrift, PTL

\* Nothing that drifted goes unnoticed in a decision on the matrix the gate saw.
THEOREM NoticesAreKept == Spec => []NoticesReachTheDecision
  BY InvariantHolds, NoticesReach, PTL
=============================================================================
