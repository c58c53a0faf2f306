---------------------------- MODULE MCAcceptance ----------------------------
(* The acceptance pipelines with up to two changes of the product, met by  *)
(* one or two runs of the matrix; in phase 2, one signal of one case that  *)
(* changed and a summary worded anew in none, some or all scenarios.       *)
EXTENDS AcceptancePipeline

MCPhases == {"phase2", "phase3", "phase4", "phase5", "phase6", "phase7"}
MCRewordings == {{}, {"M01"}, {"M01", "M07"}, {"M01", "M07", "M12"}, DOMAIN ScenarioSignals}

(* The frozen baselines of phase 2 are what the builder makes of the       *)
(* signals they describe.                                                  *)
BaselineSignals ==
  [A |-> "M01", B |-> "M02", C |-> "M03", D |-> "M05", E |-> "M08", F |-> "M07",
   history_replay_failed |-> "M05", command_link_missing_record |-> "M08",
   command_link_status_mismatch |-> "M09",
   suppression_state_incompatible_version |-> "M02",
   suppression_state_manual_confirmation_required |-> "M03",
   diagnostic_validation_conflict |-> "M10"]

ASSUME BaselinesAreMet ==
  \A b \in DOMAIN BaselineSignals :
    LET s == ScenarioSignals[BaselineSignals[b]] IN BaselineHolds(b, s, {s})
=============================================================================
