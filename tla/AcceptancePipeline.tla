------------------------- MODULE AcceptancePipeline -------------------------
(***************************************************************************)
(* The acceptance pipeline that closes each of the phases 2 to 7: a matrix *)
(* compares what the scenarios observe with their baselines, a gate judges *)
(* the drift by eight checks, the final acceptance adds a checklist of six *)
(* items, and the close decision says whether the phase is closed.  The    *)
(* pipelines of phases 3 to 7 have one shape; what they compare and watch  *)
(* is in AcceptancePhases.  Phase 2 has a shape of its own, one call, and  *)
(* is in DiagnosticAggregate.                                              *)
(*                                                                         *)
(* Each part is exported and takes the parts before it as arguments, so a  *)
(* caller that re-runs the matrix after a change may still hand over the   *)
(* gate of an earlier run: a gate here is judged at one moment and used at *)
(* a later one.                                                            *)
(***************************************************************************)
EXTENDS AcceptancePhases, DiagnosticAggregate, Functions

CONSTANTS Phases,      (* the pipelines that are explored *)
          RunBound,    (* how often the matrix is run *)
          DriftBound,  (* how many changes of the product the runs may meet in all *)
          Rewordings,  (* sets of phase 2 scenarios whose summary is worded anew *)
          None

Blocking == "blocking"
Notice == "notice"

ASSUME PhasesAssumption ==
  Phases \subseteq {"phase2", "phase3", "phase4", "phase5", "phase6", "phase7"}
ASSUME BoundsAssumption == RunBound \in Nat \ {0} /\ DriftBound \in Nat
ASSUME RewordingsAssumption == Rewordings \subseteq SUBSET DOMAIN ScenarioSignals

VARIABLES
  phase,       (* the phase to be closed *)
  runs,        (* matrix runs so far *)
  drifts,      (* changes of the product they met *)
  matrix,      (* the last matrix, with the labels that differ from the baseline *)
  gate,        (* the last gate result, perhaps of an earlier matrix *)
  judged,      (* the labels the matrix had that the gate was run on *)
  acceptance,  (* the final acceptance *)
  decision     (* the close decision *)

vars == <<phase, runs, drifts, matrix, gate, judged, acceptance, decision>>

------------------------------------------------------------------------
(* The tables of a phase. *)
Baselines(p) ==
  CASE p = "phase3" -> Phase3Baselines [] p = "phase4" -> Phase4Baselines
    [] p = "phase5" -> Phase5Baselines [] p = "phase6" -> Phase6Baselines
    [] p = "phase7" -> Phase7Baselines
Moves(p) ==
  CASE p = "phase3" -> Phase3Moves [] p = "phase4" -> Phase4Moves
    [] p = "phase5" -> Phase5Moves [] p = "phase6" -> Phase6Moves
    [] p = "phase7" -> Phase7Moves
NoticeFields(p) ==
  CASE p = "phase3" -> Phase3Notices [] p = "phase4" -> Phase4Notices
    [] p = "phase5" -> Phase5Notices [] p = "phase6" -> Phase6Notices
    [] p = "phase7" -> Phase7Notices
FieldChecks(p) ==
  CASE p = "phase3" -> Phase3Checks [] p = "phase4" -> Phase4Checks
    [] p = "phase5" -> Phase5Checks [] p = "phase6" -> Phase6Checks
    [] p = "phase7" -> Phase7Checks
CoverageChecks(p) ==
  CASE p = "phase3" -> Phase3Coverage [] p = "phase4" -> Phase4Coverage
    [] p = "phase5" -> Phase5Coverage [] p = "phase6" -> Phase6Coverage
    [] p = "phase7" -> Phase7Coverage
Artifacts(p) ==
  CASE p = "phase3" -> Phase3Artifacts [] p = "phase4" -> Phase4Artifacts
    [] p = "phase5" -> Phase5Artifacts [] p = "phase6" -> Phase6Artifacts
    [] p = "phase7" -> Phase7Artifacts

Scenarios(p) == DOMAIN Baselines(p)
FewestScenarios(p) == IF p = "phase3" THEN 11 ELSE 10
FewestChecks == 8

------------------------------------------------------------------------
(* The difference matrix.  A label <<s, f>> says that field f of scenario  *)
(* s differs from its baseline.                                            *)

(* What may have changed in the product: sets of fields that drift together. *)
Regressions(p) == UNION {{s} \X Moves(p)[s] : s \in Scenarios(p)}

FieldDrift(p, field) == IF field \in NoticeFields(p) THEN Notice ELSE Blocking

Reports(p, regressed) ==
  UNION {{<<r[1], f>> : f \in r[2] \cap Baselines(p)[r[1]]} : r \in regressed}

OfKind(p, labels, kind) == {l \in labels : FieldDrift(p, l[2]) = kind}

MatrixStatus(p, labels) ==
  IF OfKind(p, labels, Blocking) # {} THEN "failed"
  ELSE IF OfKind(p, labels, Notice) # {} THEN "passed_with_notice"
  ELSE "passed"

DifferenceMatrix(p, labels) ==
  [labels |-> labels, covered |-> Scenarios(p), status |-> MatrixStatus(p, labels)]

(* The acceptance input is made of the matrix in the same call. *)
AcceptanceInput(p, m) ==
  [blocking |-> OfKind(p, m.labels, Blocking), notices |-> OfKind(p, m.labels, Notice),
   covered |-> m.covered, overall |-> m.status]

------------------------------------------------------------------------
(* The acceptance gate. *)
FieldCheck(watch, input) ==
  IF \E l \in input.blocking : l[1] \in watch.scenarios /\ l[2] \in watch.blocking
  THEN "fail"
  ELSE IF \E l \in input.notices : l[2] \in watch.notices THEN "warning"
  ELSE "pass"

CoverageCheck(expected, input) ==
  IF \A e \in expected : Cardinality(input.covered \cap e[2]) >= e[3]
  THEN "pass" ELSE "fail"

NoBlockingDrift(input) ==
  IF input.blocking # {} THEN "fail"
  ELSE IF input.notices # {} THEN "warning" ELSE "pass"

CrossConsistency(input) ==
  CASE input.overall = "failed" -> "fail"
    [] input.overall = "passed_with_notice" -> "warning"
    [] OTHER -> "pass"

CheckResults(p, input) ==
  [c \in DOMAIN FieldChecks(p) |-> FieldCheck(FieldChecks(p)[c], input)]
  ++ [c \in DOMAIN CoverageChecks(p) |-> CoverageCheck(CoverageChecks(p)[c], input)]
  ++ [no_blocking_core_field_drift |-> NoBlockingDrift(input),
      cross_consistency_passed |-> CrossConsistency(input)]

Those(results, status) == {c \in DOMAIN results : results[c] = status}

(* Faulty: the notices are taken from the checks that warn, and a field that *)
(* no check names leaves none.                                               *)
GateResultOfChecks(p, input) ==
  LET results == CheckResults(p, input)
      named == UNION {FieldChecks(p)[c].notices : c \in DOMAIN FieldChecks(p)} IN
  [results |-> results,
   status |-> IF Those(results, "fail") # {} THEN "fail"
              ELSE IF Those(results, "warning") # {} THEN "pass_with_notice" ELSE "pass",
   blocking |-> Those(results, "fail"),
   warnings |-> Those(results, "warning"),
   notices |-> {l \in input.notices : l[2] \in named}]

GateResult(p, input) ==
  LET results == CheckResults(p, input) IN
  [results |-> results,
   status |-> IF Those(results, "fail") # {} THEN "fail"
              ELSE IF Those(results, "warning") # {} THEN "pass_with_notice" ELSE "pass",
   blocking |-> Those(results, "fail"),
   warnings |-> Those(results, "warning"),
   notices |-> input.notices]

------------------------------------------------------------------------
(* The final acceptance. *)

(* Two of the six items repeat the gate's verdict on coverage. *)
CoverageItem(p, group, g) ==
  LET checks == {c \in DOMAIN CoverageChecks(p) \cap DOMAIN g.results :
                   group \in CoverageChecks(p)[c]} IN
  IF checks = {} THEN "fail" ELSE g.results[CHOOSE c \in checks : TRUE]

Groups(p) == UNION {CoverageChecks(p)[c] : c \in DOMAIN CoverageChecks(p)}

Verdict(ok) == IF ok THEN "pass" ELSE "fail"

PreCloseChecklist(p, m, input, g) ==
  [difference_matrix_completed |->
     Verdict(Cardinality(m.covered) >= FewestScenarios(p)),
   acceptance_input_built |-> Verdict(\A group \in Groups(p) : input.covered \cap group[2] # {}),
   acceptance_gate_evaluated |-> Verdict(Cardinality(DOMAIN g.results) >= FewestChecks),
   blocking_issues_resolved_or_acknowledged |->
     Verdict(g.blocking = {} /\ input.blocking = {})]
  ++ [name \in {group[1] : group \in Groups(p)} |->
        CoverageItem(p, CHOOSE group \in Groups(p) : group[1] = name, g)]

(* Faulty: the gate is taken to have seen all that the checklist sees. *)
FinalAcceptanceStatusOfGate(g, checklist) ==
  CASE g.status = "fail" -> "not_ready"
    [] g.status = "pass_with_notice" -> "ready_with_notices"
    [] OTHER -> "ready"

FinalAcceptanceStatus(g, checklist) ==
  IF g.status = "fail" \/ Those(checklist, "fail") # {} THEN "not_ready"
  ELSE IF g.status = "pass_with_notice" \/ Those(checklist, "warning") # {}
  THEN "ready_with_notices"
  ELSE "ready"

FinalAcceptance(p, m, input, g) ==
  LET checklist == PreCloseChecklist(p, m, input, g) IN
  [matrix |-> m.status, gate |-> g.status, checklist |-> checklist,
   status |-> FinalAcceptanceStatus(g, checklist),
   blocking |-> g.blocking \cup Those(checklist, "fail"),
   warnings |-> g.warnings \cup Those(checklist, "warning"),
   notices |-> g.notices]

(* The five rules of the validator of a final acceptance. *)
AcceptanceConsistent(a) ==
  LET failed == Those(a.checklist, "fail") # {}
      clean == ~failed /\ Those(a.checklist, "warning") = {} /\ a.gate = "pass" IN
  /\ a.gate = "fail" => a.status = "not_ready"
  /\ a.gate = "pass" /\ ~failed => a.status # "not_ready"
  /\ clean => a.status = "ready"
  /\ a.blocking # {} => a.status # "ready"
  /\ a.blocking = {} /\ ~failed /\ a.gate # "fail" => a.status # "not_ready"

------------------------------------------------------------------------
(* The close decision. *)
CloseStatus(a, missing) ==
  IF \/ a.matrix = "failed"
     \/ a.gate = "fail"
     \/ a.status = "not_ready"
     \/ Those(a.checklist, "fail") # {}
     \/ a.blocking # {}
     \/ missing # {}
     \/ ~AcceptanceConsistent(a)
  THEN "not_closed"
  ELSE IF a.gate = "pass_with_notice" \/ a.status = "ready_with_notices"
          \/ a.warnings # {} \/ a.notices # {}
  THEN "closed_with_notices"
  ELSE "closed"

CloseDecision(a, missing) ==
  LET status == CloseStatus(a, missing) IN
  [status |-> status, matrix |-> a.matrix, blocking |-> a.blocking,
   warnings |-> a.warnings, notices |-> a.notices, missing |-> missing # {},
   readyForNextPhase |-> status # "not_closed"]

(* The six rules of the validator of a decision. *)
DecisionConsistent(d) ==
  /\ d.status = "closed" => d.blocking = {}
  /\ d.status = "closed_with_notices" => d.warnings # {} \/ d.notices # {}
  /\ d.readyForNextPhase <=> d.status # "not_closed"
  /\ d.missing => d.status = "not_closed"
  /\ d.matrix = "failed" => d.status = "not_closed"

------------------------------------------------------------------------
(* The pipeline as its callers drive it. *)
Init ==
  /\ phase \in Phases
  /\ runs = 0 /\ drifts = 0
  /\ matrix = None /\ gate = None /\ judged = {} /\ acceptance = None /\ decision = None

RunMatrix ==
  /\ phase # "phase2" /\ runs < RunBound /\ decision = None
  /\ \E changes \in [1 .. DriftBound - drifts -> Regressions(phase) \cup {None}] :
       LET regressed == Range(changes) \ {None} IN
       /\ drifts' = drifts + Cardinality(regressed)
       /\ matrix' = DifferenceMatrix(phase, Reports(phase, regressed))
  /\ runs' = runs + 1
  /\ acceptance' = None
  /\ UNCHANGED <<phase, gate, judged, decision>>

RunGate ==
  /\ phase # "phase2" /\ matrix # None /\ acceptance = None
  /\ gate' = GateResult(phase, AcceptanceInput(phase, matrix))
  /\ judged' = matrix.labels
  /\ UNCHANGED <<phase, runs, drifts, matrix, acceptance, decision>>

AssembleFinalAcceptance ==
  /\ phase # "phase2" /\ matrix # None /\ gate # None /\ acceptance = None
  /\ acceptance' = FinalAcceptance(phase, matrix, AcceptanceInput(phase, matrix), gate)
  /\ UNCHANGED <<phase, runs, drifts, matrix, gate, judged, decision>>

Close ==
  /\ phase # "phase2" /\ acceptance # None /\ decision = None
  /\ \E unavailable \in {{}} \cup {{a} : a \in Artifacts(phase)} :
       decision' = CloseDecision(acceptance, Artifacts(phase) \cap unavailable)
  /\ UNCHANGED <<phase, runs, drifts, matrix, gate, judged, acceptance>>

(* What one changed signal of one case makes the diagnostic queries answer. *)
OneChange(s) ==
  {[s EXCEPT !.risk = v] : v \in Risks} \cup {[s EXCEPT !.hint = v] : v \in Hints}
    \cup {[s EXCEPT !.alert = v] : v \in Severities}
    \cup {[s EXCEPT !.history = v] : v \in Continuities}
    \cup {[s EXCEPT !.replay = v] : v \in {"none", "passed", "notice", "failed"}}
    \cup {[s EXCEPT !.suppression = v] : v \in Continuities}
    \cup {[s EXCEPT !.lifecycle = v] : v \in Continuities}
    \cup {[s EXCEPT !.recommended = v] : v \in BOOLEAN}
    \cup {[s EXCEPT !.repair = v] : v \in RepairStatuses}
    \cup {[s EXCEPT !.link = v] : v \in LinkStatuses}

Phase2Answers ==
  UNION {{[UsualSignals EXCEPT ![c] = s] : s \in OneChange(UsualSignals[c])} : c \in Cases}

RunPhase2FinalAcceptance ==
  /\ phase = "phase2" /\ acceptance = None
  /\ \E signals \in Phase2Answers, reworded \in Rewordings,
       round1, round2 \in BOOLEAN, runId \in {"", "run"} :
       LET pipeline == Phase2Pipeline(signals, reworded) IN
       /\ matrix' = pipeline.matrix
       /\ gate' = pipeline.gate
       /\ acceptance' = Phase2Acceptance(pipeline, round1, round2, runId)
  /\ runs' = runs + 1
  /\ UNCHANGED <<phase, drifts, judged, decision>>

ClosePhase2 ==
  /\ phase = "phase2" /\ acceptance # None /\ decision = None
  /\ decision' = Phase2Decision(acceptance)
  /\ UNCHANGED <<phase, runs, drifts, matrix, gate, judged, acceptance>>

Next ==
  \/ RunMatrix \/ RunGate \/ AssembleFinalAcceptance \/ Close
  \/ RunPhase2FinalAcceptance \/ ClosePhase2

Spec == Init /\ [][Next]_vars

------------------------------------------------------------------------
(* Properties. *)

Decided == decision # None /\ phase # "phase2"
Phase2Decided == decision # None /\ phase = "phase2"

Phase2Drift(kind) ==
  {d \in Cases \X CoreFields :
     d[2] \in matrix.reports[d[1]].drift /\ (d[2] \in BlockingFields <=> kind = Blocking)}

(* Nothing but a drifted core field, a failure that is explained otherwise, *)
(* three or more notices, a round of boundary scenarios that is not covered *)
(* or an artifact keeps phase 2 open, and each of them does; the validators *)
(* of pipeline, acceptance, readiness and decision agree.                   *)
Phase2DecisionMatchesDrift ==
  /\ decision.status = "not_closed" <=>
       \/ Phase2Drift(Blocking) # {}
       \/ \E c \in Cases : ~matrix.reports[c].semantic
       \/ Cardinality(Phase2Drift(Notice)) >= EscalationThreshold
       \/ ~acceptance.checklist.highRiskBoundaryCoveredRound1
       \/ ~acceptance.checklist.highRiskBoundaryCoveredRound2
       \/ acceptance.runId = ""
  /\ PipelineConsistent(acceptance.pipeline)
  /\ CloseReadinessConsistent(acceptance)
  /\ Phase2DecisionConsistent(decision)

(* No phase is closed over a blocking drift, whether the matrix shows it or *)
(* only the gate saw it, or without one of its artifacts; and nothing else  *)
(* keeps a phase open.  Whatever parts a caller puts together, the          *)
(* validators of the final acceptance and of the decision find no fault.    *)
DecisionMatchesDrift ==
  /\ Decided =>
       /\ decision.status = "not_closed" <=>
            \/ OfKind(phase, matrix.labels \cup judged, Blocking) # {}
            \/ decision.missing
       /\ AcceptanceConsistent(acceptance)
       /\ DecisionConsistent(decision)
  /\ Phase2Decided => Phase2DecisionMatchesDrift

(* When the gate was run on this matrix, a phase is closed without notices *)
(* only if nothing drifted, and every notice the matrix showed stands in   *)
(* the decision; phase 2 keeps one notice for all of them.                 *)
NoticesReachTheDecision ==
  /\ Decided /\ judged = matrix.labels =>
       /\ decision.status = "closed" <=> matrix.labels = {} /\ ~decision.missing
       /\ OfKind(phase, matrix.labels, Notice) \subseteq decision.notices
  /\ Phase2Decided =>
       /\ decision.status = "closed" => Phase2Drift(Notice) = {}
       /\ Phase2Drift(Notice) # {} /\ Phase2Drift(Blocking) = {} => decision.notices # {}
=============================================================================
