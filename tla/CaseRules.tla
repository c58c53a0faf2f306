------------------------------- MODULE CaseRules -------------------------------
(***************************************************************************)
(* The state machines of risk cases, liquidation cases and ADL cases       *)
(* (packages/domain), the linkage between them, and the arbitration of a   *)
(* terminal subcase (core-case-flow-command-handler).  Rules are triples   *)
(* of a state, an action and the next state.                               *)
(*                                                                         *)
(* A case is a record of state, at (updatedAt) and version (configVersion).*)
(*                                                                         *)
(* Operators whose comment starts with "Faulty:" are not part of the       *)
(* specification.                                                          *)
(***************************************************************************)
EXTENDS Naturals

-----------------------------------------------------------------------------
(* Risk cases *)
TerminalStates == {"Closed", "Failed", "ManualInterventionRequired"}

RiskPath ==
    {<<"Detected", "StartValidation", "Validating">>,
     <<"Validating", "Classify", "Classified">>,
     <<"Classified", "Close", "Closed">>,
     <<"Classified", "StartLiquidation", "Liquidating">>,
     <<"Liquidating", "StartFundAbsorption", "FundAbsorbing">>,
     <<"FundAbsorbing", "StartAdlEvaluation", "EvaluatingADL">>,
     <<"EvaluatingADL", "StartAdlPlanning", "PlanningADL">>,
     <<"PlanningADL", "StartAdlExecution", "ExecutingADL">>,
     <<"ExecutingADL", "Settle", "Settling">>,
     <<"Settling", "Close", "Closed">>}

ActiveStates == {rule[1] : rule \in RiskPath}
CaseState == ActiveStates \union TerminalStates

RiskRules ==
    RiskPath \union {<<s, "Fail", "Failed">> : s \in ActiveStates}
             \union {<<s, "RequestManualIntervention", "ManualInterventionRequired">> :
                        s \in ActiveStates}

\* The copy of these rules in the state transition saga.
StateTransitionRules ==
    LET next == [Detected |-> "Validating", Validating |-> "Classified",
                 Liquidating |-> "FundAbsorbing", FundAbsorbing |-> "EvaluatingADL",
                 EvaluatingADL |-> "PlanningADL", PlanningADL |-> "ExecutingADL",
                 ExecutingADL |-> "Settling", Settling |-> "Closed"]
    IN  {<<s, next[s]>> : s \in DOMAIN next}
          \union ({"Classified"} \X {"Closed", "Liquidating"})
          \union ((CaseState \ TerminalStates) \X {"Failed", "ManualInterventionRequired"})

\* The copy has not drifted from the domain's rules.
ASSUME RulesAgreeAssumption ==
    StateTransitionRules = {<<rule[1], rule[3]>> : rule \in RiskRules}

CaseStage ==
    [Detected |-> "Detection", Validating |-> "Validation",
     Classified |-> "Classification", Liquidating |-> "Liquidation",
     FundAbsorbing |-> "FundAbsorption", EvaluatingADL |-> "ADLEvaluation",
     PlanningADL |-> "ADLPlanning", ExecutingADL |-> "ADLExecution",
     Settling |-> "Settlement", Closed |-> "Completed", Failed |-> "Failure",
     ManualInterventionRequired |-> "ManualIntervention"]

\* No two states share a stage, so the stage adds nothing to a case.
ASSUME StagesAssumption ==
    /\ DOMAIN CaseStage = CaseState
    /\ \A s, u \in CaseState : CaseStage[s] = CaseStage[u] => s = u

-----------------------------------------------------------------------------
(* Subcases *)
LiquidationRules ==
    {<<"Initiated", "StartProgress", "InProgress">>, <<"Initiated", "Fail", "Failed">>,
     <<"InProgress", "Complete", "Completed">>, <<"InProgress", "Fail", "Failed">>}

\* Faulty: an ADL case that failed can be queued again.
AdlRulesRequeueing ==
    {<<"Initiated", "Queue", "Queued">>, <<"Initiated", "Fail", "Failed">>,
     <<"Queued", "Execute", "Executed">>, <<"Queued", "Fail", "Failed">>,
     <<"Failed", "Queue", "Queued">>}

AdlRules ==
    {<<"Initiated", "Queue", "Queued">>, <<"Initiated", "Fail", "Failed">>,
     <<"Queued", "Execute", "Executed">>, <<"Queued", "Fail", "Failed">>}

CoreSubcaseKind == {"LiquidationCase", "ADLCase"}

SubcaseRules(kind) == IF kind = "LiquidationCase" THEN LiquidationRules ELSE AdlRules

SubcaseStates(kind) == UNION {{rule[1], rule[3]} : rule \in SubcaseRules(kind)}

Succeeded(state) == state \in {"Completed", "Executed"}
IsTerminalSubcaseState(state) == Succeeded(state) \/ state = "Failed"

\* A case after a transition; defined when Allowed holds.
Allowed(rules, case, action, version, t) ==
    /\ \E rule \in rules : rule[1] = case.state /\ rule[2] = action
    /\ version = case.version /\ t >= case.at

TransitionTo(rules, case, action, t) ==
    LET rule == CHOOSE r \in rules : r[1] = case.state /\ r[2] = action
    IN  [case EXCEPT !.state = rule[3], !.at = t]

(* Linkage *)
AllowDeriveSpecialCase == {"Classified"}
AllowSpecialCaseTransition ==
    {"Classified", "Liquidating", "FundAbsorbing", "EvaluatingADL", "PlanningADL",
     "ExecutingADL", "Settling"}

-----------------------------------------------------------------------------
(***************************************************************************)
(* What a terminal subcase does to its risk case.  A signal has the time t *)
(* of its command; subs are the states of the subcases that were listed.   *)
(***************************************************************************)
Ordering(t, sub, risk, operation) ==
    IF t < sub.at \/ t < risk.at THEN "late"
    ELSE IF operation = "coordinate" /\ t = sub.at THEN "replayed"
    ELSE "normal"

RiskCaseResolutionAction == {"UnderReview", "Resolved", "ManualIntervention"}

ResolutionPriority(action) ==
    CASE action = "UnderReview" -> 1
      [] action = "Resolved" -> 2
      [] action = "ManualIntervention" -> 3

RiskCaseCurrentPriority(state) ==
    CASE state = "ManualInterventionRequired" -> 3
      [] state = "Closed" -> 2
      [] OTHER -> 0

Resolution(action, decision, apply) ==
    [action |-> action, decision |-> decision, apply |-> apply]

\* Faulty: only the subcase that triggers is looked at.
SelectionOfTrigger(trigger, subs, state) ==
    IF trigger \in DOMAIN subs /\ subs[trigger] = "Failed"
    THEN Resolution("ManualIntervention", "applied", "RequestManualIntervention")
    ELSE IF state = "Closed" THEN Resolution("Resolved", "duplicate", "")
    ELSE IF state \notin {"Classified", "Settling"}
    THEN Resolution("UnderReview", "deferred", "")
    ELSE Resolution("Resolved", "applied", "Close")

\* One failure calls for manual intervention; otherwise the risk case is closed, if
\* no other subcase is active and its state allows.
Selection(trigger, subs, state) ==
    IF \E s \in DOMAIN subs : subs[s] = "Failed"
    THEN Resolution("ManualIntervention", "applied", "RequestManualIntervention")
    ELSE IF state = "Closed" THEN Resolution("Resolved", "duplicate", "")
    ELSE IF \/ \E s \in DOMAIN subs \ {trigger} : ~IsTerminalSubcaseState(subs[s])
            \/ state \notin {"Classified", "Settling"}
    THEN Resolution("UnderReview", "deferred", "")
    ELSE Resolution("Resolved", "applied", "Close")

\* The selection, held against the state the risk case is in and the order the signal
\* came in: what is late or replayed may only escalate.
ResolutionPlan(trigger, subs, state, category) ==
    LET chosen == Selection(trigger, subs, state)
        selected == ResolutionPriority(chosen.action)
        current == RiskCaseCurrentPriority(state)
        settled(decision) == Resolution(chosen.action, decision, "")
        manual == chosen.action = "ManualIntervention"
    IN
    IF category \in {"late", "replayed"}
    THEN IF selected <= current
         THEN settled(IF category = "late" THEN "ignored" ELSE "duplicate")
         ELSE IF manual /\ state \notin TerminalStates THEN chosen
         ELSE settled("rejected")
    ELSE IF current > selected THEN settled("rejected")
    ELSE IF current = selected /\ state \in {"Closed", "ManualInterventionRequired"}
    THEN settled("duplicate")
    ELSE IF manual /\ state \in {"Closed", "Failed"} THEN settled("rejected")
    ELSE chosen
=============================================================================
