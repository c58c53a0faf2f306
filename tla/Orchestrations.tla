---------------------------- MODULE Orchestrations ----------------------------
(***************************************************************************)
(* The risk case and liquidation case orchestrators on top of the policy   *)
(* versions, with the registries that make a request run once and the      *)
(* audit events that CaseReplay reads.  An orchestration is one            *)
(* synchronous call, so it is one action: what varies is which port fails  *)
(* and which audit events do not reach the store, for publishSafe goes on  *)
(* when a publish fails.                                                   *)
(*                                                                         *)
(* The ports are not wired in the repository: the policy ports are modelled *)
(* as the policy package, the audit port as appending to the event store.  *)
(***************************************************************************)
EXTENDS PolicyVersions, FiniteSets

CONSTANTS
    RiskCases, LiquidationCases,  \* case ids that commands name
    Requests,                     \* requestIds
    CaseViews,                    \* states that the case repositories answer with
    Losses,                       \* which events of an orchestration may be lost
    RunBound,                     \* bound: orchestrations that are executed
    OperationBound                \* bound: orchestrations and audited policy calls

Steps == <<"load_case", "load_active_config", "resolve_bundle",
           "execute_candidate_selection", "execute_ranking", "execute_fund_waterfall">>
LoadingSteps == {"load_case", "load_active_config", "resolve_bundle"}
Strategies == {"execute_candidate_selection", "execute_ranking", "execute_fund_waterfall"}

ASSUME OrchestrationAssumption ==
    /\ {RunBound, OperationBound} \subseteq Nat /\ Losses \subseteq SUBSET Nat
    /\ None \notin LoadingSteps \union Strategies
    /\ None \notin {"orchestration_completed", "orchestration_failed",
                    "compensation_executed", "replay_input_invalid",
                    "replay_consistency_failed"}

Keys == {<<"execute_orchestration", c, r>> : c \in RiskCases, r \in Requests}
        \union {<<"execute_liquidation_orchestration", c, r>> :
                  c \in LiquidationCases, r \in Requests}

VARIABLES
    accepted,  \* idempotency registry: key -> orchestration
    recorded,  \* result replay registry: key -> answer
    store,     \* the audit event store
    runs,      \* history: the orchestrations that were executed
    last       \* history: <<key, answer>> of the last call

INSTANCE CaseReplay

vars == <<policyVars, accepted, recorded, store, runs, last>>

-----------------------------------------------------------------------------
(* The orchestration saga.                                                 *)

Saga == [status |-> "started", completed |-> <<>>, plan |-> <<>>]

\* The steps that have succeeded so far.
After(done) ==
    [status |-> IF done = <<>> THEN "started" ELSE "in_progress",
     completed |-> done, plan |-> <<>>]

\* Strategy steps that succeeded are what a failure asks to compensate.
Fail(saga) ==
    LET done == saga.completed
        plan == Selected(done, {i \in DOMAIN done : done[i] \in Strategies})
    IN  [status |-> IF plan = <<>> THEN "failed" ELSE "compensation_required",
         completed |-> done, plan |-> plan]

Complete(saga) ==
    [status |-> "completed", completed |-> Append(saga.completed, "finalize"),
     plan |-> saga.plan]

Before(step) == SubSeq(Steps, 1, (CHOOSE i \in DOMAIN Steps : Steps[i] = step) - 1)

\* The steps before the failing one succeed; failing = None: all of them.
SagaOf(failing) ==
    IF failing = None THEN Complete(After(Steps)) ELSE Fail(After(Before(failing)))

\* Nothing is undone outside: each planned step is only reported as executed.
Compensation(saga) == Reverse(saga.plan)

-----------------------------------------------------------------------------
(* What a call meets.                                                      *)

OrchestrableStates(action) ==
    {"Detected", "Validating", "Classified"} \union
    IF action = "execute_orchestration" THEN {"EvaluatingADL", "PlanningADL"}
    ELSE {"Liquidating", "FundAbsorbing"}

\* The first step that fails, for the step whose port fails (or None).
FailingStep(action, view, port) ==
    IF port = "load_case" \/ view \notin OrchestrableStates(action)
    THEN "load_case"
    ELSE IF port = "load_active_config" \/ active = None
    THEN "load_active_config"
    ELSE IF port = "resolve_bundle"
            \/ ~BundleResolves(ActiveVersion.content)
            \/ ~DryRunSucceeds(ActiveVersion.content)
    THEN "resolve_bundle"
    ELSE port

ErrorOf(failing, port) ==
    CASE failing = "resolve_bundle" -> "bundle_resolution_failed"
      [] failing # "resolve_bundle" /\ port = failing -> "saga_step_failed"
      [] failing = "load_case" /\ port # failing -> "case_not_orchestrable"
      [] failing = "load_active_config" /\ port # failing -> "active_config_missing"

Answer(type, id, config, saga, replayed) ==
    [type |-> type, orchestration |-> id, config |-> config,
     executed |-> saga.completed, compensated |-> Compensation(saga),
     replayed |-> replayed]

ResultOf(failing, port, id) ==
    LET saga == SagaOf(failing)
    IN  IF failing \in LoadingSteps
        THEN Answer(ErrorOf(failing, port), None, None, Saga, FALSE)
        ELSE Answer(IF saga.status = "completed" THEN "succeeded" ELSE saga.status,
                    id, active, saga, FALSE)

Event(key, type) ==
    [case |-> key[2], type |-> type,
     caseType |-> IF key[1] = "execute_liquidation_orchestration"
                     /\ type \in {"Started", "Completed"}
                  THEN "liquidation" ELSE None]

\* The events of an orchestration, in the order of their publishing.
EventsOfRun(key, failing) ==
    LET saga == SagaOf(failing)
        done == IF failing = None THEN Steps ELSE saga.completed
        stepped == [i \in DOMAIN done |-> "StepCompleted"]
        end == IF failing = None THEN <<"Completed">>
               ELSE IF saga.plan = <<>> THEN <<"Failed">>
               ELSE <<"Failed", "CompensationPlanned", "CompensationExecuted">>
        types == <<"Started">> \o stepped \o end
    IN  [i \in DOMAIN types |-> Event(key, types[i])]

Heard(events, lost) == Selected(events, DOMAIN events \ lost)

-----------------------------------------------------------------------------
(* Actions.                                                                *)

Assign(map, key, value) ==
    [k \in DOMAIN map \union {key} |-> IF k = key THEN value ELSE map[k]]

\* Faulty: an orchestration that asked for compensation is remembered too.
RemembersCompensated(answer) ==
    answer.type \in {"succeeded", "compensation_required"}

\* Both registries are told, and only of success.
Remembers(answer) == answer.type = "succeeded"

Settle(key, id, answer) ==
    IF Remembers(answer)
    THEN /\ accepted' = Assign(accepted, key, id)
         /\ recorded' = Assign(recorded, key, answer)
    ELSE UNCHANGED <<accepted, recorded>>

Replayed(key) ==
    /\ key \in DOMAIN recorded
    /\ last' = <<key, [recorded[key] EXCEPT !.replayed = TRUE]>>
    /\ UNCHANGED <<accepted, recorded, store, runs>>

Conflict(key) ==
    /\ key \notin DOMAIN recorded /\ key \in DOMAIN accepted
    /\ last' = <<key, Answer("idempotency_conflict", accepted[key], None, Saga, FALSE)>>
    /\ UNCHANGED <<accepted, recorded, store, runs>>

Run(key, view, port, lost) ==
    LET id == Len(runs) + 1
        failing == FailingStep(key[1], view, port)
        answer == ResultOf(failing, port, id)
        events == EventsOfRun(key, failing)
    IN  /\ key \notin DOMAIN recorded \union DOMAIN accepted
        /\ Len(runs) < RunBound /\ Len(runs) + Len(trail) < OperationBound
        /\ Settle(key, id, answer)
        /\ store' = Appended(store, Heard(events, lost))
        /\ runs' = Append(runs, [key |-> key, failedAt |-> failing,
                                 all |-> Len(events), heard |-> Len(Heard(events, lost)),
                                 config |-> answer.config, changes |-> Len(Changes)])
        /\ last' = <<key, answer>>

\* executeRiskCaseOrchestration and executeLiquidationCaseOrchestration.
Execute(key) ==
    /\ \/ Replayed(key)
       \/ Conflict(key)
       \/ \E view \in CaseViews \union {None}, port \in ToSet(Steps) \union {None} :
            /\ port = None \/ view \in OrchestrableStates(key[1])
            /\ \E lost \in Losses : Run(key, view, port, lost)
    /\ UNCHANGED policyVars

PolicyCall ==
    /\ \/ \E d \in Descriptors, k \in Kinds, o \in {"sound", "faulty"} : Register(d, k, o)
       \/ \E v \in Versions : \E c \in ContentOf[v] : AddVersion(v, c)
       \/ /\ Len(runs) + Len(trail) < OperationBound
          /\ \/ \E v \in Versions, override \in BOOLEAN : Activate(v, override)
             \/ Rollback
    /\ UNCHANGED <<accepted, recorded, store, runs, last>>

Init ==
    /\ PolicyInit
    /\ accepted = [k \in {} |-> None] /\ recorded = [k \in {} |-> None]
    /\ store = <<>> /\ runs = <<>> /\ last = None

Next == PolicyCall \/ \E key \in Keys : Execute(key)

Spec == Init /\ [][Next]_vars

-----------------------------------------------------------------------------
(* Properties.                                                             *)

\* The registries hold what the runs left there.
TypeOK ==
    /\ PolicyTypeOK
    /\ DOMAIN recorded \subseteq Keys /\ DOMAIN accepted \subseteq Keys
    /\ \A i \in DOMAIN store : store[i].type \in EventTypes

\* A request is executed until it succeeds and never again: no run follows a
\* successful one, every later call is answered with the first success, and
\* the two registries agree, so that no call meets a key which one knows and
\* the other does not (risk-case-orchestrator.ts 85-97, 202-214).
RequestsRunOnce ==
    /\ DOMAIN accepted = DOMAIN recorded
    /\ DOMAIN recorded = {runs[i].key : i \in {j \in DOMAIN runs : runs[j].failedAt = None}}
    /\ \A i, j \in DOMAIN runs :
         i < j /\ runs[i].key = runs[j].key => runs[i].failedAt # None
    /\ last # None /\ last[1] \in DOMAIN recorded =>
         [last[2] EXCEPT !.replayed = FALSE] = recorded[last[1]]

\* The configuration that a run reports is the one which the audit trail of
\* that time says was in force (risk-case-orchestrator.ts 133-149).
RunsUseWhatWasActive ==
    \A i \in DOMAIN runs : runs[i].config # None =>
        /\ runs[i].changes > 0
        /\ runs[i].config = Changes[runs[i].changes].to

EndState(run) ==
    CASE run.failedAt = None -> "orchestration_completed"
      [] run.failedAt \in {"execute_ranking", "execute_fund_waterfall"} ->
           "compensation_executed"
      [] OTHER -> "orchestration_failed"

RunsOf(rs, case) == Selected(rs, {i \in DOMAIN rs : rs[i].key[2] = case})
LastOf(rs, case) == IF RunsOf(rs, case) = <<>> THEN None ELSE Last(RunsOf(rs, case))

HeardRuns == Selected(runs, {i \in DOMAIN runs : runs[i].heard > 0})
LastRun(case) == LastOf(runs, case)
LastHeard(case) == LastOf(HeardRuns, case)
Whole(run) == run.heard = run.all

CasesRun == {c \in RiskCases \union LiquidationCases : LastRun(c) # None}

\* When every event of a case's last run was heard, replaying the case shows
\* how that run ended, whatever was lost of earlier runs; an orchestration is
\* reported as completed only if the last one that was heard of completed;
\* and a batch that passes against the true ends is right about each case
\* (case-reconstruction.ts 41-108, batch-case-replay.ts 77-181).
ReplayTellsTheTruth ==
    LET truth == [c \in CasesRun |-> EndState(LastRun(c))]
        status == BaselineStatus(BatchReplay(store, truth))
    IN  /\ \A c \in CasesRun :
             LET replay == Replay(store, c)
             IN  /\ Whole(LastRun(c)) =>
                      /\ replay.error = None /\ replay.status = "succeeded"
                      /\ replay.finalState = truth[c]
                 /\ replay.error = None /\ replay.finalState = "orchestration_completed"
                      => LastHeard(c).failedAt = None
        /\ (\A c \in CasesRun : Whole(LastRun(c))) => status = "passed"
        /\ status = "passed" =>
             \A c \in CasesRun : Replay(store, c).finalState = truth[c]

\* The audit trail of the policy versions explains what is in force, with
\* which content, and what each run worked with.
TrailExplainsActive == ChangesChain /\ MarkIsApproval /\ RunsUseWhatWasActive

\* What callers were told and what the event store replays are the runs that
\* took place.
RunsAreAccountedFor == RequestsRunOnce /\ ReplayTellsTheTruth
=============================================================================
