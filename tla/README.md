# Verification of Tianqi: model, checks and proofs

Tianqi is a TypeScript monorepo for the risk handling of a trading venue: cases
of accounts in trouble are opened, liquidated, deleveraged or covered by an
insurance fund, by commands on repositories and by sagas of remote calls. This
directory holds TLA+ models of the parts of it where several things can go wrong
at once, the TLC runs that check them on small instances, and TLAPS proofs of the
properties that matter most for every instance.

How to run, in this directory:

    tlc -workers 2 -config SagaOrchestrator.cfg MCSagaOrchestrator
    tlapm SagaProofs.tla

`PROJECT.json` lists, for tools and readers alike, the components, the runs, the
lines of source behind every definition (`map`), mutants for every property (a
plausible slip in the code that the property catches), the finding, the hazards
and the theorems.

Paths below are relative to `src/packages/`.

## 1. Inventory

### Components

| Component | State | Operations | What is hard | What makes it correct |
|---|---|---|---|---|
| **SagaOrchestrator** `application/src/saga/saga-orchestrator.ts` | step statuses, contexts and overall status in memory, copied to one row per saga; audit trail; dead letters | `runSaga` (forward phase, compensation phase) | a failure, a lost acknowledgement, a timeout or a crash at any of its awaits; calls that go on after their timeout | the row is always enough to recover from; compensation in reverse; nothing is lost silently; answers are true |
| **Saga state stores** `adapters/saga-state-store-*` | rows by saga id | save, load, listIncomplete, delete | last write wins between processes | a save replaces the row as a whole |
| **Dead letter store** `adapters/dead-letter-store-*` | rows by entry id | enqueue, load, listPending, listBySaga, markAsProcessed | equal ids overwrite, marking is unconditional | acknowledged letters are kept |
| **SagaManualIntervention** `application/src/saga/saga-manual-intervention.ts` | none of its own: rows and audit | processDeadLetter | two operators on one entry, failure between mark and audit | who processed what was approved by another, and left a trace |
| **HTTP base engine** `adapters/external-engine-http-base` | life cycle, pool, circuit breaker, concurrency counter, last trace id | call, healthCheck, init, shutdown | many callers across every await, answers that arrive after the breaker moved, shutdown with calls asleep | slots exact, breaker exact, every call answered, shutdown final |
| **Engine adapters** `adapters/{match,position,margin,fund,mark-price}-engine-http` | none beyond the base engine | one method per remote operation | which answers are ok although the engine refused, which carry a key | what a saga reports is true of the engines |
| **Business sagas** `application/src/saga/{liquidation,adl,insurance-fund,state-transition}-saga.ts` | closures over one invocation; a stamp counter per process | runForCase | ids made of clock and counter; partial loops; loops that outlive their step's timer | one saga per id; every write acts once; outcomes are true |
| **Cross-saga coordination** `application/src/saga/cross-saga-coordination.ts` | none: reads the saga rows | checkActiveSagaForCase | the check and the run it guards are separate; crashed and compensating sagas | it sees every saga that acts |
| **Config file adapter** `adapters/config-file` | versions, active version, audit, files on disk, watcher | preview, activate, rollback, reload, init, shutdown, dryRun | awaits between pointer, audit line and state file; retention; reload by watcher; restart | acknowledged is audited on disk; no edit is lost; reloads settle |
| **Config memory adapter** `adapters/config-memory` | versions, active version, audit | the same without a disk | nothing interleaves | as above |
| **Kafka notification** `adapters/notification-kafka` | producer, consumer, subscribers | publish, subscribe, init, shutdown | acknowledgement lost, own messages come back, shutdown during publish | each handler once per message |
| **Memory notification, event stores** | subscribers; event tables | publish; append, read | little | delegated to the database |
| **Risk case commands** `application/src/risk-case-command-handler.ts` | the case, idempotency keys, command results | create, transition | reserve, load, save and publish are separate awaits; a key stays reserved when the work fails | a key runs once; no answer claims more than was saved and published |
| **Compensation commands, sink recovery** `application/src/compensation-command-handler.ts`, `sink-failure-recovery*.ts` | compensation records, recovery records, sinks | resolve, mark for manual intervention; markManuallyResolved of a recovery record | load, check and update apart; sinks that refuse after the update | no event is lost silently; only a stale read reopens |
| **Core case flow** `application/src/core-case-flow-command-handler.ts` | risk, liquidation and ADL cases, coordination results | create, derive, transition, coordinate | partial failure between the two cases, stale and repeated signals, restart | a failed subcase reaches its risk case; nothing is closed over an active one; facts keep their meaning |
| **Coordination result repair** `application/src/coordination-result-repair-*.ts` | repair records | repair, retry, confirm | registry in memory and store of facts drift apart | repaired means stored |
| **Diagnostic queries and alert suppression** `application/src/coordination-diagnostic-*.ts`, `diagnostic-alert-suppression-*.ts` | history slot, suppression states, lifecycle slots, command records; in memory views, alerts, lifecycles | query; repair, retry, confirm | counts handed between processes; three writes of one repair; memory moved before it is stored | counts are observed and never lost; slots name stored records; promised repairs last |
| **Domain** `domain/src` | none | transition rules | copies of the rules in sagas and handlers | copies agree |
| **Policy** `policy/src` | implementations, versions, the active one, audit records | register, add, activate, roll back | rollback of a rollback, versions added anew | the trail explains what is in force |
| **Orchestration** `application/src/*case-orchestrator.ts` | two registries of requests, audit events | execute | failure at any step, lost audit events, retries | a request succeeds once; what is answered and audited happened |
| **Case replay** `application/src/*replay*.ts`, `case-reconstruction.ts` | audit events | replay a case, a batch, compare | streams of several runs, with holes | a replay that says completed is right |
| **Acceptance of phases 2 to 7** `application/src/*-{difference-matrix,acceptance-gate,final-acceptance,close*}.ts`, `policy/src/policy-config-*` | none: each part is handed to the next | matrix, gate, final acceptance, close | parts of different moments; drift that no named check watches; thresholds | closed exactly when nothing drifted badly |
| **Recovery display, read views, harnesses** `application/src/recovery-display-*.ts` | none | views and templates | - | not modelled: presentation |
| **Contracts, ports, shared, test kit** | none | - | - | read as the documentation of the above |

### How they interact

A caller runs a business saga, which builds its steps and calls `runSaga`. Steps
call engine adapters, each of which is a thin layer over an HTTP base engine.
`runSaga` awaits three ports: the saga state store (a failure ends the saga), the
audit event sink (a failure is reported and ignored) and the dead letter store (a
failure is reported and ignored). What it cannot undo it leaves to operators, who
call `processDeadLetter` on the same dead letter store. There is no recovery of
interrupted sagas in the code yet; the rows are written for one.

Beside the sagas stand the command handlers. The risk case handler answers a failed
publish with a marker, for which a compensation record is kept that operators move
on; the handlers of both write audit and metrics events to sinks, and leave a
recovery record when a sink refuses. The core flow handler coordinates a risk case
with its subcases and remembers what it decided in a registry in memory and a store,
which the repair handler reconciles; the diagnostic query looks at the same facts,
raises alerts and counts how often it has, and its own repair handler mends the
state it counts in. The orchestrators run policies of the version that is active and
write audit events, which the replay turns back into the end of each case. The
acceptance pipelines judge all of it in scenarios.

Everything runs on the JavaScript event loop: code between two awaits is atomic, at
each await any other call may run, and several processes may share the stores. The
policy package, the orchestrators, the replay and the acceptance pipelines have no
await in them.

## 2. Modules

| Module | Models | Source |
|---|---|---|
| `SagaOrchestrator` | one invocation of `runSaga` | saga-orchestrator.ts |
| `SagaProperties` | what it promises | - |
| `UndoStack`, `SagaRefinement` | the abstract specification of a saga row, and the mapping | - |
| `SagaInvariant`, `SagaProofs` | the inductive invariants, their proofs and that of the refinement | - |
| `DeadLetterStore` | rows, ids and clock shared by orchestrator processes | dead-letter-store-memory.ts, id generator |
| `ManualIntervention` | `processDeadLetter`, on top of `DeadLetterStore` | saga-manual-intervention.ts |
| `HttpEngine` | `createHttpBaseEngine` | http-base-engine.ts |
| `SagaPlans` | steps and calls of the business sagas; methods of the engines | the four sagas, the five adapters |
| `CaseSagas` | business sagas over engines, rows and the coordination | the sagas, cross-saga-coordination.ts, the saga stores |
| `EngineProofs` | proofs of `HttpEngine` and `CaseSagas` | - |
| `ConfigFile` | the config file adapter | config-file.ts |
| `ConfigFileProofs` | its proofs | - |
| `CaseRules` | state machines, linkage and arbitration | domain, core-case-flow-command-handler.ts |
| `CaseFlow` | the core flow commands | core-case-flow-command-handler.ts and the registries |
| `CoordinationRepair` | repair commands, on top of `CaseFlow` | coordination-result-repair-command-handler.ts |
| `RepairProofs` | proofs of `ManualIntervention`, `CaseFlow` and `CoordinationRepair` | - |
| `Compensations` | compensation records, sinks and their recovery | compensation-*.ts, sink-failure-recovery*.ts, command-result-query-handler.ts |
| `RiskCommands` | risk case commands, on top of `Compensations` and `CaseRules` | risk-case-command-handler.ts |
| `RiskCommandsProofs` | its proofs | - |
| `Selections` | `filter()` on arrays | Array.prototype.filter |
| `PolicyVersions` | registries, preflight, activation, rollback | policy-config-*.ts, policy-bundle-*.ts, policy-registry.ts |
| `CaseReplay` | audit events and their replay, as operators | replay and reconstruction files |
| `Orchestrations` | both orchestrators, on top of `PolicyVersions` and `CaseReplay` | risk-case-orchestrator.ts, liquidation-case-orchestrator.ts |
| `OrchestrationsProofs` | proofs of these three | - |
| `DiagnosticAggregate` | the aggregate view and the acceptance of phase 2, as operators | core-case-diagnostic-aggregate-*.ts |
| `AcceptancePhases` | what phases 3 to 7 compare and watch | their matrices and gates |
| `AcceptancePipeline` | matrix, gate, acceptance and close, as actions | the same, with final acceptance and close |
| `AcceptanceProofs` | proofs of these three | - |
| `DiagnosticViews` | view, history comparison, suppression state, as operators | coordination-result-diagnostic-*.ts, coordination-diagnostic-*.ts |
| `AlertSuppression` | queries and repair commands | coordination-result-diagnostic-query-handler.ts, diagnostic-alert-suppression-*.ts |
| `AlertSuppressionProofs` | its proofs | - |
| `MC*` | instances for TLC | - |

Operators whose comment begins with "Faulty:" are not part of a specification.
Each is a slip the definition after it could contain; it is substituted for that
definition to see that a property notices.

### SagaOrchestrator

`overallStatus`, `currentStepIndex`, `stepStatuses` and `compensationContexts` are
the fields of `InternalSagaState`; `durable` is the row in the saga state store.
`pc` names the await the code is at: `save_*` for each `persist`, `audit_*` for
each `auditAppend`, `execute` and `compensate` for the two races with the timer,
`enqueue` for the dead letter; `forward`, `failed` and `backward` are the loop
heads and the branch between the phases. `i` and `j` are the loop indices,
`succeeded` the array of that name. Steps are numbered from 1.

 * A save that is acknowledged replaces the row (`SaveOk`); one that fails ends
   the saga (`SaveFails`) and may or may not have reached the store.
 * An audit append may fail and changes nothing else (`AuditAppend`); failures are
   possible at the points of `FallibleAppends`, which keeps the subsets of events that TLC
   has to look at few; the proofs are for any such set.
 * A step's call is put in `inFlight` when it is made. `Land` moves its effect into
   `world`, whether or not the orchestrator still waits: a timeout abandons the
   call but does not stop it, as `withStepTimeout` says. A step can answer ok only
   when its effect has landed, and can fail at any time.
 * `elapsed` is what `clock()` says since the start, `timer` what is left of the
   installed timer. A timer may fire `TimerSkew` ticks before the clock agrees: that
   is the difference between `setTimeout` and the millisecond clock that made the
   verdict on timeouts a race once (docs/hotfixes/ki-p8-003-resolution.md).
 * `Crash` stops the process at any await, `StepThrows` rejects `runSaga`.

### DeadLetterStore and ManualIntervention

A dead letter is the n-th of its process; its id is the clock and the counter. An
enqueue writes its row whatever was under that id before. `ManualIntervention` adds
the calls of `processDeadLetter`: `Submit` (two signatures), `Load` (with the status
check), `AppendRequested`, `Mark`, `AppendApplied`, each one await, each with its
failure and the lost acknowledgement that the caller takes for one. The life cycle
guards of the stores are failures of the calls. A call that crashes is not resumed.

### HttpEngine

Each caller makes one call after another. `sent`, `refused`, `unsent` and `backoff`
tell where an admitted call is; `sentTrace` is the trace id on its latest request;
`failed` counts the calls that failed since the last success, independently of the
breaker, so that the two can be compared. undici's pool is external: once closing it
refuses new requests and `close()` resolves when those in flight are over. The
breaker's failures are counted up to the threshold, its age up to the reset time,
both being only compared with these. `ReadHealth` is the caller's and only tells one
answer from the next.

### SagaPlans and CaseSagas

`SagaPlans` writes down, for each of the four sagas, the calls of every step's
execute and compensate, the idempotency key of each, and which field of an output
the next step uses; a placeholder (`"<unknown>"`, `"ord-adl-placeholder-"`) counts as
an absent field. `AnswerFields` says what each method of an engine adapter insists on.
`CaseSagas` runs them: `Check` is `checkActiveSagaForCase`, `RunForCase` draws the id
from clock and counter, `BeginStep`, `CallSucceeds` and `StepFails` move through a
step's loop, `Close` saves the outcome. A request goes to `wire` when it is sent and
stays there, so it can arrive late and again; `engine` remembers what it performed,
refused and performed twice. A step that fails while its loop has calls to make may
leave the loop behind as a ghost. `Restart` loses the calls and the counters, not the
rows. The orchestrator is at the granularity of its steps here.

### ConfigFile

`mem` is what the closure of `createFileConfig` holds, `disk` the history directory.
Each await on a file ends an action: `WriteVersionFile`, `WriteVersionState`, `Retire`,
`MarkLoaded`, `AppendAuditLine`, `CommitActivation`, each with its failure. `jobs` are the
versions being persisted, for a load or for the preview that goes on in the background.
`gate` is `reloadInFlight`: all that queued behind one reload wake together (`Released`).
A write of state.json carries the memory of the moment it was issued. `Crash` may come
at every await; `Start` is init, with the restore and its checks.

### CaseRules, CaseFlow and CoordinationRepair

`CaseRules` has the rules of the three state machines as triples, the linkage policy and
the arbitration of a terminal subcase. `CaseFlow` has one open command per caller and
one action per await: load, save, list, look up, put. `call` carries what the command has
read (`own`, `parent`, `seen`), so that it can be stale. A coordination result is
known by subcase and time of its signal. `Restart` empties the registry.
`CoordinationRepair` adds the three repair commands on the same registry and store.

### Compensations and RiskCommands

`Compensations` has the records, the two sinks, the recovery records and the operators'
commands (`ops`), one action per await; a failing write may have landed. The identity of
a recovery record is made of what failed and when. `RiskCommands` adds the risk
case commands: `Reserve`, `Reuse`, `Load`, `Save`, `Publish` and their failures.
`RememberResult` and `RecordMarker` stand for the code, not in the repository, that
stores results and markers; they may come at any time after the answer, or never. An
answer in `answers` is the processing it reports and whether it was told as a success.

### PolicyVersions, CaseReplay and Orchestrations

Everything is synchronous, so a call is an action. `PolicyVersions` has the registry of
implementations, the versions with content and status, the active one, and `trail`, the
audit records. `approved` remembers which content passed its preflight. In
`Orchestrations`, `Run` is one execution: `FailingStep` finds the first step that fails
from the view of the case, the active version and the port that is made to fail;
`EventsOfRun` are its audit events in order, of which `Losses` takes some away before they
reach the store. `CaseReplay` reads the store by the reconstruction of the code.

### AcceptancePhases, AcceptancePipeline and DiagnosticAggregate

An observed field is a name that still has its baseline value or has drifted. What one
change of the product can make drift together is in `PhaseNMoves`: a field that a scenario
writes as a literal, or compares with itself, is in none. The parts are actions of
`AcceptancePipeline`, because each is exported and takes the parts before it as
arguments: `Assemble...` may be handed the gate of the run before. Phase 2 is one call
over signals (`RunPhase2FinalAcceptance`), so `DiagnosticAggregate` defines its builder,
matrix, gate, checklist and validators as operators on signals.

### DiagnosticViews and AlertSuppression

`DiagnosticViews` computes, from signals about a fact, the view with its conclusion,
compares it with the history slot, and reads, judges and repairs a stored suppression
state; versions of schema and rules are reduced to how they are read. `AlertSuppression` has a query
as a chain of awaits: history, lifecycle, state, put of the state, slot, rotation of the
history; and a repair command as sync, read, put, record, slot. What a process remembers
(`latest`, `alerts`, `lives`) is per process, the stores are shared. Left out of a query's end
are the two reads that link a slot with the repair command it names (query-handler lines
331-333, 387, 398): they change nothing, and no property depends on them. `seen`, `promised`
and `confirmed` are history variables.

## 3. Runs

| Run | Shows | Distinct states |
|---|---|---|
| `saga_orchestrator` | three steps under all failures, crash included: row, dead letters, audit, outcome and world agree, and `runSaga` settles though steps need not answer | 1,153,840 |
| `manual_intervention` | two calls, two processes with letters whose ids may be equal: approval, trail and rows agree, a row is lost only under an id drawn twice | 4,064,420 |
| `http_engine` | three callers, two slots, threshold two, one retry: slots and breaker exact, every call answered, shutdown final | 13,312 |
| `config_file` | two reloaders, an operator, edits, failing writes, retention, crashes: nothing acknowledged is missing from the audit file, no edit is lost, reloads settle | 191,691 |
| `retention_spares_active` | violated: retention removes the active version, section 6 | |
| `case_sagas` | two sagas of all kinds on one case, late, repeated and refused requests, a restart: reports are true of the engines, nothing acts twice, runs are told apart | 1,104,779 |
| `case_flow` | two commands on a risk case with two subcases next to repairs, failing repositories, restarts: no failure is lost, nothing is closed over an active subcase, facts are replaced by equivalent ones | 1,454,024 |
| `case_races` | two overlapping commands on one risk case: what is over is left only from a stale read, failures and closes go wrong only there | 1,221,653 |
| `risk_commands` | two commands that share a key or a case, two operators, failing ports and sinks, restarts: keys run once, answers claim no more than was done, events accounted for | 2,041,187 |
| `acceptance` | phases 2 to 7 with up to two changes and two runs of the matrix: closed exactly when nothing drifted badly, and notices arrive | 85,832 |
| `orchestrations` | two versions, two runs that fail anywhere and lose events: the trail explains what is active, answers and replay what ran | 324,616 |
| `alert_suppression` | queries of two processes and a repair command: what a repair mends stays mended, slots name records, counts are true | 2,681,653 |

A property that is a conjunction names parts that stand in its module with a comment
each: `RecordsAreKept`, `RunsAreIdentified`, `OnlyStaleReadsHarm`, `TrailExplainsActive`,
`RunsAreAccountedFor`, `RepairsTellTheTruth` and `CountsAreTrue`. The type invariants of
all modules are stated; that of the saga is checked in `saga_orchestrator`, and those of the
saga, the manual intervention, the HTTP engine, the risk commands, the config file, the
coordination repair, the alert suppression and the orchestrations are proved. The
acceptance has no type invariant: its invariant says exactly what each part is.

### Bounds, and why they are enough

 * **Saga.** Three steps: a failed compensation can have one before and one after it,
   and the failing step can be preceded by two. Step timeout 2 with budgets 1, 3, 5 and
   none: a budget below, between and above multiples of the step timeout, so that it is
   spent before a step, during it, exactly at its end and never. `MaxElapsed` is above
   every budget, later instants compare alike. Audit appends fail at five points, in both
   phases and at the end. The default budget is none; what a default does to an invocation
   without a budget of its own is what its own does to one that has it.
 * **Manual intervention.** Two calls with every pair of signatures and every entry id,
   two processes with two letters each in two milliseconds: a process that draws twice, and
   two that draw one id because both count 1 while the clock stands, both occur.
 * **HTTP engine.** One caller more than there are slots, a threshold two calls can reach
   while a third is under way, one retry. `HttpEngine` never deadlocks.
 * **Config file.** Two contents, two version numbers and one kept version: the second
   version already makes retention remove one. One audit line: a further activation stops
   at its append, where it may still fail. No deadlock: a crash is always possible.
 * **Business sagas.** Two runs, one of any kind and one state transition, on one case: two
   of one kind and two of different kinds occur. Loops of two targets, so that one can be
   done and the other not; `Checks` 1; one refusal; one restart.
 * **Case flow.** `case_flow`: two commands, one after the other, in states a case may be in
   when the first arrives, two times and two config versions: older, equal and newer signals
   occur, and repairs overlap with the commands. `case_races`: two commands that overlap at
   every await, at one time, without repairs; two are enough for one to save over what it
   has not read. What it means that a read is stale is in the variables `stale`, `raced` and
   `reopened` of `CaseFlow`, which record what happened and change nothing.
 * **Risk commands.** Two commands and two operator commands (`CommandBound`, `OperatorBound`) at once;
   one key that the port enforces and one it does not. With `Horizon` 0 all times
   are equal, so recovery records of one command collide as often as they can. Callers
   and operators are symmetric there.
 * **Acceptance.** A drift in one run and another in the next is what two runs and two
   changes give. In phase 2 one signal of one case changes, and summaries are worded anew
   in none, one, two, three or all scenarios: two to three is where the escalation is.
 * **Orchestrations.** Two versions, of which one may be added with different contents; two runs and
   three runs and version changes together; one request per case, so that the second run
   of a case is a retry; losses of the first, second, or eighth event, of nearly all and of all.
 * **Alert suppression.** `EventBound` 4 counts queries, commands, failures of stores,
   changes of signals and restarts together: two queries, a command and a failure, or two
   queries, a change and a restart, and so on. Stores begin empty, with a
   state of an older version, with a malformed one of a foreign version, with one of an
   invalid severity, or with one of a blank version, an unknown source and times out of order.

`CHECK_DEADLOCK FALSE` stands where the system stops when all calls are answered or the
bound is spent. Symmetry is used for the calls and processes of the manual intervention and in
`risk_commands`; never where liveness is checked.

### Fairness

`saga_orchestrator` assumes weak fairness of the orchestrator's own steps (its code, answers
of the stores, timers that are due) and of time. Steps need never answer. The code gives
the stores no timer, so that they settle is an assumption about their drivers.
`http_engine` assumes that an attempt ends, a probe ends and a backoff ends, which their
timers see to (`attemptOnce` line 346, `healthCheck` line 618, `sleep`), and that a pool
with nothing in flight closes. No caller is assumed to call, and callers may call for ever.
`config_file` assumes that every write of a file ends, well or not, and that an open
call goes on after it; nobody is assumed to edit, reload or activate. The other modules
state no fairness: their commands have no timers, and what the code promises is about
what is in the stores when a command is over or was cut off.

## 4. Abstract specification

`UndoStack` is a saga as seen by someone who reads its row: a stack of done steps, pushed
while going forward, popped from the top once a step failed, closed when full or empty,
with a verdict that depends on what could not be undone. `RowIsUndoStack` says that the
row of `SagaOrchestrator` implements it under a mapping that reads nothing but the row:
it is what a recovery could start from. It is model-checked in `saga_orchestrator` and proved as
`RowRefinesUndoStack`: the first row reads as the empty stack, and each save that lands is
one step of `UndoStack` or a stutter. The proof needs to know how the row that a save is
about to replace reads (`RowBefore`), because the mapping sees the old row and the new one
and the program sees only its memory.

## 5. Proofs

TLAPS checks these for every value of the constants that their assumptions allow:
numbers of steps, timeouts, budgets, callers, slots, people, processes, letters, versions,
contents, cases, subcases, targets of a loop, categories and restarts. The assumptions
say that bounds and timeouts are numbers, that the value standing for nothing is not one of
the things, a step or an outcome (`NoneAssumption`, `NoStatusIsNone`, `PolicyAssumption`,
`OrchestrationAssumption`), that there is a first configuration version
(`CasesAssumption`), that callers ask for sagas there are (`CallersAssumption`), that each
query and command runs in a process (`HomeAssumption`), that the states found at the start are
of the shapes `StoredStates` lists (`StoresAssumption`: every combination that the readers and
the repair tell apart, malformed ones included), and that phases are those there
are (`PhasesAssumption`); each run evaluates those of its module.

Hardly any of the properties is inductive. Every invariant below was checked on the
instance of its run before it was proved; an invariant is a conjunction of named parts, and
its preservation has a step for every action and under it one for each part the action can
disturb.

 * **`SagaProofs`.** That the row says enough depends on
   where the program is and on how memory and row differ there. `SagaInvariant` states
   this as a conjunction: which statuses, indices and overall status memory holds at each
   program point; that the row is memory, or memory before its latest change; that
   what is in flight or has landed is accounted for by statuses; and that `succeeded` is
   the sequence of the steps done. One lemma per action or group of like actions shows
   that the invariant is kept. From it: `TypeCorrect`, `WriteAhead`, `ContextsAreSaved`,
   `ReverseCompensation`, `FinalMeansSettled`, `OutcomeIsTrue`, `OutcomeSaved`, and the
   action property `RowMovesForward`. `PromisesInv` strengthens it: how the row about to be
   replaced reads (`RowBefore`), what the final status tells (`VerdictIsKnown`), that a failed
   compensation is enqueued, reported, or the one at hand (`LettersInv`), that the timeout in
   force is the one computed before the step (`VerdictInv`), and that a final row is not
   replaced (`FinalRowStays`). From it: the refinement `RowRefinesUndoStack`,
   `DeadLettersAreAccountedFor`, `TimeoutVerdictIsDecided` and `AuditFollowsRecord`.
 * **`EngineProofs`**, for the HTTP engine: `SlotsNeverLeak`, `BreakerCountsCalls`,
   `ShutdownIsFinal`, `LimitsRespected`. Slots need the cardinality of the set of admitted
   calls, which changes by one when a call enters or leaves (`OneMoreHolder`,
   `OneHolderLess`). The invariant adds that life cycle and pool go together and that a
   sleeping call has attempts left. For the business sagas: `RunsAreToldApart`,
   `EffectsActOnce`, `OutcomesAreTrue`. `IdentityInv`: an id was drawn from a stamp of this or
   of an earlier millisecond, and no two runs have drawn the same. Idempotency keys are then
   injective because the writes of a plan have different tags (`StepsAreTagged`,
   `WritesTellApart`), so an engine performs nothing twice however late or often a request
   arrives. `ProgressInv`: what a run has behind it was processed.
 * **`RepairProofs`**, for the manual intervention: `InterventionTypeCorrect`, `DoubleAudit`
   and `NoSilentProcessing`. The invariant adds that a call past its REQUESTED event has that
   event in the trail and two different signatures, and that a call past its mark will leave a
   trace. `RecordsKept` is for any number of processes, two of which can draw one id in one
   millisecond: an enqueue of a process writes under an id whose number is above those of its
   own rows (`RowsInv`), so what takes a row away is a letter of another process under the
   same id. For `CaseFlow` and the repairs together: `TypeCorrect`, `RepairsTellTheTruth`,
   `FactsKeepTheirMeaning`, from `FactsInv`, by which a command that is about to write a fact
   holds one that does not contradict what is stored; and `FailuresReachTheRiskCase`,
   `ClosedCasesHaveSucceeded`, `EndsAreKept` and, of the three, `OnlyStaleReadsDoHarm`, from
   `CasesInv`, by which what a command has read still holds when it saves, or the command is
   recorded as stale. All of them are for any
   number of commands and repairs that overlap in any way; there is no hypothesis that commands
   on a case come one at a time.
 * **`ConfigFileProofs`.** `TypeCorrect`, `AuditedFirst`, `EditsAreKept`. `CallsInv` ties each
   job to the call that waits for it. `AuditInv` counts: the lines on disk pay for those in
   memory and for the calls that have appended and not committed, so no line is acknowledged
   twice on one append. `EditsInv` says that a content recorded as loaded, in memory, on disk or
   in a write of state.json under way, is in a version file with a lower number than any to
   come, which nobody is writing.
 * **`RiskCommandsProofs`.** The commands and the operators share only the actions that record a
   marker and restart, so each half has its invariant. A key that is enforced lets one
   command through, once (`KeyIsExclusive`): `KeyRunsOnceHolds`. `AnswersTellTheTruthHolds`: a
   result in the store repeats an answer that was given, so a duplicate, which is told success
   in any case, was told it of a completed command or of one that had been told failure. Where an operator's
   command stands says of its past whether the event has a recovery record
   (`JobKnowsItsPast`): `EventsAreAccountedForHolds`, and the action property
   `ReopenedOnlyByStaleReadHolds`.
 * **`AlertSuppressionProofs`.** `TypeCorrect`, `RepairsAreTrue`, `CountsHold`. For each value
   that a query or command carries from one await to another, `QueryInv` and `CommandInv` say
   what was true when it was read. It still is, because mended states, counts of
   observed alerts, records and accepted confirmations only grow, across restarts too. What no
   repair touches (severity, trigger source, a blank or foreign version) may keep a state from
   being readable, and `RepairsAreTrue` says so.
 * **`OrchestrationsProofs`.** `TypeCorrect`, `TrailExplains`, `RunsAccounted`. That the trail is a
   chain is not inductive, because a rollback goes where the active version remembers having
   come from: `TrailInv` says that this is where the last change came from, unless the version was
   added anew over the active one, which leaves a draft without a memory. `RunsInv`: every run
   saw a prefix of the changes. `StreamTells`: the last event of a case that was heard is of its
   last heard run, and a last run all of whose events were heard ends the stream with its end.
   The lemmas on `Selected` say what `filter()` keeps, by position and in order; on them rest those
   on the events of a case and of a run. What a run that
   fails at a step has done, undone and published is in `SagaOfFailure` and `EventsOfARun`.
 * **`AcceptanceProofs`.** `DecisionsMatchDrift`, `NoticesAreKept`. The invariant is that every part
   is what the code makes of the parts before it, and that the gate is of the labels it
   judged, which need not be those of the matrix at hand. `TablesFit` says of each phase that its
   checks of coverage always pass and that its eight checks have different names, so that a failed
   check is one of drift. For phase 2 the proof counts blocking and ordinary drifts.

Every safety property of a passing run, and every action property, is a theorem, as is
`RecordKeepsCompensationContexts`, which no run checks. Only
model-checked:

 * liveness (`RunSagaSettles`, `CallsAreAnswered`, `ShutdownEnds`, `ReloadsSettle`), which is
   beyond the prover, as is anything with ENABLED;
 * `RetentionSparesActive`, which is violated. `TypeOK` of `CaseSagas` is stated and neither run nor
   proved: the proofs there use a `TypeInv` of their own, which leaves out what bounds give.

No module declares a RECURSIVE operator, which the prover cannot treat. `filter()` is a recursive
function of the places that pass (`Selections`), since `SelectSeq` takes an operator and is opaque
to the prover, as are the `@@` and `:>` of TLC, for which `AcceptancePhases` has `++`. Induction
rules of the library take operators too; the lemmas on `Selected` go by the least counterexample
(`SetInduction`, from `WFMin`), over sets of numbers.

## 6. Where code and documentation disagree

One of these is a violated run, `retention_spares_active`. Retention reads the active
version once and removes files one await after another (config-file.ts line 411). TLC's
trace: version 2 has been previewed and its file is written, retention begins while version 1
is active, an activation moves the pointer to version 2 and awaits its audit append, the
file of version 2 is removed. When the activation's writes then succeed, it is
acknowledged, state.json names a version without a file, and the next init throws
(line 805). The comment on retention (402-403), the adapter's README (line 126) and
docs/phase8/12 (line 269) say that the active version is spared; the comment also spares
what the last audit entries name, which the code does not ask. With one version kept, as in
the run, it is the newest that goes; with more, an old one that is activated again.

What follows was met while modelling. The models do what the code does, and the
properties are stated so that they say exactly how far a promise goes.

Configuration file:

 * `preview` puts a version in memory and writes its file in the background (lines 471-486).
   Activated before that, the version is named by state.json and has no file; if the process
   stops then, the next init throws. The comment on the mirror says that every
   mutator writes to disk first, so that a crash leaves the disk in an earlier but consistent
   state (180-182). The comment on `preview` calls it a convenience of the test kit,
   but callers have no other.
 * An activation that fails puts the pointer back to what it was at its start (500, 525),
   over whatever another activation did meanwhile: one that was acknowledged, or
   one that failed, in which case the pointer ends on a version nobody's activation of
   which was acknowledged. A reload is one of them, and the adapter's README (line 226) and
   docs/phase8/12 (line 9) say that a failed reload leaves the active version as it was.

Sagas and engines:

 * A failed step may have an effect: its call outlives its timeout, and a step that timed
   out is not compensated. A saga that ran out of its budget after a step had succeeded
   reports `compensated` or `partially_compensated`, not `timed_out`.
 * Dead letter ids of two processes can be equal, and the later letter overwrites the
   earlier. Two concurrent interventions on one entry can both succeed.
 * A retried request can carry the trace id of another call. A health check can report
   healthy when the breaker has opened during its probe. The total timeout of a call is
   armed for each attempt.
 * A transfer or an order that the engine answers as refused counts as done. A loop that
   fails half-way through the accounts is not undone by its step, which is not
   compensated. Two callers can both find no active saga on a case.

Cases and commands:

 * A create command repeated with the id of a subcase that is over writes it back to
   Initiated (core-case-flow-command-handler.ts line 239), a transition the state machine
   excludes (liquidation-case-state-machine.ts line 108). `EndedLeftOnlyByStaleRead` allows
   this and the save of a command with a stale read, and no other way out of a terminal state.
 * Commands on one case that overlap overwrite each other's saves; nothing locks a case. A
   risk case that was over can become active again, and a case can be closed over a subcase
   that failed in between; the properties of `case_races` say that only a stale read can do it.
 * A resolved compensation is opened again by a command that had read it before
   (`ReopenedOnlyByStaleRead`).
 * A duplicate of a command that was answered with a failure after its save (publish or mapping
   failed) is told `success: true` with the processing of the failure, once its result is
   stored (risk-case-command-handler.ts line 528). docs/02-result-reuse-and-recovery-semantics.md
   (lines 7-12) says that a snapshot that is found is a success, whatever it says;
   docs/01-application-failure-semantics.md says that the command as a whole failed (50-56)
   and that a duplicate is answered with a conflict (24-30). After a failed mapping
   the duplicate also carries the marker `not_required`. `AnswersTellTheTruth` names this one
   success that is not of a completed command, and excludes all others.
 * A recovery record names the command, case and moment of a refused event but not what
   changed, and no code appends the event again: `markManuallyResolved` closes the record.

Policy, orchestration and replay:

 * A rollback does not look at the status of its target, so a version that has been
   rejected since can come back. A version added again over the active one stays in
   force with content that passed no preflight, without the mark of being active.
 * `idempotency_conflict` cannot occur: both registries are written together. The
   compensation of an orchestration is a plan without side effects. A replay takes the
   type of a case from the payload of its events, so a liquidation whose first
   event is lost is replayed as a risk case.

Acceptance:

 * Some checks of phases 5 and 7 look at fields that are literals, or at baselines that
   are computed from the same values, so they cannot fail. The notices of a matrix are
   lost when the phase is closed with the gate of an earlier run. The preflight's
   `passed_with_notice` cannot occur. `recommendedNextStep` is not compared in the phase 2
   scenarios.

Diagnostics:

 * A validation that passed shares the suppression key of a real conflict: the
   severities differ, and from then on the count is not stored. A state that is malformed
   and of a foreign version is answered repaired and remains of the foreign version.
 * A state malformed by its severity, its trigger source or a blank version is touched by no
   rule of the repair (coordination-diagnostic-alert-suppression-state-repair.ts lines
   186-227): the answer is `noop`, "already compatible and requires no repair", or `repaired`
   if something else was mended, and the state stays malformed. docs/phase2/18 line 72 says
   `noop` is for what is valid and compatible. `RepairsTellTheTruth` says of such a state that
   everything else in it is in order.
 * The slot that a query writes names no command record, so the link of a command is gone
   with the next query. A query moves any lifecycle to repaired, and the slot then written
   may be one that readers refuse; what a restart reads then is nothing.
 * A confirmation that is refused because its slot could not be written was readable in
   memory until then, and a query may have stored it (`ManualWasConfirmed`
   asks that one was accepted, not that it was answered so).

## 7. Not modelled, and the plan

Left out of the models for good:

 * `recovery-display-adapter.ts` and the read views: tables of wording and templates over
   given records. `coordination-result-query-handler.ts` and the other query handlers
   only read.
 * What the policies compute (ranking, selection, waterfall): one pass over a list, without state.
 * Databases below their ports; event stores and saga stores are single rows.
 * The memory variants of configuration and notification, in which nothing interleaves.
 * Resume helpers, path comparison, fault drills, preflight and runbook of phase 7, which have no
   caller but tests and return a report. Re-exports, error constructors, types.

Not modelled yet: the Kafka notification adapter (instances, acknowledgements that are
lost, own messages, shutdown during publish). It is the next module of the plan.
