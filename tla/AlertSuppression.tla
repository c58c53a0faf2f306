--------------------------- MODULE AlertSuppression ---------------------------
(***************************************************************************)
(* The diagnostic query of one fact and the commands that repair what it   *)
(* suppresses alerts by.  CoordinationResultDiagnosticQueryHandler and     *)
(* DiagnosticAlertSuppressionStateRepairCommandHandler share, in each      *)
(* process, the registry of repair lifecycles; the processes share the     *)
(* four stores.  Every await on a store ends an action: it answers, or it  *)
(* fails.                                                                  *)
(*                                                                         *)
(* A suppression key is the fact and a category, so it is written as the   *)
(* category.  Each command has an instant of its own, which is what its    *)
(* record's identity is made of.                                           *)
(*                                                                         *)
(* Operators whose comment starts with "Faulty:" are not part of the       *)
(* specification.                                                          *)
(***************************************************************************)
EXTENDS DiagnosticViews

CONSTANTS
    Categories,         \* categories of the alerts
    Processes,
    Readers,            \* queries that can be open at once
    Operators,          \* repair commands that can be open at once
    Home,               \* the process of a reader or an operator
    LiveSignals,        \* signals there may be about the fact
    FirstSignals,       \* those there may be to begin with
    InitialStores,      \* [history, states] the stores may begin with: None is nothing
    EventBound          \* queries, commands, failures, changes and restarts together

ASSUME BoundsAreNat ==
    /\ EventBound \in Nat
    /\ FirstSignals \subseteq LiveSignals /\ LiveSignals \subseteq Signals

\* Each query and each command runs in a process.
ASSUME HomeAssumption == \A c \in Readers \union Operators : Home[c] \in Processes

\* What earlier versions and other writers left of the states may be any of those the
\* reader tells apart.
ASSUME StoresAssumption ==
    \A i \in InitialStores : i.states \in [Categories -> StoredStates \union {None}]

\* None is no state, alert or record.
ASSUME NoneAssumption ==
    /\ None \notin StoredStates
    /\ None \notin [severity : {"info", "warning"}, count : Nat]
    /\ None \notin [id : Nat, key : Categories, status : RepairStatuses]

VARIABLES
    live,       \* the signals there are now
    history,    \* the stored history slot
    latest,     \* the latest view each process remembers
    alerts,     \* severity and count of the alerts each process remembers
    states,     \* the stored suppression states
    lives,      \* the repair lifecycles each process remembers
    slots,      \* the stored lifecycle slots
    records,    \* the stored command records
    query,      \* where each query is
    command,    \* where each command is
    seen,       \* alerts observed of each key, since its state was first stored
    promised,   \* keys a command answered to have repaired
    confirmed,  \* keys a confirmation was accepted for
    spent       \* events there have been

memory == <<latest, alerts, lives>>
stores == <<history, states, slots, records>>
vars == <<live, history, latest, alerts, states, lives, slots, records, query, command,
          seen, promised, confirmed, spent>>

NoLife == [status |-> "not_repaired", attempts |-> 0, manual |-> FALSE]

Idle == [at |-> "idle"]

Init ==
    /\ live \in FirstSignals
    /\ \E i \in InitialStores : history = i.history /\ states = i.states
    /\ latest = [p \in Processes |-> None]
    /\ alerts = [p \in Processes |-> [k \in Categories |-> None]]
    /\ lives = [p \in Processes |-> [k \in Categories |-> NoLife]]
    /\ slots = [k \in Categories |-> None]
    /\ records = {}
    /\ query = [q \in Readers |-> Idle]
    /\ command = [o \in Operators |-> Idle]
    /\ seen = [k \in Categories |->
                 IF states[k] = None THEN 0 ELSE Max({1, states[k].count})]
    /\ promised = {}
    /\ confirmed = {}
    /\ spent = 0

Spend == spent < EventBound /\ spent' = spent + 1

\* A store's answer: a failure is counted.
Fails == Spend
Answers == UNCHANGED spent

-----------------------------------------------------------------------------
(* The slot of a repair lifecycle.                                         *)

ManualAgrees(life) == life.manual => life.status \in {"manually_confirmed", "repaired"}

Unconfirmed == RepairStatuses \ {"not_repaired", "manually_confirmed"}

CanTransition(from, to) ==
    \/ from = to
    \/ from \in {"not_repaired", "manually_confirmed"} /\ to \in Unconfirmed
    \/ /\ from = "repair_failed_retryable"
       /\ to \in RepairStatuses \ {"not_repaired"}
    \/ /\ from = "repair_failed_manual_confirmation_required"
       /\ to \in {"manually_confirmed", "repair_failed_retryable"}

\* validateSuppressionRepairLifecycleContinuity of the slot with what the process
\* remembered when it asked for the slot.
Continuous(slot, remembered) ==
    /\ ManualAgrees(slot.current)
    /\ slot.previous # None =>
         /\ ManualAgrees(slot.previous)
         /\ slot.current.attempts >= slot.previous.attempts
         /\ CanTransition(slot.previous.status, slot.current.status)
    /\ slot.current.attempts >= remembered.attempts
    /\ remembered.attempts > 0 =>
         /\ slot.current.status = remembered.status
         /\ slot.current.manual = remembered.manual

\* The slot is believed when it continues what was remembered.  A slot that could
\* not be read is None.
LifecycleRead(slot, remembered) ==
    IF slot # None /\ Continuous(slot, remembered) THEN slot.current ELSE remembered

NextSlot(slot, life, link) ==
    [current |-> life, link |-> link,
     previous |-> IF slot = None THEN None ELSE slot.current]

\* What the query tells about the link, given the latest record of the key.
CommandLink(slot, record) ==
    IF slot = None \/ record = None THEN "missing_record"
    ELSE IF slot.link # record.id THEN "missing_record"
    ELSE IF slot.current.status # record.status THEN "status_mismatch"
    ELSE "passed"

CanRetry(s) == s \in {"repair_failed_retryable", "manually_confirmed"}

CanConfirm(s) ==
    s \in {"repair_failed_retryable", "repair_failed_manual_confirmation_required"}

-----------------------------------------------------------------------------
(* The diagnostic query.                                                   *)

SetQuery(q, job) == query' = [query EXCEPT ![q] = job]

EndQuery(q) == SetQuery(q, Idle)

\* The process remembers the view, then the slot is read to be rotated.  Before it, a
\* query with an alert reads the lifecycle slot and the latest command record once
\* more (lookupSuppressionStateRepairCommandLink), for its answer only.
Rotate(q, view) ==
    /\ latest' = [latest EXCEPT ![Home[q]] = view]
    /\ SetQuery(q, [at |-> "rotate", view |-> view])

\* The view is built; without comparison no alert comes of it.
BeginQuery(q, compare) ==
    /\ query[q] = Idle
    /\ Spend
    /\ HasAnySignal(live)
    /\ IF compare
       THEN SetQuery(q, [at |-> "history", view |-> View(live)]) /\ UNCHANGED latest
       ELSE Rotate(q, View(live))
    /\ UNCHANGED <<live, stores, alerts, lives, command, seen, promised, confirmed>>

\* The alert of a verdict, and the question for the lifecycle of its key: what the
\* process remembers is read before that question.
RaiseAlert(q, verdict) ==
    SetQuery(q, [at |-> "lifecycle", view |-> query[q].view, key |-> verdict.category,
                 severity |-> SeverityOf(verdict),
                 remembered |-> lives[Home[q]][verdict.category]])

HistoryAnswers(q) ==
    /\ query[q].at = "history"
    /\ \/ Fails /\ EndQuery(q) /\ UNCHANGED latest
       \/ /\ Answers
          /\ history # None
          /\ LET verdict == ReplayValidation(query[q].view, history)
             IN  IF verdict.status = "refused" THEN EndQuery(q) ELSE RaiseAlert(q, verdict)
          /\ UNCHANGED latest
       \/ /\ Answers
          /\ history = None
          /\ IF latest[Home[q]] = None
             THEN Rotate(q, query[q].view)
             ELSE /\ RaiseAlert(q, [status |-> "notice",
                                    category |-> "current_snapshot_conflict"])
                  /\ UNCHANGED latest
    /\ UNCHANGED <<live, stores, alerts, lives, command, seen, promised, confirmed>>

\* A slot that is believed replaces what the process remembers.
LifecycleAnswers(q) ==
    LET p == Home[q]
        k == query[q].key
        Believe(slot) ==
            /\ lives' = IF slot # None /\ Continuous(slot, query[q].remembered)
                        THEN [lives EXCEPT ![p][k] = slot.current] ELSE lives
            /\ SetQuery(q, [at |-> "state", view |-> query[q].view, key |-> k,
                            severity |-> query[q].severity,
                            life |-> LifecycleRead(slot, query[q].remembered)])
    IN  /\ query[q].at = "lifecycle"
        /\ \/ Fails /\ Believe(None)
           \/ Answers /\ Believe(slots[k])
        /\ UNCHANGED <<live, stores, latest, alerts, command, seen, promised, confirmed>>

\* recordOrSuppress, on what the process remembers or has taken from the store.
Recorded(known, severity) ==
    [severity |-> severity, count |-> IF known = None THEN 1 ELSE known.count + 1]

\* Faulty: the stored state replaces what the process has counted itself.
KnownFromStore(p, k, s, severity) ==
    IF CanHydrate(s, severity) THEN [severity |-> s.severity, count |-> s.count]
    ELSE alerts[p][k]

\* What the process goes on from: its own memory, else the stored state.
Known(p, k, s, severity) ==
    IF alerts[p][k] = None /\ CanHydrate(s, severity)
    THEN [severity |-> s.severity, count |-> s.count]
    ELSE alerts[p][k]

RecordAlert(q, s) ==
    LET p == Home[q]
        k == query[q].key
    IN  /\ alerts' = [alerts EXCEPT ![p][k] =
                        Recorded(Known(p, k, s, query[q].severity), query[q].severity)]
        /\ seen' = [seen EXCEPT ![k] = @ + 1]

\* The lifecycle goes where the query says, whatever it was; the attempt is counted
\* from the lifecycle the query read.
QueryTransition(q, to) ==
    LET life == [query[q].life EXCEPT !.status = to, !.attempts = @ + 1]
    IN  /\ lives' = [lives EXCEPT ![Home[q]][query[q].key] = life]
        /\ SetQuery(q, [at |-> "slotRead", view |-> query[q].view, key |-> query[q].key,
                        life |-> life])

StateAnswers(q) ==
    LET k == query[q].key
        s == states[k]
        severity == query[q].severity
        count == alerts'[Home[q]][k].count
        failure == ContinuityFailure(s, severity, count)
    IN  /\ query[q].at = "state"
        /\ \/ /\ Fails
              /\ RecordAlert(q, None)
              /\ Rotate(q, query[q].view)
              /\ UNCHANGED lives
           \/ /\ Answers
              /\ RecordAlert(q, s)
              /\ IF failure # None
                 THEN QueryTransition(q, failure)
                 ELSE /\ SetQuery(q, [at |-> "statePut", view |-> query[q].view, key |-> k,
                                      severity |-> severity, life |-> query[q].life,
                                      count |-> count])
                      /\ UNCHANGED lives
              /\ UNCHANGED latest
        /\ UNCHANGED <<live, stores, command, promised, confirmed>>

\* toStoredSuppressionState.
StoredState(severity, count) ==
    [version |-> "current", keyed |-> TRUE, times |-> "ordered", severity |-> severity,
     source |-> "replay_validation", count |-> count,
     last |-> ExpectedStatus(count, severity)]

StatePut(q) ==
    /\ query[q].at = "statePut"
    /\ \/ Fails /\ Rotate(q, query[q].view) /\ UNCHANGED <<states, lives>>
       \/ /\ Answers
          /\ states' = [states EXCEPT ![query[q].key] =
                          StoredState(query[q].severity, query[q].count)]
          /\ QueryTransition(q, "repaired")
          /\ UNCHANGED latest
    /\ UNCHANGED <<live, history, slots, records, alerts, command, seen, promised,
                   confirmed>>

\* persistSuppressionRepairLifecycleSlot of the query, whose failures are ignored.
QuerySlotRead(q) ==
    /\ query[q].at = "slotRead"
    /\ \/ Fails /\ Rotate(q, query[q].view)
       \/ /\ Answers
          /\ SetQuery(q, [at |-> "slotPut", view |-> query[q].view, key |-> query[q].key,
                          slot |-> NextSlot(slots[query[q].key], query[q].life, None)])
          /\ UNCHANGED latest
    /\ UNCHANGED <<live, stores, alerts, lives, command, seen, promised, confirmed>>

QuerySlotPut(q) ==
    /\ query[q].at = "slotPut"
    /\ \/ Fails /\ UNCHANGED slots
       \/ Answers /\ slots' = [slots EXCEPT ![query[q].key] = query[q].slot]
    /\ Rotate(q, query[q].view)
    /\ UNCHANGED <<live, history, states, records, alerts, lives, command, seen, promised,
                   confirmed>>

\* persistDiagnosticHistorySlot, whose failures are ignored.
HistoryRead(q) ==
    /\ query[q].at = "rotate"
    /\ \/ Fails /\ EndQuery(q)
       \/ /\ Answers
          /\ SetQuery(q, [at |-> "historyPut",
                          slot |-> NextHistory(history, query[q].view)])
    /\ UNCHANGED <<live, stores, memory, command, seen, promised, confirmed>>

HistoryPut(q) ==
    /\ query[q].at = "historyPut"
    /\ \/ Fails /\ UNCHANGED history
       \/ Answers /\ history' = query[q].slot
    /\ EndQuery(q)
    /\ UNCHANGED <<live, states, slots, records, memory, command, seen, promised,
                   confirmed>>

-----------------------------------------------------------------------------
(* The repair commands.                                                    *)

SetCommand(o, job) == command' = [command EXCEPT ![o] = job]

EndCommand(o) == SetCommand(o, Idle)

\* The question for the lifecycle, asked with what the process remembers of it.
Sync(o, job, remembered) ==
    SetCommand(o, [at |-> "sync", type |-> job.type, key |-> job.key, id |-> job.id,
                   checked |-> job.checked, remembered |-> remembered])

BeginCommand(o, type, k) ==
    /\ command[o] = Idle
    /\ Spend
    /\ Sync(o, [type |-> type, key |-> k, id |-> spent, checked |-> FALSE],
            lives[Home[o]][k])
    /\ UNCHANGED <<live, stores, memory, query, seen, promised, confirmed>>

\* transitionAndPersist up to its first await, from the lifecycle life.
CommandTransition(o, to, life) ==
    LET next == [status |-> to,
                 attempts |-> life.attempts + IF command[o].type = "confirm" THEN 0 ELSE 1,
                 manual |-> life.manual \/ command[o].type = "confirm"]
    IN  /\ lives' = [lives EXCEPT ![Home[o]][command[o].key] = next]
        /\ SetCommand(o, [at |-> "record", type |-> command[o].type, key |-> command[o].key,
                          id |-> command[o].id, life |-> next, previous |-> life])

\* syncLifecycleFromPersistence: the process remembers what was read, or again what
\* it remembered when it asked.  A repair asks twice, a retry checks in between, and
\* a confirmation asks once.
SyncAnswers(o) ==
    LET job == command[o]
        Continue(life) ==
            IF job.checked
            THEN /\ SetCommand(o, [at |-> "read", type |-> job.type, key |-> job.key,
                                   id |-> job.id])
                 /\ lives' = [lives EXCEPT ![Home[o]][job.key] = life]
                 /\ UNCHANGED confirmed
            ELSE IF job.type = "confirm" /\ CanConfirm(life.status)
            THEN /\ CommandTransition(o, "manually_confirmed", life)
                 /\ confirmed' = confirmed \union {job.key}
            ELSE /\ IF job.type = "repair" \/ (job.type = "retry" /\ CanRetry(life.status))
                    THEN Sync(o, [job EXCEPT !.checked = TRUE], life)
                    ELSE EndCommand(o)
                 /\ lives' = [lives EXCEPT ![Home[o]][job.key] = life]
                 /\ UNCHANGED confirmed
    IN  /\ job.at = "sync"
        /\ \/ Fails /\ Continue(job.remembered)
           \/ Answers /\ Continue(LifecycleRead(slots[job.key], job.remembered))
        /\ UNCHANGED <<live, stores, latest, alerts, query, seen, promised>>

\* executeRepairAttempt between its reading and its writing of the state.
ReadState(o) ==
    LET k == command[o].key
        life == lives[Home[o]][k]
        s == states[k]
    IN  /\ command[o].at = "read"
        /\ \/ Fails /\ CommandTransition(o, "repair_failed_retryable", life)
           \/ /\ Answers
              /\ IF s = None
                 THEN CommandTransition(o, "repair_failed_retryable", life)
                 ELSE IF RepairedState(s) = None
                 THEN CommandTransition(o, "repair_failed_manual_confirmation_required",
                                        life)
                 ELSE IF RepairedState(s) = s
                 THEN CommandTransition(o, "repaired", life)
                 ELSE /\ SetCommand(o, [at |-> "put", type |-> command[o].type, key |-> k,
                                        id |-> command[o].id, state |-> RepairedState(s)])
                      /\ UNCHANGED lives
        /\ UNCHANGED <<live, stores, latest, alerts, query, seen, promised, confirmed>>

\* Faulty: a state that could not be written is taken for repaired.
PutStateUnchecked(o) ==
    LET k == command[o].key
    IN  /\ command[o].at = "put"
        /\ \/ Fails /\ UNCHANGED states
           \/ Answers /\ states' = [states EXCEPT ![k] = command[o].state]
        /\ CommandTransition(o, "repaired", lives[Home[o]][k])
        /\ UNCHANGED <<live, history, slots, records, latest, alerts, query, seen,
                       promised,
                       confirmed>>

PutState(o) ==
    LET k == command[o].key
    IN  /\ command[o].at = "put"
        /\ \/ /\ Fails
              /\ CommandTransition(o, "repair_failed_retryable", lives[Home[o]][k])
              /\ UNCHANGED states
           \/ /\ Answers
              /\ CommandTransition(o, "repaired", lives[Home[o]][k])
              /\ states' = [states EXCEPT ![k] = command[o].state]
        /\ UNCHANGED <<live, history, slots, records, latest, alerts, query, seen,
                       promised,
                       confirmed>>

\* Faulty: the slot names the record although it could not be stored.
PutRecordUnchecked(o) ==
    LET job == command[o]
        Link(id) == SetCommand(o, [at |-> "slotRead", type |-> job.type, key |-> job.key,
                                   life |-> job.life, previous |-> job.previous,
                                   link |-> id])
    IN  /\ job.at = "record"
        /\ \/ Fails /\ Link(job.id) /\ UNCHANGED records
           \/ /\ Answers
              /\ records' = records \union {[id |-> job.id, key |-> job.key,
                                             status |-> job.life.status]}
              /\ Link(job.id)
        /\ UNCHANGED <<live, history, states, slots, memory, query, seen, promised,
                       confirmed>>

\* The record is stored before the slot; if it cannot be, the slot names none.
PutRecord(o) ==
    LET job == command[o]
        Link(id) == SetCommand(o, [at |-> "slotRead", type |-> job.type, key |-> job.key,
                                   life |-> job.life, previous |-> job.previous,
                                   link |-> id])
    IN  /\ job.at = "record"
        /\ \/ Fails /\ Link(None) /\ UNCHANGED records
           \/ /\ Answers
              /\ records' = records \union {[id |-> job.id, key |-> job.key,
                                             status |-> job.life.status]}
              /\ Link(job.id)
        /\ UNCHANGED <<live, history, states, slots, memory, query, seen, promised,
                       confirmed>>

\* A slot that cannot be written: the process remembers the lifecycle it had when
\* the command moved it on, and the command answers with the error.
RollBack(o) ==
    /\ lives' = [lives EXCEPT ![Home[o]][command[o].key] = command[o].previous]
    /\ EndCommand(o)

CommandSlotRead(o) ==
    LET job == command[o]
    IN  /\ job.at = "slotRead"
        /\ \/ Fails /\ RollBack(o)
           \/ /\ Answers
              /\ SetCommand(o, [at |-> "slotPut", type |-> job.type, key |-> job.key,
                                previous |-> job.previous,
                                slot |-> NextSlot(slots[job.key], job.life, job.link)])
              /\ UNCHANGED lives
        /\ UNCHANGED <<live, stores, latest, alerts, query, seen, promised, confirmed>>

CommandSlotPut(o) ==
    LET job == command[o]
    IN  /\ job.at = "slotPut"
        /\ \/ Fails /\ RollBack(o) /\ UNCHANGED <<slots, promised>>
           \/ /\ Answers
              /\ slots' = [slots EXCEPT ![job.key] = job.slot]
              /\ promised' = IF job.slot.current.status = "repaired"
                             THEN promised \union {job.key} ELSE promised
              /\ EndCommand(o)
              /\ UNCHANGED lives
        /\ UNCHANGED <<live, history, states, records, latest, alerts, query, seen,
                       confirmed>>

-----------------------------------------------------------------------------
\* The fact's signals change.
Drift ==
    /\ Spend
    /\ live' \in LiveSignals \ {live}
    /\ UNCHANGED <<stores, memory, query, command, seen, promised, confirmed>>

\* A process stops, with its calls, and starts with nothing remembered.
Restart(p) ==
    /\ Spend
    /\ latest' = [latest EXCEPT ![p] = None]
    /\ alerts' = [alerts EXCEPT ![p] = [k \in Categories |-> None]]
    /\ lives' = [lives EXCEPT ![p] = [k \in Categories |-> NoLife]]
    /\ query' = [q \in Readers |-> IF Home[q] = p THEN Idle ELSE query[q]]
    /\ command' = [o \in Operators |-> IF Home[o] = p THEN Idle ELSE command[o]]
    /\ UNCHANGED <<live, stores, seen, promised, confirmed>>

CommandTypes == {"repair", "retry", "confirm"}

Next ==
    \/ \E q \in Readers :
         \/ \E compare \in BOOLEAN : BeginQuery(q, compare)
         \/ HistoryAnswers(q) \/ LifecycleAnswers(q) \/ StateAnswers(q) \/ StatePut(q)
         \/ QuerySlotRead(q) \/ QuerySlotPut(q) \/ HistoryRead(q) \/ HistoryPut(q)
    \/ \E o \in Operators :
         \/ \E type \in CommandTypes, k \in Categories : BeginCommand(o, type, k)
         \/ SyncAnswers(o) \/ ReadState(o) \/ PutState(o) \/ PutRecord(o)
         \/ CommandSlotRead(o) \/ CommandSlotPut(o)
    \/ Drift
    \/ \E p \in Processes : Restart(p)

Spec == Init /\ [][Next]_vars
-----------------------------------------------------------------------------
TypeOK ==
    /\ live \in LiveSignals
    /\ \A p \in Processes, k \in Categories :
         /\ alerts[p][k] # None => alerts[p][k].count \in Nat \ {0}
         /\ lives[p][k] \in [status : RepairStatuses, attempts : Nat, manual : BOOLEAN]
    /\ \A k \in Categories : states[k] # None => states[k] \in StoredStates
    /\ \A k \in Categories : slots[k] # None => slots[k].current.status \in RepairStatuses
    /\ promised \union confirmed \subseteq Categories

\* What a repair mends is in order.
Mended(s) ==
    /\ s # None /\ s.version # "none"
    /\ s.count >= 1 /\ s.times = "ordered" /\ s.last = ExpectedStatus(s.count, s.severity)

Compatible(s) == ReadCompatibility(s) \in {"compatible_read", "compatible_with_notice"}

\* What no repair mends.
Unmendable(s) ==
    s.severity = "invalid" \/ s.source = "invalid" \/ s.version \in {"blank", "foreign"}

\* A key a command answered to have repaired has a state with all that a repair mends
\* in order ever after: through queries that write what they read long before, other
\* commands and restarts.  It is read as compatible, unless it has what the command
\* leaves as it found it: a severity or source nobody knows, a version that is blank
\* or not supported.
RepairedStaysReadable ==
    \A k \in promised :
      Mended(states[k]) /\ (Compatible(states[k]) \/ Unmendable(states[k]))

\* No count is higher than the alerts there were, in a store or in memory, however
\* often a count is handed from one process to another.
CountsAreObserved ==
    \A k \in Categories :
      /\ states[k] # None => states[k].count <= seen[k]
      /\ \A p \in Processes : alerts[p][k] # None => alerts[p][k].count <= seen[k]

\* Each alert that is observed raises the count of the process that observed it, which
\* never forgets while it runs, so that it announces an alert once at most: the stored
\* count, which may be behind, does not replace its own.
EveryAlertCounts ==
    [][\A k \in Categories :
         seen'[k] > seen[k] =>
           \E p \in Processes :
             /\ alerts'[p][k] # None
             /\ alerts[p][k] # None => alerts'[p][k].count = alerts[p][k].count + 1]_vars

CountsAreTrue == []CountsAreObserved /\ EveryAlertCounts

\* A slot that names a command record names one that is stored, of its key and of
\* the status the slot is in, whoever else writes the slot.
LinksResolve ==
    \A k \in Categories :
      (slots[k] # None /\ slots[k].link # None)
        => \E r \in records : r.key = k /\ CommandLink(slots[k], r) = "passed"

\* A lifecycle is manually confirmed only after a confirmation was accepted.
ManualWasConfirmed ==
    \A k \in Categories :
      (\/ slots[k] # None /\ slots[k].current.manual
       \/ \E p \in Processes : lives[p][k].manual) => k \in confirmed

\* What commands answer and slots say of repairs is true of the stores.
RepairsTellTheTruth == RepairedStaysReadable /\ LinksResolve /\ ManualWasConfirmed
=============================================================================
