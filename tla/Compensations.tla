---------------------------- MODULE Compensations ----------------------------
(***************************************************************************)
(* Compensation records and what becomes of an audit or metrics sink that  *)
(* does not take an event: CompensationCommandHandler,                     *)
(* CommandResultQueryHandler and SinkFailureRecoveryCommandHandler.        *)
(* They hold no state; the stores and the sinks do, and they are external. *)
(* Every call on one is an await at which other commands run, the call may *)
(* fail, a write that fails may have landed, and the process may stop.     *)
(*                                                                         *)
(* A record is known by the reference of the command result it belongs to. *)
(* A time stands for a millisecond; the times of failures are part of the  *)
(* identity of a recovery record.                                          *)
(*                                                                         *)
(* Operators whose comment starts with "Faulty:" are not part of the       *)
(* specification.                                                          *)
(***************************************************************************)
EXTENDS Naturals

CONSTANTS
    Operators,      \* commands and queries of operators open at once
    References,     \* references of command results
    None,
    Horizon,        \* bound of the model: the last millisecond
    OperatorBound   \* bound of the model: how many commands operators issue

ASSUME CompensationsAssumption ==
    None \notin References /\ Horizon \in Nat /\ OperatorBound \in Nat

VARIABLES
    record,     \* compensation records: reference -> status, or None
    audit,      \* what the audit sink has taken
    recovery,   \* sink failure recovery records: id -> status
    ops,        \* where each operator's command is
    clock,
    issued,     \* how many commands operators have issued
    answered    \* history: <<event, told>>, told is what the answer said of its sink

opVars == <<record, audit, recovery, ops, clock, issued, answered>>

-----------------------------------------------------------------------------
Statuses == {"pending", "not_required", "resolved", "manual_intervention_required"}
Times == 0 .. Horizon

ASSUME NoStatusIsNone == None \notin Statuses

\* canTransitionCompensationStatus
Transitions ==
    {<<s, s>> : s \in Statuses}
      \union {<<"pending", "resolved">>, <<"pending", "manual_intervention_required">>,
              <<"manual_intervention_required", "resolved">>}

Targets == [ResolveCompensation |-> "resolved",
            MarkManualInterventionRequired |-> "manual_intervention_required"]

\* An event that a sink is to take: a change of a status, or a metric.  Its id,
\* were it to need a recovery record, leaves the statuses out.
Events == [kind : DOMAIN Targets \union {"Metrics"}, ref : References, at : Times,
           from : Statuses \union {None}, to : Statuses \union {None}]
RecoveryId(e) == <<e.kind, e.ref, e.at>>

Recovered(id, status) == [recovery |-> id, status |-> status]

Free == [at |-> "free", op |-> None, ref |-> None, own |-> None, event |-> None, id |-> None]

CompensationsTypeOK ==
    /\ record \in [References -> Statuses \union {None}]
    /\ \A id \in DOMAIN recovery : recovery[id] \in {"open", "manually_resolved"}
    /\ \A o \in Operators :
         /\ ops[o].at \in {"free", "load", "update", "sink", "recover", "trace", "find",
                           "resolve", "traceResolved"}
         /\ ops[o].at \in {"sink", "recover", "trace"} => ops[o].event \in Events
         /\ ops[o].at \in {"resolve", "traceResolved"} => ops[o].id \in DOMAIN recovery
    /\ clock \in Times /\ issued \in 0 .. OperatorBound
    /\ \A a \in answered : a[1] \in Events /\ a[2] \in {"succeeded", "persisted",
                                                        "persist_failed"}

CompensationsInit ==
    /\ record = [r \in References |-> None]
    /\ audit = {} /\ recovery = <<>> /\ answered = {}
    /\ ops = [o \in Operators |-> Free]
    /\ clock = 0 /\ issued = 0

OpGoes(o, r) == ops' = [ops EXCEPT ![o] = r]

Tick ==
    /\ clock < Horizon /\ clock' = clock + 1
    /\ UNCHANGED <<record, audit, recovery, ops, issued, answered>>

-----------------------------------------------------------------------------
(***************************************************************************)
(* changeStatus: load, update, tell the audit sink.                        *)
(***************************************************************************)
IssueChange(o, op, r) ==
    /\ ops[o].at = "free" /\ issued < OperatorBound
    /\ issued' = issued + 1
    /\ OpGoes(o, [Free EXCEPT !.at = "load", !.op = op, !.ref = r])
    /\ UNCHANGED <<record, audit, recovery, clock, answered>>

\* Faulty: the transition is not looked up.
LoadAnyRecord(o) ==
    LET c == ops[o]  status == record[c.ref] IN
    /\ c.at = "load"
    /\ OpGoes(o, IF status = None THEN Free ELSE [c EXCEPT !.at = "update", !.own = status])
    /\ UNCHANGED <<record, audit, recovery, clock, issued, answered>>

\* The record is missing, its status does not allow the change, or it is as it has
\* been read; the answers of the first two change nothing.
LoadRecord(o) ==
    LET c == ops[o]  status == record[c.ref]
        allowed == status # None /\ <<status, Targets[c.op]>> \in Transitions
    IN  /\ c.at = "load"
        /\ OpGoes(o, IF allowed THEN [c EXCEPT !.at = "update", !.own = status] ELSE Free)
        /\ UNCHANGED <<record, audit, recovery, clock, issued, answered>>

\* updateOne writes the target whatever the record holds by now.
UpdateRecord(o) ==
    LET c == ops[o]
        event == [kind |-> c.op, ref |-> c.ref, at |-> clock, from |-> c.own,
                  to |-> Targets[c.op]]
    IN  /\ c.at = "update"
        /\ record' = [record EXCEPT ![c.ref] = Targets[c.op]]
        /\ OpGoes(o, [c EXCEPT !.at = "sink", !.event = event])
        /\ UNCHANGED <<audit, recovery, clock, issued, answered>>

-----------------------------------------------------------------------------
(***************************************************************************)
(* getCommandResultByReference: whatever it finds, it records a metric.    *)
(***************************************************************************)
QueryResult(o, r) ==
    LET event == [kind |-> "Metrics", ref |-> r, at |-> clock, from |-> None, to |-> None]
    IN  /\ ops[o].at = "free" /\ issued < OperatorBound
        /\ issued' = issued + 1
        /\ OpGoes(o, [Free EXCEPT !.at = "sink", !.op = "Metrics", !.ref = r, !.event = event])
        /\ UNCHANGED <<record, audit, recovery, clock, answered>>

-----------------------------------------------------------------------------
(***************************************************************************)
(* A sink takes its event, or a recovery record is appended for it and the *)
(* audit sink is told of that record.                                      *)
(***************************************************************************)
Answer(o, told) ==
    /\ OpGoes(o, Free)
    /\ answered' = answered \union {<<ops[o].event, told>>}

SinkTakes(o) ==
    /\ ops[o].at = "sink"
    /\ audit' = audit \union {ops[o].event}
    /\ Answer(o, "succeeded")
    /\ UNCHANGED <<record, recovery, clock, issued>>

\* Faulty: the failure of the sink is only told, as a failure that can be retried.
SinkRefusesUnrecorded(o) ==
    /\ ops[o].at = "sink"
    /\ Answer(o, "persisted")
    /\ UNCHANGED <<record, audit, recovery, clock, issued>>

SinkRefuses(o) ==
    /\ ops[o].at = "sink"
    /\ audit' \in {audit, audit \union {ops[o].event}}
    /\ OpGoes(o, [ops[o] EXCEPT !.at = "recover"])
    /\ UNCHANGED <<record, recovery, clock, issued, answered>>

\* append: a record with this id, if there is one, is open again.
Opened(id) ==
    [x \in DOMAIN recovery \union {id} |-> IF x = id THEN "open" ELSE recovery[x]]

AppendRecovery(o) ==
    /\ ops[o].at = "recover"
    /\ recovery' = Opened(RecoveryId(ops[o].event))
    /\ OpGoes(o, [ops[o] EXCEPT !.at = "trace"])
    /\ UNCHANGED <<record, audit, clock, issued, answered>>

AppendRecoveryFails(o) ==
    /\ ops[o].at = "recover"
    /\ recovery' \in {recovery, Opened(RecoveryId(ops[o].event))}
    /\ Answer(o, "persist_failed")
    /\ UNCHANGED <<record, audit, clock, issued>>

\* The audit sink is told of the new record; its failure is part of the answer.
TraceRecovery(o) ==
    /\ ops[o].at = "trace"
    /\ audit' \in {audit, audit \union {Recovered(RecoveryId(ops[o].event), "open")}}
    /\ Answer(o, "persisted")
    /\ UNCHANGED <<record, recovery, clock, issued>>

-----------------------------------------------------------------------------
(***************************************************************************)
(* markManuallyResolved, of a record that is open.                         *)
(***************************************************************************)
IssueResolution(o, id) ==
    /\ ops[o].at = "free" /\ issued < OperatorBound
    /\ issued' = issued + 1
    /\ OpGoes(o, [Free EXCEPT !.at = "find", !.op = "MarkManuallyResolved", !.id = id])
    /\ UNCHANGED <<record, audit, recovery, clock, answered>>

FindRecovery(o) ==
    LET open == recovery[ops[o].id] = "open" IN
    /\ ops[o].at = "find"
    /\ OpGoes(o, IF open THEN [ops[o] EXCEPT !.at = "resolve"] ELSE Free)
    /\ UNCHANGED <<record, audit, recovery, clock, issued, answered>>

ResolveRecovery(o) ==
    /\ ops[o].at = "resolve"
    /\ recovery' = [recovery EXCEPT ![ops[o].id] = "manually_resolved"]
    /\ OpGoes(o, [ops[o] EXCEPT !.at = "traceResolved"])
    /\ UNCHANGED <<record, audit, clock, issued, answered>>

TraceResolution(o) ==
    /\ ops[o].at = "traceResolved"
    /\ audit' \in {audit, audit \union {Recovered(ops[o].id, "manually_resolved")}}
    /\ OpGoes(o, Free)
    /\ UNCHANGED <<record, recovery, clock, issued, answered>>

-----------------------------------------------------------------------------
\* A call on a store fails before anything was told: the answer is an error.  A write
\* that fails may have landed.
OperatorFails(o) ==
    /\ ops[o].at \in {"load", "update", "find", "resolve"}
    /\ OpGoes(o, Free)
    /\ \/ UNCHANGED <<record, recovery>>
       \/ /\ ops[o].at = "update"
          /\ record' = [record EXCEPT ![ops[o].ref] = Targets[ops[o].op]]
          /\ UNCHANGED recovery
       \/ /\ ops[o].at = "resolve"
          /\ recovery' = [recovery EXCEPT ![ops[o].id] = "manually_resolved"]
          /\ UNCHANGED record
    /\ UNCHANGED <<audit, clock, issued, answered>>

OperatorStep(o) ==
    \/ \E r \in References : (\E op \in DOMAIN Targets : IssueChange(o, op, r))
                               \/ QueryResult(o, r)
    \/ LoadRecord(o) \/ UpdateRecord(o)
    \/ SinkTakes(o) \/ SinkRefuses(o)
    \/ AppendRecovery(o) \/ AppendRecoveryFails(o) \/ TraceRecovery(o)
    \/ \E id \in DOMAIN recovery : IssueResolution(o, id)
    \/ FindRecovery(o) \/ ResolveRecovery(o) \/ TraceResolution(o)
    \/ OperatorFails(o)

CompensationsNext == Tick \/ \E o \in Operators : OperatorStep(o)

-----------------------------------------------------------------------------
(***************************************************************************)
(* Properties.                                                             *)
(***************************************************************************)
\* Every event of which the command or query was answered is in the sink, or there is a
\* recovery record for the command and moment it is of, or the answer said that there
\* is neither: none is lost silently between the two stores.  The record does not hold
\* the event itself, and the failures of one command at one moment share one.
EventsAreAccountedFor ==
    \A a \in answered :
      CASE a[2] = "succeeded" -> a[1] \in audit
        [] a[2] = "persisted" -> RecoveryId(a[1]) \in DOMAIN recovery
        [] OTHER -> TRUE

\* A compensation that is resolved is taken back only by a command that had read the
\* record before: nobody who looks at a resolved record can reopen it.
ReopenedOnlyByStaleRead ==
    [][\A r \in References :
         (record[r] = "resolved" /\ record'[r] # "resolved") =>
           \E o \in Operators :
             ops[o].at = "update" /\ ops[o].ref = r /\ ops[o].own # "resolved"]_opVars
=============================================================================
