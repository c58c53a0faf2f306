-------------------------- MODULE RiskCommandsProofs --------------------------
(***************************************************************************)
(* Commands on a risk case and the compensations after them, for any       *)
(* number of callers, operators, references and keys.                      *)
(*                                                                         *)
(* The two halves of RiskCommands share only the actions that record a     *)
(* marker and restart, so each half has an invariant of its own.           *)
(***************************************************************************)
EXTENDS RiskCommands, TLAPS

-----------------------------------------------------------------------------
(***************************************************************************)
(* The invariant of the operators' half.                                   *)
(***************************************************************************)
Kinds == DOMAIN Targets \union {"Metrics"}
RecoveryIds == Kinds \X References \X Times

OperatorJobs ==
    [at : {"free", "load", "update", "sink", "recover", "trace", "find", "resolve",
           "traceResolved"},
     op : Kinds \union {"MarkManuallyResolved", None}, ref : References \union {None},
     own : Statuses \union {None}, event : Events \union {None},
     id : RecoveryIds \union {None}]

\* What the place where a command stands says of its past; ids are the recovery
\* records there are.
JobKnowsItsPast(job, ids) ==
    /\ job.at \in {"load", "update"} => job.op \in DOMAIN Targets /\ job.ref \in References
    /\ job.at = "update" => <<job.own, Targets[job.op]>> \in Transitions
    /\ job.at \in {"sink", "recover", "trace"} => job.event \in Events
    /\ job.at = "trace" => RecoveryId(job.event) \in ids
    /\ job.at \in {"find", "resolve", "traceResolved"} => job.id \in ids

JobsKnowTheirPast == \A o \in Operators : JobKnowsItsPast(ops[o], DOMAIN recovery)

CompensationsInv ==
    /\ CompensationsTypeOK
    /\ ops \in [Operators -> OperatorJobs] /\ DOMAIN recovery \subseteq RecoveryIds
    /\ JobsKnowTheirPast
    /\ EventsAreAccountedFor

-----------------------------------------------------------------------------
(***************************************************************************)
(* The invariant of the callers' half.                                     *)
(***************************************************************************)
CallerCommands ==
    [at : {"ready", "reserve", "reuse", "load", "save", "publish"},
     req : Requests \union {None}, action : RiskActions \union {None},
     next : CaseState \union {None}]

\* c has been let through with r and has not saved it.
Working(c, r) == cmds[c].req = r /\ cmds[c].at \in {"load", "save"}

\* A key that is enforced lets one command through, once: until it is reserved nobody
\* works on it, and who works on it is alone and has not saved.
KeyIsExclusive(r) ==
    /\ saves[r] <= 1
    /\ r \notin reserved => saves[r] = 0 /\ \A c \in Callers : ~Working(c, r)
    /\ \A c \in Callers : Working(c, r) =>
         saves[r] = 0 /\ \A d \in Callers : Working(d, r) => d = c

KeysAreExclusive == \A r \in Requests : r[2] \in EnforcedKeys => KeyIsExclusive(r)

\* A command that is to publish has saved, and a result that is stored is that of a
\* command that has saved, which was answered with it.
WorkIsSaved ==
    /\ \A c \in Callers : cmds[c].at = "publish" => saves[cmds[c].req] > 0
    /\ \A r \in DOMAIN results :
         /\ results[r].persistence = "succeeded"
         /\ \E told \in {"success", "failure"} :
              [req |-> r, processing |-> results[r], told |-> told] \in answers

CommandsType ==
    /\ RiskTypeOK
    /\ cmds \in [Callers -> CallerCommands] /\ saves \in [Requests -> Nat]
    /\ \A c \in Callers : cmds[c].at # "ready" => cmds[c].req \in Requests

RiskInv == CommandsType /\ KeysAreExclusive /\ WorkIsSaved /\ AnswersTellTheTruth

IInv == CompensationsInv /\ RiskInv

-----------------------------------------------------------------------------
(***************************************************************************)
(* The operators' half.                                                    *)
(***************************************************************************)

\* The two operations that change a status, and where they lead.
LEMMA TargetsType ==
  /\ DOMAIN Targets = {"ResolveCompensation", "MarkManualInterventionRequired"}
  /\ \A op \in DOMAIN Targets : Targets[op] \in Statuses
  BY DEF Targets, Statuses

\* Nobody who has read a resolved record asks for another status.
LEMMA ResolvedIsFinal ==
  ASSUME NEW op \in DOMAIN Targets, <<"resolved", Targets[op]>> \in Transitions
  PROVE  Targets[op] = "resolved"
  BY DEF Targets, Transitions, Statuses

\* The id that a recovery record of an event gets.
LEMMA RecoveryIdType == ASSUME NEW e \in Events PROVE RecoveryId(e) \in RecoveryIds
  BY DEF Events, RecoveryId, RecoveryIds, Kinds

\* Opening a record adds its id and touches no other record.
LEMMA OpenedRecord ==
  ASSUME NEW id, recovery' = Opened(id)
  PROVE  /\ DOMAIN recovery' = DOMAIN recovery \union {id}
         /\ \A x \in DOMAIN recovery' : recovery'[x] = IF x = id THEN "open" ELSE recovery[x]
  BY DEF Opened

\* A step of one operator that loses no recovery record leaves the jobs of the others
\* true, so what it wrote and its own new job are all there is to look at.
LEMMA JobStep ==
  ASSUME CompensationsInv, NEW o \in Operators, NEW job \in OperatorJobs, OpGoes(o, job),
         DOMAIN recovery \subseteq DOMAIN recovery', DOMAIN recovery' \subseteq RecoveryIds,
         JobKnowsItsPast(job, DOMAIN recovery'),
         record' \in [References -> Statuses \union {None}],
         \A id \in DOMAIN recovery' : recovery'[id] \in {"open", "manually_resolved"},
         clock' = clock, issued' \in 0 .. OperatorBound,
         \A a \in answered' : a[1] \in Events /\ a[2] \in {"succeeded", "persisted",
                                                           "persist_failed"},
         EventsAreAccountedFor'
  PROVE  CompensationsInv'
<1>1. ops' \in [Operators -> OperatorJobs] /\ ops'[o] = job
      /\ \A p \in Operators \ {o} : ops'[p] = ops[p]
  BY DEF CompensationsInv, OpGoes
<1>2. \A p \in Operators \ {o} : JobKnowsItsPast(ops[p], DOMAIN recovery')
  BY DEF CompensationsInv, JobsKnowTheirPast, JobKnowsItsPast
<1>3. JobsKnowTheirPast'
  BY <1>1, <1>2 DEF JobsKnowTheirPast
<1>4. \A p \in Operators :
         /\ ops'[p].at \in {"free", "load", "update", "sink", "recover", "trace", "find",
                            "resolve", "traceResolved"}
         /\ ops'[p].at \in {"sink", "recover", "trace"} => ops'[p].event \in Events
         /\ ops'[p].at \in {"resolve", "traceResolved"} => ops'[p].id \in DOMAIN recovery'
  BY <1>1, <1>3 DEF JobsKnowTheirPast, JobKnowsItsPast, OperatorJobs
<1>5. clock' \in Times
  BY DEF CompensationsInv, CompensationsTypeOK
<1>6. CompensationsTypeOK'
  BY <1>4, <1>5 DEF CompensationsTypeOK
<1>7. QED
  BY <1>1, <1>3, <1>6 DEF CompensationsInv

\* No operator's command is open at first, and no event has been told of.
LEMMA CompensationsInitInvariant == CompensationsInit => CompensationsInv
  BY CompensationsAssumption
     DEF CompensationsInit, CompensationsInv, CompensationsTypeOK, JobsKnowTheirPast,
         JobKnowsItsPast, EventsAreAccountedFor, OperatorJobs, Free, Kinds, Times

\* Events that were accounted for stay so: the sinks and the recovery records only grow.
LEMMA AccountsKept ==
  ASSUME CompensationsInv, audit \subseteq audit', DOMAIN recovery \subseteq DOMAIN recovery',
         \A a \in answered' \ answered :
            /\ a[2] = "succeeded" => a[1] \in audit'
            /\ a[2] = "persisted" => RecoveryId(a[1]) \in DOMAIN recovery'
            /\ a[2] \in {"succeeded", "persisted", "persist_failed"}
  PROVE  EventsAreAccountedFor'
<1>1. \A a \in answered :
         /\ a[2] = "succeeded" => a[1] \in audit
         /\ a[2] = "persisted" => RecoveryId(a[1]) \in DOMAIN recovery
  BY Zenon DEF CompensationsInv, EventsAreAccountedFor
<1>2. \A a \in answered' :
         /\ a[2] = "succeeded" => a[1] \in audit'
         /\ a[2] = "persisted" => RecoveryId(a[1]) \in DOMAIN recovery'
  BY <1>1
<1>3. QED
  BY <1>2, Zenon DEF EventsAreAccountedFor

\* Every step of an operator's command preserves the invariant.
LEMMA OperatorStepInvariant ==
  ASSUME CompensationsInv, NEW o \in Operators, OperatorStep(o)
  PROVE  CompensationsInv'
<1> DEFINE job == ops[o]
<1>0. /\ job \in OperatorJobs /\ JobKnowsItsPast(job, DOMAIN recovery)
      /\ record \in [References -> Statuses \union {None}]
      /\ \A id \in DOMAIN recovery : recovery[id] \in {"open", "manually_resolved"}
      /\ DOMAIN recovery \subseteq RecoveryIds
      /\ clock \in Times /\ issued \in 0 .. OperatorBound /\ OperatorBound \in Nat
      /\ \A a \in answered : a[1] \in Events /\ a[2] \in {"succeeded", "persisted",
                                                          "persist_failed"}
  BY CompensationsAssumption DEF CompensationsInv, JobsKnowTheirPast, CompensationsTypeOK
<1>1. Free \in OperatorJobs /\ \A ids : JobKnowsItsPast(Free, ids)
  BY DEF Free, OperatorJobs, JobKnowsItsPast
<1>2. ASSUME UNCHANGED <<audit, answered>>, DOMAIN recovery \subseteq DOMAIN recovery'
      PROVE  EventsAreAccountedFor'
  BY <1>2, AccountsKept
<1>3. ASSUME NEW op \in DOMAIN Targets, NEW r \in References, IssueChange(o, op, r)
      PROVE  CompensationsInv'
  <2> DEFINE new == [Free EXCEPT !.at = "load", !.op = op, !.ref = r]
  <2>1. new \in OperatorJobs /\ JobKnowsItsPast(new, DOMAIN recovery')
    BY DEF Free, OperatorJobs, JobKnowsItsPast, Kinds
  <2>2. issued' \in 0 .. OperatorBound
    BY <1>0, <1>3 DEF IssueChange
  <2> QED
    BY <1>0, <1>2, <1>3, <2>1, <2>2, JobStep DEF IssueChange
<1>4. ASSUME NEW r \in References, QueryResult(o, r)
      PROVE  CompensationsInv'
  <2> DEFINE event == [kind |-> "Metrics", ref |-> r, at |-> clock, from |-> None,
                       to |-> None]
             new == [Free EXCEPT !.at = "sink", !.op = "Metrics", !.ref = r,
                                 !.event = event]
  <2>1. event \in Events
    BY <1>0 DEF Events
  <2>2. new \in OperatorJobs /\ JobKnowsItsPast(new, DOMAIN recovery')
    BY <2>1 DEF Free, OperatorJobs, JobKnowsItsPast, Kinds
  <2>3. issued' \in 0 .. OperatorBound /\ OpGoes(o, new)
    BY <1>0, <1>4 DEF QueryResult
  <2> HIDE DEF new
  <2> QED
    BY <1>0, <1>2, <1>4, <2>2, <2>3, JobStep DEF QueryResult
<1>5. CASE LoadRecord(o)
  <2> DEFINE allowed == record[job.ref] # None
                          /\ <<record[job.ref], Targets[job.op]>> \in Transitions
             new == IF allowed THEN [job EXCEPT !.at = "update", !.own = record[job.ref]]
                    ELSE Free
  <2>1. job.at = "load" /\ OpGoes(o, new)
    BY <1>5 DEF LoadRecord
  <2>2. CASE allowed
    <3>1. /\ new \in OperatorJobs /\ new.at = "update" /\ new.own = record[job.ref]
          /\ new.op = job.op /\ new.ref = job.ref
      BY <1>0, <2>1, <2>2 DEF OperatorJobs, JobKnowsItsPast
    <3>2. JobKnowsItsPast(new, DOMAIN recovery')
      BY <1>0, <2>1, <2>2, <3>1 DEF JobKnowsItsPast
    <3> HIDE DEF new
    <3> QED
      BY <1>0, <1>2, <1>5, <2>1, <3>1, <3>2, JobStep DEF LoadRecord
  <2>3. CASE ~allowed
    BY <1>0, <1>1, <1>2, <1>5, <2>1, <2>3, JobStep DEF LoadRecord
  <2> QED
    BY <2>2, <2>3
<1>6. CASE UpdateRecord(o)
  <2> DEFINE event == [kind |-> job.op, ref |-> job.ref, at |-> clock, from |-> job.own,
                       to |-> Targets[job.op]]
             new == [job EXCEPT !.at = "sink", !.event = event]
  <2>1. job.op \in DOMAIN Targets /\ job.ref \in References /\ Targets[job.op] \in Statuses
    BY <1>0, <1>6, TargetsType DEF UpdateRecord, JobKnowsItsPast
  <2>2. event \in Events
    BY <1>0, <2>1 DEF Events, OperatorJobs
  <2>3. new \in OperatorJobs /\ new.at = "sink" /\ new.event \in Events
    BY <1>0, <2>2 DEF OperatorJobs
  <2>4. OpGoes(o, new) /\ record' \in [References -> Statuses \union {None}]
    BY <1>0, <1>6, <2>1 DEF UpdateRecord
  <2>5. JobKnowsItsPast(new, DOMAIN recovery')
    BY <2>3 DEF JobKnowsItsPast
  <2> HIDE DEF new
  <2> QED
    BY <1>0, <1>2, <1>6, <2>3, <2>4, <2>5, JobStep DEF UpdateRecord
<1>7. ASSUME NEW told \in {"succeeded", "persisted", "persist_failed"}, Answer(o, told),
             job.event \in Events, UNCHANGED <<record, clock, issued>>,
             audit \subseteq audit', DOMAIN recovery \subseteq DOMAIN recovery',
             DOMAIN recovery' \subseteq RecoveryIds,
             \A id \in DOMAIN recovery' : recovery'[id] \in {"open", "manually_resolved"},
             told = "succeeded" => job.event \in audit',
             told = "persisted" => RecoveryId(job.event) \in DOMAIN recovery'
      PROVE  CompensationsInv'
  <2>1. /\ OpGoes(o, Free) /\ answered' = answered \union {<<job.event, told>>}
        /\ <<job.event, told>>[1] = job.event /\ <<job.event, told>>[2] = told
    BY <1>7 DEF Answer
  <2>2. \A a \in answered' : a[1] \in Events /\ a[2] \in {"succeeded", "persisted",
                                                          "persist_failed"}
    BY <1>0, <1>7, <2>1
  <2>3. EventsAreAccountedFor'
    BY <1>7, <2>1, AccountsKept
  <2> QED
    BY <1>0, <1>1, <1>7, <2>1, <2>2, <2>3, JobStep
<1>8. CASE SinkTakes(o)
  BY <1>0, <1>7, <1>8 DEF SinkTakes, JobKnowsItsPast
<1>9. CASE SinkRefuses(o)
  <2> DEFINE new == [job EXCEPT !.at = "recover"]
  <2>1. new \in OperatorJobs /\ JobKnowsItsPast(new, DOMAIN recovery')
    BY <1>0, <1>9 DEF SinkRefuses, OperatorJobs, JobKnowsItsPast
  <2>2. EventsAreAccountedFor' /\ OpGoes(o, new)
    BY <1>9, AccountsKept DEF SinkRefuses
  <2> HIDE DEF new
  <2> QED
    BY <1>0, <1>9, <2>1, <2>2, JobStep DEF SinkRefuses
<1>10. ASSUME job.event \in Events, recovery' = Opened(RecoveryId(job.event))
       PROVE  /\ DOMAIN recovery \subseteq DOMAIN recovery'
              /\ RecoveryId(job.event) \in DOMAIN recovery'
              /\ DOMAIN recovery' \subseteq RecoveryIds
              /\ \A id \in DOMAIN recovery' : recovery'[id] \in {"open", "manually_resolved"}
  <2> DEFINE id == RecoveryId(job.event)
  <2>1. id \in RecoveryIds /\ recovery' = Opened(id)
    BY <1>10, RecoveryIdType
  <2> HIDE DEF id
  <2>2. /\ DOMAIN recovery' = DOMAIN recovery \union {id}
        /\ \A x \in DOMAIN recovery' : recovery'[x] = IF x = id THEN "open" ELSE recovery[x]
    BY <2>1, OpenedRecord
  <2>3. /\ DOMAIN recovery \subseteq DOMAIN recovery' /\ id \in DOMAIN recovery'
        /\ DOMAIN recovery' \subseteq RecoveryIds
        /\ \A x \in DOMAIN recovery' : recovery'[x] \in {"open", "manually_resolved"}
    BY <1>0, <2>1, <2>2
  <2> QED
    BY <2>3 DEF id
<1>11. CASE AppendRecovery(o)
  <2> DEFINE new == [job EXCEPT !.at = "trace"]
  <2>1. job.event \in Events /\ OpGoes(o, new) /\ recovery' = Opened(RecoveryId(job.event))
    BY <1>0, <1>11 DEF AppendRecovery, JobKnowsItsPast
  <2>2. new \in OperatorJobs /\ new.at = "trace" /\ new.event = job.event
    BY <1>0 DEF OperatorJobs
  <2>3. JobKnowsItsPast(new, DOMAIN recovery')
    BY <1>10, <2>1, <2>2 DEF JobKnowsItsPast
  <2> HIDE DEF new
  <2> QED
    BY <1>0, <1>2, <1>10, <1>11, <2>1, <2>2, <2>3, JobStep DEF AppendRecovery
<1>12. CASE AppendRecoveryFails(o)
  <2>1. job.event \in Events /\ Answer(o, "persist_failed")
    BY <1>0, <1>12 DEF AppendRecoveryFails, JobKnowsItsPast
  <2>2. /\ DOMAIN recovery \subseteq DOMAIN recovery' /\ DOMAIN recovery' \subseteq RecoveryIds
        /\ \A id \in DOMAIN recovery' : recovery'[id] \in {"open", "manually_resolved"}
    BY <1>0, <1>10, <1>12, <2>1 DEF AppendRecoveryFails
  <2> QED
    BY <1>7, <1>12, <2>1, <2>2 DEF AppendRecoveryFails
<1>13. CASE TraceRecovery(o)
  BY <1>0, <1>7, <1>13 DEF TraceRecovery, JobKnowsItsPast
<1>14. ASSUME NEW id \in DOMAIN recovery, IssueResolution(o, id)
       PROVE  CompensationsInv'
  <2> DEFINE new == [Free EXCEPT !.at = "find", !.op = "MarkManuallyResolved", !.id = id]
  <2>1. new \in OperatorJobs /\ JobKnowsItsPast(new, DOMAIN recovery)
    BY <1>0 DEF Free, OperatorJobs, JobKnowsItsPast
  <2>2. issued' \in 0 .. OperatorBound /\ OpGoes(o, new)
    BY <1>0, <1>14 DEF IssueResolution
  <2> HIDE DEF new
  <2> QED
    BY <1>0, <1>2, <1>14, <2>1, <2>2, JobStep DEF IssueResolution
<1>15. CASE FindRecovery(o)
  <2> DEFINE new == IF recovery[job.id] = "open" THEN [job EXCEPT !.at = "resolve"] ELSE Free
  <2>1. OpGoes(o, new) /\ job.at = "find" /\ UNCHANGED recovery
    BY <1>15 DEF FindRecovery
  <2>2. new \in OperatorJobs /\ JobKnowsItsPast(new, DOMAIN recovery)
    BY <1>0, <1>1, <2>1 DEF OperatorJobs, JobKnowsItsPast
  <2> HIDE DEF new
  <2> QED
    BY <1>0, <1>2, <1>15, <2>1, <2>2, JobStep DEF FindRecovery
<1>16. ASSUME job.id \in DOMAIN recovery,
              recovery' = [recovery EXCEPT ![job.id] = "manually_resolved"]
       PROVE  /\ DOMAIN recovery' = DOMAIN recovery
              /\ \A id \in DOMAIN recovery' : recovery'[id] \in {"open", "manually_resolved"}
  BY <1>0, <1>16
<1>17. CASE ResolveRecovery(o)
  <2> DEFINE new == [job EXCEPT !.at = "traceResolved"]
  <2>1. /\ OpGoes(o, new) /\ job.id \in DOMAIN recovery
        /\ recovery' = [recovery EXCEPT ![job.id] = "manually_resolved"]
    BY <1>0, <1>17 DEF ResolveRecovery, JobKnowsItsPast
  <2>2. new \in OperatorJobs /\ JobKnowsItsPast(new, DOMAIN recovery)
    BY <1>0, <1>17 DEF ResolveRecovery, OperatorJobs, JobKnowsItsPast
  <2> HIDE DEF new
  <2> QED
    BY <1>0, <1>2, <1>16, <1>17, <2>1, <2>2, JobStep DEF ResolveRecovery
<1>18. CASE TraceResolution(o)
  <2>1. EventsAreAccountedFor'
    BY <1>18, AccountsKept DEF TraceResolution
  <2> QED
    BY <1>0, <1>1, <1>18, <2>1, JobStep DEF TraceResolution
<1>19. CASE OperatorFails(o)
  <2>1. record' \in [References -> Statuses \union {None}]
    BY <1>0, <1>19, TargetsType DEF OperatorFails, JobKnowsItsPast
  <2>2. /\ DOMAIN recovery' = DOMAIN recovery
        /\ \A id \in DOMAIN recovery' : recovery'[id] \in {"open", "manually_resolved"}
    BY <1>0, <1>16, <1>19 DEF OperatorFails, JobKnowsItsPast
  <2> QED
    BY <1>0, <1>1, <1>2, <1>19, <2>1, <2>2, JobStep DEF OperatorFails
<1>20. QED
  BY <1>3, <1>4, <1>5, <1>6, <1>8, <1>9, <1>11, <1>12, <1>13, <1>14, <1>15, <1>17, <1>18,
     <1>19 DEF OperatorStep

\* A step that only the callers' half takes leaves the operators' half as it is.
LEMMA OperatorsStutter == CompensationsInv /\ UNCHANGED opVars => CompensationsInv'
<1> SUFFICES ASSUME CompensationsInv, UNCHANGED opVars
             PROVE  CompensationsInv'
  OBVIOUS
<1>1. EventsAreAccountedFor'
  BY AccountsKept DEF opVars
<1>2. CompensationsTypeOK' /\ JobsKnowTheirPast'
  BY DEF opVars, CompensationsInv, CompensationsTypeOK, JobsKnowTheirPast, JobKnowsItsPast
<1>3. QED
  BY <1>1, <1>2 DEF opVars, CompensationsInv

LEMMA TickInvariant == CompensationsInv /\ Tick => CompensationsInv'
<1> SUFFICES ASSUME CompensationsInv, Tick
             PROVE  CompensationsInv'
  OBVIOUS
<1>1. EventsAreAccountedFor'
  BY AccountsKept DEF Tick
<1>2. clock' \in Times
  BY CompensationsAssumption DEF Tick, CompensationsInv, CompensationsTypeOK, Times
<1>3. CompensationsTypeOK' /\ JobsKnowTheirPast'
  BY <1>2
     DEF Tick, CompensationsInv, CompensationsTypeOK, JobsKnowTheirPast, JobKnowsItsPast
<1>4. QED
  BY <1>1, <1>3 DEF Tick, CompensationsInv

\* A marker is recorded as a status.
LEMMA MarkerInvariant ==
  ASSUME CompensationsInv, NEW a, RecordMarker(a)
  PROVE  CompensationsInv'
<1>1. Marker(a) \in Statuses
  BY DEF Marker, Statuses
<1>2. EventsAreAccountedFor'
  BY AccountsKept DEF RecordMarker
<1>3. record' \in [References -> Statuses \union {None}]
  BY <1>1 DEF RecordMarker, CompensationsInv, CompensationsTypeOK
<1>4. CompensationsTypeOK' /\ JobsKnowTheirPast'
  BY <1>3
     DEF RecordMarker, CompensationsInv, CompensationsTypeOK, JobsKnowTheirPast,
         JobKnowsItsPast
<1>5. QED
  BY <1>2, <1>4 DEF RecordMarker, CompensationsInv

\* A restart drops the jobs; what they had written stays.
LEMMA RestartOfOperators == CompensationsInv /\ Restart => CompensationsInv'
<1> SUFFICES ASSUME CompensationsInv, Restart
             PROVE  CompensationsInv'
  OBVIOUS
<1>1. EventsAreAccountedFor'
  BY AccountsKept DEF Restart
<1>2. Free \in OperatorJobs /\ Free.at = "free"
  BY DEF Free, OperatorJobs
<1>3. ops' \in [Operators -> OperatorJobs] /\ \A o \in Operators : ops'[o].at = "free"
  BY <1>2 DEF Restart
<1>4. CompensationsTypeOK' /\ JobsKnowTheirPast'
  BY <1>3
     DEF Restart, CompensationsInv, CompensationsTypeOK, JobsKnowTheirPast, JobKnowsItsPast
<1>5. QED
  BY <1>1, <1>3, <1>4 DEF Restart, CompensationsInv

-----------------------------------------------------------------------------
(***************************************************************************)
(* The callers' half.                                                      *)
(***************************************************************************)

\* The rules of a risk case lead from states to states.
LEMMA RulesType == \A rule \in RiskRules : rule[3] \in CaseState
<1>1. ActiveStates = {"Detected", "Validating", "Classified", "Liquidating",
                      "FundAbsorbing", "EvaluatingADL", "PlanningADL", "ExecutingADL",
                      "Settling"}
  BY DEF ActiveStates, RiskPath
<1>2. \A rule \in RiskPath : rule[3] \in CaseState
  BY <1>1 DEF RiskPath, CaseState, TerminalStates
<1>3. QED
  BY <1>2 DEF RiskRules, CaseState, TerminalStates

\* What each answer claims.
LEMMA ClaimsOfAnswers ==
  /\ Outcome(NotAttempted) = "failed_before_persistence"
  /\ Outcome(Processing("failed", "not_attempted", "not_attempted"))
       = "failed_before_persistence"
  /\ Outcome(Processing("succeeded", "failed", "not_attempted"))
       = "failed_after_persistence"
  /\ Outcome(PublishFailed) = "failed_after_persistence"
  /\ Outcome(Completed) = "completed"
  BY DEF Outcome, NotAttempted, PublishFailed, Completed, Processing

\* Answers are processings.
LEMMA AnswersType ==
  /\ NotAttempted \in Processings /\ Completed \in Processings
  /\ PublishFailed \in Processings
  /\ Processing("failed", "not_attempted", "not_attempted") \in Processings
  /\ Processing("succeeded", "failed", "not_attempted") \in Processings
  BY DEF Processings, Stages, NotAttempted, PublishFailed, Completed, Processing

\* An answer has what it was made of.
Given(r, p, told) == [req |-> r, processing |-> p, told |-> told]

LEMMA GivenAnswers ==
  /\ \A a \in AnswersGiven : a.req \in Requests /\ a.processing \in Processings
  /\ \A r \in Requests, p \in Processings, told \in {"success", "failure"} :
        Given(r, p, told) \in AnswersGiven
  /\ \A r, p, told :
        /\ Given(r, p, told).req = r /\ Given(r, p, told).processing = p
        /\ Given(r, p, told).told = told
        /\ [Given(r, p, told) EXCEPT !.told = "failure"] = Given(r, p, "failure")
<1>1. \A a \in AnswersGiven : a.req \in Requests /\ a.processing \in Processings
  BY DEF AnswersGiven
<1>2. \A r \in Requests, p \in Processings, told \in {"success", "failure"} :
        Given(r, p, told) \in AnswersGiven
  BY DEF AnswersGiven, Given
<1>3. ASSUME NEW r, NEW p, NEW told
      PROVE  /\ Given(r, p, told).req = r /\ Given(r, p, told).processing = p
             /\ Given(r, p, told).told = told
  BY DEF Given
<1>4. ASSUME NEW r, NEW p, NEW told
      PROVE  [Given(r, p, told) EXCEPT !.told = "failure"] = Given(r, p, "failure")
  BY DEF Given
<1> QED
  BY <1>1, <1>2, <1>3, <1>4

\* The ways in which a step of one command may touch the work of an enforced key: it
\* starts no work on it, it starts the work and reserves the key, or it saves the work
\* and leaves it.
LEMMA KeyStep ==
  ASSUME CommandsType, NEW c \in Callers, NEW r \in Requests, KeyIsExclusive(r),
         \A d \in Callers \ {c} : cmds'[d] = cmds[d], reserved \subseteq reserved',
         \/ saves'[r] = saves[r] /\ (Working(c, r)' => Working(c, r))
         \/ saves'[r] = saves[r] /\ r \notin reserved /\ r \in reserved'
         \/ saves'[r] = saves[r] + 1 /\ Working(c, r) /\ ~Working(c, r)'
  PROVE  KeyIsExclusive(r)'
<1>1. \A d \in Callers \ {c} : Working(d, r)' <=> Working(d, r)
  BY DEF Working
<1>2. saves[r] \in Nat
  BY DEF CommandsType
<1>3. CASE saves'[r] = saves[r] /\ (Working(c, r)' => Working(c, r))
  BY <1>1, <1>3 DEF KeyIsExclusive
<1>4. CASE saves'[r] = saves[r] /\ r \notin reserved /\ r \in reserved'
  BY <1>1, <1>4 DEF KeyIsExclusive
<1>5. CASE saves'[r] = saves[r] + 1 /\ Working(c, r) /\ ~Working(c, r)'
  BY <1>1, <1>2, <1>5 DEF KeyIsExclusive
<1>6. QED
  BY <1>3, <1>4, <1>5

\* What there is to look at in a step of one command: its next place, what it wrote and
\* what it answered.
LEMMA CallerStep ==
  ASSUME RiskInv, NEW c \in Callers, NEW new \in CallerCommands, CmdGoes(c, new),
         new.at # "ready" => new.req \in Requests,
         new.at = "save" => new.next \in CaseState,
         new.at = "publish" => saves'[new.req] > 0,
         case' \in CaseState \union {None},
         reserved \subseteq reserved', reserved' \subseteq Requests,
         published \subseteq published', published' \subseteq Requests,
         results' = results, sent' \in 0 .. CommandBound,
         saves' \in [Requests -> Nat], \A r \in Requests : saves'[r] >= saves[r],
         answers \subseteq answers', answers' \subseteq AnswersGiven,
         \A r \in published' \ published : saves'[r] > 0,
         \A a \in answers' \ answers :
            /\ Outcome(a.processing) = "completed" => a.req \in published'
            /\ Outcome(a.processing) # "failed_before_persistence" => saves'[a.req] > 0
            /\ a.told = "success" =>
                 /\ saves'[a.req] > 0
                 /\ \/ Outcome(a.processing) = "completed"
                    \/ [a EXCEPT !.told = "failure"] \in answers,
         \A r \in Requests : r[2] \in EnforcedKeys =>
            \/ saves'[r] = saves[r] /\ (Working(c, r)' => Working(c, r))
            \/ saves'[r] = saves[r] /\ r \notin reserved /\ r \in reserved'
            \/ saves'[r] = saves[r] + 1 /\ Working(c, r) /\ ~Working(c, r)'
  PROVE  RiskInv'
<1>1. /\ cmds' \in [Callers -> CallerCommands] /\ cmds'[c] = new
      /\ \A d \in Callers \ {c} : cmds'[d] = cmds[d]
  BY DEF RiskInv, CommandsType, CmdGoes
<1>2. KeysAreExclusive'
  BY <1>1, KeyStep DEF RiskInv, KeysAreExclusive
<1>3. \A d \in Callers : cmds[d].at # "ready" => cmds[d].req \in Requests
  BY DEF RiskInv, CommandsType
<1>4. \A d \in Callers :
         /\ cmds'[d].at \in {"ready", "reserve", "reuse", "load", "save", "publish"}
         /\ cmds'[d].at = "save" => cmds'[d].next \in CaseState
         /\ cmds'[d].at # "ready" => cmds'[d].req \in Requests
  BY <1>1, <1>3 DEF RiskInv, CommandsType, RiskTypeOK, CallerCommands
<1>5. WorkIsSaved'
  <2>1. \A d \in Callers : cmds'[d].at = "publish" => saves'[cmds'[d].req] > 0
    <3>1. \A d \in Callers \ {c} : cmds[d].at = "publish" =>
            cmds[d].req \in Requests /\ saves[cmds[d].req] > 0
      BY <1>3 DEF RiskInv, WorkIsSaved
    <3>2. \A r \in Requests : saves[r] \in Nat /\ saves'[r] \in Nat
      BY DEF RiskInv, CommandsType
    <3> QED
      BY <1>1, <3>1, <3>2
  <2> QED
    BY <2>1 DEF RiskInv, WorkIsSaved
<1>6. CommandsType'
  <2>1. RiskTypeOK'
    BY <1>4 DEF RiskInv, CommandsType, RiskTypeOK
  <2> QED
    BY <1>1, <1>4, <2>1 DEF RiskInv, CommandsType
<1>7. AnswersTellTheTruth'
  <2>1. \A r \in Requests : saves[r] > 0 => saves'[r] > 0
    BY DEF RiskInv, CommandsType
  <2>2. \A a \in answers : a.req \in Requests
    BY DEF RiskInv, CommandsType, RiskTypeOK, AnswersGiven
  <2>3. published \subseteq Requests
    BY DEF RiskInv, CommandsType, RiskTypeOK
  <2> QED
    BY <2>1, <2>2, <2>3 DEF RiskInv, AnswersTellTheTruth
<1>8. QED
  BY <1>2, <1>5, <1>6, <1>7 DEF RiskInv

\* Every step of a caller's command preserves the invariant.
LEMMA CommandStepInvariant ==
  ASSUME RiskInv, NEW c \in Callers, CommandStep(c)
  PROVE  RiskInv'
<1> DEFINE cmd == cmds[c]
           Saved == [saves EXCEPT ![cmd.req] = @ + 1]
<1>0. /\ cmd \in CallerCommands /\ (cmd.at # "ready" => cmd.req \in Requests)
      /\ cmd.at = "save" => cmd.next \in CaseState
      /\ cmds \in [Callers -> CallerCommands] /\ saves \in [Requests -> Nat]
      /\ case \in CaseState \union {None} /\ reserved \subseteq Requests
      /\ published \subseteq Requests /\ sent \in 0 .. CommandBound /\ CommandBound \in Nat
      /\ answers \subseteq AnswersGiven
  BY RequestsAssumption DEF RiskInv, CommandsType, RiskTypeOK
<1>1. \A r \in Requests : saves[r] >= saves[r]
  BY <1>0
<1>2. ASSUME NEW r \in Requests, cmd.at = "save", cmd.req = r
      PROVE  /\ Saved \in [Requests -> Nat] /\ Saved[r] = saves[r] + 1 /\ Saved[r] > 0
             /\ \A q \in Requests : Saved[q] >= saves[q]
             /\ \A q \in Requests : Saved[q] = saves[q] \/ q = r
             /\ Working(c, r)
  BY <1>0, <1>2 DEF Working
<1> HIDE DEF Saved
\* A command that answers is over; what it may have done is saved or published.
<1>3. ASSUME NEW p \in Processings, NEW s \in {"success", "failure"}, Answers(c, p, s), cmd.at # "ready",
             case' \in CaseState \union {None},
             reserved \subseteq reserved', reserved' \subseteq Requests,
             published' \in {published, published \union {cmd.req}},
             UNCHANGED <<results, sent>>,
             saves' = saves \/ (saves' = Saved /\ cmd.at = "save"),
             published' # published => saves'[cmd.req] > 0,
             Outcome(p) = "completed" => cmd.req \in published',
             Outcome(p) # "failed_before_persistence" => saves'[cmd.req] > 0,
             s = "success" =>
                  /\ saves'[cmd.req] > 0
                  /\ \/ Outcome(p) = "completed"
                     \/ Given(cmd.req, p, "failure") \in answers
      PROVE  RiskInv'
  <2>1. Ready \in CallerCommands /\ Ready.at = "ready"
    BY DEF Ready, CallerCommands
  <2> DEFINE given == Given(cmd.req, p, s)
  <2>2. cmds'[c] = Ready /\ CmdGoes(c, Ready) /\ answers' = answers \union {given}
    BY <1>0, <1>3, <2>1 DEF Answers, CmdGoes, Given
  <2>3. \A r \in Requests : ~Working(c, r)'
    BY <2>1, <2>2 DEF Working
  <2>4. saves' \in [Requests -> Nat] /\ \A r \in Requests : saves'[r] >= saves[r]
    BY <1>0, <1>1, <1>2, <1>3
  <2>5. \A r \in Requests :
          saves'[r] = saves[r] \/ (saves'[r] = saves[r] + 1 /\ Working(c, r))
    BY <1>0, <1>2, <1>3
  <2>6. /\ given.req = cmd.req /\ given.processing = p /\ given.told = s
        /\ [given EXCEPT !.told = "failure"] = Given(cmd.req, p, "failure")
    BY GivenAnswers
  <2>7. given \in AnswersGiven
    BY <1>0, <1>3, GivenAnswers
  <2> HIDE DEF given
  <2>8. /\ answers \subseteq answers' /\ answers' \subseteq AnswersGiven
        /\ \A a \in answers' \ answers : a = given
    BY <1>0, <2>2, <2>7
  <2>9. /\ published \subseteq published' /\ published' \subseteq Requests
        /\ \A r \in published' \ published : r = cmd.req /\ saves'[r] > 0
    BY <1>0, <1>3
  <2> QED
    BY <1>0, <1>3, <2>1, <2>2, <2>3, <2>4, <2>5, <2>6, <2>8, <2>9, CallerStep
\* A command that goes on without having written anything.
<1>4. ASSUME NEW new \in CallerCommands, CmdGoes(c, new), new.req \in Requests,
             new.at = "save" => new.next \in CaseState, new.at # "publish",
             reserved \subseteq reserved', reserved' \subseteq Requests,
             UNCHANGED <<case, results, published, saves, answers>>,
             sent' \in 0 .. CommandBound,
             \A r \in Requests : r[2] \in EnforcedKeys =>
               \/ (new.req = r /\ new.at \in {"load", "save"}) => Working(c, r)
               \/ r \notin reserved /\ r \in reserved'
      PROVE  RiskInv'
  <2>1. cmds'[c] = new
    BY <1>0, <1>4 DEF CmdGoes
  <2>2. \A r \in Requests : Working(c, r)' <=> new.req = r /\ new.at \in {"load", "save"}
    BY <2>1 DEF Working
  <2> QED
    BY <1>0, <1>1, <1>4, <2>2, CallerStep
<1>5. ASSUME NEW r \in Requests, NEW a \in RiskActions, Issue(c, r, a)
      PROVE  RiskInv'
  <2> DEFINE new == [Ready EXCEPT !.at = "reserve", !.req = r, !.action = a]
  <2>1. new \in CallerCommands /\ new.at = "reserve" /\ new.req = r
    BY DEF Ready, CallerCommands
  <2>2. sent' \in 0 .. CommandBound /\ CmdGoes(c, new)
    BY <1>0, <1>5 DEF Issue
  <2> HIDE DEF new
  <2> QED
    BY <1>0, <1>4, <1>5, <2>1, <2>2 DEF Issue
<1>6. CASE Reserve(c)
  <2> DEFINE new == IF cmd.req \in reserved THEN [cmd EXCEPT !.at = "reuse"] ELSE Begin(c)
  <2>1. cmd.at = "reserve" /\ cmd.req \in Requests /\ CmdGoes(c, new)
    BY <1>0, <1>6 DEF Reserve
  <2>2. /\ new \in CallerCommands /\ new.req = cmd.req /\ new.at # "publish"
        /\ new.at = "save" => new.next \in CaseState
        /\ cmd.req \in reserved => new.at = "reuse"
    BY <1>0, <2>1 DEF Begin, CallerCommands, CaseState, ActiveStates, RiskPath
  <2>3. /\ reserved \subseteq reserved' /\ reserved' \subseteq Requests
        /\ cmd.req[2] \in EnforcedKeys => cmd.req \in reserved'
    BY <1>0, <1>6, <2>1 DEF Reserve, Enforced
  <2> HIDE DEF new
  <2> QED
    BY <1>0, <1>4, <1>6, <2>1, <2>2, <2>3 DEF Reserve
<1>7. CASE ReserveFails(c)
  <2>1. reserved \subseteq reserved' /\ reserved' \subseteq Requests
    BY <1>0, <1>7 DEF ReserveFails
  <2> QED
    BY <1>0, <1>3, <1>7, <2>1, AnswersType, ClaimsOfAnswers DEF ReserveFails, AnswersFailure
<1>8. CASE Reuse(c)
  <2> DEFINE p == results[cmd.req]
             given(s) == Given(cmd.req, p, s)
  <2>1. PICK s \in {"success", "failure"} : given(s) \in answers
    BY <1>8 DEF Reuse, RiskInv, WorkIsSaved, Given
  <2>2. /\ p \in Processings /\ given(s).told = s
        /\ given(s).req = cmd.req /\ given(s).processing = p
        /\ [given(s) EXCEPT !.told = "failure"] = given("failure")
    BY <1>0, <2>1, GivenAnswers
  <2>3. /\ Outcome(p) = "completed" => cmd.req \in published
        /\ Outcome(p) # "failed_before_persistence" => saves[cmd.req] > 0
        /\ Outcome(p) = "completed" \/ given("failure") \in answers
    <3>1. CASE s = "success"
      BY <2>1, <2>2, <3>1 DEF RiskInv, AnswersTellTheTruth
    <3>2. CASE s = "failure"
      BY <2>1, <2>2, <3>2 DEF RiskInv, AnswersTellTheTruth
    <3> QED
      BY <3>1, <3>2
  <2>4. Outcome(p) # "failed_before_persistence"
    BY <1>8 DEF Reuse, RiskInv, WorkIsSaved, Outcome
  <2>5. /\ Answers(c, p, "success") /\ cmd.at = "reuse"
        /\ UNCHANGED <<case, reserved, results, published, sent, saves>>
    BY <1>8 DEF Reuse
  <2> HIDE DEF p
  <2> QED
    BY <1>0, <1>3, <2>2, <2>3, <2>4, <2>5
<1>9. CASE Load(c)
  <2>1. PICK rule \in RiskRules :
          CmdGoes(c, [cmd EXCEPT !.at = "save", !.next = rule[3]])
    BY <1>9 DEF Load
  <2> DEFINE new == [cmd EXCEPT !.at = "save", !.next = rule[3]]
  <2>2. cmd.at = "load" /\ cmd.req \in Requests /\ Working(c, cmd.req)
    BY <1>0, <1>9 DEF Load, Working
  <2>3. /\ new \in CallerCommands /\ new.req = cmd.req /\ new.at = "save"
        /\ new.next \in CaseState
    BY <1>0, RulesType DEF CallerCommands
  <2> HIDE DEF new
  <2>4. CmdGoes(c, new)
    BY <2>1 DEF new
  <2> QED
    BY <1>0, <1>4, <1>9, <2>2, <2>3, <2>4 DEF Load
<1>10. CASE Refuse(c)
  BY <1>0, <1>3, <1>10, AnswersType, ClaimsOfAnswers DEF Refuse, AnswersFailure
<1>11. CASE Save(c)
  <2> DEFINE new == [cmd EXCEPT !.at = "publish"]
  <2>1. cmd.at = "save" /\ cmd.req \in Requests /\ saves' = Saved /\ case' = cmd.next
    BY <1>0, <1>11 DEF Save, Saved
  <2>2. CASE CmdGoes(c, new) /\ UNCHANGED answers
    <3>1. new \in CallerCommands /\ new.at = "publish" /\ new.req = cmd.req
      BY <1>0 DEF CallerCommands
    <3>2. cmds'[c] = new
      BY <1>0, <2>2 DEF CmdGoes
    <3>3. \A r \in Requests : ~Working(c, r)'
      BY <3>1, <3>2 DEF Working
    <3> HIDE DEF new
    <3> QED
      BY <1>0, <1>2, <1>11, <2>1, <2>2, <3>1, <3>3, CallerStep DEF Save
  <2>3. CASE AnswersFailure(c, Processing("succeeded", "failed", "not_attempted"))
    BY <1>0, <1>2, <1>3, <1>11, <2>1, <2>3, AnswersType, ClaimsOfAnswers DEF Save, AnswersFailure
  <2> QED
    BY <1>11, <2>2, <2>3 DEF Save
<1>12. CASE SaveFails(c)
  <2>1. cmd.at = "save" /\ (saves' = saves \/ saves' = Saved)
        /\ case' \in CaseState \union {None}
    BY <1>0, <1>12 DEF SaveFails, Saved
  <2> QED
    BY <1>0, <1>3, <1>12, <2>1, AnswersType, ClaimsOfAnswers DEF SaveFails, AnswersFailure
<1>13. ASSUME cmd.at = "publish"
       PROVE  saves[cmd.req] > 0
  BY <1>13 DEF RiskInv, WorkIsSaved
<1>14. CASE Publish(c)
  BY <1>0, <1>3, <1>13, <1>14, AnswersType, ClaimsOfAnswers DEF Publish
<1>15. CASE PublishFails(c)
  BY <1>0, <1>3, <1>13, <1>15, AnswersType, ClaimsOfAnswers DEF PublishFails, AnswersFailure
<1>16. QED
  BY <1>5, <1>6, <1>7, <1>8, <1>9, <1>10, <1>11, <1>12, <1>14, <1>15 DEF CommandStep

\* A step that only the operators' half takes leaves the callers' half as it is.
LEMMA CallersStutter == RiskInv /\ UNCHANGED riskVars => RiskInv'
  BY DEF riskVars, RiskInv, CommandsType, RiskTypeOK, KeysAreExclusive, KeyIsExclusive,
         Working, WorkIsSaved, AnswersTellTheTruth

\* A result that is stored was an answer, so it claims no more than that answer.
LEMMA RememberInvariant ==
  ASSUME RiskInv, NEW a \in answers, RememberResult(a)
  PROVE  RiskInv'
<1>1. /\ a \in AnswersGiven /\ a.processing.persistence = "succeeded"
      /\ a = [req |-> a.req, processing |-> a.processing, told |-> a.told]
  BY DEF RiskInv, CommandsType, RiskTypeOK, AnswersGiven, RememberResult
<1>2. /\ DOMAIN results' = DOMAIN results \union {a.req}
      /\ \A r \in DOMAIN results' :
           results'[r] = IF r = a.req THEN a.processing ELSE results[r]
  BY DEF RememberResult
<1>3. ASSUME NEW r \in DOMAIN results'
      PROVE  /\ results'[r].persistence = "succeeded"
             /\ \E told \in {"success", "failure"} :
                  [req |-> r, processing |-> results'[r], told |-> told] \in answers
  <2>1. CASE r = a.req
    BY <1>1, <1>2, <2>1 DEF AnswersGiven
  <2>2. CASE r # a.req
    BY <1>2, <1>3, <2>2 DEF RiskInv, WorkIsSaved
  <2> QED
    BY <2>1, <2>2
<1>4. WorkIsSaved'
  BY <1>3 DEF RememberResult, RiskInv, WorkIsSaved
<1>5. DOMAIN results' \subseteq Requests /\ Range(results') \subseteq Processings
  BY <1>1, <1>2 DEF RiskInv, CommandsType, RiskTypeOK, Range, AnswersGiven
<1>6. CommandsType'
  BY <1>5 DEF RememberResult, RiskInv, CommandsType, RiskTypeOK
<1>7. KeysAreExclusive' /\ AnswersTellTheTruth'
  BY DEF RememberResult, RiskInv, KeysAreExclusive, KeyIsExclusive, Working,
         AnswersTellTheTruth
<1>8. QED
  BY <1>4, <1>6, <1>7 DEF RiskInv

\* A restart drops the commands: the reservations and the stored results stay.
LEMMA RestartOfCallers == RiskInv /\ Restart => RiskInv'
<1> SUFFICES ASSUME RiskInv, Restart
             PROVE  RiskInv'
  OBVIOUS
<1>1. /\ cmds' \in [Callers -> CallerCommands]
      /\ \A c \in Callers : cmds'[c].at = "ready"
  BY DEF Restart, Ready, CallerCommands
<1>2. CommandsType'
  BY <1>1 DEF Restart, RiskInv, CommandsType, RiskTypeOK
<1>3. KeysAreExclusive'
  BY <1>1 DEF Restart, RiskInv, KeysAreExclusive, KeyIsExclusive, Working
<1>4. WorkIsSaved' /\ AnswersTellTheTruth'
  BY <1>1 DEF Restart, RiskInv, WorkIsSaved, AnswersTellTheTruth
<1>5. QED
  BY <1>2, <1>3, <1>4 DEF RiskInv

-----------------------------------------------------------------------------
(***************************************************************************)
(* Both halves.                                                            *)
(***************************************************************************)

\* The invariant holds at first.
LEMMA InitInvariant == Init => IInv
<1> SUFFICES ASSUME Init
             PROVE  IInv
  OBVIOUS
<1>1. CompensationsInv
  BY CompensationsInitInvariant DEF Init
<1>2. /\ cmds \in [Callers -> CallerCommands]
      /\ \A c \in Callers : cmds[c].at = "ready"
  BY DEF Init, Ready, CallerCommands
<1>3. DOMAIN results = {} /\ Range(results) = {}
  BY DEF Init, Range
<1>4. saves \in [Requests -> Nat] /\ \A r \in Requests : saves[r] = 0
  BY DEF Init
<1>5. CommandsType
  BY <1>2, <1>3, <1>4, RequestsAssumption DEF Init, CommandsType, RiskTypeOK
<1>6. KeysAreExclusive
  BY <1>2, <1>4 DEF Init, KeysAreExclusive, KeyIsExclusive, Working
<1>7. WorkIsSaved /\ AnswersTellTheTruth
  BY <1>2, <1>3 DEF Init, WorkIsSaved, AnswersTellTheTruth
<1>8. QED
  BY <1>1, <1>5, <1>6, <1>7 DEF IInv, RiskInv

\* Every step preserves the invariant.
LEMMA NextInvariant == IInv /\ [Next]_vars => IInv'
<1> SUFFICES ASSUME IInv, [Next]_vars
             PROVE  IInv'
  OBVIOUS
<1>1. CASE CompensationsNext /\ UNCHANGED riskVars
  BY <1>1, TickInvariant, OperatorStepInvariant, CallersStutter
     DEF IInv, CompensationsNext
<1>2. CASE (\E c \in Callers : CommandStep(c)) /\ UNCHANGED opVars
  BY <1>2, CommandStepInvariant, OperatorsStutter DEF IInv
<1>3. CASE (\E a \in answers : RememberResult(a)) /\ UNCHANGED opVars
  BY <1>3, RememberInvariant, OperatorsStutter DEF IInv
<1>4. CASE (\E a \in answers : RecordMarker(a)) /\ UNCHANGED riskVars
  BY <1>4, MarkerInvariant, CallersStutter DEF IInv
<1>5. CASE Restart
  BY <1>5, RestartOfOperators, RestartOfCallers DEF IInv
<1>6. CASE UNCHANGED vars
  BY <1>6, OperatorsStutter, CallersStutter DEF IInv, vars
<1>7. QED
  BY <1>1, <1>2, <1>3, <1>4, <1>5, <1>6 DEF Next

\* The invariant holds in every state the commands can reach.
THEOREM InvariantHolds == Spec => []IInv
  BY InitInvariant, NextInvariant, PTL DEF Spec

\* Types of the stores, of the commands and of the answers.
THEOREM TypeCorrect == Spec => []TypeOK
<1>1. IInv => TypeOK
  BY DEF IInv, CompensationsInv, RiskInv, CommandsType, TypeOK
<1>2. QED
  BY <1>1, InvariantHolds, PTL

\* The work of a request whose key is enforced is saved at most once, whatever fails in
\* it and however often it is sent again: evaluateIdempotency reserves before the work,
\* and a duplicate that finds no stored result is refused, not done.
THEOREM KeyRunsOnceHolds == Spec => []KeyRunsOnce
<1>1. IInv => KeyRunsOnce
  BY DEF IInv, RiskInv, KeysAreExclusive, KeyIsExclusive, KeyRunsOnce
<1>2. QED
  BY <1>1, InvariantHolds, PTL

\* An answer claims no more than happened, and nothing unsaved is published.
THEOREM AnswersTellTheTruthHolds == Spec => []AnswersTellTheTruth
<1>1. IInv => AnswersTellTheTruth
  BY DEF IInv, RiskInv
<1>2. QED
  BY <1>1, InvariantHolds, PTL

\* An event that a sink did not take has a recovery record, or the answer said so.
THEOREM EventsAreAccountedForHolds == Spec => []EventsAreAccountedFor
<1>1. IInv => EventsAreAccountedFor
  BY DEF IInv, CompensationsInv
<1>2. QED
  BY <1>1, InvariantHolds, PTL

\* A resolved compensation is taken back only by a command that had read the record
\* before it was resolved: the transition table has no way out of resolved, and a new
\* marker is written only where there is no record.
THEOREM ReopenedOnlyByStaleReadHolds == Spec => ReopenedOnlyByStaleRead
<1> DEFINE Stale(r) == \E o \in Operators :
             ops[o].at = "update" /\ ops[o].ref = r /\ ops[o].own # "resolved"
           Kept == \A r \in References :
             (record[r] = "resolved" /\ record'[r] # "resolved") => Stale(r)
<1>1. ASSUME IInv, [Next]_vars, NEW r \in References,
             record[r] = "resolved", record'[r] # "resolved"
      PROVE  Stale(r)
  <2>1. record \in [References -> Statuses \union {None}]
    BY <1>1 DEF IInv, CompensationsInv, CompensationsTypeOK
  <2>2. ASSUME NEW o \in Operators, ops[o].at = "update",
               record' = [record EXCEPT ![ops[o].ref] = Targets[ops[o].op]]
        PROVE  Stale(r)
    <3>1. ops[o].ref = r /\ Targets[ops[o].op] # "resolved"
      BY <1>1, <2>1, <2>2
    <3>2. ops[o].op \in DOMAIN Targets
          /\ <<ops[o].own, Targets[ops[o].op]>> \in Transitions
      BY <1>1, <2>2 DEF IInv, CompensationsInv, JobsKnowTheirPast, JobKnowsItsPast
    <3>3. ops[o].own # "resolved"
      BY <3>1, <3>2, ResolvedIsFinal
    <3> QED
      BY <2>2, <3>1, <3>3
  <2>3. ASSUME NEW o \in Operators, OperatorStep(o)
        PROVE  ops[o].at = "update"
               /\ record' = [record EXCEPT ![ops[o].ref] = Targets[ops[o].op]]
    BY <1>1, <2>3
       DEF OperatorStep, IssueChange, QueryResult, LoadRecord, UpdateRecord, SinkTakes,
           SinkRefuses, AppendRecovery, AppendRecoveryFails, TraceRecovery,
           IssueResolution, FindRecovery, ResolveRecovery, TraceResolution, OperatorFails
  <2>4. CASE CompensationsNext
    BY <1>1, <2>2, <2>3, <2>4 DEF CompensationsNext, Tick
  <2>5. ASSUME NEW a \in answers, RecordMarker(a)
        PROVE  FALSE
    BY <1>1, <2>1, <2>5, NoStatusIsNone DEF RecordMarker, Statuses
  <2> QED
    BY <1>1, <2>4, <2>5 DEF Next, Restart, vars, opVars
<1>2. IInv /\ [Next]_vars => [Kept]_opVars
  BY <1>1
<1>3. QED
  BY <1>2, InvariantHolds, PTL DEF Spec, ReopenedOnlyByStaleRead
=============================================================================
