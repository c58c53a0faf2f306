----------------------------- MODULE RiskCommands -----------------------------
(***************************************************************************)
(* RiskCaseCommandHandler on one risk case, with the compensation records  *)
(* that its markers ask for (Compensations).  A command reserves its       *)
(* idempotency key, reads and saves the case and publishes what happened,  *)
(* with an await at each of these.                                         *)
(*                                                                         *)
(* Who reserves keys, stores results and writes compensation records is    *)
(* not in the repository: Reserve models an atomic reservation per command *)
(* name and key, RememberResult and RecordMarker the storing of an answer. *)
(*                                                                         *)
(* Operators whose comment starts with "Faulty:" are not part of the       *)
(* specification.                                                          *)
(***************************************************************************)
EXTENDS Compensations, CaseRules, Functions

CONSTANTS
    Callers,        \* commands open at once
    EnforcedKeys,   \* keys that the port does not answer with not_enforced
    RiskActions,    \* actions that commands ask for
    FirstStates,    \* what the repository may hold of the case at first
    CommandBound    \* bound of the model: how many commands are issued

Commands == {"CreateRiskCaseCommand", "TransitionRiskCaseCommand"}

\* A reference names the command and the key whose result it is.
Requests == {r \in References : r[1] \in Commands}

ASSUME RequestsAssumption ==
    /\ Requests = References /\ CommandBound \in Nat
    /\ RiskActions \subseteq {rule[2] : rule \in RiskRules}
    /\ FirstStates \subseteq CaseState \union {None}

VARIABLES
    case,       \* the state of the case in its repository, or None
    reserved,   \* requests whose key has been reserved
    results,    \* the command result store: request -> processing
    published,  \* requests whose event the publisher has taken
    cmds,       \* where each command is
    sent,       \* how many commands have been issued
    saves,      \* history: how often the work of a request was saved
    answers     \* history: what each request has been answered

riskVars == <<case, reserved, results, published, cmds, sent, saves, answers>>
vars == <<opVars, riskVars>>

-----------------------------------------------------------------------------
\* ApplicationProcessingStatus: how far the answer says the command has come.
Stages == {"not_attempted", "failed", "succeeded"}
Processing(persistence, mapping, publish) ==
    [persistence |-> persistence, mapping |-> mapping, publish |-> publish]

Processings == [persistence : Stages, mapping : Stages, publish : Stages]

\* An answer says how far the command has come, and whether that is a success.
AnswersGiven == [req : Requests, processing : Processings,
                 told : {"success", "failure"}]

NotAttempted == Processing("not_attempted", "not_attempted", "not_attempted")
Completed == Processing("succeeded", "succeeded", "succeeded")
PublishFailed == Processing("succeeded", "succeeded", "failed")

Outcome(p) == IF p = Completed THEN "completed"
              ELSE IF p.persistence = "succeeded" THEN "failed_after_persistence"
              ELSE "failed_before_persistence"

Ready == [at |-> "ready", req |-> None, action |-> None, next |-> None]

RiskTypeOK ==
    /\ case \in CaseState \union {None}
    /\ reserved \subseteq Requests /\ published \subseteq Requests
    /\ DOMAIN results \subseteq Requests
    /\ Range(results) \subseteq Processings /\ answers \subseteq AnswersGiven
    /\ \A c \in Callers :
         /\ cmds[c].at \in {"ready", "reserve", "reuse", "load", "save", "publish"}
         /\ cmds[c].at = "save" => cmds[c].next \in CaseState
    /\ sent \in 0 .. CommandBound

TypeOK == CompensationsTypeOK /\ RiskTypeOK

Init ==
    /\ CompensationsInit
    /\ case \in FirstStates
    /\ reserved = {} /\ results = <<>> /\ published = {} /\ answers = {}
    /\ cmds = [c \in Callers |-> Ready]
    /\ sent = 0 /\ saves = [r \in Requests |-> 0]

CmdGoes(c, r) == cmds' = [cmds EXCEPT ![c] = r]

Answers(c, p, told) ==
    /\ CmdGoes(c, Ready)
    /\ answers' = answers \union
                    {[req |-> cmds[c].req, processing |-> p, told |-> told]}

AnswersFailure(c, p) == Answers(c, p, "failure")

-----------------------------------------------------------------------------
(***************************************************************************)
(* evaluateIdempotency and resolveDuplicateResult.                         *)
(***************************************************************************)
Issue(c, r, a) ==
    /\ cmds[c].at = "ready" /\ sent < CommandBound
    /\ sent' = sent + 1
    /\ CmdGoes(c, [Ready EXCEPT !.at = "reserve", !.req = r, !.action = a])
    /\ UNCHANGED <<case, reserved, results, published, saves, answers>>

\* What an accepted command does first: a new case is not looked for in the repository.
Begin(c) ==
    IF cmds[c].req[1] = "CreateRiskCaseCommand"
    THEN [cmds[c] EXCEPT !.at = "save", !.next = "Detected"]
    ELSE [cmds[c] EXCEPT !.at = "load"]

Enforced(c) == cmds[c].req[2] \in EnforcedKeys

\* Faulty: a duplicate without a stored result is done again.
ReserveUnlessStored(c) ==
    /\ cmds[c].at = "reserve"
    /\ reserved' = reserved \union {r \in {cmds[c].req} : Enforced(c)}
    /\ CmdGoes(c, IF cmds[c].req \in reserved /\ cmds[c].req \in DOMAIN results
                  THEN [cmds[c] EXCEPT !.at = "reuse"] ELSE Begin(c))
    /\ UNCHANGED <<case, results, published, sent, saves, answers>>

\* A key is reserved before the work, and stays reserved if the work fails.
Reserve(c) ==
    /\ cmds[c].at = "reserve"
    /\ reserved' = reserved \union {r \in {cmds[c].req} : Enforced(c)}
    /\ CmdGoes(c, IF cmds[c].req \in reserved THEN [cmds[c] EXCEPT !.at = "reuse"]
                  ELSE Begin(c))
    /\ UNCHANGED <<case, results, published, sent, saves, answers>>

\* The port answers with an error, having reserved the key or not.
ReserveFails(c) ==
    /\ cmds[c].at = "reserve"
    /\ reserved' \in {reserved, reserved \union {r \in {cmds[c].req} : Enforced(c)}}
    /\ AnswersFailure(c, NotAttempted)
    /\ UNCHANGED <<case, results, published, sent, saves>>

\* Faulty: a duplicate is answered as if the command had been completed.
ReuseAsCompleted(c) ==
    /\ cmds[c].at = "reuse" /\ cmds[c].req \in DOMAIN results
    /\ Answers(c, Completed, "success")
    /\ UNCHANGED <<case, reserved, results, published, sent, saves>>

\* A duplicate is answered with the processing that is stored and told success in any
\* case, also where the command itself was told that its event was not published.
Reuse(c) ==
    /\ cmds[c].at = "reuse" /\ cmds[c].req \in DOMAIN results
    /\ Answers(c, results[cmds[c].req], "success")
    /\ UNCHANGED <<case, reserved, results, published, sent, saves>>

-----------------------------------------------------------------------------
(***************************************************************************)
(* The work: load and transition, save, map, publish.                      *)
(***************************************************************************)
Load(c) ==
    /\ cmds[c].at = "load"
    /\ \E rule \in RiskRules :
         /\ rule[1] = case /\ rule[2] = cmds[c].action
         /\ CmdGoes(c, [cmds[c] EXCEPT !.at = "save", !.next = rule[3]])
    /\ UNCHANGED <<case, reserved, results, published, sent, saves, answers>>

\* A field of the command is invalid, the case is missing or terminal, no rule allows
\* the action, a read failed, or there is no result to answer a duplicate with.
Refuse(c) ==
    /\ \/ cmds[c].at \in {"reuse", "load"}
       \/ cmds[c].at = "save" /\ cmds[c].req[1] = "CreateRiskCaseCommand"
    /\ AnswersFailure(c, NotAttempted)
    /\ UNCHANGED <<case, reserved, results, published, sent, saves>>

\* The case is written over whatever the repository holds; the events are mapped
\* right after, and an event without a contract is not published.
Save(c) ==
    /\ cmds[c].at = "save"
    /\ case' = cmds[c].next
    /\ saves' = [saves EXCEPT ![cmds[c].req] = @ + 1]
    /\ \/ CmdGoes(c, [cmds[c] EXCEPT !.at = "publish"]) /\ UNCHANGED answers
       \/ AnswersFailure(c, Processing("succeeded", "failed", "not_attempted"))
    /\ UNCHANGED <<reserved, results, published, sent>>

SaveFails(c) ==
    /\ cmds[c].at = "save"
    /\ \/ UNCHANGED <<case, saves>>
       \/ /\ case' = cmds[c].next
          /\ saves' = [saves EXCEPT ![cmds[c].req] = @ + 1]
    /\ AnswersFailure(c, Processing("failed", "not_attempted", "not_attempted"))
    /\ UNCHANGED <<reserved, results, published, sent>>

Publish(c) ==
    /\ cmds[c].at = "publish"
    /\ published' = published \union {cmds[c].req}
    /\ Answers(c, Completed, "success")
    /\ UNCHANGED <<case, reserved, results, sent, saves>>

\* The answer carries a marker: a compensation is pending.
PublishFails(c) ==
    /\ cmds[c].at = "publish"
    /\ published' \in {published, published \union {cmds[c].req}}
    /\ AnswersFailure(c, PublishFailed)
    /\ UNCHANGED <<case, reserved, results, sent, saves>>

-----------------------------------------------------------------------------
(***************************************************************************)
(* Outside of the repository.                                              *)
(***************************************************************************)
RememberResult(a) ==
    /\ a.processing.persistence = "succeeded" /\ a.req \notin DOMAIN results
    /\ results' = [r \in DOMAIN results \union {a.req} |->
                     IF r = a.req THEN a.processing ELSE results[r]]
    /\ UNCHANGED <<case, reserved, published, cmds, sent, saves, answers>>

\* The answers with a marker, and the marker: pending after a failed publish, stored
\* with the result and repeated to duplicates; with every other success not_required,
\* also for a duplicate of a command whose event could not be mapped.
IsMarked(a) == a.told = "success" \/ a.processing = PublishFailed
Marker(a) == IF a.processing = PublishFailed THEN "pending" ELSE "not_required"

RecordMarker(a) ==
    /\ IsMarked(a) /\ record[a.req] = None
    /\ record' = [record EXCEPT ![a.req] = Marker(a)]
    /\ UNCHANGED <<audit, recovery, ops, clock, issued, answered>>

\* The process stops: the open commands of both handlers are gone.
Restart ==
    /\ cmds' = [c \in Callers |-> Ready] /\ ops' = [o \in Operators |-> Free]
    /\ UNCHANGED <<record, audit, recovery, clock, issued, answered, case, reserved,
                   results, published, sent, saves, answers>>

CommandStep(c) ==
    \/ \E r \in Requests, a \in RiskActions : Issue(c, r, a)
    \/ Reserve(c) \/ ReserveFails(c) \/ Reuse(c)
    \/ Load(c) \/ Refuse(c) \/ Save(c) \/ SaveFails(c)
    \/ Publish(c) \/ PublishFails(c)

Next ==
    \/ CompensationsNext /\ UNCHANGED riskVars
    \/ (\E c \in Callers : CommandStep(c)) /\ UNCHANGED opVars
    \/ (\E a \in answers : RememberResult(a)) /\ UNCHANGED opVars
    \/ (\E a \in answers : RecordMarker(a)) /\ UNCHANGED riskVars
    \/ Restart

Spec == Init /\ [][Next]_vars

-----------------------------------------------------------------------------
(***************************************************************************)
(* Properties.                                                             *)
(***************************************************************************)
\* The work of a request whose key the port enforces is saved at most once, whatever
\* fails in it, however often it is sent again, and across restarts.
KeyRunsOnce == \A r \in Requests : r[2] \in EnforcedKeys => saves[r] <= 1

\* No answer, of the command itself or of a duplicate of it, claims more than has
\* happened: completed is said of what was published, and success of what was saved
\* and completed.  One success is of something else: a duplicate repeats, as a success,
\* the processing that the command was answered as a failure.  And no event is
\* published of a change that was not saved.
AnswersTellTheTruth ==
    /\ \A r \in published : saves[r] > 0
    /\ \A a \in answers :
         LET outcome == Outcome(a.processing)
         IN  /\ outcome = "completed" => a.req \in published
             /\ outcome # "failed_before_persistence" => saves[a.req] > 0
             /\ a.told = "success" =>
                  /\ saves[a.req] > 0
                  /\ outcome = "completed" \/ [a EXCEPT !.told = "failure"] \in answers
=============================================================================
