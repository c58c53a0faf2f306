------------------------- MODULE ManualIntervention -------------------------
(***************************************************************************)
(* processDeadLetter (application/src/saga/saga-manual-intervention.ts)    *)
(* called by several operators at once, on a store that orchestrators are  *)
(* still filling: the two signatures, the check that the entry is pending, *)
(* the REQUESTED event, markAsProcessed and the APPLIED event, each an     *)
(* await with the other calls in between.                                  *)
(***************************************************************************)
EXTENDS DeadLetterStore

CONSTANT Calls       \* calls of processDeadLetter

VARIABLES
    pc,              \* where each call stands
    input,           \* what each call was given
    outcome,         \* what each call was answered
    audit,           \* events in the audit trail, each with its call
    degraded         \* calls reported to onDegradedFailure

callVars == <<pc, input, outcome, audit, degraded>>
interventionVars == <<storeVars, callVars>>

Inputs == [entryId : Ids, requestedBy : People, approvedBy : People]
Running == {"load", "requested", "mark", "applied"}
Errors == {"requestor_and_approver_must_differ", "dead_letter_load_failed",
           "dead_letter_entry_not_found", "dead_letter_entry_already_processed",
           "audit_request_event_failed", "dead_letter_mark_as_processed_failed"}
Events == [type : {"requested", "applied"}, call : Calls]

InterventionInit ==
    /\ StoreInit
    /\ pc = [c \in Calls |-> "idle"]
    /\ input \in [Calls -> Inputs]
    /\ outcome = [c \in Calls |-> "none"]
    /\ audit = {}
    /\ degraded = {}

Answer(c, answer) ==
    /\ pc' = [pc EXCEPT ![c] = "answered"]
    /\ outcome' = [outcome EXCEPT ![c] = answer]

Goto(c, point) == pc' = [pc EXCEPT ![c] = point] /\ UNCHANGED outcome

\* Faulty: one signature is enough.
SubmitUnchecked(c) ==
    /\ pc[c] = "idle"
    /\ Goto(c, "load")
    /\ UNCHANGED <<storeVars, input, audit, degraded>>

\* The two signatures are compared before anything is read.
Submit(c) ==
    /\ pc[c] = "idle"
    /\ IF input[c].requestedBy = input[c].approvedBy
       THEN Answer(c, "requestor_and_approver_must_differ")
       ELSE Goto(c, "load")
    /\ UNCHANGED <<storeVars, input, audit, degraded>>

\* The entry as it is now; what becomes of it afterwards goes unseen.
Load(c) ==
    /\ pc[c] = "load"
    /\ LET row == rows[input[c].entryId]
       IN  \/ Answer(c, "dead_letter_load_failed")
           \/ row = Absent /\ Answer(c, "dead_letter_entry_not_found")
           \/ /\ row.status = "processed"
              /\ Answer(c, "dead_letter_entry_already_processed")
           \/ row.status = "pending" /\ Goto(c, "requested")
    /\ UNCHANGED <<storeVars, input, audit, degraded>>

\* Faulty: the failure of the REQUESTED event is treated like that of APPLIED.
AppendRequestedOrNot(c) ==
    /\ pc[c] = "requested"
    /\ audit' \in {audit, audit \cup {[type |-> "requested", call |-> c]}}
    /\ Goto(c, "mark")
    /\ UNCHANGED <<storeVars, input, degraded>>

\* No REQUESTED event, no intervention; an event whose acknowledgement is lost
\* counts as none.
AppendRequested(c) ==
    /\ pc[c] = "requested"
    /\ \/ /\ audit' = audit \cup {[type |-> "requested", call |-> c]}
          /\ Goto(c, "mark")
       \/ /\ audit' \in {audit, audit \cup {[type |-> "requested", call |-> c]}}
          /\ Answer(c, "audit_request_event_failed")
    /\ UNCHANGED <<storeVars, input, degraded>>

Mark(c) ==
    /\ pc[c] = "mark"
    /\ LET marked == MarkAsProcessed(input[c].entryId, input[c].approvedBy)
       IN  \/ rows' = marked /\ Goto(c, "applied")
           \/ /\ rows' \in {rows, marked}
              /\ Answer(c, "dead_letter_mark_as_processed_failed")
    /\ UNCHANGED <<now, counter, acked, drawn, input, audit, degraded>>

\* Faulty: the failure of the APPLIED event is not reported.
AppendAppliedSilently(c) ==
    /\ pc[c] = "applied"
    /\ audit' \in {audit, audit \cup {[type |-> "applied", call |-> c]}}
    /\ Answer(c, "ok")
    /\ UNCHANGED <<storeVars, input, degraded>>

\* The entry is processed already: a failed APPLIED event is only reported.
AppendApplied(c) ==
    /\ pc[c] = "applied"
    /\ \/ /\ audit' = audit \cup {[type |-> "applied", call |-> c]}
          /\ UNCHANGED degraded
       \/ /\ audit' \in {audit, audit \cup {[type |-> "applied", call |-> c]}}
          /\ degraded' = degraded \cup {c}
    /\ Answer(c, "ok")
    /\ UNCHANGED <<storeVars, input>>

\* The process that serves the call dies; nothing resumes the call.
Crash(c) ==
    /\ pc[c] \in Running
    /\ pc' = [pc EXCEPT ![c] = "crashed"]
    /\ UNCHANGED <<storeVars, input, outcome, audit, degraded>>

ProcessDeadLetter(c) == \/ Submit(c) \/ Load(c) \/ AppendRequested(c) \/ Mark(c)
                        \/ AppendApplied(c) \/ Crash(c)

InterventionNext ==
    \/ StoreNext /\ UNCHANGED callVars
    \/ \E c \in Calls : ProcessDeadLetter(c)

InterventionSpec == InterventionInit /\ [][InterventionNext]_interventionVars

-----------------------------------------------------------------------------
(***************************************************************************)
(* Properties.                                                             *)
(***************************************************************************)

\* Clock, counters, rows and calls stay in their domains.
InterventionTypeOK ==
    /\ now \in 0 .. MaxTime
    /\ counter \in [Processes -> 0 .. MaxLetters]
    /\ acked \subseteq Letters
    /\ drawn \subseteq Letters \X Ids
    /\ rows \in [Ids -> Rows \cup {Absent}]
    /\ pc \in [Calls -> {"idle", "answered", "crashed"} \cup Running]
    /\ input \in [Calls -> Inputs]
    /\ outcome \in [Calls -> {"none", "ok"} \cup Errors]
    /\ audit \subseteq Events
    /\ degraded \subseteq Calls

\* Double signature and double audit: whoever the store says processed an entry
\* approved, for someone else, a request for that entry in the audit trail.
ProcessedWasApproved ==
    \A id \in Ids :
        rows[id].status = "processed" =>
            \E c \in Calls :
                /\ [type |-> "requested", call |-> c] \in audit
                /\ input[c].entryId = id
                /\ input[c].approvedBy = rows[id].processedBy
                /\ input[c].requestedBy # input[c].approvedBy

\* No entry is processed in silence: a call on it left its APPLIED event, or
\* reported that it could not, or told the operator that marking had failed, or
\* is not over (or died before it could do either).
ProcessedLeavesTrace ==
    \A id \in Ids :
        rows[id].status = "processed" =>
            \E c \in Calls :
                /\ input[c].entryId = id
                /\ \/ [type |-> "applied", call |-> c] \in audit
                   \/ c \in degraded
                   \/ pc[c] \in {"applied", "crashed"}
                   \/ outcome[c] = "dead_letter_mark_as_processed_failed"

\* Ids drawn for letters of two processes, in the same millisecond with the same
\* count.  The letter enqueued last has the row, as if none had been there.
SharedIds == {id \in Ids : \E one, other \in Letters :
    one[1] # other[1] /\ {<<one, id>>, <<other, id>>} \subseteq drawn}

\* The trail is in order: an APPLIED event follows the REQUESTED event of the same
\* call and speaks of an entry that is processed, and stays so unless another
\* process drew the entry's id for a letter of its own.
AppliedIsTrue ==
    \A e \in audit :
        e.type = "applied" =>
            /\ [type |-> "requested", call |-> e.call] \in audit
            /\ \/ rows[input[e.call].entryId].status = "processed"
               \/ input[e.call].entryId \in SharedIds

\* Dead letters are kept: each one whose enqueue was acknowledged is in the row of
\* the id drawn for it, or that row holds a letter of another process that drew
\* the same id.  A process's own letters never take each other's rows.
LettersAreKept ==
    \A letter \in acked : \E id \in Ids :
        LET holder == rows[id].letter
        IN  /\ <<letter, id>> \in drawn
            /\ rows[id] # Absent
            /\ \/ holder = letter
               \/ holder[1] # letter[1] /\ <<holder, id>> \in drawn

\* What was recorded, in the trail or in the store, stays recorded and true, but
\* for the rows that two processes share.
RecordsAreKept == AppliedIsTrue /\ LettersAreKept
=============================================================================
