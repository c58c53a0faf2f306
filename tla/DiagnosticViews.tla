--------------------------- MODULE DiagnosticViews ---------------------------
(***************************************************************************)
(* What a diagnostic query makes of the signals there are about one fact:  *)
(* the view, its comparison with the two views the history slot keeps, and *)
(* the state an alert is suppressed by.  All of it is computed between two *)
(* awaits.                                                                 *)
(*                                                                         *)
(* Rules versions and schema versions are reduced to how they are read:    *)
(* "current", "older" (supported, with a notice), "foreign" (refused) and, *)
(* for the suppression state, "none".                                      *)
(*                                                                         *)
(* Operators whose comment starts with "Faulty:" are not part of the       *)
(* specification.                                                          *)
(***************************************************************************)
EXTENDS Naturals, SequencesExt

CONSTANT None

RepairStatuses ==
    {"not_repaired", "repair_failed_retryable", "repair_failed_manual_confirmation_required",
     "manually_confirmed", "repaired"}

\* What the result store, the registries and the observations say of the fact.
Signals == [stored : BOOLEAN, registered : BOOLEAN, observed : BOOLEAN, conflict : BOOLEAN,
            validated : BOOLEAN, writeFailed : BOOLEAN, repair : RepairStatuses]

HasAnySignal(s) == s.stored \/ s.registered \/ s.observed \/ s.repair # "not_repaired"

ReadViewStatus(s) ==
    IF s.stored THEN "persisted" ELSE IF s.registered THEN "fallback_only" ELSE "missing"

ValidationStatus(s) ==
    IF s.conflict THEN "failed" ELSE IF s.validated THEN "passed" ELSE "not_performed"

\* The assessment rules in the order they are tried: the first that applies decides.
AssessmentRules(s) ==
    << [when |-> s.conflict, risk |-> "high", hint |-> "investigate_validation_conflict"],
       [when |-> ReadViewStatus(s) = "missing",
        risk |-> "high", hint |-> "investigate_missing_read_view"],
       [when |-> s.repair = "repair_failed_manual_confirmation_required",
        risk |-> "high", hint |-> "manual_confirmation_recommended"],
       [when |-> s.writeFailed, risk |-> "medium", hint |-> "investigate_persistence_failure"],
       [when |-> s.repair = "repair_failed_retryable" \/ ReadViewStatus(s) = "fallback_only"
                   \/ s.repair = "manually_confirmed",
        risk |-> "medium", hint |-> "retry_repair_recommended"],
       [when |-> TRUE, risk |-> "low", hint |-> "no_action_needed"] >>

View(s) ==
    LET rules == AssessmentRules(s)
        first == rules[SelectInSeq(rules, LAMBDA r : r.when)]
    IN  [rules |-> "current", risk |-> first.risk, hint |-> first.hint,
         validation |-> ValidationStatus(s), repair |-> s.repair, read |-> ReadViewStatus(s)]

-----------------------------------------------------------------------------
(* The history slot, [current, previous], and the comparison with it.      *)

\* The category of the first difference, or None.  Rules versions that differ are
\* noticed before this comparison.
FirstConflict(view, kept) ==
    IF view.risk # kept.risk \/ view.hint # kept.hint THEN "current_snapshot_conflict"
    ELSE IF \E f \in {"validation", "repair", "read"} : view[f] # kept[f]
         THEN "status_field_conflict"
         ELSE None

KeptViews(slot) == {slot.current} \union ({slot.previous} \ {None})

\* The category of the replay validation; "refused" is an error of the query.  A
\* validation that passes has the category of a conflict, with less severity.
ReplayValidation(view, slot) ==
    LET conflicts == {FirstConflict(view, v) : v \in KeptViews(slot)} \ {None}
    IN  IF \E v \in KeptViews(slot) : v.rules = "foreign"
        THEN [status |-> "refused", category |-> None]
        ELSE IF \E v \in KeptViews(slot) : v.rules = "older"
             THEN [status |-> "notice", category |-> "version_mismatch"]
        ELSE IF FirstConflict(view, slot.current) # None
             THEN [status |-> "notice", category |-> FirstConflict(view, slot.current)]
        ELSE IF conflicts # {}
             THEN [status |-> "notice", category |-> FirstConflict(view, slot.previous)]
        ELSE [status |-> "passed", category |-> "current_snapshot_conflict"]

\* No validation of a query fails: a failure is an error, so no alert is critical.
SeverityOf(verdict) == IF verdict.status = "notice" THEN "warning" ELSE "info"

\* The slot that is written after the slot that was read.
NextHistory(slot, view) ==
    [current |-> view, previous |-> IF slot = None THEN None ELSE slot.current]

-----------------------------------------------------------------------------
(* The suppression state of a key and the repair of it.                    *)

\* The port's type admits less than the reader looks for, and nothing in between
\* checks.  keyed: key, fact and category of the state are those asked for.  times:
\* "ordered", "unordered" (of no date, or last seen before first seen), or "absent",
\* which also stands for a key, fact or category that is no text.  A severity or a
\* source that is "invalid" is none of those the reader knows; a version that is
\* "blank" is there, and nothing but spaces.
StoredStates ==
    [version : {"current", "older", "foreign", "blank", "none"}, keyed : BOOLEAN,
     times : {"ordered", "unordered", "absent"},
     severity : {"info", "warning", "critical", "invalid"},
     source : {"replay_validation", "history_slot_consistency", "invalid"},
     count : Nat, last : {"emitted", "deduplicated", "suppressed_with_notice"}]

ExpectedStatus(count, severity) ==
    IF count <= 1 THEN "emitted"
    ELSE IF severity = "critical" THEN "suppressed_with_notice" ELSE "deduplicated"

Malformed(s) ==
    \/ s.severity = "invalid" \/ s.source = "invalid"
    \/ s.count < 1 \/ s.times # "ordered" \/ s.last # ExpectedStatus(s.count, s.severity)

ReadCompatibility(s) ==
    IF s = None THEN "state_missing"
    ELSE IF Malformed(s) THEN "malformed_state"
    ELSE CASE s.version \in {"none", "blank"} -> "missing_version"
           [] s.version = "current" -> "compatible_read"
           [] s.version = "older"   -> "compatible_with_notice"
           [] OTHER                 -> "incompatible_version"

CanHydrate(s, severity) ==
    /\ ReadCompatibility(s) \notin {"state_missing", "incompatible_version", "malformed_state"}
    /\ s.keyed
    /\ s.severity = severity /\ s.source = "replay_validation"

\* Continuity of the state that was read with the alert that was just recorded:
\* the status a failure sends the repair lifecycle to, or None.
ContinuityFailure(s, severity, count) ==
    CASE ReadCompatibility(s) = "state_missing" -> None
      [] ReadCompatibility(s) = "incompatible_version" ->
           "repair_failed_manual_confirmation_required"
      [] ReadCompatibility(s) \in {"missing_version", "malformed_state"} ->
           "repair_failed_retryable"
      [] OTHER ->
           IF ~s.keyed \/ s.severity # severity \/ s.source # "replay_validation"
           THEN "repair_failed_manual_confirmation_required"
           ELSE IF s.count > count THEN "repair_failed_retryable" ELSE None

\* The state a repair makes of s: None if it cannot be repaired, s if it finds nothing
\* to repair.  It leaves severity, source and a blank version as they are, and the
\* version of a state that is malformed, supported or not.
RepairedState(s) ==
    LET count == IF s.count < 1 THEN 1 ELSE s.count
    IN  IF ~s.keyed \/ s.times = "absent" \/ ReadCompatibility(s) = "incompatible_version"
        THEN None
        ELSE [s EXCEPT
                !.version = IF @ = "none" \/ ReadCompatibility(s) = "compatible_with_notice"
                            THEN "current" ELSE @,
                !.count = count,
                !.times = "ordered",
                !.last = ExpectedStatus(count, s.severity)]
=============================================================================
