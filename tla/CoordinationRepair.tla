-------------------------- MODULE CoordinationRepair --------------------------
(***************************************************************************)
(* CoordinationResultRepairCommandHandler, next to the commands of         *)
(* CaseFlow whose registry and store it shares: it writes to the store     *)
(* what the registry has and the store should have.  Its records are in    *)
(* memory; attempts are counted but decide nothing and are left out.       *)
(*                                                                         *)
(* Operators whose comment starts with "Faulty:" are not part of the       *)
(* specification.                                                          *)
(***************************************************************************)
EXTENDS CaseFlow

CONSTANT Repairers      \* repair commands that can be open at once

VARIABLES
    status,     \* repairStatus of the fact keys that have a repair record
    job         \* where each repair command is

repairVars == <<status, job>>
vars == <<coreVars, repairVars>>

CoordinationResultRepairStatus ==
    {"not_repaired", "repair_failed_retryable", "repair_failed_manual_confirmation_required",
     "manually_confirmed", "repaired"}

NoJob == [at |-> "idle", key |-> None, source |-> None]

TypeOK ==
    /\ CoreTypeOK
    /\ DOMAIN status \subseteq Keys
    /\ Range(status) \subseteq CoordinationResultRepairStatus \ {"not_repaired"}
    /\ \A r \in Repairers :
         /\ job[r].at \in {"idle", "lookup", "put"}
         /\ job[r].at # "idle" => job[r].key \in Keys /\ job[r].source \in Facts

Init == CoreInit /\ status = <<>> /\ job = [r \in Repairers |-> NoJob]

StatusOf(k) == IF k \in DOMAIN status THEN status[k] ELSE "not_repaired"

CanRetryUnderStatus(s) == s \in {"repair_failed_retryable", "manually_confirmed"}

CanConfirmManuallyUnderStatus(s) ==
    s \in {"repair_failed_retryable", "repair_failed_manual_confirmation_required"}

\* transitionRepairState, and the record that is saved with it.
EndAttempt(r, s) ==
    /\ status' = Put(status, job[r].key, s)
    /\ job' = [job EXCEPT ![r] = NoJob]

-----------------------------------------------------------------------------
\* executeRepairAttempt up to its first await: the registry must have the fact.
BeginAttempt(r, k) ==
    /\ job[r] = NoJob
    /\ IF k \in DOMAIN registry
       THEN /\ job' = [job EXCEPT ![r] =
                         [at |-> "lookup", key |-> k, source |-> registry[k]]]
            /\ UNCHANGED status
       ELSE status' = Put(status, k, "repair_failed_retryable") /\ UNCHANGED job

\* handle, in whatever status the fact is.
Repair(r, k) == BeginAttempt(r, k) /\ UNCHANGED coreVars

\* handleRetry; refused, it only repeats the record.
Retry(r, k) ==
    /\ CanRetryUnderStatus(StatusOf(k))
    /\ BeginAttempt(r, k) /\ UNCHANGED coreVars

\* handleConfirmManually.
ConfirmManually(k) ==
    /\ CanConfirmManuallyUnderStatus(StatusOf(k))
    /\ status' = Put(status, k, "manually_confirmed")
    /\ UNCHANGED <<coreVars, job>>

\* A command with a malformed time fails, and its record overwrites the status.
Malformed(k) ==
    /\ status' = Put(status, k, "repair_failed_retryable")
    /\ UNCHANGED <<coreVars, job>>

\* Faulty: a fact that the store has needs no comparison.
RepairLookupTrusting(r) ==
    /\ job[r].at = "lookup"
    /\ \/ EndAttempt(r, "repair_failed_retryable")
       \/ job[r].key \in DOMAIN store /\ EndAttempt(r, "repaired")
       \/ /\ job[r].key \notin DOMAIN store
          /\ job' = [job EXCEPT ![r].at = "put"] /\ UNCHANGED status
    /\ UNCHANGED coreVars

\* The store is read, or cannot be; what it has must agree with the registry.
RepairLookup(r) ==
    LET k == job[r].key
        agrees == ReplayCompatible(store[k], job[r].source)
    IN
    /\ job[r].at = "lookup"
    /\ \/ EndAttempt(r, "repair_failed_retryable")
       \/ k \in DOMAIN store /\ agrees /\ EndAttempt(r, "repaired")
       \/ k \in DOMAIN store /\ ~agrees
            /\ EndAttempt(r, "repair_failed_manual_confirmation_required")
       \/ k \notin DOMAIN store /\ job' = [job EXCEPT ![r].at = "put"] /\ UNCHANGED status
    /\ UNCHANGED coreVars

\* The write of the fact: done, done without an answer, or not done.
RepairPut(r) ==
    LET written == store' = Put(store, job[r].key, job[r].source) IN
    /\ job[r].at = "put"
    /\ \/ written /\ EndAttempt(r, "repaired")
       \/ written /\ EndAttempt(r, "repair_failed_retryable")
       \/ UNCHANGED store /\ EndAttempt(r, "repair_failed_retryable")
    /\ UNCHANGED <<risk, sub, registry, call, left, reported, history>>

\* The repair records are lost with the process, as the registry is.
RestartAll == Restart /\ status' = <<>> /\ job' = [r \in Repairers |-> NoJob]

KnownKeys == DOMAIN registry \union DOMAIN store

Next ==
    \/ CoreNext /\ UNCHANGED repairVars
    \/ \E r \in Repairers :
         \/ \E k \in KnownKeys : Repair(r, k) \/ Retry(r, k)
         \/ RepairLookup(r) \/ RepairPut(r)
    \/ \E k \in KnownKeys : ConfirmManually(k) \/ Malformed(k)
    \/ RestartAll

Spec == Init /\ [][Next]_vars

-----------------------------------------------------------------------------
(* Properties *)

\* A fact that is reported as repaired is in the store and says there what the
\* process knows of it, however commands, repairs, confirmations and restarts have
\* interleaved.
RepairedMeansStored ==
    \A k \in DOMAIN status :
        status[k] = "repaired" =>
            k \in DOMAIN store \intersect DOMAIN registry /\ Consistent(store[k], registry[k])
=============================================================================
