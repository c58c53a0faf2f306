--------------------------- MODULE SagaInvariant ----------------------------
(***************************************************************************)
(* The inductive invariant behind the safety properties of SagaProperties. *)
(*                                                                         *)
(* The properties speak of the saved row; the row is replaced by the       *)
(* memory at each save, so they hold of it because they hold of the memory *)
(* at every program point.  Shape says what the memory looks like at each  *)
(* point: how many steps succeeded and where the loop stands.              *)
(***************************************************************************)
EXTENDS SagaProperties

\* succeeded and compensationContexts are filled together, in step order.
StackOfSteps ==
    /\ compensationContexts = succeeded
    /\ Len(succeeded) <= NSteps
    /\ \A k \in 1 .. Len(succeeded) : succeeded[k] = k

\* Forward phase at step i, whose status is st; the steps below it succeeded.
ForwardAt(st) ==
    /\ overallStatus = "in_progress"
    /\ Len(succeeded) = i - 1
    /\ \A s \in Steps : stepStatuses[s] = IF s < i THEN "succeeded"
                                          ELSE IF s = i THEN st ELSE "pending"

\* Step i has just succeeded.
ForwardPast ==
    /\ overallStatus = "in_progress"
    /\ i \in Steps
    /\ Len(succeeded) = i
    /\ \A s \in Steps : stepStatuses[s] = IF s <= i THEN "succeeded" ELSE "pending"

\* Step i failed; the compensation stands at step k, whose status is in sts.
BackwardAt(k, sts) ==
    /\ i \in Steps
    /\ Len(succeeded) = i - 1
    /\ \A s \in Steps :
          /\ s < k => stepStatuses[s] = "succeeded"
          /\ s = k => stepStatuses[s] \in sts
          /\ k < s /\ s < i => stepStatuses[s] \in Settled
          /\ s = i => stepStatuses[s] = "failed"
          /\ s > i => stepStatuses[s] = "pending"

Shape ==
    /\ pc \in {"save_started", "audit_started", "forward"} => ForwardAt("pending")
    /\ pc \in {"save_executing", "execute"} => i \in Steps /\ ForwardAt("executing")
    /\ pc \in {"save_budget", "audit_budget", "failed"}
          => i \in Steps /\ ForwardAt("failed")
    /\ pc \in {"save_outcome", "audit_outcome"}
          => ForwardPast \/ (i \in Steps /\ ForwardAt("failed"))
    /\ pc \in {"save_compensating", "audit_compensating"}
          => overallStatus = "compensating" /\ BackwardAt(i - 1, {"succeeded"})
    /\ pc = "backward"
          => /\ overallStatus = "compensating"
             /\ j < i /\ BackwardAt(j, {"succeeded"})
    /\ pc \in {"save_step_compensating", "compensate"}
          => /\ overallStatus = "compensating"
             /\ j \in 1 .. (i - 1) /\ BackwardAt(j, {"compensating"})
    /\ pc \in {"save_compensate_outcome", "audit_compensate_outcome", "enqueue",
               "audit_enqueued"}
          => /\ overallStatus = "compensating"
             /\ j \in 1 .. (i - 1) /\ BackwardAt(j, Settled)
    /\ pc \in {"save_final", "audit_timed_out", "audit_completed"}
          => \/ /\ overallStatus = "completed"
                /\ Len(succeeded) = NSteps
                /\ \A s \in Steps : stepStatuses[s] = "succeeded"
             \/ /\ overallStatus \in Terminal \ {"completed"}
                /\ BackwardAt(0, {})

\* Between saves the row is the memory; a save changes a status by one move.
RowFollowsMemory ==
    pc \notin Done =>
        /\ pc \notin SavePoints => durable = BuildSnapshot
        /\ \A s \in Steps :
              stepStatuses[s] \in {durable.statuses[s]}
                                  \cup NextStatuses(durable.statuses[s])

\* What the world may have seen of the steps is in these statuses.
Covers(statuses) ==
    \A s \in Steps :
        /\ (world[s] # "clean" \/ <<"execute", s>> \in inFlight)
              => statuses[s] # "pending"
        /\ (world[s] = "reverted" \/ <<"compensate", s>> \in inFlight)
              => statuses[s] \in {"compensating"} \cup Settled

\* The three properties of a row, of any snapshot.
ContextsMatch(snapshot) ==
    \A s \in Steps :
        (\E k \in 1 .. Len(snapshot.contexts) : snapshot.contexts[k] = s)
            <=> snapshot.statuses[s] \in {"succeeded", "compensating"} \cup Settled
ReverseOrder(snapshot) ==
    \A s, t \in Steps :
        s < t /\ snapshot.statuses[s] \in {"compensating"} \cup Settled
            => snapshot.statuses[t] \in {"pending", "failed"} \cup Settled
SettledWhenFinal(snapshot) ==
    snapshot.overall \in Terminal =>
        \A s \in Steps :
            snapshot.statuses[s] \in IF snapshot.overall = "completed"
                                     THEN {"succeeded"}
                                     ELSE {"pending", "failed"} \cup Settled
RowOK(snapshot) == /\ ContextsMatch(snapshot)
                   /\ ReverseOrder(snapshot)
                   /\ SettledWhenFinal(snapshot)

\* The inductive invariant: what the memory looks like while runSaga is running,
\* and what the row then is, at any time.
IInv ==
    /\ TypeOK
    /\ pc \notin Done => StackOfSteps /\ Shape /\ result = "none"
    /\ RowFollowsMemory
    /\ Covers(stepStatuses) /\ Covers(durable.statuses)
    /\ RowOK(durable)
    /\ OutcomeIsDurable

\* What the memory says of a step is true of the world: an acknowledged call has
\* landed, and no call of an earlier phase of the step is still on its way.
WorldMatches ==
    /\ \A s \in Steps :
          /\ stepStatuses[s] \in {"succeeded", "compensating"} \cup Settled
                => <<"execute", s>> \notin inFlight
          /\ stepStatuses[s] = "succeeded" => world[s] = "applied"
          /\ stepStatuses[s] = "compensated"
                => world[s] = "reverted" /\ <<"compensate", s>> \notin inFlight
    /\ pc = "execute" => <<"execute", i>> \in inFlight \/ world[i] = "applied"
    /\ pc = "compensate"
          => <<"compensate", j>> \in inFlight \/ world[j] = "reverted"
=============================================================================
