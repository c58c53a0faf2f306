----------------------------- MODULE HttpEngine -----------------------------
(***************************************************************************)
(* createHttpBaseEngine (adapters/external-engine-http-base): call() with  *)
(* its circuit breaker, concurrency limit and retries, the health check    *)
(* and the life cycle, under any number of concurrent callers.  What runs  *)
(* between two awaits is one action.                                       *)
(*                                                                         *)
(* Durations are left out but for the one that decides something: a        *)
(* request may end by its timer and a backoff may be over at any moment,   *)
(* while the breaker counts the ticks since it opened.                     *)
(*                                                                         *)
(* Operators whose comment starts with "Faulty:" are not part of the       *)
(* specification: each is a slip that the definition after it could        *)
(* contain, kept to see that a property catches it.                        *)
(***************************************************************************)
EXTENDS Naturals, FiniteSets

CONSTANTS
    Callers,          \* each makes one call after the other, with its own trace id
    MaxAttempts,      \* retry.maxAttempts
    Threshold,        \* circuitBreaker.threshold
    ResetTimeout,     \* circuitBreaker.resetTimeoutMs, in ticks
    MaxConcurrency,   \* rateLimit.maxConcurrency
    NoTrace           \* no trace id

ASSUME OptionsAssumption ==
    /\ MaxAttempts \in Nat \ {0} /\ Threshold \in Nat \ {0}
    /\ ResetTimeout \in Nat /\ MaxConcurrency \in Nat
    /\ IsFiniteSet(Callers) /\ NoTrace \notin Callers

VARIABLES
    lifecycle, pool,
    breaker,          \* CircuitBreaker: state, consecutiveFailures, age of openedAt
    currentConcurrency, peakConcurrency,
    lastTraceId,      \* the trace id of the latest call, shared by all calls
    pc,               \* where the call of each caller stands
    attempts,         \* its attempts so far
    sentTrace,        \* the trace id on its latest request
    health,           \* the health check under way
    failed            \* calls answered with a failure since the last success

lifeVars == <<lifecycle, pool>>
limiter == <<currentConcurrency, peakConcurrency>>
httpVars == <<lifeVars, limiter, breaker, lastTraceId, pc, attempts, sentTrace, health, failed>>

\* sent: its request is with the downstream; refused: the closing pool turned it
\* down; unsent: there is no pool; backoff: asleep before the next attempt.
Admitted == {"sent", "refused", "unsent", "backoff"}
Breakers == [state : {"closed", "open", "half-open"}, failures : 0 .. Threshold,
             age : 0 .. ResetTimeout]

HttpInit ==
    /\ lifecycle = "created" /\ pool = "none"
    /\ breaker = [state |-> "closed", failures |-> 0, age |-> 0]
    /\ currentConcurrency = 0 /\ peakConcurrency = 0
    /\ lastTraceId = NoTrace
    /\ pc = [c \in Callers |-> "idle"]
    /\ attempts = [c \in Callers |-> 0]
    /\ sentTrace = [c \in Callers |-> NoTrace]
    /\ health = "idle"
    /\ failed = 0

-----------------------------------------------------------------------------
(***************************************************************************)
(* The circuit breaker.  Failures are only compared with the threshold,    *)
(* and counted up to it; the age of openedAt is kept while it matters.     *)
(***************************************************************************)
OneMore(n) == IF n < Threshold THEN n + 1 ELSE n

\* reconsiderHalfOpen: done by every reading of the state.
Reconsidered ==
    IF breaker.state = "open" /\ breaker.age >= ResetTimeout
    THEN [breaker EXCEPT !.state = "half-open", !.age = 0] ELSE breaker

\* Faulty: closing again leaves the failures counted.
OnSuccessKeepingCount == [breaker EXCEPT !.state = "closed", !.age = 0]

OnSuccess == [state |-> "closed", failures |-> 0, age |-> 0]

OnFailure ==
    LET failures == OneMore(breaker.failures)
    IN  IF \/ breaker.state = "half-open"
           \/ breaker.state = "closed" /\ failures >= Threshold
        THEN [state |-> "open", failures |-> failures, age |-> 0]
        ELSE [breaker EXCEPT !.failures = failures]

-----------------------------------------------------------------------------
(***************************************************************************)
(* call()                                                                  *)
(***************************************************************************)

\* Faulty: a pool that is being closed still takes requests.
AttemptWhileClosing(c, trace, n) ==
    /\ pc' = [pc EXCEPT ![c] = IF pool = "none" THEN "unsent" ELSE "sent"]
    /\ sentTrace' = [sentTrace EXCEPT ![c] = trace]
    /\ attempts' = [attempts EXCEPT ![c] = n]

\* attemptOnce up to its await: what becomes of the n-th request depends on the
\* pool.
Attempt(c, trace, n) ==
    /\ pc' = [pc EXCEPT ![c] = CASE pool = "open" -> "sent"
                                 [] pool = "closing" -> "refused"
                                 [] pool = "none" -> "unsent"]
    /\ sentTrace' = [sentTrace EXCEPT ![c] = trace]
    /\ attempts' = [attempts EXCEPT ![c] = n]

\* Refused for its life cycle: nothing changes.
CallNotRunning(c) ==
    /\ pc[c] = "idle" /\ lifecycle # "running"
    /\ UNCHANGED httpVars

\* Refused by the breaker or by the limit; the trace id is noted all the same.
CallRefused(c) ==
    /\ pc[c] = "idle" /\ lifecycle = "running"
    /\ Reconsidered.state = "open" \/ currentConcurrency >= MaxConcurrency
    /\ lastTraceId' = c
    /\ breaker' = Reconsidered
    /\ UNCHANGED <<lifeVars, limiter, pc, attempts, sentTrace, health, failed>>

\* Admitted: the slot is taken and the first request goes out.
CallAdmitted(c) ==
    /\ pc[c] = "idle" /\ lifecycle = "running"
    /\ Reconsidered.state # "open" /\ currentConcurrency < MaxConcurrency
    /\ lastTraceId' = c
    /\ breaker' = Reconsidered
    /\ currentConcurrency' = currentConcurrency + 1
    /\ peakConcurrency' = IF currentConcurrency' > peakConcurrency
                          THEN currentConcurrency' ELSE peakConcurrency
    /\ Attempt(c, c, 1)
    /\ UNCHANGED <<lifeVars, health, failed>>

\* Faulty: the slot is given back on success only.
LeaveKeepingSlot(c) ==
    /\ pc' = [pc EXCEPT ![c] = "idle"]
    /\ attempts' = [attempts EXCEPT ![c] = 0]
    /\ sentTrace' = [sentTrace EXCEPT ![c] = NoTrace]
    /\ currentConcurrency' = IF failed' = 0 THEN currentConcurrency - 1
                                            ELSE currentConcurrency
    /\ UNCHANGED <<lifeVars, peakConcurrency, lastTraceId, health>>

\* The call is answered and its slot given back (finally).
Leave(c) ==
    /\ pc' = [pc EXCEPT ![c] = "idle"]
    /\ attempts' = [attempts EXCEPT ![c] = 0]
    /\ sentTrace' = [sentTrace EXCEPT ![c] = NoTrace]
    /\ currentConcurrency' = currentConcurrency - 1
    /\ UNCHANGED <<lifeVars, peakConcurrency, lastTraceId, health>>

Succeed(c) ==
    /\ pc[c] = "sent"
    /\ breaker' = OnSuccess
    /\ failed' = 0
    /\ Leave(c)

FailCall(c) ==
    /\ breaker' = OnFailure
    /\ failed' = OneMore(failed)
    /\ Leave(c)

\* A timeout is never retried.
TimeOut(c) == pc[c] = "sent" /\ FailCall(c)

\* A 4xx of the downstream, or no pool to send with.
FailForGood(c) == pc[c] \in {"sent", "unsent"} /\ FailCall(c)

\* Faulty: the breaker hears of every attempt.
FailTransientlyCounted(c) ==
    /\ pc[c] \in {"sent", "refused"} /\ attempts[c] < MaxAttempts
    /\ breaker' = OnFailure
    /\ pc' = [pc EXCEPT ![c] = "backoff"]
    /\ sentTrace' = [sentTrace EXCEPT ![c] = NoTrace]
    /\ UNCHANGED <<lifeVars, limiter, lastTraceId, attempts, health, failed>>

\* A 5xx, 408, 429 or network fault, or a pool being closed: one more attempt
\* after the backoff.
FailTransiently(c) ==
    /\ pc[c] \in {"sent", "refused"} /\ attempts[c] < MaxAttempts
    /\ pc' = [pc EXCEPT ![c] = "backoff"]
    /\ sentTrace' = [sentTrace EXCEPT ![c] = NoTrace]
    /\ UNCHANGED <<lifeVars, limiter, breaker, lastTraceId, attempts, health, failed>>

ExhaustRetries(c) ==
    /\ pc[c] \in {"sent", "refused"} /\ attempts[c] = MaxAttempts
    /\ FailCall(c)

\* Faulty: the attempts are not counted.
RetryUncounted(c) ==
    /\ pc[c] = "backoff"
    /\ Attempt(c, lastTraceId, attempts[c])
    /\ UNCHANGED <<lifeVars, limiter, breaker, lastTraceId, health, failed>>

\* The retry loop asks neither the breaker nor the life cycle again, and takes
\* the trace id from the variable that all calls share.
Retry(c) ==
    /\ pc[c] = "backoff"
    /\ Attempt(c, lastTraceId, attempts[c] + 1)
    /\ UNCHANGED <<lifeVars, limiter, breaker, lastTraceId, health, failed>>

-----------------------------------------------------------------------------
(***************************************************************************)
(* Life cycle, health check and clock.                                     *)
(***************************************************************************)
InitEngine ==
    /\ lifecycle = "created"
    /\ lifecycle' = "running" /\ pool' = "open"
    /\ UNCHANGED <<limiter, breaker, lastTraceId, pc, attempts, sentTrace, health, failed>>

\* shutdown() up to pool.close(); without a pool there is nothing to wait for.
BeginShutdown ==
    /\ \/ pool = "open" /\ pool' = "closing" /\ UNCHANGED lifecycle
       \/ pool = "none" /\ lifecycle' = "shut_down" /\ UNCHANGED pool
    /\ UNCHANGED <<limiter, breaker, lastTraceId, pc, attempts, sentTrace, health, failed>>

\* Faulty: pool.close() is not awaited.
EndShutdownAtOnce ==
    /\ pool = "closing"
    /\ pool' = "none" /\ lifecycle' = "shut_down"
    /\ UNCHANGED <<limiter, breaker, lastTraceId, pc, attempts, sentTrace, health, failed>>

\* pool.close() waits for the requests in flight, not for the calls in backoff.
EndShutdown ==
    /\ pool = "closing"
    /\ health # "probing" /\ \A c \in Callers : pc[c] # "sent"
    /\ pool' = "none" /\ lifecycle' = "shut_down"
    /\ UNCHANGED <<limiter, breaker, lastTraceId, pc, attempts, sentTrace, health, failed>>

\* healthCheck up to its probe: only a running engine with a closed breaker is
\* probed, any other is unhealthy.
BeginHealthCheck ==
    /\ health # "probing"
    /\ breaker' = Reconsidered
    /\ health' = IF lifecycle = "running" /\ Reconsidered.state = "closed"
                    /\ pool = "open"
                 THEN "probing" ELSE "unhealthy"
    /\ UNCHANGED <<lifeVars, limiter, lastTraceId, pc, attempts, sentTrace, failed>>

EndHealthCheck ==
    /\ health = "probing"
    /\ health' \in {"healthy", "unhealthy"}
    /\ UNCHANGED <<lifeVars, limiter, breaker, lastTraceId, pc, attempts, sentTrace, failed>>

\* The caller has read the health status.
ReadHealth ==
    /\ health \in {"healthy", "unhealthy"}
    /\ health' = "idle"
    /\ UNCHANGED <<lifeVars, limiter, breaker, lastTraceId, pc, attempts, sentTrace, failed>>

\* getCircuitBreakerState(): a reading that may change what it reads.
GetCircuitBreakerState ==
    /\ breaker' = Reconsidered
    /\ UNCHANGED <<lifeVars, limiter, lastTraceId, pc, attempts, sentTrace, health, failed>>

Tick ==
    /\ breaker.state = "open" /\ breaker.age < ResetTimeout
    /\ breaker' = [breaker EXCEPT !.age = @ + 1]
    /\ UNCHANGED <<lifeVars, limiter, lastTraceId, pc, attempts, sentTrace, health, failed>>

\* An answer, or the abort timer, ends every attempt.
EndAttempt(c) == \/ Succeed(c) \/ TimeOut(c) \/ FailForGood(c)
                 \/ FailTransiently(c) \/ ExhaustRetries(c)

HttpNext ==
    \/ InitEngine \/ BeginShutdown \/ EndShutdown
    \/ BeginHealthCheck \/ EndHealthCheck \/ ReadHealth
    \/ GetCircuitBreakerState \/ Tick
    \/ \E c \in Callers : \/ CallNotRunning(c) \/ CallRefused(c) \/ CallAdmitted(c)
                          \/ EndAttempt(c) \/ Retry(c)

HttpSpec == HttpInit /\ [][HttpNext]_httpVars

\* Every attempt and every probe has a timer, every backoff ends, and a pool
\* without requests closes; nobody need call anything.
FairSpec ==
    /\ HttpSpec
    /\ WF_httpVars(EndHealthCheck) /\ WF_httpVars(EndShutdown)
    /\ \A c \in Callers : WF_httpVars(EndAttempt(c)) /\ WF_httpVars(Retry(c))

-----------------------------------------------------------------------------
(***************************************************************************)
(* Properties.                                                             *)
(***************************************************************************)

\* Every variable stays in its domain; no call makes more than maxAttempts
\* attempts.
HttpTypeOK ==
    /\ lifecycle \in {"created", "running", "shut_down"}
    /\ pool \in {"none", "open", "closing"}
    /\ breaker \in Breakers
    /\ currentConcurrency \in 0 .. MaxConcurrency
    /\ peakConcurrency \in 0 .. MaxConcurrency
    /\ lastTraceId \in Callers \cup {NoTrace}
    /\ pc \in [Callers -> {"idle"} \cup Admitted]
    /\ attempts \in [Callers -> 0 .. MaxAttempts]
    /\ sentTrace \in [Callers -> Callers \cup {NoTrace}]
    /\ health \in {"idle", "probing", "healthy", "unhealthy"}
    /\ failed \in 0 .. Threshold

\* A slot of the concurrency limit is held by exactly the calls that are not
\* answered yet, however they end: none leaks, none is given back twice.
SlotsAccountedFor ==
    currentConcurrency = Cardinality({c \in Callers : pc[c] \in Admitted})

\* The breaker counts calls, not requests, and lets traffic through exactly while
\* fewer than threshold calls in a row have failed: answers of calls that were
\* admitted before it opened, or next to a half-open probe, included.
BreakerMatchesCalls ==
    /\ breaker.failures = failed
    /\ breaker.state = "closed" <=> failed < Threshold

\* shutdown() resolves only when nothing is in flight any more, and a call that
\* wakes from its backoff afterwards sends nothing.
NothingSentAfterShutdown ==
    lifecycle = "shut_down" =>
        /\ pool = "none"
        /\ health # "probing"
        /\ \A c \in Callers : pc[c] # "sent"

\* Every call is answered, even if the downstream never answers, the breaker opens
\* or the engine is shut down meanwhile.
CallsAreAnswered == \A c \in Callers : pc[c] # "idle" ~> pc[c] = "idle"

\* shutdown() ends although callers keep calling until it has.
ShutdownEnds == pool = "closing" ~> lifecycle = "shut_down"

=============================================================================
