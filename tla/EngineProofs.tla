---------------------------- MODULE EngineProofs ----------------------------
(***************************************************************************)
(* The engines and the sagas that call them.                               *)
(***************************************************************************)
EXTENDS HttpEngine, CaseSagas, FiniteSetTheorems, SequenceTheorems, TLAPS

-----------------------------------------------------------------------------
(***************************************************************************)
(* Slots, breaker and shutdown of the HTTP engine, for any number of       *)
(* callers and any configuration.                                          *)
(***************************************************************************)
\* The life cycle and the pool go together, and without a pool nothing is on the
\* wire.
PoolMatchesLifecycle ==
    /\ lifecycle = "running" <=> pool # "none"
    /\ pool = "none" => health # "probing" /\ \A c \in Callers : pc[c] # "sent"

\* A call that sleeps may try again.
SleepersMayRetry == \A c \in Callers : pc[c] = "backoff" => attempts[c] < MaxAttempts

HttpInv ==
    /\ HttpTypeOK /\ SlotsAccountedFor /\ BreakerMatchesCalls
    /\ NothingSentAfterShutdown /\ PoolMatchesLifecycle /\ SleepersMayRetry

Holders == {c \in Callers : pc[c] \in Admitted}

\* Holders are finitely many.
LEMMA HoldersFinite == IsFiniteSet(Holders) /\ Cardinality(Holders) \in Nat
<1>1. Holders \subseteq Callers /\ IsFiniteSet(Callers)
  BY OptionsAssumption DEF Holders
<1>2. QED
  BY <1>1, FS_Subset, FS_CardinalityType

\* A call that is admitted is one holder more, one that leaves one less.
LEMMA OneMoreHolder ==
  ASSUME NEW c \in Callers, pc[c] \notin Admitted, pc'[c] \in Admitted,
         \A d \in Callers \ {c} : pc'[d] = pc[d]
  PROVE  Cardinality(Holders') = Cardinality(Holders) + 1
<1>1. Holders' = Holders \cup {c} /\ c \notin Holders
  BY DEF Holders
<1>2. QED
  BY <1>1, HoldersFinite, FS_AddElement

LEMMA OneHolderLess ==
  ASSUME NEW c \in Callers, pc[c] \in Admitted, pc'[c] \notin Admitted,
         \A d \in Callers \ {c} : pc'[d] = pc[d]
  PROVE  /\ Cardinality(Holders') = Cardinality(Holders) - 1
         /\ Cardinality(Holders) # 0
<1>1. Holders' = Holders \ {c} /\ c \in Holders
  BY DEF Holders
<1>2. Cardinality(Holders) # 0
  BY <1>1, HoldersFinite, FS_EmptySet
<1>3. QED
  BY <1>1, <1>2, HoldersFinite, FS_RemoveElement

LEMMA SameHolders ==
  ASSUME \A c \in Callers : pc'[c] \in Admitted <=> pc[c] \in Admitted
  PROVE  Cardinality(Holders') = Cardinality(Holders)
<1>1. Holders' = Holders
  BY DEF Holders
<1>2. QED
  BY <1>1

\* A fresh engine satisfies the invariant.
LEMMA HttpInitInvariant == HttpInit => HttpInv
<1> SUFFICES ASSUME HttpInit PROVE HttpInv
  OBVIOUS
<1>1. Holders = {}
  BY DEF Holders, HttpInit, Admitted
<1>2. SlotsAccountedFor
  BY <1>1, FS_EmptySet DEF SlotsAccountedFor, Holders, HttpInit
<1>3. HttpTypeOK
  BY OptionsAssumption DEF HttpInit, HttpTypeOK, Breakers
<1>4. QED
  BY <1>2, <1>3, OptionsAssumption
     DEF HttpInv, HttpInit, BreakerMatchesCalls, NothingSentAfterShutdown,
         PoolMatchesLifecycle, SleepersMayRetry

\* The transitions of the breaker are breakers, and say closed when they should.
BreakerOK(b, n) == /\ b \in Breakers /\ b.failures = n
                   /\ b.state = "closed" <=> n < Threshold

LEMMA BreakerMoves ==
  ASSUME breaker \in Breakers, failed \in 0 .. Threshold, BreakerOK(breaker, failed)
  PROVE  /\ BreakerOK(Reconsidered, failed)
         /\ BreakerOK(OnSuccess, 0)
         /\ OneMore(failed) \in 0 .. Threshold
         /\ BreakerOK(OnFailure, OneMore(failed))
<1>1. /\ Threshold \in Nat \ {0} /\ ResetTimeout \in Nat
      /\ breaker = [state |-> breaker.state, failures |-> breaker.failures,
                    age |-> breaker.age]
      /\ breaker.state \in {"closed", "open", "half-open"}
      /\ breaker.failures \in 0 .. Threshold /\ breaker.age \in 0 .. ResetTimeout
  BY OptionsAssumption DEF Breakers
<1>2. BreakerOK(Reconsidered, failed)
  <2>1. CASE Reconsidered = breaker
    BY <2>1
  <2>2. CASE /\ Reconsidered = [state |-> "half-open", failures |-> breaker.failures,
                                age |-> 0]
             /\ breaker.state = "open"
    BY <1>1, <2>2 DEF BreakerOK, Breakers
  <2>3. QED
    BY <1>1, <2>1, <2>2 DEF Reconsidered
<1>3. BreakerOK(OnSuccess, 0)
  BY <1>1 DEF BreakerOK, OnSuccess, Breakers
<1>4. OneMore(failed) \in 0 .. Threshold
  BY <1>1 DEF OneMore
<1>5. BreakerOK(OnFailure, OneMore(failed))
  BY <1>1, <1>4 DEF BreakerOK, OnFailure, OneMore, Breakers
<1>6. QED
  BY <1>2, <1>3, <1>4, <1>5

\* A step that leaves each call where it is, or asleep or with a request, frees no
\* slot and takes none.
LEMMA SlotsKept ==
  ASSUME SlotsAccountedFor, UNCHANGED currentConcurrency,
         \A c \in Callers : pc'[c] \in Admitted <=> pc[c] \in Admitted
  PROVE  SlotsAccountedFor'
BY SameHolders DEF SlotsAccountedFor, Holders

\* What an attempt changes, whatever the pool.
LEMMA AttemptStep ==
  ASSUME HttpTypeOK, NEW c \in Callers, NEW t \in Callers \cup {NoTrace},
         NEW n \in 0 .. MaxAttempts, Attempt(c, t, n)
  PROVE  /\ pc' \in [Callers -> {"idle"} \cup Admitted]
         /\ attempts' \in [Callers -> 0 .. MaxAttempts]
         /\ sentTrace' \in [Callers -> Callers \cup {NoTrace}]
         /\ pc'[c] \in Admitted /\ pc'[c] # "backoff"
         /\ pc'[c] = "sent" => pool = "open"
         /\ \A d \in Callers \ {c} : pc'[d] = pc[d] /\ attempts'[d] = attempts[d]
BY DEF Attempt, HttpTypeOK, Admitted

\* What the end of a call changes.
LEMMA LeaveStep ==
  ASSUME HttpTypeOK, SlotsAccountedFor, NEW c \in Callers, pc[c] \in Admitted, Leave(c)
  PROVE  /\ pc' \in [Callers -> {"idle"} \cup Admitted]
         /\ attempts' \in [Callers -> 0 .. MaxAttempts]
         /\ sentTrace' \in [Callers -> Callers \cup {NoTrace}]
         /\ currentConcurrency' \in 0 .. MaxConcurrency
         /\ SlotsAccountedFor'
         /\ pc'[c] = "idle"
         /\ \A d \in Callers \ {c} : pc'[d] = pc[d] /\ attempts'[d] = attempts[d]
<1>1. /\ pc' \in [Callers -> {"idle"} \cup Admitted] /\ pc'[c] = "idle"
      /\ attempts' \in [Callers -> 0 .. MaxAttempts]
      /\ sentTrace' \in [Callers -> Callers \cup {NoTrace}]
      /\ \A d \in Callers \ {c} : pc'[d] = pc[d] /\ attempts'[d] = attempts[d]
  BY OptionsAssumption DEF Leave, HttpTypeOK
<1>2. pc'[c] \notin Admitted
  BY <1>1 DEF Admitted
<1>3. /\ Cardinality(Holders') = Cardinality(Holders) - 1
      /\ Cardinality(Holders) # 0
  BY <1>1, <1>2, OneHolderLess
<1>4. currentConcurrency = Cardinality(Holders)
      /\ currentConcurrency' = currentConcurrency - 1
  BY DEF SlotsAccountedFor, Holders, Leave
<1>5. SlotsAccountedFor'
  BY <1>3, <1>4 DEF SlotsAccountedFor, Holders
<1>6. currentConcurrency' \in 0 .. MaxConcurrency
  BY <1>3, <1>4, OptionsAssumption DEF HttpTypeOK
<1>7. QED
  BY <1>1, <1>5, <1>6

\* No step of a call, of the life cycle or of the health check breaks it.
LEMMA HttpNextInvariant == HttpInv /\ [HttpNext]_httpVars => HttpInv'
<1> SUFFICES ASSUME HttpInv, [HttpNext]_httpVars PROVE HttpInv'
  OBVIOUS
<1>1. /\ HttpTypeOK /\ SlotsAccountedFor /\ BreakerMatchesCalls
      /\ NothingSentAfterShutdown /\ PoolMatchesLifecycle /\ SleepersMayRetry
      /\ breaker \in Breakers /\ failed \in 0 .. Threshold
      /\ BreakerOK(breaker, failed)
      /\ MaxAttempts \in Nat \ {0} /\ MaxConcurrency \in Nat
  BY OptionsAssumption DEF HttpInv, HttpTypeOK, BreakerMatchesCalls, BreakerOK
<1>2. /\ BreakerOK(Reconsidered, failed)
      /\ BreakerOK(OnSuccess, 0)
      /\ OneMore(failed) \in 0 .. Threshold
      /\ BreakerOK(OnFailure, OneMore(failed))
  BY <1>1, BreakerMoves
<1>3. ASSUME /\ HttpTypeOK' /\ SlotsAccountedFor' /\ BreakerOK(breaker', failed')
             /\ NothingSentAfterShutdown' /\ PoolMatchesLifecycle'
             /\ SleepersMayRetry'
      PROVE  HttpInv'
  BY <1>3 DEF HttpInv, BreakerMatchesCalls, BreakerOK
<1>5. CASE /\ UNCHANGED <<lifeVars, limiter, pc, attempts, sentTrace, failed>>
           /\ lastTraceId' \in Callers \cup {NoTrace}
           /\ health' \in {"idle", "probing", "healthy", "unhealthy"}
           /\ health' = "probing" => health = "probing" \/ pool = "open"
           /\ BreakerOK(breaker', failed')
  <2>1. HttpTypeOK'
    BY <1>1, <1>5 DEF HttpTypeOK, lifeVars, limiter, BreakerOK
  <2>2. SlotsAccountedFor'
    BY <1>1, <1>5 DEF SlotsAccountedFor, limiter
  <2>3. NothingSentAfterShutdown' /\ PoolMatchesLifecycle' /\ SleepersMayRetry'
    BY <1>1, <1>5 DEF NothingSentAfterShutdown, PoolMatchesLifecycle, SleepersMayRetry,
                      lifeVars
  <2>4. QED
    BY <1>3, <1>5, <2>1, <2>2, <2>3
<1>4. CASE UNCHANGED httpVars
  BY <1>1, <1>4, <1>5 DEF httpVars, lifeVars, limiter, HttpTypeOK
<1>6. ASSUME NEW c \in Callers, CallRefused(c)
      PROVE  HttpInv'
  BY <1>1, <1>2, <1>5, <1>6 DEF CallRefused, HttpTypeOK
<1>7. CASE BeginHealthCheck \/ EndHealthCheck \/ ReadHealth \/ GetCircuitBreakerState
  BY <1>1, <1>2, <1>5, <1>7
     DEF BeginHealthCheck, EndHealthCheck, ReadHealth, GetCircuitBreakerState, HttpTypeOK
<1>8. CASE Tick
  <2>1. breaker' \in Breakers /\ breaker'.state = breaker.state
        /\ breaker'.failures = breaker.failures
    BY <1>1, <1>8, OptionsAssumption DEF Tick, Breakers
  <2>2. BreakerOK(breaker', failed')
    BY <1>1, <1>8, <2>1 DEF Tick, BreakerOK
  <2>3. QED
    BY <1>1, <1>5, <1>8, <2>2 DEF Tick, HttpTypeOK
<1>9. CASE InitEngine \/ BeginShutdown \/ EndShutdown
  <2>1. UNCHANGED <<limiter, breaker, lastTraceId, pc, attempts, sentTrace, failed, health>>
    BY <1>9 DEF InitEngine, BeginShutdown, EndShutdown
  <2>2. /\ lifecycle' \in {"created", "running", "shut_down"}
        /\ pool' \in {"none", "open", "closing"}
        /\ PoolMatchesLifecycle' /\ NothingSentAfterShutdown'
    <3>1. CASE InitEngine
      BY <1>1, <2>1, <3>1 DEF InitEngine, PoolMatchesLifecycle, NothingSentAfterShutdown
    <3>2. CASE BeginShutdown
      BY <1>1, <2>1, <3>2 DEF BeginShutdown, HttpTypeOK, PoolMatchesLifecycle,
                              NothingSentAfterShutdown
    <3>3. CASE EndShutdown
      BY <1>1, <2>1, <3>3 DEF EndShutdown, PoolMatchesLifecycle,
                              NothingSentAfterShutdown
    <3>4. QED
      BY <1>9, <3>1, <3>2, <3>3
  <2>3. HttpTypeOK' /\ SlotsAccountedFor' /\ SleepersMayRetry'
    BY <1>1, <2>1, <2>2 DEF HttpTypeOK, SlotsAccountedFor, SleepersMayRetry, limiter
  <2>4. QED
    BY <1>1, <1>3, <2>1, <2>2, <2>3
<1>10. ASSUME NEW c \in Callers, CallAdmitted(c)
       PROVE  HttpInv'
  <2>1. pc[c] = "idle" /\ currentConcurrency < MaxConcurrency
        /\ currentConcurrency' = currentConcurrency + 1 /\ breaker' = Reconsidered
        /\ UNCHANGED <<lifeVars, health, failed>> /\ lastTraceId' = c
        /\ Attempt(c, c, 1)
    BY <1>10 DEF CallAdmitted
  <2>2. 1 \in 0 .. MaxAttempts
    BY <1>1
  <2>3. /\ pc' \in [Callers -> {"idle"} \cup Admitted]
        /\ attempts' \in [Callers -> 0 .. MaxAttempts]
        /\ sentTrace' \in [Callers -> Callers \cup {NoTrace}]
        /\ pc'[c] \in Admitted /\ pc'[c] # "backoff"
        /\ pc'[c] = "sent" => pool = "open"
        /\ \A d \in Callers \ {c} : pc'[d] = pc[d] /\ attempts'[d] = attempts[d]
    BY <1>1, <2>1, <2>2, AttemptStep
  <2>4. currentConcurrency' \in 0 .. MaxConcurrency
        /\ peakConcurrency' \in 0 .. MaxConcurrency
    BY <1>1, <1>10, <2>1 DEF CallAdmitted, HttpTypeOK
  <2>5. SlotsAccountedFor'
    <3>1. pc[c] \notin Admitted
      BY <2>1 DEF Admitted
    <3>2. Cardinality(Holders') = Cardinality(Holders) + 1
      BY <2>3, <3>1, OneMoreHolder
    <3>3. QED
      BY <1>1, <2>1, <3>2 DEF SlotsAccountedFor, Holders
  <2>6. HttpTypeOK'
    BY <1>1, <1>2, <2>1, <2>3, <2>4 DEF HttpTypeOK, lifeVars, BreakerOK
  <2>7. NothingSentAfterShutdown' /\ PoolMatchesLifecycle' /\ SleepersMayRetry'
    BY <1>1, <2>1, <2>3
       DEF NothingSentAfterShutdown, PoolMatchesLifecycle, SleepersMayRetry, lifeVars
  <2>8. QED
    BY <1>2, <1>3, <2>1, <2>5, <2>6, <2>7
<1>11. ASSUME NEW c \in Callers, Succeed(c) \/ TimeOut(c) \/ FailForGood(c)
                                \/ ExhaustRetries(c)
       PROVE  HttpInv'
  <2>1. /\ pc[c] \in Admitted /\ Leave(c)
        /\ failed' \in 0 .. Threshold /\ BreakerOK(breaker', failed')
    <3>1. CASE Succeed(c)
      BY <1>1, <1>2, <3>1, OptionsAssumption DEF Succeed, Admitted
    <3>2. CASE pc[c] \in {"sent", "refused", "unsent"} /\ FailCall(c)
      BY <1>1, <1>2, <3>2 DEF FailCall, Admitted
    <3>3. QED
      BY <1>11, <3>1, <3>2 DEF TimeOut, FailForGood, ExhaustRetries
  <2>2. /\ pc' \in [Callers -> {"idle"} \cup Admitted]
        /\ attempts' \in [Callers -> 0 .. MaxAttempts]
        /\ sentTrace' \in [Callers -> Callers \cup {NoTrace}]
        /\ currentConcurrency' \in 0 .. MaxConcurrency
        /\ SlotsAccountedFor'
        /\ pc'[c] = "idle"
        /\ \A d \in Callers \ {c} : pc'[d] = pc[d] /\ attempts'[d] = attempts[d]
    BY <1>1, <2>1, LeaveStep
  <2>3. UNCHANGED <<lifecycle, pool, peakConcurrency, lastTraceId, health>>
    BY <2>1 DEF Leave, lifeVars
  <2>4. HttpTypeOK'
    BY <1>1, <2>1, <2>2, <2>3 DEF HttpTypeOK, BreakerOK
  <2>5. NothingSentAfterShutdown' /\ PoolMatchesLifecycle' /\ SleepersMayRetry'
    BY <1>1, <2>2, <2>3
       DEF NothingSentAfterShutdown, PoolMatchesLifecycle, SleepersMayRetry
  <2>6. QED
    BY <1>3, <2>1, <2>2, <2>4, <2>5
<1>12. ASSUME NEW c \in Callers, FailTransiently(c)
       PROVE  HttpInv'
  <2>1. /\ pc[c] \in {"sent", "refused"} /\ attempts[c] < MaxAttempts
        /\ pc' = [pc EXCEPT ![c] = "backoff"]
        /\ sentTrace' = [sentTrace EXCEPT ![c] = NoTrace]
        /\ UNCHANGED <<lifecycle, pool, currentConcurrency, peakConcurrency, breaker,
                       lastTraceId, attempts, health, failed>>
    BY <1>12 DEF FailTransiently, lifeVars, limiter
  <2>2. HttpTypeOK'
    BY <1>1, <2>1 DEF HttpTypeOK, Admitted
  <2>3. \A d \in Callers : pc'[d] = IF d = c THEN "backoff" ELSE pc[d]
    BY <1>1, <2>1 DEF HttpTypeOK
  <2>4. SlotsAccountedFor'
    BY <1>1, <2>1, <2>3, SlotsKept DEF Admitted
  <2>5. NothingSentAfterShutdown' /\ PoolMatchesLifecycle' /\ SleepersMayRetry'
    BY <1>1, <2>1, <2>3
       DEF NothingSentAfterShutdown, PoolMatchesLifecycle, SleepersMayRetry
  <2>6. QED
    BY <1>1, <1>3, <2>1, <2>2, <2>4, <2>5
<1>13. ASSUME NEW c \in Callers, Retry(c)
       PROVE  HttpInv'
  <2>1. /\ pc[c] = "backoff" /\ Attempt(c, lastTraceId, attempts[c] + 1)
        /\ UNCHANGED <<lifecycle, pool, currentConcurrency, peakConcurrency, breaker,
                       lastTraceId, health, failed>>
    BY <1>13 DEF Retry, lifeVars, limiter
  <2>2. attempts[c] + 1 \in 0 .. MaxAttempts
        /\ lastTraceId \in Callers \cup {NoTrace}
    BY <1>1, <2>1 DEF HttpTypeOK, SleepersMayRetry
  <2>3. /\ pc' \in [Callers -> {"idle"} \cup Admitted]
        /\ attempts' \in [Callers -> 0 .. MaxAttempts]
        /\ sentTrace' \in [Callers -> Callers \cup {NoTrace}]
        /\ pc'[c] \in Admitted /\ pc'[c] # "backoff"
        /\ pc'[c] = "sent" => pool = "open"
        /\ \A d \in Callers \ {c} : pc'[d] = pc[d] /\ attempts'[d] = attempts[d]
    BY <1>1, <2>1, <2>2, AttemptStep
  <2>4. HttpTypeOK'
    BY <1>1, <2>1, <2>3 DEF HttpTypeOK
  <2>5. pc[c] \in Admitted
    BY <2>1 DEF Admitted
  <2>6. SlotsAccountedFor'
    BY <1>1, <2>1, <2>3, <2>5, SlotsKept
  <2>7. NothingSentAfterShutdown' /\ PoolMatchesLifecycle' /\ SleepersMayRetry'
    BY <1>1, <2>1, <2>3
       DEF NothingSentAfterShutdown, PoolMatchesLifecycle, SleepersMayRetry
  <2>8. QED
    BY <1>1, <1>3, <2>1, <2>4, <2>6, <2>7
<1>14. ASSUME NEW c \in Callers, CallNotRunning(c)
       PROVE  HttpInv'
  BY <1>4, <1>14 DEF CallNotRunning
<1>15. QED
  BY <1>4, <1>6, <1>7, <1>8, <1>9, <1>10, <1>11, <1>12, <1>13, <1>14
     DEF HttpNext, EndAttempt

\* Everything reachable satisfies the invariant.
THEOREM HttpInvariantHolds == HttpSpec => []HttpInv
<1>1. HttpInit => HttpInv
  BY HttpInitInvariant
<1>2. HttpInv /\ [HttpNext]_httpVars => HttpInv'
  BY HttpNextInvariant
<1>3. QED
  BY <1>1, <1>2, PTL DEF HttpSpec

\* No slot of the limit leaks, whatever the calls meet and however they end.
THEOREM SlotsNeverLeak == HttpSpec => []SlotsAccountedFor
<1>1. HttpInv => SlotsAccountedFor
  BY DEF HttpInv
<1>2. QED
  BY <1>1, HttpInvariantHolds, PTL

\* The breaker is closed exactly while fewer than threshold calls in a row failed.
THEOREM BreakerCountsCalls == HttpSpec => []BreakerMatchesCalls
<1>1. HttpInv => BreakerMatchesCalls
  BY DEF HttpInv
<1>2. QED
  BY <1>1, HttpInvariantHolds, PTL

\* Once shutdown has resolved, nothing is or will be on the wire.
THEOREM ShutdownIsFinal == HttpSpec => []NothingSentAfterShutdown
<1>1. HttpInv => NothingSentAfterShutdown
  BY DEF HttpInv
<1>2. QED
  BY <1>1, HttpInvariantHolds, PTL

\* No call is admitted beyond the limit and none makes more than maxAttempts
\* attempts.
THEOREM LimitsRespected == HttpSpec => []HttpTypeOK
<1>1. HttpInv => HttpTypeOK
  BY DEF HttpInv
<1>2. QED
  BY <1>1, HttpInvariantHolds, PTL

-----------------------------------------------------------------------------
(***************************************************************************)
(* Business sagas over the engines, for any number of runs, cases, targets *)
(* and preconditions, refusals and restarts.                               *)
(***************************************************************************)
-----------------------------------------------------------------------------
(***************************************************************************)
(* Plans: what their steps have in common.                                 *)
(***************************************************************************)
CallsIn(kind, dir, step) ==
    IF dir = "do" THEN Plan(kind)[step].calls ELSE Plan(kind)[step].undo

\* Loop builds a sequence of n calls that differ in their number.
LEMMA LoopIsSequence ==
    ASSUME NEW n \in Nat, NEW method, NEW tag
    PROVE  /\ Len(Loop(n, method, tag)) = n /\ DOMAIN Loop(n, method, tag) = 1 .. n
           /\ \A i \in 1 .. n : Loop(n, method, tag)[i] = [method |-> method, tag |-> tag, i |-> i]
           /\ Loop(n, method, tag) = <<>> <=> n = 0
<1>1. Loop(n, method, tag) \in [1 .. n -> [method : {method}, tag : {tag}, i : Nat]]
  BY DEF Loop
<1>2. Loop(n, method, tag) \in Seq([method : {method}, tag : {tag}, i : Nat])
  BY <1>1, SeqDef
<1>3. Len(Loop(n, method, tag)) = n
  BY <1>1, <1>2, LenProperties
<1>4. \A i \in 1 .. n : Loop(n, method, tag)[i] = [method |-> method, tag |-> tag, i |-> i]
  BY DEF Loop
<1>5. DOMAIN Loop(n, method, tag) = 1 .. n
  BY DEF Loop
<1> QED
  BY <1>2, <1>3, <1>4, <1>5, EmptySeq

LEMMA PlanOfKind ==
    ASSUME NEW kind
    PROVE  /\ kind = "liquidation" => Plan(kind) =
                <<FetchMarkPrice, ListOpenPositions, SubmitCloseOrders, ReleaseMargin,
                  SettleFundTransfer>>
           /\ kind = "adl" => Plan(kind) =
                <<FetchMarkPrices, VerifyTargets, SubmitDeleveragingOrders,
                  InsuranceFundDeduction, SettleAccountFunds>>
           /\ kind = "insurance-fund" => Plan(kind) =
                <<QueryInsuranceBalance, DeductFromInsurance, CreditToAffected,
                  RecordCoverageCompletion>>
           /\ kind = "state-transition" => Plan(kind) =
                <<ValidateCurrentState, ValidatePrecondition, PersistNewState,
                  RecordTransitionCompletion>>
  BY DEF Plan

\* What is common to all steps.  Their loops number their calls; compensate only
\* writes, with one tag; and when execute writes, with one tag, then compensate makes
\* as many calls.
Shaped(s, tag, undoTag) ==
    /\ Len(s.calls) \in Nat /\ Len(s.undo) \in Nat
    /\ DOMAIN s.calls = 1 .. Len(s.calls)
    /\ s.calls = <<>> <=> Len(s.calls) = 0
    /\ s.undo = <<>> <=> Len(s.undo) = 0
    /\ \A i \in 1 .. Len(s.calls) : s.calls[i].i = i
    /\ \A i \in 1 .. Len(s.undo) :
         s.undo[i].i = i /\ s.undo[i].method \in Writes /\ s.undo[i].tag = undoTag
    /\ \A i \in 1 .. Len(s.calls) :
         s.calls[i].method \in Writes => s.calls[i].tag = tag /\ Len(s.undo) = Len(s.calls)
    /\ Len(s.undo) # 0 =>
         /\ Len(s.undo) = Len(s.calls)
         /\ \A i \in 1 .. Len(s.calls) : s.calls[i].method \in Writes

LEMMA ReadingIsShaped ==
    ASSUME NEW n \in Nat, NEW method, method \notin Writes, NEW answer, NEW fields,
           NEW tag, NEW undoTag
    PROVE  /\ Shaped(Reading(n, method, answer, fields), tag, undoTag)
           /\ Len(Reading(n, method, answer, fields).undo) = 0
<1> DEFINE s == Reading(n, method, answer, fields)
           l == Loop(n, method, "query")
<1>1. /\ Len(l) = n /\ DOMAIN l = 1 .. n /\ (l = <<>> <=> n = 0)
      /\ \A i \in 1 .. n : l[i] = [method |-> method, tag |-> "query", i |-> i]
  BY LoopIsSequence
<1>2. s.calls = l /\ s.undo = <<>>
  BY DEF Reading
<1>3. Len(<<>>) = 0
  OBVIOUS
<1> HIDE DEF s, l
<1>4. \A i \in 1 .. n : s.calls[i].i = i /\ s.calls[i].method = method
  BY <1>1, <1>2
<1>5. \A i \in 1 .. Len(s.undo) : FALSE
  BY <1>2, <1>3
<1>6. Shaped(s, tag, undoTag)
  BY <1>1, <1>2, <1>3, <1>4, <1>5 DEF Shaped
<1> QED
  BY <1>2, <1>3, <1>6 DEF s

LEMMA WritingIsShaped ==
    ASSUME NEW n \in Nat, NEW method \in Writes, NEW tag, NEW inverse \in Writes, NEW undoTag,
           NEW answer, NEW fields
    PROVE  Shaped(Writing(n, method, tag, inverse, undoTag, answer, fields), tag, undoTag)
<1> DEFINE s == Writing(n, method, tag, inverse, undoTag, answer, fields)
           l == Loop(n, method, tag)
           u == Loop(n, inverse, undoTag)
<1>1. /\ Len(l) = n /\ DOMAIN l = 1 .. n /\ (l = <<>> <=> n = 0)
      /\ \A i \in 1 .. n : l[i] = [method |-> method, tag |-> tag, i |-> i]
  BY LoopIsSequence
<1>2. /\ Len(u) = n /\ (u = <<>> <=> n = 0)
      /\ \A i \in 1 .. n : u[i] = [method |-> inverse, tag |-> undoTag, i |-> i]
  BY LoopIsSequence
<1>3. s.calls = l /\ s.undo = u
  BY DEF Writing
<1> HIDE DEF s, l, u
<1>4. \A i \in 1 .. n :
        /\ s.calls[i].i = i /\ s.calls[i].method = method /\ s.calls[i].tag = tag
        /\ s.undo[i].i = i /\ s.undo[i].method = inverse /\ s.undo[i].tag = undoTag
  BY <1>1, <1>2, <1>3
<1>5. Shaped(s, tag, undoTag)
  BY <1>1, <1>2, <1>3, <1>4 DEF Shaped
<1> QED
  BY <1>5 DEF s

LEMMA RecordingIsShaped ==
    ASSUME NEW fields, NEW copied, NEW tag, NEW undoTag
    PROVE  /\ Shaped(Recording(fields, copied), tag, undoTag)
           /\ Len(Recording(fields, copied).undo) = 0
<1>1. Len(<<>>) = 0 /\ DOMAIN <<>> = 1 .. 0
  OBVIOUS
<1>2. Recording(fields, copied).calls = <<>> /\ Recording(fields, copied).undo = <<>>
  BY DEF Recording
<1> QED
  BY <1>1, <1>2 DEF Shaped

\* The tags of writes, and where they belong.
WriteTags ==
    {<<"liquidation", 3, "close-order", "cancel-order">>,
     <<"liquidation", 4, "release-margin", "relock-margin">>,
     <<"liquidation", 5, "settle-fund", "reverse-fund">>,
     <<"adl", 3, "place", "cancel">>,
     <<"adl", 4, "insurance", "reverse-insurance">>,
     <<"adl", 5, "settle", "reverse-settle">>,
     <<"insurance-fund", 2, "deduct", "reverse-deduct">>,
     <<"insurance-fund", 3, "credit", "reverse-credit">>}

LEMMA TagsAreDistinct ==
    \A t, u \in WriteTags :
        /\ t[1] = u[1] /\ (t[3] = u[3] \/ t[4] = u[4]) => t = u
        /\ t[1] = u[1] => t[3] # u[4]
  BY DEF WriteTags

\* Every step is shaped, and one that writes has its tags.
Tagged(kind, n) ==
    \E tag, undoTag :
        /\ Shaped(Plan(kind)[n], tag, undoTag)
        /\ Len(Plan(kind)[n].undo) # 0 => <<kind, n, tag, undoTag>> \in WriteTags

LEMMA TaggedBy ==
    ASSUME NEW kind, NEW n, NEW s, NEW tag, NEW undoTag,
           Plan(kind)[n] = s, Shaped(s, tag, undoTag),
           Len(s.undo) = 0 \/ <<kind, n, tag, undoTag>> \in WriteTags
    PROVE  Tagged(kind, n)
  BY DEF Tagged

LEMMA MethodsWrite ==
    /\ "queryMarkPrice" \notin Writes /\ "listOpenPositions" \notin Writes
    /\ "queryMarkPriceBatch" \notin Writes /\ "queryPosition" \notin Writes
    /\ "queryFundBalance" \notin Writes
    /\ "placeOrder" \in Writes /\ "cancelOrder" \in Writes /\ "releaseMargin" \in Writes
    /\ "lockMargin" \in Writes /\ "transferFund" \in Writes
  BY DEF Writes, MatchWrites, PositionWrites, MarginWrites, FundWrites

LEMMA LiquidationIsTagged ==
    ASSUME NEW kind, kind = "liquidation"
    PROVE  Len(Plan(kind)) = 5 /\ \A n \in 1 .. 5 : Tagged(kind, n)
<1>1. /\ Len(Plan(kind)) = 5
      /\ Plan(kind)[1] = FetchMarkPrice
      /\ Plan(kind)[2] = ListOpenPositions
      /\ Plan(kind)[3] = SubmitCloseOrders
      /\ Plan(kind)[4] = ReleaseMargin
      /\ Plan(kind)[5] = SettleFundTransfer
  BY PlanOfKind
<1>2. Shaped(FetchMarkPrice, "", "") /\ Len(FetchMarkPrice.undo) = 0
  BY MethodsWrite, LoopsAssumption, ReadingIsShaped DEF FetchMarkPrice
<1>3. Tagged(kind, 1)
  BY <1>1, <1>2, TaggedBy
<1>4. Shaped(ListOpenPositions, "", "") /\ Len(ListOpenPositions.undo) = 0
  BY MethodsWrite, LoopsAssumption, ReadingIsShaped DEF ListOpenPositions
<1>5. Tagged(kind, 2)
  BY <1>1, <1>4, TaggedBy
<1>6. Shaped(SubmitCloseOrders, "close-order", "cancel-order")
  BY MethodsWrite, LoopsAssumption, WritingIsShaped DEF SubmitCloseOrders
<1>7. <<kind, 3, "close-order", "cancel-order">> \in WriteTags
  BY DEF WriteTags
<1>8. Tagged(kind, 3)
  BY <1>1, <1>6, <1>7, TaggedBy
<1>9. Shaped(ReleaseMargin, "release-margin", "relock-margin")
  BY MethodsWrite, LoopsAssumption, WritingIsShaped DEF ReleaseMargin
<1>10. <<kind, 4, "release-margin", "relock-margin">> \in WriteTags
  BY DEF WriteTags
<1>11. Tagged(kind, 4)
  BY <1>1, <1>9, <1>10, TaggedBy
<1>12. Shaped(SettleFundTransfer, "settle-fund", "reverse-fund")
  BY MethodsWrite, LoopsAssumption, WritingIsShaped DEF SettleFundTransfer
<1>13. <<kind, 5, "settle-fund", "reverse-fund">> \in WriteTags
  BY DEF WriteTags
<1>14. Tagged(kind, 5)
  BY <1>1, <1>12, <1>13, TaggedBy
<1>15. \A n \in 1 .. 5 : n = 1 \/ n = 2 \/ n = 3 \/ n = 4 \/ n = 5
  OBVIOUS
<1> QED
  BY <1>1, <1>3, <1>5, <1>8, <1>11, <1>14, <1>15

LEMMA AdlIsTagged ==
    ASSUME NEW kind, kind = "adl"
    PROVE  Len(Plan(kind)) = 5 /\ \A n \in 1 .. 5 : Tagged(kind, n)
<1>1. /\ Len(Plan(kind)) = 5
      /\ Plan(kind)[1] = FetchMarkPrices
      /\ Plan(kind)[2] = VerifyTargets
      /\ Plan(kind)[3] = SubmitDeleveragingOrders
      /\ Plan(kind)[4] = InsuranceFundDeduction
      /\ Plan(kind)[5] = SettleAccountFunds
  BY PlanOfKind
<1>2. Shaped(FetchMarkPrices, "", "") /\ Len(FetchMarkPrices.undo) = 0
  BY MethodsWrite, LoopsAssumption, ReadingIsShaped DEF FetchMarkPrices
<1>3. Tagged(kind, 1)
  BY <1>1, <1>2, TaggedBy
<1>4. Shaped(VerifyTargets, "", "") /\ Len(VerifyTargets.undo) = 0
  BY MethodsWrite, LoopsAssumption, ReadingIsShaped DEF VerifyTargets
<1>5. Tagged(kind, 2)
  BY <1>1, <1>4, TaggedBy
<1>6. Shaped(SubmitDeleveragingOrders, "place", "cancel")
  BY MethodsWrite, LoopsAssumption, WritingIsShaped DEF SubmitDeleveragingOrders
<1>7. <<kind, 3, "place", "cancel">> \in WriteTags
  BY DEF WriteTags
<1>8. Tagged(kind, 3)
  BY <1>1, <1>6, <1>7, TaggedBy
<1>9. Shaped(InsuranceFundDeduction, "insurance", "reverse-insurance")
  BY MethodsWrite, LoopsAssumption, WritingIsShaped DEF InsuranceFundDeduction
<1>10. <<kind, 4, "insurance", "reverse-insurance">> \in WriteTags
  BY DEF WriteTags
<1>11. Tagged(kind, 4)
  BY <1>1, <1>9, <1>10, TaggedBy
<1>12. Shaped(SettleAccountFunds, "settle", "reverse-settle")
  BY MethodsWrite, LoopsAssumption, WritingIsShaped DEF SettleAccountFunds
<1>13. <<kind, 5, "settle", "reverse-settle">> \in WriteTags
  BY DEF WriteTags
<1>14. Tagged(kind, 5)
  BY <1>1, <1>12, <1>13, TaggedBy
<1>15. \A n \in 1 .. 5 : n = 1 \/ n = 2 \/ n = 3 \/ n = 4 \/ n = 5
  OBVIOUS
<1> QED
  BY <1>1, <1>3, <1>5, <1>8, <1>11, <1>14, <1>15

LEMMA InsuranceFundIsTagged ==
    ASSUME NEW kind, kind = "insurance-fund"
    PROVE  Len(Plan(kind)) = 4 /\ \A n \in 1 .. 4 : Tagged(kind, n)
<1>1. /\ Len(Plan(kind)) = 4
      /\ Plan(kind)[1] = QueryInsuranceBalance
      /\ Plan(kind)[2] = DeductFromInsurance
      /\ Plan(kind)[3] = CreditToAffected
      /\ Plan(kind)[4] = RecordCoverageCompletion
  BY PlanOfKind
<1>2. Shaped(QueryInsuranceBalance, "", "") /\ Len(QueryInsuranceBalance.undo) = 0
  BY MethodsWrite, LoopsAssumption, ReadingIsShaped DEF QueryInsuranceBalance
<1>3. Tagged(kind, 1)
  BY <1>1, <1>2, TaggedBy
<1>4. Shaped(DeductFromInsurance, "deduct", "reverse-deduct")
  BY MethodsWrite, LoopsAssumption, WritingIsShaped DEF DeductFromInsurance
<1>5. <<kind, 2, "deduct", "reverse-deduct">> \in WriteTags
  BY DEF WriteTags
<1>6. Tagged(kind, 2)
  BY <1>1, <1>4, <1>5, TaggedBy
<1>7. Shaped(CreditToAffected, "credit", "reverse-credit")
  BY MethodsWrite, LoopsAssumption, WritingIsShaped DEF CreditToAffected
<1>8. <<kind, 3, "credit", "reverse-credit">> \in WriteTags
  BY DEF WriteTags
<1>9. Tagged(kind, 3)
  BY <1>1, <1>7, <1>8, TaggedBy
<1>10. Shaped(RecordCoverageCompletion, "", "") /\ Len(RecordCoverageCompletion.undo) = 0
  BY RecordingIsShaped DEF RecordCoverageCompletion
<1>11. Tagged(kind, 4)
  BY <1>1, <1>10, TaggedBy
<1>12. \A n \in 1 .. 4 : n = 1 \/ n = 2 \/ n = 3 \/ n = 4
  OBVIOUS
<1> QED
  BY <1>1, <1>3, <1>6, <1>9, <1>11, <1>12

LEMMA StateTransitionIsTagged ==
    ASSUME NEW kind, kind = "state-transition"
    PROVE  Len(Plan(kind)) = 4 /\ \A n \in 1 .. 4 : Tagged(kind, n)
<1>1. /\ Len(Plan(kind)) = 4
      /\ Plan(kind)[1] = ValidateCurrentState
      /\ Plan(kind)[2] = ValidatePrecondition
      /\ Plan(kind)[3] = PersistNewState
      /\ Plan(kind)[4] = RecordTransitionCompletion
  BY PlanOfKind
<1>2. Shaped(ValidateCurrentState, "", "") /\ Len(ValidateCurrentState.undo) = 0
  BY RecordingIsShaped DEF ValidateCurrentState
<1>3. Tagged(kind, 1)
  BY <1>1, <1>2, TaggedBy
<1>4. Shaped(ValidatePrecondition, "", "") /\ Len(ValidatePrecondition.undo) = 0
  BY MethodsWrite, LoopsAssumption, ReadingIsShaped DEF ValidatePrecondition
<1>5. Tagged(kind, 2)
  BY <1>1, <1>4, TaggedBy
<1>6. Shaped(PersistNewState, "", "") /\ Len(PersistNewState.undo) = 0
  BY RecordingIsShaped DEF PersistNewState
<1>7. Tagged(kind, 3)
  BY <1>1, <1>6, TaggedBy
<1>8. Shaped(RecordTransitionCompletion, "", "") /\ Len(RecordTransitionCompletion.undo) = 0
  BY RecordingIsShaped DEF RecordTransitionCompletion
<1>9. Tagged(kind, 4)
  BY <1>1, <1>8, TaggedBy
<1>10. \A n \in 1 .. 4 : n = 1 \/ n = 2 \/ n = 3 \/ n = 4
  OBVIOUS
<1> QED
  BY <1>1, <1>3, <1>5, <1>7, <1>9, <1>10

-----------------------------------------------------------------------------
(***************************************************************************)
(* The invariant.  What is said of one run is said of its record x, so     *)
(* that it can be said of the record before and after a step.              *)
(***************************************************************************)
Phases == {"idle", "clear", "forward", "backward", "ended", "lost"}
StartedPhases == {"forward", "backward", "ended", "lost"}

AllIds == BusinessSagaKind \X Cases \X Nat \X Nat

\* The fields of a run; id and output are what they are.
RunRecord(x) ==
    x \in [phase : Phases, kind : BusinessSagaKind \union {None}, case : Cases \union {None},
           id : {x.id}, step : Nat, i : Nat, reached : Nat, failedAt : Nat,
           deadLetters : BOOLEAN, output : {x.output}, status : Final \union {"error", None}]

Started(r) == run[r].phase \in StartedPhases

TypeInv ==
    /\ run = [r \in Runs |-> run[r]]
    /\ \A r \in Runs :
        /\ RunRecord(run[r])
        /\ run[r].phase = "idle" => run[r] = Fresh
        /\ run[r].phase = "clear" =>
             /\ run[r].id = None /\ run[r].status = None /\ run[r].deadLetters = FALSE
             /\ run[r].step = 0 /\ run[r].i = 0 /\ run[r].reached = 0
        /\ run[r].phase # "idle" => run[r].kind \in BusinessSagaKind /\ run[r].case \in Cases
    /\ counters \in [BusinessSagaKind -> Nat] /\ clock \in Nat

\* The id of a run was drawn from a stamp of this millisecond, or of one before it; no
\* two runs have drawn the same; and the row of a run that acts says so.
IdentityInv ==
    /\ \A r \in Runs : Started(r) =>
        /\ run[r].id \in AllIds
        /\ run[r].id[1] = run[r].kind /\ run[r].id[2] = run[r].case
        /\ run[r].id[3] <= clock
        /\ run[r].id[3] = clock => run[r].id[4] <= counters[run[r].kind]
        /\ run[r].phase # "ended" => run[r].id \in DOMAIN rows /\ rows[run[r].id] \in Active
    /\ \A r, s \in Runs : r # s /\ Started(r) /\ Started(s) => run[r].id # run[s].id

Direction(x) == IF x.phase = "forward" THEN "do" ELSE "undo"

\* Where a run is in its plan.
Placed(x) ==
    /\ x.reached <= Len(Plan(x.kind))
    /\ x.phase = "forward" => x.step = x.reached + 1
    /\ x.phase = "backward" => x.step <= x.reached
    /\ x.phase \in {"forward", "backward"} /\ x.i > 0 =>
         /\ x.step \in 1 .. Len(Plan(x.kind))
         /\ x.i <= Len(CallsIn(x.kind, Direction(x), x.step))
    /\ x.phase # "ended" => x.status = None
    /\ x.status = "completed" => x.reached = Len(Plan(x.kind))

PositionInv == \A r \in Runs : Started(r) => Placed(run[r])

\* A request was made by a run that has started; one that undoes, by a run that has
\* turned round, for a step that had succeeded.
Made(q, x) ==
    /\ x.phase \in StartedPhases
    /\ q.step \in 1 .. Len(Plan(x.kind))
    /\ q.i \in 1 .. Len(CallsIn(x.kind, q.dir, q.step))
    /\ q.dir = "undo" => q.step <= x.reached /\ x.phase # "forward" /\ x.status # "completed"

RequestSet == [run : Runs, dir : {"do", "undo"}, step : Nat, i : Nat]

RequestInv ==
    /\ wire \subseteq RequestSet /\ ghosts \subseteq RequestSet
    /\ \A q \in wire : Made(q, run[q.run]) /\ IsWrite(q)
    /\ \A q \in ghosts : Made(q, run[q.run])

\* What the engines know.
EngineInv ==
    /\ engine = [performed |-> engine.performed, refused |-> engine.refused,
                 keys |-> engine.keys, twice |-> engine.twice]
    /\ Processed \subseteq wire
    /\ engine.keys = {KeyOf(q) : q \in Processed}
    /\ engine.twice = {}

RequestOf(r, dir, s, j) == [run |-> r, dir |-> dir, step |-> s, i |-> j]

\* The writes of a loop before its n-th call are in P.
SettledBefore(P, r, kind, dir, s, n) ==
    \A j \in 1 .. Len(CallsIn(kind, dir, s)) :
        j < n /\ CallsIn(kind, dir, s)[j].method \in Writes => RequestOf(r, dir, s, j) \in P

\* All writes of a loop are in P.
StepSettled(P, r, kind, dir, s) ==
    \A j \in 1 .. Len(CallsIn(kind, dir, s)) :
        CallsIn(kind, dir, s)[j].method \in Writes => RequestOf(r, dir, s, j) \in P

\* What the run r has behind it is in P.
Progressed(P, r, x) ==
    /\ \A s \in 1 .. x.reached : StepSettled(P, r, x.kind, "do", s)
    /\ x.phase \in {"forward", "backward"} /\ x.i > 0 =>
         SettledBefore(P, r, x.kind, Direction(x), x.step, x.i)
    /\ x.phase = "backward" /\ ~x.deadLetters =>
         \A s \in 1 .. x.reached : s > x.step => StepSettled(P, r, x.kind, "undo", s)
    /\ x.status = "compensated" =>
         \A s \in 1 .. x.reached : StepSettled(P, r, x.kind, "undo", s)

ProgressInv == \A r \in Runs : Started(r) => Progressed(Processed, r, run[r])

Inv == TypeInv /\ IdentityInv /\ PositionInv /\ RequestInv /\ EngineInv /\ ProgressInv

-----------------------------------------------------------------------------
(***************************************************************************)
(* Plans, once more: what the proofs below use of them.                    *)
(***************************************************************************)
LEMMA StepsAreTagged ==
    ASSUME NEW kind \in BusinessSagaKind
    PROVE  /\ Len(Plan(kind)) \in Nat
           /\ \A n \in 1 .. Len(Plan(kind)) : Tagged(kind, n)
<1>1. CASE kind = "liquidation"
  <2>1. Len(Plan(kind)) = 5 /\ \A n \in 1 .. 5 : Tagged(kind, n)
    BY <1>1, LiquidationIsTagged
  <2> QED
    BY <2>1
<1>2. CASE kind = "adl"
  <2>1. Len(Plan(kind)) = 5 /\ \A n \in 1 .. 5 : Tagged(kind, n)
    BY <1>2, AdlIsTagged
  <2> QED
    BY <2>1
<1>3. CASE kind = "insurance-fund"
  <2>1. Len(Plan(kind)) = 4 /\ \A n \in 1 .. 4 : Tagged(kind, n)
    BY <1>3, InsuranceFundIsTagged
  <2> QED
    BY <2>1
<1>4. CASE kind = "state-transition"
  <2>1. Len(Plan(kind)) = 4 /\ \A n \in 1 .. 4 : Tagged(kind, n)
    BY <1>4, StateTransitionIsTagged
  <2> QED
    BY <2>1
<1> QED
  BY <1>1, <1>2, <1>3, <1>4 DEF BusinessSagaKind

\* The calls of a step, in both directions.
LEMMA CallsOfStep ==
    ASSUME NEW kind \in BusinessSagaKind, NEW s \in 1 .. Len(Plan(kind))
    PROVE  /\ \A dir \in {"do", "undo"} :
                /\ Len(CallsIn(kind, dir, s)) \in Nat
                /\ CallsIn(kind, dir, s) = <<>> <=> Len(CallsIn(kind, dir, s)) = 0
                /\ \A i \in 1 .. Len(CallsIn(kind, dir, s)) : CallsIn(kind, dir, s)[i].i = i
           /\ \A i \in 1 .. Len(CallsIn(kind, "undo", s)) :
                /\ CallsIn(kind, "undo", s)[i].method \in Writes
                /\ i \in 1 .. Len(CallsIn(kind, "do", s))
                /\ CallsIn(kind, "do", s)[i].method \in Writes
           /\ DOMAIN CallsIn(kind, "do", s) = 1 .. Len(CallsIn(kind, "do", s))
           /\ \A i \in 1 .. Len(CallsIn(kind, "do", s)) :
                CallsIn(kind, "do", s)[i].method \in Writes =>
                    i \in 1 .. Len(CallsIn(kind, "undo", s))
<1> DEFINE p == Plan(kind)[s]
<1>1. PICK tag, undoTag : Shaped(p, tag, undoTag)
  BY StepsAreTagged DEF Tagged
<1>2. CallsIn(kind, "do", s) = p.calls /\ CallsIn(kind, "undo", s) = p.undo
  BY DEF CallsIn
<1> HIDE DEF p
<1>3. \A dir \in {"do", "undo"} : CallsIn(kind, dir, s) = p.calls \/ CallsIn(kind, dir, s) = p.undo
  BY <1>2
<1>4. \A i \in 1 .. Len(p.undo) : Len(p.undo) # 0
  BY <1>1 DEF Shaped
<1>5. \A i \in 1 .. Len(p.undo) : i \in 1 .. Len(p.calls) /\ p.calls[i].method \in Writes
  BY <1>1, <1>4 DEF Shaped
<1>6. \A i \in 1 .. Len(p.calls) : p.calls[i].method \in Writes => i \in 1 .. Len(p.undo)
  BY <1>1 DEF Shaped
<1> QED
  BY <1>1, <1>2, <1>3, <1>5, <1>6 DEF Shaped

\* Two writes of the same saga with the same tag and number are one.
LEMMA WritesTellApart ==
    ASSUME NEW kind \in BusinessSagaKind, NEW q, NEW p,
           q.dir \in {"do", "undo"}, p.dir \in {"do", "undo"},
           q.step \in 1 .. Len(Plan(kind)), p.step \in 1 .. Len(Plan(kind)),
           q.i \in 1 .. Len(CallsIn(kind, q.dir, q.step)),
           p.i \in 1 .. Len(CallsIn(kind, p.dir, p.step)),
           CallsIn(kind, q.dir, q.step)[q.i].method \in Writes,
           CallsIn(kind, p.dir, p.step)[p.i].method \in Writes,
           CallsIn(kind, q.dir, q.step)[q.i].tag = CallsIn(kind, p.dir, p.step)[p.i].tag,
           CallsIn(kind, q.dir, q.step)[q.i].i = CallsIn(kind, p.dir, p.step)[p.i].i
    PROVE  q.dir = p.dir /\ q.step = p.step /\ q.i = p.i
<1> DEFINE v == Plan(kind)[q.step]
           w == Plan(kind)[p.step]
<1>1. PICK a, b : Shaped(v, a, b) /\ (Len(v.undo) # 0 => <<kind, q.step, a, b>> \in WriteTags)
  BY StepsAreTagged DEF Tagged
<1>2. PICK c, f : Shaped(w, c, f) /\ (Len(w.undo) # 0 => <<kind, p.step, c, f>> \in WriteTags)
  BY StepsAreTagged DEF Tagged
<1>3. q.i = p.i
  <2>1. CallsIn(kind, q.dir, q.step)[q.i].i = q.i
    BY CallsOfStep
  <2>2. CallsIn(kind, p.dir, p.step)[p.i].i = p.i
    BY CallsOfStep
  <2> QED
    BY <2>1, <2>2
<1>4. /\ CallsIn(kind, "do", q.step) = v.calls /\ CallsIn(kind, "undo", q.step) = v.undo
      /\ CallsIn(kind, "do", p.step) = w.calls /\ CallsIn(kind, "undo", p.step) = w.undo
  BY DEF CallsIn
<1> HIDE DEF v, w
<1>5. Len(v.undo) # 0 /\ CallsIn(kind, q.dir, q.step)[q.i].tag = IF q.dir = "do" THEN a ELSE b
  <2>1. CASE q.dir = "do"
    BY <2>1, <1>1, <1>4, SMTT(20) DEF Shaped
  <2>2. CASE q.dir = "undo"
    BY <2>2, <1>1, <1>4 DEF Shaped
  <2> QED
    BY <2>1, <2>2
<1>6. Len(w.undo) # 0 /\ CallsIn(kind, p.dir, p.step)[p.i].tag = IF p.dir = "do" THEN c ELSE f
  <2>1. CASE p.dir = "do"
    BY <2>1, <1>2, <1>4 DEF Shaped
  <2>2. CASE p.dir = "undo"
    BY <2>2, <1>2, <1>4 DEF Shaped
  <2> QED
    BY <2>1, <2>2
<1>7. <<kind, q.step, a, b>> \in WriteTags /\ <<kind, p.step, c, f>> \in WriteTags
  BY <1>1, <1>2, <1>5, <1>6
<1>8. a # f /\ c # b /\ (a = c \/ b = f => q.step = p.step)
  BY <1>7, TagsAreDistinct
<1> QED
  BY <1>3, <1>5, <1>6, <1>8

-----------------------------------------------------------------------------
(***************************************************************************)
(* Requests and keys.                                                      *)
(***************************************************************************)
LEMMA CallsOfRequest ==
    ASSUME NEW q
    PROVE  /\ CallsOf(q) = CallsIn(run[q.run].kind, q.dir, q.step)
           /\ CallOf(q) = CallsIn(run[q.run].kind, q.dir, q.step)[q.i]
  BY DEF CallsOf, CallOf, CallsIn, StepOf

\* Two writes with the same key are one.
LEMMA KeysTellApart ==
    ASSUME TypeInv, IdentityInv,
           NEW q \in RequestSet, NEW p \in RequestSet,
           Made(q, run[q.run]), Made(p, run[p.run]), IsWrite(q), IsWrite(p),
           KeyOf(q) = KeyOf(p)
    PROVE  q = p
<1>1. q.run \in Runs /\ p.run \in Runs /\ q.dir \in {"do", "undo"} /\ p.dir \in {"do", "undo"}
  BY DEF RequestSet
<1>2. Started(q.run) /\ Started(p.run)
  BY DEF Started, Made
<1>3. run[q.run].id = run[p.run].id
  BY DEF KeyOf
<1>4. q.run = p.run
  BY <1>1, <1>2, <1>3 DEF IdentityInv
<1> DEFINE kind == run[q.run].kind
<1>5. kind \in BusinessSagaKind
  BY <1>1, <1>2 DEF TypeInv, Started, StartedPhases
<1>6. /\ CallOf(q) = CallsIn(kind, q.dir, q.step)[q.i]
      /\ CallOf(p) = CallsIn(kind, p.dir, p.step)[p.i]
  BY <1>4, CallsOfRequest
<1>7. /\ q.step \in 1 .. Len(Plan(kind)) /\ p.step \in 1 .. Len(Plan(kind))
      /\ q.i \in 1 .. Len(CallsIn(kind, q.dir, q.step))
      /\ p.i \in 1 .. Len(CallsIn(kind, p.dir, p.step))
  BY <1>4 DEF Made
<1>8. CallOf(q).tag = CallOf(p).tag /\ CallOf(q).i = CallOf(p).i
  BY DEF KeyOf
<1>9. CallOf(q).method \in Writes /\ CallOf(p).method \in Writes
  BY DEF IsWrite
<1> HIDE DEF kind
<1> DEFINE a == CallsIn(kind, q.dir, q.step)[q.i]
           b == CallsIn(kind, p.dir, p.step)[p.i]
<1>10. a.method \in Writes /\ b.method \in Writes /\ a.tag = b.tag /\ a.i = b.i
  BY <1>6, <1>8, <1>9
<1>11. q.dir = p.dir /\ q.step = p.step /\ q.i = p.i
  BY <1>1, <1>5, <1>7, <1>10, WritesTellApart
<1> QED
  BY <1>4, <1>11 DEF RequestSet

\* An engine that answers a write ok has processed this very write.
LEMMA AnsweredIsSettled ==
    ASSUME TypeInv, IdentityInv, RequestInv, EngineInv,
           NEW q \in RequestSet, Made(q, run[q.run]), IsWrite(q), Answered(q)
    PROVE  q \in Processed
<1>1. CASE q \in engine.performed \union engine.refused
  BY <1>1 DEF Processed
<1>2. CASE KeyOf(q) \in engine.keys
  <2>1. PICK p \in Processed : KeyOf(q) = KeyOf(p)
    BY <1>2 DEF EngineInv
  <2>2. p \in wire
    BY <2>1 DEF EngineInv
  <2>3. p \in RequestSet /\ Made(p, run[p.run]) /\ IsWrite(p)
    BY <2>2 DEF RequestInv
  <2>4. q = p
    BY <2>1, <2>3, KeysTellApart
  <2> QED
    BY <2>1, <2>4
<1> QED
  BY <1>1, <1>2 DEF Answered

-----------------------------------------------------------------------------
(***************************************************************************)
(* Runs that have started keep what their requests are made of.            *)
(***************************************************************************)
\* y is a later record of the run that had x.
Follows(x, y) ==
    /\ y.phase \in StartedPhases /\ y.kind = x.kind /\ y.id = x.id /\ y.case = x.case
    /\ x.reached <= y.reached
    /\ x.phase # "forward" =>
         y.phase # "forward" /\ (x.status # "completed" => y.status # "completed")

Steady == \A r \in Runs : Started(r) => Follows(run[r], run'[r])

LEMMA MadeStays ==
    ASSUME NEW q \in RequestSet, NEW x, NEW y, x.reached \in Nat, y.reached \in Nat,
           Made(q, x), Follows(x, y)
    PROVE  Made(q, y)
  BY DEF Made, Follows, RequestSet

LEMMA RequestStays ==
    ASSUME Steady, NEW q \in RequestSet, Made(q, run[q.run])
    PROVE  (IsWrite(q) <=> IsWrite(q)') /\ KeyOf(q)' = KeyOf(q) /\ CallOf(q)' = CallOf(q)
<1>1. Follows(run[q.run], run'[q.run])
  BY DEF Steady, Made, Started, RequestSet
<1>2. run'[q.run].kind = run[q.run].kind /\ run'[q.run].id = run[q.run].id
  BY <1>1 DEF Follows
<1>3. CallOf(q)' = CallOf(q)
  BY <1>2 DEF CallOf, CallsOf, StepOf
<1> QED
  BY <1>2, <1>3 DEF IsWrite, KeyOf

LEMMA EngineStays ==
    ASSUME RequestInv, EngineInv, Steady, engine' = engine, wire \subseteq wire'
    PROVE  EngineInv' /\ Processed' = Processed
<1>1. Processed' = Processed
  BY DEF Processed
<1>2. \A q \in Processed : KeyOf(q)' = KeyOf(q)
  BY RequestStays DEF EngineInv, RequestInv
<1>3. {KeyOf(q) : q \in Processed}' = {KeyOf(q) : q \in Processed}
  BY <1>1, <1>2
<1> QED
  BY <1>1, <1>3 DEF EngineInv

LEMMA RequestsStay ==
    ASSUME TypeInv, TypeInv', RequestInv, Steady,
           wire' \subseteq RequestSet, ghosts' \subseteq RequestSet,
           \A q \in wire' : q \notin wire => Made(q, run'[q.run]) /\ IsWrite(q)',
           \A q \in ghosts' : q \notin ghosts => Made(q, run'[q.run])
    PROVE  RequestInv'
<1>1. ASSUME NEW q \in RequestSet, Made(q, run[q.run])
      PROVE  Made(q, run'[q.run])
  <2>1. q.run \in Runs /\ Started(q.run)
    BY <1>1 DEF Made, Started, RequestSet
  <2>2. Follows(run[q.run], run'[q.run])
    BY <2>1 DEF Steady
  <2>3. run[q.run].reached \in Nat /\ run'[q.run].reached \in Nat
    BY <2>1 DEF TypeInv, RunRecord
  <2> QED
    BY <1>1, <2>2, <2>3, MadeStays
<1>2. \A q \in wire : q \in RequestSet /\ Made(q, run'[q.run]) /\ IsWrite(q)'
  BY <1>1, RequestStays DEF RequestInv
<1>3. \A q \in ghosts : q \in RequestSet /\ Made(q, run'[q.run])
  BY <1>1 DEF RequestInv
<1> QED
  BY <1>2, <1>3 DEF RequestInv

\* A step of one run that has started: what has to be seen about it.
LEMMA OneRunMoves ==
    ASSUME Inv, NEW r \in Runs, Started(r), NEW x,
           run' = [run EXCEPT ![r] = x],
           RunRecord(x), Follows(run[r], x), Placed(x), Progressed(Processed, r, x),
           x.phase # "ended" => run[r].id \in DOMAIN rows' /\ rows'[run[r].id] \in Active,
           \A id \in DOMAIN rows : id # run[r].id => id \in DOMAIN rows' /\ rows'[id] = rows[id],
           wire \subseteq wire', wire' \subseteq RequestSet, ghosts' \subseteq RequestSet,
           \A q \in wire' : q \notin wire => q.run = r /\ Made(q, x) /\ IsWrite(q),
           \A q \in ghosts' : q \notin ghosts => q.run = r /\ Made(q, x),
           engine' = engine, counters' = counters, clock' = clock
    PROVE  Inv'
<1> USE DEF Inv
<1>1. /\ run'[r] = x
      /\ \A s \in Runs : s # r => run'[s] = run[s]
      /\ run' = [s \in Runs |-> run'[s]]
  BY DEF TypeInv
<1>2. TypeInv'
  <2>1. x.phase \notin {"idle", "clear"} /\ x.kind \in BusinessSagaKind /\ x.case \in Cases
    BY DEF Follows, TypeInv, Started, StartedPhases
  <2>2. \A s \in Runs :
          /\ RunRecord(run'[s])
          /\ run'[s].phase = "idle" => run'[s] = Fresh
          /\ run'[s].phase = "clear" =>
               /\ run'[s].id = None /\ run'[s].status = None /\ run'[s].deadLetters = FALSE
               /\ run'[s].step = 0 /\ run'[s].i = 0 /\ run'[s].reached = 0
          /\ run'[s].phase # "idle" => run'[s].kind \in BusinessSagaKind /\ run'[s].case \in Cases
    BY <1>1, <2>1 DEF TypeInv
  <2> QED
    BY <1>1, <2>2 DEF TypeInv
<1>3. \A s \in Runs : Follows(run[s], run[s]) \/ ~Started(s)
  BY DEF Follows, TypeInv, RunRecord, Started
<1>4. Steady
  BY <1>1, <1>3 DEF Steady
<1>5. \A s \in Runs : Started(s)' <=> Started(s)
  BY <1>1 DEF Started, Follows
<1>6. IdentityInv'
  <2>1. \A s \in Runs : Started(s) =>
          run'[s].id = run[s].id /\ run'[s].kind = run[s].kind /\ run'[s].case = run[s].case
    BY <1>4 DEF Steady, Follows
  <2>2. \A s \in Runs : Started(s) /\ run'[s].phase # "ended" =>
          run'[s].id \in DOMAIN rows' /\ rows'[run'[s].id] \in Active
    <3>1. ASSUME NEW s \in Runs, s # r, Started(s), run'[s].phase # "ended"
          PROVE  run'[s].id \in DOMAIN rows' /\ rows'[run'[s].id] \in Active
      BY <1>1, <3>1 DEF IdentityInv
    <3> QED
      BY <1>1, <2>1, <3>1
  <2> QED
    BY <1>5, <2>1, <2>2 DEF IdentityInv
<1>7. PositionInv'
  BY <1>1, <1>5 DEF PositionInv
<1>8. EngineInv' /\ Processed' = Processed
  BY <1>4, EngineStays
<1>9. RequestInv'
  <2>1. \A q \in wire' : q \notin wire => Made(q, run'[q.run]) /\ IsWrite(q)'
    <3>1. ASSUME NEW q \in wire', q \notin wire
          PROVE  Made(q, run'[q.run]) /\ IsWrite(q)'
      <4>1. q.run = r /\ Made(q, x) /\ IsWrite(q)
        BY <3>1
      <4>2. run'[q.run].kind = run[q.run].kind
        BY <1>1, <4>1 DEF Follows
      <4> QED
        BY <1>1, <4>1, <4>2 DEF IsWrite, CallOf, CallsOf, StepOf
    <3> QED
      BY <3>1
  <2>2. \A q \in ghosts' : q \notin ghosts => Made(q, run'[q.run])
    BY <1>1
  <2> QED
    BY <1>2, <1>4, <2>1, <2>2, RequestsStay
<1>10. ProgressInv'
  BY <1>1, <1>5, <1>8 DEF ProgressInv
<1> QED
  BY <1>2, <1>6, <1>7, <1>8, <1>9, <1>10

-----------------------------------------------------------------------------
(***************************************************************************)
(* The steps of a run under way.                                           *)
(***************************************************************************)
\* The run record of a run that is in a step.
LEMMA InStepFacts ==
    ASSUME Inv, NEW r \in Runs, InStep(r)
    PROVE  /\ Started(r) /\ RunRecord(run[r]) /\ Placed(run[r])
           /\ Progressed(Processed, r, run[r])
           /\ run[r].phase \in {"forward", "backward"}
           /\ run[r].kind \in BusinessSagaKind
           /\ run[r].step \in 1 .. Len(Plan(run[r].kind)) /\ run[r].status = None
           /\ run[r].step \in Nat /\ run[r].i \in Nat /\ run[r].reached \in Nat
           /\ Len(Plan(run[r].kind)) \in Nat
           /\ Direction(run[r]) \in {"do", "undo"}
           /\ Current(r) = RequestOf(r, Direction(run[r]), run[r].step, run[r].i)
           /\ CallsOf(Current(r)) = CallsIn(run[r].kind, Direction(run[r]), run[r].step)
           /\ run[r].id \in DOMAIN rows /\ rows[run[r].id] \in Active
<1>1. /\ run[r].phase \in {"forward", "backward"} /\ Started(r)
      /\ run[r].step \in 1 .. Len(Plan(run[r].kind))
  BY DEF InStep, PlanOf, Started, StartedPhases
<1>2. RunRecord(run[r]) /\ run[r].kind \in BusinessSagaKind
  BY <1>1 DEF Inv, TypeInv
<1>3. run[r].step \in Nat /\ run[r].i \in Nat /\ run[r].reached \in Nat
  BY <1>2 DEF RunRecord
<1>4. Placed(run[r]) /\ Progressed(Processed, r, run[r])
  BY <1>1 DEF Inv, PositionInv, ProgressInv
<1>5. run[r].status = None
  BY <1>1, <1>4 DEF Placed
<1>6. Len(Plan(run[r].kind)) \in Nat
  BY <1>2, StepsAreTagged
<1>7. Direction(run[r]) \in {"do", "undo"}
  BY DEF Direction
<1>8. Current(r) = RequestOf(r, Direction(run[r]), run[r].step, run[r].i)
  BY DEF Current, RequestOf, Direction
<1>9. CallsOf(Current(r)) = CallsIn(run[r].kind, Direction(run[r]), run[r].step)
  BY <1>8, CallsOfRequest DEF RequestOf
<1>10. run[r].id \in DOMAIN rows /\ rows[run[r].id] \in Active
  BY <1>1 DEF Inv, IdentityInv
<1> QED
  BY <1>1, <1>2, <1>3, <1>4, <1>5, <1>6, <1>7, <1>8, <1>9, <1>10

\* The run goes on to its next step once the calls of this one are settled.
LEMMA StepAdvances ==
    ASSUME Inv, NEW r \in Runs, InStep(r),
           StepSettled(Processed, r, run[r].kind, Direction(run[r]), run[r].step),
           run' = [run EXCEPT ![r] = Advanced(r)],
           UNCHANGED <<ghosts, wire, engine, rows, counters, clock>>
    PROVE  Inv'
<1> DEFINE x == Advanced(r)
           y == run[r]
<1>1. /\ Started(r) /\ RunRecord(y) /\ Placed(y) /\ Progressed(Processed, r, y)
      /\ y.phase \in {"forward", "backward"} /\ y.step \in 1 .. Len(Plan(y.kind))
      /\ y.status = None /\ y.step \in Nat /\ y.i \in Nat /\ y.reached \in Nat
      /\ Len(Plan(y.kind)) \in Nat
      /\ y.id \in DOMAIN rows /\ rows[y.id] \in Active
  BY InStepFacts
<1>2. /\ x.phase = y.phase /\ x.kind = y.kind /\ x.case = y.case /\ x.id = y.id
      /\ x.i = 0 /\ x.deadLetters = y.deadLetters /\ x.status = y.status
      /\ x.failedAt = y.failedAt
      /\ y.phase = "backward" => x.step = y.step - 1 /\ x.reached = y.reached
      /\ y.phase = "forward" => x.step = y.step + 1 /\ x.reached = y.reached + 1
  BY <1>1 DEF Advanced, RunRecord
<1>3. x = [phase |-> x.phase, kind |-> x.kind, case |-> x.case, id |-> x.id, step |-> x.step,
           i |-> x.i, reached |-> x.reached, failedAt |-> x.failedAt,
           deadLetters |-> x.deadLetters, output |-> x.output, status |-> x.status]
  BY <1>1 DEF Advanced, RunRecord
<1>4. /\ RunRecord(x)
  <2>1. x.step \in Nat /\ x.reached \in Nat
    BY <1>1, <1>2
  <2> HIDE DEF x
  <2> QED
    BY <1>1, <1>2, <1>3, <2>1 DEF RunRecord
<1>5. StepSettled(Processed, r, y.kind, Direction(y), y.step)
  OBVIOUS
<1>6. run' = [run EXCEPT ![r] = x]
  OBVIOUS
<1> HIDE DEF x, y
<1>7. Follows(y, x)
  BY <1>1, <1>2, NoneAssumption DEF Follows, StartedPhases
<1>8. Placed(x)
  BY <1>1, <1>2, NoneAssumption DEF Placed
<1>9. Progressed(Processed, r, x)
  <2>1. CASE y.phase = "forward"
    <3>1. y.step = y.reached + 1 /\ Direction(y) = "do"
      BY <1>1, <2>1 DEF Placed, Direction
    <3>2. \A s \in 1 .. x.reached : s \in 1 .. y.reached \/ s = y.step
      BY <1>1, <1>2, <2>1, <3>1
    <3>3. \A s \in 1 .. x.reached : StepSettled(Processed, r, x.kind, "do", s)
      BY <1>1, <1>2, <1>5, <3>1, <3>2 DEF Progressed
    <3> QED
      BY <1>1, <1>2, <2>1, <3>3, NoneAssumption DEF Progressed
  <2>2. CASE y.phase = "backward"
    <3>1. Direction(y) = "undo"
      BY <2>2 DEF Direction
    <3>2. \A s \in 1 .. x.reached : s > x.step => s > y.step \/ s = y.step
      BY <1>1, <1>2, <2>2
    <3>3. ~x.deadLetters =>
            \A s \in 1 .. x.reached : s > x.step => StepSettled(Processed, r, x.kind, "undo", s)
      BY <1>1, <1>2, <1>5, <2>2, <3>1, <3>2 DEF Progressed
    <3> QED
      BY <1>1, <1>2, <2>2, <3>3, NoneAssumption DEF Progressed
  <2> QED
    BY <1>1, <2>1, <2>2
<1>10. x.phase # "ended" => run[r].id \in DOMAIN rows' /\ rows'[run[r].id] \in Active
  BY <1>1 DEF y
<1>11. wire \subseteq RequestSet /\ ghosts \subseteq RequestSet
  BY DEF Inv, RequestInv
<1>12. Follows(run[r], x)
  BY <1>7 DEF y
<1> QED
  BY <1>1, <1>4, <1>6, <1>8, <1>9, <1>10, <1>11, <1>12, OneRunMoves

\* The current call of a run was made by it.
LEMMA CurrentIsMade ==
    ASSUME Inv, NEW r \in Runs, InCall(r)
    PROVE  Current(r) \in RequestSet /\ Current(r).run = r /\ Made(Current(r), run[r])
<1> DEFINE y == run[r]
           q == Current(r)
<1>1. /\ InStep(r) /\ y.i > 0
  BY DEF InCall
<1>2. /\ Started(r) /\ Placed(y) /\ y.phase \in {"forward", "backward"}
      /\ y.step \in 1 .. Len(Plan(y.kind)) /\ y.status = None /\ y.step \in Nat /\ y.i \in Nat
      /\ Direction(y) \in {"do", "undo"}
      /\ q = RequestOf(r, Direction(y), y.step, y.i)
  BY <1>1, InStepFacts
<1>3. /\ q = [run |-> r, dir |-> Direction(y), step |-> y.step, i |-> y.i]
  BY <1>2 DEF RequestOf
<1> HIDE DEF y, q
<1>4. q \in RequestSet /\ q.run = r /\ q.dir = Direction(y) /\ q.step = y.step /\ q.i = y.i
  BY <1>2, <1>3 DEF RequestSet
<1>5. y.i \in 1 .. Len(CallsIn(y.kind, Direction(y), y.step))
  <2>1. Len(CallsIn(y.kind, Direction(y), y.step)) \in Nat
    BY <1>1, <1>2, CallsOfStep, InStepFacts DEF y
  <2> QED
    BY <1>1, <1>2, <2>1 DEF Placed
<1>6. q.dir = "undo" => y.phase = "backward"
  BY <1>2, <1>4 DEF Direction
<1>7. Made(q, y)
  BY <1>2, <1>4, <1>5, <1>6, NoneAssumption DEF Made, Placed, StartedPhases
<1> QED
  BY <1>4, <1>7 DEF y, q

\* The loop sends its next call once those before are settled.
LEMMA NextCallIsSent ==
    ASSUME Inv, NEW r \in Runs, InStep(r),
           run[r].i < Len(CallsOf(Current(r))),
           run[r].i > 0 => Answered(Current(r)),
           run' = [run EXCEPT ![r].i = run[r].i + 1], Sent(Next1(Current(r))),
           UNCHANGED <<ghosts, engine, rows, counters, clock>>
    PROVE  Inv'
<1> DEFINE y == run[r]
           x == [y EXCEPT !.i = y.i + 1]
           l == CallsIn(y.kind, Direction(y), y.step)
           p == Current(r)
           q == Next1(p)
<1>1. /\ Started(r) /\ RunRecord(y) /\ Placed(y) /\ Progressed(Processed, r, y)
      /\ y.phase \in {"forward", "backward"} /\ y.kind \in BusinessSagaKind
      /\ y.step \in 1 .. Len(Plan(y.kind))
      /\ y.status = None /\ y.step \in Nat /\ y.i \in Nat /\ y.reached \in Nat
      /\ Direction(y) \in {"do", "undo"}
      /\ p = RequestOf(r, Direction(y), y.step, y.i) /\ CallsOf(p) = l
      /\ y.id \in DOMAIN rows /\ rows[y.id] \in Active
  BY InStepFacts
<1>2. Len(l) \in Nat
  BY <1>1, CallsOfStep
<1>3. y.i < Len(l) /\ (y.i > 0 => Answered(p)) /\ Sent(q)
  BY <1>1
<1>4. /\ x.phase = y.phase /\ x.kind = y.kind /\ x.case = y.case /\ x.id = y.id
      /\ x.i = y.i + 1 /\ x.deadLetters = y.deadLetters /\ x.status = y.status
      /\ x.step = y.step /\ x.reached = y.reached /\ RunRecord(x)
  BY <1>1 DEF RunRecord
<1>5. /\ q.run = r /\ q.dir = Direction(y) /\ q.step = y.step /\ q.i = y.i + 1
      /\ q \in RequestSet
  BY <1>1 DEF Next1, RequestOf, RequestSet
<1>6. run' = [run EXCEPT ![r] = x]
  OBVIOUS
<1>7. y.i > 0 => InCall(r)
  BY DEF InCall
<1>8. Direction(x) = Direction(y)
  BY <1>4 DEF Direction
<1> HIDE DEF x, q
<1>9. y.i > 0 /\ l[y.i].method \in Writes => p \in Processed
  <2>1. SUFFICES ASSUME y.i > 0, l[y.i].method \in Writes
                 PROVE  p \in Processed
    OBVIOUS
  <2>2. p \in RequestSet /\ p.run = r /\ Made(p, run[r])
    BY <1>7, <2>1, CurrentIsMade
  <2>3. CallOf(p) = l[y.i]
    BY <1>1 DEF CallOf, RequestOf
  <2>4. IsWrite(p)
    BY <2>1, <2>3 DEF IsWrite
  <2> QED
    BY <1>3, <2>1, <2>2, <2>4, AnsweredIsSettled DEF Inv
<1> HIDE DEF y, l, p
<1>10. Follows(y, x)
  BY <1>1, <1>4 DEF Follows, StartedPhases
<1>11. Placed(x)
  BY <1>1, <1>2, <1>3, <1>4, <1>8 DEF Placed, l
<1>12. Progressed(Processed, r, x)
  <2>1. SettledBefore(Processed, r, y.kind, Direction(y), y.step, y.i + 1)
    <3>1. SUFFICES ASSUME NEW j \in 1 .. Len(l), j < y.i + 1, l[j].method \in Writes
                   PROVE  RequestOf(r, Direction(y), y.step, j) \in Processed
      BY DEF SettledBefore, l
    <3>2. CASE j < y.i
      BY <1>1, <3>1, <3>2 DEF Progressed, SettledBefore, l
    <3>3. CASE j = y.i
      BY <1>1, <1>9, <3>1, <3>3
    <3> QED
      BY <1>1, <1>2, <3>1, <3>2, <3>3
  <2> QED
    BY <1>1, <1>4, <1>8, <2>1, NoneAssumption DEF Progressed
<1>13. x.phase # "ended" => run[r].id \in DOMAIN rows' /\ rows'[run[r].id] \in Active
  BY <1>1 DEF y
<1>14. Made(q, x)
  <2>1. q.i \in 1 .. Len(CallsIn(x.kind, q.dir, q.step))
    BY <1>1, <1>2, <1>3, <1>4, <1>5 DEF l
  <2>2. q.dir = "undo" => y.phase = "backward"
    BY <1>1, <1>5 DEF Direction
  <2> QED
    BY <1>1, <1>4, <1>5, <2>1, <2>2, NoneAssumption DEF Made, Placed, StartedPhases
<1>15. /\ wire \subseteq wire' /\ wire' \subseteq RequestSet /\ ghosts' \subseteq RequestSet
       /\ \A u \in wire' : u \notin wire => u = q /\ IsWrite(q)
  BY <1>3, <1>5 DEF Sent, Inv, RequestInv
<1>16. \A u \in wire' : u \notin wire => u.run = r /\ Made(u, x) /\ IsWrite(u)
  BY <1>5, <1>14, <1>15
<1>17. Follows(run[r], x)
  BY <1>10 DEF y
<1> QED
  BY <1>1, <1>4, <1>6, <1>11, <1>12, <1>13, <1>15, <1>16, <1>17, OneRunMoves

LEMMA BeginStepKeeps ==
    ASSUME Inv, NEW r \in Runs, BeginStep(r)
    PROVE  Inv'
<1> DEFINE l == CallsIn(run[r].kind, Direction(run[r]), run[r].step)
<1>1. InStep(r) /\ run[r].i = 0 /\ UNCHANGED <<ghosts, engine, rows, counters, clock>>
  BY DEF BeginStep
<1>2. /\ CallsOf(Current(r)) = l /\ run[r].kind \in BusinessSagaKind
      /\ run[r].step \in 1 .. Len(Plan(run[r].kind)) /\ Direction(run[r]) \in {"do", "undo"}
  BY <1>1, InStepFacts
<1>3. Len(l) \in Nat /\ (l = <<>> <=> Len(l) = 0)
  BY <1>2, CallsOfStep
<1> HIDE DEF l
<1>4. CASE l = <<>>
  <2>1. run' = [run EXCEPT ![r] = Advanced(r)] /\ UNCHANGED wire
    BY <1>2, <1>4 DEF BeginStep
  <2>2. StepSettled(Processed, r, run[r].kind, Direction(run[r]), run[r].step)
    BY <1>3, <1>4 DEF StepSettled, l
  <2> QED
    BY <1>1, <2>1, <2>2, StepAdvances
<1>5. CASE l # <<>>
  <2>1. run' = [run EXCEPT ![r].i = 1] /\ Sent(Next1(Current(r)))
    BY <1>2, <1>5 DEF BeginStep
  <2>2. run' = [run EXCEPT ![r].i = run[r].i + 1]
    BY <1>1, <2>1
  <2>3. run[r].i < Len(CallsOf(Current(r))) /\ ~(run[r].i > 0)
    BY <1>1, <1>2, <1>3, <1>5
  <2> QED
    BY <1>1, <2>1, <2>2, <2>3, NextCallIsSent
<1> QED
  BY <1>4, <1>5

LEMMA CallSucceedsKeeps ==
    ASSUME Inv, NEW r \in Runs, CallSucceeds(r)
    PROVE  Inv'
<1> DEFINE y == run[r]
           l == CallsIn(y.kind, Direction(y), y.step)
           p == Current(r)
<1>1. /\ InStep(r) /\ InCall(r) /\ y.i > 0 /\ Answered(p)
      /\ UNCHANGED <<ghosts, engine, rows, counters, clock>>
  BY DEF CallSucceeds, InCall
<1>2. /\ CallsOf(p) = l /\ y.kind \in BusinessSagaKind /\ Placed(y)
      /\ y.phase \in {"forward", "backward"} /\ y.i \in Nat
      /\ y.step \in 1 .. Len(Plan(y.kind)) /\ Direction(y) \in {"do", "undo"}
      /\ p = RequestOf(r, Direction(y), y.step, y.i)
      /\ Progressed(Processed, r, y)
  BY <1>1, InStepFacts
<1>3. Len(l) \in Nat
  BY <1>2, CallsOfStep
<1>4. CASE y.i < Len(l)
  <2>1. run' = [run EXCEPT ![r].i = y.i + 1] /\ Sent(Next1(p))
    BY <1>2, <1>4 DEF CallSucceeds
  <2> QED
    BY <1>1, <1>2, <1>4, <2>1, NextCallIsSent
<1>5. CASE ~(y.i < Len(l))
  <2>1. run' = [run EXCEPT ![r] = Advanced(r)] /\ UNCHANGED wire
    BY <1>2, <1>5 DEF CallSucceeds
  <2>2. y.i = Len(l)
    BY <1>1, <1>2, <1>3, <1>5 DEF Placed
  <2>3. l[y.i].method \in Writes => p \in Processed
    <3>1. SUFFICES ASSUME l[y.i].method \in Writes
                   PROVE  p \in Processed
      OBVIOUS
    <3>2. p \in RequestSet /\ p.run = r /\ Made(p, run[r])
      BY <1>1, CurrentIsMade
    <3>3. CallOf(p) = l[y.i]
      BY <1>2 DEF CallOf, RequestOf
    <3>4. IsWrite(p)
      BY <3>1, <3>3 DEF IsWrite
    <3> QED
      BY <1>1, <3>2, <3>4, AnsweredIsSettled DEF Inv
  <2>4. StepSettled(Processed, r, y.kind, Direction(y), y.step)
    <3>1. SUFFICES ASSUME NEW j \in 1 .. Len(l), l[j].method \in Writes
                   PROVE  RequestOf(r, Direction(y), y.step, j) \in Processed
      BY DEF StepSettled
    <3> HIDE DEF y, l, p
    <3>2. CASE j < y.i
      BY <1>1, <1>2, <3>1, <3>2 DEF Progressed, SettledBefore, l
    <3>3. CASE j = y.i
      BY <1>2, <2>3, <3>1, <3>3
    <3> QED
      BY <1>2, <1>3, <2>2, <3>1, <3>2, <3>3
  <2> QED
    BY <1>1, <2>1, <2>4, StepAdvances
<1> QED
  BY <1>4, <1>5

\* The run record of a run under way.
LEMMA UnderWay ==
    ASSUME Inv, NEW r \in Runs, run[r].phase \in {"forward", "backward"}
    PROVE  /\ Started(r) /\ RunRecord(run[r]) /\ Placed(run[r])
           /\ Progressed(Processed, r, run[r])
           /\ run[r].kind \in BusinessSagaKind /\ run[r].status = None
           /\ run[r].step \in Nat /\ run[r].i \in Nat /\ run[r].reached \in Nat
           /\ Len(Plan(run[r].kind)) \in Nat
           /\ run[r].id \in DOMAIN rows
<1>1. Started(r) /\ run[r].phase # "ended" /\ run[r].phase # "idle"
  BY DEF Started, StartedPhases
<1>2. RunRecord(run[r]) /\ run[r].kind \in BusinessSagaKind
  BY <1>1 DEF Inv, TypeInv
<1>3. run[r].step \in Nat /\ run[r].i \in Nat /\ run[r].reached \in Nat
  BY <1>2 DEF RunRecord
<1>4. Placed(run[r]) /\ Progressed(Processed, r, run[r]) /\ run[r].id \in DOMAIN rows
  BY <1>1 DEF Inv, PositionInv, ProgressInv, IdentityInv
<1> QED
  BY <1>1, <1>2, <1>3, <1>4, StepsAreTagged DEF Placed

\* A failure turns the run round; a loop of the step that failed may stay behind.
LEMMA RunTurnsRound ==
    ASSUME Inv, NEW r \in Runs, run[r].phase = "forward", NEW n \in Nat,
           run' = [run EXCEPT ![r] =
                     [run[r] EXCEPT !.phase = "backward", !.step = run[r].reached,
                                    !.failedAt = n, !.i = 0]],
           ghosts' = ghosts \/ (InCall(r) /\ ghosts' = ghosts \union {Current(r)}),
           Save(run[r].id, "compensating"),
           UNCHANGED <<wire, engine, counters, clock>>
    PROVE  Inv'
<1> DEFINE y == run[r]
           x == [y EXCEPT !.phase = "backward", !.step = y.reached, !.failedAt = n, !.i = 0]
<1>1. /\ Started(r) /\ RunRecord(y) /\ Placed(y) /\ Progressed(Processed, r, y)
      /\ y.status = None /\ y.reached \in Nat /\ y.id \in DOMAIN rows
  BY UnderWay
<1>2. /\ x.phase = "backward" /\ x.kind = y.kind /\ x.case = y.case /\ x.id = y.id
      /\ x.i = 0 /\ x.deadLetters = y.deadLetters /\ x.status = y.status
      /\ x.step = y.reached /\ x.reached = y.reached /\ RunRecord(x)
  BY <1>1 DEF RunRecord, Phases
<1>3. run' = [run EXCEPT ![r] = x] /\ y.phase = "forward"
  OBVIOUS
<1> HIDE DEF x
<1>4. Follows(y, x)
  BY <1>1, <1>2, <1>3 DEF Follows, StartedPhases
<1>5. Placed(x)
  BY <1>1, <1>2, <1>3, NoneAssumption DEF Placed
<1>6. Progressed(Processed, r, x)
  BY <1>1, <1>2, <1>3, NoneAssumption DEF Progressed
<1>7. /\ rows'[y.id] = "compensating" /\ y.id \in DOMAIN rows'
      /\ \A id \in DOMAIN rows : id # y.id => id \in DOMAIN rows' /\ rows'[id] = rows[id]
  BY DEF Save
<1>8. x.phase # "ended" => y.id \in DOMAIN rows' /\ rows'[y.id] \in Active
  BY <1>7 DEF Active
<1>9. wire' = wire /\ wire \subseteq RequestSet /\ ghosts \subseteq RequestSet
  BY DEF Inv, RequestInv
<1>10. /\ \A q \in ghosts' : q \notin ghosts => q.run = r /\ Made(q, x)
       /\ ghosts' \subseteq RequestSet
  <2>1. CASE ghosts' = ghosts
    BY <1>9, <2>1
  <2>2. CASE InCall(r) /\ ghosts' = ghosts \union {Current(r)}
    <3>1. Current(r) \in RequestSet /\ Current(r).run = r /\ Made(Current(r), y)
      BY <2>2, CurrentIsMade
    <3>2. Made(Current(r), x)
      BY <1>1, <1>2, <1>4, <3>1, MadeStays
    <3> QED
      BY <1>9, <2>2, <3>1, <3>2
  <2> QED
    BY <2>1, <2>2
<1> QED
  BY <1>1, <1>2, <1>3, <1>4, <1>5, <1>6, <1>7, <1>8, <1>9, <1>10, OneRunMoves

LEMMA StepFailsKeeps ==
    ASSUME Inv, NEW r \in Runs, StepFails(r)
    PROVE  Inv'
<1> DEFINE y == run[r]
           x == [y EXCEPT !.step = y.step - 1, !.i = 0, !.deadLetters = TRUE]
<1>1. /\ InCall(r) /\ InStep(r) /\ UNCHANGED <<wire, engine, counters, clock>>
      /\ ghosts' = ghosts \/ ghosts' = ghosts \union {Current(r)}
  BY DEF StepFails, InCall
<1>2. /\ Started(r) /\ RunRecord(y) /\ Placed(y) /\ Progressed(Processed, r, y)
      /\ y.phase \in {"forward", "backward"}
      /\ y.step \in 1 .. Len(Plan(y.kind)) /\ Len(Plan(y.kind)) \in Nat
      /\ y.status = None /\ y.step \in Nat /\ y.i \in Nat /\ y.reached \in Nat
      /\ y.id \in DOMAIN rows /\ rows[y.id] \in Active
  BY <1>1, InStepFacts
<1>3. CASE y.phase = "forward"
  <2>1. /\ run' = [run EXCEPT ![r].phase = "backward", ![r].step = run[r].reached,
                              ![r].failedAt = run[r].i, ![r].i = 0]
        /\ Save(y.id, "compensating")
    BY <1>3 DEF StepFails
  <2>2. run' = [run EXCEPT ![r] = [run[r] EXCEPT !.phase = "backward", !.step = run[r].reached,
                                                 !.failedAt = run[r].i, !.i = 0]]
    BY <2>1 DEF Inv, TypeInv
  <2> QED
    BY <1>1, <1>2, <1>3, <2>1, <2>2, RunTurnsRound
<1>4. CASE y.phase = "backward"
  <2>1. /\ run' = [run EXCEPT ![r].step = @ - 1, ![r].i = 0, ![r].deadLetters = TRUE]
        /\ UNCHANGED rows
    BY <1>4 DEF StepFails
  <2>2. run' = [run EXCEPT ![r] = x]
    BY <2>1 DEF Inv, TypeInv
  <2>3. /\ x.phase = y.phase /\ x.kind = y.kind /\ x.case = y.case /\ x.id = y.id
        /\ x.i = 0 /\ x.deadLetters = TRUE /\ x.status = y.status
        /\ x.step = y.step - 1 /\ x.reached = y.reached /\ RunRecord(x)
    <3>1. y.step - 1 \in Nat
      BY <1>2
    <3> DEFINE m == y.step - 1
    <3>2. x = [y EXCEPT !.step = m, !.i = 0, !.deadLetters = TRUE] /\ m \in Nat
      BY <3>1
    <3>3. x.step = y.step - 1
      BY <1>2 DEF RunRecord
    <3> HIDE DEF x, m
    <3> QED
      BY <1>2, <3>2, <3>3 DEF RunRecord
  <2> HIDE DEF x
  <2>4. Follows(y, x)
    BY <1>2, <1>4, <2>3 DEF Follows, StartedPhases
  <2>5. Placed(x)
    BY <1>2, <1>4, <2>3, NoneAssumption DEF Placed
  <2>6. Progressed(Processed, r, x)
    BY <1>2, <1>4, <2>3, NoneAssumption DEF Progressed
  <2>7. wire' = wire /\ wire \subseteq RequestSet /\ ghosts \subseteq RequestSet
    BY <1>1 DEF Inv, RequestInv
  <2>8. /\ \A q \in ghosts' : q \notin ghosts => q.run = r /\ Made(q, x)
        /\ ghosts' \subseteq RequestSet
    <3>1. Current(r) \in RequestSet /\ Current(r).run = r /\ Made(Current(r), y)
      BY <1>1, CurrentIsMade
    <3>2. Made(Current(r), x)
      BY <1>2, <2>3, <2>4, <3>1, MadeStays
    <3> QED
      BY <1>1, <2>7, <3>1, <3>2
  <2> QED
    BY <1>1, <1>2, <2>1, <2>2, <2>3, <2>4, <2>5, <2>6, <2>7, <2>8, OneRunMoves
<1> QED
  BY <1>2, <1>3, <1>4

LEMMA CheckRefusesKeeps ==
    ASSUME Inv, NEW r \in Runs, CheckRefuses(r)
    PROVE  Inv'
<1>1. /\ run[r].phase = "forward" /\ Save(run[r].id, "compensating")
      /\ UNCHANGED <<ghosts, wire, engine, counters, clock>>
      /\ run' = [run EXCEPT ![r].phase = "backward", ![r].step = run[r].reached, ![r].i = 0]
  BY DEF CheckRefuses
<1>2. RunRecord(run[r]) /\ run[r].failedAt \in Nat
  BY DEF Inv, TypeInv, RunRecord
<1>3. run' = [run EXCEPT ![r] =
                [run[r] EXCEPT !.phase = "backward", !.step = run[r].reached,
                               !.failedAt = run[r].failedAt, !.i = 0]]
  BY <1>1, <1>2 DEF RunRecord, Inv, TypeInv
<1> QED
  BY <1>1, <1>2, <1>3, RunTurnsRound

\* A run ends, with its last save done or failed.
LEMMA RunEnds ==
    ASSUME Inv, NEW r \in Runs, run[r].phase \in {"forward", "backward"},
           NEW status \in Final \union {"error"},
           status = "completed" =>
               run[r].phase = "forward" /\ run[r].reached = Len(Plan(run[r].kind)),
           status = "compensated" =>
               run[r].phase = "backward" /\ run[r].step = 0 /\ ~run[r].deadLetters,
           run' = [run EXCEPT ![r] = [run[r] EXCEPT !.phase = "ended", !.status = status]],
           \A id \in DOMAIN rows : id # run[r].id => id \in DOMAIN rows' /\ rows'[id] = rows[id],
           UNCHANGED <<ghosts, wire, engine, counters, clock>>
    PROVE  Inv'
<1> DEFINE y == run[r]
           x == [y EXCEPT !.phase = "ended", !.status = status]
<1>1. /\ Started(r) /\ RunRecord(y) /\ Placed(y) /\ Progressed(Processed, r, y)
      /\ y.status = None /\ y.reached \in Nat /\ y.step \in Nat
  BY UnderWay
<1>2. /\ x.phase = "ended" /\ x.kind = y.kind /\ x.case = y.case /\ x.id = y.id
      /\ x.i = y.i /\ x.deadLetters = y.deadLetters /\ x.status = status
      /\ x.step = y.step /\ x.reached = y.reached /\ RunRecord(x)
  BY <1>1 DEF RunRecord, Phases
<1>3. run' = [run EXCEPT ![r] = x]
  OBVIOUS
<1> HIDE DEF x
<1>4. Follows(y, x)
  BY <1>1, <1>2 DEF Follows, StartedPhases
<1>5. Placed(x)
  BY <1>1, <1>2 DEF Placed
<1>6. Progressed(Processed, r, x)
  BY <1>1, <1>2 DEF Progressed
<1>7. wire' = wire /\ ghosts' = ghosts /\ wire \subseteq RequestSet /\ ghosts \subseteq RequestSet
  BY DEF Inv, RequestInv
<1> QED
  BY <1>1, <1>2, <1>3, <1>4, <1>5, <1>6, <1>7, OneRunMoves

LEMMA CloseKeeps ==
    ASSUME Inv, NEW r \in Runs, Close(r)
    PROVE  Inv'
<1> DEFINE y == run[r]
<1>1. /\ y.phase \in {"forward", "backward"} /\ y.step \notin 1 .. Len(Plan(y.kind))
      /\ UNCHANGED <<ghosts, wire, engine, counters, clock>>
  BY DEF Close, PlanOf
<1>2. /\ Placed(y) /\ y.step \in Nat /\ y.reached \in Nat /\ Len(Plan(y.kind)) \in Nat
      /\ y.deadLetters \in BOOLEAN /\ RunRecord(y)
  BY <1>1, UnderWay DEF RunRecord
<1>3. PICK status \in Final :
        /\ status = "completed" => y.phase = "forward"
        /\ status = "compensated" => y.phase = "backward" /\ ~y.deadLetters
        /\ Save(y.id, status)
        /\ run' = [run EXCEPT ![r].phase = "ended", ![r].status = status]
  <2>1. CASE y.phase = "forward"
    <3>1. /\ Save(y.id, "completed")
          /\ run' = [run EXCEPT ![r].phase = "ended", ![r].status = "completed"]
      BY <2>1 DEF Close
    <3>2. "completed" \in Final
      BY DEF Final
    <3> QED
      BY <2>1, <3>1, <3>2
  <2>2. CASE y.phase = "backward" /\ y.deadLetters
    BY <2>2 DEF Close, Final
  <2>3. CASE y.phase = "backward" /\ ~y.deadLetters
    BY <2>3 DEF Close, Final
  <2> QED
    BY <1>1, <2>1, <2>2, <2>3
<1>4. status = "completed" => y.phase = "forward" /\ y.reached = Len(Plan(y.kind))
  BY <1>1, <1>2, <1>3 DEF Placed
<1>5. status = "compensated" => y.phase = "backward" /\ y.step = 0 /\ ~y.deadLetters
  BY <1>1, <1>2, <1>3 DEF Placed
<1>6. run' = [run EXCEPT ![r] = [run[r] EXCEPT !.phase = "ended", !.status = status]]
  BY <1>3 DEF Inv, TypeInv
<1>7. \A id \in DOMAIN rows : id # y.id => id \in DOMAIN rows' /\ rows'[id] = rows[id]
  BY <1>3 DEF Save
<1> QED
  BY <1>1, <1>3, <1>4, <1>5, <1>6, <1>7, RunEnds

LEMMA SaveFailsKeeps ==
    ASSUME Inv, NEW r \in Runs, SaveFails(r)
    PROVE  Inv'
<1>1. /\ run[r].phase \in {"forward", "backward"}
      /\ UNCHANGED <<ghosts, wire, engine, rows, counters, clock>>
      /\ run' = [run EXCEPT ![r].phase = "ended", ![r].status = "error"]
  BY DEF SaveFails
<1>2. run' = [run EXCEPT ![r] = [run[r] EXCEPT !.phase = "ended", !.status = "error"]]
  BY <1>1 DEF Inv, TypeInv
<1> QED
  BY <1>1, <1>2, RunEnds

-----------------------------------------------------------------------------
(***************************************************************************)
(* Before a run, between runs, and the engines.                            *)
(***************************************************************************)
\* Where no run that has started changes, the rest of its story stays.
LEMMA NothingStartedMoves ==
    ASSUME Inv, TypeInv',
           \A r \in Runs : (Started(r)' <=> Started(r)) /\ (Started(r) => run'[r] = run[r]),
           UNCHANGED <<ghosts, wire, engine>>
    PROVE  PositionInv' /\ RequestInv' /\ EngineInv' /\ ProgressInv'
<1>1. Steady
  BY DEF Steady, Follows, Inv, TypeInv, RunRecord, Started
<1>2. EngineInv' /\ Processed' = Processed
  BY <1>1, EngineStays DEF Inv
<1>3. RequestInv'
  BY <1>1, RequestsStay DEF Inv, RequestInv
<1>4. PositionInv' /\ ProgressInv'
  BY <1>2 DEF Inv, PositionInv, ProgressInv
<1> QED
  BY <1>2, <1>3, <1>4

LEMMA CheckKeeps ==
    ASSUME Inv, NEW r \in Runs, Check(r)
    PROVE  Inv'
<1>1. PICK kind \in KindsOf[r], case \in Cases :
        run' = [run EXCEPT ![r].phase = "clear", ![r].kind = kind, ![r].case = case]
  BY DEF Check
<1>2. /\ run[r] = Fresh /\ run[r].phase = "idle" /\ kind \in BusinessSagaKind
      /\ UNCHANGED <<ghosts, wire, engine, rows, counters, clock>>
  BY CallersAssumption DEF Check, Inv, TypeInv
<1>3. /\ run'[r].phase = "clear" /\ run'[r].kind = kind /\ run'[r].case = case
      /\ run'[r].id = None /\ run'[r].status = None /\ run'[r].deadLetters = FALSE
      /\ run'[r].step = 0 /\ run'[r].i = 0 /\ run'[r].reached = 0
      /\ RunRecord(run'[r])
      /\ \A s \in Runs : s # r => run'[s] = run[s]
      /\ run' = [s \in Runs |-> run'[s]]
  <2> DEFINE x == [run[r] EXCEPT !.phase = "clear", !.kind = kind, !.case = case]
  <2>1. run' = [run EXCEPT ![r] = x]
    BY <1>1 DEF Inv, TypeInv
  <2>2. RunRecord(run[r])
    BY DEF Inv, TypeInv
  <2>3. /\ x.phase = "clear" /\ x.kind = kind /\ x.case = case /\ x.id = run[r].id
        /\ x.status = run[r].status /\ x.deadLetters = run[r].deadLetters
        /\ x.step = run[r].step /\ x.i = run[r].i /\ x.reached = run[r].reached
        /\ RunRecord(x)
    BY <1>1, <1>2, <2>2 DEF RunRecord, Phases
  <2>4. /\ run[r].id = None /\ run[r].status = None /\ run[r].deadLetters = FALSE
        /\ run[r].step = 0 /\ run[r].i = 0 /\ run[r].reached = 0
    BY <1>2 DEF Fresh
  <2> HIDE DEF x
  <2>5. run'[r] = x /\ \A s \in Runs : s # r => run'[s] = run[s]
    BY <2>1 DEF Inv, TypeInv
  <2>6. run' = [s \in Runs |-> run'[s]]
    BY <2>1 DEF Inv, TypeInv
  <2> QED
    BY <2>3, <2>4, <2>5, <2>6
<1>4. TypeInv'
  BY <1>1, <1>2, <1>3 DEF Inv, TypeInv
<1>5. \A s \in Runs : (Started(s)' <=> Started(s)) /\ (Started(s) => run'[s] = run[s])
  BY <1>2, <1>3 DEF Started, StartedPhases
<1>6. IdentityInv'
  BY <1>2, <1>5 DEF Inv, IdentityInv
<1> QED
  BY <1>2, <1>4, <1>5, <1>6, NothingStartedMoves DEF Inv

LEMMA RunForCaseKeeps ==
    ASSUME Inv, NEW r \in Runs, RunForCase(r)
    PROVE  Inv'
<1> DEFINE kind == run[r].kind
           n == counters[kind] + 1
           id == <<kind, run[r].case, clock, n>>
           x == [run[r] EXCEPT !.phase = "forward", !.id = id, !.step = 1]
<1>1. /\ run[r].phase = "clear" /\ counters' = [counters EXCEPT ![kind] = @ + 1]
      /\ Save(id, "in_progress")
      /\ run' = [run EXCEPT ![r].phase = "forward", ![r].id = id, ![r].step = 1]
      /\ UNCHANGED <<ghosts, wire, engine, clock>>
  BY DEF RunForCase, Counted, InvocationStamp
<1>2. /\ RunRecord(run[r]) /\ kind \in BusinessSagaKind /\ run[r].case \in Cases
      /\ run[r].status = None /\ run[r].i = 0 /\ run[r].reached = 0
      /\ counters \in [BusinessSagaKind -> Nat] /\ clock \in Nat
  BY <1>1 DEF Inv, TypeInv
<1>3. n \in Nat /\ id \in AllIds
  BY <1>2 DEF AllIds
<1>4. run' = [run EXCEPT ![r] = x]
  BY <1>1 DEF Inv, TypeInv
<1>5. /\ x.phase = "forward" /\ x.kind = kind /\ x.case = run[r].case /\ x.id = id
      /\ x.step = 1 /\ x.i = 0 /\ x.reached = 0 /\ x.status = None /\ RunRecord(x)
  BY <1>2 DEF RunRecord, Phases
<1>6. id[1] = kind /\ id[2] = run[r].case /\ id[3] = clock /\ id[4] = n
  OBVIOUS
<1> HIDE DEF x, id
<1>7. /\ run'[r] = x /\ \A s \in Runs : s # r => run'[s] = run[s]
      /\ run' = [s \in Runs |-> run'[s]]
  BY <1>4 DEF Inv, TypeInv
<1>8. /\ counters' \in [BusinessSagaKind -> Nat] /\ counters'[kind] = n
      /\ \A k \in BusinessSagaKind : counters[k] <= counters'[k]
  BY <1>1, <1>2
<1>9. TypeInv'
  <2>1. \A s \in Runs :
          /\ RunRecord(run'[s])
          /\ run'[s].phase = "idle" => run'[s] = Fresh
          /\ run'[s].phase = "clear" =>
               /\ run'[s].id = None /\ run'[s].status = None /\ run'[s].deadLetters = FALSE
               /\ run'[s].step = 0 /\ run'[s].i = 0 /\ run'[s].reached = 0
          /\ run'[s].phase # "idle" => run'[s].kind \in BusinessSagaKind /\ run'[s].case \in Cases
    BY <1>2, <1>5, <1>7 DEF Inv, TypeInv
  <2> QED
    BY <1>1, <1>2, <1>7, <1>8, <2>1 DEF TypeInv
<1>10. /\ ~Started(r) /\ Started(r)'
       /\ \A s \in Runs : s # r => (Started(s)' <=> Started(s)) /\ run'[s] = run[s]
  BY <1>1, <1>5, <1>7 DEF Started, StartedPhases
<1>11. Steady
  BY <1>10 DEF Steady, Follows, Inv, TypeInv, RunRecord, Started
<1>12. EngineInv' /\ Processed' = Processed
  BY <1>1, <1>11, EngineStays DEF Inv
<1>13. RequestInv'
  BY <1>1, <1>9, <1>11, RequestsStay DEF Inv, RequestInv
<1>14. PositionInv'
  <2>1. Placed(x)
    BY <1>2, <1>5, StepsAreTagged, NoneAssumption DEF Placed
  <2> QED
    BY <1>7, <1>10, <2>1 DEF Inv, PositionInv
<1>15. ProgressInv'
  <2>1. Progressed(Processed, r, x)
    BY <1>5, NoneAssumption DEF Progressed
  <2> QED
    BY <1>7, <1>10, <1>12, <2>1 DEF Inv, ProgressInv
<1>16. /\ id \in DOMAIN rows' /\ rows'[id] \in Active
       /\ \A u \in DOMAIN rows : u # id => u \in DOMAIN rows' /\ rows'[u] = rows[u]
  BY <1>1 DEF Save, Active
<1>17. \A s \in Runs : s # r /\ Started(s) => run[s].id # id
  <2>1. SUFFICES ASSUME NEW s \in Runs, s # r, Started(s), run[s].id = id
                 PROVE  FALSE
    OBVIOUS
  <2>2. run[s].kind = kind /\ run[s].id[3] = clock /\ run[s].id[4] = n
    BY <1>6, <2>1 DEF Inv, IdentityInv
  <2>3. n <= counters[kind]
    BY <2>1, <2>2 DEF Inv, IdentityInv
  <2> QED
    BY <1>2, <2>3
<1>18. IdentityInv'
  <2>1. ASSUME NEW s \in Runs, Started(s)'
        PROVE  /\ run'[s].id \in AllIds
               /\ run'[s].id[1] = run'[s].kind /\ run'[s].id[2] = run'[s].case
               /\ run'[s].id[3] <= clock'
               /\ run'[s].id[3] = clock' => run'[s].id[4] <= counters'[run'[s].kind]
               /\ run'[s].phase # "ended" =>
                    run'[s].id \in DOMAIN rows' /\ rows'[run'[s].id] \in Active
    <3>1. CASE s = r
      BY <1>1, <1>2, <1>3, <1>5, <1>6, <1>7, <1>8, <1>16, <3>1
    <3>2. CASE s # r
      <4>1. Started(s) /\ run'[s] = run[s] /\ run[s].id # id
        BY <1>10, <1>17, <2>1, <3>2
      <4>2. /\ run[s].id \in AllIds /\ run[s].kind \in BusinessSagaKind
            /\ run[s].id[1] = run[s].kind /\ run[s].id[2] = run[s].case
            /\ run[s].id[3] <= clock
            /\ run[s].id[3] = clock => run[s].id[4] <= counters[run[s].kind]
            /\ run[s].phase # "ended" => run[s].id \in DOMAIN rows /\ rows[run[s].id] \in Active
        BY <4>1 DEF Inv, IdentityInv, TypeInv, Started, StartedPhases
      <4>3. run[s].id[4] \in Nat
        BY <4>2 DEF AllIds
      <4>4. run[s].id[3] = clock => run[s].id[4] <= counters'[run[s].kind]
        BY <1>2, <1>8, <4>2, <4>3
      <4> QED
        BY <1>1, <1>16, <4>1, <4>2, <4>4
    <3> QED
      BY <3>1, <3>2
  <2>2. \A s, t \in Runs : s # t /\ Started(s)' /\ Started(t)' => run'[s].id # run'[t].id
    BY <1>5, <1>7, <1>10, <1>17 DEF Inv, IdentityInv
  <2> QED
    BY <2>1, <2>2 DEF IdentityInv
<1> QED
  BY <1>9, <1>12, <1>13, <1>14, <1>15, <1>18 DEF Inv

LEMMA RestartKeeps ==
    ASSUME Inv, Restart
    PROVE  Inv'
<1>1. /\ clock' = clock + 1 /\ counters' = [k \in BusinessSagaKind |-> 0]
      /\ ghosts' = {} /\ UNCHANGED <<wire, engine, rows>>
      /\ run' = [r \in Runs |-> IF run[r].phase \in {"forward", "backward"}
                                THEN [run[r] EXCEPT !.phase = "lost"]
                                ELSE IF run[r].phase = "clear" THEN Fresh ELSE run[r]]
  BY DEF Restart
<1>2. \A r \in Runs : RunRecord(run[r]) /\ RunRecord(Fresh)
  BY DEF Inv, TypeInv, RunRecord, Fresh, Phases
<1>3. \A r \in Runs : run[r].phase \in {"forward", "backward"} =>
        /\ run'[r].phase = "lost" /\ run'[r].kind = run[r].kind /\ run'[r].case = run[r].case
        /\ run'[r].id = run[r].id /\ run'[r].step = run[r].step /\ run'[r].i = run[r].i
        /\ run'[r].reached = run[r].reached /\ run'[r].deadLetters = run[r].deadLetters
        /\ run'[r].status = run[r].status /\ RunRecord(run'[r])
  BY <1>1, <1>2 DEF RunRecord, Phases
<1>4. \A r \in Runs : run[r].phase = "clear" => run'[r] = Fresh
  BY <1>1
<1>5. \A r \in Runs : run[r].phase \notin {"forward", "backward", "clear"} => run'[r] = run[r]
  BY <1>1
<1>6. Fresh.phase = "idle"
  BY DEF Fresh
<1>7. TypeInv'
  <2>1. ASSUME NEW r \in Runs
        PROVE  /\ RunRecord(run'[r])
               /\ run'[r].phase = "idle" => run'[r] = Fresh
               /\ run'[r].phase = "clear" =>
                    /\ run'[r].id = None /\ run'[r].status = None
                    /\ run'[r].deadLetters = FALSE
                    /\ run'[r].step = 0 /\ run'[r].i = 0 /\ run'[r].reached = 0
               /\ run'[r].phase # "idle" =>
                    run'[r].kind \in BusinessSagaKind /\ run'[r].case \in Cases
    <3>1. CASE run[r].phase \in {"forward", "backward"}
      BY <1>3, <3>1 DEF Inv, TypeInv
    <3>2. CASE run[r].phase = "clear"
      BY <1>2, <1>4, <1>6, <3>2
    <3>3. CASE run[r].phase \notin {"forward", "backward", "clear"}
      BY <1>5, <3>3 DEF Inv, TypeInv
    <3> QED
      BY <3>1, <3>2, <3>3
  <2>2. run' = [r \in Runs |-> run'[r]]
    BY <1>1
  <2>3. counters' \in [BusinessSagaKind -> Nat] /\ clock' \in Nat
    BY <1>1 DEF Inv, TypeInv
  <2> QED
    BY <2>1, <2>2, <2>3 DEF TypeInv
<1>8. \A r \in Runs : Started(r)' <=> Started(r)
  BY <1>3, <1>4, <1>5, <1>6 DEF Started, StartedPhases
<1>9. \A r \in Runs : Started(r) =>
        /\ run'[r].phase \in StartedPhases
        /\ run'[r].phase \notin {"forward", "backward"}
        /\ run[r].phase = "ended" => run'[r].phase = "ended"
        /\ run'[r].kind = run[r].kind /\ run'[r].case = run[r].case
        /\ run'[r].id = run[r].id /\ run'[r].step = run[r].step /\ run'[r].i = run[r].i
        /\ run'[r].reached = run[r].reached /\ run'[r].deadLetters = run[r].deadLetters
        /\ run'[r].status = run[r].status /\ run[r].reached \in Nat
  <2>1. SUFFICES ASSUME NEW r \in Runs, Started(r)
                 PROVE  /\ run'[r].phase \in StartedPhases
                        /\ run'[r].phase \notin {"forward", "backward"}
                        /\ run[r].phase = "ended" => run'[r].phase = "ended"
                        /\ run'[r].kind = run[r].kind /\ run'[r].case = run[r].case
                        /\ run'[r].id = run[r].id /\ run'[r].step = run[r].step
                        /\ run'[r].i = run[r].i /\ run'[r].reached = run[r].reached
                        /\ run'[r].deadLetters = run[r].deadLetters
                        /\ run'[r].status = run[r].status /\ run[r].reached \in Nat
    OBVIOUS
  <2>2. run[r].reached \in Nat
    BY <1>2 DEF RunRecord
  <2>3. CASE run[r].phase \in {"forward", "backward"}
    BY <1>3, <2>2, <2>3 DEF StartedPhases
  <2>4. CASE run[r].phase \notin {"forward", "backward"}
    BY <1>5, <2>1, <2>2, <2>4 DEF StartedPhases, Started
  <2> QED
    BY <2>3, <2>4
<1>10. Steady
  BY <1>9 DEF Steady, Follows
<1>11. EngineInv' /\ Processed' = Processed
  BY <1>1, <1>10, EngineStays DEF Inv
<1>12. RequestInv'
  BY <1>1, <1>7, <1>10, RequestsStay DEF Inv, RequestInv
<1>13. PositionInv'
  <2>1. SUFFICES ASSUME NEW r \in Runs, Started(r)
                 PROVE  Placed(run'[r])
    BY <1>8 DEF PositionInv
  <2>2. Placed(run[r])
    BY <2>1 DEF Inv, PositionInv
  <2> DEFINE y == run[r]
             z == run'[r]
  <2>3. /\ z.phase \in StartedPhases /\ z.phase \notin {"forward", "backward"}
        /\ y.phase = "ended" => z.phase = "ended"
        /\ z.kind = y.kind /\ z.status = y.status /\ z.reached = y.reached
    BY <1>9, <2>1
  <2>4. Placed(y)
    BY <2>2
  <2> HIDE DEF y, z
  <2>5. Placed(z)
    BY <2>3, <2>4 DEF Placed, StartedPhases
  <2> QED
    BY <2>5 DEF z
<1>14. ProgressInv'
  <2>1. SUFFICES ASSUME NEW r \in Runs, Started(r)
                 PROVE  Progressed(Processed, r, run'[r])
    BY <1>8, <1>11 DEF ProgressInv
  <2>2. Progressed(Processed, r, run[r])
    BY <2>1 DEF Inv, ProgressInv
  <2> QED
    BY <1>9, <2>1, <2>2 DEF Progressed
<1>15. IdentityInv'
  <2>1. ASSUME NEW r \in Runs, Started(r)
        PROVE  /\ run'[r].id \in AllIds
               /\ run'[r].id[1] = run'[r].kind /\ run'[r].id[2] = run'[r].case
               /\ run'[r].id[3] <= clock'
               /\ run'[r].id[3] = clock' => run'[r].id[4] <= counters'[run'[r].kind]
               /\ run'[r].phase # "ended" =>
                    run'[r].id \in DOMAIN rows' /\ rows'[run'[r].id] \in Active
    <3>1. /\ run[r].id \in AllIds
          /\ run[r].id[1] = run[r].kind /\ run[r].id[2] = run[r].case
          /\ run[r].id[3] <= clock /\ clock \in Nat
          /\ run[r].phase # "ended" => run[r].id \in DOMAIN rows /\ rows[run[r].id] \in Active
      BY <2>1 DEF Inv, IdentityInv, TypeInv
    <3>2. run[r].id[3] \in Nat
      BY <3>1 DEF AllIds
    <3>3. run[r].id[3] <= clock' /\ run[r].id[3] # clock'
      BY <1>1, <3>1, <3>2
    <3>4. /\ run'[r].id = run[r].id /\ run'[r].kind = run[r].kind /\ run'[r].case = run[r].case
          /\ run'[r].phase # "ended" => run[r].phase # "ended"
      BY <1>3, <1>5, <2>1 DEF Started, StartedPhases
    <3> QED
      BY <1>1, <3>1, <3>3, <3>4
  <2>2. \A r, s \in Runs : r # s /\ Started(r) /\ Started(s) => run'[r].id # run'[s].id
    BY <1>9 DEF Inv, IdentityInv
  <2> QED
    BY <1>8, <2>1, <2>2 DEF IdentityInv
<1> QED
  BY <1>7, <1>11, <1>12, <1>13, <1>14, <1>15 DEF Inv

\* Engines learn, and no key twice.
LEMMA EngineLearns ==
    ASSUME Inv, NEW q \in wire,
           Processed' = Processed \union {q},
           engine' = [performed |-> engine'.performed, refused |-> engine'.refused,
                      keys |-> engine.keys \union {KeyOf(q)}, twice |-> {}],
           UNCHANGED <<run, ghosts, wire, rows, counters, clock>>
    PROVE  Inv'
<1>1. TypeInv' /\ IdentityInv' /\ PositionInv'
  BY DEF Inv, TypeInv, IdentityInv, PositionInv, Started
<1>2. RequestInv' /\ (\A u : KeyOf(u)' = KeyOf(u))
  BY DEF Inv, RequestInv, IsWrite, KeyOf, CallOf, CallsOf, StepOf
<1>3. EngineInv'
  <2>1. engine'.keys = {KeyOf(u) : u \in Processed} \union {KeyOf(q)}
    BY DEF Inv, EngineInv
  <2>2. engine'.keys = {KeyOf(u) : u \in Processed'}
    BY <2>1
  <2>3. {KeyOf(u) : u \in Processed}' = {KeyOf(u) : u \in Processed'}
    BY <1>2
  <2>4. Processed' \subseteq wire' /\ engine'.twice = {}
    BY DEF Inv, EngineInv
  <2> QED
    BY <2>2, <2>3, <2>4 DEF EngineInv
<1>4. ProgressInv'
  <2>1. SUFFICES ASSUME NEW r \in Runs, Started(r)
                 PROVE  Progressed(Processed', r, run[r])
    BY DEF ProgressInv, Started
  <2>2. Progressed(Processed, r, run[r])
    BY <2>1 DEF Inv, ProgressInv
  <2> QED
    BY <2>2 DEF Progressed, StepSettled, SettledBefore
<1> QED
  BY <1>1, <1>2, <1>3, <1>4 DEF Inv

LEMMA ArriveKeeps ==
    ASSUME Inv, NEW q \in wire, Arrive(q)
    PROVE  Inv'
<1>1. KeyOf(q) \notin engine.keys
  BY DEF Arrive, Keyed, IsWrite, Inv, RequestInv
<1>2. q \notin engine.performed
  BY <1>1 DEF Inv, EngineInv, Processed
<1>3. /\ engine' = [performed |-> engine.performed \union {q}, refused |-> engine.refused,
                    keys |-> engine.keys \union {KeyOf(q)},
                    twice |-> engine.twice \union ({q} \intersect engine.performed)]
      /\ UNCHANGED <<run, ghosts, wire, rows, counters, clock>>
  BY DEF Arrive, Inv, EngineInv
<1>4. engine.twice \union ({q} \intersect engine.performed) = {}
  BY <1>2 DEF Inv, EngineInv
<1>5. Processed' = Processed \union {q}
  BY <1>3 DEF Processed
<1>6. engine' = [performed |-> engine'.performed, refused |-> engine'.refused,
                 keys |-> engine.keys \union {KeyOf(q)}, twice |-> {}]
  BY <1>3, <1>4
<1> QED
  BY <1>3, <1>5, <1>6, EngineLearns

LEMMA RefuseKeeps ==
    ASSUME Inv, NEW q \in wire, Refuse(q)
    PROVE  Inv'
<1>1. /\ engine' = [performed |-> engine.performed, refused |-> engine.refused \union {q},
                    keys |-> engine.keys \union {KeyOf(q)}, twice |-> engine.twice]
      /\ UNCHANGED <<run, ghosts, wire, rows, counters, clock>>
  BY DEF Refuse, Inv, EngineInv
<1>2. engine.twice = {}
  BY DEF Inv, EngineInv
<1>3. Processed' = Processed \union {q}
  BY <1>1 DEF Processed
<1>4. engine' = [performed |-> engine'.performed, refused |-> engine'.refused,
                 keys |-> engine.keys \union {KeyOf(q)}, twice |-> {}]
  BY <1>1, <1>2
<1> QED
  BY <1>1, <1>3, <1>4, EngineLearns

\* Ghosts go on with what their runs had made, or are gone.
LEMMA GhostsMove ==
    ASSUME Inv, NEW q \in ghosts, GhostGoesOn(q) \/ GhostFails(q)
    PROVE  Inv'
<1> DEFINE p == Next1(q)
<1>1. UNCHANGED <<run, engine, rows, counters, clock>>
  BY DEF GhostGoesOn, GhostFails
<1>2. q \in RequestSet /\ Made(q, run[q.run])
  BY DEF Inv, RequestInv
<1>3. /\ p.run = q.run /\ p.dir = q.dir /\ p.step = q.step /\ p.i = q.i + 1 /\ p \in RequestSet
  BY <1>2 DEF Next1, RequestSet
<1>4. \/ ghosts' \subseteq ghosts /\ wire' = wire
      \/ /\ q.i < Len(CallsOf(q)) /\ ghosts' \subseteq ghosts \union {p} /\ Sent(p)
  BY DEF GhostGoesOn, GhostFails
<1> HIDE DEF p
<1>5. q.i < Len(CallsOf(q)) => Made(p, run[p.run])
  <2>1. q.run \in Runs /\ q.dir \in {"do", "undo"} /\ q.i \in Nat
    BY <1>2 DEF RequestSet
  <2>2. run[q.run].kind \in BusinessSagaKind
    BY <1>2, <2>1 DEF Inv, TypeInv, Made, StartedPhases
  <2>3. Len(CallsIn(run[q.run].kind, q.dir, q.step)) \in Nat
    BY <1>2, <2>1, <2>2, CallsOfStep DEF Made
  <2>4. CallsOf(q) = CallsIn(run[q.run].kind, q.dir, q.step)
    BY CallsOfRequest
  <2> QED
    BY <1>2, <1>3, <2>1, <2>3, <2>4 DEF Made
<1>6. Steady
  BY <1>1 DEF Steady, Follows, Inv, TypeInv, RunRecord, Started
<1>7. /\ TypeInv' /\ IdentityInv' /\ PositionInv'
  BY <1>1 DEF Inv, TypeInv, IdentityInv, PositionInv, Started
<1>8. /\ wire \subseteq wire' /\ wire' \subseteq RequestSet /\ ghosts' \subseteq RequestSet
      /\ \A u \in wire' : u \notin wire => Made(u, run'[u.run]) /\ IsWrite(u)'
      /\ \A u \in ghosts' : u \notin ghosts => Made(u, run'[u.run])
  <2>1. wire \subseteq RequestSet /\ ghosts \subseteq RequestSet
    BY DEF Inv, RequestInv
  <2>2. IsWrite(p)' <=> IsWrite(p)
    BY <1>1 DEF IsWrite, CallOf, CallsOf, StepOf
  <2>3. CASE ghosts' \subseteq ghosts /\ wire' = wire
    BY <2>1, <2>3
  <2>4. CASE q.i < Len(CallsOf(q)) /\ ghosts' \subseteq ghosts \union {p} /\ Sent(p)
    <3>1. Made(p, run'[p.run])
      BY <1>1, <1>5, <2>4
    <3>2. \/ wire' = wire
          \/ wire' = wire \union {p} /\ IsWrite(p)
      BY <2>4 DEF Sent
    <3> QED
      BY <1>3, <2>1, <2>2, <2>4, <3>1, <3>2
  <2> QED
    BY <1>4, <2>3, <2>4
<1>9. RequestInv'
  BY <1>6, <1>7, <1>8, RequestsStay DEF Inv
<1>10. EngineInv' /\ Processed' = Processed
  BY <1>1, <1>6, <1>8, EngineStays DEF Inv
<1>11. ProgressInv'
  BY <1>1, <1>10 DEF Inv, ProgressInv, Started
<1> QED
  BY <1>7, <1>9, <1>10, <1>11 DEF Inv

-----------------------------------------------------------------------------
(***************************************************************************)
(* The invariant holds, and what follows from it.                          *)
(***************************************************************************)
LEMMA InitEstablishes ==
    ASSUME Init
    PROVE  Inv
<1>1. \A r \in Runs : run[r] = Fresh
  BY DEF Init
<1>2. /\ Fresh.phase = "idle" /\ RunRecord(Fresh)
  BY DEF Fresh, RunRecord, Phases
<1>3. TypeInv
  BY <1>1, <1>2 DEF Init, TypeInv
<1>4. \A r \in Runs : ~Started(r)
  BY <1>1, <1>2 DEF Started, StartedPhases
<1>5. IdentityInv /\ PositionInv /\ ProgressInv
  BY <1>4 DEF IdentityInv, PositionInv, ProgressInv
<1>6. RequestInv
  BY DEF Init, RequestInv
<1>7. Processed = {} /\ engine.keys = {} /\ engine.twice = {}
  BY DEF Init, Processed
<1>8. EngineInv
  BY <1>7 DEF Init, EngineInv
<1> QED
  BY <1>3, <1>5, <1>6, <1>8 DEF Inv

LEMMA StutterKeeps ==
    ASSUME Inv, UNCHANGED vars
    PROVE  Inv'
<1>1. UNCHANGED <<run, ghosts, wire, engine, rows, counters, clock>>
  BY DEF vars
<1>2. TypeInv' /\ IdentityInv' /\ PositionInv'
  BY <1>1 DEF Inv, TypeInv, IdentityInv, PositionInv, Started
<1>3. Steady
  BY <1>1 DEF Steady, Follows, Inv, TypeInv, RunRecord, Started
<1>4. RequestInv' /\ EngineInv' /\ Processed' = Processed
  BY <1>1, <1>2, <1>3, RequestsStay, EngineStays DEF Inv, RequestInv
<1>5. ProgressInv'
  BY <1>1, <1>4 DEF Inv, ProgressInv, Started
<1> QED
  BY <1>2, <1>4, <1>5 DEF Inv

\* What holds at every moment of every execution: ids are drawn once, runs are where
\* their plan says, requests were made by runs, and what runs have behind them was
\* processed.
THEOREM InvariantHolds == Spec => []Inv
<1>1. Init => Inv
  BY InitEstablishes
<1>2. Inv /\ [Next]_vars => Inv'
  <2>1. SUFFICES ASSUME Inv, [Next]_vars
                 PROVE  Inv'
    OBVIOUS
  <2>2. ASSUME NEW r \in Runs, RunStep(r)
        PROVE  Inv'
    BY <2>1, <2>2, CheckKeeps, RunForCaseKeeps, BeginStepKeeps, CallSucceedsKeeps,
       StepFailsKeeps, CheckRefusesKeeps, CloseKeeps, SaveFailsKeeps DEF RunStep
  <2>3. ASSUME NEW q \in wire, Arrive(q) \/ Refuse(q)
        PROVE  Inv'
    BY <2>1, <2>3, ArriveKeeps, RefuseKeeps
  <2>4. ASSUME NEW q \in ghosts, GhostGoesOn(q) \/ GhostFails(q)
        PROVE  Inv'
    BY <2>1, <2>4, GhostsMove
  <2>5. CASE Restart
    BY <2>1, <2>5, RestartKeeps
  <2>6. CASE UNCHANGED vars
    BY <2>1, <2>6, StutterKeeps
  <2> QED
    BY <2>1, <2>2, <2>3, <2>4, <2>5, <2>6 DEF Next
<1> QED
  BY <1>1, <1>2, PTL DEF Spec

\* Runs can be told apart, and those that act are listed by the coordination: a saga id
\* is drawn once, over restarts too, and its row stays active until its last save.
THEOREM RunsAreToldApart == Spec => []RunsAreIdentified
<1>1. Inv => RunsAreIdentified
  <2>1. SUFFICES ASSUME Inv
                 PROVE  RunsAreIdentified
    OBVIOUS
  <2>2. ActiveRunsAreListed
    <3>1. SUFFICES ASSUME NEW r \in Runs, run[r].phase \in {"forward", "backward", "lost"}
                   PROVE  run[r].id \in ActiveSagas(run[r].case, BusinessSagaKind)
      BY DEF ActiveRunsAreListed
    <3>2. /\ run[r].id \in DOMAIN rows /\ rows[run[r].id] \in Active
          /\ run[r].id[1] = run[r].kind /\ run[r].id[2] = run[r].case
      BY <2>1, <3>1 DEF Inv, IdentityInv, Started, StartedPhases
    <3>3. run[r].kind \in BusinessSagaKind
      BY <2>1, <3>1 DEF Inv, TypeInv
    <3> QED
      BY <3>2, <3>3 DEF ActiveSagas, ListIncomplete
  <2>3. \A r \in Runs : ~Started(r) => run[r].id = None
    BY <2>1 DEF Inv, TypeInv, RunRecord, Started, StartedPhases, Phases, Fresh
  <2>4. RunsHaveTheirOwnKeys
    BY <2>1, <2>3 DEF Inv, IdentityInv, RunsHaveTheirOwnKeys
  <2> QED
    BY <2>2, <2>4 DEF RunsAreIdentified
<1> QED
  BY <1>1, InvariantHolds, PTL

\* Retries, late arrivals and loops left behind do nothing twice, and engines undo only
\* what they had been asked to do.
THEOREM EffectsActOnce == Spec => []EffectsOnce
<1>1. Inv => EffectsOnce
  <2>1. SUFFICES ASSUME Inv
                 PROVE  EffectsOnce
    OBVIOUS
  <2>2. engine.twice = {}
    BY <2>1 DEF Inv, EngineInv
  <2>3. ASSUME NEW q \in engine.performed, q.dir = "undo"
        PROVE  [q EXCEPT !.dir = "do"] \in Processed
    <3> DEFINE y == run[q.run]
    <3>1. q \in RequestSet /\ Made(q, y)
      BY <2>1 DEF Inv, EngineInv, RequestInv, Processed
    <3>2. q.run \in Runs /\ q.step \in Nat /\ q.i \in Nat /\ Started(q.run)
      BY <3>1 DEF RequestSet, Made, Started
    <3>3. y.kind \in BusinessSagaKind /\ y.reached \in Nat /\ Progressed(Processed, q.run, y)
      BY <2>1, <3>2 DEF Inv, TypeInv, RunRecord, ProgressInv, Started, StartedPhases
    <3>4. q.step \in 1 .. y.reached /\ q.step \in 1 .. Len(Plan(y.kind))
      BY <2>3, <3>1, <3>2, <3>3 DEF Made
    <3>5. q.i \in 1 .. Len(CallsIn(y.kind, "undo", q.step))
      BY <2>3, <3>1 DEF Made
    <3>6. /\ q.i \in 1 .. Len(CallsIn(y.kind, "do", q.step))
          /\ CallsIn(y.kind, "do", q.step)[q.i].method \in Writes
      BY <3>3, <3>4, <3>5, CallsOfStep
    <3>7. RequestOf(q.run, "do", q.step, q.i) \in Processed
      BY <3>3, <3>4, <3>6 DEF Progressed, StepSettled
    <3>8. [q EXCEPT !.dir = "do"] = RequestOf(q.run, "do", q.step, q.i)
      BY <3>1 DEF RequestSet, RequestOf
    <3> QED
      BY <3>7, <3>8
  <2> QED
    BY <2>2, <2>3 DEF EffectsOnce
<1> QED
  BY <1>1, InvariantHolds, PTL

\* What a saga reports is true of the engines: completed, and every write of its plan
\* was processed and none taken back; compensated, and every write of the steps that
\* had succeeded was taken back.
THEOREM OutcomesAreTrue == Spec => []OutcomeIsTrueOfEngines
<1>1. Inv => OutcomeIsTrueOfEngines
  <2>1. SUFFICES ASSUME Inv, NEW r \in Runs
                 PROVE  /\ run[r].status = "completed" =>
                             \A q \in Planned(r) : q \in Processed /\ ~Undone(q)
                        /\ run[r].status = "compensated" =>
                             \A q \in WritesOf(r, 1 .. run[r].reached) : Undone(q)
    BY DEF OutcomeIsTrueOfEngines
  <2> DEFINE y == run[r]
  <2>2. ASSUME y.status \in {"completed", "compensated"}
        PROVE  /\ Started(r) /\ Placed(y) /\ Progressed(Processed, r, y)
               /\ y.kind \in BusinessSagaKind /\ y.reached \in Nat
    <3>1. Started(r)
      BY <2>1, <2>2, NoneAssumption
      DEF Inv, TypeInv, RunRecord, Started, StartedPhases, Phases, Fresh
    <3> QED
      BY <2>1, <3>1
      DEF Inv, TypeInv, RunRecord, PositionInv, ProgressInv, Started, StartedPhases
  <2>3. \A q \in Processed : q \in RequestSet /\ Made(q, run[q.run]) /\ IsWrite(q)
    BY <2>1 DEF Inv, EngineInv, RequestInv
  <2>4. ASSUME y.status = "completed", NEW q \in Planned(r)
        PROVE  q \in Processed /\ ~Undone(q)
    <3>1. PICK s \in 1 .. Len(Plan(y.kind)), i \in 1 .. Targets + Checks + 1 :
            q = RequestOf(r, "do", s, i)
      BY DEF Planned, PlanOf, RequestOf
    <3>2. i \in DOMAIN CallsIn(y.kind, "do", s) /\ IsWrite(q)
      BY <3>1, CallsOfRequest DEF Planned, RequestOf
    <3>3. i \in 1 .. Len(CallsIn(y.kind, "do", s))
      BY <2>2, <2>4, <3>2, CallsOfStep
    <3>4. CallsIn(y.kind, "do", s)[i].method \in Writes
      BY <3>1, <3>2, CallsOfRequest DEF IsWrite, RequestOf
    <3>5. s \in 1 .. y.reached
      BY <2>2, <2>4 DEF Placed
    <3>6. q \in Processed
      BY <2>2, <2>4, <3>1, <3>3, <3>4, <3>5 DEF Progressed, StepSettled
    <3>7. [q EXCEPT !.dir = "undo"] = RequestOf(r, "undo", s, i)
      BY <3>1 DEF RequestOf
    <3>8. ~Made(RequestOf(r, "undo", s, i), y)
      BY <2>4 DEF Made, RequestOf
    <3>9. RequestOf(r, "undo", s, i).run = r
      BY DEF RequestOf
    <3>10. ~Undone(q)
      BY <2>3, <3>7, <3>8, <3>9 DEF Undone
    <3> QED
      BY <3>6, <3>10
  <2>5. ASSUME y.status = "compensated", NEW q \in WritesOf(r, 1 .. y.reached)
        PROVE  Undone(q)
    <3>1. PICK s \in 1 .. y.reached, i \in 1 .. Targets + Checks + 1 :
            q = RequestOf(r, "do", s, i)
      BY DEF WritesOf, RequestOf
    <3>2. q \in wire
      BY DEF WritesOf
    <3>3. Made(q, run[q.run]) /\ IsWrite(q) /\ q.run = r
      BY <2>1, <3>1, <3>2 DEF Inv, RequestInv, RequestOf
    <3>4. /\ s \in 1 .. Len(Plan(y.kind)) /\ i \in 1 .. Len(CallsIn(y.kind, "do", s))
      BY <3>1, <3>3 DEF Made, RequestOf
    <3>5. CallsIn(y.kind, "do", s)[i].method \in Writes
      BY <3>1, <3>3, CallsOfRequest DEF IsWrite, RequestOf
    <3>6. /\ i \in 1 .. Len(CallsIn(y.kind, "undo", s))
          /\ CallsIn(y.kind, "undo", s)[i].method \in Writes
      BY <2>2, <2>5, <3>4, <3>5, CallsOfStep
    <3>7. RequestOf(r, "undo", s, i) \in Processed
      BY <2>2, <2>5, <3>1, <3>6 DEF Progressed, StepSettled
    <3>8. [q EXCEPT !.dir = "undo"] = RequestOf(r, "undo", s, i)
      BY <3>1 DEF RequestOf
    <3> QED
      BY <3>7, <3>8 DEF Undone
  <2> QED
    BY <2>4, <2>5
<1> QED
  BY <1>1, InvariantHolds, PTL
=============================================================================
