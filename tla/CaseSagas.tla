------------------------------- MODULE CaseSagas -------------------------------
(***************************************************************************)
(* Business sagas over the engines: callers that check a case for active   *)
(* sagas and then run one, the loops of its steps, engines that perform a  *)
(* request once per idempotency key, and the rows the coordination reads.  *)
(*                                                                         *)
(* A request that was sent may arrive at any later time and any number of  *)
(* times: the HTTP engine retries it, and an attempt that timed out is     *)
(* still on its way.  A call answers ok after its request was performed,   *)
(* and may fail at any time (lost answer, unreadable answer, open breaker).*)
(* The orchestrator is at the granularity of its steps here; its saves and *)
(* timers are those of SagaOrchestrator.  A step whose timer elapsed is    *)
(* failed and its loop goes on, watched by no one (a ghost).               *)
(*                                                                         *)
(* Operators whose comment starts with "Faulty:" are not part of the       *)
(* specification.                                                          *)
(***************************************************************************)
EXTENDS SagaPlans, FiniteSets

CONSTANTS
    Runs,           \* calls of runForCase, each after its check of the case
    Cases,
    KindsOf,        \* the sagas each caller may ask for
    None,
    RefusalBound,   \* bound of the model: requests that engines refuse
    RestartBound    \* bound of the model: restarts of the process

ASSUME CallersAssumption == \A r \in Runs : KindsOf[r] \subseteq BusinessSagaKind

ASSUME NoneAssumption == None \notin {"completed", "compensated"}

VARIABLES
    run,        \* where each call is
    ghosts,     \* loops of steps that have timed out
    wire,       \* requests that were sent
    engine,     \* performed: requests that took effect; refused; keys: seen; twice
    rows,       \* the saga state store: saga id -> overallStatus
    counters,   \* invocationCounter of each saga module
    clock       \* the millisecond, as far as restarts tell it apart

vars == <<run, ghosts, wire, engine, rows, counters, clock>>

\* found: the answer of the check; id: the saga id; step, i: the call in hand
\* (i = 0: between two steps); reached: steps that have succeeded.
Fresh == [phase |-> "idle", kind |-> None, case |-> None, id |-> None, step |-> 0,
          i |-> 0, reached |-> 0, failedAt |-> 0, deadLetters |-> FALSE,
          output |-> {}, status |-> None]

Ids == BusinessSagaKind \X Cases \X (0 .. RestartBound) \X (1 .. Cardinality(Runs))

Active == {"in_progress", "compensating"}
Final == {"completed", "compensated", "partially_compensated"}

Requests == [run : Runs, dir : {"do", "undo"}, step : 1 .. 5, i : Nat]

TypeOK ==
    /\ \A r \in Runs :
         /\ run[r].phase \in {"idle", "clear", "forward", "backward", "closing", "ended",
                              "lost"}
         /\ run[r].kind \in BusinessSagaKind \union {None}
         /\ run[r].case \in Cases \union {None}
         /\ run[r].id \in Ids \union {None}
         /\ run[r].reached \in 0 .. 5 /\ run[r].step \in 0 .. 6
         /\ run[r].status \in Final \union {"error", None}
         /\ run[r].phase \in {"closing", "ended"} => run[r].status # None
    /\ ghosts \union wire \subseteq Requests
    /\ engine.performed \union engine.refused \subseteq wire /\ engine.twice \subseteq wire
    /\ \A id \in DOMAIN rows : id \in Ids /\ rows[id] \in Active \union Final
    /\ counters \in [BusinessSagaKind -> 0 .. Cardinality(Runs)]
    /\ clock \in 0 .. RestartBound

Init ==
    /\ run = [r \in Runs |-> Fresh]
    /\ ghosts = {} /\ wire = {}
    /\ engine = [performed |-> {}, refused |-> {}, keys |-> {}, twice |-> {}]
    /\ rows = <<>>
    /\ counters = [k \in BusinessSagaKind |-> 0] /\ clock = 0

-----------------------------------------------------------------------------
(***************************************************************************)
(* Requests and engines.                                                   *)
(***************************************************************************)
StepOf(q) == Plan(run[q.run].kind)[q.step]

\* The calls of the loop that q belongs to, and the call that q makes.
CallsOf(q) == IF q.dir = "do" THEN StepOf(q).calls ELSE StepOf(q).undo
CallOf(q) == CallsOf(q)[q.i]

\* Faulty: the iterations of a loop share their key.
KeyWithoutIndex(q) == <<run[q.run].id, CallOf(q).tag>>

\* "<kind>:<case>:<stamp>:<tag>", and ":<i>" in a loop.
KeyOf(q) == <<run[q.run].id, CallOf(q).tag, CallOf(q).i>>

\* Faulty: cancelOrder leaves the key out of its payload.
KeyedButCancel(q) == CallOf(q).method \in Writes \ {"cancelOrder"}

\* Whether the adapter puts the key into the payload.
Keyed(q) == CallOf(q).method \in Writes

IsWrite(q) == CallOf(q).method \in Writes

\* callWithTrace: a write goes on the wire.
Sent(q) == wire' = IF IsWrite(q) THEN wire \union {q} ELSE wire

\* The engine knows the key, or has done the work.
Answered(q) ==
    \/ ~IsWrite(q)
    \/ q \in engine.performed \union engine.refused
    \/ Keyed(q) /\ KeyOf(q) \in engine.keys

Arrive(q) ==
    /\ ~(Keyed(q) /\ KeyOf(q) \in engine.keys)
    /\ engine' = [engine EXCEPT !.performed = @ \union {q},
                                !.keys = @ \union {KeyOf(q)},
                                !.twice = @ \union ({q} \intersect engine.performed)]
    /\ UNCHANGED <<run, ghosts, wire, rows, counters, clock>>

\* The engine answers that it will not do the work: the order was rejected, the
\* transfer failed.
Refuse(q) ==
    /\ Refusable(CallOf(q).method) /\ Cardinality(engine.refused) < RefusalBound
    /\ KeyOf(q) \notin engine.keys
    /\ engine' = [engine EXCEPT !.refused = @ \union {q}, !.keys = @ \union {KeyOf(q)}]
    /\ UNCHANGED <<run, ghosts, wire, rows, counters, clock>>

-----------------------------------------------------------------------------
(***************************************************************************)
(* Cross-saga coordination and the saga state stores.                      *)
(***************************************************************************)
\* Faulty: sagas that compensate are not listed.
ListInProgress == {id \in DOMAIN rows : rows[id] = "in_progress"}

ListIncomplete == {id \in DOMAIN rows : rows[id] \in Active}

\* Every saga id of this program parses, into its kind and its case.
ActiveSagas(case, filter) == {id \in ListIncomplete : id[2] = case /\ id[1] \in filter}

Save(id, status) ==
    rows' = [x \in DOMAIN rows \union {id} |-> IF x = id THEN status ELSE rows[x]]

\* checkActiveSagaForCase, for sagas of the caller's kind or of all; a caller that
\* is told of a saga, or of an error of the store, does not go on.
Check(r) ==
    /\ run[r].phase = "idle"
    /\ \E kind \in KindsOf[r], case \in Cases,
          filter \in {BusinessSagaKind} \union {{k} : k \in BusinessSagaKind} :
         /\ kind \in filter /\ ActiveSagas(case, filter) = {}
         /\ run' = [run EXCEPT ![r].phase = "clear", ![r].kind = kind, ![r].case = case]
    /\ UNCHANGED <<ghosts, wire, engine, rows, counters, clock>>

-----------------------------------------------------------------------------
(***************************************************************************)
(* A run.                                                                  *)
(***************************************************************************)
PlanOf(r) == Plan(run[r].kind)
Current(r) == [run |-> r, dir |-> IF run[r].phase = "forward" THEN "do" ELSE "undo",
               step |-> run[r].step, i |-> run[r].i]
Next1(q) == [q EXCEPT !.i = @ + 1]

\* Faulty: the stamp is the clock alone.
StampFromClock(kind) == <<clock, 1>>

\* generateInvocationStamp of the module of the kind.
InvocationStamp(kind) == <<clock, counters[kind] + 1>>

Counted(kind) == [counters EXCEPT ![kind] = @ + 1]

\* runForCase draws the stamp and runSaga saves its first row.
RunForCase(r) ==
    LET kind == run[r].kind
        stamp == InvocationStamp(kind)
        id == <<kind, run[r].case, stamp[1], stamp[2]>>
    IN
    /\ run[r].phase = "clear"
    /\ counters' = Counted(kind)
    /\ Save(id, "in_progress")
    /\ run' = [run EXCEPT ![r].phase = "forward", ![r].id = id, ![r].step = 1]
    /\ UNCHANGED <<ghosts, wire, engine, clock>>

InStep(r) == run[r].phase \in {"forward", "backward"} /\ run[r].step \in 1 .. Len(PlanOf(r))

\* The run record after the step of r has succeeded.
Advanced(r) ==
    IF run[r].phase = "backward" THEN [run[r] EXCEPT !.step = @ - 1, !.i = 0]
    ELSE [run[r] EXCEPT !.step = @ + 1, !.i = 0, !.reached = @ + 1,
                        !.output = OutputOf(StepOf(Current(r)), @)]

\* The first call of a loop is sent; without one the step is done.
BeginStep(r) ==
    /\ InStep(r) /\ run[r].i = 0
    /\ IF CallsOf(Current(r)) = <<>>
       THEN run' = [run EXCEPT ![r] = Advanced(r)] /\ UNCHANGED wire
       ELSE run' = [run EXCEPT ![r].i = 1] /\ Sent(Next1(Current(r)))
    /\ UNCHANGED <<ghosts, engine, rows, counters, clock>>

InCall(r) == InStep(r) /\ run[r].i > 0

\* The answer is ok: the loop sends its next call, or the step is done.
CallSucceeds(r) ==
    /\ InCall(r) /\ Answered(Current(r))
    /\ IF run[r].i < Len(CallsOf(Current(r)))
       THEN run' = [run EXCEPT ![r].i = @ + 1] /\ Sent(Next1(Current(r)))
       ELSE run' = [run EXCEPT ![r] = Advanced(r)] /\ UNCHANGED wire
    /\ UNCHANGED <<ghosts, engine, rows, counters, clock>>

\* The step fails, in a call that answers an error or by its timer; then a loop
\* with calls to come stays behind.  A failed execute turns the saga round, a failed
\* compensate is a dead letter.
StepFails(r) ==
    /\ InCall(r)
    /\ \/ UNCHANGED ghosts
       \/ /\ run[r].i < Len(CallsOf(Current(r)))
          /\ ghosts' = ghosts \union {Current(r)}
    /\ IF run[r].phase = "forward"
       THEN /\ run' = [run EXCEPT ![r].phase = "backward", ![r].step = run[r].reached,
                                  ![r].failedAt = run[r].i, ![r].i = 0]
            /\ Save(run[r].id, "compensating")
       ELSE /\ run' = [run EXCEPT ![r].step = @ - 1, ![r].i = 0, ![r].deadLetters = TRUE]
            /\ UNCHANGED rows
    /\ UNCHANGED <<wire, engine, counters, clock>>

\* A business check refuses: an illegal transition, a precondition not met.
CheckRefuses(r) ==
    /\ run[r].phase = "forward" /\ run[r].kind = "state-transition"
    /\ \/ run[r].step = 1
       \/ run[r].step = 2 /\ run[r].i > 0
    /\ run' = [run EXCEPT ![r].phase = "backward", ![r].step = run[r].reached,
                          ![r].i = 0]
    /\ Save(run[r].id, "compensating")
    /\ UNCHANGED <<ghosts, wire, engine, counters, clock>>

\* The phases are over; the last save says how.
Close(r) ==
    LET status == IF run[r].phase = "forward" THEN "completed"
                  ELSE IF run[r].deadLetters THEN "partially_compensated"
                  ELSE "compensated"
    IN
    /\ run[r].phase \in {"forward", "backward"} /\ run[r].i = 0
    /\ run[r].step \notin 1 .. Len(PlanOf(r))
    /\ Save(run[r].id, status)
    /\ run' = [run EXCEPT ![r].phase = "ended", ![r].status = status]
    /\ UNCHANGED <<ghosts, wire, engine, counters, clock>>

\* A save fails: runForCase returns TQ-SAG-002 and the row stays as it was.
SaveFails(r) ==
    /\ run[r].phase \in {"forward", "backward"} /\ run[r].i = 0
    /\ run' = [run EXCEPT ![r].phase = "ended", ![r].status = "error"]
    /\ UNCHANGED <<ghosts, wire, engine, rows, counters, clock>>

-----------------------------------------------------------------------------
(***************************************************************************)
(* Loops left behind, and restarts.                                        *)
(***************************************************************************)

\* The call of a ghost returns: its loop issues the next call, or is over.
GhostGoesOn(q) ==
    /\ Answered(q)
    /\ IF q.i < Len(CallsOf(q))
       THEN ghosts' = (ghosts \ {q}) \union {Next1(q)} /\ Sent(Next1(q))
       ELSE ghosts' = ghosts \ {q} /\ UNCHANGED wire
    /\ UNCHANGED <<run, engine, rows, counters, clock>>

GhostFails(q) ==
    /\ ghosts' = ghosts \ {q}
    /\ UNCHANGED <<run, wire, engine, rows, counters, clock>>

\* The process ends and is started again, later: counters start over, rows stay.
Restart ==
    /\ clock < RestartBound
    /\ clock' = clock + 1
    /\ counters' = [k \in BusinessSagaKind |-> 0] /\ ghosts' = {}
    /\ run' = [r \in Runs |-> IF run[r].phase \in {"forward", "backward"}
                              THEN [run[r] EXCEPT !.phase = "lost"]
                              ELSE IF run[r].phase = "clear" THEN Fresh ELSE run[r]]
    /\ UNCHANGED <<wire, engine, rows>>

RunStep(r) ==
    \/ Check(r) \/ RunForCase(r) \/ BeginStep(r) \/ CallSucceeds(r)
    \/ StepFails(r) \/ CheckRefuses(r) \/ Close(r) \/ SaveFails(r)

Next ==
    \/ \E r \in Runs : RunStep(r)
    \/ \E q \in wire : Arrive(q) \/ Refuse(q)
    \/ \E q \in ghosts : GhostGoesOn(q) \/ GhostFails(q)
    \/ Restart

Spec == Init /\ [][Next]_vars

-----------------------------------------------------------------------------
(* Properties *)

WritesOf(r, steps) ==
    {[run |-> r, dir |-> "do", step |-> s, i |-> i] :
        s \in steps, i \in 1 .. Targets + Checks + 1}
      \intersect {q \in wire : q.run = r}

Processed == engine.performed \union engine.refused
Undone(q) == [q EXCEPT !.dir = "undo"] \in Processed

\* The writes of the plan of r.
Planned(r) ==
    {q \in {[run |-> r, dir |-> "do", step |-> s, i |-> i] :
                s \in 1 .. Len(PlanOf(r)), i \in 1 .. Targets + Checks + 1} :
        q.i \in DOMAIN CallsOf(q) /\ IsWrite(q)}

\* What a saga reports is true of the engines, through retries, lost answers and
\* loops left behind: completed, and every write of the plan was processed and was
\* not taken back; compensated, and every write of a step that succeeded was taken
\* back.
OutcomeIsTrueOfEngines ==
    \A r \in Runs :
        /\ run[r].status = "completed" =>
             \A q \in Planned(r) : q \in Processed /\ ~Undone(q)
        /\ run[r].status = "compensated" =>
             \A q \in WritesOf(r, 1 .. run[r].reached) : Undone(q)

\* No request takes effect twice, and nothing is undone that was not asked for,
\* although requests are repeated and arrive late.
EffectsOnce ==
    /\ engine.twice = {}
    /\ \A q \in engine.performed :
         q.dir = "undo" => [q EXCEPT !.dir = "do"] \in Processed

\* The coordination sees every saga that is under way, in both of its phases: one
\* that calls engines, or will, is in the answer for its case.
ActiveRunsAreListed ==
    \A r \in Runs :
        run[r].phase \in {"forward", "backward", "lost"} =>
            run[r].id \in ActiveSagas(run[r].case, BusinessSagaKind)

\* A saga id is drawn once, over restarts too: no two runs have a row, or the
\* idempotency keys derived from it, in common.
RunsHaveTheirOwnKeys ==
    \A r, s \in Runs : r # s /\ run[r].id # None => run[r].id # run[s].id

\* Runs can be told apart, and those that act can be seen: what the coordination of
\* sagas and the idempotency of engine calls both rest on.
RunsAreIdentified == ActiveRunsAreListed /\ RunsHaveTheirOwnKeys
=============================================================================
