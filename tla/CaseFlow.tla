------------------------------- MODULE CaseFlow -------------------------------
(***************************************************************************)
(* CoreCaseFlowCommandHandler: one risk case with the liquidation and ADL  *)
(* cases derived from it.  A command reads and writes its repositories one *)
(* await after another; at each of them the others run, the call may fail, *)
(* a write that fails may have landed, and the process may be restarted,   *)
(* which empties the registry of coordination results but not the stores.  *)
(*                                                                         *)
(* A coordination result is known by its fact key, the subcase and the     *)
(* time of the signal.  Times are those that the commands carry.           *)
(*                                                                         *)
(* The code takes no lock on a case and saves without a condition, so a    *)
(* command may save over what another saved after it had read.  stale,     *)
(* raced and reopened are history: they record where that has happened,    *)
(* no guard reads them, and the properties say that nothing else excuses a *)
(* case that is not as it should be.                                       *)
(*                                                                         *)
(* Operators whose comment starts with "Faulty:" are not part of the       *)
(* specification.                                                          *)
(***************************************************************************)
EXTENDS CaseRules, Functions, FiniteSetsExt

CONSTANTS
    Callers,        \* commands that can be open at once
    Liquidations,   \* ids of liquidation cases
    Adls,           \* ids of ADL cases
    Versions,       \* config versions of commands
    None,
    Horizon,        \* bound of the model: times of commands
    CommandBound    \* bound of the model: how many commands are issued

Subs == Liquidations \union Adls
Times == 0 .. Horizon

ASSUME CasesAssumption ==
    /\ Liquidations \intersect Adls = {} /\ None \notin Subs
    /\ \E v \in Versions : \A w \in Versions : v <= w
    /\ Horizon \in Nat /\ CommandBound \in Nat

VARIABLES
    risk,       \* the risk case in its repository
    sub,        \* the subcases in theirs, or None
    registry,   \* coordinationResultRegistry: fact key -> fact, in memory
    store,      \* coordinationResultStore: fact key -> fact
    call,       \* where each command is
    left,       \* how many commands can still be issued
    reported,   \* subcases whose last terminal signal was answered with an error
    stale,      \* open commands that hold what another has since saved over
    raced,      \* subcases whose last save crossed another command
    reopened    \* whether a risk case that was over has been saved over as active

history == <<stale, raced, reopened>>
coreVars == <<risk, sub, registry, store, call, left, reported, history>>

KindOf(s) == IF s \in Liquidations THEN "LiquidationCase" ELSE "ADLCase"

Actions(kind) == {rule[2] : rule \in SubcaseRules(kind)}
RiskActions == {rule[2] : rule \in RiskRules}

Facts == [action : RiskCaseResolutionAction, after : CaseState, auditAt : Times,
          decision : {"applied", "deferred", "rejected", "ignored", "duplicate"}]
Keys == Subs \X Times

Cases(states) == [state : states, at : Times, version : Versions]

Awaits == {"loadSub", "loadRisk", "saveSub", "listLiquidations", "listAdls", "saveRisk",
           "lookup", "put"}

\* own, parent: the subcase and the risk case as the command has read or changed
\* them; seen: states of the subcases it has listed.
Idle == [at |-> "idle", op |-> None, sub |-> None, action |-> None, t |-> 0, version |-> 0,
         own |-> None, parent |-> None, seen |-> <<>>, fact |-> None]

CoreTypeOK ==
    /\ risk \in Cases(CaseState)
    /\ \A s \in Subs : sub[s] \in Cases(SubcaseStates(KindOf(s))) \union {None}
    /\ DOMAIN registry \union DOMAIN store \subseteq Keys
    /\ Range(registry) \union Range(store) \subseteq Facts
    /\ \A c \in Callers :
         /\ call[c].at \in Awaits \union {"idle"}
         /\ call[c].at \in {"listLiquidations", "listAdls", "lookup", "put"} =>
              IsTerminalSubcaseState(call[c].own.state)
         /\ call[c].at \in {"lookup", "put"} => call[c].fact \in Facts
         /\ DOMAIN call[c].seen \subseteq Subs
    /\ left \in 0 .. CommandBound /\ reported \subseteq Subs
    /\ stale \subseteq Callers /\ raced \subseteq Subs /\ reopened \in BOOLEAN

\* A risk case that has been classified, with subcases in any state they may have
\* while it is active, or to come.
CoreInit ==
    /\ risk \in [state : AllowSpecialCaseTransition, at : {0}, version : {Min(Versions)}]
    /\ sub \in [Subs -> Cases({"Initiated", "InProgress", "Queued"}) \union {None}]
    /\ \A s \in Subs :
         sub[s] # None => sub[s].at = 0 /\ sub[s].state \in SubcaseStates(KindOf(s))
    /\ registry = <<>> /\ store = <<>> /\ reported = {}
    /\ call = [c \in Callers |-> Idle] /\ left = CommandBound
    /\ stale = {} /\ raced = {} /\ reopened = FALSE

-----------------------------------------------------------------------------
(***************************************************************************)
(* Answers.                                                                *)
(***************************************************************************)
KeyOf(c) == <<call[c].sub, call[c].t>>

GoTo(c, r) == call' = [call EXCEPT ![c] = r]

\* The command is over.  An error after its subcase became terminal, or the success
\* of a coordination, is what the caller knows of the subcase from then on; the success
\* of one that is stale says nothing of a newer signal, and takes no error back.
Succeed(c) ==
    /\ GoTo(c, Idle)
    /\ reported' = IF call[c].at \in {"lookup", "put"} /\ c \notin stale
                   THEN reported \ {call[c].sub}
                   ELSE reported

Fail(c) ==
    /\ GoTo(c, Idle)
    /\ reported' = IF call[c].sub = None THEN reported
                   ELSE reported \union {call[c].sub}

\* The error of a repository, or of the result store.
AwaitFails(c) ==
    /\ call[c].at # "idle"
    /\ Fail(c)
    /\ UNCHANGED <<risk, sub, registry, store, left>>

-----------------------------------------------------------------------------
(***************************************************************************)
(* Commands.                                                               *)
(***************************************************************************)
Issue(c, r) ==
    /\ call[c] = Idle /\ left > 0
    /\ GoTo(c, r) /\ left' = left - 1
    /\ UNCHANGED <<risk, sub, registry, store, reported>>

\* handleCreateLiquidationCaseFromRiskCase, handleCreateADLCaseFromRiskCase.  That the
\* id is new is not asked.
Create(c, s, t, version) ==
    Issue(c, [Idle EXCEPT !.at = "loadRisk", !.op = "create", !.sub = s, !.t = t,
                          !.version = version])

\* handleTransitionLiquidationCase, handleTransitionADLCase.
TransitionSub(c, s, action, t, version) ==
    Issue(c, [Idle EXCEPT !.at = "loadSub", !.op = "transition", !.sub = s,
                          !.action = action, !.t = t, !.version = version])

\* handleCoordinateRiskCaseAfterSubcaseTerminal.
Coordinate(c, s, t, version) ==
    Issue(c, [Idle EXCEPT !.at = "loadSub", !.op = "coordinate", !.sub = s, !.t = t,
                          !.version = version])

\* handleTransitionRiskCase.
TransitionRisk(c, action, t, version) ==
    Issue(c, [Idle EXCEPT !.at = "loadRisk", !.op = "risk", !.action = action, !.t = t,
                          !.version = version])

LoadSub(c) ==
    LET r == call[c]  s == sub[r.sub] IN
    /\ r.at = "loadSub"
    /\ IF s = None \/ (r.op = "coordinate" /\ ~IsTerminalSubcaseState(s.state))
       THEN Fail(c)
       ELSE GoTo(c, [r EXCEPT !.at = "loadRisk", !.own = s]) /\ UNCHANGED reported
    /\ UNCHANGED <<risk, sub, registry, store, left>>

\* The risk case is read, and the rules are asked of what was read.
LoadRisk(c) ==
    LET r == [call[c] EXCEPT !.parent = risk]
        rules == SubcaseRules(KindOf(r.sub))
    IN
    /\ r.at = "loadRisk"
    /\ \/ /\ r.op = "create" /\ risk.state \in AllowDeriveSpecialCase
          /\ GoTo(c, [r EXCEPT !.at = "saveSub",
                        !.own = [state |-> "Initiated", at |-> r.t, version |-> r.version]])
          /\ UNCHANGED reported
       \/ /\ r.op = "transition" /\ risk.state \in AllowSpecialCaseTransition
          /\ Allowed(rules, r.own, r.action, r.version, r.t)
          /\ GoTo(c, [r EXCEPT !.at = "saveSub",
                        !.own = TransitionTo(rules, @, r.action, r.t)])
          /\ UNCHANGED reported
       \/ /\ r.op = "coordinate" /\ r.version = risk.version
          /\ GoTo(c, [r EXCEPT !.at = "listLiquidations"])
          /\ UNCHANGED reported
       \/ /\ r.op = "risk" /\ Allowed(RiskRules, risk, r.action, r.version, r.t)
          /\ GoTo(c, [r EXCEPT !.at = "saveRisk",
                        !.parent = TransitionTo(RiskRules, @, r.action, r.t)])
          /\ UNCHANGED reported
       \* refused: nothing is saved
       \/ /\ \/ r.op = "create" /\ risk.state \notin AllowDeriveSpecialCase
             \/ /\ r.op = "transition"
                /\ ~(/\ risk.state \in AllowSpecialCaseTransition
                     /\ Allowed(rules, r.own, r.action, r.version, r.t))
             \/ r.op = "coordinate" /\ r.version # risk.version
             \/ r.op = "risk" /\ ~Allowed(RiskRules, risk, r.action, r.version, r.t)
          /\ GoTo(c, Idle) /\ UNCHANGED reported
    /\ UNCHANGED <<risk, sub, registry, store, left>>

\* Faulty: another version of the risk case is taken for a reason not to coordinate.
AfterSaveSilently(c) ==
    LET r == call[c] IN
    IF r.op = "create" \/ ~IsTerminalSubcaseState(r.own.state)
         \/ r.version # r.parent.version
    THEN Succeed(c)
    ELSE GoTo(c, [r EXCEPT !.at = "listLiquidations"]) /\ UNCHANGED reported

\* The subcase is saved: a terminal one calls for coordination, which refuses a
\* command with another version than that of the risk case.
AfterSave(c) ==
    LET r == call[c] IN
    IF r.op = "create" \/ ~IsTerminalSubcaseState(r.own.state) THEN Succeed(c)
    ELSE IF r.version # r.parent.version THEN Fail(c)
    ELSE GoTo(c, [r EXCEPT !.at = "listLiquidations"]) /\ UNCHANGED reported

SaveSub(c) ==
    /\ call[c].at = "saveSub"
    /\ sub' = [sub EXCEPT ![call[c].sub] = call[c].own]
    /\ AfterSave(c) \/ Fail(c)
    /\ UNCHANGED <<risk, registry, store, left>>

-----------------------------------------------------------------------------
(***************************************************************************)
(* Coordination of the risk case, and its result.                          *)
(***************************************************************************)
StatesOf(ids) ==
    [s \in {x \in ids : sub[x] # None} |-> sub[s].state]

\* What the two lists say together.
CoordinationContext(adls, liquidations) ==
    [s \in DOMAIN adls \union DOMAIN liquidations |->
        IF s \in DOMAIN adls THEN adls[s] ELSE liquidations[s]]

\* isEquivalentDecision and assertCoordinationResultViewsConsistent.
Consistent(f, g) ==
    /\ f.decision = g.decision \/ {f.decision, g.decision} = {"applied", "duplicate"}
    /\ f.action = g.action /\ f.after = g.after

\* validateCoordinationResultReplayCompatibility of a stored fact.
ReplayCompatible(stored, current) ==
    /\ stored.action = current.action /\ stored.auditAt = current.auditAt
    /\ Consistent(stored, current)

Put(f, k, v) == [x \in DOMAIN f \union {k} |-> IF x = k THEN v ELSE f[x]]

\* CoordinationResultRegistry.record, then the store is looked up.
Record(c, fact) ==
    LET k == KeyOf(c) IN
    IF k \in DOMAIN registry /\ ~Consistent(registry[k], fact)
    THEN Fail(c) /\ UNCHANGED registry
    ELSE /\ registry' = IF k \in DOMAIN registry THEN registry ELSE Put(registry, k, fact)
         /\ GoTo(c, [call[c] EXCEPT !.at = "lookup", !.fact = fact])
         /\ UNCHANGED reported

ListLiquidations(c) ==
    /\ call[c].at = "listLiquidations"
    /\ GoTo(c, [call[c] EXCEPT !.at = "listAdls", !.seen = StatesOf(Liquidations)])
    /\ UNCHANGED <<risk, sub, registry, store, left, reported>>

\* What was listed is arbitrated against the risk case as it was loaded; an escalation
\* or a close is saved, anything else is only recorded.
ListAdls(c) ==
    LET r == call[c]
        plan == ResolutionPlan(r.sub, CoordinationContext(StatesOf(Adls), r.seen), r.parent.state,
                               Ordering(r.t, r.own, r.parent, r.op))
        at == IF r.t < r.parent.at THEN r.parent.at ELSE r.t
        next == IF plan.apply = "" THEN r.parent
                ELSE TransitionTo(RiskRules, r.parent, plan.apply, at)
        fact == [action |-> plan.action, decision |-> plan.decision,
                 after |-> next.state, auditAt |-> at]
    IN
    /\ r.at = "listAdls"
    /\ IF plan.apply = "" THEN Record(c, fact)
       ELSE /\ GoTo(c, [r EXCEPT !.at = "saveRisk", !.parent = next, !.fact = fact])
            /\ UNCHANGED <<registry, reported>>
    /\ UNCHANGED <<risk, sub, store, left>>

SaveRisk(c) ==
    /\ call[c].at = "saveRisk"
    /\ risk' = call[c].parent
    /\ \/ call[c].op = "risk" /\ Succeed(c) /\ UNCHANGED registry
       \/ call[c].op # "risk" /\ Record(c, call[c].fact)
       \/ Fail(c) /\ UNCHANGED registry
    /\ UNCHANGED <<sub, store, left>>

\* Faulty: a fact that the store has is not compared.
LookupTrusting(c) ==
    /\ call[c].at = "lookup"
    /\ IF KeyOf(c) \in DOMAIN store
       THEN Succeed(c)
       ELSE GoTo(c, [call[c] EXCEPT !.at = "put"]) /\ UNCHANGED reported
    /\ UNCHANGED <<risk, sub, registry, store, left>>

\* Faulty: a fact that the store has is written over.
LookupForgetting(c) ==
    /\ call[c].at = "lookup"
    /\ GoTo(c, [call[c] EXCEPT !.at = "put"])
    /\ UNCHANGED <<risk, sub, registry, store, left, reported>>

Lookup(c) ==
    /\ call[c].at = "lookup"
    /\ IF KeyOf(c) \notin DOMAIN store
       THEN GoTo(c, [call[c] EXCEPT !.at = "put"]) /\ UNCHANGED reported
       ELSE IF ReplayCompatible(store[KeyOf(c)], call[c].fact)
       THEN Succeed(c)
       ELSE Fail(c)
    /\ UNCHANGED <<risk, sub, registry, store, left>>

PutFact(c) ==
    /\ call[c].at = "put"
    /\ store' = Put(store, KeyOf(c), call[c].fact)
    /\ Succeed(c) \/ Fail(c)
    /\ UNCHANGED <<risk, sub, registry, left>>

-----------------------------------------------------------------------------
(***************************************************************************)
(* History.                                                                *)
(***************************************************************************)
\* Command d has read subcase s, alone or in a list, and will act on it.
Holds(d, s) ==
    \/ call[d].sub = s /\ call[d].op # "create" /\ call[d].at # "loadSub"
    \/ call[d].at = "listAdls" /\ s \in Liquidations
    \/ call[d].at = "saveRisk" /\ call[d].op # "risk"

HoldsRisk(d) == call[d].at \in {"saveSub", "listLiquidations", "listAdls", "saveRisk"}

\* The subcases, and the risk case, that a step changes.
Saved == {s \in Subs : sub'[s] # sub[s]}
RiskSaved == risk' # risk

\* What a step of command c does to the others.
Recorded(c) ==
    /\ stale' = {d \in Callers :
                   /\ call'[d].at # "idle"
                   /\ \/ d \in stale
                      \/ d # c /\ \E s \in Saved : Holds(d, s)
                      \/ d # c /\ RiskSaved /\ HoldsRisk(d)}
    /\ raced' = (raced \ Saved) \union
                 {s \in Saved : c \in stale \/ \E d \in Callers \ {c} : Holds(d, s)}
    /\ reopened' = (reopened \/ (/\ risk.state \in TerminalStates
                                 /\ risk'.state \notin TerminalStates))

-----------------------------------------------------------------------------
\* The process ends and another one starts.
Restart ==
    /\ registry' = <<>>
    /\ call' = [c \in Callers |-> Idle]
    /\ reported' = reported \union ({call[c].sub : c \in Callers} \ {None})
    /\ stale' = {}
    /\ UNCHANGED <<risk, sub, store, left, raced, reopened>>

Commands(c) ==
    \E t \in Times, version \in Versions :
        \/ \E s \in Subs : Create(c, s, t, version) \/ Coordinate(c, s, t, version)
        \/ \E s \in Subs : \E action \in Actions(KindOf(s)) :
             TransitionSub(c, s, action, t, version)
        \/ \E action \in RiskActions : TransitionRisk(c, action, t, version)

CallStep(c) ==
    \/ LoadSub(c) \/ LoadRisk(c) \/ SaveSub(c) \/ ListLiquidations(c) \/ ListAdls(c)
    \/ SaveRisk(c) \/ Lookup(c) \/ PutFact(c) \/ AwaitFails(c)

CoreNext == \E c \in Callers : (Commands(c) \/ CallStep(c)) /\ Recorded(c)

-----------------------------------------------------------------------------
(* Properties *)

\* The failure of a subcase is not lost, however commands overlap: its risk case has
\* ended, by manual intervention if not before, or the command that brought the failure
\* is open, was answered with an error or was cut off.  Once a later coordination that
\* read the subcase as it is has succeeded, only the first is left.  The one thing that
\* can undo it is a command that had read the risk case before it ended and saved it
\* afterwards.
FailureReachesRiskCase ==
    \A s \in Subs :
        sub[s] # None /\ sub[s].state = "Failed" =>
            \/ risk.state \in TerminalStates \/ reopened
            \/ s \in reported
            \/ \E c \in Callers : call[c].sub = s

\* A risk case that was closed for its subcases has none that failed or is active,
\* whatever was derived and coordinated in whatever order.  A subcase is excused only if
\* it was saved across a command that had read it, or by one that had read what has
\* changed since; all are once such a command has saved over the risk case.
CloseMeansAllSucceeded ==
    \A f \in Range(registry) \union Range(store) :
        f.decision = "applied" /\ f.after = "Closed" =>
            \/ reopened
            \/ \A s \in Subs \ raced : sub[s] # None => Succeeded(sub[s].state)

\* A fact in the store stays, and is only replaced by one that says the same, however
\* commands, repairs and restarts interleave.
FactsStayEquivalent ==
    [][\A k \in DOMAIN store :
          k \in DOMAIN store' /\ Consistent(store[k], store'[k])]_store

\* A risk case that is over stays as it is, and a subcase that is over changes only
\* when it is derived anew (handleCreateLiquidationCaseFromRiskCase and its twin save
\* over an existing case, which the state machines call impossible), except by the save
\* of a command whose reading is stale: whatever reads after the end is refused.
EndedLeftOnlyByStaleRead ==
    [][/\ risk.state \in TerminalStates /\ risk' # risk
            => \E c \in stale : call[c].at = "saveRisk"
       /\ \A s \in Subs :
            sub[s] # None /\ IsTerminalSubcaseState(sub[s].state) /\ sub'[s] # sub[s]
              => \/ sub'[s].state = "Initiated"
                 \/ \E c \in stale : call[c].at = "saveSub" /\ call[c].sub = s
      ]_<<risk, sub>>

\* However commands overlap on one case, which nothing locks: no failure is lost, no case
\* is closed over an active one, and none comes back from its end, except by a command
\* that acted on what another had changed since it read.
OnlyStaleReadsHarm ==
    [](FailureReachesRiskCase /\ CloseMeansAllSucceeded) /\ EndedLeftOnlyByStaleRead
=============================================================================
