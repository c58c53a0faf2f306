----------------------- MODULE AlertSuppressionProofs -----------------------
(***************************************************************************)
(* What the queries and the repair commands of one fact hold, for any      *)
(* number of processes, categories, queries, commands and restarts.  Inv   *)
(* says of each value a query or a command carries between two awaits what *)
(* was true when it was read, and still is: states stay mended, counts     *)
(* of observed alerts, records and accepted confirmations only grow.       *)
(***************************************************************************)
EXTENDS AlertSuppression, TLAPS

-----------------------------------------------------------------------------
(***************************************************************************)
(* The invariant.                                                          *)
(***************************************************************************)
Severities == {"info", "warning"}
Alerts == [severity : Severities, count : Nat \ {0}]
Lifecycles == [status : RepairStatuses, attempts : Nat, manual : BOOLEAN]

\* A lifecycle that may be remembered of key k.
LifeFits(life, k) == life \in Lifecycles /\ (life.manual => k \in confirmed)

\* A link that slot k may name when its lifecycle has this status.
Resolves(link, k, status) ==
    link # None => \E r \in records : r.id = link /\ r.key = k /\ r.status = status

RepairedIsMended(status, k) == status = "repaired" => Mended(states[k])

TypeInv ==
    /\ live \in LiveSignals
    /\ spent \in Nat
    /\ alerts \in [Processes -> [Categories -> Alerts \union {None}]]
    /\ lives \in [Processes -> [Categories -> Lifecycles]]
    /\ states \in [Categories -> StoredStates \union {None}]
    /\ DOMAIN slots = Categories
    /\ records \subseteq [id : Nat, key : Categories, status : RepairStatuses]
    /\ DOMAIN query = Readers
    /\ DOMAIN command = Operators
    /\ seen \in [Categories -> Nat]
    /\ promised \subseteq Categories
    /\ confirmed \subseteq Categories

\* A key whose state is stored has been alerted of.
SeenInv == \A k \in Categories : states[k] # None => seen[k] >= 1

LivesInv ==
    \A k \in Categories :
        /\ \A p \in Processes : LifeFits(lives[p][k], k)
        /\ slots[k] # None => LifeFits(slots[k].current, k)

\* What a query carries: the categories of verdicts need not all be among those
\* that are told apart.
QueryFits(job) ==
    /\ job.at \in {"lifecycle", "state", "statePut"} => job.severity \in Severities
    /\ job.at = "lifecycle" /\ job.key \in Categories => LifeFits(job.remembered, job.key)
    /\ job.at \in {"state", "statePut", "slotRead"} /\ job.key \in Categories
         => LifeFits(job.life, job.key)
    /\ job.at = "statePut" /\ job.key \in Categories
         => job.count \in Nat \ {0} /\ job.count <= seen[job.key]
    /\ job.at = "slotPut" /\ job.key \in Categories
         => job.slot.link = None /\ LifeFits(job.slot.current, job.key)

\* A command that waits for the lifecycle.
Syncs == [at : {"sync"}, type : CommandTypes, key : Categories, id : Nat,
          checked : BOOLEAN, remembered : Lifecycles]

\* What a command carries.
CommandFits(job) ==
    /\ job.at # "idle" => job.key \in Categories
    /\ job.at \in {"sync", "read", "put", "record"} => job.id \in Nat
    /\ job.at = "sync" =>
         /\ job \in Syncs /\ LifeFits(job.remembered, job.key)
         /\ job.checked => job.type # "confirm"
    /\ job.at \in {"read", "put"} => job.type # "confirm"
    /\ job.at = "put" =>
         /\ job.state \in StoredStates /\ Mended(job.state)
         /\ job.state.count <= seen[job.key]
    /\ job.at \in {"record", "slotRead"} =>
         /\ LifeFits(job.life, job.key)
         /\ RepairedIsMended(job.life.status, job.key)
    /\ job.at \in {"record", "slotRead", "slotPut"} => LifeFits(job.previous, job.key)
    /\ job.at = "slotRead" => Resolves(job.link, job.key, job.life.status)
    /\ job.at = "slotPut" =>
         /\ LifeFits(job.slot.current, job.key)
         /\ RepairedIsMended(job.slot.current.status, job.key)
         /\ Resolves(job.slot.link, job.key, job.slot.current.status)

QueryInv == \A q \in Readers : QueryFits(query[q])
CommandInv == \A o \in Operators : CommandFits(command[o])

\* What is promised is mended, what is linked is there.
StoresInv ==
    /\ \A k \in promised : Mended(states[k])
    /\ \A k \in Categories :
         slots[k] # None => Resolves(slots[k].link, k, slots[k].current.status)

Inv == /\ TypeInv /\ SeenInv /\ CountsAreObserved
       /\ LivesInv /\ QueryInv /\ CommandInv /\ StoresInv

-----------------------------------------------------------------------------
(***************************************************************************)
(* What a step may do to what others have read.                            *)
(***************************************************************************)

\* What was true of a value when it was read is true of it later.
Grows ==
    /\ confirmed \subseteq confirmed'
    /\ records \subseteq records'
    /\ \A k \in Categories : seen'[k] >= seen[k]
    /\ \A k \in Categories : Mended(states[k]) => Mended(states[k])'

\* A function of two arguments that is changed in one place.
LEMMA OnePlace ==
  ASSUME NEW P, NEW K, NEW V, NEW f \in [P -> [K -> V]], NEW p \in P, NEW k, NEW v,
         k \in K => v \in V
  PROVE  /\ [f EXCEPT ![p][k] = v] \in [P -> [K -> V]]
         /\ \A a \in P, b \in K :
               \/ [f EXCEPT ![p][k] = v][a][b] = f[a][b]
               \/ a = p /\ b = k /\ [f EXCEPT ![p][k] = v][a][b] = v
<1>1. f[p] \in [K -> V] /\ [f[p] EXCEPT ![k] = v] \in [K -> V]
  OBVIOUS
<1>2. [f EXCEPT ![p][k] = v] = [f EXCEPT ![p] = [f[p] EXCEPT ![k] = v]]
  OBVIOUS
<1> QED
  BY <1>1, <1>2

\* In that place it has the new value.
LEMMA ThatPlace ==
  ASSUME NEW P, NEW K, NEW V, NEW f \in [P -> [K -> V]], NEW p \in P, NEW k \in K, NEW v
  PROVE  [f EXCEPT ![p][k] = v][p][k] = v
<1>1. f[p] \in [K -> V]
  OBVIOUS
<1> QED
  BY <1>1

\* What a query carries stays fit.
LEMMA QueryStaysFit ==
  ASSUME TypeInv, TypeInv', Grows, NEW job, QueryFits(job)
  PROVE  QueryFits(job)'
  BY DEF QueryFits, LifeFits, Grows, TypeInv

\* What a command carries stays fit.
LEMMA CommandStaysFit ==
  ASSUME TypeInv, TypeInv', Grows, NEW job, CommandFits(job)
  PROVE  CommandFits(job)'
<1>1. ASSUME NEW life, NEW k, LifeFits(life, k) PROVE LifeFits(life, k)'
  BY <1>1 DEF LifeFits, Grows
<1>2. ASSUME NEW status, NEW k \in Categories, RepairedIsMended(status, k)
      PROVE  RepairedIsMended(status, k)'
  BY <1>2 DEF RepairedIsMended, Grows
<1>3. ASSUME NEW link, NEW k, NEW status, Resolves(link, k, status)
      PROVE  Resolves(link, k, status)'
  BY <1>3 DEF Resolves, Grows
<1>4. ASSUME NEW s \in StoredStates, NEW k \in Categories, s.count <= seen[k]
      PROVE  s.count <= seen'[k]
  BY <1>4 DEF StoredStates, Grows, TypeInv
<1> QED
  BY <1>1, <1>2, <1>3, <1>4 DEF CommandFits, Mended

\* A step that leaves each thing as it is, or puts something fit in its place, keeps
\* the invariant.
LEMMA Moves ==
  ASSUME Inv, TypeInv', Grows,
         \A k \in Categories : \/ states'[k] = states[k]
                               \/ seen'[k] >= 1 /\ states'[k].count <= seen'[k],
         \A p \in Processes, k \in Categories :
             alerts'[p][k] \in {alerts[p][k], None} \/ alerts'[p][k].count <= seen'[k],
         \A p \in Processes, k \in Categories :
             lives'[p][k] = lives[p][k] \/ LifeFits(lives[p][k], k)',
         \A k \in Categories :
             \/ slots'[k] = slots[k]
             \/ /\ LifeFits(slots[k].current, k)'
                /\ Resolves(slots[k].link, k, slots[k].current.status)',
         \A q \in Readers : query'[q] = query[q] \/ QueryFits(query[q])',
         \A o \in Operators : command'[o] = command[o] \/ CommandFits(command[o])',
         \A k \in promised' \ promised : Mended(states[k])'
  PROVE  Inv'
<1> USE DEF Inv
<1>1. ASSUME NEW life, NEW k, LifeFits(life, k) PROVE LifeFits(life, k)'
  BY <1>1 DEF LifeFits, Grows
<1>2. ASSUME NEW link, NEW k, NEW status, Resolves(link, k, status)
      PROVE  Resolves(link, k, status)'
  BY <1>2 DEF Resolves, Grows
<1>3. \A k \in Categories : seen[k] \in Nat /\ seen'[k] \in Nat /\ seen'[k] >= seen[k]
  BY DEF TypeInv, Grows
<1>4. SeenInv'
  BY <1>3 DEF SeenInv
<1>5. CountsAreObserved'
  <2>1. ASSUME NEW k \in Categories, states'[k] # None PROVE states'[k].count <= seen'[k]
    <3>1. states'[k] \in StoredStates
      BY <2>1 DEF TypeInv
    <3> QED
      BY <1>3, <2>1, <3>1 DEF CountsAreObserved, StoredStates
  <2>2. ASSUME NEW k \in Categories, NEW p \in Processes, alerts'[p][k] # None
        PROVE  alerts'[p][k].count <= seen'[k]
    <3>1. alerts'[p][k] \in Alerts
      BY <2>2 DEF TypeInv
    <3> QED
      BY <1>3, <2>2, <3>1 DEF CountsAreObserved, Alerts
  <2> QED
    BY <2>1, <2>2 DEF CountsAreObserved
<1>6. LivesInv'
  BY <1>1 DEF LivesInv
<1>7. QueryInv'
  BY QueryStaysFit DEF QueryInv
<1>8. CommandInv'
  BY CommandStaysFit DEF CommandInv
<1>9. StoresInv'
  <2>1. ASSUME NEW k \in promised' PROVE Mended(states[k])'
    BY <2>1 DEF StoresInv, Grows, TypeInv
  <2>2. ASSUME NEW k \in Categories, slots'[k] # None
        PROVE  Resolves(slots[k].link, k, slots[k].current.status)'
    <3>1. CASE slots'[k] = slots[k]
      BY <1>2, <2>2, <3>1 DEF StoresInv
    <3> QED
      BY <2>2, <3>1
  <2> QED
    BY <2>1, <2>2 DEF StoresInv
<1> QED
  BY <1>4, <1>5, <1>6, <1>7, <1>8, <1>9

-----------------------------------------------------------------------------
(***************************************************************************)
(* The diagnostic query.                                                   *)
(***************************************************************************)

\* A question to a store is answered or not.
LEMMA SpentStays ==
  ASSUME TypeInv, Fails \/ Answers
  PROVE  spent' \in Nat
  BY DEF TypeInv, Fails, Answers, Spend

\* A query that only moves on keeps the invariant.
LEMMA QueryMovesOn ==
  ASSUME Inv, NEW q \in Readers, Fails \/ Answers,
         UNCHANGED <<live, states, slots, records, alerts, lives, command, seen,
                     promised, confirmed>>,
         DOMAIN query' = Readers,
         \A r \in Readers : r = q \/ query'[r] = query[r],
         QueryFits(query[q])'
  PROVE  Inv'
<1>1. TypeInv'
  BY SpentStays DEF Inv, TypeInv
<1>2. Grows
  BY DEF Grows, Mended, Inv, TypeInv
<1> QED
  BY <1>1, <1>2, Moves

\* Where a query is put.
LEMMA QuerySet ==
  ASSUME TypeInv, NEW q \in Readers, NEW job, query' = [query EXCEPT ![q] = job]
  PROVE  /\ DOMAIN query' = Readers /\ query'[q] = job
         /\ \A r \in Readers : r = q \/ query'[r] = query[r]
  BY DEF TypeInv

LEMMA BeginQueryStep ==
  ASSUME Inv, NEW q \in Readers, NEW compare \in BOOLEAN, BeginQuery(q, compare)
  PROVE  Inv'
<1>1. \/ query' = [query EXCEPT ![q] = [at |-> "history", view |-> View(live)]]
      \/ query' = [query EXCEPT ![q] = [at |-> "rotate", view |-> View(live)]]
  BY DEF BeginQuery, Rotate, SetQuery
<1>2. /\ UNCHANGED <<live, states, slots, records, alerts, lives, command, seen,
                     promised, confirmed>>
      /\ Fails
  BY DEF BeginQuery, stores, Fails
<1>3. TypeInv
  BY DEF Inv
<1>4. /\ DOMAIN query' = Readers /\ \A r \in Readers : r = q \/ query'[r] = query[r]
      /\ query'[q].at \in {"history", "rotate"}
  BY <1>1, <1>3, QuerySet
<1>5. QueryFits(query[q])'
  BY <1>4 DEF QueryFits
<1> QED
  BY <1>2, <1>4, <1>5, QueryMovesOn

LEMMA HistoryAnswersStep ==
  ASSUME Inv, NEW q \in Readers, HistoryAnswers(q)
  PROVE  Inv'
<1>0. TypeInv /\ LivesInv /\ Home[q] \in Processes
  BY HomeAssumption DEF Inv
<1>1. /\ UNCHANGED <<live, states, slots, records, alerts, lives, command, seen,
                     promised, confirmed>>
      /\ Fails \/ Answers
  BY DEF HistoryAnswers, stores
<1>2. \/ query' = [query EXCEPT ![q] = Idle]
      \/ query' = [query EXCEPT ![q] = [at |-> "rotate", view |-> query[q].view]]
      \/ \E verdict : RaiseAlert(q, verdict)
  BY DEF HistoryAnswers, EndQuery, Rotate, SetQuery
<1>3. CASE \/ query' = [query EXCEPT ![q] = Idle]
           \/ query' = [query EXCEPT ![q] = [at |-> "rotate", view |-> query[q].view]]
  <2>1. /\ DOMAIN query' = Readers /\ \A r \in Readers : r = q \/ query'[r] = query[r]
        /\ query'[q].at \in {"idle", "rotate"}
    BY <1>0, <1>3, QuerySet DEF Idle
  <2>2. QueryFits(query[q])'
    BY <2>1 DEF QueryFits
  <2> QED
    BY <1>1, <2>1, <2>2, QueryMovesOn
<1>4. ASSUME NEW verdict, RaiseAlert(q, verdict) PROVE Inv'
  <2> DEFINE job == [at |-> "lifecycle", view |-> query[q].view, key |-> verdict.category,
                     severity |-> SeverityOf(verdict),
                     remembered |-> lives[Home[q]][verdict.category]]
  <2>1. query' = [query EXCEPT ![q] = job]
    BY <1>4 DEF RaiseAlert, SetQuery
  <2>2. SeverityOf(verdict) \in Severities
    BY DEF SeverityOf, Severities
  <2>3. /\ job.at = "lifecycle" /\ job.severity \in Severities
        /\ job.key \in Categories => LifeFits(job.remembered, job.key)
    BY <1>0, <2>2 DEF LivesInv
  <2> HIDE DEF job
  <2>4. /\ DOMAIN query' = Readers /\ \A r \in Readers : r = q \/ query'[r] = query[r]
        /\ query'[q] = job
    BY <1>0, <2>1, QuerySet
  <2>5. QueryFits(job)
    BY <2>3 DEF QueryFits
  <2>6. QueryFits(query[q])'
    BY <1>1, <2>3, <2>4 DEF QueryFits, LifeFits
  <2> QED
    BY <1>1, <2>4, <2>6, QueryMovesOn
<1> QED
  BY <1>2, <1>3, <1>4

\* A slot that is believed is one that fits.
LEMMA WhatIsReadFits ==
  ASSUME LivesInv, NEW k \in Categories, NEW slot, slot = None \/ slot = slots[k],
         NEW remembered, LifeFits(remembered, k)
  PROVE  LifeFits(LifecycleRead(slot, remembered), k)
  BY DEF LivesInv, LifecycleRead

LEMMA LifecycleAnswersStep ==
  ASSUME Inv, NEW q \in Readers, LifecycleAnswers(q)
  PROVE  Inv'
<1> DEFINE k == query[q].key
           remembered == query[q].remembered
<1>0. /\ TypeInv /\ LivesInv /\ QueryInv /\ Home[q] \in Processes
      /\ lives \in [Processes -> [Categories -> Lifecycles]]
  BY HomeAssumption DEF Inv, TypeInv
<1>1. /\ UNCHANGED <<live, states, slots, records, alerts, command, seen, promised,
                     confirmed>>
      /\ Fails \/ Answers
      /\ query[q].at = "lifecycle"
  BY DEF LifecycleAnswers, stores
<1>2. PICK slot \in {None, slots[k]} :
        /\ lives' = IF slot # None /\ Continuous(slot, remembered)
                    THEN [lives EXCEPT ![Home[q]][k] = slot.current] ELSE lives
        /\ query' = [query EXCEPT ![q] =
                       [at |-> "state", view |-> query[q].view, key |-> k,
                        severity |-> query[q].severity,
                        life |-> LifecycleRead(slot, remembered)]]
  BY DEF LifecycleAnswers, SetQuery
<1> DEFINE job == [at |-> "state", view |-> query[q].view, key |-> k,
                   severity |-> query[q].severity,
                   life |-> LifecycleRead(slot, remembered)]
<1>3. /\ query[q].severity \in Severities
      /\ k \in Categories => LifeFits(remembered, k)
  BY <1>0, <1>1 DEF QueryInv, QueryFits
<1>4. /\ job.at = "state" /\ job.severity \in Severities /\ job.key = k
      /\ job.life = LifecycleRead(slot, remembered)
  BY <1>3
<1>5. /\ DOMAIN query' = Readers /\ query'[q] = job
      /\ \A r \in Readers : r = q \/ query'[r] = query[r]
  BY <1>0, <1>2, QuerySet
<1> HIDE DEF job, k, remembered
<1>6. k \in Categories => LifeFits(job.life, k)
  BY <1>0, <1>2, <1>3, <1>4, WhatIsReadFits
<1>7. ASSUME slot # None, k \in Categories PROVE LifeFits(slot.current, k)
  BY <1>0, <1>2, <1>7 DEF LivesInv
<1>8. /\ lives' \in [Processes -> [Categories -> Lifecycles]]
      /\ \A p \in Processes, c \in Categories :
            lives'[p][c] = lives[p][c] \/ LifeFits(lives'[p][c], c)
  <2>1. CASE slot # None /\ Continuous(slot, remembered)
    <3>1. lives' = [lives EXCEPT ![Home[q]][k] = slot.current]
      BY <1>2, <2>1
    <3>2. k \in Categories => slot.current \in Lifecycles
      BY <1>7, <2>1 DEF LifeFits
    <3> QED
      BY <1>0, <1>7, <2>1, <3>1, <3>2, OnePlace, SMTT(20)
  <2>2. CASE ~(slot # None /\ Continuous(slot, remembered))
    BY <1>0, <1>2, <2>2
  <2> QED
    BY <2>1, <2>2
<1>9. TypeInv'
  BY <1>0, <1>1, <1>5, <1>8, SpentStays DEF TypeInv
<1>10. Grows
  BY <1>0, <1>1 DEF Grows, Mended, TypeInv
<1>11. QueryFits(query[q])'
  BY <1>1, <1>4, <1>5, <1>6 DEF QueryFits, LifeFits
<1>12. \A p \in Processes, c \in Categories :
          lives'[p][c] = lives[p][c] \/ LifeFits(lives[p][c], c)'
  BY <1>1, <1>8 DEF LifeFits
<1> QED
  BY <1>1, <1>5, <1>9, <1>10, <1>11, <1>12, Moves

LEMMA QuerySlotReadStep ==
  ASSUME Inv, NEW q \in Readers, QuerySlotRead(q)
  PROVE  Inv'
<1> DEFINE k == query[q].key
           slot == NextSlot(slots[k], query[q].life, None)
           job == [at |-> "slotPut", view |-> query[q].view, key |-> k, slot |-> slot]
<1>0. TypeInv /\ QueryInv
  BY DEF Inv
<1>1. /\ UNCHANGED <<live, states, slots, records, alerts, lives, command, seen,
                     promised, confirmed>>
      /\ Fails \/ Answers
      /\ query[q].at = "slotRead"
  BY DEF QuerySlotRead, stores
<1>2. \/ query' = [query EXCEPT ![q] = [at |-> "rotate", view |-> query[q].view]]
      \/ query' = [query EXCEPT ![q] = job]
  BY DEF QuerySlotRead, Rotate, SetQuery
<1>3. /\ job.at = "slotPut" /\ job.key = k
      /\ job.slot.link = None /\ job.slot.current = query[q].life
  BY DEF NextSlot
<1> HIDE DEF job, slot
<1>4. k \in Categories => LifeFits(query[q].life, k)
  BY <1>0, <1>1 DEF QueryInv, QueryFits
<1>5. /\ DOMAIN query' = Readers /\ \A r \in Readers : r = q \/ query'[r] = query[r]
      /\ query'[q].at = "rotate" \/ query'[q] = job
  BY <1>0, <1>2, QuerySet
<1>6. QueryFits(query[q])'
  BY <1>1, <1>3, <1>4, <1>5 DEF QueryFits, LifeFits
<1> QED
  BY <1>1, <1>5, <1>6, QueryMovesOn

LEMMA QuerySlotPutStep ==
  ASSUME Inv, NEW q \in Readers, QuerySlotPut(q)
  PROVE  Inv'
<1> DEFINE k == query[q].key
           slot == query[q].slot
<1>0. TypeInv /\ QueryInv
  BY DEF Inv
<1>1. /\ UNCHANGED <<live, states, records, alerts, lives, command, seen, promised,
                     confirmed>>
      /\ Fails \/ Answers
      /\ query[q].at = "slotPut"
      /\ slots' = slots \/ slots' = [slots EXCEPT ![k] = slot]
      /\ query' = [query EXCEPT ![q] = [at |-> "rotate", view |-> query[q].view]]
  BY DEF QuerySlotPut, Rotate, SetQuery
<1>2. k \in Categories => slot.link = None /\ LifeFits(slot.current, k)
  BY <1>0, <1>1 DEF QueryInv, QueryFits
<1>3. /\ DOMAIN query' = Readers /\ \A r \in Readers : r = q \/ query'[r] = query[r]
      /\ query'[q].at = "rotate"
  BY <1>0, <1>1, QuerySet
<1> HIDE DEF k, slot
<1>4. /\ DOMAIN slots' = Categories
      /\ \A c \in Categories : slots'[c] = slots[c] \/ (c = k /\ slots'[c] = slot)
  BY <1>0, <1>1 DEF TypeInv
<1>5. \A c \in Categories :
         \/ slots'[c] = slots[c]
         \/ /\ LifeFits(slots[c].current, c)'
            /\ Resolves(slots[c].link, c, slots[c].current.status)'
  BY <1>1, <1>2, <1>4 DEF LifeFits, Resolves
<1>6. QueryFits(query[q])'
  BY <1>3 DEF QueryFits
<1>7. TypeInv'
  BY <1>0, <1>1, <1>3, <1>4, SpentStays DEF TypeInv
<1>8. Grows
  BY <1>0, <1>1 DEF Grows, Mended, TypeInv
<1> QED
  BY <1>1, <1>3, <1>5, <1>6, <1>7, <1>8, Moves

\* The history slot is no part of the invariant.
LEMMA HistoryStep ==
  ASSUME Inv, NEW q \in Readers, HistoryRead(q) \/ HistoryPut(q)
  PROVE  Inv'
<1>0. TypeInv
  BY DEF Inv
<1>1. /\ UNCHANGED <<live, states, slots, records, alerts, lives, command, seen,
                     promised, confirmed>>
      /\ Fails \/ Answers
  BY DEF HistoryRead, HistoryPut, stores, memory
<1>2. \/ query' = [query EXCEPT ![q] = Idle]
      \/ query' = [query EXCEPT ![q] = [at |-> "historyPut",
                                        slot |-> NextHistory(history, query[q].view)]]
  BY DEF HistoryRead, HistoryPut, EndQuery, SetQuery
<1>3. /\ DOMAIN query' = Readers /\ \A r \in Readers : r = q \/ query'[r] = query[r]
      /\ query'[q].at \in {"idle", "historyPut"}
  BY <1>0, <1>2, QuerySet DEF Idle
<1>4. QueryFits(query[q])'
  BY <1>3 DEF QueryFits
<1> QED
  BY <1>1, <1>3, <1>4, QueryMovesOn

\* A state the process goes on from has counted an alert.
LEMMA HydratedFits ==
  ASSUME NEW s \in StoredStates \union {None}, NEW severity, CanHydrate(s, severity)
  PROVE  s \in StoredStates /\ s.count \in Nat \ {0}
<1>1. s # None
  BY DEF CanHydrate, ReadCompatibility
<1>2. s \in StoredStates /\ s.count \in Nat
  BY <1>1 DEF StoredStates
<1>3. ~Malformed(s)
  BY <1>1 DEF CanHydrate, ReadCompatibility
<1> QED
  BY <1>2, <1>3 DEF Malformed

\* The statuses that a failed continuity leads to.
LEMMA FailureStatus ==
  ASSUME NEW s, NEW severity, NEW count, ContinuityFailure(s, severity, count) # None
  PROVE  ContinuityFailure(s, severity, count) \in RepairStatuses
  BY DEF ContinuityFailure, RepairStatuses

\* What a query stores needs no mending.
LEMMA StoredFits ==
  ASSUME NEW severity \in Severities, NEW count \in Nat \ {0}
  PROVE  /\ StoredState(severity, count) \in StoredStates
         /\ Mended(StoredState(severity, count))
         /\ StoredState(severity, count).count = count
<1>1. StoredState(severity, count) \in StoredStates
  BY DEF StoredState, StoredStates, Severities, ExpectedStatus
<1>2. StoredState(severity, count) # None
  BY <1>1, NoneAssumption
<1> QED
  BY <1>1, <1>2 DEF StoredState, Mended, Malformed, ExpectedStatus

\* Each observed alert counts in the process that observed it.
AlertCounted(k) ==
    \E p \in Processes :
        /\ alerts'[p][k] # None
        /\ alerts[p][k] # None => alerts'[p][k].count = alerts[p][k].count + 1

\* An alert that is recorded is counted, from what the process knows of it.
LEMMA AlertRecorded ==
  ASSUME Inv, NEW q \in Readers, query[q].at = "state",
         NEW s \in {None, states[query[q].key]}, RecordAlert(q, s)
  PROVE  /\ alerts' \in [Processes -> [Categories -> Alerts \union {None}]]
         /\ seen' \in [Categories -> Nat]
         /\ \A k \in Categories : seen'[k] >= seen[k]
         /\ \A p \in Processes, k \in Categories :
               alerts'[p][k] = alerts[p][k] \/ alerts'[p][k].count <= seen'[k]
         /\ query[q].key \in Categories =>
               /\ alerts'[Home[q]][query[q].key] \in Alerts
               /\ alerts'[Home[q]][query[q].key].count <= seen'[query[q].key]
               /\ seen'[query[q].key] >= 1
         /\ \A k \in Categories : seen'[k] > seen[k] => AlertCounted(k)
<1> DEFINE k == query[q].key
           p == Home[q]
           severity == query[q].severity
           known == Known(p, k, s, severity)
           new == Recorded(known, severity)
<1>0. /\ alerts \in [Processes -> [Categories -> Alerts \union {None}]]
      /\ seen \in [Categories -> Nat] /\ p \in Processes
      /\ states \in [Categories -> StoredStates \union {None}]
      /\ CountsAreObserved /\ severity \in Severities
  BY HomeAssumption DEF Inv, TypeInv, QueryInv, QueryFits
<1>1. /\ alerts' = [alerts EXCEPT ![p][k] = new]
      /\ seen' = [seen EXCEPT ![k] = seen[k] + 1]
  BY DEF RecordAlert
<1>2. ASSUME k \in Categories
      PROVE  known # None => known.count \in Nat \ {0} /\ known.count <= seen[k]
  <2>1. CASE alerts[p][k] = None /\ CanHydrate(s, severity)
    <3>1. known = [severity |-> s.severity, count |-> s.count]
      BY <2>1 DEF Known
    <3>2. s = states[k] /\ s \in StoredStates /\ s.count \in Nat \ {0}
      BY <1>0, <1>2, <2>1, HydratedFits DEF CanHydrate, ReadCompatibility
    <3>3. s # None
      BY <3>2, NoneAssumption
    <3> QED
      BY <1>0, <1>2, <3>1, <3>2, <3>3 DEF CountsAreObserved
  <2>2. CASE ~(alerts[p][k] = None /\ CanHydrate(s, severity))
    <3>1. known = alerts[p][k]
      BY <2>2 DEF Known
    <3> QED
      BY <1>0, <1>2, <3>1 DEF CountsAreObserved, Alerts
  <2> QED
    BY <2>1, <2>2
<1>3. /\ new.count = (IF known = None THEN 1 ELSE known.count + 1)
      /\ new = [severity |-> severity, count |-> new.count]
  BY DEF Recorded
<1>4. alerts[p][k] # None => known = alerts[p][k]
  BY DEF Known
<1> HIDE DEF new, known, severity, k, p
<1>5. ASSUME k \in Categories
      PROVE  /\ new \in Alerts /\ new # None
             /\ new.count <= seen[k] + 1 /\ seen[k] + 1 \in Nat \ {0}
  <2>1. seen[k] \in Nat
    BY <1>0, <1>5
  <2>2. new.count \in Nat \ {0} /\ new.count <= seen[k] + 1
    BY <1>2, <1>3, <1>5, <2>1
  <2>3. new \in Alerts
    BY <1>0, <1>3, <2>2 DEF Alerts
  <2>4. new \in [severity : {"info", "warning"}, count : Nat]
    BY <2>3 DEF Alerts, Severities
  <2> QED
    BY <2>1, <2>2, <2>3, <2>4, NoneAssumption
<1>6. /\ seen' \in [Categories -> Nat]
      /\ \A c \in Categories : c # k => seen'[c] = seen[c]
      /\ k \in Categories => seen'[k] = seen[k] + 1
  <2>1. CASE k \in Categories
    BY <1>0, <1>1, <2>1
  <2>2. CASE k \notin Categories
    BY <1>0, <1>1, <2>2
  <2> QED
    BY <2>1, <2>2
<1>7. \A c \in Categories : seen[c] \in Nat /\ seen'[c] \in Nat /\ seen'[c] >= seen[c]
  BY <1>0, <1>6
<1>8. /\ alerts' \in [Processes -> [Categories -> Alerts \union {None}]]
      /\ \A a \in Processes, c \in Categories :
            alerts'[a][c] = alerts[a][c] \/ (a = p /\ c = k /\ alerts'[a][c] = new)
  <2> DEFINE V == Alerts \union {None}
  <2>1. alerts \in [Processes -> [Categories -> V]] /\ (k \in Categories => new \in V)
    BY <1>0, <1>5
  <2> HIDE DEF V
  <2>2. /\ [alerts EXCEPT ![p][k] = new] \in [Processes -> [Categories -> V]]
        /\ \A a \in Processes, c \in Categories :
              \/ [alerts EXCEPT ![p][k] = new][a][c] = alerts[a][c]
              \/ a = p /\ c = k /\ [alerts EXCEPT ![p][k] = new][a][c] = new
    BY <1>0, <2>1, OnePlace
  <2> QED
    BY <1>1, <2>2 DEF V
<1>9. k \in Categories => alerts'[p][k] = new
  BY <1>0, <1>1, ThatPlace
<1>10. \A c \in Categories : seen'[c] > seen[c] => AlertCounted(c)
  <2>1. SUFFICES ASSUME k \in Categories PROVE AlertCounted(k)
    BY <1>6, <1>7
  <2> QED
    BY <1>0, <1>3, <1>4, <1>5, <1>9, <2>1 DEF AlertCounted
<1>11. k \in Categories =>
          alerts'[p][k] \in Alerts /\ alerts'[p][k].count <= seen'[k] /\ seen'[k] >= 1
  BY <1>5, <1>6, <1>9
<1>12. \A a \in Processes, c \in Categories :
          alerts'[a][c] = alerts[a][c] \/ alerts'[a][c].count <= seen'[c]
  BY <1>8, <1>11
<1> QED
  BY <1>6, <1>7, <1>8, <1>10, <1>11, <1>12 DEF k, p

\* A lifecycle that goes on keeps whether it was confirmed.
LEMMA LifeGoesOn ==
  ASSUME NEW life \in Lifecycles, NEW to \in RepairStatuses
  PROVE  LET next == [life EXCEPT !.status = to, !.attempts = @ + 1]
         IN  next \in Lifecycles /\ next.manual = life.manual
<1> DEFINE next == [life EXCEPT !.status = to, !.attempts = @ + 1]
<1>1. life.attempts + 1 \in Nat /\ life.manual \in BOOLEAN
  BY DEF Lifecycles
<1>2. next = [status |-> to, attempts |-> life.attempts + 1, manual |-> life.manual]
  <2> DEFINE mid == [life EXCEPT !.status = to]
  <2>1. mid = [status |-> to, attempts |-> life.attempts, manual |-> life.manual]
    BY DEF Lifecycles
  <2>2. next = [mid EXCEPT !.attempts = life.attempts + 1]
    OBVIOUS
  <2> HIDE DEF next, mid
  <2> QED
    BY <2>1, <2>2
<1> HIDE DEF next
<1> QED
  BY <1>1, <1>2 DEF Lifecycles

\* The lifecycle of a query goes on, from what the query has read of it.
LEMMA QueryTransitionFits ==
  ASSUME Inv, NEW q \in Readers, query[q].at \in {"state", "statePut"},
         NEW to \in RepairStatuses, QueryTransition(q, to), UNCHANGED confirmed
  PROVE  /\ lives' \in [Processes -> [Categories -> Lifecycles]]
         /\ \A p \in Processes, k \in Categories :
               lives'[p][k] = lives[p][k] \/ LifeFits(lives[p][k], k)'
         /\ DOMAIN query' = Readers /\ \A r \in Readers : r = q \/ query'[r] = query[r]
         /\ QueryFits(query[q])'
<1> DEFINE k == query[q].key
           life == [query[q].life EXCEPT !.status = to, !.attempts = @ + 1]
           job == [at |-> "slotRead", view |-> query[q].view, key |-> k, life |-> life]
<1>0. /\ TypeInv /\ Home[q] \in Processes
      /\ lives \in [Processes -> [Categories -> Lifecycles]]
      /\ k \in Categories => LifeFits(query[q].life, k)
  BY HomeAssumption DEF Inv, TypeInv, QueryInv, QueryFits
<1>1. /\ lives' = [lives EXCEPT ![Home[q]][k] = life]
      /\ query' = [query EXCEPT ![q] = job]
  BY DEF QueryTransition, SetQuery
<1>2. job.at = "slotRead" /\ job.key = k /\ job.life = life
  OBVIOUS
<1>3. ASSUME k \in Categories PROVE LifeFits(life, k)
  <2>1. query[q].life \in Lifecycles
    BY <1>0, <1>3 DEF LifeFits
  <2>2. life \in Lifecycles /\ life.manual = query[q].life.manual
    BY <2>1, LifeGoesOn
  <2> QED
    BY <1>0, <1>3, <2>2 DEF LifeFits
<1> HIDE DEF job, life, k
<1>4. /\ DOMAIN query' = Readers /\ query'[q] = job
      /\ \A r \in Readers : r = q \/ query'[r] = query[r]
  BY <1>0, <1>1, QuerySet
<1>5. QueryFits(query[q])'
  BY <1>2, <1>3, <1>4 DEF QueryFits, LifeFits
<1>6. /\ lives' \in [Processes -> [Categories -> Lifecycles]]
      /\ \A p \in Processes, c \in Categories :
            lives'[p][c] = lives[p][c] \/ (p = Home[q] /\ c = k /\ lives'[p][c] = life)
  <2>1. k \in Categories => life \in Lifecycles
    BY <1>3 DEF LifeFits
  <2> QED
    BY <1>0, <1>1, <2>1, OnePlace, SMTT(20)
<1>7. \A p \in Processes, c \in Categories :
         lives'[p][c] = lives[p][c] \/ LifeFits(lives[p][c], c)'
  BY <1>3, <1>6 DEF LifeFits
<1> QED
  BY <1>4, <1>5, <1>6, <1>7

LEMMA StateAnswersStep ==
  ASSUME Inv, NEW q \in Readers, StateAnswers(q)
  PROVE  Inv' /\ \A k \in Categories : seen'[k] > seen[k] => AlertCounted(k)
<1> DEFINE k == query[q].key
           severity == query[q].severity
           count == alerts'[Home[q]][k].count
           failure == ContinuityFailure(states[k], severity, count)
<1>0. TypeInv /\ QueryInv /\ LivesInv
  BY DEF Inv
<1>1. /\ UNCHANGED <<live, states, slots, records, command, promised, confirmed>>
      /\ Fails \/ Answers
      /\ query[q].at = "state"
  BY DEF StateAnswers, stores
<1>2. PICK s \in {None, states[k]} : RecordAlert(q, s)
  BY DEF StateAnswers
<1>3. \/ /\ query' = [query EXCEPT ![q] = [at |-> "rotate", view |-> query[q].view]]
         /\ lives' = lives
      \/ failure # None /\ QueryTransition(q, failure)
      \/ /\ query' = [query EXCEPT ![q] =
                        [at |-> "statePut", view |-> query[q].view, key |-> k,
                         severity |-> severity, life |-> query[q].life, count |-> count]]
         /\ lives' = lives
  BY DEF StateAnswers, Rotate, SetQuery
<1>4. /\ alerts' \in [Processes -> [Categories -> Alerts \union {None}]]
      /\ seen' \in [Categories -> Nat]
      /\ \A c \in Categories : seen'[c] >= seen[c]
      /\ \A p \in Processes, c \in Categories :
            alerts'[p][c] = alerts[p][c] \/ alerts'[p][c].count <= seen'[c]
      /\ \A c \in Categories : seen'[c] > seen[c] => AlertCounted(c)
  BY <1>1, <1>2, AlertRecorded
<1>5. k \in Categories => count \in Nat \ {0} /\ count <= seen'[k]
  BY <1>1, <1>2, AlertRecorded DEF Alerts
<1>6. severity \in Severities /\ (k \in Categories => LifeFits(query[q].life, k))
  BY <1>0, <1>1 DEF QueryInv, QueryFits
<1>7. /\ lives' \in [Processes -> [Categories -> Lifecycles]]
      /\ \A p \in Processes, c \in Categories :
            lives'[p][c] = lives[p][c] \/ LifeFits(lives[p][c], c)'
      /\ DOMAIN query' = Readers /\ \A r \in Readers : r = q \/ query'[r] = query[r]
      /\ QueryFits(query[q])'
  <2>1. CASE /\ query' = [query EXCEPT ![q] = [at |-> "rotate", view |-> query[q].view]]
             /\ lives' = lives
    <3>1. /\ DOMAIN query' = Readers /\ query'[q].at = "rotate"
          /\ \A r \in Readers : r = q \/ query'[r] = query[r]
      BY <1>0, <2>1, QuerySet
    <3> QED
      BY <1>0, <2>1, <3>1 DEF QueryFits, TypeInv
  <2>2. CASE failure # None /\ QueryTransition(q, failure)
    <3>1. failure \in RepairStatuses
      BY <2>2, FailureStatus
    <3> HIDE DEF failure
    <3> QED
      BY <1>1, <2>2, <3>1, QueryTransitionFits
  <2>3. ASSUME query' = [query EXCEPT ![q] =
                           [at |-> "statePut", view |-> query[q].view, key |-> k,
                            severity |-> severity, life |-> query[q].life,
                            count |-> count]],
               lives' = lives
        PROVE  /\ DOMAIN query' = Readers
               /\ \A r \in Readers : r = q \/ query'[r] = query[r]
               /\ QueryFits(query[q])'
    <3> HIDE DEF count
    <3>1. /\ DOMAIN query' = Readers
          /\ \A r \in Readers : r = q \/ query'[r] = query[r]
          /\ query'[q].at = "statePut" /\ query'[q].key = k
          /\ query'[q].severity = severity /\ query'[q].life = query[q].life
          /\ query'[q].count = count
      BY <1>0, <2>3 DEF TypeInv
    <3> QED
      BY <1>1, <1>5, <1>6, <3>1 DEF QueryFits, LifeFits
  <2> QED
    BY <1>0, <1>3, <2>1, <2>2, <2>3 DEF TypeInv
<1>8. TypeInv'
  BY <1>0, <1>1, <1>4, <1>7, SpentStays DEF TypeInv
<1>9. Grows
  BY <1>1, <1>4 DEF Grows, Mended
<1> HIDE DEF failure, count
<1> QED
  BY <1>1, <1>4, <1>7, <1>8, <1>9, Moves

LEMMA StatePutStep ==
  ASSUME Inv, NEW q \in Readers, StatePut(q)
  PROVE  Inv'
<1> DEFINE k == query[q].key
           stored == StoredState(query[q].severity, query[q].count)
<1>0. TypeInv /\ QueryInv /\ LivesInv /\ states \in [Categories -> StoredStates \union {None}]
  BY DEF Inv, TypeInv
<1>1. /\ UNCHANGED <<live, slots, records, alerts, command, seen, promised, confirmed>>
      /\ Fails \/ Answers
      /\ query[q].at = "statePut"
  BY DEF StatePut
<1>2. \/ /\ query' = [query EXCEPT ![q] = [at |-> "rotate", view |-> query[q].view]]
         /\ lives' = lives /\ states' = states
      \/ states' = [states EXCEPT ![k] = stored] /\ QueryTransition(q, "repaired")
  BY DEF StatePut, Rotate, SetQuery
<1>3. CASE /\ query' = [query EXCEPT ![q] = [at |-> "rotate", view |-> query[q].view]]
           /\ lives' = lives /\ states' = states
  <2>1. /\ DOMAIN query' = Readers /\ query'[q].at = "rotate"
        /\ \A r \in Readers : r = q \/ query'[r] = query[r]
    BY <1>0, <1>3, QuerySet
  <2>2. QueryFits(query[q])'
    BY <2>1 DEF QueryFits
  <2> QED
    BY <1>1, <1>3, <2>1, <2>2, QueryMovesOn
<1>4. CASE states' = [states EXCEPT ![k] = stored] /\ QueryTransition(q, "repaired")
  <2>1. "repaired" \in RepairStatuses
    BY DEF RepairStatuses
  <2>2. /\ lives' \in [Processes -> [Categories -> Lifecycles]]
        /\ \A p \in Processes, c \in Categories :
              lives'[p][c] = lives[p][c] \/ LifeFits(lives[p][c], c)'
        /\ DOMAIN query' = Readers /\ \A r \in Readers : r = q \/ query'[r] = query[r]
        /\ QueryFits(query[q])'
    BY <1>1, <1>4, <2>1, QueryTransitionFits
  <2>3. query[q].severity \in Severities
    BY <1>0, <1>1 DEF QueryInv, QueryFits
  <2>4. ASSUME k \in Categories
        PROVE  /\ stored \in StoredStates /\ Mended(stored)
               /\ stored.count <= seen[k] /\ seen[k] >= 1
    <3>1. query[q].count \in Nat \ {0} /\ query[q].count <= seen[k] /\ seen[k] \in Nat
      BY <1>0, <1>1, <2>4 DEF QueryInv, QueryFits, TypeInv
    <3> QED
      BY <2>3, <3>1, StoredFits
  <2> HIDE DEF stored, k
  <2>5. /\ states' \in [Categories -> StoredStates \union {None}]
        /\ \A c \in Categories : states'[c] = states[c] \/ (c = k /\ states'[c] = stored)
    BY <1>0, <1>4, <2>4
  <2>6. TypeInv'
    BY <1>0, <1>1, <2>2, <2>5, SpentStays DEF TypeInv
  <2>7. Grows
    BY <1>0, <1>1, <2>4, <2>5 DEF Grows, Mended, TypeInv
  <2>8. \A c \in Categories : \/ states'[c] = states[c]
                              \/ seen'[c] >= 1 /\ states'[c].count <= seen'[c]
    BY <1>1, <2>4, <2>5
  <2> QED
    BY <1>1, <2>2, <2>6, <2>7, <2>8, Moves
<1> QED
  BY <1>2, <1>3, <1>4

-----------------------------------------------------------------------------
(***************************************************************************)
(* The repair commands.                                                    *)
(***************************************************************************)

\* A repaired state is mended, and counts no more than there was.
LEMMA RepairedFits ==
  ASSUME NEW s \in StoredStates, RepairedState(s) # None
  PROVE  /\ RepairedState(s) \in StoredStates /\ Mended(RepairedState(s))
         /\ \A n \in Nat : n >= 1 /\ s.count <= n => RepairedState(s).count <= n
<1> DEFINE count == IF s.count < 1 THEN 1 ELSE s.count
           version == IF s.version = "none"
                         \/ ReadCompatibility(s) = "compatible_with_notice"
                      THEN "current" ELSE s.version
           m1 == [s EXCEPT !.version = version]
           m2 == [m1 EXCEPT !.count = count]
           m3 == [m2 EXCEPT !.times = "ordered"]
           m4 == [m3 EXCEPT !.last = ExpectedStatus(count, s.severity)]
<1>1. RepairedState(s) = m4
  BY DEF RepairedState
<1>2. /\ s.version \in {"current", "older", "foreign", "blank", "none"}
      /\ s.count \in Nat
  BY DEF StoredStates
<1>3. /\ version \in {"current", "older", "foreign", "blank"} /\ count \in Nat /\ count >= 1
      /\ ExpectedStatus(count, s.severity) \in {"emitted", "deduplicated", "suppressed_with_notice"}
      /\ \A n \in Nat : n >= 1 /\ s.count <= n => count <= n
  BY <1>2 DEF ExpectedStatus
<1> HIDE DEF count, version, m4
<1>4. m4 \in StoredStates
      /\ m4.version = version /\ m4.count = count /\ m4.times = "ordered" /\ m4.severity = s.severity
      /\ m4.last = ExpectedStatus(count, s.severity)
  <2>1. m1 \in StoredStates /\ m1.version = version /\ m1.severity = s.severity
    BY <1>3 DEF StoredStates
  <2> HIDE DEF m1
  <2>2. m2 \in StoredStates /\ m2.version = version /\ m2.count = count
        /\ m2.severity = s.severity
    BY <1>3, <2>1 DEF StoredStates
  <2> HIDE DEF m2
  <2>3. m3 \in StoredStates /\ m3.version = version /\ m3.count = count /\ m3.times = "ordered"
        /\ m3.severity = s.severity
    BY <2>2 DEF StoredStates
  <2> HIDE DEF m3
  <2> QED
    BY <1>3, <2>3 DEF StoredStates, m4
<1>5. m4 # None
  BY <1>4, NoneAssumption
<1>6. Mended(m4)
  BY <1>3, <1>4, <1>5 DEF Mended, Malformed
<1> QED
  BY <1>1, <1>3, <1>4, <1>6

\* A lifecycle that is remembered or put back.
LEMMA LivesSet ==
  ASSUME TypeInv, NEW p \in Processes, NEW k \in Categories, NEW life \in Lifecycles,
         life.manual => k \in confirmed',
         lives' \in {lives, [lives EXCEPT ![p][k] = life]}
  PROVE  /\ lives' \in [Processes -> [Categories -> Lifecycles]]
         /\ \A a \in Processes, c \in Categories :
               lives'[a][c] = lives[a][c] \/ LifeFits(lives[a][c], c)'
<1>1. lives \in [Processes -> [Categories -> Lifecycles]]
  BY DEF TypeInv
<1>2. /\ [lives EXCEPT ![p][k] = life] \in [Processes -> [Categories -> Lifecycles]]
      /\ \A a \in Processes, c \in Categories :
            \/ [lives EXCEPT ![p][k] = life][a][c] = lives[a][c]
            \/ a = p /\ c = k /\ [lives EXCEPT ![p][k] = life][a][c] = life
  BY <1>1, OnePlace
<1> QED
  BY <1>1, <1>2 DEF LifeFits

\* Where a command is put.
LEMMA CommandSet ==
  ASSUME TypeInv, NEW o \in Operators, NEW job, command' = [command EXCEPT ![o] = job]
  PROVE  /\ DOMAIN command' = Operators /\ command'[o] = job
         /\ \A x \in Operators : x = o \/ command'[x] = command[x]
  BY DEF TypeInv

\* A command that writes neither state nor slot keeps the invariant.
LEMMA CommandMovesOn ==
  ASSUME Inv, NEW o \in Operators, Fails \/ Answers,
         UNCHANGED <<live, states, slots, alerts, query, seen, promised>>,
         records \subseteq records',
         records' \subseteq [id : Nat, key : Categories, status : RepairStatuses],
         confirmed \subseteq confirmed', confirmed' \subseteq Categories,
         lives' \in [Processes -> [Categories -> Lifecycles]],
         \A p \in Processes, k \in Categories :
             lives'[p][k] = lives[p][k] \/ LifeFits(lives[p][k], k)',
         DOMAIN command' = Operators,
         \A x \in Operators : x = o \/ command'[x] = command[x],
         CommandFits(command[o])'
  PROVE  Inv'
<1>1. TypeInv'
  BY SpentStays DEF Inv, TypeInv
<1>2. Grows
  BY DEF Grows, Mended, Inv, TypeInv
<1> QED
  BY <1>1, <1>2, Moves

\* An ended command carries nothing.
LEMMA EndedFits ==
  ASSUME TypeInv, NEW o \in Operators, EndCommand(o)
  PROVE  /\ DOMAIN command' = Operators
         /\ \A x \in Operators : x = o \/ command'[x] = command[x]
         /\ CommandFits(command[o])'
<1>1. /\ DOMAIN command' = Operators /\ command'[o] = Idle
      /\ \A x \in Operators : x = o \/ command'[x] = command[x]
  BY CommandSet DEF EndCommand, SetCommand
<1> QED
  BY <1>1 DEF CommandFits, Idle

\* A command moves the lifecycle on from one that fits.
LEMMA CommandTransitionFits ==
  ASSUME TypeInv, NEW o \in Operators, command[o].at \in {"sync", "read", "put"},
         CommandFits(command[o]), NEW to \in RepairStatuses, NEW life,
         LifeFits(life, command[o].key), CommandTransition(o, to, life),
         confirmed \subseteq confirmed',
         to = "repaired" => Mended(states[command[o].key])',
         command[o].type = "confirm" => command[o].key \in confirmed'
  PROVE  /\ lives' \in [Processes -> [Categories -> Lifecycles]]
         /\ \A p \in Processes, k \in Categories :
               lives'[p][k] = lives[p][k] \/ LifeFits(lives[p][k], k)'
         /\ DOMAIN command' = Operators
         /\ \A x \in Operators : x = o \/ command'[x] = command[x]
         /\ CommandFits(command[o])'
<1> DEFINE k == command[o].key
           n == IF command[o].type = "confirm" THEN 0 ELSE 1
           next == [status |-> to, attempts |-> life.attempts + n,
                    manual |-> life.manual \/ command[o].type = "confirm"]
           job == [at |-> "record", type |-> command[o].type, key |-> k,
                   id |-> command[o].id, life |-> next, previous |-> life]
<1>1. /\ k \in Categories /\ command[o].id \in Nat /\ Home[o] \in Processes
      /\ lives \in [Processes -> [Categories -> Lifecycles]]
  BY HomeAssumption DEF CommandFits, TypeInv
<1>2. /\ life \in Lifecycles /\ life.attempts \in Nat /\ life.manual \in BOOLEAN
      /\ life.manual => k \in confirmed
  BY DEF LifeFits, Lifecycles
<1>3. n \in Nat
  OBVIOUS
<1> HIDE DEF n
<1>4. next \in Lifecycles /\ next.status = to /\ (next.manual => k \in confirmed')
  BY <1>2, <1>3 DEF Lifecycles
<1>5. /\ lives' = [lives EXCEPT ![Home[o]][k] = next]
      /\ command' = [command EXCEPT ![o] = job]
  BY DEF CommandTransition, SetCommand, n
<1>6. /\ job.at = "record" /\ job.key = k /\ job.id = command[o].id /\ job.life = next
      /\ job.previous = life
  OBVIOUS
<1> HIDE DEF next, job, k
<1>7. /\ lives' \in [Processes -> [Categories -> Lifecycles]]
      /\ \A p \in Processes, c \in Categories :
            lives'[p][c] = lives[p][c] \/ LifeFits(lives[p][c], c)'
  BY <1>1, <1>4, <1>5, LivesSet
<1>8. /\ DOMAIN command' = Operators /\ command'[o] = job
      /\ \A x \in Operators : x = o \/ command'[x] = command[x]
  BY <1>5, CommandSet
<1>9. CommandFits(command[o])'
  BY <1>1, <1>2, <1>4, <1>6, <1>8 DEF CommandFits, LifeFits, RepairedIsMended, k
<1> QED
  BY <1>7, <1>8, <1>9

LEMMA BeginCommandStep ==
  ASSUME Inv, NEW o \in Operators, NEW type \in CommandTypes, NEW k \in Categories,
         BeginCommand(o, type, k)
  PROVE  Inv'
<1> DEFINE job == [at |-> "sync", type |-> type, key |-> k, id |-> spent,
                   checked |-> FALSE, remembered |-> lives[Home[o]][k]]
<1>0. TypeInv /\ LivesInv /\ Home[o] \in Processes
  BY HomeAssumption DEF Inv
<1>1. /\ UNCHANGED <<live, states, slots, records, alerts, lives, query, seen, promised,
                     confirmed>>
      /\ Fails
      /\ command' = [command EXCEPT ![o] = job]
  BY DEF BeginCommand, stores, memory, Fails, Sync, SetCommand
<1>2. lives[Home[o]][k] \in Lifecycles /\ LifeFits(lives[Home[o]][k], k) /\ spent \in Nat
  BY <1>0 DEF LivesInv, LifeFits, TypeInv
<1>3. /\ job \in Syncs /\ job.at = "sync" /\ job.key = k /\ job.id = spent
      /\ job.checked = FALSE /\ job.remembered = lives[Home[o]][k]
  BY <1>2 DEF Syncs
<1> HIDE DEF job
<1>4. /\ DOMAIN command' = Operators /\ command'[o] = job
      /\ \A x \in Operators : x = o \/ command'[x] = command[x]
  BY <1>0, <1>1, CommandSet
<1>5. CommandFits(command[o])'
  BY <1>1, <1>2, <1>3, <1>4 DEF CommandFits, LifeFits
<1>6. /\ records \subseteq records' /\ confirmed \subseteq confirmed'
      /\ records' \subseteq [id : Nat, key : Categories, status : RepairStatuses]
      /\ confirmed' \subseteq Categories
      /\ lives' \in [Processes -> [Categories -> Lifecycles]] /\ lives' = lives
  BY <1>0, <1>1 DEF TypeInv
<1> QED
  BY <1>1, <1>4, <1>5, <1>6, CommandMovesOn

LEMMA SyncAnswersStep ==
  ASSUME Inv, NEW o \in Operators, SyncAnswers(o)
  PROVE  Inv'
<1> DEFINE job == command[o]
           k == job.key
           slot == slots[k]
<1>0. TypeInv /\ LivesInv /\ CommandFits(job) /\ Home[o] \in Processes
  BY HomeAssumption DEF Inv, CommandInv
<1>1. /\ UNCHANGED <<live, states, slots, records, alerts, query, seen, promised>>
      /\ Fails \/ Answers
      /\ job.at = "sync"
  BY DEF SyncAnswers, stores
<1>2. PICK life \in {job.remembered, LifecycleRead(slot, job.remembered)} :
        \/ /\ job.checked
           /\ SetCommand(o, [at |-> "read", type |-> job.type, key |-> k, id |-> job.id])
           /\ lives' = [lives EXCEPT ![Home[o]][k] = life]
           /\ confirmed' = confirmed
        \/ /\ job.type = "confirm"
           /\ CommandTransition(o, "manually_confirmed", life)
           /\ confirmed' = confirmed \union {k}
        \/ /\ \/ /\ job.type \in {"repair", "retry"}
                 /\ Sync(o, [job EXCEPT !.checked = TRUE], life)
              \/ EndCommand(o)
           /\ lives' = [lives EXCEPT ![Home[o]][k] = life]
           /\ confirmed' = confirmed
  BY DEF SyncAnswers
<1>3. /\ job \in Syncs /\ k \in Categories /\ job.id \in Nat
      /\ LifeFits(job.remembered, k)
      /\ job.checked => job.type # "confirm"
  BY <1>0, <1>1 DEF CommandFits
<1>4. LifeFits(life, k) /\ life \in Lifecycles
  BY <1>0, <1>2, <1>3, WhatIsReadFits DEF LifeFits
<1>5. /\ records \subseteq records' /\ confirmed \subseteq confirmed'
      /\ records' \subseteq [id : Nat, key : Categories, status : RepairStatuses]
      /\ confirmed' \subseteq Categories
  BY <1>0, <1>1, <1>2, <1>3 DEF TypeInv
<1>6. lives' = [lives EXCEPT ![Home[o]][k] = life] =>
        /\ lives' \in [Processes -> [Categories -> Lifecycles]]
        /\ \A p \in Processes, c \in Categories :
              lives'[p][c] = lives[p][c] \/ LifeFits(lives[p][c], c)'
  BY <1>0, <1>3, <1>4, <1>5, LivesSet DEF LifeFits
<1> HIDE DEF slot
<1>7. CASE /\ job.checked
           /\ SetCommand(o, [at |-> "read", type |-> job.type, key |-> k, id |-> job.id])
           /\ lives' = [lives EXCEPT ![Home[o]][k] = life]
  <2>1. /\ DOMAIN command' = Operators
        /\ command'[o] = [at |-> "read", type |-> job.type, key |-> k, id |-> job.id]
        /\ \A x \in Operators : x = o \/ command'[x] = command[x]
    BY <1>0, <1>7, CommandSet DEF SetCommand
  <2>2. CommandFits(command[o])'
    BY <1>3, <1>7, <2>1 DEF CommandFits
  <2> QED
    BY <1>1, <1>5, <1>6, <1>7, <2>1, <2>2, CommandMovesOn
<1>8. CASE /\ job.type = "confirm"
           /\ CommandTransition(o, "manually_confirmed", life)
           /\ confirmed' = confirmed \union {k}
  <2>1. "manually_confirmed" \in RepairStatuses /\ "manually_confirmed" # "repaired"
    BY DEF RepairStatuses
  <2>2. /\ lives' \in [Processes -> [Categories -> Lifecycles]]
        /\ \A p \in Processes, c \in Categories :
              lives'[p][c] = lives[p][c] \/ LifeFits(lives[p][c], c)'
        /\ DOMAIN command' = Operators
        /\ \A x \in Operators : x = o \/ command'[x] = command[x]
        /\ CommandFits(command[o])'
    BY <1>0, <1>1, <1>4, <1>5, <1>8, <2>1, CommandTransitionFits
  <2> QED
    BY <1>1, <1>5, <2>2, CommandMovesOn
<1>9. CASE /\ job.type \in {"repair", "retry"}
           /\ Sync(o, [job EXCEPT !.checked = TRUE], life)
           /\ lives' = [lives EXCEPT ![Home[o]][k] = life]
  <2> DEFINE again == [job EXCEPT !.checked = TRUE]
             next == [at |-> "sync", type |-> again.type, key |-> again.key,
                      id |-> again.id, checked |-> again.checked, remembered |-> life]
  <2>1. again.type = job.type /\ again.key = k /\ again.id = job.id /\ again.checked
    BY <1>3 DEF Syncs
  <2>2. command' = [command EXCEPT ![o] = next]
    BY <1>9 DEF Sync, SetCommand
  <2>3. next = [at |-> "sync", type |-> job.type, key |-> k, id |-> job.id,
                checked |-> again.checked, remembered |-> life]
    BY <2>1
  <2>4. again.checked \in BOOLEAN
    BY <1>3 DEF Syncs
  <2> HIDE DEF again, next
  <2>5. /\ next \in Syncs /\ next.at = "sync" /\ next.key = k /\ next.id = job.id
        /\ next.remembered = life /\ next.type = job.type
    BY <1>3, <1>4, <2>3, <2>4 DEF Syncs
  <2>6. /\ DOMAIN command' = Operators /\ command'[o] = next
        /\ \A x \in Operators : x = o \/ command'[x] = command[x]
    BY <1>0, <2>2, CommandSet
  <2>7. life \in Lifecycles /\ (life.manual => k \in confirmed')
    BY <1>4, <1>5 DEF LifeFits
  <2>8. CommandFits(command[o])'
    BY <1>3, <1>9, <2>5, <2>6, <2>7 DEF CommandFits, LifeFits
  <2> QED
    BY <1>1, <1>5, <1>6, <1>9, <2>6, <2>8, CommandMovesOn
<1>10. CASE EndCommand(o) /\ lives' = [lives EXCEPT ![Home[o]][k] = life]
  <2>1. /\ DOMAIN command' = Operators
        /\ \A x \in Operators : x = o \/ command'[x] = command[x]
        /\ CommandFits(command[o])'
    BY <1>0, <1>10, EndedFits
  <2> QED
    BY <1>1, <1>5, <1>6, <1>10, <2>1, CommandMovesOn
<1> QED
  BY <1>2, <1>7, <1>8, <1>9, <1>10

LEMMA PutRecordStep ==
  ASSUME Inv, NEW o \in Operators, PutRecord(o)
  PROVE  Inv'
<1> DEFINE job == command[o]
           k == job.key
           record == [id |-> job.id, key |-> k, status |-> job.life.status]
<1>0. TypeInv /\ CommandFits(job)
  BY DEF Inv, CommandInv
<1>1. /\ UNCHANGED <<live, states, slots, alerts, lives, query, seen, promised, confirmed>>
      /\ Fails \/ Answers
      /\ job.at = "record"
  BY DEF PutRecord, memory
<1>2. PICK link \in {None, job.id} :
        /\ command' = [command EXCEPT ![o] =
             [at |-> "slotRead", type |-> job.type, key |-> k, life |-> job.life,
              previous |-> job.previous, link |-> link]]
        /\ \/ records' = records /\ link = None
           \/ records' = records \union {record} /\ link = job.id
  BY DEF PutRecord, SetCommand
<1>3. /\ k \in Categories /\ job.id \in Nat /\ job.life.status \in RepairStatuses
      /\ LifeFits(job.life, k) /\ LifeFits(job.previous, k)
      /\ RepairedIsMended(job.life.status, k)
  BY <1>0, <1>1 DEF CommandFits, LifeFits, Lifecycles
<1>4. /\ record \in [id : Nat, key : Categories, status : RepairStatuses]
      /\ record.id = job.id /\ record.key = k /\ record.status = job.life.status
  BY <1>3
<1> HIDE DEF record
<1>5. /\ records \subseteq records' /\ confirmed \subseteq confirmed'
      /\ records' \subseteq [id : Nat, key : Categories, status : RepairStatuses]
      /\ confirmed' \subseteq Categories
      /\ lives' \in [Processes -> [Categories -> Lifecycles]] /\ lives' = lives
  BY <1>0, <1>1, <1>2, <1>4 DEF TypeInv
<1>6. Resolves(link, k, job.life.status)'
  BY <1>2, <1>4 DEF Resolves
<1>7. /\ LifeFits(job.life, k) /\ LifeFits(job.previous, k)
      /\ RepairedIsMended(job.life.status, k) /\ UNCHANGED <<states, confirmed>>
  BY <1>1, <1>3
<1> DEFINE next == [at |-> "slotRead", type |-> job.type, key |-> k, life |-> job.life,
                    previous |-> job.previous, link |-> link]
<1>8. /\ next.at = "slotRead" /\ next.key = k /\ next.life = job.life
      /\ next.previous = job.previous /\ next.link = link
  OBVIOUS
<1>9. /\ DOMAIN command' = Operators /\ command'[o] = next
      /\ \A x \in Operators : x = o \/ command'[x] = command[x]
  BY <1>0, <1>2, CommandSet
<1> HIDE DEF next
<1>10. CommandFits(command[o])'
  BY <1>3, <1>6, <1>7, <1>8, <1>9
     DEF CommandFits, LifeFits, RepairedIsMended, Resolves, Mended
<1> QED
  BY <1>1, <1>5, <1>9, <1>10, CommandMovesOn

LEMMA ReadStateStep ==
  ASSUME Inv, NEW o \in Operators, ReadState(o)
  PROVE  Inv'
<1> DEFINE job == command[o]
           k == job.key
           life == lives[Home[o]][k]
           s == states[k]
<1>0. TypeInv /\ LivesInv /\ CommandFits(job) /\ Home[o] \in Processes
  BY HomeAssumption DEF Inv, CommandInv
<1>1. /\ UNCHANGED <<live, states, slots, records, alerts, query, seen, promised,
                     confirmed>>
      /\ Fails \/ Answers
      /\ job.at = "read"
  BY DEF ReadState, stores
<1>2. \/ CommandTransition(o, "repair_failed_retryable", life)
      \/ CommandTransition(o, "repair_failed_manual_confirmation_required", life)
      \/ /\ s # None /\ RepairedState(s) # None /\ RepairedState(s) = s
         /\ CommandTransition(o, "repaired", life)
      \/ /\ s # None /\ RepairedState(s) # None
         /\ SetCommand(o, [at |-> "put", type |-> job.type, key |-> k, id |-> job.id,
                           state |-> RepairedState(s)])
         /\ lives' = lives
  BY DEF ReadState
<1>3. /\ k \in Categories /\ job.id \in Nat /\ job.type # "confirm"
      /\ LifeFits(life, k) /\ s \in StoredStates \union {None}
  BY <1>0, <1>1 DEF CommandFits, LivesInv, TypeInv
<1>4. ASSUME s # None, RepairedState(s) # None
      PROVE  /\ RepairedState(s) \in StoredStates /\ Mended(RepairedState(s))
             /\ RepairedState(s).count <= seen[k]
  <2>1. s \in StoredStates /\ s.count <= seen[k] /\ seen[k] >= 1 /\ seen[k] \in Nat
    BY <1>0, <1>3, <1>4 DEF Inv, SeenInv, CountsAreObserved, TypeInv
  <2> QED
    BY <1>4, <2>1, RepairedFits
<1>5. /\ records \subseteq records' /\ confirmed \subseteq confirmed'
      /\ records' \subseteq [id : Nat, key : Categories, status : RepairStatuses]
      /\ confirmed' \subseteq Categories
  BY <1>0, <1>1 DEF TypeInv
<1>6. ASSUME NEW to \in RepairStatuses, CommandTransition(o, to, life),
             to = "repaired" => Mended(s)
      PROVE  Inv'
  <2>1. k' = k
    BY <1>0, <1>6, CommandSet DEF CommandTransition, SetCommand
  <2>2. to = "repaired" => Mended(states[k])'
    BY <1>1, <1>6, <2>1 DEF Mended
  <2>3. /\ lives' \in [Processes -> [Categories -> Lifecycles]]
        /\ \A p \in Processes, c \in Categories :
              lives'[p][c] = lives[p][c] \/ LifeFits(lives[p][c], c)'
        /\ DOMAIN command' = Operators
        /\ \A x \in Operators : x = o \/ command'[x] = command[x]
        /\ CommandFits(command[o])'
    BY <1>0, <1>1, <1>3, <1>5, <1>6, <2>2, CommandTransitionFits
  <2> QED
    BY <1>1, <1>5, <2>3, CommandMovesOn
<1>7. ASSUME s # None, RepairedState(s) # None,
             SetCommand(o, [at |-> "put", type |-> job.type, key |-> k, id |-> job.id,
                            state |-> RepairedState(s)]),
             lives' = lives
      PROVE  Inv'
  <2> DEFINE next == [at |-> "put", type |-> job.type, key |-> k, id |-> job.id,
                      state |-> RepairedState(s)]
  <2>1. /\ next.at = "put" /\ next.type = job.type /\ next.key = k /\ next.id = job.id
        /\ next.state = RepairedState(s)
    OBVIOUS
  <2>2. /\ DOMAIN command' = Operators /\ command'[o] = next
        /\ \A x \in Operators : x = o \/ command'[x] = command[x]
    BY <1>0, <1>7, CommandSet DEF SetCommand
  <2>3. /\ RepairedState(s) \in StoredStates /\ Mended(RepairedState(s))
        /\ RepairedState(s).count <= seen'[k]
    BY <1>1, <1>4, <1>7
  <2> HIDE DEF next, s
  <2>4. CommandFits(command[o])'
    BY <1>3, <2>1, <2>2, <2>3 DEF CommandFits, Mended
  <2>5. lives' \in [Processes -> [Categories -> Lifecycles]]
    BY <1>0, <1>7 DEF TypeInv
  <2> QED
    BY <1>1, <1>5, <1>7, <2>2, <2>4, <2>5, CommandMovesOn
<1>8. {"repair_failed_retryable", "repair_failed_manual_confirmation_required", "repaired"}
         \subseteq RepairStatuses
  BY DEF RepairStatuses
<1> QED
  BY <1>2, <1>4, <1>6, <1>7, <1>8

\* The state that was to be written is written, or the command goes on without.
LEMMA PutStateStep ==
  ASSUME Inv, NEW o \in Operators, PutState(o)
  PROVE  Inv'
<1> DEFINE job == command[o]
           k == job.key
           life == lives[Home[o]][k]
<1>0. /\ TypeInv /\ LivesInv /\ CommandFits(job) /\ Home[o] \in Processes
      /\ states \in [Categories -> StoredStates \union {None}]
  BY HomeAssumption DEF Inv, CommandInv, TypeInv
<1>1. /\ UNCHANGED <<live, slots, records, alerts, query, seen, promised, confirmed>>
      /\ Fails \/ Answers
      /\ job.at = "put"
  BY DEF PutState
<1>2. PICK to \in {"repair_failed_retryable", "repaired"} :
        /\ CommandTransition(o, to, life)
        /\ \/ to = "repair_failed_retryable" /\ states' = states
           \/ to = "repaired" /\ states' = [states EXCEPT ![k] = job.state]
  BY DEF PutState
<1>3. /\ k \in Categories /\ job.type # "confirm" /\ LifeFits(life, k)
      /\ job.state \in StoredStates /\ Mended(job.state)
      /\ job.state.count <= seen[k] /\ seen[k] \in Nat /\ to \in RepairStatuses
  BY <1>0, <1>1 DEF CommandFits, LivesInv, TypeInv, RepairStatuses
<1>4. job.state.count \in Nat /\ job.state.count >= 1
  BY <1>3 DEF StoredStates, Mended, Malformed
<1>5. k' = k
  BY <1>0, <1>2, CommandSet DEF CommandTransition, SetCommand
<1>6. /\ states' \in [Categories -> StoredStates \union {None}]
      /\ \A c \in Categories : states'[c] = states[c] \/ (c = k /\ states'[c] = job.state)
      /\ to = "repaired" => states'[k] = job.state
  BY <1>0, <1>2, <1>3
<1>7. to = "repaired" => Mended(states[k])'
  BY <1>3, <1>5, <1>6 DEF Mended
<1>8. /\ lives' \in [Processes -> [Categories -> Lifecycles]]
      /\ \A p \in Processes, c \in Categories :
            lives'[p][c] = lives[p][c] \/ LifeFits(lives[p][c], c)'
      /\ DOMAIN command' = Operators
      /\ \A x \in Operators : x = o \/ command'[x] = command[x]
      /\ CommandFits(command[o])'
  BY <1>0, <1>1, <1>2, <1>3, <1>7, CommandTransitionFits
<1>9. TypeInv'
  BY <1>0, <1>1, <1>6, <1>8, SpentStays DEF TypeInv
<1>10. Grows
  BY <1>0, <1>1, <1>3, <1>6 DEF Grows, Mended, TypeInv
<1>11. \A c \in Categories : \/ states'[c] = states[c]
                             \/ seen'[c] >= 1 /\ states'[c].count <= seen'[c]
  BY <1>1, <1>3, <1>4, <1>6
<1> QED
  BY <1>1, <1>8, <1>9, <1>10, <1>11, Moves

\* The slot could not be written: the lifecycle is put back.
LEMMA RollBackStep ==
  ASSUME Inv, NEW o \in Operators, command[o].at \in {"slotRead", "slotPut"}, RollBack(o),
         Fails \/ Answers,
         UNCHANGED <<live, states, slots, records, alerts, query, seen, promised, confirmed>>
  PROVE  Inv'
<1>0. TypeInv /\ CommandFits(command[o]) /\ Home[o] \in Processes
  BY HomeAssumption DEF Inv, CommandInv
<1>1. /\ command[o].key \in Categories /\ command[o].previous \in Lifecycles
      /\ command[o].previous.manual => command[o].key \in confirmed'
  BY <1>0 DEF CommandFits, LifeFits
<1>2. /\ lives' \in [Processes -> [Categories -> Lifecycles]]
      /\ \A p \in Processes, c \in Categories :
            lives'[p][c] = lives[p][c] \/ LifeFits(lives[p][c], c)'
  <2>1. lives' = [lives EXCEPT ![Home[o]][command[o].key] = command[o].previous]
    BY DEF RollBack
  <2> QED
    BY <1>0, <1>1, <2>1, LivesSet
<1>3. /\ DOMAIN command' = Operators
      /\ \A x \in Operators : x = o \/ command'[x] = command[x]
      /\ CommandFits(command[o])'
  BY <1>0, EndedFits DEF RollBack
<1>4. /\ records \subseteq records' /\ confirmed \subseteq confirmed'
      /\ records' \subseteq [id : Nat, key : Categories, status : RepairStatuses]
      /\ confirmed' \subseteq Categories
  BY <1>0 DEF TypeInv
<1> QED
  BY <1>2, <1>3, <1>4, CommandMovesOn

LEMMA CommandSlotReadStep ==
  ASSUME Inv, NEW o \in Operators, CommandSlotRead(o)
  PROVE  Inv'
<1> DEFINE job == command[o]
           k == job.key
           slot == NextSlot(slots[k], job.life, job.link)
           next == [at |-> "slotPut", type |-> job.type, key |-> k,
                    previous |-> job.previous, slot |-> slot]
<1>0. TypeInv /\ CommandFits(job)
  BY DEF Inv, CommandInv
<1>1. /\ UNCHANGED <<live, states, slots, records, alerts, query, seen, promised,
                     confirmed>>
      /\ Fails \/ Answers
      /\ job.at = "slotRead"
      /\ RollBack(o) \/ (command' = [command EXCEPT ![o] = next] /\ lives' = lives)
  BY DEF CommandSlotRead, SetCommand, stores
<1>2. CASE RollBack(o)
  BY <1>1, <1>2, RollBackStep
<1>3. CASE command' = [command EXCEPT ![o] = next] /\ lives' = lives
  <2>1. /\ next.at = "slotPut" /\ next.key = k /\ next.previous = job.previous
        /\ next.slot.current = job.life /\ next.slot.link = job.link
    BY DEF NextSlot
  <2>2. /\ k \in Categories /\ LifeFits(job.life, k) /\ LifeFits(job.previous, k)
        /\ RepairedIsMended(job.life.status, k)
        /\ Resolves(job.link, k, job.life.status)
    BY <1>0, <1>1 DEF CommandFits
  <2> HIDE DEF next, slot
  <2>3. /\ DOMAIN command' = Operators /\ command'[o] = next
        /\ \A x \in Operators : x = o \/ command'[x] = command[x]
    BY <1>0, <1>3, CommandSet
  <2>4. CommandFits(command[o])'
    BY <1>1, <2>1, <2>2, <2>3
       DEF CommandFits, LifeFits, RepairedIsMended, Resolves, Mended
  <2>5. /\ records \subseteq records' /\ confirmed \subseteq confirmed'
        /\ records' \subseteq [id : Nat, key : Categories, status : RepairStatuses]
        /\ confirmed' \subseteq Categories
        /\ lives' \in [Processes -> [Categories -> Lifecycles]]
    BY <1>0, <1>1, <1>3 DEF TypeInv
  <2> QED
    BY <1>1, <1>3, <2>3, <2>4, <2>5, CommandMovesOn
<1> QED
  BY <1>1, <1>2, <1>3

LEMMA CommandSlotPutStep ==
  ASSUME Inv, NEW o \in Operators, CommandSlotPut(o)
  PROVE  Inv'
<1> DEFINE job == command[o]
           k == job.key
           slot == job.slot
<1>0. TypeInv /\ CommandFits(job)
  BY DEF Inv, CommandInv
<1>1. /\ UNCHANGED <<live, states, records, alerts, query, seen, confirmed>>
      /\ Fails \/ Answers
      /\ job.at = "slotPut"
      /\ \/ RollBack(o) /\ UNCHANGED <<slots, promised>>
         \/ /\ slots' = [slots EXCEPT ![k] = slot]
            /\ promised' = IF slot.current.status = "repaired"
                           THEN promised \union {k} ELSE promised
            /\ EndCommand(o) /\ lives' = lives
  BY DEF CommandSlotPut
<1>2. CASE RollBack(o) /\ UNCHANGED <<slots, promised>>
  BY <1>1, <1>2, RollBackStep
<1>3. CASE /\ slots' = [slots EXCEPT ![k] = slot]
           /\ promised' = IF slot.current.status = "repaired"
                          THEN promised \union {k} ELSE promised
           /\ EndCommand(o) /\ lives' = lives
  <2>1. /\ k \in Categories /\ LifeFits(slot.current, k)
        /\ RepairedIsMended(slot.current.status, k)
        /\ Resolves(slot.link, k, slot.current.status)
    BY <1>0, <1>1 DEF CommandFits
  <2>2. /\ DOMAIN command' = Operators
        /\ \A x \in Operators : x = o \/ command'[x] = command[x]
        /\ CommandFits(command[o])'
    BY <1>0, <1>3, EndedFits
  <2> HIDE DEF slot, k
  <2>3. /\ DOMAIN slots' = Categories
        /\ \A c \in Categories : slots'[c] = slots[c] \/ (c = k /\ slots'[c] = slot)
    BY <1>0, <1>3 DEF TypeInv
  <2>4. \A c \in Categories :
           \/ slots'[c] = slots[c]
           \/ /\ LifeFits(slots[c].current, c)'
              /\ Resolves(slots[c].link, c, slots[c].current.status)'
    BY <1>1, <2>1, <2>3 DEF LifeFits, Resolves
  <2>5. \A c \in promised' \ promised : Mended(states[c])'
    BY <1>1, <1>3, <2>1 DEF RepairedIsMended, Mended
  <2>6. TypeInv'
    BY <1>0, <1>1, <1>3, <2>1, <2>2, <2>3, SpentStays DEF TypeInv
  <2>7. Grows
    BY <1>0, <1>1 DEF Grows, Mended, TypeInv
  <2> QED
    BY <1>1, <1>3, <2>2, <2>4, <2>5, <2>6, <2>7, Moves
<1> QED
  BY <1>1, <1>2, <1>3

-----------------------------------------------------------------------------
(***************************************************************************)
(* The invariant holds.                                                    *)
(***************************************************************************)

\* A restarted process remembers nothing, and its calls are gone.
LEMMA RestartStep ==
  ASSUME Inv, NEW p \in Processes, Restart(p)
  PROVE  Inv'
<1>0. TypeInv
  BY DEF Inv
<1>1. /\ UNCHANGED <<live, states, slots, records, seen, promised, confirmed>>
      /\ Fails
      /\ alerts' = [alerts EXCEPT ![p] = [k \in Categories |-> None]]
      /\ lives' = [lives EXCEPT ![p] = [k \in Categories |-> NoLife]]
      /\ query' = [q \in Readers |-> IF Home[q] = p THEN Idle ELSE query[q]]
      /\ command' = [o \in Operators |-> IF Home[o] = p THEN Idle ELSE command[o]]
  BY DEF Restart, stores, Fails
<1>2. NoLife \in Lifecycles /\ ~NoLife.manual
  BY DEF NoLife, Lifecycles, RepairStatuses
<1>3. QueryFits(Idle) /\ CommandFits(Idle)
  BY DEF QueryFits, CommandFits, Idle
<1>4. /\ alerts' \in [Processes -> [Categories -> Alerts \union {None}]]
      /\ \A a \in Processes, k \in Categories : alerts'[a][k] \in {alerts[a][k], None}
  BY <1>0, <1>1 DEF TypeInv
<1>5. /\ lives' \in [Processes -> [Categories -> Lifecycles]]
      /\ \A a \in Processes, k \in Categories :
            lives'[a][k] = lives[a][k] \/ lives'[a][k] = NoLife
  BY <1>0, <1>1, <1>2 DEF TypeInv
<1> HIDE DEF NoLife, Idle
<1>6. TypeInv'
  BY <1>0, <1>1, <1>4, <1>5, SpentStays DEF TypeInv
<1>7. Grows
  BY <1>0, <1>1 DEF Grows, Mended, TypeInv
<1>8. \A a \in Processes, k \in Categories :
         lives'[a][k] = lives[a][k] \/ LifeFits(lives[a][k], k)'
  BY <1>2, <1>5 DEF LifeFits
<1>9. /\ \A q \in Readers : query'[q] = query[q] \/ QueryFits(query[q])'
      /\ \A o \in Operators : command'[o] = command[o] \/ CommandFits(command[o])'
  <2>1. /\ \A q \in Readers : query'[q] = query[q] \/ query'[q] = Idle
        /\ \A o \in Operators : command'[o] = command[o] \/ command'[o] = Idle
    BY <1>1
  <2> QED
    BY <2>1 DEF QueryFits, CommandFits, Idle
<1> QED
  BY <1>1, <1>4, <1>6, <1>7, <1>8, <1>9, Moves

\* No step breaks the invariant, nor observes an alert that is not counted.
LEMMA NextStep ==
  ASSUME Inv, [Next]_vars
  PROVE  Inv' /\ \A k \in Categories : seen'[k] > seen[k] => AlertCounted(k)
<1>0. \A k \in Categories : seen[k] \in Nat
  BY DEF Inv, TypeInv
<1>1. CASE \E q \in Readers : StateAnswers(q)
  BY <1>1, StateAnswersStep
<1>2. ASSUME NEW q \in Readers,
             \/ \E compare \in BOOLEAN : BeginQuery(q, compare)
             \/ HistoryAnswers(q) \/ LifecycleAnswers(q) \/ StatePut(q)
             \/ QuerySlotRead(q) \/ QuerySlotPut(q) \/ HistoryRead(q) \/ HistoryPut(q)
      PROVE  Inv' /\ seen' = seen
  <2>1. Inv'
    BY <1>2, BeginQueryStep, HistoryAnswersStep, LifecycleAnswersStep, StatePutStep,
       QuerySlotReadStep, QuerySlotPutStep, HistoryStep
  <2>2. seen' = seen
    BY <1>2 DEF BeginQuery, HistoryAnswers, LifecycleAnswers, StatePut, QuerySlotRead,
                QuerySlotPut, HistoryRead, HistoryPut
  <2> QED
    BY <2>1, <2>2
<1>3. ASSUME NEW o \in Operators,
             \/ \E type \in CommandTypes, k \in Categories : BeginCommand(o, type, k)
             \/ SyncAnswers(o) \/ ReadState(o) \/ PutState(o) \/ PutRecord(o)
             \/ CommandSlotRead(o) \/ CommandSlotPut(o)
      PROVE  Inv' /\ seen' = seen
  <2>1. Inv'
    BY <1>3, BeginCommandStep, SyncAnswersStep, ReadStateStep, PutStateStep,
       PutRecordStep, CommandSlotReadStep, CommandSlotPutStep
  <2>2. seen' = seen
    BY <1>3 DEF BeginCommand, SyncAnswers, ReadState, PutState, PutRecord,
                CommandSlotRead, CommandSlotPut
  <2> QED
    BY <2>1, <2>2
<1>4. CASE Drift \/ UNCHANGED vars
  <2>1. /\ live' \in LiveSignals /\ spent' \in Nat
        /\ UNCHANGED <<states, slots, records, alerts, lives, query, command, seen,
                       promised, confirmed>>
    BY <1>4 DEF Drift, Spend, stores, memory, vars, Inv, TypeInv
  <2>2. TypeInv'
    BY <2>1 DEF Inv, TypeInv
  <2>3. Grows
    BY <1>0, <2>1 DEF Grows, Mended
  <2>4. Inv'
    BY <2>1, <2>2, <2>3, Moves
  <2> QED
    BY <1>0, <2>1, <2>4
<1>5. CASE \E p \in Processes : Restart(p)
  <2>1. Inv'
    BY <1>5, RestartStep
  <2>2. seen' = seen
    BY <1>5 DEF Restart
  <2> QED
    BY <1>0, <2>1, <2>2
<1>6. CASE /\ Next
           /\ ~ \E q \in Readers : StateAnswers(q)
           /\ ~ Drift /\ ~ \E p \in Processes : Restart(p)
  <2>1. Inv' /\ seen' = seen
    BY <1>2, <1>3, <1>6 DEF Next
  <2> QED
    BY <1>0, <2>1
<1> QED
  BY <1>1, <1>4, <1>5, <1>6

\* The stores as they are found satisfy the invariant.
LEMMA InitInv == Init => Inv
<1> SUFFICES ASSUME Init PROVE Inv
  OBVIOUS
<1>1. NoLife \in Lifecycles /\ ~NoLife.manual
  BY DEF NoLife, Lifecycles, RepairStatuses
<1>2. states \in [Categories -> StoredStates \union {None}]
  BY StoresAssumption DEF Init
<1>3. \A n \in Nat : Max({1, n}) \in Nat /\ Max({1, n}) >= 1 /\ Max({1, n}) >= n
  <2>1. SUFFICES ASSUME NEW n \in Nat
                 PROVE  Max({1, n}) \in Nat /\ Max({1, n}) >= 1 /\ Max({1, n}) >= n
    OBVIOUS
  <2>2. \E x \in {1, n} : \A y \in {1, n} : x >= y
    <3>1. CASE n >= 1
      BY <3>1
    <3>2. CASE ~(n >= 1)
      BY <3>2
    <3> QED
      BY <3>1, <3>2
  <2>3. Max({1, n}) \in {1, n} /\ \A y \in {1, n} : Max({1, n}) >= y
    BY <2>2 DEF Max
  <2> QED
    BY <2>3
<1>4. ASSUME NEW k \in Categories
      PROVE  /\ seen[k] \in Nat
             /\ states[k] # None => seen[k] >= 1 /\ states[k].count <= seen[k]
  <2>1. seen[k] = IF states[k] = None THEN 0 ELSE Max({1, states[k].count})
    BY DEF Init
  <2>2. CASE states[k] = None
    BY <2>1, <2>2
  <2>3. CASE states[k] # None
    <3>1. states[k].count \in Nat
      BY <1>2, <2>3 DEF StoredStates
    <3> QED
      BY <1>3, <2>1, <2>3, <3>1
  <2> QED
    BY <2>2, <2>3
<1>5. TypeInv
  <2>1. seen \in [Categories -> Nat]
    BY <1>4 DEF Init
  <2>2. live \in LiveSignals /\ spent \in Nat
    BY BoundsAreNat DEF Init
  <2>3. /\ alerts \in [Processes -> [Categories -> Alerts \union {None}]]
        /\ lives \in [Processes -> [Categories -> Lifecycles]]
    BY <1>1 DEF Init
  <2> QED
    BY <1>2, <2>1, <2>2, <2>3 DEF Init, TypeInv
<1>6. SeenInv
  BY <1>4 DEF SeenInv
<1>7. CountsAreObserved
  BY <1>4 DEF Init, CountsAreObserved
<1>8. LivesInv
  BY <1>1 DEF Init, LivesInv, LifeFits
<1>9. QueryInv /\ CommandInv
  BY DEF Init, QueryInv, CommandInv, QueryFits, CommandFits, Idle
<1>10. StoresInv
  BY DEF Init, StoresInv
<1> QED
  BY <1>5, <1>6, <1>7, <1>8, <1>9, <1>10 DEF Inv

\* Inv holds of every behaviour.
THEOREM InvariantHolds == Spec => []Inv
<1>1. Inv /\ [Next]_vars => Inv'
  BY NextStep
<1> QED
  BY InitInv, <1>1, PTL DEF Spec

\* What a command answered to have repaired stays mended, a slot names a record
\* that is there, and a lifecycle is confirmed only if somebody confirmed it.
THEOREM RepairsAreTrue == Spec => []RepairsTellTheTruth
<1>1. Inv => RepairsTellTheTruth
  <2> SUFFICES ASSUME Inv PROVE RepairsTellTheTruth
    OBVIOUS
  <2>1. RepairedStaysReadable
    <3>1. SUFFICES ASSUME NEW k \in promised
                   PROVE  /\ Mended(states[k])
                          /\ Compatible(states[k]) \/ Unmendable(states[k])
      BY DEF RepairedStaysReadable
    <3>2. Mended(states[k]) /\ states[k] \in StoredStates \union {None}
      BY <3>1 DEF Inv, TypeInv, StoresInv
    <3>3. states[k] \in StoredStates /\ states[k].version # "none"
      BY <3>2 DEF Mended
    <3>4. /\ states[k].version \in {"current", "older", "foreign", "blank"}
          /\ states[k].count \in Nat
      BY <3>3 DEF StoredStates
    <3>5. Malformed(states[k]) => Unmendable(states[k])
      BY <3>2, <3>4 DEF Mended, Malformed, Unmendable
    <3>6. CASE ~Malformed(states[k]) /\ states[k].version \in {"current", "older"}
      <4>1. ReadCompatibility(states[k]) = CASE states[k].version = "current" -> "compatible_read"
                                             [] OTHER -> "compatible_with_notice"
        BY <3>2, <3>6 DEF Mended, ReadCompatibility
      <4> QED
        BY <3>2, <3>6, <4>1 DEF Compatible
    <3> QED
      BY <3>2, <3>4, <3>5, <3>6 DEF Unmendable
  <2>2. ManualWasConfirmed
    BY DEF Inv, LivesInv, LifeFits, ManualWasConfirmed
  <2>3. LinksResolve
    <3>1. SUFFICES ASSUME NEW k \in Categories, slots[k] # None, slots[k].link # None
                   PROVE  \E r \in records : r.key = k /\ CommandLink(slots[k], r) = "passed"
      BY DEF LinksResolve
    <3>2. PICK r \in records : /\ r.id = slots[k].link /\ r.key = k
                               /\ r.status = slots[k].current.status
      BY <3>1 DEF Inv, StoresInv, Resolves
    <3>3. r # None
      BY NoneAssumption DEF Inv, TypeInv
    <3> QED
      BY <3>1, <3>2, <3>3 DEF CommandLink
  <2> QED
    BY <2>1, <2>2, <2>3 DEF RepairsTellTheTruth
<1> QED
  BY InvariantHolds, <1>1, PTL

\* No count is above the alerts there were, and each alert that is observed raises
\* the count of the process that observed it.
THEOREM CountsHold == Spec => CountsAreTrue
<1>1. Inv => CountsAreObserved
  BY DEF Inv
<1>2. Inv /\ [Next]_vars =>
        [\A k \in Categories :
           seen'[k] > seen[k] =>
             \E p \in Processes :
               /\ alerts'[p][k] # None
               /\ alerts[p][k] # None => alerts'[p][k].count = alerts[p][k].count + 1]_vars
  BY NextStep DEF AlertCounted
<1> QED
  BY InvariantHolds, <1>1, <1>2, PTL DEF Spec, CountsAreTrue, EveryAlertCounts

\* What the stores and the processes keep is of its type.
THEOREM TypeCorrect == Spec => []TypeOK
<1>1. Inv => TypeOK
  BY NoneAssumption DEF Inv, TypeInv, LivesInv, LifeFits, Lifecycles, Alerts, TypeOK
<1> QED
  BY InvariantHolds, <1>1, PTL
=============================================================================
