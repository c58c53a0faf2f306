---------------------------- MODULE RepairProofs ----------------------------
(***************************************************************************)
(* What a person does after a failure: processDeadLetter on the dead letters *)
(* of a saga, and the repair of a coordination result, together with the   *)
(* flow commands that leave something to repair.                           *)
(***************************************************************************)
EXTENDS ManualIntervention, CoordinationRepair, TLAPS

-----------------------------------------------------------------------------
(***************************************************************************)
(* Manual intervention: the double audit holds however many operators,     *)
(* entries and processes there are, and whatever fails.                    *)
(***************************************************************************)
\* What the place where a call stands says of its past.
CallsKnowTheirPast ==
    \A c \in Calls :
        /\ pc[c] \in Running => input[c].requestedBy # input[c].approvedBy
        /\ pc[c] \in {"mark", "applied"}
              => [type |-> "requested", call |-> c] \in audit
        /\ outcome[c] # "none" => pc[c] = "answered"

InterventionInv ==
    /\ InterventionTypeOK /\ CallsKnowTheirPast
    /\ ProcessedWasApproved /\ ProcessedLeavesTrace

\* An empty store and idle calls satisfy the invariant.
LEMMA InterventionInitInvariant == InterventionInit => InterventionInv
  BY BoundsAssumption
     DEF InterventionInit, StoreInit, InterventionInv, InterventionTypeOK,
         CallsKnowTheirPast, ProcessedWasApproved,
         ProcessedLeavesTrace, Absent, Running

\* Marking keeps the rows rows, and touches only the one it is given.
LEMMA MarkedRows ==
  ASSUME rows \in [Ids -> Rows \cup {Absent}], NEW id \in Ids, NEW who \in People
  PROVE  /\ MarkAsProcessed(id, who) \in [Ids -> Rows \cup {Absent}]
         /\ \A other \in Ids :
               \/ MarkAsProcessed(id, who)[other] = rows[other]
               \/ /\ other = id
                  /\ MarkAsProcessed(id, who)[other].processedBy = who
                  /\ MarkAsProcessed(id, who)[other].status = "processed"
<1>1. CASE rows[id] = Absent
  BY <1>1 DEF MarkAsProcessed
<1>2. CASE rows[id] # Absent
  <2>1. rows[id] \in Rows
    BY <1>2
  <2>2. [rows[id] EXCEPT !.status = "processed", !.processedBy = who] \in Rows
    BY <2>1 DEF Rows
  <2>3. QED
    BY <1>2, <2>1, <2>2 DEF MarkAsProcessed, Rows
<1>3. QED
  BY <1>1, <1>2

\* An enqueue leaves every row as it was but one, which is then pending.
LEMMA EnqueuedRows ==
  ASSUME InterventionTypeOK, NEW p \in Processes, Enqueue(p)
  PROVE  /\ counter' \in [Processes -> 0 .. MaxLetters] /\ acked' \subseteq Letters
         /\ drawn' \subseteq Letters \X Ids /\ rows' \in [Ids -> Rows \cup {Absent}]
         /\ \A id \in Ids : rows'[id] = rows[id] \/ rows'[id].status = "pending"
<1>1. counter[p] \in Nat /\ counter[p] + 1 \in 1 .. MaxLetters
      /\ rows \in [Ids -> Rows \cup {Absent}]
  BY BoundsAssumption DEF InterventionTypeOK, Enqueue
<1>2. GenerateDeadLetterId(p) \in Ids /\ PendingRow(p) \in Rows
      /\ PendingRow(p).status = "pending" /\ <<p, counter[p] + 1>> \in Letters
  BY <1>1 DEF InterventionTypeOK, GenerateDeadLetterId, Ids, PendingRow, Rows, Letters
<1>3. /\ counter' \in [Processes -> 0 .. MaxLetters] /\ acked' \subseteq Letters
      /\ drawn' \subseteq Letters \X Ids
  BY <1>1, <1>2 DEF Enqueue, InterventionTypeOK
<1>4. rows' = rows \/ rows' = [rows EXCEPT ![GenerateDeadLetterId(p)] = PendingRow(p)]
  BY DEF Enqueue
<1>5. QED
  BY <1>1, <1>2, <1>3, <1>4

\* A step that adds to the trail and lets no row become processed keeps every
\* approval there is.
LEMMA ApprovalsKept ==
  ASSUME ProcessedWasApproved, UNCHANGED input, audit \subseteq audit',
         \A id \in Ids : rows'[id].status = "processed" => rows'[id] = rows[id]
  PROVE  ProcessedWasApproved'
<1> SUFFICES ASSUME NEW id \in Ids, rows'[id].status = "processed"
             PROVE  \E c \in Calls :
                       /\ [type |-> "requested", call |-> c] \in audit'
                       /\ input'[c].entryId = id
                       /\ input'[c].approvedBy = rows'[id].processedBy
                       /\ input'[c].requestedBy # input'[c].approvedBy
  BY DEF ProcessedWasApproved
<1>1. rows'[id] = rows[id] /\ rows[id].status = "processed"
  OBVIOUS
<1>2. PICK c \in Calls : /\ [type |-> "requested", call |-> c] \in audit
                         /\ input[c].entryId = id
                         /\ input[c].approvedBy = rows[id].processedBy
                         /\ input[c].requestedBy # input[c].approvedBy
  BY <1>1 DEF ProcessedWasApproved
<1>3. QED
  BY <1>1, <1>2

\* What a call leaves behind of its work on an entry.
Traced(c) == \/ [type |-> "applied", call |-> c] \in audit
             \/ c \in degraded
             \/ pc[c] \in {"applied", "crashed"}
             \/ outcome[c] = "dead_letter_mark_as_processed_failed"

\* A step that wipes out no trace and lets no row become processed without one
\* keeps the traces.
LEMMA TracesKept ==
  ASSUME ProcessedLeavesTrace, UNCHANGED input,
         \A c \in Calls : Traced(c) => Traced(c)',
         \A id \in Ids : rows'[id].status = "processed"
                            => \/ rows[id].status = "processed"
                               \/ \E c \in Calls : input[c].entryId = id /\ Traced(c)'
  PROVE  ProcessedLeavesTrace'
<1> SUFFICES ASSUME NEW id \in Ids, rows'[id].status = "processed"
             PROVE  \E c \in Calls : input'[c].entryId = id /\ Traced(c)'
  BY DEF ProcessedLeavesTrace, Traced
<1>1. CASE rows[id].status = "processed"
  <2>1. PICK c \in Calls : input[c].entryId = id /\ Traced(c)
    BY <1>1 DEF ProcessedLeavesTrace, Traced
  <2>2. Traced(c)'
    BY <2>1
  <2>3. QED
    BY <2>1, <2>2
<1>2. CASE \E c \in Calls : input[c].entryId = id /\ Traced(c)'
  BY <1>2
<1>3. QED
  BY <1>1, <1>2

\* No step of the store, of a call or of the saga side breaks the double audit.
LEMMA InterventionNextInvariant ==
  InterventionInv /\ [InterventionNext]_interventionVars => InterventionInv'
<1> SUFFICES ASSUME InterventionInv, [InterventionNext]_interventionVars
             PROVE  InterventionInv'
  OBVIOUS
<1>0. /\ InterventionTypeOK /\ CallsKnowTheirPast /\ ProcessedWasApproved /\ ProcessedLeavesTrace
      /\ rows \in [Ids -> Rows \cup {Absent}]
  BY DEF InterventionInv, InterventionTypeOK
<1>1. CASE UNCHANGED callVars /\ UNCHANGED rows /\ InterventionTypeOK'
  <2>1. CallsKnowTheirPast'
    BY <1>0, <1>1 DEF callVars, CallsKnowTheirPast
  <2>2. ProcessedWasApproved'
    BY <1>0, <1>1, ApprovalsKept DEF callVars
  <2>3. ProcessedLeavesTrace'
    BY <1>0, <1>1 DEF callVars, ProcessedLeavesTrace
  <2>4. QED
    BY <1>1, <2>1, <2>2, <2>3 DEF InterventionInv
<1>2. CASE UNCHANGED interventionVars
  BY <1>0, <1>1, <1>2 DEF interventionVars, storeVars, callVars, InterventionTypeOK
<1>3. CASE ClockTick /\ UNCHANGED callVars
  <2>1. now' \in 0 .. MaxTime
    BY <1>0, <1>3, BoundsAssumption DEF ClockTick, InterventionTypeOK
  <2>2. QED
    BY <1>0, <1>1, <1>3, <2>1 DEF ClockTick, callVars, InterventionTypeOK
<1>4. ASSUME NEW p \in Processes, Enqueue(p), UNCHANGED callVars
      PROVE  InterventionInv'
  <2>1. InterventionTypeOK'
    BY <1>0, <1>4, EnqueuedRows DEF InterventionTypeOK, Enqueue, callVars
  <2>2. \A id \in Ids : rows'[id].status = "processed" => rows'[id] = rows[id]
    BY <1>0, <1>4, EnqueuedRows
  <2>3. CallsKnowTheirPast'
    BY <1>0, <1>4 DEF callVars, CallsKnowTheirPast
  <2>4. ProcessedWasApproved'
    BY <1>0, <1>4, <2>2, ApprovalsKept DEF callVars
  <2>5. ProcessedLeavesTrace'
    BY <1>0, <1>4, <2>2, TracesKept DEF callVars, Traced
  <2>6. QED
    BY <2>1, <2>3, <2>4, <2>5 DEF InterventionInv
<1>5. ASSUME NEW c \in Calls, Submit(c) \/ Load(c)
      PROVE  InterventionInv'
  <2>1. UNCHANGED <<storeVars, input, audit, degraded>>
    BY <1>5 DEF Submit, Load
  <2>2. /\ pc' \in [Calls -> {"idle", "answered", "crashed"} \cup Running]
        /\ outcome' \in [Calls -> {"none", "ok"} \cup Errors]
    BY <1>0, <1>5 DEF Submit, Load, Answer, Goto, InterventionTypeOK, Running, Errors
  <2>3. InterventionTypeOK'
    BY <1>0, <2>1, <2>2 DEF InterventionTypeOK, storeVars
  <2>4. CallsKnowTheirPast'
    <3>1. CASE Submit(c)
      BY <1>0, <3>1 DEF InterventionTypeOK, Submit, Answer, Goto, CallsKnowTheirPast, Running
    <3>2. CASE Load(c)
      BY <1>0, <3>2 DEF InterventionTypeOK, Load, Answer, Goto, CallsKnowTheirPast, Running
    <3> QED
      BY <1>5, <3>1, <3>2
  <2>5. \A d \in Calls :
           /\ pc[d] \in {"applied", "crashed"} => pc'[d] = pc[d]
           /\ outcome[d] = "dead_letter_mark_as_processed_failed"
                 => outcome'[d] = outcome[d]
    BY <1>0, <1>5 DEF Submit, Load, Answer, Goto, InterventionTypeOK, CallsKnowTheirPast
  <2>6. ProcessedWasApproved'
    BY <1>0, <2>1, ApprovalsKept DEF storeVars
  <2>7. ProcessedLeavesTrace'
    BY <1>0, <2>1, <2>5, TracesKept DEF storeVars, Traced
  <2>8. QED
    BY <2>3, <2>4, <2>6, <2>7 DEF InterventionInv
<1>6. ASSUME NEW c \in Calls, AppendRequested(c)
      PROVE  InterventionInv'
  <2>1. [type |-> "requested", call |-> c] \in Events
    BY DEF Events
  <2>2. InterventionTypeOK'
    BY <1>0, <1>6, <2>1
       DEF AppendRequested, Answer, Goto, InterventionTypeOK, Running, Errors, storeVars
  <2>3. CallsKnowTheirPast'
    BY <1>0, <1>6 DEF InterventionTypeOK, AppendRequested, Answer, Goto, CallsKnowTheirPast,
                      Running
  <2>4. \A d \in Calls :
           /\ pc[d] \in {"applied", "crashed"} => pc'[d] = pc[d]
           /\ outcome[d] = "dead_letter_mark_as_processed_failed"
                 => outcome'[d] = outcome[d]
    BY <1>0, <1>6 DEF AppendRequested, Answer, Goto, InterventionTypeOK, CallsKnowTheirPast
  <2>5. audit \subseteq audit' /\ UNCHANGED <<rows, input, degraded>>
    BY <1>6 DEF AppendRequested, storeVars
  <2>6. ProcessedWasApproved'
    BY <1>0, <2>5, ApprovalsKept
  <2>7. ProcessedLeavesTrace'
    BY <1>0, <2>4, <2>5, TracesKept DEF Traced
  <2>8. QED
    BY <2>2, <2>3, <2>6, <2>7 DEF InterventionInv
<1>7. ASSUME NEW c \in Calls, Mark(c)
      PROVE  InterventionInv'
  <2> DEFINE id == input[c].entryId
             who == input[c].approvedBy
  <2>1. id \in Ids /\ who \in People
    BY <1>0 DEF InterventionTypeOK, Inputs
  <2>2. /\ rows' \in {rows, MarkAsProcessed(id, who)}
        /\ UNCHANGED <<now, counter, acked, drawn, input, audit, degraded>>
    BY <1>7 DEF Mark
  <2>3. InterventionTypeOK'
    <3>1. rows' \in [Ids -> Rows \cup {Absent}]
      BY <1>0, <2>1, <2>2, MarkedRows
    <3>2. /\ pc' \in [Calls -> {"idle", "answered", "crashed"} \cup Running]
          /\ outcome' \in [Calls -> {"none", "ok"} \cup Errors]
      BY <1>0, <1>7 DEF Mark, Answer, Goto, InterventionTypeOK, Running, Errors
    <3>3. QED
      BY <1>0, <2>2, <3>1, <3>2 DEF InterventionTypeOK
  <2>4. CallsKnowTheirPast'
    BY <1>0, <1>7 DEF InterventionTypeOK, Mark, Answer, Goto, CallsKnowTheirPast, Running
  <2>5. \A other \in Ids :
           rows'[other] = rows[other]
           \/ (other = id /\ rows'[other].processedBy = who)
    BY <1>0, <2>1, <2>2, MarkedRows
  <2>6. ProcessedWasApproved'
    <3>1. /\ [type |-> "requested", call |-> c] \in audit
          /\ input[c].requestedBy # input[c].approvedBy
      BY <1>0, <1>7 DEF Mark, CallsKnowTheirPast, Running
    <3>2. SUFFICES ASSUME NEW other \in Ids, rows'[other].status = "processed"
                   PROVE  \E d \in Calls :
                             /\ [type |-> "requested", call |-> d] \in audit
                             /\ input[d].entryId = other
                             /\ input[d].approvedBy = rows'[other].processedBy
                             /\ input[d].requestedBy # input[d].approvedBy
      BY <2>2 DEF ProcessedWasApproved
    <3>3. CASE rows'[other] = rows[other]
      BY <1>0, <3>2, <3>3 DEF ProcessedWasApproved
    <3>4. CASE other = id /\ rows'[other].processedBy = who
      BY <3>1, <3>4
    <3>5. QED
      BY <2>5, <3>3, <3>4
  <2>7. ProcessedLeavesTrace'
    <3>1. pc'[c] = "applied" \/ outcome'[c] = "dead_letter_mark_as_processed_failed"
      BY <1>0, <1>7 DEF Mark, Answer, Goto, InterventionTypeOK
    <3>2. \A d \in Calls :
             /\ pc[d] \in {"applied", "crashed"} => pc'[d] = pc[d]
             /\ outcome[d] = "dead_letter_mark_as_processed_failed"
                   => outcome'[d] = outcome[d]
      BY <1>0, <1>7 DEF Mark, Answer, Goto, InterventionTypeOK, CallsKnowTheirPast
    <3>3. Traced(c)' /\ \A d \in Calls : Traced(d) => Traced(d)'
      BY <2>2, <3>1, <3>2 DEF Traced
    <3>4. \A other \in Ids : \/ rows'[other] = rows[other]
                             \/ input[c].entryId = other /\ Traced(c)'
      BY <2>5, <3>3
    <3>5. QED
      BY <1>0, <2>2, <3>3, <3>4, TracesKept
  <2>8. QED
    BY <2>3, <2>4, <2>6, <2>7 DEF InterventionInv
<1>8. ASSUME NEW c \in Calls, AppendApplied(c)
      PROVE  InterventionInv'
  <2>1. [type |-> "applied", call |-> c] \in Events
    BY DEF Events
  <2>2. /\ audit \subseteq audit' /\ degraded \subseteq degraded'
        /\ UNCHANGED <<storeVars, rows, input>>
        /\ ([type |-> "applied", call |-> c] \in audit' \/ c \in degraded')
        /\ audit' \subseteq Events /\ degraded' \subseteq Calls
    BY <1>0, <1>8, <2>1 DEF AppendApplied, InterventionTypeOK, storeVars
  <2>3. InterventionTypeOK'
    <3>1. /\ pc' \in [Calls -> {"idle", "answered", "crashed"} \cup Running]
          /\ outcome' \in [Calls -> {"none", "ok"} \cup Errors]
      BY <1>0, <1>8 DEF AppendApplied, Answer, InterventionTypeOK
    <3>2. QED
      BY <1>0, <2>2, <3>1 DEF InterventionTypeOK, storeVars
  <2>4. CallsKnowTheirPast'
    BY <1>0, <1>8 DEF InterventionTypeOK, AppendApplied, Answer, CallsKnowTheirPast, Running
  <2>5. \A d \in Calls :
           /\ d # c /\ pc[d] \in {"applied", "crashed"} => pc'[d] = pc[d]
           /\ outcome[d] = "dead_letter_mark_as_processed_failed"
                 => outcome'[d] = outcome[d]
    BY <1>0, <1>8 DEF AppendApplied, Answer, InterventionTypeOK, CallsKnowTheirPast
  <2>6. ProcessedWasApproved'
    BY <1>0, <2>2, ApprovalsKept
  <2>7. Traced(c)' /\ \A d \in Calls : Traced(d) => Traced(d)'
    BY <2>2, <2>5 DEF Traced
  <2>8. ProcessedLeavesTrace'
    BY <1>0, <2>2, <2>7, TracesKept
  <2>9. QED
    BY <2>3, <2>4, <2>6, <2>8 DEF InterventionInv
<1>9. ASSUME NEW c \in Calls, Crash(c)
      PROVE  InterventionInv'
  <2>1. UNCHANGED <<storeVars, rows, input, outcome, audit, degraded>>
    BY <1>9 DEF Crash, storeVars
  <2>2. InterventionTypeOK'
    <3>1. pc' \in [Calls -> {"idle", "answered", "crashed"} \cup Running]
      BY <1>0, <1>9 DEF Crash, InterventionTypeOK
    <3>2. QED
      BY <1>0, <2>1, <3>1 DEF InterventionTypeOK, storeVars
  <2>3. CallsKnowTheirPast'
    BY <1>0, <1>9 DEF InterventionTypeOK, Crash, CallsKnowTheirPast, Running
  <2>4. \A d \in Calls : pc[d] \in {"applied", "crashed"}
                            => pc'[d] \in {"applied", "crashed"}
    BY <1>0, <1>9 DEF Crash, InterventionTypeOK
  <2>5. ProcessedWasApproved'
    BY <1>0, <2>1, ApprovalsKept
  <2>6. ProcessedLeavesTrace'
    BY <1>0, <2>1, <2>4, TracesKept DEF Traced
  <2>7. QED
    BY <2>2, <2>3, <2>5, <2>6 DEF InterventionInv
<1>10. QED
  BY <1>2, <1>3, <1>4, <1>5, <1>6, <1>7, <1>8, <1>9
     DEF InterventionNext, StoreNext, ProcessDeadLetter

\* Clock, counters, rows and calls stay in their domains.
THEOREM InterventionTypeCorrect == InterventionSpec => []InterventionTypeOK
<1>1. InterventionInit => InterventionInv
  BY InterventionInitInvariant
<1>2. InterventionInv /\ [InterventionNext]_interventionVars => InterventionInv'
  BY InterventionNextInvariant
<1>3. InterventionInv => InterventionTypeOK
  BY DEF InterventionInv
<1>4. QED
  BY <1>1, <1>2, <1>3, PTL DEF InterventionSpec

\* Whoever the store says processed an entry approved it for someone else, and
\* the audit trail said so before the store did.
THEOREM DoubleAudit == InterventionSpec => []ProcessedWasApproved
<1>1. InterventionInit => InterventionInv
  BY InterventionInitInvariant
<1>2. InterventionInv /\ [InterventionNext]_interventionVars => InterventionInv'
  BY InterventionNextInvariant
<1>3. InterventionInv => ProcessedWasApproved
  BY DEF InterventionInv
<1>4. QED
  BY <1>1, <1>2, <1>3, PTL DEF InterventionSpec

\* No entry is ever processed without a trace of who was told.
THEOREM NoSilentProcessing == InterventionSpec => []ProcessedLeavesTrace
<1>1. InterventionInit => InterventionInv
  BY InterventionInitInvariant
<1>2. InterventionInv /\ [InterventionNext]_interventionVars => InterventionInv'
  BY InterventionNextInvariant
<1>3. InterventionInv => ProcessedLeavesTrace
  BY DEF InterventionInv
<1>4. QED
  BY <1>1, <1>2, <1>3, PTL DEF InterventionSpec

-----------------------------------------------------------------------------
(***************************************************************************)
(* Records are kept, for any number of processes.  Two of them can draw    *)
(* one id in one millisecond, and then the later letter takes the place of *)
(* the earlier; a row is taken in no other way.                            *)
(***************************************************************************)
\* An id tells how many letters its process had drawn ids for.
DrawnInv == \A d \in drawn :
    /\ d[2].n = d[1][2]
    /\ d[1][2] <= counter[d[1][1]]

\* A row holds a letter that its id was drawn for.
RowsInv == \A id \in Ids : rows[id] # Absent => <<rows[id].letter, id>> \in drawn

\* Calls past their reading of a row have a row in front of them, and past the
\* mark one that is processed or shared.
AwareInv == \A c \in Calls :
    /\ pc[c] \in {"requested", "mark"} => rows[input[c].entryId] # Absent
    /\ pc[c] = "applied" => \/ rows[input[c].entryId].status = "processed"
                            \/ input[c].entryId \in SharedIds

KeptInv == DrawnInv /\ RowsInv /\ AwareInv /\ RecordsAreKept

\* Rows that are there stay, with their letters or with one of a process that had
\* not drawn their id; what is processed stays so in a row that is not shared.
RowsStay ==
    /\ drawn \subseteq drawn'
    /\ \A id \in Ids :
         /\ rows[id] # Absent =>
              /\ rows'[id] # Absent
              /\ <<rows'[id].letter, id>> \in drawn'
              /\ \/ rows'[id].letter = rows[id].letter
                 \/ \A d \in drawn : d[2] = id => d[1][1] # rows'[id].letter[1]
         /\ rows[id].status = "processed" =>
              rows'[id].status = "processed" \/ id \in SharedIds'

\* An id once shared stays shared.
LEMMA SharedStays ==
  ASSUME drawn \subseteq drawn'
  PROVE  SharedIds \subseteq SharedIds'
<1>1. SUFFICES ASSUME NEW id \in SharedIds PROVE id \in SharedIds'
  OBVIOUS
<1>2. PICK one \in Letters, other \in Letters :
         one[1] # other[1] /\ {<<one, id>>, <<other, id>>} \subseteq drawn
  BY <1>1 DEF SharedIds
<1>3. {<<one, id>>, <<other, id>>} \subseteq drawn'
  BY <1>2
<1> QED
  BY <1>1, <1>2, <1>3 DEF SharedIds

\* While rows stay, so does what was acknowledged and what the trail says of them.
LEMMA StayingKeeps ==
  ASSUME RowsStay, LettersAreKept, AppliedIsTrue, audit \subseteq Events,
         input \in [Calls -> Inputs], input' = input
  PROVE  /\ acked' = acked => LettersAreKept'
         /\ audit' = audit => AppliedIsTrue'
<1>1. \A c \in Calls : input[c].entryId \in Ids
  BY DEF Inputs
<1>2. \A e \in audit : e.call \in Calls
  BY DEF Events
<1>3. ASSUME acked' = acked PROVE LettersAreKept'
  <2>1. SUFFICES ASSUME NEW letter \in acked
                 PROVE  \E id \in Ids :
                           /\ <<letter, id>> \in drawn'
                           /\ rows'[id] # Absent
                           /\ \/ rows'[id].letter = letter
                              \/ /\ rows'[id].letter[1] # letter[1]
                                 /\ <<rows'[id].letter, id>> \in drawn'
    BY <1>3 DEF LettersAreKept
  <2>2. PICK id \in Ids : /\ <<letter, id>> \in drawn
                          /\ rows[id] # Absent
                          /\ \/ rows[id].letter = letter
                             \/ /\ rows[id].letter[1] # letter[1]
                                /\ <<rows[id].letter, id>> \in drawn
    BY <2>1 DEF LettersAreKept
  <2>3. /\ <<letter, id>> \in drawn' /\ rows'[id] # Absent
        /\ <<rows'[id].letter, id>> \in drawn'
    BY <2>2 DEF RowsStay
  <2>4. CASE rows'[id].letter = rows[id].letter
    BY <2>2, <2>3, <2>4
  <2>5. CASE \A d \in drawn : d[2] = id => d[1][1] # rows'[id].letter[1]
    <3>1. rows'[id].letter[1] # letter[1]
      BY <2>2, <2>5
    <3> QED
      BY <2>3, <3>1
  <2> QED
    BY <2>2, <2>4, <2>5 DEF RowsStay
<1>4. ASSUME audit' = audit PROVE AppliedIsTrue'
  <2>1. SUFFICES ASSUME NEW e \in audit, e.type = "applied"
                 PROVE  /\ [type |-> "requested", call |-> e.call] \in audit
                        /\ \/ rows'[input[e.call].entryId].status = "processed"
                           \/ input[e.call].entryId \in SharedIds'
    BY <1>4 DEF AppliedIsTrue
  <2>2. /\ [type |-> "requested", call |-> e.call] \in audit
        /\ \/ rows[input[e.call].entryId].status = "processed"
           \/ input[e.call].entryId \in SharedIds
    BY <2>1 DEF AppliedIsTrue
  <2>3. input[e.call].entryId \in Ids
    BY <1>1, <1>2
  <2> QED
    BY <2>2, <2>3, SharedStays DEF RowsStay
<1> QED
  BY <1>3, <1>4

\* An enqueue writes under an id that its process has not drawn before: the row
\* is free, or a letter of another process is in it.
LEMMA EnqueueKeeps ==
  ASSUME InterventionTypeOK, DrawnInv, RowsInv, LettersAreKept,
         NEW p \in Processes, Enqueue(p)
  PROVE  RowsStay /\ DrawnInv' /\ RowsInv' /\ (acked' # acked => LettersAreKept')
<1> DEFINE n == counter[p] + 1
           new == [at |-> now, n |-> n]
           mine == <<p, n>>
<1>1. /\ counter[p] \in Nat /\ n \in 1 .. MaxLetters /\ n > counter[p]
      /\ counter' = [counter EXCEPT ![p] = n] /\ counter'[p] = n
      /\ counter \in [Processes -> Nat]
      /\ rows \in [Ids -> Rows \cup {Absent}] /\ new \in Ids /\ new.n = n
      /\ drawn \subseteq Letters \X Ids /\ mine \in Letters
      /\ drawn' = drawn \cup {<<mine, new>>}
  BY BoundsAssumption
     DEF InterventionTypeOK, Enqueue, Ids, Letters, GenerateDeadLetterId
<1>2. /\ PendingRow(p).status = "pending" /\ PendingRow(p).letter = mine
      /\ PendingRow(p) # Absent
  BY DEF PendingRow, Absent
<1>3. \/ rows' = rows /\ acked' = acked
      \/ /\ rows' = [rows EXCEPT ![new] = PendingRow(p)]
         /\ acked' = acked \/ acked' = acked \cup {mine}
  BY DEF Enqueue, GenerateDeadLetterId
<1>4. mine[1] = p /\ mine[2] = n
  OBVIOUS
<1> HIDE DEF new, mine, n
<1>5. \A d \in drawn : /\ d[1] \in Letters /\ d[2] \in Ids /\ d[1][1] \in Processes
                       /\ d[1][2] \in Nat /\ d = <<d[1], d[2]>>
  BY <1>1 DEF Letters
<1>6. \A d \in drawn : d[2] = new => d[1][1] # p
  BY <1>1, <1>5 DEF DrawnInv
<1>7. \A id \in Ids : \/ rows'[id] = rows[id]
                      \/ id = new /\ rows'[id] = PendingRow(p)
  BY <1>1, <1>3
<1>8. DrawnInv'
  <2>1. SUFFICES ASSUME NEW d \in drawn'
                 PROVE  d[2].n = d[1][2] /\ d[1][2] <= counter'[d[1][1]]
    BY DEF DrawnInv
  <2>2. CASE d \in drawn
    <3>1. counter[d[1][1]] <= counter'[d[1][1]] /\ counter[d[1][1]] \in Nat
          /\ counter'[d[1][1]] \in Nat
      BY <1>1, <1>5, <2>2
    <3>2. d[2].n = d[1][2] /\ d[1][2] <= counter[d[1][1]] /\ d[1][2] \in Nat
      BY <1>5, <2>2 DEF DrawnInv
    <3> QED
      BY <3>1, <3>2
  <2>3. CASE d = <<mine, new>>
    BY <1>1, <1>4, <2>3
  <2> QED
    BY <1>1, <2>2, <2>3
<1>9. RowsInv'
  BY <1>1, <1>2, <1>7 DEF RowsInv
<1>10. RowsStay
  <2>1. ASSUME NEW id \in Ids, rows[id].status = "processed", rows'[id] # rows[id]
        PROVE  id \in SharedIds'
    <3>1. id = new /\ rows[id] # Absent
      BY <1>7, <2>1 DEF Absent
    <3>2. <<rows[id].letter, id>> \in drawn
      BY <3>1 DEF RowsInv
    <3>3. rows[id].letter \in Letters /\ rows[id].letter[1] # p
      BY <1>5, <1>6, <3>1, <3>2
    <3>4. {<<mine, id>>, <<rows[id].letter, id>>} \subseteq drawn'
      BY <1>1, <3>1, <3>2
    <3> QED
      BY <1>1, <1>4, <3>1, <3>3, <3>4 DEF SharedIds
  <2>2. ASSUME NEW id \in Ids, rows[id] # Absent
        PROVE  /\ rows'[id] # Absent
               /\ <<rows'[id].letter, id>> \in drawn'
               /\ \/ rows'[id].letter = rows[id].letter
                  \/ \A d \in drawn : d[2] = id => d[1][1] # rows'[id].letter[1]
    <3>1. CASE rows'[id] = rows[id]
      BY <1>1, <2>2, <3>1 DEF RowsInv
    <3>2. CASE id = new /\ rows'[id] = PendingRow(p)
      BY <1>1, <1>2, <1>4, <1>6, <3>2
    <3> QED
      BY <1>7, <3>1, <3>2
  <2> QED
    BY <1>1, <2>1, <2>2 DEF RowsStay
<1>11. ASSUME acked' # acked PROVE LettersAreKept'
  <2>1. /\ acked' = acked \cup {mine} /\ rows'[new] = PendingRow(p)
        /\ \A id \in Ids : id # new => rows'[id] = rows[id]
    BY <1>1, <1>3, <1>11
  <2>2. SUFFICES ASSUME NEW letter \in acked'
                 PROVE  \E id \in Ids :
                           /\ <<letter, id>> \in drawn'
                           /\ rows'[id] # Absent
                           /\ \/ rows'[id].letter = letter
                              \/ /\ rows'[id].letter[1] # letter[1]
                                 /\ <<rows'[id].letter, id>> \in drawn'
    BY DEF LettersAreKept
  <2>3. CASE letter = mine
    BY <1>1, <1>2, <2>1, <2>3
  <2>4. CASE letter \in acked
    <3>1. PICK id \in Ids : /\ <<letter, id>> \in drawn
                            /\ rows[id] # Absent
                            /\ \/ rows[id].letter = letter
                               \/ /\ rows[id].letter[1] # letter[1]
                                  /\ <<rows[id].letter, id>> \in drawn
      BY <2>4 DEF LettersAreKept
    <3>2. CASE id # new
      BY <1>1, <2>1, <3>1, <3>2
    <3>3. CASE id = new
      <4>1. letter[1] # p
        BY <1>6, <3>1, <3>3
      <4>2. /\ rows'[id] # Absent /\ rows'[id].letter = mine
            /\ <<letter, id>> \in drawn' /\ <<mine, id>> \in drawn'
        BY <1>1, <1>2, <2>1, <3>1, <3>3
      <4> QED
        BY <1>4, <4>1, <4>2
    <3> QED
      BY <3>2, <3>3
  <2> QED
    BY <2>1, <2>3, <2>4
<1> QED
  BY <1>8, <1>9, <1>10, <1>11

\* Marking a row that is there leaves it processed, with its letter.
LEMMA MarkedLetters ==
  ASSUME rows \in [Ids -> Rows \cup {Absent}], NEW id \in Ids, NEW who \in People,
         rows[id] # Absent
  PROVE  /\ MarkAsProcessed(id, who)[id].status = "processed"
         /\ MarkAsProcessed(id, who)[id].letter = rows[id].letter
         /\ \A other \in Ids : other # id => MarkAsProcessed(id, who)[other] = rows[other]
<1>1. rows[id] \in Rows
  OBVIOUS
<1> QED
  BY <1>1 DEF MarkAsProcessed, Rows

\* No step loses a letter or makes the trail lie.
LEMMA KeptStep ==
  InterventionInv /\ KeptInv /\ [InterventionNext]_interventionVars => KeptInv'
<1> SUFFICES ASSUME InterventionInv, KeptInv, [InterventionNext]_interventionVars
             PROVE  KeptInv'
  OBVIOUS
<1>0. /\ InterventionTypeOK /\ CallsKnowTheirPast /\ DrawnInv /\ RowsInv /\ AwareInv
      /\ LettersAreKept /\ AppliedIsTrue
      /\ rows \in [Ids -> Rows \cup {Absent}]
      /\ pc \in [Calls -> {"idle", "answered", "crashed"} \cup Running]
      /\ input \in [Calls -> Inputs] /\ audit \subseteq Events
  BY DEF InterventionInv, KeptInv, InterventionTypeOK, RecordsAreKept
<1>1. \A c \in Calls : input[c].entryId \in Ids
  BY <1>0 DEF Inputs
<1>s. ASSUME drawn' = drawn PROVE SharedIds' = SharedIds
  BY <1>s DEF SharedIds
<1>2. ASSUME UNCHANGED <<counter, acked, drawn, rows, input>>, AwareInv', AppliedIsTrue'
      PROVE  KeptInv'
  BY <1>0, <1>2 DEF KeptInv, DrawnInv, RowsInv, RecordsAreKept, LettersAreKept
<1>3. ASSUME UNCHANGED <<counter, acked, drawn, rows, input, audit>>, AwareInv'
      PROVE  KeptInv'
  BY <1>0, <1>2, <1>3, <1>s DEF AppliedIsTrue
<1>4. CASE UNCHANGED interventionVars
  BY <1>0, <1>3, <1>4, <1>s DEF interventionVars, storeVars, callVars, AwareInv
<1>5. CASE ClockTick /\ UNCHANGED callVars
  BY <1>0, <1>3, <1>5, <1>s DEF ClockTick, callVars, AwareInv
<1>6. ASSUME NEW p \in Processes, Enqueue(p), UNCHANGED callVars
      PROVE  KeptInv'
  <2>1. RowsStay /\ DrawnInv' /\ RowsInv' /\ (acked' # acked => LettersAreKept')
    BY <1>0, <1>6, EnqueueKeeps
  <2>2. UNCHANGED <<pc, input, audit>>
    BY <1>6 DEF callVars
  <2>3. AppliedIsTrue' /\ LettersAreKept'
    BY <1>0, <2>1, <2>2, StayingKeeps
  <2>4. AwareInv'
    <3>1. SUFFICES ASSUME NEW c \in Calls
                   PROVE  /\ pc[c] \in {"requested", "mark"}
                                => rows'[input[c].entryId] # Absent
                          /\ pc[c] = "applied"
                                => \/ rows'[input[c].entryId].status = "processed"
                                   \/ input[c].entryId \in SharedIds'
      BY <2>2 DEF AwareInv
    <3>2. input[c].entryId \in Ids
      BY <1>1
    <3>3. CASE pc[c] \in {"requested", "mark"}
      BY <1>0, <2>1, <3>2, <3>3 DEF AwareInv, RowsStay
    <3>4. CASE pc[c] = "applied"
      <4>1. \/ rows[input[c].entryId].status = "processed"
            \/ input[c].entryId \in SharedIds
        BY <1>0, <3>4 DEF AwareInv
      <4> QED
        BY <2>1, <3>2, <3>4, <4>1, SharedStays DEF RowsStay
    <3> QED
      BY <3>3, <3>4
  <2> QED
    BY <2>1, <2>3, <2>4 DEF KeptInv, RecordsAreKept
<1>7. ASSUME NEW c \in Calls, Submit(c) \/ Load(c) \/ Crash(c)
      PROVE  KeptInv'
  <2>1. UNCHANGED <<storeVars, input, audit>>
    BY <1>7 DEF Submit, Load, Crash
  <2>2. \A d \in Calls :
           \/ pc'[d] = pc[d]
           \/ pc'[d] \in {"load", "answered", "crashed"}
           \/ pc'[d] = "requested" /\ rows[input[d].entryId].status = "pending"
    BY <1>0, <1>7 DEF Submit, Load, Crash, Answer, Goto
  <2>3. AwareInv'
    BY <1>0, <1>s, <2>1, <2>2 DEF AwareInv, storeVars, Absent
  <2> QED
    BY <1>3, <2>1, <2>3 DEF storeVars
<1>8. ASSUME NEW c \in Calls, AppendRequested(c)
      PROVE  KeptInv'
  <2>1. UNCHANGED <<storeVars, input>> /\ pc[c] = "requested"
    BY <1>8 DEF AppendRequested
  <2>2. \A d \in Calls : \/ pc'[d] = pc[d] \/ pc'[d] = "answered"
                         \/ d = c /\ pc'[d] = "mark"
    BY <1>0, <1>8 DEF AppendRequested, Answer, Goto
  <2>3. AwareInv'
    BY <1>0, <1>s, <2>1, <2>2 DEF AwareInv, storeVars
  <2>4. audit' = audit \/ audit' = audit \cup {[type |-> "requested", call |-> c]}
    BY <1>8 DEF AppendRequested
  <2>5. AppliedIsTrue'
    BY <1>0, <1>s, <2>1, <2>4 DEF AppliedIsTrue, storeVars
  <2> QED
    BY <1>2, <2>1, <2>3, <2>5 DEF storeVars
<1>9. ASSUME NEW c \in Calls, Mark(c)
      PROVE  KeptInv'
  <2> DEFINE id == input[c].entryId
             marked == MarkAsProcessed(id, input[c].approvedBy)
  <2>1. /\ pc[c] = "mark" /\ rows' \in {rows, marked}
        /\ UNCHANGED <<now, counter, acked, drawn, input, audit>>
    BY <1>9 DEF Mark
  <2>2. rows[id] # Absent /\ id \in Ids
    BY <1>0, <1>1, <2>1 DEF AwareInv
  <2>3. input[c].approvedBy \in People
    BY <1>0 DEF Inputs
  <2>4. /\ marked[id].status = "processed" /\ marked[id].letter = rows[id].letter
        /\ \A other \in Ids : other # id => marked[other] = rows[other]
    BY <1>0, <2>2, <2>3, MarkedLetters
  <2> HIDE DEF marked
  <2>5. \A other \in Ids :
           \/ rows'[other] = rows[other]
           \/ /\ other = id /\ rows'[other].status = "processed"
              /\ rows'[other].letter = rows[other].letter
    BY <2>1, <2>4
  <2> HIDE DEF id
  <2>6. \A other \in Ids : rows[other] # Absent => rows'[other] # Absent
    BY <2>5 DEF Absent
  <2>7. RowsStay
    BY <1>0, <2>1, <2>5, <2>6 DEF RowsStay, RowsInv
  <2>8. RowsInv'
    BY <1>0, <2>1, <2>2, <2>5 DEF RowsInv
  <2>9. DrawnInv'
    BY <1>0, <2>1 DEF DrawnInv
  <2>10. LettersAreKept' /\ AppliedIsTrue'
    BY <1>0, <2>1, <2>7, StayingKeeps
  <2>11. \A d \in Calls : \/ pc'[d] = pc[d] \/ pc'[d] = "answered"
                          \/ d = c /\ pc'[d] = "applied" /\ rows' = marked
    BY <1>0, <1>9 DEF Mark, Answer, Goto, marked, id
  <2>12. SharedIds \subseteq SharedIds'
    BY <2>1, SharedStays
  <2>13. AwareInv'
    <3>1. SUFFICES ASSUME NEW d \in Calls
                   PROVE  /\ pc'[d] \in {"requested", "mark"}
                                => rows'[input[d].entryId] # Absent
                          /\ pc'[d] = "applied"
                                => \/ rows'[input[d].entryId].status = "processed"
                                   \/ input[d].entryId \in SharedIds'
      BY <2>1 DEF AwareInv
    <3>2. CASE pc'[d] = pc[d]
      BY <1>0, <1>1, <2>5, <2>6, <2>12, <3>2 DEF AwareInv
    <3>3. CASE d = c /\ pc'[d] = "applied" /\ rows' = marked
      BY <2>4, <3>3 DEF id
    <3> QED
      BY <2>11, <3>2, <3>3
  <2> QED
    BY <2>8, <2>9, <2>10, <2>13 DEF KeptInv, RecordsAreKept
<1>10. ASSUME NEW c \in Calls, AppendApplied(c)
       PROVE  KeptInv'
  <2>1. UNCHANGED <<storeVars, input>> /\ pc[c] = "applied"
    BY <1>10 DEF AppendApplied
  <2>2. \A d \in Calls : pc'[d] = pc[d] \/ pc'[d] = "answered"
    BY <1>0, <1>10 DEF AppendApplied, Answer
  <2>3. AwareInv'
    BY <1>0, <1>s, <2>1, <2>2 DEF AwareInv, storeVars
  <2>4. audit' = audit \/ audit' = audit \cup {[type |-> "applied", call |-> c]}
    BY <1>10 DEF AppendApplied
  <2>5. /\ [type |-> "requested", call |-> c] \in audit
        /\ \/ rows[input[c].entryId].status = "processed"
           \/ input[c].entryId \in SharedIds
    BY <1>0, <2>1 DEF CallsKnowTheirPast, AwareInv
  <2>6. AppliedIsTrue'
    BY <1>0, <1>s, <2>1, <2>4, <2>5 DEF AppliedIsTrue, storeVars
  <2> QED
    BY <1>2, <2>1, <2>3, <2>6 DEF storeVars
<1> QED
  BY <1>4, <1>5, <1>6, <1>7, <1>8, <1>9, <1>10
     DEF InterventionNext, StoreNext, ProcessDeadLetter

\* However many processes enqueue, a dead letter whose enqueue was acknowledged
\* stays in its row, and an entry whose APPLIED event is in the trail stays
\* processed, unless another process drew the same id; and the trail is in order.
THEOREM RecordsKept == InterventionSpec => []RecordsAreKept
<1>1. InterventionInit => InterventionInv /\ KeptInv
  <2>1. InterventionInit => KeptInv
    BY DEF InterventionInit, StoreInit, KeptInv, DrawnInv, RowsInv, AwareInv,
           RecordsAreKept, LettersAreKept, AppliedIsTrue
  <2> QED
    BY <2>1, InterventionInitInvariant
<1>2. InterventionInv /\ KeptInv /\ [InterventionNext]_interventionVars
        => InterventionInv' /\ KeptInv'
  BY InterventionNextInvariant, KeptStep
<1>3. KeptInv => RecordsAreKept
  BY DEF KeptInv
<1>4. QED
  BY <1>1, <1>2, <1>3, PTL DEF InterventionSpec

-----------------------------------------------------------------------------
(***************************************************************************)
(* The core flow commands and the repair of coordination results, for any  *)
(* number of cases, times, versions and repair commands, and for commands  *)
(* that overlap in any way: the code takes no lock.                        *)
(***************************************************************************)
-----------------------------------------------------------------------------
(***************************************************************************)
(* Types, as sets of records, and what a command has where it stands.      *)
(***************************************************************************)
SubState == SubcaseStates("LiquidationCase") \union SubcaseStates("ADLCase")

SubCases(s) == Cases(SubcaseStates(KindOf(s)))

Listings == UNION {[ids -> SubState] : ids \in SUBSET Subs}

AllActions == RiskActions \union Actions("LiquidationCase") \union Actions("ADLCase")

OpenCommands ==
    [at : Awaits \union {"idle"}, op : {"create", "transition", "coordinate", "risk", None},
     sub : Subs \union {None}, action : AllActions \union {None}, t : Times,
     version : Versions \union {0}, own : Cases(SubState) \union {None},
     parent : Cases(CaseState) \union {None}, seen : Listings, fact : Facts \union {None}]

\* A command r has read, and chosen, what the place where it stands needs.
CommandIsReady(r) ==
    /\ r.at = "idle" => r = Idle
    /\ r.at = "loadSub" => r.op \in {"transition", "coordinate"}
    /\ r.at = "loadRisk" => r.op \in {"create", "transition", "coordinate", "risk"}
    /\ r.at = "saveSub" => r.op \in {"create", "transition"}
    /\ r.at \in {"listLiquidations", "listAdls"} => r.op \in {"transition", "coordinate"}
    /\ r.at = "saveRisk" => r.op \in {"transition", "coordinate", "risk"}
    /\ r.at \in {"lookup", "put"} => r.op \in {"transition", "coordinate"}
    /\ r.at # "idle" /\ r.op = "risk" => r.sub = None /\ r.at \in {"loadRisk", "saveRisk"}
    /\ r.at # "idle" /\ r.op # "risk" => r.sub \in Subs
    /\ (r.at = "loadRisk" /\ r.op \in {"transition", "coordinate"}) \/ r.at = "saveSub"
         => r.own \in SubCases(r.sub)
    /\ r.at = "loadRisk" /\ r.op = "coordinate" => IsTerminalSubcaseState(r.own.state)
    /\ r.at \in {"loadSub", "loadRisk"} => r.version \in Versions
    /\ r.at \in {"saveSub", "listLiquidations", "listAdls", "saveRisk"}
         => r.parent \in Cases(CaseState)
    /\ r.at \in {"listLiquidations", "listAdls", "lookup", "put"}
         \/ (r.at = "saveRisk" /\ r.op # "risk")
         => r.own \in SubCases(r.sub) /\ IsTerminalSubcaseState(r.own.state)
    /\ r.at \in {"lookup", "put"} \/ (r.at = "saveRisk" /\ r.op # "risk") => r.fact \in Facts

RepairJobs == [at : {"idle", "lookup", "put"}, key : Keys \union {None},
               source : Facts \union {None}]

TypeInv ==
    /\ risk \in Cases(CaseState)
    /\ sub \in [Subs -> Cases(SubState) \union {None}]
    /\ \A s \in Subs : sub[s] \in SubCases(s) \union {None}
    /\ registry \in [DOMAIN registry -> Facts] /\ DOMAIN registry \subseteq Keys
    /\ store \in [DOMAIN store -> Facts] /\ DOMAIN store \subseteq Keys
    /\ call \in [Callers -> OpenCommands]
    /\ \A c \in Callers : CommandIsReady(call[c])
    /\ left \in 0 .. CommandBound /\ reported \subseteq Subs
    /\ status \in [DOMAIN status -> CoordinationResultRepairStatus \ {"not_repaired"}]
    /\ DOMAIN status \subseteq Keys
    /\ job \in [Repairers -> RepairJobs]

HistoryInv == stale \subseteq Callers /\ raced \subseteq Subs /\ reopened \in BOOLEAN

-----------------------------------------------------------------------------
(***************************************************************************)
(* Facts: whoever is about to write one has what the registry has.  A fact *)
(* that appears in the store between a look and a write is therefore no    *)
(* contradiction of it.                                                    *)
(***************************************************************************)
Registered(k, fact) == k \in DOMAIN registry /\ Consistent(registry[k], fact)

StoredAsRegistered(k) == k \in DOMAIN store => Consistent(store[k], registry[k])

FactsInv ==
    /\ \A c \in Callers :
         /\ call[c].at \in {"lookup", "put"} => Registered(KeyOf(c), call[c].fact)
         /\ call[c].at = "put" => StoredAsRegistered(KeyOf(c))
    /\ \A r \in Repairers :
         /\ job[r].at # "idle" =>
              /\ job[r].key \in DOMAIN registry
              /\ job[r].source = registry[job[r].key]
         /\ job[r].at = "put" => StoredAsRegistered(job[r].key)
    /\ RepairedMeansStored

-----------------------------------------------------------------------------
(***************************************************************************)
(* Cases.  What a command has read is as it was, or another has saved over *)
(* it; then the command is stale, and the subcase has raced.               *)
(***************************************************************************)
FailedSub(s) == sub[s] # None /\ sub[s].state = "Failed"
TerminalSub(s) == sub[s] # None /\ IsTerminalSubcaseState(sub[s].state)
Closing(fact) == fact.decision = "applied" /\ fact.after = "Closed"

\* The risk case has ended, or had.
Over == risk.state \in TerminalStates \/ reopened

AllAccounted == \A s \in Subs \ raced : sub[s] # None => Succeeded(sub[s].state)

\* What a closing coordination has found still holds.
ClosedForGood == reopened \/ (risk.state \in TerminalStates /\ AllAccounted)

ListedAsIs(seen, s) ==
    IF sub[s] = None THEN s \notin DOMAIN seen ELSE s \in DOMAIN seen /\ seen[s] = sub[s].state

\* c has read its subcase and acts on it.
HasOwn(r) ==
    \/ r.at = "loadRisk" /\ r.op \in {"transition", "coordinate"}
    \/ r.at \in {"listLiquidations", "listAdls"}

\* What any command has read, and is about to save or has recorded.
Reading(c) ==
    LET r == call[c] IN
    /\ HasOwn(r) => sub[r.sub] = r.own \/ r.sub \in raced
    /\ r.at = "saveSub" =>
         r.parent.state \notin TerminalStates /\ (r.op = "create" => r.own.state = "Initiated")
    /\ r.at \in {"listLiquidations", "listAdls"} /\ r.parent.state \in TerminalStates => Over
    /\ r.at = "listAdls" => \A s \in Liquidations : s \in raced \/ ListedAsIs(r.seen, s)
    /\ r.at = "saveRisk" /\ r.op # "risk" /\ Closing(r.fact)
         => r.parent.state = "Closed" /\ AllAccounted
    /\ r.at \in {"lookup", "put"} /\ Closing(r.fact) => ClosedForGood

\* What one that is not stale has read is as it is.
CurrentReading(c) ==
    LET r == call[c] IN
    /\ HasOwn(r) => sub[r.sub] = r.own
    /\ r.at \in {"saveSub", "listLiquidations", "listAdls"} => r.parent = risk
    /\ r.at = "saveSub" /\ r.op = "transition" => ~TerminalSub(r.sub)
    /\ r.at = "listAdls" => \A s \in Liquidations : ListedAsIs(r.seen, s)
    /\ r.at = "saveRisk" => risk.state \notin TerminalStates
    /\ r.at = "saveRisk" /\ r.op # "risk" /\ FailedSub(r.sub) => r.parent.state \in TerminalStates
    /\ r.at \in {"lookup", "put"} /\ FailedSub(r.sub) => Over

\* c is on the way to the risk case with the failure of s.
Bringing(c, s) ==
    LET r == call[c] IN
    /\ r.sub = s
    /\ \/ r.at = "listLiquidations"
       \/ r.at = "listAdls" /\ (s \in Liquidations => s \in DOMAIN r.seen /\ r.seen[s] = "Failed")
       \/ r.at = "saveRisk" /\ r.op # "risk" /\ r.parent.state \in TerminalStates
       \/ r.at \in {"lookup", "put"} /\ Over

FailuresAreKnown ==
    \A s \in Subs : FailedSub(s) =>
        Over \/ s \in reported \/ \E c \in Callers : Bringing(c, s)

ClosingsHold ==
    /\ \A k \in DOMAIN registry : Closing(registry[k]) => ClosedForGood
    /\ \A k \in DOMAIN store : Closing(store[k]) => ClosedForGood

CasesInv ==
    /\ \A c \in Callers : Reading(c) /\ (c \notin stale => CurrentReading(c))
    /\ FailuresAreKnown
    /\ ClosingsHold

-----------------------------------------------------------------------------
(***************************************************************************)
(* What the state machines allow.                                          *)
(***************************************************************************)
LEMMA StatesOfRisk ==
    /\ ActiveStates = {"Detected", "Validating", "Classified", "Liquidating", "FundAbsorbing",
                       "EvaluatingADL", "PlanningADL", "ExecutingADL", "Settling"}
    /\ AllowSpecialCaseTransition \subseteq ActiveStates
    /\ AllowDeriveSpecialCase \subseteq AllowSpecialCaseTransition
    /\ ActiveStates \intersect TerminalStates = {}
    /\ CaseState = ActiveStates \union TerminalStates
<1>1. ActiveStates = {"Detected", "Validating", "Classified", "Liquidating", "FundAbsorbing",
                      "EvaluatingADL", "PlanningADL", "ExecutingADL", "Settling"}
  BY DEF ActiveStates, RiskPath
<1> QED
  BY <1>1 DEF AllowSpecialCaseTransition, AllowDeriveSpecialCase, TerminalStates, CaseState

LEMMA RulesOfRisk ==
    \A rule \in RiskRules :
      /\ rule[1] \in ActiveStates /\ rule[3] \in CaseState
      /\ rule[2] = "Close" => rule[3] = "Closed"
      /\ rule[2] = "RequestManualIntervention" => rule[3] = "ManualInterventionRequired"
<1>1. \A rule \in RiskPath :
        /\ rule[3] \in ActiveStates \union {"Closed"}
        /\ rule[2] = "Close" => rule[3] = "Closed"
        /\ rule[2] # "RequestManualIntervention"
  BY StatesOfRisk DEF RiskPath
<1>2. \A rule \in RiskPath : rule[1] \in ActiveStates
  BY DEF ActiveStates
<1>3. ASSUME NEW rule \in RiskRules
      PROVE  \/ rule \in RiskPath
             \/ \E s \in ActiveStates : rule = <<s, "Fail", "Failed">>
             \/ \E s \in ActiveStates :
                  rule = <<s, "RequestManualIntervention", "ManualInterventionRequired">>
  BY DEF RiskRules
<1>4. "Closed" \in CaseState /\ "Failed" \in CaseState /\ "ManualInterventionRequired" \in CaseState
      /\ ActiveStates \subseteq CaseState
  BY DEF CaseState, TerminalStates
<1> QED
  BY <1>1, <1>2, <1>3, <1>4

\* A transition of a risk case: from an active state, to a state.
LEMMA TransitionOfRisk ==
    ASSUME NEW case \in Cases(CaseState), NEW action, NEW t \in Times,
           \E rule \in RiskRules : rule[1] = case.state /\ rule[2] = action
    PROVE  /\ TransitionTo(RiskRules, case, action, t) \in Cases(CaseState)
           /\ case.state \notin TerminalStates
           /\ TransitionTo(RiskRules, case, action, t).version = case.version
           /\ action = "Close" => TransitionTo(RiskRules, case, action, t).state = "Closed"
           /\ action = "RequestManualIntervention"
                => TransitionTo(RiskRules, case, action, t).state = "ManualInterventionRequired"
<1> DEFINE rule == CHOOSE r \in RiskRules : r[1] = case.state /\ r[2] = action
<1>1. rule \in RiskRules /\ rule[1] = case.state /\ rule[2] = action
  OBVIOUS
<1>2. TransitionTo(RiskRules, case, action, t) = [case EXCEPT !.state = rule[3], !.at = t]
  BY DEF TransitionTo
<1> HIDE DEF rule
<1> QED
  BY <1>1, <1>2, RulesOfRisk, StatesOfRisk DEF Cases

LEMMA RulesOfSubcases ==
    ASSUME NEW kind
    PROVE  /\ \A rule \in SubcaseRules(kind) :
                /\ ~IsTerminalSubcaseState(rule[1])
                /\ rule[1] \in SubcaseStates(kind) /\ rule[3] \in SubcaseStates(kind)
           /\ "Initiated" \in SubcaseStates(kind) /\ ~IsTerminalSubcaseState("Initiated")
<1>1. \A rule \in SubcaseRules(kind) :
        rule[1] \in SubcaseStates(kind) /\ rule[3] \in SubcaseStates(kind)
  BY DEF SubcaseStates
<1>2. \A rule \in LiquidationRules \union AdlRules : rule[1] \in {"Initiated", "InProgress", "Queued"}
  BY DEF LiquidationRules, AdlRules
<1>3. <<"Initiated", "Fail", "Failed">> \in SubcaseRules(kind)
  BY DEF SubcaseRules, LiquidationRules, AdlRules
<1>4. "Initiated" \in SubcaseStates(kind)
  BY <1>1, <1>3
<1>5. \A s \in {"Initiated", "InProgress", "Queued"} : ~IsTerminalSubcaseState(s)
  BY DEF IsTerminalSubcaseState, Succeeded
<1> QED
  BY <1>1, <1>2, <1>4, <1>5 DEF SubcaseRules

\* A transition of a subcase: from a state that is not terminal, within its kind.
LEMMA TransitionOfSub ==
    ASSUME NEW s, NEW case \in SubCases(s), NEW action, NEW t \in Times,
           \E rule \in SubcaseRules(KindOf(s)) : rule[1] = case.state /\ rule[2] = action
    PROVE  /\ TransitionTo(SubcaseRules(KindOf(s)), case, action, t) \in SubCases(s)
           /\ ~IsTerminalSubcaseState(case.state)
<1> DEFINE rules == SubcaseRules(KindOf(s))
           rule == CHOOSE r \in rules : r[1] = case.state /\ r[2] = action
<1>1. rule \in rules /\ rule[1] = case.state /\ rule[2] = action
  OBVIOUS
<1>2. TransitionTo(rules, case, action, t) = [case EXCEPT !.state = rule[3], !.at = t]
  BY DEF TransitionTo
<1>3. ~IsTerminalSubcaseState(rule[1]) /\ rule[3] \in SubcaseStates(KindOf(s))
  BY <1>1, RulesOfSubcases
<1> HIDE DEF rule, rules
<1>4. [case EXCEPT !.state = rule[3], !.at = t] \in SubCases(s)
  BY <1>3 DEF SubCases, Cases
<1> QED
  BY <1>1, <1>2, <1>3, <1>4 DEF rules

LEMMA SubCasesAreCases ==
    ASSUME NEW s \in Subs
    PROVE  SubCases(s) \subseteq Cases(SubState)
BY DEF SubCases, SubState, KindOf, Cases

-----------------------------------------------------------------------------
(***************************************************************************)
(* What the arbitration decides.                                           *)
(***************************************************************************)
LEMMA PrioritiesOfActions ==
    /\ ResolutionPriority("UnderReview") = 1 /\ ResolutionPriority("Resolved") = 2
    /\ ResolutionPriority("ManualIntervention") = 3
BY DEF ResolutionPriority

LEMMA PrioritiesOfStates ==
    ASSUME NEW state \in CaseState
    PROVE  /\ state = "ManualInterventionRequired" => RiskCaseCurrentPriority(state) = 3
           /\ state = "Closed" => RiskCaseCurrentPriority(state) = 2
           /\ state \notin {"Closed", "ManualInterventionRequired"}
                => RiskCaseCurrentPriority(state) = 0
BY DEF RiskCaseCurrentPriority

\* The four selections there are.
LEMMA SelectionIs ==
    ASSUME NEW trigger, NEW subs, NEW state
    PROVE  LET failed == \E s \in DOMAIN subs : subs[s] = "Failed"
               chosen == Selection(trigger, subs, state)
           IN  \/ /\ failed
                  /\ chosen = Resolution("ManualIntervention", "applied",
                                         "RequestManualIntervention")
               \/ /\ ~failed /\ state = "Closed"
                  /\ chosen = Resolution("Resolved", "duplicate", "")
               \/ /\ ~failed /\ state # "Closed"
                  /\ chosen = Resolution("UnderReview", "deferred", "")
               \/ /\ ~failed /\ state \in {"Classified", "Settling"}
                  /\ \A s \in DOMAIN subs \ {trigger} : IsTerminalSubcaseState(subs[s])
                  /\ chosen = Resolution("Resolved", "applied", "Close")
BY DEF Selection

Decisions == {"applied", "deferred", "rejected", "ignored", "duplicate"}

\* The plan is the selection, or a settled one: one that changes nothing.
LEMMA PlanOrSettled ==
    ASSUME NEW trigger, NEW subs, NEW state \in CaseState, NEW category
    PROVE  LET chosen == Selection(trigger, subs, state)
               plan == ResolutionPlan(trigger, subs, state, category)
           IN  /\ \/ plan = chosen
                  \/ /\ plan.action = chosen.action /\ plan.apply = ""
                     /\ plan.decision \in {"ignored", "duplicate", "rejected"}
               /\ chosen.action = "ManualIntervention" =>
                    IF state \in TerminalStates THEN plan.apply = "" /\ plan.decision # "applied"
                                                ELSE plan = chosen
<1> DEFINE chosen == Selection(trigger, subs, state)
           selected == ResolutionPriority(chosen.action)
           current == RiskCaseCurrentPriority(state)
           act == chosen.action
           settled(decision) == Resolution(act, decision, "")
           manual == act = "ManualIntervention"
           plan == ResolutionPlan(trigger, subs, state, category)
<1>1. plan =
        IF category \in {"late", "replayed"}
        THEN IF selected <= current
             THEN settled(IF category = "late" THEN "ignored" ELSE "duplicate")
             ELSE IF manual /\ state \notin TerminalStates THEN chosen
             ELSE settled("rejected")
        ELSE IF current > selected THEN settled("rejected")
        ELSE IF current = selected /\ state \in {"Closed", "ManualInterventionRequired"}
        THEN settled("duplicate")
        ELSE IF manual /\ state \in {"Closed", "Failed"} THEN settled("rejected")
        ELSE chosen
  BY DEF ResolutionPlan
<1>2. \A d : /\ settled(d).action = act /\ settled(d).apply = ""
             /\ settled(d).decision = d
  <2> HIDE DEF act
  <2> QED
    BY DEF Resolution
<1>3. manual => selected = 3
  BY PrioritiesOfActions
<1>4. \/ state = "ManualInterventionRequired" /\ current = 3
      \/ state \in {"Closed", "Failed"} /\ current \in {0, 2}
      \/ state \notin TerminalStates /\ current = 0
  BY PrioritiesOfStates DEF TerminalStates
<1> HIDE DEF selected, current, settled, plan, manual, chosen
<1>5. \/ plan = chosen
      \/ plan = settled("ignored") \/ plan = settled("duplicate") \/ plan = settled("rejected")
  BY <1>1
<1>6. ASSUME manual, state \in TerminalStates
      PROVE  plan.apply = "" /\ plan.decision # "applied"
  <2>1. plan = settled("ignored") \/ plan = settled("duplicate") \/ plan = settled("rejected")
    BY <1>1, <1>3, <1>4, <1>6 DEF TerminalStates
  <2> QED
    BY <2>1, <1>2
<1>7. ASSUME manual, state \notin TerminalStates
      PROVE  plan = chosen
  BY <1>1, <1>3, <1>4, <1>7 DEF TerminalStates
<1>8. \/ plan = chosen
      \/ /\ plan.action = chosen.action /\ plan.apply = ""
         /\ plan.decision \in {"ignored", "duplicate", "rejected"}
  <2> HIDE DEF act
  <2>1. \A d \in {"ignored", "duplicate", "rejected"} : plan = settled(d) =>
          plan.action = act /\ plan.apply = "" /\ plan.decision \in {"ignored", "duplicate", "rejected"}
    BY <1>2
  <2>2. \/ plan = chosen
        \/ /\ plan.action = act /\ plan.apply = ""
           /\ plan.decision \in {"ignored", "duplicate", "rejected"}
    BY <2>1, <1>5
  <2> QED
    BY <2>2 DEF act
<1>9. /\ \/ plan = chosen
         \/ /\ plan.action = chosen.action /\ plan.apply = ""
            /\ plan.decision \in {"ignored", "duplicate", "rejected"}
      /\ manual =>
           IF state \in TerminalStates THEN plan.apply = "" /\ plan.decision # "applied"
                                       ELSE plan = chosen
  BY <1>6, <1>7, <1>8
<1> QED
  BY <1>9 DEF plan, manual, chosen

\* A plan closes only when all that was listed has succeeded, but for the trigger; a
\* failure among it ends the risk case, or finds it ended; and only what changes the risk
\* case is called applied.
PlanOf(plan, trigger, subs, state) ==
    LET failed == \E s \in DOMAIN subs : subs[s] = "Failed" IN
    /\ plan.action \in RiskCaseResolutionAction /\ plan.decision \in Decisions
    /\ \/ plan.apply = "" /\ plan.decision # "applied" /\ (failed => state \in TerminalStates)
       \/ /\ plan.apply = "RequestManualIntervention" /\ plan.decision = "applied"
          /\ state \notin TerminalStates
       \/ /\ plan.apply = "Close" /\ plan.decision = "applied"
          /\ ~failed /\ state \in {"Classified", "Settling"}
          /\ \A s \in DOMAIN subs \ {trigger} : IsTerminalSubcaseState(subs[s])

LEMMA PlanIs ==
    ASSUME NEW trigger, NEW subs, NEW state \in CaseState, NEW category
    PROVE  PlanOf(ResolutionPlan(trigger, subs, state, category), trigger, subs, state)
<1> DEFINE failed == \E s \in DOMAIN subs : subs[s] = "Failed"
           chosen == Selection(trigger, subs, state)
           plan == ResolutionPlan(trigger, subs, state, category)
           others == \A s \in DOMAIN subs \ {trigger} : IsTerminalSubcaseState(subs[s])
<1>1. \/ /\ failed
         /\ chosen.action = "ManualIntervention" /\ chosen.decision = "applied"
         /\ chosen.apply = "RequestManualIntervention"
      \/ /\ ~failed
         /\ chosen.action = "Resolved" /\ chosen.decision = "duplicate" /\ chosen.apply = ""
      \/ /\ ~failed
         /\ chosen.action = "UnderReview" /\ chosen.decision = "deferred" /\ chosen.apply = ""
      \/ /\ ~failed /\ state \in {"Classified", "Settling"} /\ others
         /\ chosen.action = "Resolved" /\ chosen.decision = "applied" /\ chosen.apply = "Close"
  <2> DEFINE a == Resolution("ManualIntervention", "applied", "RequestManualIntervention")
             b == Resolution("Resolved", "duplicate", "")
             c == Resolution("UnderReview", "deferred", "")
             d == Resolution("Resolved", "applied", "Close")
  <2>1. \/ failed /\ chosen = a
        \/ ~failed /\ chosen = b
        \/ ~failed /\ chosen = c
        \/ ~failed /\ state \in {"Classified", "Settling"} /\ others /\ chosen = d
    BY SelectionIs
  <2>2. /\ a.action = "ManualIntervention" /\ a.decision = "applied"
        /\ a.apply = "RequestManualIntervention"
        /\ b.action = "Resolved" /\ b.decision = "duplicate" /\ b.apply = ""
        /\ c.action = "UnderReview" /\ c.decision = "deferred" /\ c.apply = ""
        /\ d.action = "Resolved" /\ d.decision = "applied" /\ d.apply = "Close"
    BY DEF Resolution
  <2> HIDE DEF a, b, c, d, chosen
  <2> QED
    BY <2>1, <2>2
<1>2. /\ \/ plan = chosen
         \/ /\ plan.action = chosen.action /\ plan.apply = ""
            /\ plan.decision \in {"ignored", "duplicate", "rejected"}
      /\ chosen.action = "ManualIntervention" =>
           IF state \in TerminalStates THEN plan.apply = "" /\ plan.decision # "applied"
                                       ELSE plan = chosen
  BY PlanOrSettled
<1> HIDE DEF chosen, plan
<1>3. PlanOf(plan, trigger, subs, state)
  BY <1>1, <1>2 DEF PlanOf, RiskCaseResolutionAction, Decisions
<1> QED
  BY <1>3 DEF plan

-----------------------------------------------------------------------------
(***************************************************************************)
(* Types.                                                                  *)
(***************************************************************************)
LEMMA EmptyFunction ==
    ASSUME NEW S
    PROVE  <<>> \in [{} -> S] /\ DOMAIN <<>> = {}
OBVIOUS

LEMMA IdleIsReady == Idle \in OpenCommands /\ CommandIsReady(Idle)
<1>1. <<>> \in Listings
  BY EmptyFunction DEF Listings
<1>2. 0 \in Times
  BY CasesAssumption DEF Times
<1>3. Idle \in OpenCommands
  BY <1>1, <1>2 DEF Idle, OpenCommands
<1>4. CommandIsReady(Idle)
  <2>1. Idle.at = "idle" /\ Idle.op = None
    BY DEF Idle
  <2> QED
    BY <2>1 DEF CommandIsReady
<1> QED
  BY <1>3, <1>4

\* A command goes to another place.
LEMMA CommandMoves ==
    ASSUME TypeInv, NEW c \in Callers, NEW r \in OpenCommands, CommandIsReady(r), GoTo(c, r)
    PROVE  /\ call' \in [Callers -> OpenCommands] /\ \A d \in Callers : CommandIsReady(call'[d])
           /\ call'[c] = r /\ \A d \in Callers \ {c} : call'[d] = call[d]
BY DEF TypeInv, GoTo

LEMMA CommandEnds ==
    ASSUME TypeInv, NEW c \in Callers, Succeed(c) \/ Fail(c)
    PROVE  /\ call' \in [Callers -> OpenCommands] /\ \A d \in Callers : CommandIsReady(call'[d])
           /\ call'[c] = Idle /\ \A d \in Callers \ {c} : call'[d] = call[d]
           /\ reported' \subseteq Subs
<1>1. GoTo(c, Idle)
  BY DEF Succeed, Fail
<1>2. call[c].sub \in Subs \union {None}
  BY DEF TypeInv, OpenCommands
<1>3. reported' \subseteq Subs
  BY <1>2 DEF Succeed, Fail, TypeInv
<1> QED
  BY <1>1, <1>3, IdleIsReady, CommandMoves

LEMMA IssueKeepsTypes ==
    ASSUME TypeInv, NEW c \in Callers, Commands(c), UNCHANGED repairVars
    PROVE  TypeInv'
<1>1. PICK t \in Times, version \in Versions :
        \/ \E s \in Subs : Create(c, s, t, version) \/ Coordinate(c, s, t, version)
        \/ \E s \in Subs : \E action \in Actions(KindOf(s)) :
             TransitionSub(c, s, action, t, version)
        \/ \E action \in RiskActions : TransitionRisk(c, action, t, version)
  BY DEF Commands
<1>2. ASSUME NEW r \in OpenCommands, CommandIsReady(r), Issue(c, r)
      PROVE  TypeInv'
  <2>1. left' \in 0 .. CommandBound
    BY <1>2, CasesAssumption DEF Issue, TypeInv
  <2> QED
    BY <1>2, <2>1, CommandMoves DEF Issue, TypeInv, repairVars
<1>3. ASSUME NEW s \in Subs, Create(c, s, t, version) \/ Coordinate(c, s, t, version)
      PROVE  TypeInv'
  <2>1. CASE Create(c, s, t, version)
    <3> DEFINE r == [Idle EXCEPT !.at = "loadRisk", !.op = "create", !.sub = s, !.t = t,
                                 !.version = version]
    <3>1. r \in OpenCommands
      BY IdleIsReady DEF OpenCommands, Awaits
    <3>2. CommandIsReady(r)
      BY DEF CommandIsReady, Idle
    <3> QED
      BY <1>2, <2>1, <3>1, <3>2 DEF Create
  <2>2. CASE Coordinate(c, s, t, version)
    <3> DEFINE r == [Idle EXCEPT !.at = "loadSub", !.op = "coordinate", !.sub = s, !.t = t,
                                 !.version = version]
    <3>1. r \in OpenCommands
      BY IdleIsReady DEF OpenCommands, Awaits
    <3>2. CommandIsReady(r)
      BY DEF CommandIsReady, Idle
    <3> QED
      BY <1>2, <2>2, <3>1, <3>2 DEF Coordinate
  <2> QED
    BY <1>3, <2>1, <2>2
<1>4. ASSUME NEW s \in Subs, NEW action \in Actions(KindOf(s)),
             TransitionSub(c, s, action, t, version)
      PROVE  TypeInv'
  <2> DEFINE r == [Idle EXCEPT !.at = "loadSub", !.op = "transition", !.sub = s,
                               !.action = action, !.t = t, !.version = version]
  <2>1. action \in AllActions
    BY DEF AllActions, KindOf
  <2>2. r \in OpenCommands
    BY <2>1, IdleIsReady DEF OpenCommands, Awaits
  <2>3. CommandIsReady(r)
    BY DEF CommandIsReady, Idle
  <2> QED
    BY <1>2, <1>4, <2>2, <2>3 DEF TransitionSub
<1>5. ASSUME NEW action \in RiskActions, TransitionRisk(c, action, t, version)
      PROVE  TypeInv'
  <2> DEFINE r == [Idle EXCEPT !.at = "loadRisk", !.op = "risk", !.action = action, !.t = t,
                               !.version = version]
  <2>1. r \in OpenCommands
    BY IdleIsReady DEF OpenCommands, Awaits, AllActions
  <2>2. CommandIsReady(r)
    BY DEF CommandIsReady, Idle
  <2> QED
    BY <1>2, <1>5, <2>1, <2>2 DEF TransitionRisk
<1> QED
  BY <1>1, <1>3, <1>4, <1>5

\* A command that goes to another place, with nothing else that has a type.
LEMMA LoadSubKeepsTypes ==
    ASSUME TypeInv, NEW c \in Callers, LoadSub(c), UNCHANGED repairVars
    PROVE  TypeInv'
<1> DEFINE r == call[c]
           next == [r EXCEPT !.at = "loadRisk", !.own = sub[r.sub]]
<1>1. r \in OpenCommands /\ CommandIsReady(r) /\ r.at = "loadSub"
  BY DEF LoadSub, TypeInv
<1>2. CASE Fail(c)
  BY <1>2, CommandEnds DEF LoadSub, TypeInv, repairVars
<1>3. CASE ~Fail(c)
  <2>1. /\ GoTo(c, next) /\ UNCHANGED reported /\ sub[r.sub] # None
        /\ r.op = "coordinate" => IsTerminalSubcaseState(sub[r.sub].state)
    BY <1>3 DEF LoadSub
  <2>2. r.sub \in Subs /\ r.op \in {"transition", "coordinate"}
    BY <1>1 DEF CommandIsReady
  <2>3. sub[r.sub] \in SubCases(r.sub) /\ sub[r.sub] \in Cases(SubState)
    BY <2>1, <2>2, SubCasesAreCases DEF TypeInv
  <2>4. next \in OpenCommands
    BY <1>1, <2>3 DEF OpenCommands, Awaits
  <2>5. CommandIsReady(next)
    <3> HIDE DEF r
    <3> QED
      BY <1>1, <2>1, <2>2, <2>3 DEF CommandIsReady, OpenCommands
  <2> QED
    BY <2>1, <2>4, <2>5, CommandMoves DEF LoadSub, TypeInv, repairVars
<1> QED
  BY <1>2, <1>3

LEMMA LoadRiskKeepsTypes ==
    ASSUME TypeInv, NEW c \in Callers, LoadRisk(c), UNCHANGED repairVars
    PROVE  TypeInv'
<1> DEFINE r == [call[c] EXCEPT !.parent = risk]
           rules == SubcaseRules(KindOf(r.sub))
<1>1. call[c] \in OpenCommands /\ CommandIsReady(call[c]) /\ call[c].at = "loadRisk"
      /\ risk \in Cases(CaseState)
  BY DEF LoadRisk, TypeInv
<1>2. r \in OpenCommands /\ r.at = "loadRisk" /\ r.parent = risk /\ CommandIsReady(r)
      /\ r.version \in Versions /\ r.t \in Times
  BY <1>1 DEF OpenCommands, CommandIsReady
<1>3. ASSUME NEW next \in OpenCommands, CommandIsReady(next), GoTo(c, next), UNCHANGED reported
      PROVE  TypeInv'
  BY <1>3, CommandMoves DEF LoadRisk, TypeInv, repairVars
<1>4. \/ /\ r.op = "create"
         /\ GoTo(c, [r EXCEPT !.at = "saveSub",
                       !.own = [state |-> "Initiated", at |-> r.t, version |-> r.version]])
         /\ UNCHANGED reported
      \/ /\ r.op = "transition"
         /\ Allowed(rules, r.own, r.action, r.version, r.t)
         /\ GoTo(c, [r EXCEPT !.at = "saveSub",
                       !.own = TransitionTo(rules, r.own, r.action, r.t)])
         /\ UNCHANGED reported
      \/ /\ r.op = "coordinate"
         /\ GoTo(c, [r EXCEPT !.at = "listLiquidations"])
         /\ UNCHANGED reported
      \/ /\ r.op = "risk" /\ Allowed(RiskRules, risk, r.action, r.version, r.t)
         /\ GoTo(c, [r EXCEPT !.at = "saveRisk",
                       !.parent = TransitionTo(RiskRules, risk, r.action, r.t)])
         /\ UNCHANGED reported
      \/ GoTo(c, Idle) /\ UNCHANGED reported
  BY <1>2 DEF LoadRisk
<1> HIDE DEF r
<1>5. CASE r.op = "create" /\ GoTo(c, [r EXCEPT !.at = "saveSub",
                !.own = [state |-> "Initiated", at |-> r.t, version |-> r.version]])
             /\ UNCHANGED reported
  <2> DEFINE own == [state |-> "Initiated", at |-> r.t, version |-> r.version]
             next == [r EXCEPT !.at = "saveSub", !.own = own]
  <2>1. r.sub \in Subs
    BY <1>2, <1>5 DEF CommandIsReady
  <2>2. own \in SubCases(r.sub)
    BY <1>2, RulesOfSubcases DEF SubCases, Cases
  <2>3. own \in Cases(SubState)
    BY <2>1, <2>2, SubCasesAreCases
  <2> HIDE DEF own
  <2>4. next \in OpenCommands
    BY <1>2, <2>3 DEF OpenCommands, Awaits
  <2>5. CommandIsReady(next)
    BY <1>1, <1>2, <1>5, <2>1, <2>2 DEF CommandIsReady, OpenCommands
  <2> QED
    BY <1>3, <1>5, <2>4, <2>5 DEF own
<1>6. CASE /\ r.op = "transition"
           /\ Allowed(rules, r.own, r.action, r.version, r.t)
           /\ GoTo(c, [r EXCEPT !.at = "saveSub",
                         !.own = TransitionTo(rules, r.own, r.action, r.t)])
           /\ UNCHANGED reported
  <2> DEFINE own == TransitionTo(rules, r.own, r.action, r.t)
             next == [r EXCEPT !.at = "saveSub", !.own = own]
  <2>1. r.sub \in Subs /\ r.own \in SubCases(r.sub)
    BY <1>2, <1>6 DEF CommandIsReady
  <2>2. own \in SubCases(r.sub)
    BY <1>2, <1>6, <2>1, TransitionOfSub DEF Allowed
  <2>3. own \in Cases(SubState)
    BY <2>1, <2>2, SubCasesAreCases
  <2> HIDE DEF own
  <2>4. next \in OpenCommands
    BY <1>2, <2>3 DEF OpenCommands, Awaits
  <2>5. CommandIsReady(next)
    BY <1>1, <1>2, <1>6, <2>1, <2>2 DEF CommandIsReady, OpenCommands
  <2> QED
    BY <1>3, <1>6, <2>4, <2>5 DEF own
<1>7. CASE r.op = "coordinate" /\ GoTo(c, [r EXCEPT !.at = "listLiquidations"])
             /\ UNCHANGED reported
  <2> DEFINE next == [r EXCEPT !.at = "listLiquidations"]
  <2>1. next \in OpenCommands
    BY <1>2 DEF OpenCommands, Awaits
  <2>2. CommandIsReady(next)
    BY <1>1, <1>2, <1>7 DEF CommandIsReady, OpenCommands
  <2> QED
    BY <1>3, <1>7, <2>1, <2>2
<1>8. CASE /\ r.op = "risk" /\ Allowed(RiskRules, risk, r.action, r.version, r.t)
           /\ GoTo(c, [r EXCEPT !.at = "saveRisk",
                         !.parent = TransitionTo(RiskRules, risk, r.action, r.t)])
           /\ UNCHANGED reported
  <2> DEFINE parent == TransitionTo(RiskRules, risk, r.action, r.t)
             next == [r EXCEPT !.at = "saveRisk", !.parent = parent]
  <2>1. parent \in Cases(CaseState)
    BY <1>1, <1>2, <1>8, TransitionOfRisk DEF Allowed
  <2> HIDE DEF parent
  <2>2. next \in OpenCommands
    BY <1>2, <2>1 DEF OpenCommands, Awaits
  <2>3. CommandIsReady(next)
    BY <1>1, <1>2, <1>8, <2>1 DEF CommandIsReady, OpenCommands
  <2> QED
    BY <1>3, <1>8, <2>2, <2>3 DEF parent
<1>9. CASE GoTo(c, Idle) /\ UNCHANGED reported
  BY <1>3, <1>9, IdleIsReady
<1> QED
  BY <1>4, <1>5, <1>6, <1>7, <1>8, <1>9

LEMMA SaveSubKeepsTypes ==
    ASSUME TypeInv, NEW c \in Callers, SaveSub(c), UNCHANGED repairVars
    PROVE  TypeInv'
<1> DEFINE r == call[c]
           next == [r EXCEPT !.at = "listLiquidations"]
<1>1. r \in OpenCommands /\ CommandIsReady(r) /\ r.at = "saveSub"
  BY DEF SaveSub, TypeInv
<1>2. r.sub \in Subs /\ r.own \in SubCases(r.sub) /\ r.own \in Cases(SubState)
  BY <1>1, SubCasesAreCases DEF CommandIsReady
<1>3. /\ sub' \in [Subs -> Cases(SubState) \union {None}]
      /\ \A s \in Subs : sub'[s] \in SubCases(s) \union {None}
  BY <1>2 DEF SaveSub, TypeInv
<1>4. CASE Succeed(c) \/ Fail(c)
  BY <1>3, <1>4, CommandEnds DEF SaveSub, TypeInv, repairVars
<1>5. CASE ~(Succeed(c) \/ Fail(c))
  <2>1. /\ GoTo(c, next) /\ UNCHANGED reported
        /\ r.op # "create" /\ IsTerminalSubcaseState(r.own.state)
    BY <1>5 DEF SaveSub, AfterSave
  <2>2. next \in OpenCommands
    BY <1>1 DEF OpenCommands, Awaits
  <2>3. CommandIsReady(next)
    <3> HIDE DEF r
    <3> QED
      BY <1>1, <1>2, <2>1 DEF CommandIsReady, OpenCommands
  <2> QED
    BY <1>3, <2>1, <2>2, <2>3, CommandMoves DEF SaveSub, TypeInv, repairVars
<1> QED
  BY <1>4, <1>5

LEMMA ListingType ==
    ASSUME TypeInv, NEW ids, ids \subseteq Subs
    PROVE  StatesOf(ids) \in Listings
<1>1. \A s \in Subs : sub[s] # None => sub[s].state \in SubState
  BY DEF TypeInv, Cases
<1>2. {x \in ids : sub[x] # None} \in SUBSET Subs
  OBVIOUS
<1>3. StatesOf(ids) \in [{x \in ids : sub[x] # None} -> SubState]
  BY <1>1 DEF StatesOf
<1> QED
  BY <1>2, <1>3 DEF Listings

LEMMA ListLiquidationsKeepsTypes ==
    ASSUME TypeInv, NEW c \in Callers, ListLiquidations(c), UNCHANGED repairVars
    PROVE  TypeInv'
<1> DEFINE r == call[c]
           next == [r EXCEPT !.at = "listAdls", !.seen = StatesOf(Liquidations)]
<1>1. r \in OpenCommands /\ CommandIsReady(r) /\ r.at = "listLiquidations" /\ GoTo(c, next)
  BY DEF ListLiquidations, TypeInv
<1>2. StatesOf(Liquidations) \in Listings
  BY ListingType DEF Subs
<1>3. next \in OpenCommands
  BY <1>1, <1>2 DEF OpenCommands, Awaits
<1>4. CommandIsReady(next)
  <2> HIDE DEF r
  <2> QED
    BY <1>1 DEF CommandIsReady, OpenCommands
<1> QED
  BY <1>1, <1>3, <1>4, CommandMoves DEF ListLiquidations, TypeInv, repairVars

\* What a recording command leaves.
LEMMA RecordIs ==
    ASSUME TypeInv, NEW c \in Callers, NEW fact \in Facts, Record(c, fact),
           call[c].at = "listAdls" \/ (call[c].at = "saveRisk" /\ call[c].op # "risk")
    PROVE  /\ call' \in [Callers -> OpenCommands] /\ \A d \in Callers : CommandIsReady(call'[d])
           /\ \A d \in Callers \ {c} : call'[d] = call[d]
           /\ reported' \subseteq Subs
           /\ registry' \in [DOMAIN registry' -> Facts] /\ DOMAIN registry' \subseteq Keys
           /\ DOMAIN registry \subseteq DOMAIN registry'
           /\ \A k \in DOMAIN registry : registry'[k] = registry[k]
           /\ \A k \in DOMAIN registry' \ DOMAIN registry : registry'[k] = fact
           /\ \/ /\ call'[c] = Idle /\ Fail(c)
                 /\ registry' = registry
              \/ /\ call'[c] = [call[c] EXCEPT !.at = "lookup", !.fact = fact]
                 /\ KeyOf(c) \in DOMAIN registry'
                 /\ KeyOf(c) \in DOMAIN registry => Consistent(registry[KeyOf(c)], fact)
                 /\ UNCHANGED reported
<1> DEFINE r == call[c]
           k == KeyOf(c)
           next == [r EXCEPT !.at = "lookup", !.fact = fact]
<1>1. r \in OpenCommands /\ CommandIsReady(r)
  BY DEF TypeInv
<1>2. registry \in [DOMAIN registry -> Facts] /\ DOMAIN registry \subseteq Keys
      /\ reported \subseteq Subs
  BY DEF TypeInv
<1>3. k \in Keys
  BY <1>1 DEF CommandIsReady, KeyOf, Keys, OpenCommands
<1>4. CASE k \in DOMAIN registry /\ ~Consistent(registry[k], fact)
  <2>1. Fail(c) /\ registry' = registry
    BY <1>4 DEF Record
  <2> QED
    BY <1>2, <2>1, CommandEnds
<1>5. CASE ~(k \in DOMAIN registry /\ ~Consistent(registry[k], fact))
  <2>1. /\ registry' = IF k \in DOMAIN registry THEN registry ELSE Put(registry, k, fact)
        /\ GoTo(c, next) /\ UNCHANGED reported
    BY <1>5 DEF Record
  <2>2. next \in OpenCommands
    BY <1>1 DEF OpenCommands, Awaits
  <2>3. CommandIsReady(next)
    <3>1. /\ next.at = "lookup" /\ next.op = r.op /\ next.sub = r.sub /\ next.own = r.own
          /\ next.fact = fact
      BY <1>1 DEF OpenCommands
    <3> HIDE DEF next, r
    <3> QED
      BY <1>1, <3>1 DEF CommandIsReady, r
  <2>4. /\ registry' \in [DOMAIN registry' -> Facts] /\ DOMAIN registry' \subseteq Keys
        /\ DOMAIN registry \subseteq DOMAIN registry' /\ k \in DOMAIN registry'
        /\ \A x \in DOMAIN registry : registry'[x] = registry[x]
        /\ \A x \in DOMAIN registry' \ DOMAIN registry : registry'[x] = fact
    <3> HIDE DEF k
    <3>1. CASE k \in DOMAIN registry
      BY <1>2, <2>1, <3>1
    <3>2. CASE k \notin DOMAIN registry
      <4>1. registry' = Put(registry, k, fact)
        BY <2>1, <3>2
      <4>2. /\ registry' \in [DOMAIN registry' -> Facts]
            /\ DOMAIN registry' = DOMAIN registry \union {k} /\ registry'[k] = fact
            /\ \A x \in DOMAIN registry : x # k => registry'[x] = registry[x]
        BY <1>2, <4>1 DEF Put
      <4> QED
        BY <1>2, <1>3, <3>2, <4>2
    <3> QED
      BY <3>1, <3>2
  <2>5. k \in DOMAIN registry => Consistent(registry[k], fact)
    BY <1>5
  <2> QED
    BY <1>2, <2>1, <2>2, <2>3, <2>4, <2>5, CommandMoves
<1> QED
  BY <1>4, <1>5

-----------------------------------------------------------------------------
\* What command r has listed once the ADL cases are listed too.
Listed(r) == CoordinationContext(StatesOf(Adls), r.seen)

\* What a command does when it has listed: next is the risk case it is to leave, fact what
\* it is to record.
Arbitrated(c, next, fact) ==
    LET listed == Listed(call[c]) IN
    /\ fact.after = next.state
    /\ (\E s \in DOMAIN listed : listed[s] = "Failed") => next.state \in TerminalStates
    /\ Closing(fact) =>
         /\ ~\E s \in DOMAIN listed : listed[s] = "Failed"
         /\ \A s \in DOMAIN listed \ {call[c].sub} : IsTerminalSubcaseState(listed[s])
    /\ \/ next = call[c].parent /\ ~Closing(fact) /\ Record(c, fact)
       \/ /\ call[c].parent.state \notin TerminalStates
          /\ GoTo(c, [call[c] EXCEPT !.at = "saveRisk", !.parent = next, !.fact = fact])
          /\ UNCHANGED <<registry, reported>>

LEMMA ListAdlsIs ==
    ASSUME TypeInv, NEW c \in Callers, ListAdls(c)
    PROVE  \E next \in Cases(CaseState), fact \in Facts : Arbitrated(c, next, fact)
<1> DEFINE r == call[c]
           listed == Listed(r)
           failed == \E s \in DOMAIN listed : listed[s] = "Failed"
           others == \A s \in DOMAIN listed \ {r.sub} : IsTerminalSubcaseState(listed[s])
           state == r.parent.state
           plan == ResolutionPlan(r.sub, listed, state, Ordering(r.t, r.own, r.parent, r.op))
           at == IF r.t < r.parent.at THEN r.parent.at ELSE r.t
           next == IF plan.apply = "" THEN r.parent
                   ELSE TransitionTo(RiskRules, r.parent, plan.apply, at)
           fact == [action |-> plan.action, decision |-> plan.decision,
                    after |-> next.state, auditAt |-> at]
<1>1. r \in OpenCommands /\ CommandIsReady(r) /\ r.at = "listAdls"
  BY DEF ListAdls, TypeInv
<1>2. r.parent \in Cases(CaseState) /\ r.t \in Times /\ at \in Times /\ state \in CaseState
  BY <1>1 DEF CommandIsReady, OpenCommands, Cases
<1>3. IF plan.apply = "" THEN Record(c, fact)
      ELSE /\ GoTo(c, [r EXCEPT !.at = "saveRisk", !.parent = next, !.fact = fact])
           /\ UNCHANGED <<registry, reported>>
  BY DEF ListAdls, Listed
<1>4. PlanOf(plan, r.sub, listed, state)
  BY <1>2, PlanIs
<1> HIDE DEF plan
<1>5. /\ plan.action \in RiskCaseResolutionAction /\ plan.decision \in Decisions
      /\ \/ plan.apply = "" /\ plan.decision # "applied" /\ (failed => state \in TerminalStates)
         \/ /\ plan.apply = "RequestManualIntervention" /\ plan.decision = "applied"
            /\ state \notin TerminalStates
         \/ /\ plan.apply = "Close" /\ plan.decision = "applied"
            /\ ~failed /\ state \in {"Classified", "Settling"} /\ others
  <2> HIDE DEF listed, state
  <2> QED
    BY <1>4 DEF PlanOf
<1> HIDE DEF listed, at
<1>6. CASE plan.apply = ""
  <2>1. next = r.parent
    BY <1>6
  <2>2. fact \in Facts /\ fact.after = next.state /\ fact.decision # "applied"
    BY <1>2, <1>5, <1>6 DEF Facts, Decisions
  <2>3. failed => state \in TerminalStates
    BY <1>5, <1>6
  <2>4. Record(c, fact)
    BY <1>3, <1>6
  <2> HIDE DEF fact, next
  <2>5. Arbitrated(c, next, fact)
    BY <2>1, <2>2, <2>3, <2>4 DEF Arbitrated, Closing, listed
  <2> QED
    BY <1>2, <2>1, <2>2, <2>5
<1>7. CASE plan.apply # ""
  <2>1. /\ \E rule \in RiskRules : rule[1] = state /\ rule[2] = plan.apply
        /\ state \notin TerminalStates
    <3>1. CASE plan.apply = "Close" /\ state \in {"Classified", "Settling"}
      <4>1. /\ <<"Classified", "Close", "Closed">> \in RiskRules
            /\ <<"Settling", "Close", "Closed">> \in RiskRules
        BY DEF RiskRules, RiskPath
      <4>2. state \notin TerminalStates
        BY <3>1 DEF TerminalStates
      <4> HIDE DEF state
      <4>3. CASE state = "Classified"
        BY <3>1, <4>1, <4>2, <4>3
      <4>4. CASE state = "Settling"
        BY <3>1, <4>1, <4>2, <4>4
      <4> QED
        BY <3>1, <4>3, <4>4
    <3>2. CASE plan.apply = "RequestManualIntervention" /\ state \notin TerminalStates
      <4>1. <<state, "RequestManualIntervention", "ManualInterventionRequired">> \in RiskRules
        BY <1>2, <3>2, StatesOfRisk DEF RiskRules
      <4> QED
        BY <3>2, <4>1
    <3> QED
      BY <1>5, <1>7, <3>1, <3>2
  <2>2. next = TransitionTo(RiskRules, r.parent, plan.apply, at)
    BY <1>7
  <2>3. /\ next \in Cases(CaseState)
        /\ plan.apply = "Close" => next.state = "Closed"
        /\ plan.apply = "RequestManualIntervention" => next.state = "ManualInterventionRequired"
    <3> HIDE DEF next, fact
    <3> QED
      BY <1>2, <2>1, <2>2, TransitionOfRisk
  <2>4. next.state \in CaseState
    BY <2>3 DEF Cases
  <2>5. fact \in Facts /\ fact.after = next.state
    <3> HIDE DEF next
    <3> QED
      BY <1>2, <1>5, <2>4 DEF Facts, Decisions
  <2>6. GoTo(c, [r EXCEPT !.at = "saveRisk", !.parent = next, !.fact = fact])
        /\ UNCHANGED <<registry, reported>>
    BY <1>3, <1>7
  <2> HIDE DEF fact, next, state
  <2>7. next.state \in TerminalStates
    BY <1>5, <1>7, <2>3 DEF TerminalStates
  <2>8. Closing(fact) => ~failed /\ others
    BY <1>5, <1>7, <2>3, <2>5 DEF Closing
  <2>9. Arbitrated(c, next, fact)
    BY <2>1, <2>5, <2>6, <2>7, <2>8 DEF Arbitrated, listed, state
  <2> QED
    BY <2>3, <2>5, <2>9
<1> QED
  BY <1>6, <1>7

LEMMA ListAdlsKeepsTypes ==
    ASSUME TypeInv, NEW c \in Callers, ListAdls(c), UNCHANGED repairVars
    PROVE  TypeInv'
<1> DEFINE r == call[c]
<1>1. r \in OpenCommands /\ CommandIsReady(r) /\ r.at = "listAdls"
  BY DEF ListAdls, TypeInv
<1>2. PICK next \in Cases(CaseState), fact \in Facts : Arbitrated(c, next, fact)
  BY ListAdlsIs
<1>3. CASE Record(c, fact)
  BY <1>1, <1>3, RecordIs DEF ListAdls, TypeInv, repairVars
<1>4. CASE ~Record(c, fact)
  <2> DEFINE after == [r EXCEPT !.at = "saveRisk", !.parent = next, !.fact = fact]
  <2>1. GoTo(c, after) /\ UNCHANGED <<registry, reported>>
    BY <1>2, <1>4 DEF Arbitrated
  <2>2. after \in OpenCommands
    BY <1>1 DEF OpenCommands, Awaits
  <2>3. CommandIsReady(after)
    <3>1. /\ after.at = "saveRisk" /\ after.op = r.op /\ after.sub = r.sub /\ after.own = r.own
          /\ after.parent = next /\ after.fact = fact
      BY <1>1 DEF OpenCommands
    <3> HIDE DEF after, r
    <3> QED
      BY <1>1, <3>1 DEF CommandIsReady
  <2> QED
    BY <2>1, <2>2, <2>3, CommandMoves DEF ListAdls, TypeInv, repairVars
<1> QED
  BY <1>3, <1>4

LEMMA SaveRiskKeepsTypes ==
    ASSUME TypeInv, NEW c \in Callers, SaveRisk(c), UNCHANGED repairVars
    PROVE  TypeInv'
<1>1. CommandIsReady(call[c]) /\ call[c].at = "saveRisk"
  BY DEF SaveRisk, TypeInv
<1>2. risk' \in Cases(CaseState)
  BY <1>1 DEF CommandIsReady, SaveRisk
<1>3. CASE (Succeed(c) \/ Fail(c)) /\ UNCHANGED registry
  BY <1>2, <1>3, CommandEnds DEF SaveRisk, TypeInv, repairVars
<1>4. CASE call[c].op # "risk" /\ Record(c, call[c].fact)
  <2>1. call[c].fact \in Facts
    BY <1>1, <1>4 DEF CommandIsReady
  <2> QED
    BY <1>1, <1>2, <1>4, <2>1, RecordIs DEF SaveRisk, TypeInv, repairVars
<1> QED
  BY <1>3, <1>4 DEF SaveRisk

\* A command that looks up, or puts, its fact has a key.
LEMMA KeyIsKey ==
    ASSUME TypeInv, NEW c \in Callers, call[c].at \in {"lookup", "put"}
    PROVE  KeyOf(c) \in Keys /\ call[c].fact \in Facts
BY DEF TypeInv, CommandIsReady, OpenCommands, KeyOf, Keys

LEMMA LookupKeepsTypes ==
    ASSUME TypeInv, NEW c \in Callers, Lookup(c), UNCHANGED repairVars
    PROVE  TypeInv'
<1> DEFINE r == call[c]
           next == [r EXCEPT !.at = "put"]
<1>1. r \in OpenCommands /\ CommandIsReady(r) /\ r.at = "lookup"
  BY DEF Lookup, TypeInv
<1>2. CASE Succeed(c) \/ Fail(c)
  BY <1>2, CommandEnds DEF Lookup, TypeInv, repairVars
<1>3. CASE ~(Succeed(c) \/ Fail(c))
  <2>1. GoTo(c, next) /\ UNCHANGED reported
    BY <1>3 DEF Lookup
  <2>2. next \in OpenCommands
    BY <1>1 DEF OpenCommands, Awaits
  <2>3. CommandIsReady(next)
    <3> HIDE DEF r
    <3> QED
      BY <1>1 DEF CommandIsReady, OpenCommands
  <2> QED
    BY <2>1, <2>2, <2>3, CommandMoves DEF Lookup, TypeInv, repairVars
<1> QED
  BY <1>2, <1>3

LEMMA PutFactKeepsTypes ==
    ASSUME TypeInv, NEW c \in Callers, PutFact(c), UNCHANGED repairVars
    PROVE  TypeInv'
<1>1. KeyOf(c) \in Keys /\ call[c].fact \in Facts
  BY KeyIsKey DEF PutFact
<1>2. store' \in [DOMAIN store' -> Facts] /\ DOMAIN store' \subseteq Keys
  BY <1>1 DEF PutFact, TypeInv, Put
<1> QED
  BY <1>2, CommandEnds DEF PutFact, TypeInv, repairVars

LEMMA AwaitFailsKeepsTypes ==
    ASSUME TypeInv, NEW c \in Callers, AwaitFails(c), UNCHANGED repairVars
    PROVE  TypeInv'
BY CommandEnds DEF AwaitFails, TypeInv, repairVars

LEMMA RestartKeepsTypes ==
    ASSUME TypeInv, RestartAll
    PROVE  TypeInv'
<1>1. \A c \in Callers : call[c].sub \in Subs \union {None}
  BY DEF TypeInv, OpenCommands
<1>2. /\ call' \in [Callers -> OpenCommands]
      /\ \A c \in Callers : CommandIsReady(call'[c])
  BY IdleIsReady DEF RestartAll, Restart
<1>3. reported' \subseteq Subs
  BY <1>1 DEF RestartAll, Restart, TypeInv
<1>4. registry' \in [DOMAIN registry' -> Facts] /\ DOMAIN registry' = {}
  BY EmptyFunction DEF RestartAll, Restart
<1>5. status' \in [DOMAIN status' -> CoordinationResultRepairStatus \ {"not_repaired"}]
      /\ DOMAIN status' = {}
  BY EmptyFunction DEF RestartAll
<1>6. job' \in [Repairers -> RepairJobs]
  BY DEF RestartAll, NoJob, RepairJobs
<1> QED
  BY <1>2, <1>3, <1>4, <1>5, <1>6 DEF RestartAll, Restart, TypeInv

-----------------------------------------------------------------------------
\* Statuses that records have.
Status == CoordinationResultRepairStatus \ {"not_repaired"}

\* A repair record is saved, for a key of the registry or the store.
LEMMA RecordOfRepair ==
    ASSUME TypeInv, NEW k \in Keys, NEW s \in Status, status' = Put(status, k, s)
    PROVE  /\ status' \in [DOMAIN status' -> Status]
           /\ DOMAIN status' = DOMAIN status \union {k} /\ status'[k] = s
           /\ \A x \in DOMAIN status : x # k => status'[x] = status[x]
           /\ DOMAIN status' \subseteq Keys
BY DEF TypeInv, Status, Put

LEMMA JobHasKey ==
    ASSUME TypeInv, FactsInv, NEW r \in Repairers, job[r].at # "idle"
    PROVE  job[r].key \in Keys /\ job[r].source \in Facts /\ job[r].key \in DOMAIN registry
BY DEF TypeInv, FactsInv

LEMMA RepairsKeepTypes ==
    ASSUME TypeInv, FactsInv, NEW r \in Repairers,
           (\E k \in KnownKeys : Repair(r, k) \/ Retry(r, k)) \/ RepairLookup(r) \/ RepairPut(r)
    PROVE  TypeInv'
<1>1. ASSUME NEW k \in KnownKeys, BeginAttempt(r, k), UNCHANGED coreVars
      PROVE  TypeInv'
  <2>1. k \in Keys
    BY DEF KnownKeys, TypeInv
  <2>2. CASE k \in DOMAIN registry
    <3>1. [at |-> "lookup", key |-> k, source |-> registry[k]] \in RepairJobs
      BY <2>1, <2>2 DEF RepairJobs, TypeInv
    <3>2. job' \in [Repairers -> RepairJobs] /\ UNCHANGED status
      BY <1>1, <2>2, <3>1 DEF BeginAttempt, TypeInv
    <3> QED
      BY <1>1, <3>2 DEF TypeInv, coreVars
  <2>3. CASE k \notin DOMAIN registry
    <3>1. status' = Put(status, k, "repair_failed_retryable") /\ UNCHANGED job
      BY <1>1, <2>3 DEF BeginAttempt
    <3>2. "repair_failed_retryable" \in Status
      BY DEF Status, CoordinationResultRepairStatus
    <3> QED
      BY <1>1, <2>1, <3>1, <3>2, RecordOfRepair DEF TypeInv, coreVars, Status
  <2> QED
    BY <2>2, <2>3
<1>2. ASSUME NEW s \in Status, EndAttempt(r, s), job[r].at # "idle"
      PROVE  /\ status' \in [DOMAIN status' -> Status] /\ DOMAIN status' \subseteq Keys
             /\ job' \in [Repairers -> RepairJobs]
  <2>1. NoJob \in RepairJobs
    BY DEF NoJob, RepairJobs
  <2> QED
    BY <1>2, <2>1, JobHasKey, RecordOfRepair DEF EndAttempt, TypeInv
<1>3. {"repair_failed_retryable", "repaired", "repair_failed_manual_confirmation_required"}
        \subseteq Status
  BY DEF Status, CoordinationResultRepairStatus
<1>4. CASE RepairLookup(r)
  <2>1. job[r].at = "lookup" /\ UNCHANGED coreVars
    BY <1>4 DEF RepairLookup
  <2>2. CASE \E s \in Status : EndAttempt(r, s)
    BY <1>2, <2>1, <2>2 DEF TypeInv, coreVars, Status
  <2>3. CASE job' = [job EXCEPT ![r].at = "put"] /\ UNCHANGED status
    BY <2>1, <2>3 DEF TypeInv, coreVars, RepairJobs
  <2> QED
    BY <1>3, <1>4, <2>2, <2>3 DEF RepairLookup
<1>5. CASE RepairPut(r)
  <2>1. job[r].at = "put" /\ UNCHANGED <<risk, sub, registry, call, left, reported>>
        /\ \E s \in Status : EndAttempt(r, s)
    BY <1>3, <1>5 DEF RepairPut
  <2>2. store' \in [DOMAIN store' -> Facts] /\ DOMAIN store' \subseteq Keys
    <3>1. CASE UNCHANGED store
      BY <3>1 DEF TypeInv
    <3>2. CASE store' = Put(store, job[r].key, job[r].source)
      BY <2>1, <3>2, JobHasKey DEF TypeInv, Put
    <3> QED
      BY <1>5, <3>1, <3>2 DEF RepairPut
  <2> QED
    BY <1>2, <2>1, <2>2 DEF TypeInv, Status
<1> QED
  BY <1>1, <1>4, <1>5 DEF Repair, Retry

LEMMA ConfirmationsKeepTypes ==
    ASSUME TypeInv, NEW k \in KnownKeys, ConfirmManually(k) \/ Malformed(k)
    PROVE  TypeInv'
<1>1. k \in Keys
  BY DEF KnownKeys, TypeInv
<1>2. PICK s \in Status : status' = Put(status, k, s) /\ UNCHANGED <<coreVars, job>>
  BY DEF ConfirmManually, Malformed, Status, CoordinationResultRepairStatus
<1> QED
  BY <1>1, <1>2, RecordOfRepair DEF TypeInv, coreVars, Status

-----------------------------------------------------------------------------
(***************************************************************************)
(* Facts.                                                                  *)
(***************************************************************************)
LEMMA ConsistentIsEquivalence ==
    /\ \A f : Consistent(f, f)
    /\ \A f, g : Consistent(f, g) => Consistent(g, f)
    /\ \A f, g, h : Consistent(f, g) /\ Consistent(g, h) => Consistent(f, h)
<1>1. \A f : Consistent(f, f)
  BY DEF Consistent
<1>2. ASSUME NEW f, NEW g, Consistent(f, g)
      PROVE  Consistent(g, f)
  BY <1>2 DEF Consistent
<1>3. ASSUME NEW f, NEW g, NEW h, Consistent(f, g), Consistent(g, h)
      PROVE  Consistent(f, h)
  <2>1. \A a, b : {a, b} = {"applied", "duplicate"}
          <=> (a = "applied" /\ b = "duplicate") \/ (a = "duplicate" /\ b = "applied")
    OBVIOUS
  <2> QED
    BY <1>3, <2>1 DEF Consistent
<1> QED
  BY <1>1, <1>2, <1>3

\* A command that writes nothing and is not about to write a fact.
LEMMA OtherStepsKeepFacts ==
    ASSUME FactsInv, NEW c \in Callers, UNCHANGED <<registry, store, repairVars>>,
           \A d \in Callers \ {c} : call'[d] = call[d], call'[c].at \notin {"lookup", "put"}
    PROVE  FactsInv'
<1>1. /\ \A d \in Callers : call'[d].at \in {"lookup", "put"} => call'[d] = call[d]
      /\ registry' = registry /\ store' = store /\ status' = status /\ job' = job
  BY DEF repairVars
<1>2. ASSUME NEW d \in Callers, call'[d].at \in {"lookup", "put"}
      PROVE  /\ Registered(KeyOf(d), call[d].fact)'
             /\ call'[d].at = "put" => StoredAsRegistered(KeyOf(d))'
  BY <1>1, <1>2 DEF FactsInv, Registered, StoredAsRegistered, KeyOf
<1> QED
  BY <1>1, <1>2 DEF FactsInv, RepairedMeansStored, StoredAsRegistered

LEMMA RecordKeepsFacts ==
    ASSUME TypeInv, FactsInv, NEW c \in Callers, NEW fact \in Facts, Record(c, fact),
           call[c].at = "listAdls" \/ (call[c].at = "saveRisk" /\ call[c].op # "risk"),
           UNCHANGED <<store, repairVars>>
    PROVE  FactsInv'
<1>1. /\ \A d \in Callers \ {c} : call'[d] = call[d]
      /\ DOMAIN registry \subseteq DOMAIN registry'
      /\ \A k \in DOMAIN registry : registry'[k] = registry[k]
      /\ \A k \in DOMAIN registry' \ DOMAIN registry : registry'[k] = fact
      /\ \/ call'[c] = Idle
         \/ /\ call'[c] = [call[c] EXCEPT !.at = "lookup", !.fact = fact]
            /\ KeyOf(c) \in DOMAIN registry'
            /\ KeyOf(c) \in DOMAIN registry => Consistent(registry[KeyOf(c)], fact)
  BY RecordIs
<1>2. \A k \in DOMAIN registry : StoredAsRegistered(k) => StoredAsRegistered(k)'
  BY <1>1 DEF StoredAsRegistered
<1>3. \A k, f : Registered(k, f) =>
        k \in DOMAIN registry /\ k \in DOMAIN registry' /\ Consistent(registry'[k], f)
  BY <1>1 DEF Registered
<1>4. ASSUME NEW d \in Callers, call'[d].at \in {"lookup", "put"}
      PROVE  /\ Registered(KeyOf(d), call[d].fact)'
             /\ call'[d].at = "put" => StoredAsRegistered(KeyOf(d))'
  <2>1. CASE d = c
    <3>1. /\ call'[c] = [call[c] EXCEPT !.at = "lookup", !.fact = fact]
          /\ KeyOf(c) \in DOMAIN registry'
          /\ KeyOf(c) \in DOMAIN registry => Consistent(registry[KeyOf(c)], fact)
      BY <1>1, <1>4, <2>1 DEF Idle
    <3>2. call'[c].fact = fact /\ KeyOf(c)' = KeyOf(c) /\ call'[c].at = "lookup"
      BY <3>1 DEF TypeInv, OpenCommands, KeyOf
    <3>3. Consistent(registry'[KeyOf(c)], fact)
      BY <1>1, <3>1, ConsistentIsEquivalence
    <3> QED
      BY <2>1, <3>1, <3>2, <3>3 DEF Registered
  <2>2. CASE d # c
    <3>1. call'[d] = call[d] /\ KeyOf(d)' = KeyOf(d)
      BY <1>1, <2>2 DEF KeyOf
    <3>2. /\ Registered(KeyOf(d), call[d].fact)
          /\ call[d].at = "put" => StoredAsRegistered(KeyOf(d))
      BY <1>4, <3>1 DEF FactsInv
    <3> QED
      BY <1>2, <1>3, <3>1, <3>2 DEF Registered, StoredAsRegistered
  <2> QED
    BY <2>1, <2>2
<1>5. ASSUME NEW r \in Repairers
      PROVE  /\ job'[r].at # "idle" =>
                  /\ job'[r].key \in DOMAIN registry'
                  /\ job'[r].source = registry'[job'[r].key]
             /\ job'[r].at = "put" => StoredAsRegistered(job[r].key)'
  BY <1>1, <1>2 DEF FactsInv, repairVars, StoredAsRegistered
<1>6. RepairedMeansStored'
  BY <1>1 DEF FactsInv, repairVars, RepairedMeansStored
<1> QED
  BY <1>4, <1>5, <1>6 DEF FactsInv

\* A fact that says what the registry says is written.
LEMMA WriteKeepsFacts ==
    ASSUME TypeInv, FactsInv, NEW k \in DOMAIN registry, NEW fact \in Facts,
           Consistent(registry[k], fact), StoredAsRegistered(k),
           store' = Put(store, k, fact)
    PROVE  /\ \A x \in DOMAIN store : x \in DOMAIN store' /\ Consistent(store[x], store'[x])
           /\ \A x : (x \in DOMAIN store => Consistent(store[x], registry[x]))
                => (x \in DOMAIN store' => Consistent(store'[x], registry[x]))
           /\ k \in DOMAIN store' /\ Consistent(store'[k], registry[k])
<1>1. /\ DOMAIN store' = DOMAIN store \union {k} /\ store'[k] = fact
      /\ \A x \in DOMAIN store : x # k => store'[x] = store[x]
  BY DEF TypeInv, Put
<1>2. Consistent(fact, registry[k])
  BY ConsistentIsEquivalence
<1>3. k \in DOMAIN store => Consistent(store[k], registry[k]) /\ Consistent(registry[k], fact)
  BY DEF StoredAsRegistered
<1>4. k \in DOMAIN store => Consistent(store[k], fact)
  BY <1>3, ConsistentIsEquivalence
<1> QED
  BY <1>1, <1>2, <1>4, ConsistentIsEquivalence

-----------------------------------------------------------------------------
(***************************************************************************)
(* Where the first steps of a command lead.                                *)
(***************************************************************************)
LEMMA CommandsLead ==
    ASSUME TypeInv, NEW c \in Callers, Commands(c)
    PROVE  /\ call[c] = Idle /\ UNCHANGED <<risk, sub, registry, store, reported>>
           /\ \E r : /\ GoTo(c, r)
                     /\ \/ r.at = "loadSub"
                        \/ r.at = "loadRisk" /\ r.op \in {"create", "risk"}
<1>1. PICK t \in Times, version \in Versions :
        \/ \E s \in Subs : Create(c, s, t, version) \/ Coordinate(c, s, t, version)
        \/ \E s \in Subs : \E action \in Actions(KindOf(s)) :
             TransitionSub(c, s, action, t, version)
        \/ \E action \in RiskActions : TransitionRisk(c, action, t, version)
  BY DEF Commands
<1>2. ASSUME NEW r, Issue(c, r),
             r.at = "loadSub" \/ (r.at = "loadRisk" /\ r.op \in {"create", "risk"})
      PROVE  /\ call[c] = Idle /\ UNCHANGED <<risk, sub, registry, store, reported>>
             /\ \E x : /\ GoTo(c, x)
                       /\ \/ x.at = "loadSub"
                          \/ x.at = "loadRisk" /\ x.op \in {"create", "risk"}
  BY <1>2 DEF Issue
<1>3. ASSUME NEW s \in Subs, Create(c, s, t, version)
      PROVE  \E r : /\ Issue(c, r)
                    /\ r.at = "loadSub" \/ (r.at = "loadRisk" /\ r.op \in {"create", "risk"})
  <2> DEFINE r == [Idle EXCEPT !.at = "loadRisk", !.op = "create", !.sub = s, !.t = t,
                               !.version = version]
  <2>1. r.at = "loadRisk" /\ r.op = "create"
    BY DEF Idle
  <2>2. Issue(c, r)
    BY <1>3 DEF Create
  <2> HIDE DEF r
  <2> QED
    BY <2>1, <2>2
<1>4. ASSUME NEW s \in Subs, Coordinate(c, s, t, version)
      PROVE  \E r : /\ Issue(c, r)
                    /\ r.at = "loadSub" \/ (r.at = "loadRisk" /\ r.op \in {"create", "risk"})
  <2> DEFINE r == [Idle EXCEPT !.at = "loadSub", !.op = "coordinate", !.sub = s, !.t = t,
                               !.version = version]
  <2>1. r.at = "loadSub"
    BY DEF Idle
  <2>2. Issue(c, r)
    BY <1>4 DEF Coordinate
  <2> HIDE DEF r
  <2> QED
    BY <2>1, <2>2
<1>5. ASSUME NEW s \in Subs, NEW action, TransitionSub(c, s, action, t, version)
      PROVE  \E r : /\ Issue(c, r)
                    /\ r.at = "loadSub" \/ (r.at = "loadRisk" /\ r.op \in {"create", "risk"})
  <2> DEFINE r == [Idle EXCEPT !.at = "loadSub", !.op = "transition", !.sub = s,
                               !.action = action, !.t = t, !.version = version]
  <2>1. r.at = "loadSub"
    BY DEF Idle
  <2>2. Issue(c, r)
    BY <1>5 DEF TransitionSub
  <2> HIDE DEF r
  <2> QED
    BY <2>1, <2>2
<1>6. ASSUME NEW action, TransitionRisk(c, action, t, version)
      PROVE  \E r : /\ Issue(c, r)
                    /\ r.at = "loadSub" \/ (r.at = "loadRisk" /\ r.op \in {"create", "risk"})
  <2> DEFINE r == [Idle EXCEPT !.at = "loadRisk", !.op = "risk", !.action = action, !.t = t,
                               !.version = version]
  <2>1. r.at = "loadRisk" /\ r.op = "risk"
    BY DEF Idle
  <2>2. Issue(c, r)
    BY <1>6 DEF TransitionRisk
  <2> HIDE DEF r
  <2> QED
    BY <2>1, <2>2
<1> QED
  BY <1>1, <1>2, <1>3, <1>4, <1>5, <1>6

LEMMA LoadSubLeads ==
    ASSUME TypeInv, NEW c \in Callers, LoadSub(c)
    PROVE  /\ UNCHANGED <<risk, sub, registry, store>>
           /\ \/ Fail(c)
              \/ \E r : /\ GoTo(c, r) /\ UNCHANGED reported
                        /\ r.at = "loadRisk" /\ r.op = call[c].op /\ r.sub = call[c].sub
                        /\ sub[r.sub] # None /\ r.own = sub[r.sub]
<1> DEFINE next == [call[c] EXCEPT !.at = "loadRisk", !.own = sub[call[c].sub]]
<1>1. CASE Fail(c)
  BY <1>1 DEF LoadSub
<1>2. CASE ~Fail(c)
  <2>1. GoTo(c, next) /\ UNCHANGED reported /\ sub[call[c].sub] # None
    BY <1>2 DEF LoadSub
  <2>2. /\ next.at = "loadRisk" /\ next.op = call[c].op /\ next.sub = call[c].sub
        /\ next.own = sub[call[c].sub]
    BY DEF TypeInv, OpenCommands
  <2> HIDE DEF next
  <2> QED
    BY <2>1, <2>2 DEF LoadSub
<1> QED
  BY <1>1, <1>2

LEMMA LoadRiskLeads ==
    ASSUME TypeInv, NEW c \in Callers, LoadRisk(c)
    PROVE  /\ UNCHANGED <<risk, sub, registry, store, reported>>
           /\ \E r : /\ GoTo(c, r)
                     /\ \/ r = Idle
                        \/ /\ r.at = "saveSub" /\ r.op = call[c].op /\ r.sub = call[c].sub
                           /\ r.parent = risk /\ risk.state \in AllowSpecialCaseTransition
                           /\ r.op = "create" => r.own.state = "Initiated"
                           /\ r.op = "transition" => ~IsTerminalSubcaseState(call[c].own.state)
                        \/ /\ r.at = "listLiquidations" /\ r.op = "coordinate"
                           /\ r.sub = call[c].sub /\ r.own = call[c].own /\ r.parent = risk
                           /\ call[c].op = "coordinate"
                        \/ r.at = "saveRisk" /\ r.op = "risk" /\ risk.state \notin TerminalStates
<1> DEFINE r == [call[c] EXCEPT !.parent = risk]
           rules == SubcaseRules(KindOf(r.sub))
           place(x) == \/ x = Idle
                       \/ /\ x.at = "saveSub" /\ x.op = call[c].op /\ x.sub = call[c].sub
                          /\ x.parent = risk /\ risk.state \in AllowSpecialCaseTransition
                          /\ x.op = "create" => x.own.state = "Initiated"
                          /\ x.op = "transition" => ~IsTerminalSubcaseState(call[c].own.state)
                       \/ /\ x.at = "listLiquidations" /\ x.op = "coordinate"
                          /\ x.sub = call[c].sub /\ x.own = call[c].own /\ x.parent = risk
                          /\ call[c].op = "coordinate"
                       \/ x.at = "saveRisk" /\ x.op = "risk" /\ risk.state \notin TerminalStates
<1>1. call[c] \in OpenCommands /\ CommandIsReady(call[c]) /\ call[c].at = "loadRisk"
      /\ risk \in Cases(CaseState)
  BY DEF LoadRisk, TypeInv
<1>2. /\ r \in OpenCommands /\ r.at = "loadRisk" /\ r.parent = risk /\ r.t \in Times
      /\ r.op = call[c].op /\ r.sub = call[c].sub /\ r.own = call[c].own
  BY <1>1 DEF OpenCommands, Cases
<1>3. \/ /\ r.op = "create" /\ risk.state \in AllowDeriveSpecialCase
         /\ GoTo(c, [r EXCEPT !.at = "saveSub",
                       !.own = [state |-> "Initiated", at |-> r.t, version |-> r.version]])
      \/ /\ r.op = "transition" /\ risk.state \in AllowSpecialCaseTransition
         /\ Allowed(rules, r.own, r.action, r.version, r.t)
         /\ GoTo(c, [r EXCEPT !.at = "saveSub",
                       !.own = TransitionTo(rules, r.own, r.action, r.t)])
      \/ /\ r.op = "coordinate"
         /\ GoTo(c, [r EXCEPT !.at = "listLiquidations"])
      \/ /\ r.op = "risk" /\ Allowed(RiskRules, risk, r.action, r.version, r.t)
         /\ GoTo(c, [r EXCEPT !.at = "saveRisk",
                       !.parent = TransitionTo(RiskRules, risk, r.action, r.t)])
      \/ GoTo(c, Idle)
  BY <1>2 DEF LoadRisk
<1>4. UNCHANGED <<risk, sub, registry, store, reported>>
  BY DEF LoadRisk
<1> HIDE DEF r, rules
<1>5. CASE /\ r.op = "create" /\ risk.state \in AllowDeriveSpecialCase
           /\ GoTo(c, [r EXCEPT !.at = "saveSub",
                         !.own = [state |-> "Initiated", at |-> r.t, version |-> r.version]])
  <2> DEFINE own == [state |-> "Initiated", at |-> r.t, version |-> r.version]
             next == [r EXCEPT !.at = "saveSub", !.own = own]
  <2>1. GoTo(c, next) /\ own.state = "Initiated" /\ risk.state \in AllowSpecialCaseTransition
    BY <1>5, StatesOfRisk
  <2> HIDE DEF own
  <2>2. /\ next.at = "saveSub" /\ next.op = "create" /\ next.sub = r.sub /\ next.parent = risk
        /\ next.own = own
    BY <1>2, <1>5 DEF OpenCommands
  <2> HIDE DEF next
  <2>3. place(next)
    BY <1>2, <1>5, <2>1, <2>2
  <2> QED
    BY <1>4, <2>1, <2>3
<1>6. CASE /\ r.op = "transition" /\ risk.state \in AllowSpecialCaseTransition
           /\ Allowed(rules, r.own, r.action, r.version, r.t)
           /\ GoTo(c, [r EXCEPT !.at = "saveSub",
                         !.own = TransitionTo(rules, r.own, r.action, r.t)])
  <2> DEFINE own == TransitionTo(rules, r.own, r.action, r.t)
             next == [r EXCEPT !.at = "saveSub", !.own = own]
  <2>1. GoTo(c, next)
    BY <1>6
  <2>2. r.own \in SubCases(r.sub)
    BY <1>1, <1>2, <1>6 DEF CommandIsReady
  <2>3. ~IsTerminalSubcaseState(r.own.state)
    BY <1>2, <1>6, <2>2, TransitionOfSub DEF Allowed, rules
  <2> HIDE DEF own
  <2>4. /\ next.at = "saveSub" /\ next.op = "transition" /\ next.sub = r.sub
        /\ next.parent = risk
    BY <1>2, <1>6 DEF OpenCommands
  <2> HIDE DEF next
  <2>5. place(next)
    BY <1>2, <1>6, <2>3, <2>4
  <2> QED
    BY <1>4, <2>1, <2>5
<1>7. CASE r.op = "coordinate" /\ GoTo(c, [r EXCEPT !.at = "listLiquidations"])
  <2> DEFINE next == [r EXCEPT !.at = "listLiquidations"]
  <2>1. /\ next.at = "listLiquidations" /\ next.op = "coordinate" /\ next.sub = r.sub
        /\ next.parent = risk /\ next.own = r.own
    BY <1>2, <1>7 DEF OpenCommands
  <2>2. GoTo(c, next)
    BY <1>7
  <2> HIDE DEF next
  <2>3. place(next)
    BY <1>2, <1>7, <2>1
  <2> QED
    BY <1>4, <2>2, <2>3
<1>8. CASE /\ r.op = "risk" /\ Allowed(RiskRules, risk, r.action, r.version, r.t)
           /\ GoTo(c, [r EXCEPT !.at = "saveRisk",
                         !.parent = TransitionTo(RiskRules, risk, r.action, r.t)])
  <2> DEFINE parent == TransitionTo(RiskRules, risk, r.action, r.t)
             next == [r EXCEPT !.at = "saveRisk", !.parent = parent]
  <2>1. GoTo(c, next)
    BY <1>8
  <2>2. risk.state \notin TerminalStates
    BY <1>1, <1>2, <1>8, TransitionOfRisk DEF Allowed
  <2> HIDE DEF parent
  <2>3. next.at = "saveRisk" /\ next.op = "risk"
    BY <1>2, <1>8 DEF OpenCommands
  <2> HIDE DEF next
  <2>4. place(next)
    BY <2>2, <2>3
  <2> QED
    BY <1>4, <2>1, <2>4
<1>9. CASE GoTo(c, Idle)
  BY <1>4, <1>9
<1> QED
  BY <1>3, <1>5, <1>6, <1>7, <1>8, <1>9

\* What is stored stays, and says the same.
FactsStay == \A k \in DOMAIN store : k \in DOMAIN store' /\ Consistent(store[k], store'[k])

LEMMA CommandsKeepFacts ==
    ASSUME TypeInv, FactsInv, NEW c \in Callers, Commands(c) \/ CallStep(c), UNCHANGED repairVars
    PROVE  FactsInv' /\ FactsStay
<1>1. ASSUME UNCHANGED store
      PROVE  FactsStay
  BY <1>1, ConsistentIsEquivalence DEF FactsStay
<1>2. ASSUME NEW r, GoTo(c, r), r.at \notin {"lookup", "put"}, UNCHANGED <<registry, store>>
      PROVE  FactsInv' /\ FactsStay
  BY <1>1, <1>2, OtherStepsKeepFacts DEF GoTo, TypeInv
<1>3. ASSUME Succeed(c) \/ Fail(c), UNCHANGED <<registry, store>>
      PROVE  FactsInv' /\ FactsStay
  BY <1>2, <1>3 DEF Succeed, Fail, Idle
<1>4. CASE Commands(c)
  BY <1>2, <1>4, CommandsLead
<1>5. CASE LoadSub(c)
  BY <1>2, <1>3, <1>5, LoadSubLeads
<1>6. CASE LoadRisk(c)
  <2>1. Idle.at = "idle"
    BY DEF Idle
  <2> QED
    BY <1>2, <1>6, <2>1, LoadRiskLeads
<1>7. CASE SaveSub(c)
  <2>1. UNCHANGED <<registry, store>> /\ \A d \in Callers \ {c} : call'[d] = call[d]
    BY <1>7 DEF SaveSub, AfterSave, Succeed, Fail, GoTo, TypeInv
  <2>2. call'[c].at \in {"idle", "listLiquidations"}
    BY <1>7 DEF SaveSub, AfterSave, Succeed, Fail, GoTo, TypeInv, Idle, OpenCommands
  <2> QED
    BY <1>1, <2>1, <2>2, OtherStepsKeepFacts
<1>8. CASE ListLiquidations(c)
  <2>1. UNCHANGED <<registry, store>> /\ \A d \in Callers \ {c} : call'[d] = call[d]
    BY <1>8 DEF ListLiquidations, GoTo, TypeInv
  <2>2. call'[c].at = "listAdls"
    BY <1>8 DEF ListLiquidations, GoTo, TypeInv, OpenCommands
  <2> QED
    BY <1>1, <2>1, <2>2, OtherStepsKeepFacts
<1>9. CASE ListAdls(c)
  <2>1. PICK next \in Cases(CaseState), fact \in Facts : Arbitrated(c, next, fact)
    BY <1>9, ListAdlsIs
  <2>2. UNCHANGED store /\ call[c].at = "listAdls"
    BY <1>9 DEF ListAdls
  <2>3. CASE Record(c, fact)
    BY <1>1, <2>2, <2>3, RecordKeepsFacts
  <2>4. CASE ~Record(c, fact)
    <3>1. /\ GoTo(c, [call[c] EXCEPT !.at = "saveRisk", !.parent = next, !.fact = fact])
          /\ UNCHANGED registry
      BY <2>1, <2>4 DEF Arbitrated
    <3>2. /\ \A d \in Callers \ {c} : call'[d] = call[d]
          /\ call'[c].at = "saveRisk"
      BY <3>1 DEF GoTo, TypeInv, OpenCommands
    <3> QED
      BY <1>1, <2>2, <3>1, <3>2, OtherStepsKeepFacts
  <2> QED
    BY <2>3, <2>4
<1>10. CASE SaveRisk(c)
  <2>1. UNCHANGED store /\ call[c].at = "saveRisk"
    BY <1>10 DEF SaveRisk
  <2>2. CASE call[c].op # "risk" /\ Record(c, call[c].fact)
    <3>1. call[c].fact \in Facts
      BY <2>1, <2>2 DEF TypeInv, CommandIsReady
    <3> QED
      BY <1>1, <2>1, <2>2, <3>1, RecordKeepsFacts
  <2>3. CASE (Succeed(c) \/ Fail(c)) /\ UNCHANGED registry
    BY <1>3, <2>1, <2>3
  <2> QED
    BY <1>10, <2>2, <2>3 DEF SaveRisk
<1>11. CASE Lookup(c)
  <2>1. UNCHANGED <<registry, store>> /\ call[c].at = "lookup"
    BY <1>11 DEF Lookup
  <2>2. CASE Succeed(c) \/ Fail(c)
    BY <1>3, <2>1, <2>2
  <2>3. CASE ~(Succeed(c) \/ Fail(c))
    <3>1. /\ KeyOf(c) \notin DOMAIN store
          /\ GoTo(c, [call[c] EXCEPT !.at = "put"])
      BY <1>11, <2>3 DEF Lookup
    <3>2. /\ \A d \in Callers \ {c} : call'[d] = call[d]
          /\ call'[c].fact = call[c].fact /\ KeyOf(c)' = KeyOf(c)
      BY <3>1 DEF GoTo, TypeInv, OpenCommands, KeyOf
    <3>3. ASSUME NEW d \in Callers, call'[d].at \in {"lookup", "put"}
          PROVE  /\ Registered(KeyOf(d), call[d].fact)'
                 /\ call'[d].at = "put" => StoredAsRegistered(KeyOf(d))'
      <4>1. CASE d = c
        BY <2>1, <3>1, <3>2, <4>1 DEF FactsInv, Registered, StoredAsRegistered
      <4>2. CASE d # c
        <5>1. call'[d] = call[d] /\ KeyOf(d)' = KeyOf(d)
          BY <3>2, <4>2 DEF KeyOf
        <5> QED
          BY <2>1, <3>3, <5>1 DEF FactsInv, Registered, StoredAsRegistered
      <4> QED
        BY <4>1, <4>2
    <3> QED
      BY <1>1, <2>1, <3>3 DEF FactsInv, RepairedMeansStored, StoredAsRegistered, repairVars
  <2> QED
    BY <2>2, <2>3
<1>12. CASE PutFact(c)
  <2>1. /\ store' = Put(store, KeyOf(c), call[c].fact)
        /\ Succeed(c) \/ Fail(c)
        /\ UNCHANGED registry /\ call[c].at = "put"
    BY <1>12 DEF PutFact
  <2>2. /\ KeyOf(c) \in DOMAIN registry /\ call[c].fact \in Facts
        /\ Consistent(registry[KeyOf(c)], call[c].fact) /\ StoredAsRegistered(KeyOf(c))
    BY <2>1, KeyIsKey DEF FactsInv, Registered
  <2>3. /\ FactsStay
        /\ \A x : (x \in DOMAIN store => Consistent(store[x], registry[x]))
             => (x \in DOMAIN store' => Consistent(store'[x], registry[x]))
    <3>1. /\ \A x \in DOMAIN store : x \in DOMAIN store' /\ Consistent(store[x], store'[x])
          /\ \A x : (x \in DOMAIN store => Consistent(store[x], registry[x]))
               => (x \in DOMAIN store' => Consistent(store'[x], registry[x]))
      BY <1>12, <2>2, WriteKeepsFacts DEF PutFact
    <3> QED
      BY <3>1 DEF FactsStay
  <2>4. call'[c].at = "idle" /\ \A d \in Callers \ {c} : call'[d] = call[d]
    BY <1>12, CommandEnds DEF Idle, PutFact
  <2>5. registry' = registry /\ status' = status /\ job' = job
    BY <2>1 DEF repairVars
  <2>6. ASSUME NEW d \in Callers, call'[d].at \in {"lookup", "put"}
        PROVE  /\ Registered(KeyOf(d), call[d].fact)'
               /\ call'[d].at = "put" => StoredAsRegistered(KeyOf(d))'
    <3>1. call'[d] = call[d] /\ KeyOf(d)' = KeyOf(d)
      BY <2>4, <2>6 DEF KeyOf
    <3> QED
      BY <2>3, <2>5, <2>6, <3>1 DEF FactsInv, Registered, StoredAsRegistered
  <2>7. ASSUME NEW r \in Repairers, job[r].at = "put"
        PROVE  StoredAsRegistered(job[r].key)'
    BY <2>3, <2>5, <2>7 DEF FactsInv, StoredAsRegistered
  <2>8. RepairedMeansStored'
    BY <2>3, <2>5 DEF FactsInv, RepairedMeansStored, FactsStay
  <2> QED
    BY <2>3, <2>5, <2>6, <2>7, <2>8 DEF FactsInv, StoredAsRegistered
<1>13. CASE AwaitFails(c)
  BY <1>3, <1>13 DEF AwaitFails
<1> QED
  BY <1>4, <1>5, <1>6, <1>7, <1>8, <1>9, <1>10, <1>11, <1>12, <1>13 DEF CallStep

\* A repair command gets another job, or a fact key another status, and the rest stays.
JobsKeepFacts ==
    \A r \in Repairers :
        /\ job'[r].at # "idle" =>
             job'[r].key \in DOMAIN registry /\ job'[r].source = registry[job'[r].key]
        /\ job'[r].at = "put" => StoredAsRegistered(job'[r].key)

StatusesKeepFacts ==
    \A k \in DOMAIN status' : status'[k] = "repaired" =>
        k \in DOMAIN store /\ k \in DOMAIN registry /\ Consistent(store[k], registry[k])

LEMMA RepairsOnly ==
    ASSUME FactsInv, UNCHANGED coreVars, JobsKeepFacts, StatusesKeepFacts
    PROVE  FactsInv' /\ FactsStay
<1>1. /\ registry' = registry /\ store' = store /\ call' = call
      /\ \A c \in Callers : KeyOf(c)' = KeyOf(c)
  BY DEF coreVars, KeyOf
<1>2. FactsStay
  BY <1>1, ConsistentIsEquivalence DEF FactsStay
<1>3. \A c \in Callers :
        /\ call'[c].at \in {"lookup", "put"} => Registered(KeyOf(c), call[c].fact)'
        /\ call'[c].at = "put" => StoredAsRegistered(KeyOf(c))'
  BY <1>1 DEF FactsInv, Registered, StoredAsRegistered
<1>4. \A r \in Repairers :
        /\ job'[r].at # "idle" =>
             job'[r].key \in DOMAIN registry' /\ job'[r].source = registry'[job'[r].key]
        /\ job'[r].at = "put" => StoredAsRegistered(job[r].key)'
  BY <1>1 DEF JobsKeepFacts, StoredAsRegistered
<1>5. RepairedMeansStored'
  BY <1>1 DEF StatusesKeepFacts, RepairedMeansStored
<1> QED
  BY <1>2, <1>3, <1>4, <1>5 DEF FactsInv

LEMMA RepairsKeepFacts ==
    ASSUME TypeInv, FactsInv, NEW r \in Repairers,
           (\E k \in KnownKeys : Repair(r, k) \/ Retry(r, k)) \/ RepairLookup(r) \/ RepairPut(r)
    PROVE  FactsInv' /\ FactsStay
<1>1. ASSUME NEW k \in KnownKeys, BeginAttempt(r, k), UNCHANGED coreVars
      PROVE  FactsInv' /\ FactsStay
  <2>1. CASE k \in DOMAIN registry
    <3>1. job' = [job EXCEPT ![r] = [at |-> "lookup", key |-> k, source |-> registry[k]]]
          /\ UNCHANGED status
      BY <1>1, <2>1 DEF BeginAttempt
    <3>2. JobsKeepFacts
      BY <2>1, <3>1 DEF JobsKeepFacts, FactsInv, TypeInv
    <3>3. StatusesKeepFacts
      BY <3>1 DEF StatusesKeepFacts, FactsInv, RepairedMeansStored
    <3> QED
      BY <1>1, <3>2, <3>3, RepairsOnly
  <2>2. CASE k \notin DOMAIN registry
    <3>1. status' = Put(status, k, "repair_failed_retryable") /\ UNCHANGED job
      BY <1>1, <2>2 DEF BeginAttempt
    <3>2. JobsKeepFacts
      BY <3>1 DEF JobsKeepFacts, FactsInv, StoredAsRegistered
    <3>3. StatusesKeepFacts
      BY <3>1 DEF StatusesKeepFacts, FactsInv, RepairedMeansStored, Put
    <3> QED
      BY <1>1, <3>2, <3>3, RepairsOnly
  <2> QED
    BY <2>1, <2>2
<1>2. ASSUME NEW s, EndAttempt(r, s), job[r].at # "idle"
      PROVE  /\ \A x \in Repairers \ {r} : job'[x] = job[x]
             /\ job'[r].at = "idle"
             /\ \A k \in DOMAIN status' : status'[k] = "repaired" =>
                  \/ k = job[r].key /\ s = "repaired"
                  \/ k \in DOMAIN status /\ status[k] = "repaired"
  BY <1>2 DEF EndAttempt, NoJob, TypeInv, Put
<1>3. CASE RepairLookup(r)
  <2> DEFINE k == job[r].key
  <2>1. job[r].at = "lookup" /\ UNCHANGED coreVars /\ k \in DOMAIN registry
        /\ job[r].source = registry[k]
    BY <1>3 DEF RepairLookup, FactsInv
  <2>2. ASSUME NEW s, EndAttempt(r, s),
               s = "repaired" => k \in DOMAIN store /\ ReplayCompatible(store[k], job[r].source)
        PROVE  FactsInv' /\ FactsStay
    <3>1. JobsKeepFacts
      BY <1>2, <2>1, <2>2 DEF JobsKeepFacts, FactsInv, StoredAsRegistered
    <3>2. StatusesKeepFacts
      BY <1>2, <2>1, <2>2 DEF StatusesKeepFacts, FactsInv, RepairedMeansStored, ReplayCompatible
    <3> QED
      BY <2>1, <3>1, <3>2, RepairsOnly
  <2>3. CASE k \notin DOMAIN store /\ job' = [job EXCEPT ![r].at = "put"] /\ UNCHANGED status
    <3>1. /\ \A x \in Repairers \ {r} : job'[x] = job[x]
          /\ job'[r].key = k /\ job'[r].source = job[r].source
      BY <2>3 DEF TypeInv, RepairJobs
    <3>2. JobsKeepFacts
      <4> HIDE DEF k
      <4> QED
        BY <2>1, <2>3, <3>1 DEF JobsKeepFacts, FactsInv, StoredAsRegistered
    <3>3. StatusesKeepFacts
      BY <2>3 DEF StatusesKeepFacts, FactsInv, RepairedMeansStored
    <3> QED
      BY <2>1, <3>2, <3>3, RepairsOnly
  <2> QED
    BY <1>3, <2>2, <2>3 DEF RepairLookup
<1>4. CASE RepairPut(r)
  <2> DEFINE k == job[r].key
  <2>1. /\ job[r].at = "put" /\ k \in DOMAIN registry /\ job[r].source = registry[k]
        /\ StoredAsRegistered(k) /\ registry[k] \in Facts
        /\ registry' = registry /\ call' = call
    BY <1>4 DEF RepairPut, FactsInv, TypeInv
  <2>2. /\ FactsStay
        /\ \A x : (x \in DOMAIN store => Consistent(store[x], registry[x]))
             => (x \in DOMAIN store' => Consistent(store'[x], registry[x]))
        /\ store' = Put(store, k, job[r].source) =>
             k \in DOMAIN store' /\ Consistent(store'[k], registry[k])
    <3>1. CASE UNCHANGED store /\ store' # Put(store, k, job[r].source)
      BY <3>1, ConsistentIsEquivalence DEF FactsStay
    <3>2. CASE store' = Put(store, k, job[r].source)
      <4>1. Consistent(registry[k], registry[k]) /\ store' = Put(store, k, registry[k])
        BY <2>1, <3>2, ConsistentIsEquivalence
      <4>2. /\ \A x \in DOMAIN store : x \in DOMAIN store' /\ Consistent(store[x], store'[x])
            /\ \A x : (x \in DOMAIN store => Consistent(store[x], registry[x]))
                 => (x \in DOMAIN store' => Consistent(store'[x], registry[x]))
            /\ k \in DOMAIN store' /\ Consistent(store'[k], registry[k])
        <5> HIDE DEF k
        <5> QED
          BY <2>1, <4>1, WriteKeepsFacts
      <4> QED
        BY <4>2 DEF FactsStay
    <3> QED
      BY <1>4, <3>1, <3>2 DEF RepairPut
  <2>3. PICK s : /\ EndAttempt(r, s)
                 /\ s = "repaired" => store' = Put(store, k, job[r].source)
    BY <1>4 DEF RepairPut
  <2>4. \A x : StoredAsRegistered(x) => StoredAsRegistered(x)'
    BY <2>1, <2>2 DEF StoredAsRegistered
  <2>5. \A c \in Callers :
          /\ call'[c].at \in {"lookup", "put"} => Registered(KeyOf(c), call[c].fact)'
          /\ call'[c].at = "put" => StoredAsRegistered(KeyOf(c))'
    <3>1. \A c \in Callers : KeyOf(c)' = KeyOf(c)
      BY <2>1 DEF KeyOf
    <3> QED
      BY <2>1, <2>2, <3>1 DEF FactsInv, Registered, StoredAsRegistered
  <2>6. ASSUME NEW x \in Repairers
        PROVE  /\ job'[x].at # "idle" =>
                    job'[x].key \in DOMAIN registry' /\ job'[x].source = registry'[job'[x].key]
               /\ job'[x].at = "put" => StoredAsRegistered(job[x].key)'
    BY <1>2, <2>1, <2>2, <2>3 DEF FactsInv, StoredAsRegistered
  <2>7. RepairedMeansStored'
    <3>1. ASSUME NEW x \in DOMAIN status', status'[x] = "repaired"
          PROVE  x \in DOMAIN store' /\ x \in DOMAIN registry /\ Consistent(store'[x], registry[x])
      <4>1. \/ x = k /\ s = "repaired"
            \/ x \in DOMAIN status /\ status[x] = "repaired"
        BY <1>2, <2>1, <2>3, <3>1
      <4>2. CASE x = k /\ s = "repaired"
        BY <2>1, <2>2, <2>3, <4>2
      <4>3. CASE x \in DOMAIN status /\ status[x] = "repaired"
        <5>1. x \in DOMAIN store /\ x \in DOMAIN registry /\ Consistent(store[x], registry[x])
          BY <4>3 DEF FactsInv, RepairedMeansStored
        <5> QED
          BY <2>2, <5>1 DEF FactsStay
      <4> QED
        BY <4>1, <4>2, <4>3
    <3> QED
      BY <2>1, <3>1 DEF RepairedMeansStored
  <2> QED
    BY <2>2, <2>5, <2>6, <2>7 DEF FactsInv
<1> QED
  BY <1>1, <1>3, <1>4 DEF Repair, Retry

LEMMA ConfirmationsKeepFacts ==
    ASSUME TypeInv, FactsInv, NEW k \in KnownKeys, ConfirmManually(k) \/ Malformed(k)
    PROVE  FactsInv' /\ FactsStay
<1>1. PICK s \in {"manually_confirmed", "repair_failed_retryable"} :
        status' = Put(status, k, s) /\ UNCHANGED <<coreVars, job>>
  BY DEF ConfirmManually, Malformed
<1>2. JobsKeepFacts
  BY <1>1 DEF JobsKeepFacts, FactsInv, StoredAsRegistered
<1>3. StatusesKeepFacts
  BY <1>1 DEF StatusesKeepFacts, FactsInv, RepairedMeansStored, Put
<1> QED
  BY <1>1, <1>2, <1>3, RepairsOnly

LEMMA RestartKeepsFacts ==
    ASSUME TypeInv, FactsInv, RestartAll
    PROVE  FactsInv' /\ FactsStay
<1>1. /\ \A c \in Callers : call'[c].at = "idle"
      /\ \A r \in Repairers : job'[r].at = "idle"
      /\ store' = store /\ DOMAIN status' = {}
  BY EmptyFunction DEF RestartAll, Restart, Idle, NoJob
<1>2. FactsStay
  BY <1>1, ConsistentIsEquivalence DEF FactsStay
<1> QED
  BY <1>1, <1>2 DEF FactsInv, RepairedMeansStored

-----------------------------------------------------------------------------
LEMMA InitHolds == Init => TypeInv /\ HistoryInv /\ FactsInv /\ CasesInv
<1> SUFFICES ASSUME Init PROVE TypeInv /\ HistoryInv /\ FactsInv /\ CasesInv
  OBVIOUS
<1>1. Min(Versions) \in Versions /\ 0 \in Times
  BY CasesAssumption DEF Min, Times
<1>2. /\ registry \in [{} -> Facts] /\ store \in [{} -> Facts] /\ status \in [{} -> Status]
      /\ DOMAIN registry = {} /\ DOMAIN store = {} /\ DOMAIN status = {}
  BY EmptyFunction DEF Init, CoreInit
<1>3. \A c \in Callers : call[c] = Idle
  BY DEF Init, CoreInit
<1>4. call \in [Callers -> OpenCommands] /\ \A c \in Callers : CommandIsReady(call[c])
  BY IdleIsReady DEF Init, CoreInit
<1>5. risk \in Cases(CaseState)
  BY <1>1, StatesOfRisk DEF Init, CoreInit, Cases
<1>6. /\ \A s \in Subs : sub[s] \in SubCases(s) \union {None}
      /\ sub \in [Subs -> Cases(SubState) \union {None}]
  <2>1. \A s \in Subs : sub[s] \in Cases({"Initiated", "InProgress", "Queued"}) \union {None}
    BY DEF Init, CoreInit
  <2>2. \A s \in Subs : sub[s] \in SubCases(s) \union {None}
    BY <2>1 DEF Init, CoreInit, SubCases, Cases
  <2>3. \A s \in Subs : sub[s] \in Cases(SubState) \union {None}
    BY <2>2, SubCasesAreCases
  <2> QED
    BY <2>2, <2>3 DEF Init, CoreInit
<1>7. /\ left \in 0 .. CommandBound /\ reported \subseteq Subs
      /\ job \in [Repairers -> RepairJobs] /\ \A r \in Repairers : job[r].at = "idle"
  BY CasesAssumption DEF Init, CoreInit, NoJob, RepairJobs
<1>8. TypeInv
  BY <1>2, <1>4, <1>5, <1>6, <1>7 DEF TypeInv, Status
<1>9. FactsInv
  BY <1>2, <1>3, <1>7 DEF FactsInv, RepairedMeansStored, Idle
<1>10. CasesInv
  <2>1. ASSUME NEW c \in Callers
        PROVE  Reading(c) /\ CurrentReading(c)
    <3>1. call[c].at = "idle"
      BY <1>3 DEF Idle
    <3> QED
      BY <3>1 DEF Reading, CurrentReading, HasOwn
  <2>2. FailuresAreKnown
    BY DEF Init, CoreInit, FailuresAreKnown, FailedSub, Cases
  <2> QED
    BY <1>2, <2>1, <2>2 DEF CasesInv, ClosingsHold
<1>11. HistoryInv
  BY DEF Init, CoreInit, HistoryInv
<1> QED
  BY <1>8, <1>9, <1>10, <1>11

LEMMA HistoryHolds ==
    TypeInv /\ HistoryInv /\ [Next]_vars => HistoryInv'
<1> SUFFICES ASSUME HistoryInv, [Next]_vars
             PROVE  HistoryInv'
  OBVIOUS
<1>1. CASE UNCHANGED history
  BY <1>1 DEF history, HistoryInv
<1>2. ASSUME NEW c \in Callers, Recorded(c)
      PROVE  HistoryInv'
  BY <1>2 DEF Recorded, HistoryInv, Saved
<1>3. CASE RestartAll
  BY <1>3 DEF RestartAll, Restart, HistoryInv
<1> QED
  BY <1>1, <1>2, <1>3
     DEF Next, CoreNext, vars, coreVars, Repair, Retry, RepairLookup, RepairPut, ConfirmManually,
         Malformed

LEMMA StepHolds ==
    TypeInv /\ FactsInv /\ [Next]_vars => TypeInv' /\ FactsInv' /\ (FactsStay \/ store' = store)
<1> SUFFICES ASSUME TypeInv, FactsInv, [Next]_vars
             PROVE  TypeInv' /\ FactsInv' /\ (FactsStay \/ store' = store)
  OBVIOUS
<1>1. CASE UNCHANGED vars
  <2>1. TypeInv'
    BY <1>1 DEF vars, coreVars, repairVars, TypeInv
  <2>2. FactsInv'
    <3>1. \A c \in Callers : KeyOf(c)' = KeyOf(c)
      BY <1>1 DEF vars, coreVars, KeyOf
    <3> QED
      BY <1>1, <3>1 DEF vars, coreVars, repairVars, FactsInv, Registered, StoredAsRegistered,
                        RepairedMeansStored
  <2> QED
    BY <1>1, <2>1, <2>2 DEF vars, coreVars
<1>2. ASSUME NEW c \in Callers, Commands(c) \/ CallStep(c), UNCHANGED repairVars
      PROVE  TypeInv' /\ FactsInv' /\ FactsStay
  <2>1. TypeInv'
    BY <1>2, IssueKeepsTypes, LoadSubKeepsTypes, LoadRiskKeepsTypes, SaveSubKeepsTypes,
       ListLiquidationsKeepsTypes, ListAdlsKeepsTypes, SaveRiskKeepsTypes, LookupKeepsTypes,
       PutFactKeepsTypes, AwaitFailsKeepsTypes DEF CallStep
  <2> QED
    BY <1>2, <2>1, CommandsKeepFacts
<1>3. ASSUME NEW r \in Repairers,
             (\E k \in KnownKeys : Repair(r, k) \/ Retry(r, k)) \/ RepairLookup(r) \/ RepairPut(r)
      PROVE  TypeInv' /\ FactsInv' /\ FactsStay
  BY <1>3, RepairsKeepTypes, RepairsKeepFacts
<1>4. ASSUME NEW k \in KnownKeys, ConfirmManually(k) \/ Malformed(k)
      PROVE  TypeInv' /\ FactsInv' /\ FactsStay
  BY <1>4, ConfirmationsKeepTypes, ConfirmationsKeepFacts
<1>5. CASE RestartAll
  BY <1>5, RestartKeepsTypes, RestartKeepsFacts
<1> QED
  BY <1>1, <1>2, <1>3, <1>4, <1>5 DEF Next, CoreNext

\* The types and what holds of facts, in every reachable state, for commands and repairs
\* in any number.
THEOREM FactsInvariantHolds == Spec => [](TypeInv /\ HistoryInv /\ FactsInv)
<1>1. Init => TypeInv /\ HistoryInv /\ FactsInv
  BY InitHolds
<1>2. TypeInv /\ HistoryInv /\ FactsInv /\ [Next]_vars => (TypeInv /\ HistoryInv /\ FactsInv)'
  BY StepHolds, HistoryHolds
<1> QED
  BY <1>1, <1>2, PTL DEF Spec

\* Every variable has its type: whatever is recorded, stored or listed is a fact, a key or
\* a case, and a command that coordinates does so for a subcase that is over.
THEOREM TypeCorrect == Spec => []TypeOK
<1>1. TypeInv /\ HistoryInv /\ FactsInv => TypeOK
  <2> SUFFICES ASSUME TypeInv, HistoryInv, FactsInv
               PROVE  TypeOK
    OBVIOUS
  <2>1. /\ risk \in Cases(CaseState)
        /\ \A s \in Subs : sub[s] \in Cases(SubcaseStates(KindOf(s))) \union {None}
        /\ DOMAIN registry \union DOMAIN store \subseteq Keys
        /\ left \in 0 .. CommandBound /\ reported \subseteq Subs
    BY DEF TypeInv, SubCases
  <2>2. Range(registry) \union Range(store) \subseteq Facts
        /\ Range(status) \subseteq CoordinationResultRepairStatus \ {"not_repaired"}
    BY DEF TypeInv, Range
  <2>3. ASSUME NEW c \in Callers
        PROVE  /\ call[c].at \in Awaits \union {"idle"}
               /\ call[c].at \in {"listLiquidations", "listAdls", "lookup", "put"} =>
                    IsTerminalSubcaseState(call[c].own.state)
               /\ call[c].at \in {"lookup", "put"} => call[c].fact \in Facts
               /\ DOMAIN call[c].seen \subseteq Subs
    <3>1. call[c] \in OpenCommands /\ CommandIsReady(call[c])
      BY DEF TypeInv
    <3>2. call[c].seen \in Listings /\ call[c].at \in Awaits \union {"idle"}
      BY <3>1 DEF OpenCommands
    <3>3. DOMAIN call[c].seen \subseteq Subs
      BY <3>2 DEF Listings
    <3> QED
      BY <3>1, <3>2, <3>3 DEF CommandIsReady
  <2>4. CoreTypeOK
    BY <2>1, <2>2, <2>3 DEF CoreTypeOK, HistoryInv
  <2>5. ASSUME NEW r \in Repairers
        PROVE  /\ job[r].at \in {"idle", "lookup", "put"}
               /\ job[r].at # "idle" => job[r].key \in Keys /\ job[r].source \in Facts
    BY JobHasKey DEF TypeInv, RepairJobs
  <2> QED
    BY <2>2, <2>4, <2>5 DEF TypeOK, TypeInv
<1> QED
  BY <1>1, FactsInvariantHolds, PTL

\* A fact that is reported as repaired is in the store and says there what the registry
\* says, with any number of commands and repairs at once.
THEOREM RepairsTellTheTruth == Spec => []RepairedMeansStored
<1>1. TypeInv /\ FactsInv => RepairedMeansStored
  BY DEF FactsInv
<1> QED
  BY <1>1, FactsInvariantHolds, PTL

\* A fact in the store is only replaced by one that says the same, with any number of
\* commands and repairs at once.
THEOREM FactsKeepTheirMeaning == Spec => FactsStayEquivalent
<1>1. TypeInv /\ FactsInv /\ [Next]_vars
        => [\A k \in DOMAIN store : k \in DOMAIN store' /\ Consistent(store[k], store'[k])]_store
  BY StepHolds DEF FactsStay
<1>2. Spec => [][\A k \in DOMAIN store :
                   k \in DOMAIN store' /\ Consistent(store[k], store'[k])]_store
  BY <1>1, FactsInvariantHolds, PTL DEF Spec
<1> QED
  BY <1>2 DEF FactsStayEquivalent

-----------------------------------------------------------------------------
(***************************************************************************)
(* Cases, with commands that overlap in any way.                           *)
(***************************************************************************)
LEMMA ActiveIsNotOver ==
    /\ \A state \in AllowSpecialCaseTransition : state \notin TerminalStates
    /\ "Closed" \in TerminalStates
BY DEF AllowSpecialCaseTransition, TerminalStates

\* The end of a risk case is kept, or it is remembered that it was not.
LEMMA OverStays ==
    ASSUME NEW c \in Callers, Recorded(c), Over
    PROVE  Over'
BY DEF Recorded, Over

\* What a step of c leaves of command d: it holds what it has read, or is stale, and what
\* it holds has raced.
LEMMA OthersKeep ==
    ASSUME TypeInv, NEW c \in Callers, NEW d \in Callers \ {c}, call'[d] = call[d], Recorded(c),
           ClosedForGood => ClosedForGood', Reading(d), d \notin stale => CurrentReading(d)
    PROVE  /\ Reading(d)' /\ (d \notin stale' => CurrentReading(d)')
           /\ \A s : Bringing(d, s) => Bringing(d, s)'
<1> DEFINE r == call[d]
<1>1. CommandIsReady(r) /\ r \in OpenCommands
  BY DEF TypeInv
<1>2. /\ \A s \in Subs : sub'[s] # sub[s] /\ Holds(d, s) => s \in raced'
      /\ \A s \in Subs : sub'[s] = sub[s] /\ s \in raced => s \in raced'
  BY DEF Recorded, Saved
<1>3. d \notin stale' /\ r.at # "idle" =>
        /\ d \notin stale
        /\ \A s \in Subs : sub'[s] # sub[s] => ~Holds(d, s)
        /\ HoldsRisk(d) => risk' = risk
  BY DEF Recorded, Saved, RiskSaved
<1>4. /\ HasOwn(r) => r.sub \in Subs /\ Holds(d, r.sub)
      /\ r.at = "saveSub" => r.sub \in Subs /\ HoldsRisk(d)
      /\ r.at = "saveSub" /\ r.op = "transition" => Holds(d, r.sub)
      /\ r.at \in {"listLiquidations", "listAdls", "saveRisk"} => HoldsRisk(d)
      /\ r.at = "listAdls" => \A s \in Liquidations : s \in Subs /\ Holds(d, s)
      /\ r.at = "saveRisk" /\ r.op # "risk" => \A s \in Subs : Holds(d, s)
      /\ r.at = "saveRisk" /\ r.op # "risk" => r.sub \in Subs
      /\ r.at \in {"lookup", "put"} => r.sub \in Subs /\ Holds(d, r.sub)
  <2> HIDE DEF r
  <2>1. r.at \in {"listLiquidations", "listAdls", "lookup", "put"} => r.op \in {"transition", "coordinate"}
    BY <1>1 DEF CommandIsReady
  <2>2. r.at # "idle" /\ r.op # "risk" => r.sub \in Subs
    BY <1>1 DEF CommandIsReady
  <2>3. r.at = "saveSub" => r.op \in {"create", "transition"}
    BY <1>1 DEF CommandIsReady
  <2> QED
    BY <2>1, <2>2, <2>3 DEF HasOwn, Holds, HoldsRisk, Subs, r
<1>5. Over => Over'
  BY OverStays
<1>6. Reading(d)'
  <2>1. HasOwn(r) => sub'[r.sub] = r.own \/ r.sub \in raced'
    BY <1>2, <1>4 DEF Reading
  <2>2. r.at = "listAdls" => \A s \in Liquidations : s \in raced' \/ ListedAsIs(r.seen, s)'
    BY <1>2, <1>4 DEF Reading, ListedAsIs
  <2>3. r.at = "saveRisk" /\ r.op # "risk" /\ Closing(r.fact)
          => r.parent.state = "Closed" /\ AllAccounted'
    BY <1>2, <1>4 DEF Reading, AllAccounted
  <2> HIDE DEF r
  <2>4. call'[d] = r /\ r' = r
    BY DEF r
  <2>5. /\ r.at = "saveSub" =>
             r.parent.state \notin TerminalStates /\ (r.op = "create" => r.own.state = "Initiated")
        /\ r.at \in {"listLiquidations", "listAdls"} /\ r.parent.state \in TerminalStates => Over'
        /\ r.at \in {"lookup", "put"} /\ Closing(r.fact) => ClosedForGood'
    BY <1>5 DEF Reading, r
  <2> QED
    BY <2>1, <2>2, <2>3, <2>4, <2>5 DEF Reading, HasOwn, Closing
<1>7. ASSUME d \notin stale'
      PROVE  CurrentReading(d)'
  <2>1. CASE r.at = "idle"
    BY <2>1 DEF CurrentReading, HasOwn
  <2>2. CASE r.at # "idle"
    <3>1. /\ CurrentReading(d)
          /\ \A s \in Subs : Holds(d, s) => sub'[s] = sub[s]
          /\ HoldsRisk(d) => risk' = risk
      BY <1>3, <1>7, <2>2
    <3>2. HasOwn(r) => sub'[r.sub] = r.own
      BY <1>4, <3>1 DEF CurrentReading
    <3>3. r.at = "listAdls" => \A s \in Liquidations : ListedAsIs(r.seen, s)'
      BY <1>4, <3>1 DEF CurrentReading, ListedAsIs
    <3>4. /\ r.at \in {"saveSub", "listLiquidations", "listAdls"} => r.parent = risk'
          /\ r.at = "saveRisk" => risk'.state \notin TerminalStates
      BY <1>4, <3>1 DEF CurrentReading
    <3>5. /\ r.at = "saveSub" /\ r.op = "transition" => ~TerminalSub(r.sub)'
          /\ r.at = "saveRisk" /\ r.op # "risk" /\ FailedSub(r.sub)'
               => r.parent.state \in TerminalStates
          /\ r.at \in {"lookup", "put"} /\ FailedSub(r.sub)' => Over'
      BY <1>4, <1>5, <3>1 DEF CurrentReading, TerminalSub, FailedSub
    <3> HIDE DEF r
    <3>6. call'[d] = r /\ r' = r
      BY DEF r
    <3> QED
      BY <3>2, <3>3, <3>4, <3>5, <3>6 DEF CurrentReading, HasOwn
  <2> QED
    BY <2>1, <2>2
<1>8. \A s : Bringing(d, s) => Bringing(d, s)'
  BY <1>5 DEF Bringing
<1> QED
  BY <1>6, <1>7, <1>8

\* What a step of c must see to for the invariant, the others apart.
KeepsCases(c) ==
    /\ ClosedForGood => ClosedForGood'
    /\ Reading(c)' /\ (c \notin stale => CurrentReading(c)')
    /\ \A s \in Saved : FailedSub(s)' => s \in reported' \/ Bringing(c, s)'
    /\ \A s \in Subs \ Saved : FailedSub(s) /\ (s \in reported \/ Bringing(c, s))
         => Over' \/ s \in reported' \/ Bringing(c, s)'
    /\ \A k \in DOMAIN registry' : Closing(registry'[k]) => ClosedForGood'
    /\ \A k \in DOMAIN store' : Closing(store'[k]) => ClosedForGood'

\* What is over is left only by deriving anew, and by what is stale.
EndedStay ==
    /\ risk.state \in TerminalStates /\ risk' # risk => \E c \in stale : call[c].at = "saveRisk"
    /\ \A s \in Subs : TerminalSub(s) /\ sub'[s] # sub[s]
         => \/ sub'[s].state = "Initiated"
            \/ \E c \in stale : call[c].at = "saveSub" /\ call[c].sub = s

LEMMA KeepingIsEnough ==
    ASSUME TypeInv, CasesInv, NEW c \in Callers, Recorded(c), KeepsCases(c),
           \A d \in Callers \ {c} : call'[d] = call[d]
    PROVE  CasesInv'
<1>1. ASSUME NEW d \in Callers
      PROVE  Reading(d)' /\ (d \notin stale' => CurrentReading(d)')
  <2>1. CASE d = c
    <3>1. call'[c].at = "idle" => CurrentReading(c)'
      BY DEF CurrentReading, HasOwn
    <3>2. call'[c].at # "idle" /\ c \in stale => c \in stale'
      BY DEF Recorded
    <3> QED
      BY <2>1, <3>1, <3>2 DEF KeepsCases
  <2>2. CASE d # c
    <3>1. Reading(d) /\ (d \notin stale => CurrentReading(d))
      BY DEF CasesInv
    <3>2. ClosedForGood => ClosedForGood'
      BY DEF KeepsCases
    <3> QED
      BY <2>2, <3>1, <3>2, OthersKeep
  <2> QED
    BY <2>1, <2>2
<1>2. FailuresAreKnown'
  <2> SUFFICES ASSUME NEW s \in Subs, FailedSub(s)'
               PROVE  Over' \/ s \in reported' \/ \E d \in Callers : Bringing(d, s)'
    BY DEF FailuresAreKnown
  <2>1. CASE s \in Saved
    BY <2>1 DEF KeepsCases
  <2>2. CASE s \notin Saved
    <3>1. FailedSub(s)
      BY <2>2 DEF Saved, FailedSub
    <3>2. Over \/ s \in reported \/ \E d \in Callers : Bringing(d, s)
      BY <3>1 DEF CasesInv, FailuresAreKnown
    <3>3. CASE Over
      BY <3>3, OverStays
    <3>4. CASE s \in reported \/ Bringing(c, s)
      BY <2>2, <3>1, <3>4 DEF KeepsCases
    <3>5. ASSUME NEW d \in Callers \ {c}, Bringing(d, s)
          PROVE  Bringing(d, s)'
      <4>1. Reading(d) /\ (d \notin stale => CurrentReading(d))
        BY DEF CasesInv
      <4>2. ClosedForGood => ClosedForGood'
        BY DEF KeepsCases
      <4> QED
        BY <3>5, <4>1, <4>2, OthersKeep
    <3> QED
      BY <3>2, <3>3, <3>4, <3>5
  <2> QED
    BY <2>1, <2>2
<1>3. ClosingsHold'
  BY DEF KeepsCases, ClosingsHold
<1> QED
  BY <1>1, <1>2, <1>3 DEF CasesInv

\* A step that saves no case.
LEMMA NothingSaved ==
    ASSUME NEW c \in Callers, Recorded(c), UNCHANGED <<risk, sub>>
    PROVE  /\ Saved = {} /\ raced' = raced /\ EndedStay
           /\ (Over' <=> Over) /\ (AllAccounted' <=> AllAccounted)
           /\ (ClosedForGood' <=> ClosedForGood)
           /\ \A s : FailedSub(s)' <=> FailedSub(s)
<1>1. Saved = {}
  BY DEF Saved
<1>2. raced' = raced /\ (reopened' <=> reopened)
  BY <1>1 DEF Recorded
<1>3. (Over' <=> Over) /\ (AllAccounted' <=> AllAccounted)
  BY <1>2 DEF Over, AllAccounted
<1> QED
  BY <1>1, <1>2, <1>3 DEF EndedStay, ClosedForGood, FailedSub

\* A command that ends: a failure that it knew of is reported, or has reached the risk
\* case.
LEMMA EndsKeepCases ==
    ASSUME TypeInv, CasesInv, NEW c \in Callers, Recorded(c),
           \/ Fail(c)
           \/ Succeed(c) /\ \A s : ~Bringing(c, s) \/ call[c].at \in {"lookup", "put"},
           ClosedForGood => ClosedForGood',
           \A s \in Saved : FailedSub(s)' => Fail(c) /\ s = call[c].sub,
           \A k \in DOMAIN registry' : Closing(registry'[k]) => ClosedForGood',
           \A k \in DOMAIN store' : Closing(store'[k]) => ClosedForGood'
    PROVE  CasesInv'
<1>1. call'[c].at = "idle" /\ \A d \in Callers \ {c} : call'[d] = call[d]
  BY CommandEnds DEF Idle
<1>2. Reading(c)' /\ CurrentReading(c)'
  BY <1>1 DEF Reading, CurrentReading, HasOwn
<1>3. \A s \in Saved : FailedSub(s)' => s \in reported'
  BY CasesAssumption DEF Fail, Saved
<1>4. ASSUME NEW s \in Subs, FailedSub(s), s \in reported \/ Bringing(c, s)
      PROVE  Over' \/ s \in reported'
  <2>1. CASE Fail(c)
    BY <1>4, <2>1, CasesAssumption DEF Fail, Bringing
  <2>2. CASE Succeed(c) /\ call[c].at \in {"lookup", "put"}
    <3>1. c \notin stale /\ call[c].sub = s => Over
      BY <1>4, <2>2 DEF CasesInv, CurrentReading
    <3>2. Bringing(c, s) => Over
      BY <2>2 DEF Bringing
    <3> QED
      BY <1>4, <2>2, <3>1, <3>2, OverStays DEF Succeed
  <2>3. CASE Succeed(c) /\ call[c].at \notin {"lookup", "put"}
    <3>1. ~Fail(c) => ~Bringing(c, s)
      BY <2>3
    <3> QED
      BY <1>4, <2>1, <2>3, <3>1 DEF Succeed
  <2> QED
    BY <2>1, <2>2, <2>3
<1>5. KeepsCases(c)
  BY <1>2, <1>3, <1>4 DEF KeepsCases
<1> QED
  BY <1>1, <1>5, KeepingIsEnough

\* A command that goes on and saves nothing.
LEMMA GoingOnKeepsCases ==
    ASSUME TypeInv, CasesInv, NEW c \in Callers, Recorded(c), NEW r, GoTo(c, r),
           UNCHANGED <<risk, sub, registry, store, reported>>,
           Reading(c)', c \notin stale => CurrentReading(c)',
           \A s \in Subs : FailedSub(s) /\ Bringing(c, s) => Over \/ Bringing(c, s)'
    PROVE  CasesInv'
<1>1. \A d \in Callers \ {c} : call'[d] = call[d]
  BY DEF GoTo, TypeInv
<1>2. /\ Saved = {} /\ (Over' <=> Over) /\ (ClosedForGood' <=> ClosedForGood)
  BY NothingSaved
<1>3. KeepsCases(c)
  BY <1>2 DEF KeepsCases, CasesInv, ClosingsHold
<1> QED
  BY <1>1, <1>3, KeepingIsEnough

LEMMA EarlyStepsKeepCases ==
    ASSUME TypeInv, CasesInv, NEW c \in Callers, Recorded(c),
           Commands(c) \/ LoadSub(c) \/ LoadRisk(c)
    PROVE  CasesInv' /\ EndedStay
<1>1. \A r : GoTo(c, r) => call'[c] = r
  BY DEF GoTo, TypeInv
<1>2. UNCHANGED <<risk, sub, registry, store>> /\ call[c].at \in {"idle", "loadSub", "loadRisk"}
  <2>1. CASE Commands(c)
    BY <2>1, CommandsLead DEF Idle
  <2>2. CASE LoadSub(c)
    BY <2>2, LoadSubLeads DEF LoadSub
  <2>3. CASE LoadRisk(c)
    <3>1. call[c].at = "loadRisk"
      BY <2>3 DEF LoadRisk
    <3> QED
      BY <2>3, <3>1, LoadRiskLeads
  <2> QED
    BY <2>1, <2>2, <2>3
<1>3. \A s : ~Bringing(c, s)
  BY <1>2 DEF Bringing
<1>4. /\ EndedStay /\ raced' = raced /\ (ClosedForGood' <=> ClosedForGood) /\ (Over' <=> Over)
      /\ Saved = {}
  BY <1>2, NothingSaved
<1>5. CASE Commands(c)
  <2>1. /\ UNCHANGED reported /\ \E r : GoTo(c, r)
        /\ call'[c].at = "loadSub" \/ (call'[c].at = "loadRisk" /\ call'[c].op \in {"create", "risk"})
    BY <1>1, <1>5, CommandsLead
  <2>2. Reading(c)' /\ CurrentReading(c)'
    BY <2>1 DEF Reading, CurrentReading, HasOwn
  <2>3. PICK r : GoTo(c, r)
    BY <2>1
  <2> QED
    BY <1>2, <1>3, <1>4, <2>1, <2>2, <2>3, GoingOnKeepsCases
<1>6. CASE LoadSub(c)
  <2>1. CASE Fail(c)
    BY <1>2, <1>4, <2>1, EndsKeepCases DEF CasesInv, ClosingsHold
  <2>2. CASE ~Fail(c)
    <3>1. /\ UNCHANGED reported /\ \E r : GoTo(c, r)
          /\ call'[c].at = "loadRisk" /\ call'[c].own = sub[call'[c].sub]
      BY <1>1, <1>6, <2>2, LoadSubLeads
    <3>2. Reading(c)' /\ CurrentReading(c)'
      BY <1>2, <3>1 DEF Reading, CurrentReading, HasOwn
    <3>3. PICK r : GoTo(c, r)
      BY <3>1
    <3> QED
      BY <1>2, <1>3, <1>4, <3>1, <3>2, <3>3, GoingOnKeepsCases
  <2> QED
    BY <2>1, <2>2
<1>7. CASE LoadRisk(c)
  <2>1. /\ call[c].at = "loadRisk" /\ Reading(c) /\ (c \notin stale => CurrentReading(c))
    BY <1>7 DEF LoadRisk, CasesInv
  <2>2. call[c].op \in {"transition", "coordinate"} =>
          /\ sub[call[c].sub] = call[c].own \/ call[c].sub \in raced
          /\ c \notin stale => sub[call[c].sub] = call[c].own
    BY <2>1 DEF Reading, CurrentReading, HasOwn
  <2>3. PICK r : /\ GoTo(c, r)
                 /\ \/ r = Idle
                    \/ /\ r.at = "saveSub" /\ r.op = call[c].op /\ r.sub = call[c].sub
                       /\ r.parent = risk /\ risk.state \in AllowSpecialCaseTransition
                       /\ r.op = "create" => r.own.state = "Initiated"
                       /\ r.op = "transition" => ~IsTerminalSubcaseState(call[c].own.state)
                    \/ /\ r.at = "listLiquidations" /\ r.op = "coordinate"
                       /\ r.sub = call[c].sub /\ r.own = call[c].own /\ r.parent = risk
                       /\ call[c].op = "coordinate"
                    \/ r.at = "saveRisk" /\ r.op = "risk" /\ risk.state \notin TerminalStates
    BY <1>7, LoadRiskLeads
  <2>4. call'[c] = r /\ UNCHANGED reported
    BY <1>1, <1>7, <2>3, LoadRiskLeads
  <2>5. Reading(c)' /\ (c \notin stale => CurrentReading(c)')
    <3>1. CASE r = Idle
      <4>1. call'[c].at = "idle"
        BY <2>4, <3>1 DEF Idle
      <4> QED
        BY <4>1 DEF Reading, CurrentReading, HasOwn
    <3>2. CASE /\ r.at = "saveSub" /\ r.op = call[c].op /\ r.sub = call[c].sub
               /\ r.parent = risk /\ risk.state \in AllowSpecialCaseTransition
               /\ r.op = "create" => r.own.state = "Initiated"
               /\ r.op = "transition" => ~IsTerminalSubcaseState(call[c].own.state)
      <4>1. risk.state \notin TerminalStates
        BY <3>2, ActiveIsNotOver
      <4>2. c \notin stale /\ r.op = "transition" => ~TerminalSub(r.sub)'
        BY <1>2, <2>2, <3>2 DEF TerminalSub
      <4> QED
        BY <1>2, <2>4, <3>2, <4>1, <4>2 DEF Reading, CurrentReading, HasOwn
    <3>3. CASE /\ r.at = "listLiquidations" /\ r.op = "coordinate"
               /\ r.sub = call[c].sub /\ r.own = call[c].own /\ r.parent = risk
               /\ call[c].op = "coordinate"
      <4>1. risk.state \in TerminalStates => Over'
        BY <1>4 DEF Over
      <4> QED
        BY <1>2, <1>4, <2>2, <2>4, <3>3, <4>1 DEF Reading, CurrentReading, HasOwn
    <3>4. CASE r.at = "saveRisk" /\ r.op = "risk" /\ risk.state \notin TerminalStates
      BY <1>2, <2>4, <3>4 DEF Reading, CurrentReading, HasOwn
    <3> QED
      BY <2>3, <3>1, <3>2, <3>3, <3>4
  <2> QED
    BY <1>2, <1>3, <1>4, <2>3, <2>4, <2>5, GoingOnKeepsCases
<1> QED
  BY <1>5, <1>6, <1>7

LEMMA SaveSubKeepsCases ==
    ASSUME TypeInv, CasesInv, NEW c \in Callers, Recorded(c), SaveSub(c)
    PROVE  CasesInv' /\ EndedStay
<1> DEFINE r == call[c]
<1>1. /\ r.at = "saveSub" /\ CommandIsReady(r) /\ r \in OpenCommands
      /\ Reading(c) /\ (c \notin stale => CurrentReading(c))
  BY DEF SaveSub, CasesInv, TypeInv
<1>2. /\ r.sub \in Subs /\ r.op \in {"create", "transition"}
      /\ r.parent.state \notin TerminalStates
      /\ r.op = "create" => r.own.state = "Initiated"
      /\ c \notin stale =>
           /\ risk.state \notin TerminalStates /\ r.parent = risk
           /\ r.op = "transition" => ~TerminalSub(r.sub)
  <2>1. r.sub \in Subs /\ r.op \in {"create", "transition"}
    <3> HIDE DEF r
    <3> QED
      BY <1>1 DEF CommandIsReady
  <2> QED
    BY <1>1, <2>1 DEF Reading, CurrentReading
<1>3. /\ sub'[r.sub] = r.own /\ \A s \in Subs \ {r.sub} : sub'[s] = sub[s]
      /\ UNCHANGED <<risk, registry, store>>
  BY <1>2 DEF SaveSub, TypeInv
<1>4. Saved \subseteq {r.sub}
  BY <1>3 DEF Saved
<1>5. EndedStay
  <2>1. ASSUME NEW s \in Subs, TerminalSub(s), sub'[s] # sub[s]
        PROVE  \/ sub'[s].state = "Initiated"
               \/ \E d \in stale : call[d].at = "saveSub" /\ call[d].sub = s
    <3>1. s = r.sub
      BY <1>3, <2>1
    <3> QED
      BY <1>1, <1>2, <1>3, <2>1, <3>1
  <2> QED
    BY <1>3, <2>1 DEF EndedStay
<1>6. ClosedForGood => ClosedForGood'
  <2>1. reopened => reopened'
    BY DEF Recorded
  <2>2. ASSUME risk.state \in TerminalStates, AllAccounted
        PROVE  AllAccounted'
    <3>1. c \in stale
      BY <1>2, <2>2
    <3>2. \A s \in Subs \ raced' : s \notin raced /\ sub'[s] = sub[s]
      BY <3>1 DEF Recorded, Saved
    <3> QED
      BY <2>2, <3>2 DEF AllAccounted
  <2> QED
    BY <1>3, <2>1, <2>2 DEF ClosedForGood
<1>7. /\ \A k \in DOMAIN registry' : Closing(registry'[k]) => ClosedForGood'
      /\ \A k \in DOMAIN store' : Closing(store'[k]) => ClosedForGood'
  BY <1>3, <1>6 DEF CasesInv, ClosingsHold
<1>8. \A s : ~Bringing(c, s)
  BY <1>1 DEF Bringing
<1>9. CASE Fail(c)
  BY <1>4, <1>5, <1>6, <1>7, <1>9, EndsKeepCases
<1>10. CASE Succeed(c) /\ (r.op = "create" \/ ~IsTerminalSubcaseState(r.own.state))
  <2>1. \A s \in Saved : ~FailedSub(s)'
    BY <1>2, <1>3, <1>4, <1>10 DEF IsTerminalSubcaseState, FailedSub
  <2> QED
    BY <1>5, <1>6, <1>7, <1>8, <1>10, <2>1, EndsKeepCases
<1>11. CASE GoTo(c, [r EXCEPT !.at = "listLiquidations"]) /\ UNCHANGED reported
  <2>1. /\ call'[c].at = "listLiquidations" /\ call'[c].sub = r.sub /\ call'[c].own = r.own
        /\ call'[c].parent = r.parent
        /\ \A d \in Callers \ {c} : call'[d] = call[d]
    BY <1>1, <1>11 DEF GoTo, TypeInv, OpenCommands
  <2>2. Reading(c)' /\ (c \notin stale => CurrentReading(c)')
    <3> HIDE DEF r
    <3> QED
      BY <1>2, <1>3, <2>1 DEF Reading, CurrentReading, HasOwn
  <2>3. \A s \in Saved : Bringing(c, s)'
    <3> HIDE DEF r
    <3> QED
      BY <1>4, <2>1 DEF Bringing
  <2>4. KeepsCases(c)
    BY <1>6, <1>7, <1>8, <1>11, <2>2, <2>3 DEF KeepsCases
  <2> QED
    BY <1>5, <2>1, <2>4, KeepingIsEnough
<1> QED
  BY <1>9, <1>10, <1>11 DEF SaveSub, AfterSave

LEMMA ListLiquidationsKeepsCases ==
    ASSUME TypeInv, CasesInv, NEW c \in Callers, Recorded(c), ListLiquidations(c)
    PROVE  CasesInv' /\ EndedStay
<1> DEFINE r == call[c]
           next == [r EXCEPT !.at = "listAdls", !.seen = StatesOf(Liquidations)]
<1>1. /\ r.at = "listLiquidations" /\ r \in OpenCommands /\ GoTo(c, next)
      /\ UNCHANGED <<risk, sub, registry, store, reported>>
      /\ Reading(c) /\ (c \notin stale => CurrentReading(c))
  BY DEF ListLiquidations, CasesInv, TypeInv
<1>2. EndedStay /\ (Over' <=> Over) /\ raced' = raced
  BY <1>1, NothingSaved
<1>3. /\ call'[c].at = "listAdls" /\ call'[c].sub = r.sub /\ call'[c].own = r.own
      /\ call'[c].parent = r.parent /\ call'[c].seen = StatesOf(Liquidations)
  BY <1>1 DEF GoTo, TypeInv, OpenCommands
<1>4. \A s \in Liquidations : ListedAsIs(call'[c].seen, s) /\ ListedAsIs(call[c].seen, s)'
  BY <1>1, <1>3 DEF StatesOf, ListedAsIs
<1>5. Reading(c)' /\ (c \notin stale => CurrentReading(c)')
  BY <1>1, <1>2, <1>3, <1>4 DEF Reading, CurrentReading, HasOwn
<1>6. \A s \in Subs : FailedSub(s) /\ Bringing(c, s) => Bringing(c, s)'
  BY <1>1, <1>3 DEF Bringing, FailedSub, StatesOf
<1> HIDE DEF next
<1> QED
  BY <1>1, <1>2, <1>5, <1>6, GoingOnKeepsCases

\* What has been listed is what there is, but for what has raced.
LEMMA ListedIsThere ==
    ASSUME NEW r, NEW s \in Subs, s \in Liquidations => ListedAsIs(r.seen, s), sub[s] # None
    PROVE  s \in DOMAIN Listed(r) /\ Listed(r)[s] = sub[s].state
BY CasesAssumption DEF Listed, CoordinationContext, StatesOf, Subs, ListedAsIs

LEMMA ListAdlsKeepsCases ==
    ASSUME TypeInv, CasesInv, NEW c \in Callers, Recorded(c), ListAdls(c)
    PROVE  CasesInv' /\ EndedStay
<1> DEFINE r == call[c]
           listed == Listed(r)
<1>1. /\ r.at = "listAdls" /\ CommandIsReady(r) /\ r \in OpenCommands
      /\ UNCHANGED <<risk, sub, store>>
      /\ Reading(c) /\ (c \notin stale => CurrentReading(c))
  BY DEF ListAdls, CasesInv, TypeInv
<1>2. /\ r.op \in {"transition", "coordinate"} /\ r.sub \in Subs
      /\ IsTerminalSubcaseState(r.own.state)
  <2> HIDE DEF r
  <2> QED
    BY <1>1 DEF CommandIsReady
<1>3. /\ sub[r.sub] = r.own \/ r.sub \in raced
      /\ r.parent.state \in TerminalStates => Over
      /\ \A s \in Liquidations : s \in raced \/ ListedAsIs(r.seen, s)
      /\ c \notin stale =>
           /\ r.parent = risk
           /\ \A s \in Liquidations : ListedAsIs(r.seen, s)
  BY <1>1 DEF Reading, CurrentReading, HasOwn
<1>4. PICK next \in Cases(CaseState), fact \in Facts : Arbitrated(c, next, fact)
  BY ListAdlsIs
<1>5. /\ (\E s \in DOMAIN listed : listed[s] = "Failed") => next.state \in TerminalStates
      /\ Closing(fact) =>
           /\ next.state = "Closed"
           /\ ~\E s \in DOMAIN listed : listed[s] = "Failed"
           /\ \A s \in DOMAIN listed \ {r.sub} : IsTerminalSubcaseState(listed[s])
  BY <1>4 DEF Arbitrated, Closing
<1>6. /\ EndedStay /\ Saved = {} /\ (Over' <=> Over) /\ (ClosedForGood' <=> ClosedForGood)
      /\ (AllAccounted' <=> AllAccounted) /\ \A s : FailedSub(s)' <=> FailedSub(s)
  BY <1>1, NothingSaved
<1>7. Closing(fact) => next.state = "Closed" /\ AllAccounted
  <2> SUFFICES ASSUME Closing(fact), NEW s \in Subs \ raced, sub[s] # None
               PROVE  Succeeded(sub[s].state)
    BY <1>5 DEF AllAccounted
  <2>1. s \in DOMAIN listed /\ listed[s] = sub[s].state
    BY <1>3, ListedIsThere
  <2>2. sub[s].state # "Failed"
    BY <1>5, <2>1
  <2>3. IsTerminalSubcaseState(sub[s].state)
    <3>1. CASE s = r.sub
      BY <1>2, <1>3, <3>1
    <3>2. CASE s # r.sub
      BY <1>5, <2>1, <3>2
    <3> QED
      BY <3>1, <3>2
  <2> QED
    BY <2>2, <2>3 DEF IsTerminalSubcaseState
<1>8. c \notin stale /\ FailedSub(r.sub) => next.state \in TerminalStates
  <2> SUFFICES ASSUME c \notin stale, FailedSub(r.sub)
               PROVE  next.state \in TerminalStates
    OBVIOUS
  <2>1. r.sub \in DOMAIN listed /\ listed[r.sub] = "Failed"
    BY <1>2, <1>3, ListedIsThere DEF FailedSub
  <2> QED
    BY <1>5, <2>1
<1>9. ASSUME NEW s \in Subs, FailedSub(s), Bringing(c, s)
      PROVE  s = r.sub /\ next.state \in TerminalStates
  <2>1. s = r.sub /\ (s \in Liquidations => s \in DOMAIN r.seen /\ r.seen[s] = "Failed")
    BY <1>1, <1>9 DEF Bringing
  <2>2. s \in DOMAIN listed /\ listed[s] = "Failed"
    BY <1>9, <2>1, CasesAssumption DEF FailedSub, Listed, CoordinationContext, StatesOf, Subs
  <2> QED
    BY <1>5, <2>1, <2>2
<1> HIDE DEF listed
<1>10. CASE next = r.parent /\ ~Closing(fact) /\ Record(c, fact)
  <2>1. /\ \A k \in DOMAIN registry : registry'[k] = registry[k]
        /\ \A k \in DOMAIN registry' \ DOMAIN registry : registry'[k] = fact
        /\ \/ Fail(c)
           \/ /\ call'[c] = [r EXCEPT !.at = "lookup", !.fact = fact]
              /\ UNCHANGED reported
        /\ \A d \in Callers \ {c} : call'[d] = call[d]
    BY <1>1, <1>10, RecordIs
  <2>2. /\ \A k \in DOMAIN registry' : Closing(registry'[k]) => ClosedForGood'
        /\ \A k \in DOMAIN store' : Closing(store'[k]) => ClosedForGood'
    BY <1>1, <1>6, <1>10, <2>1 DEF CasesInv, ClosingsHold
  <2>3. CASE Fail(c)
    BY <1>6, <2>2, <2>3, EndsKeepCases
  <2>4. CASE call'[c] = [r EXCEPT !.at = "lookup", !.fact = fact] /\ UNCHANGED reported
    <3>1. call'[c].at = "lookup" /\ call'[c].sub = r.sub /\ call'[c].fact = fact
      BY <1>1, <2>4 DEF OpenCommands
    <3>2. next.state \in TerminalStates => Over'
      BY <1>3, <1>6, <1>10
    <3>3. c \notin stale /\ FailedSub(call'[c].sub) => Over'
      BY <1>8, <1>10, <3>1, <3>2
    <3>4. Reading(c)' /\ (c \notin stale => CurrentReading(c)')
      <4>1. ~Closing(call'[c].fact)
        BY <1>10, <3>1
      <4>2. FailedSub(call'[c].sub) <=> FailedSub(call[c].sub)'
        BY <1>1 DEF FailedSub
      <4> QED
        BY <3>1, <3>3, <4>1, <4>2 DEF Reading, CurrentReading, HasOwn, Closing
    <3> HIDE DEF r
    <3>5. \A s \in Subs : FailedSub(s) /\ Bringing(c, s) => Bringing(c, s)'
      BY <1>9, <3>1, <3>2 DEF Bringing
    <3>6. KeepsCases(c)
      BY <1>6, <2>2, <2>4, <3>4, <3>5 DEF KeepsCases
    <3> QED
      BY <1>6, <2>1, <3>6, KeepingIsEnough
  <2> QED
    BY <2>1, <2>3, <2>4
<1>11. CASE /\ r.parent.state \notin TerminalStates
            /\ GoTo(c, [r EXCEPT !.at = "saveRisk", !.parent = next, !.fact = fact])
            /\ UNCHANGED <<registry, reported>>
  <2>1. /\ call'[c].at = "saveRisk" /\ call'[c].sub = r.sub /\ call'[c].fact = fact
        /\ call'[c].parent = next /\ call'[c].op = r.op
    BY <1>1, <1>11 DEF OpenCommands, GoTo, TypeInv
  <2>2. c \notin stale => risk.state \notin TerminalStates
    BY <1>3, <1>11
  <2> HIDE DEF r
  <2>3. Reading(c)' /\ (c \notin stale => CurrentReading(c)')
    BY <1>1, <1>2, <1>6, <1>7, <1>8, <2>1, <2>2
       DEF Reading, CurrentReading, HasOwn, FailedSub, Closing
  <2>4. \A s \in Subs : FailedSub(s) /\ Bringing(c, s) => Bringing(c, s)'
    BY <1>2, <1>9, <2>1 DEF Bringing
  <2>5. PICK x : GoTo(c, x)
    BY <1>11
  <2> QED
    BY <1>1, <1>6, <1>11, <2>3, <2>4, <2>5, GoingOnKeepsCases
<1> QED
  BY <1>4, <1>10, <1>11 DEF Arbitrated

LEMMA SaveRiskKeepsCases ==
    ASSUME TypeInv, CasesInv, NEW c \in Callers, Recorded(c), SaveRisk(c)
    PROVE  CasesInv' /\ EndedStay
<1> DEFINE r == call[c]
<1>1. /\ r.at = "saveRisk" /\ CommandIsReady(r) /\ r \in OpenCommands
      /\ UNCHANGED <<sub, store>> /\ risk' = r.parent
      /\ Reading(c) /\ (c \notin stale => CurrentReading(c))
  BY DEF SaveRisk, CasesInv, TypeInv
<1>2. /\ c \notin stale => risk.state \notin TerminalStates
      /\ r.op # "risk" =>
           /\ Closing(r.fact) => r.parent.state = "Closed" /\ AllAccounted
           /\ c \notin stale /\ FailedSub(r.sub) => r.parent.state \in TerminalStates
           /\ r.fact \in Facts
  <2>1. r.op # "risk" => r.fact \in Facts
    <3> HIDE DEF r
    <3> QED
      BY <1>1 DEF CommandIsReady
  <2> QED
    BY <1>1, <2>1 DEF Reading, CurrentReading
<1>3. EndedStay
  BY <1>1, <1>2 DEF EndedStay
<1>4. Saved = {} /\ raced' = raced /\ (AllAccounted' <=> AllAccounted)
  BY <1>1 DEF Saved, Recorded, AllAccounted
<1>5. ClosedForGood => ClosedForGood'
  <2>1. Over => Over'
    BY OverStays
  <2> QED
    BY <1>4, <2>1 DEF ClosedForGood, Over, Recorded
<1>6. \A k \in DOMAIN store' : Closing(store'[k]) => ClosedForGood'
  BY <1>1, <1>5 DEF CasesInv, ClosingsHold
<1>7. ASSUME Fail(c) \/ (Succeed(c) /\ r.op = "risk"), UNCHANGED registry
      PROVE  CasesInv' /\ EndedStay
  <2>1. \A k \in DOMAIN registry' : Closing(registry'[k]) => ClosedForGood'
    BY <1>5, <1>7 DEF CasesInv, ClosingsHold
  <2>2. r.op = "risk" => \A s : ~Bringing(c, s)
    BY <1>1 DEF Bringing
  <2> QED
    BY <1>3, <1>4, <1>5, <1>6, <1>7, <2>1, <2>2, EndsKeepCases
<1>8. CASE r.op # "risk" /\ Record(c, r.fact)
  <2>1. /\ \A k \in DOMAIN registry : registry'[k] = registry[k]
        /\ \A k \in DOMAIN registry' \ DOMAIN registry : registry'[k] = r.fact
        /\ \/ Fail(c)
           \/ /\ call'[c] = [r EXCEPT !.at = "lookup", !.fact = r.fact]
              /\ UNCHANGED reported
        /\ \A d \in Callers \ {c} : call'[d] = call[d]
    BY <1>1, <1>2, <1>8, RecordIs
  <2>2. Closing(r.fact) => ClosedForGood'
    BY <1>1, <1>2, <1>4, <1>8, ActiveIsNotOver DEF ClosedForGood
  <2>3. \A k \in DOMAIN registry' : Closing(registry'[k]) => ClosedForGood'
    <3> HIDE DEF r
    <3> QED
      BY <1>5, <2>1, <2>2 DEF CasesInv, ClosingsHold
  <2>4. CASE Fail(c)
    BY <1>3, <1>4, <1>5, <1>6, <2>3, <2>4, EndsKeepCases
  <2>5. CASE call'[c] = [r EXCEPT !.at = "lookup", !.fact = r.fact] /\ UNCHANGED reported
    <3>1. call'[c].at = "lookup" /\ call'[c].sub = r.sub /\ call'[c].fact = r.fact
      BY <1>1, <2>5 DEF OpenCommands
    <3>2. r.parent.state \in TerminalStates => Over'
      BY <1>1 DEF Over
    <3>3. c \notin stale /\ FailedSub(call[c].sub)' => Over'
      BY <1>1, <1>2, <1>8, <3>1, <3>2 DEF FailedSub
    <3>4. Reading(c)' /\ (c \notin stale => CurrentReading(c)')
      BY <2>2, <3>1, <3>3 DEF Reading, CurrentReading, HasOwn, Closing
    <3>5. \A s \in Subs : Bringing(c, s) => Bringing(c, s)'
      BY <1>1, <3>1, <3>2 DEF Bringing
    <3>6. KeepsCases(c)
      BY <1>4, <1>5, <1>6, <2>3, <2>5, <3>4, <3>5 DEF KeepsCases
    <3> QED
      BY <1>3, <2>1, <3>6, KeepingIsEnough
  <2> QED
    BY <2>1, <2>4, <2>5
<1> QED
  BY <1>7, <1>8 DEF SaveRisk

LEMMA LateStepsKeepCases ==
    ASSUME TypeInv, CasesInv, NEW c \in Callers, Recorded(c),
           Lookup(c) \/ PutFact(c) \/ AwaitFails(c)
    PROVE  CasesInv' /\ EndedStay
<1> DEFINE r == call[c]
<1>1. /\ r \in OpenCommands /\ Reading(c) /\ (c \notin stale => CurrentReading(c))
      /\ UNCHANGED <<risk, sub, registry>>
  BY DEF Lookup, PutFact, AwaitFails, CasesInv, TypeInv
<1>2. /\ EndedStay /\ Saved = {} /\ (Over' <=> Over) /\ (ClosedForGood' <=> ClosedForGood)
      /\ \A s : FailedSub(s)' <=> FailedSub(s)
  BY <1>1, NothingSaved
<1>3. \A k \in DOMAIN registry' : Closing(registry'[k]) => ClosedForGood'
  BY <1>1, <1>2 DEF CasesInv, ClosingsHold
<1>4. ASSUME UNCHANGED store
      PROVE  \A k \in DOMAIN store' : Closing(store'[k]) => ClosedForGood'
  BY <1>2, <1>4 DEF CasesInv, ClosingsHold
<1>5. ASSUME Fail(c) \/ (Succeed(c) /\ r.at \in {"lookup", "put"}),
             \A k \in DOMAIN store' : Closing(store'[k]) => ClosedForGood'
      PROVE  CasesInv' /\ EndedStay
  BY <1>2, <1>3, <1>5, EndsKeepCases
<1>6. CASE Lookup(c)
  <2>1. r.at = "lookup" /\ UNCHANGED store
    BY <1>6 DEF Lookup
  <2>2. CASE Succeed(c) \/ Fail(c)
    BY <1>4, <1>5, <2>1, <2>2
  <2>3. CASE GoTo(c, [r EXCEPT !.at = "put"]) /\ UNCHANGED reported
    <3>1. call'[c].at = "put" /\ call'[c].sub = r.sub /\ call'[c].fact = r.fact
      BY <1>1, <2>3 DEF GoTo, TypeInv, OpenCommands
    <3>2. /\ Closing(r.fact) => ClosedForGood'
          /\ c \notin stale /\ FailedSub(call[c].sub)' => Over'
      BY <1>1, <1>2, <2>1, <3>1 DEF Reading, CurrentReading, FailedSub
    <3>3. Reading(c)' /\ (c \notin stale => CurrentReading(c)')
      BY <3>1, <3>2 DEF Reading, CurrentReading, HasOwn, Closing
    <3>4. \A s \in Subs : Bringing(c, s) => Bringing(c, s)'
      BY <1>2, <2>1, <3>1 DEF Bringing
    <3>5. PICK x : GoTo(c, x)
      BY <2>3
    <3> QED
      BY <1>1, <1>2, <2>1, <2>3, <3>3, <3>4, <3>5, GoingOnKeepsCases
  <2> QED
    BY <1>6, <2>2, <2>3 DEF Lookup
<1>7. CASE PutFact(c)
  <2>1. r.at = "put" /\ store' = Put(store, KeyOf(c), r.fact) /\ (Succeed(c) \/ Fail(c))
    BY <1>7 DEF PutFact
  <2>2. Closing(r.fact) => ClosedForGood'
    BY <1>1, <1>2, <2>1 DEF Reading
  <2>3. \A k \in DOMAIN store' : store'[k] = r.fact \/ (k \in DOMAIN store /\ store'[k] = store[k])
    BY <2>1 DEF Put
  <2>4. \A k \in DOMAIN store' : Closing(store'[k]) => ClosedForGood'
    <3> HIDE DEF r
    <3> QED
      BY <1>2, <2>2, <2>3 DEF CasesInv, ClosingsHold
  <2> QED
    BY <1>5, <2>1, <2>4
<1>8. CASE AwaitFails(c)
  BY <1>4, <1>5, <1>8 DEF AwaitFails
<1> QED
  BY <1>6, <1>7, <1>8

\* Repairs only write what is registered.
LEMMA RepairsKeepCases ==
    ASSUME CasesInv, UNCHANGED <<risk, sub, registry, call, reported, history>>,
           \A k \in DOMAIN store' :
             \/ k \in DOMAIN store /\ store'[k] = store[k]
             \/ \E x \in DOMAIN registry : store'[k] = registry[x]
    PROVE  CasesInv' /\ EndedStay
<1>1. stale' = stale /\ raced' = raced /\ reopened' = reopened
  BY DEF history
<1>2. /\ EndedStay /\ (Over' <=> Over) /\ (AllAccounted' <=> AllAccounted)
      /\ (ClosedForGood' <=> ClosedForGood)
  BY <1>1 DEF EndedStay, Over, AllAccounted, ClosedForGood
<1>3. ClosingsHold'
  BY <1>2 DEF CasesInv, ClosingsHold
<1>4. \A c \in Callers : \A s : Bringing(c, s)' <=> Bringing(c, s)
  BY <1>2 DEF Bringing
<1>5. FailuresAreKnown'
  BY <1>2, <1>4 DEF CasesInv, FailuresAreKnown, FailedSub
<1>6. \A seen, s : ListedAsIs(seen, s)' <=> ListedAsIs(seen, s)
  BY DEF ListedAsIs
<1>7. ASSUME NEW c \in Callers
      PROVE  (Reading(c)' <=> Reading(c)) /\ (CurrentReading(c)' <=> CurrentReading(c))
  BY <1>1, <1>2, <1>6 DEF Reading, CurrentReading, HasOwn, Closing, FailedSub, TerminalSub
<1> QED
  BY <1>1, <1>2, <1>3, <1>5, <1>7 DEF CasesInv

LEMMA RestartKeepsCases ==
    ASSUME TypeInv, CasesInv, RestartAll
    PROVE  CasesInv' /\ EndedStay
<1>1. /\ UNCHANGED <<risk, sub, store, raced, reopened>> /\ DOMAIN registry' = {}
      /\ \A c \in Callers : call'[c].at = "idle"
      /\ reported' = reported \union ({call[c].sub : c \in Callers} \ {None})
  BY EmptyFunction DEF RestartAll, Restart, Idle
<1>2. /\ EndedStay /\ (Over' <=> Over) /\ (ClosedForGood' <=> ClosedForGood)
  BY <1>1 DEF EndedStay, Over, AllAccounted, ClosedForGood
<1>3. ClosingsHold'
  BY <1>1, <1>2 DEF CasesInv, ClosingsHold
<1>4. \A c \in Callers : Reading(c)' /\ CurrentReading(c)'
  BY <1>1 DEF Reading, CurrentReading, HasOwn
<1>5. FailuresAreKnown'
  <2>1. \A s \in Subs : FailedSub(s)' => FailedSub(s) /\ s # None
    BY <1>1, CasesAssumption DEF FailedSub
  <2> QED
    BY <1>1, <1>2, <2>1 DEF CasesInv, FailuresAreKnown, Bringing
<1> QED
  BY <1>2, <1>3, <1>4, <1>5 DEF CasesInv

LEMMA StepKeepsCases ==
    TypeInv /\ FactsInv /\ CasesInv /\ [Next]_vars
      => CasesInv' /\ (EndedStay \/ UNCHANGED <<risk, sub>>)
<1> SUFFICES ASSUME TypeInv, FactsInv, CasesInv, [Next]_vars
             PROVE  CasesInv' /\ (EndedStay \/ UNCHANGED <<risk, sub>>)
  OBVIOUS
<1>1. CASE UNCHANGED vars
  BY <1>1, RepairsKeepCases DEF vars, coreVars
<1>2. ASSUME NEW c \in Callers, Commands(c) \/ CallStep(c), Recorded(c)
      PROVE  CasesInv' /\ EndedStay
  BY <1>2, EarlyStepsKeepCases, SaveSubKeepsCases, ListLiquidationsKeepsCases,
     ListAdlsKeepsCases, SaveRiskKeepsCases, LateStepsKeepCases DEF CallStep
<1>3. ASSUME UNCHANGED coreVars
      PROVE  CasesInv' /\ EndedStay
  BY <1>3, RepairsKeepCases DEF coreVars
<1>4. ASSUME NEW r \in Repairers, RepairPut(r)
      PROVE  CasesInv' /\ EndedStay
  <2>1. /\ UNCHANGED <<risk, sub, registry, call, reported, history>>
        /\ job[r].key \in DOMAIN registry /\ job[r].source = registry[job[r].key]
    BY <1>4 DEF RepairPut, FactsInv
  <2>2. store' = store \/ store' = Put(store, job[r].key, job[r].source)
    BY <1>4 DEF RepairPut
  <2>3. \A k \in DOMAIN store' :
          store'[k] = job[r].source \/ (k \in DOMAIN store /\ store'[k] = store[k])
    BY <2>2 DEF Put
  <2> QED
    BY <2>1, <2>3, RepairsKeepCases
<1>5. CASE RestartAll
  BY <1>5, RestartKeepsCases
<1> QED
  BY <1>1, <1>2, <1>3, <1>4, <1>5
     DEF Next, CoreNext, Repair, Retry, RepairLookup, ConfirmManually, Malformed

\* Every command has read what is there or is known to be stale, every failure is on its
\* way, and what a close has found holds, in every reachable state, however many commands
\* overlap.
THEOREM CasesInvariantHolds == Spec => [](TypeInv /\ FactsInv /\ CasesInv)
<1>1. Init => TypeInv /\ FactsInv /\ CasesInv
  BY InitHolds
<1>2. TypeInv /\ FactsInv /\ CasesInv /\ [Next]_vars => (TypeInv /\ FactsInv /\ CasesInv)'
  BY StepHolds, StepKeepsCases
<1> QED
  BY <1>1, <1>2, PTL DEF Spec

\* A failed subcase has ended its risk case, or the command that brought the failure is
\* open or was answered with an error, or a command that read the risk case before its end
\* has saved over it: for any number of commands, subcases, times and repairs at once.
THEOREM FailuresReachTheRiskCase == Spec => []FailureReachesRiskCase
<1>1. CasesInv => FailureReachesRiskCase
  BY DEF CasesInv, FailuresAreKnown, FailedSub, FailureReachesRiskCase, Over, Bringing
<1>2. Spec => []CasesInv
  BY CasesInvariantHolds, PTL
<1> QED
  BY <1>1, <1>2, PTL

\* A risk case that a coordination has closed has no subcase that failed or is active, but
\* for one that was saved across a command that had read it.
THEOREM ClosedCasesHaveSucceeded == Spec => []CloseMeansAllSucceeded
<1>1. CasesInv => CloseMeansAllSucceeded
  BY DEF CasesInv, ClosingsHold, ClosedForGood, Closing, AllAccounted, CloseMeansAllSucceeded,
         Range
<1>2. Spec => []CasesInv
  BY CasesInvariantHolds, PTL
<1> QED
  BY <1>1, <1>2, PTL

\* What is over stays over, but for what is derived anew, unless a command saves it that has
\* read it before the end.
THEOREM EndsAreKept == Spec => EndedLeftOnlyByStaleRead
<1> DEFINE Stay ==
      /\ risk.state \in TerminalStates /\ risk' # risk
           => \E c \in stale : call[c].at = "saveRisk"
      /\ \A s \in Subs :
           sub[s] # None /\ IsTerminalSubcaseState(sub[s].state) /\ sub'[s] # sub[s]
             => \/ sub'[s].state = "Initiated"
                \/ \E c \in stale : call[c].at = "saveSub" /\ call[c].sub = s
<1>1. TypeInv /\ FactsInv /\ CasesInv /\ [Next]_vars => [Stay]_<<risk, sub>>
  BY StepKeepsCases DEF EndedStay, TerminalSub
<1>2. Spec => [](TypeInv /\ FactsInv /\ CasesInv)
  BY CasesInvariantHolds
<1>3. Spec => [][Stay]_<<risk, sub>>
  <2> HIDE DEF Stay
  <2> QED
    BY <1>1, <1>2, PTL DEF Spec
<1> QED
  BY <1>3 DEF EndedLeftOnlyByStaleRead

\* Commands that overlap on one case do harm only where one of them acted on a stale
\* read: for any number of commands, subcases, times and repairs at once.
THEOREM OnlyStaleReadsDoHarm == Spec => OnlyStaleReadsHarm
BY FailuresReachTheRiskCase, ClosedCasesHaveSucceeded, EndsAreKept, PTL
   DEF OnlyStaleReadsHarm
=============================================================================
