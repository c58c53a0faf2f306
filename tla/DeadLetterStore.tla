-------------------------- MODULE DeadLetterStore ---------------------------
(***************************************************************************)
(* The dead letter store (dead-letter-store-memory and                     *)
(* dead-letter-store-postgres, which behave alike: one row per entry id,   *)
(* the last write wins) and the saga side that fills it: each process of   *)
(* the orchestrator draws its entry ids from its own counter and the       *)
(* millisecond clock.                                                      *)
(***************************************************************************)
EXTENDS Naturals

CONSTANTS
    Processes,   \* processes that run an orchestrator on the same store
    People,      \* names of operators
    MaxTime,     \* bound on the clock, in milliseconds
    MaxLetters   \* bound on the dead letters of one process

ASSUME BoundsAssumption == MaxTime \in Nat /\ MaxLetters \in Nat

VARIABLES
    now,         \* Date.now()
    counter,     \* defaultDlqIdCounter of each process
    acked,       \* dead letters whose enqueue was acknowledged
    drawn,       \* history: each dead letter with the id drawn for it
    rows         \* the store

storeVars == <<now, counter, acked, drawn, rows>>

\* A dead letter is one failed compensation: the n-th of its process.
Letters == Processes \X (1 .. MaxLetters)
Ids == [at : 0 .. MaxTime, n : 1 .. MaxLetters]
Nobody == "nobody"
Absent == [letter |-> <<>>, status |-> "absent", processedBy |-> Nobody]
Rows == [letter : Letters, status : {"pending", "processed"},
         processedBy : People \cup {Nobody}]

-----------------------------------------------------------------------------
\* Faulty: the counter is forgotten, two letters of a millisecond share an id.
GenerateIdFromClock(p) == [at |-> now, n |-> 1]

\* defaultGenerateDeadLetterId: dlq-<Date.now()>-<counter>
GenerateDeadLetterId(p) == [at |-> now, n |-> counter[p] + 1]

\* What tryEnqueueDeadLetter puts under the id, whatever was there before.
PendingRow(p) == [letter |-> <<p, counter[p] + 1>>, status |-> "pending",
                  processedBy |-> Nobody]

\* markAsProcessed: a row that is there becomes processed by who, even if it was
\* processed already; an unknown id is passed over.
MarkAsProcessed(id, who) ==
    IF rows[id] = Absent THEN rows
    ELSE [rows EXCEPT ![id].status = "processed", ![id].processedBy = who]

-----------------------------------------------------------------------------
StoreInit ==
    /\ now = 0
    /\ counter = [p \in Processes |-> 0]
    /\ acked = {}
    /\ drawn = {}
    /\ rows = [id \in Ids |-> Absent]

\* A process gives up on a compensation and enqueues it.
Enqueue(p) ==
    /\ counter[p] < MaxLetters
    /\ counter' = [counter EXCEPT ![p] = @ + 1]
    /\ drawn' = drawn \cup {<<<<p, counter[p] + 1>>, GenerateDeadLetterId(p)>>}
    /\ \/ /\ rows' = [rows EXCEPT ![GenerateDeadLetterId(p)] = PendingRow(p)]
          /\ acked' = acked \cup {<<p, counter[p] + 1>>}
       \/ \* reported as failed, whether or not it was written
          /\ rows' \in {rows, [rows EXCEPT ![GenerateDeadLetterId(p)] = PendingRow(p)]}
          /\ UNCHANGED acked
    /\ UNCHANGED now

ClockTick == now < MaxTime /\ now' = now + 1 /\ UNCHANGED <<counter, acked, drawn, rows>>

StoreNext == ClockTick \/ \E p \in Processes : Enqueue(p)
=============================================================================
