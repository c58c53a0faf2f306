----------------------------- MODULE UndoStack ------------------------------
(***************************************************************************)
(* What a saga is to whoever reads its saved row: a stack of done steps.   *)
(* Going forward it is pushed one step at a time; once a step fails it is  *)
(* only popped, one step at a time from the top, and what could not be     *)
(* undone is set aside.  It is closed when all steps are done or none is   *)
(* left.                                                                   *)
(***************************************************************************)
EXTENDS Naturals

CONSTANT NSteps

VARIABLES phase, done, residue, verdict

stack == <<phase, done, residue, verdict>>

TypeOK ==
    /\ phase \in {"forward", "backward", "closed"}
    /\ done \in {1 .. n : n \in 0 .. NSteps}
    /\ residue \in SUBSET (1 .. NSteps)
    /\ verdict \in {"none", "completed", "undone", "residue"}

Init ==
    /\ phase = "forward" /\ done = {}
    /\ residue = {} /\ verdict = "none"

Push(s) ==
    /\ phase = "forward" /\ done = 1 .. (s - 1)
    /\ done' = 1 .. s
    /\ UNCHANGED <<phase, residue, verdict>>

\* The step above the stack failed.
Fail ==
    /\ phase = "forward" /\ done # 1 .. NSteps
    /\ phase' = "backward"
    /\ UNCHANGED <<done, residue, verdict>>

Pop(s) ==
    /\ phase = "backward" /\ done = 1 .. s
    /\ done' = 1 .. (s - 1)
    /\ residue' \in {residue, residue \cup {s}}
    /\ UNCHANGED <<phase, verdict>>

Close ==
    /\ \/ /\ phase = "forward" /\ done = 1 .. NSteps
          /\ verdict' = "completed"
       \/ /\ phase = "backward" /\ done = {}
          /\ verdict' = IF residue = {} THEN "undone" ELSE "residue"
    /\ phase' = "closed"
    /\ UNCHANGED <<done, residue>>

Next == Fail \/ Close \/ \E s \in 1 .. NSteps : Push(s) \/ Pop(s)

Spec == Init /\ [][Next]_stack
=============================================================================
