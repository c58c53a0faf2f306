--------------------------- MODULE SagaRefinement ---------------------------
(***************************************************************************)
(* The saved row of a saga implements an undo stack: the mapping reads     *)
(* nothing but the row, so that a recovery can read it too.                *)
(***************************************************************************)
EXTENDS SagaProperties

PhaseOf(row) ==
    IF row.overall \in Terminal THEN "closed"
    ELSE IF \/ row.overall = "compensating"
            \/ \E s \in Steps : row.statuses[s] = "failed"
         THEN "backward" ELSE "forward"

DoneOf(row) == {s \in Steps : row.statuses[s] \in {"succeeded", "compensating"}}

ResidueOf(row) == {s \in Steps : row.statuses[s] = "dead_lettered"}

VerdictOf(row) ==
    CASE row.overall = "completed" -> "completed"
      [] row.overall = "partially_compensated" -> "residue"
      [] row.overall \in {"compensated", "timed_out"} -> "undone"
      [] OTHER -> "none"

Row == INSTANCE UndoStack WITH
           phase <- PhaseOf(durable), done <- DoneOf(durable),
           residue <- ResidueOf(durable), verdict <- VerdictOf(durable)

\* Whatever fails and whenever the process dies, the row goes through the states
\* of an undo stack: pushed in step order, popped from the top, closed only when
\* full or empty, with the verdict that its residue calls for.
RowIsUndoStack == Row!Spec
=============================================================================
