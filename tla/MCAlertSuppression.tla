-------------------------- MODULE MCAlertSuppression --------------------------
(* AlertSuppression for TLC. *)
EXTENDS AlertSuppression

CONSTANTS p1, p2, q1, q2, o1

MCProcesses == {p1, p2}
MCReaders == {q1, q2}
MCOperators == {o1}
MCHome == [c \in {q1, q2, o1} |-> IF c = q2 THEN p2 ELSE p1]
MCCategories == {"current_snapshot_conflict"}

Calm == [stored |-> TRUE, registered |-> TRUE, observed |-> TRUE, conflict |-> FALSE,
         validated |-> TRUE, writeFailed |-> FALSE, repair |-> "not_repaired"]
MCFirstSignals == {[Calm EXCEPT !.writeFailed = TRUE]}
MCLiveSignals == {Calm} \union MCFirstSignals

Kept(slot, state) ==
    [history |-> slot, states |-> [k \in MCCategories |-> state]]
Slot == [current |-> View(Calm), previous |-> None]
Plain == StoredState("warning", 2)

MCInitialStores ==
    {Kept(None, None), Kept(Slot, [Plain EXCEPT !.version = "older"]),
     Kept(None, [Plain EXCEPT !.version = "foreign", !.times = "unordered"]),
     Kept(Slot, [Plain EXCEPT !.severity = "invalid"]),
     Kept(None, [Plain EXCEPT !.version = "blank", !.source = "invalid",
                              !.times = "unordered"])}
=============================================================================
