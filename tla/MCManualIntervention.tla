------------------------ MODULE MCManualIntervention ------------------------
(***************************************************************************)
(* Instance of the manual intervention for TLC: two calls that may meet on *)
(* one entry, and two processes with two dead letters each, which may fall *)
(* in one millisecond and then draw one id.                                *)
(***************************************************************************)
EXTENDS ManualIntervention, TLC

Symmetry == Permutations(Calls) \cup Permutations(Processes)
=============================================================================
