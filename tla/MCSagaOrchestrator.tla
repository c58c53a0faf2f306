------------------------- MODULE MCSagaOrchestrator -------------------------
(***************************************************************************)
(* Instance of the saga orchestrator for TLC: three steps, so that a       *)
(* compensation can fail with others before and after it, and budgets that *)
(* expire before, at and after a step timeout.                             *)
(***************************************************************************)
EXTENDS SagaRefinement

=============================================================================
