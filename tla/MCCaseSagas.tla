----------------------------- MODULE MCCaseSagas -----------------------------
(* CaseSagas for TLC: one caller runs any saga, one state transitions. *)
EXTENDS CaseSagas, TLC

CONSTANTS r1, r2, k1, none

MCRuns == {r1, r2}
MCCases == {k1}
MCKindsOf == (r1 :> BusinessSagaKind) @@ (r2 :> {"state-transition"})
=============================================================================
