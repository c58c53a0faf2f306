------------------------------ MODULE MCCaseRaces ------------------------------
(* CaseFlow for TLC, with commands on one case that overlap and no repairs. *)
EXTENDS CoordinationRepair

CONSTANTS c1, c2, l1, a1, none

MCCallers == {c1, c2}
MCRepairers == {}
MCLiquidations == {l1}
MCAdls == {a1}
MCVersions == {1, 2}
=============================================================================
