------------------------------ MODULE MCCaseFlow ------------------------------
(* CaseFlow and CoordinationRepair for TLC. *)
EXTENDS CoordinationRepair

CONSTANTS c1, r1, l1, a1, none

MCCallers == {c1}
MCRepairers == {r1}
MCLiquidations == {l1}
MCAdls == {a1}
MCVersions == {1, 2}
=============================================================================
