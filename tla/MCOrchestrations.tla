--------------------------- MODULE MCOrchestrations ---------------------------
(* Orchestrations for TLC. *)
EXTENDS Orchestrations

CONSTANTS v1, v2, p1, p2, risk, liquidation, q1

D(kind, key) == [kind |-> kind, key |-> key]
First == [k \in Kinds |-> D(k, p1)]
Second == [First EXCEPT !["ranking"] = D("ranking", p2)]
Misplaced == [First EXCEPT !["fund_waterfall"] = D("ranking", p1)]

MCVersions == {v1, v2}
MCContentOf == [v \in MCVersions |->
                  IF v = v1 THEN {First} ELSE {Second, Misplaced}]
MCRegistered == {D(k, p1) : k \in Kinds}
MCDescriptors == {D("ranking", p2)}
MCLosses == {{}, {1}, {2}, {8}, 1..7, 1..10}
MCRiskCases == {risk}
MCLiquidationCases == {liquidation}
MCRequests == {q1}
MCCaseViews == {"Classified", "Closed"}
=============================================================================
