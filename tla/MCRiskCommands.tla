---------------------------- MODULE MCRiskCommands ----------------------------
(* RiskCommands for TLC. *)
EXTENDS RiskCommands, TLC

CONSTANTS c1, c2, o1, o2, k1, k2

MCCallers == {c1, c2}
MCOperators == {o1, o2}
MCReferences == {<<"TransitionRiskCaseCommand", k1>>, <<"CreateRiskCaseCommand", k2>>}
MCEnforcedKeys == {k1}
MCRiskActions == {"Close"}
MCFirstStates == {"Classified", None}
MCSymmetry == Permutations(MCCallers) \union Permutations(MCOperators)
=============================================================================
