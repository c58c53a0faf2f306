---------------------------- MODULE MCHttpEngine ----------------------------
(***************************************************************************)
(* Instance of the HTTP engine for TLC: three callers for two slots, a     *)
(* breaker that needs two failed calls, and one retry, so that answers of  *)
(* calls admitted before the breaker opened arrive after it.               *)
(***************************************************************************)
EXTENDS HttpEngine, TLC

CallerSymmetry == Permutations(Callers)
=============================================================================
