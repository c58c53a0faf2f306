------------------------------ MODULE Selections ------------------------------
(***************************************************************************)
(* JavaScript's filter() on arrays: the elements of a sequence that pass a *)
(* test, in their order.  The test is given as the set of the places that  *)
(* pass it, so that a proof can reason about it; SelectSeq is out of its   *)
(* reach.                                                                  *)
(***************************************************************************)
EXTENDS Naturals, Sequences

\* What has been taken of s after each of its places.
Taken(s, places) ==
    LET F[i \in 0 .. Len(s)] ==
          IF i = 0 THEN <<>>
          ELSE IF i \in places THEN Append(F[i - 1], s[i]) ELSE F[i - 1]
    IN  F

Selected(s, places) == Taken(s, places)[Len(s)]
=============================================================================
