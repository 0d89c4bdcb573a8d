---------------------------- MODULE MCSettlement ----------------------------
(***************************************************************************)
(* Values for model-checking Settlement: two payments of one account and   *)
(* currency and one of another.                                            *)
(***************************************************************************)
EXTENDS Settlement, TLC

CONSTANTS p1, p2, p3, g1, g2

Grouping == [p \in Payments |-> IF p = p3 THEN g2 ELSE g1]

\* p1 and p2 have the same group, and nothing else tells them apart.
Interchangeable == Permutations({p1, p2})
=============================================================================
