--------------------------- MODULE MCDataDocCollab ---------------------------
(***************************************************************************)
(* Instances of DataDocCollab for TLC: a document of two cells and an      *)
(* empty one.                                                              *)
(***************************************************************************)
EXTENDS DataDocCollab, TLC

CONSTANTS d1, d2, c1, c2

TwoAndNone == [d \in Docs |-> IF d = d1 THEN <<c1, c2>> ELSE <<>>]

Symmetry == Permutations(Tabs)

=============================================================================
