--------------------------- MODULE MCProductStore ---------------------------
(* Instances of ProductStore for TLC.                                       *)
EXTENDS ProductStore, TLC

CONSTANTS p1, p2, p3, w1, w2

Symmetry == Permutations(Workers)
=============================================================================
