-------------------------- MODULE MCAnchorPublisher --------------------------
(* Instances of AnchorPublisher for TLC.                                       *)
EXTENDS AnchorPublisher, TLC

CONSTANTS p1, p2, t1, t2, d1, d2

Symmetry == Permutations(Publishers) \cup Permutations(Destinations)
==============================================================================
