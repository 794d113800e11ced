--------------------------- MODULE MCSessionCache ----------------------------
(* Instances of SessionCache for TLC.                                          *)
EXTENDS SessionCache, TLC

CONSTANTS s1, r1, r2, w1, w2

Symmetry == Permutations(Readers) \cup Permutations(Writers)
==============================================================================
