----------------------------- MODULE MCMcpOAuth -----------------------------
(* Instance of McpOAuth for TLC.                                               *)
EXTENDS McpOAuth, TLC

CONSTANTS c1, p1, p2, p3, r1, r2, r3

Symmetry == Permutations(Pairs) \cup Permutations(Requests)
=============================================================================
