----------------------------- MODULE MCVaultKeys -----------------------------
(* Instances of VaultKeys for TLC.                                             *)
EXTENDS VaultKeys, TLC

CONSTANTS d1, d2, e1, p1

Symmetry == Permutations(Devices)
==============================================================================
