-------------------------- MODULE MCEmergencyAccess --------------------------
(* Instances of EmergencyAccess for TLC.                                       *)
EXTENDS EmergencyAccess, TLC

CONSTANTS g1, r1, r2, r3

Symmetry == Permutations(Requests)
==============================================================================
