--------------------------- MODULE MCAuditDelivery ---------------------------
(* Instances of AuditDelivery for TLC.                                         *)
EXTENDS AuditDelivery, TLC

CONSTANTS r1, r2, t1, t2, w1, w2

WorkerSymmetry == Permutations(Workers)
==============================================================================
