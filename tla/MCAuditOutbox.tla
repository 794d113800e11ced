---------------------------- MODULE MCAuditOutbox ----------------------------
(* Instances of AuditOutbox for TLC.                                           *)
EXTENDS AuditOutbox, TLC

CONSTANTS r1, r2, t1, t2, w1, w2

\* Both rows in one tenant: they compete for the positions of one chain.  A second
\* tenant has no rows, and nothing may be reported to it.
OneTenant == [r \in Rows |-> t1]

WorkerSymmetry == Permutations(Workers)
==============================================================================
