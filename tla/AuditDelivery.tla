---------------------------- MODULE AuditDelivery ----------------------------
(* Delivery of committed audit events to external sinks (SIEM, S3, webhook     *)
(* targets), processDeliveryBatch of src/src/workers/audit-outbox-worker.ts.    *)
(* An audit_deliveries row exists per outbox row and target; a worker claims a *)
(* batch, reads the outbox payloads of the whole batch, and delivers the rows  *)
(* one after the other.  Unlike the webhook loop, an error of the error        *)
(* handler leaves the loop and abandons the rest of the batch to the reaper.   *)
(*                                                                             *)
(* audit_outbox is under FORCE ROW LEVEL SECURITY.  Every transaction of the   *)
(* worker sets app.bypass_rls for itself, but the read of the batch's payloads *)
(* runs outside a transaction.  WorkerSight says what the role of the worker's *)
(* connection sees there: {FALSE} for passwd_outbox_worker, the role the       *)
(* repository creates and deploys (NOBYPASSRLS), TRUE for a superuser.         *)
EXTENDS Integers, FiniteSets

CONSTANTS
  Rows,        \* outbox rows
  Targets,     \* active audit_delivery_targets of the tenant
  NoDeliverer, \* targets whose kind has no entry in DELIVERERS
  Workers,
  BatchSize,   \* OUTBOX_BATCH_SIZE
  MaxAttempts, \* max_attempts of a delivery
  WorkerSight, \* may the payload read pass row level security
  Refailable   \* rows that a stale outbox worker may set FAILED

ASSUME DeliveryAssumption ==
  /\ IsFiniteSet(Rows) /\ IsFiniteSet(Targets)
  /\ BatchSize \in Nat \ {0} /\ MaxAttempts \in Nat \ {0}
  /\ WorkerSight \subseteq BOOLEAN

\* @@unique([outboxId, targetId])
Deliveries == Rows \X Targets
RowOf(d) == d[1]
TargetOf(d) == d[2]

VARIABLES
  status,       \* audit_deliveries.status; "none" before the INSERT, "deleted" after
  attemptCount, \* audit_deliveries.attempt_count
  outbox,       \* status of the audit_outbox row, "deleted" once purged
  failCount,    \* audit_delivery_targets.fail_count
  deadLetters,  \* deliveries with an AUDIT_DELIVERY_DEAD_LETTER audit row
  stage,        \* per worker: "idle", "claimed" (payloads not read yet), "deliver"
  batch,        \* per worker, the claimed deliveries still to be processed
  payloads,     \* per worker, the rows outboxById has
  received      \* deliveries a sink accepted

tableVars == <<status, attemptCount, outbox, failCount, deadLetters>>
workerVars == <<stage, batch, payloads>>
vars == <<status, attemptCount, outbox, failCount, deadLetters, stage, batch,
          payloads, received>>

\* fails is the target's fail_count as read with the claim.
Job == [delivery : Deliveries, attempts : Nat, fails : Nat,
        phase : {"send", "mark", "error"}]
Open == {"PENDING", "PROCESSING"}
----------------------------------------------------------------------------
Init ==
  /\ status = [d \in Deliveries |-> "none"]
  /\ attemptCount = [d \in Deliveries |-> 0]
  /\ outbox = [r \in Rows |-> "PROCESSING"]
  /\ failCount = [t \in Targets |-> 0]
  /\ deadLetters = {}
  /\ stage = [w \in Workers |-> "idle"]
  /\ batch = [w \in Workers |-> {}]
  /\ payloads = [w \in Workers |-> {}]
  /\ received = {}

\* enqueueAuditDeliveriesInTx, in the transaction that commits the audit log and
\* marks the outbox row SENT: one delivery per active target.
EnqueueDeliveries(r) ==
  /\ outbox[r] = "PROCESSING"
  /\ outbox' = [outbox EXCEPT ![r] = "SENT"]
  /\ status' = [d \in Deliveries |-> IF RowOf(d) = r THEN "PENDING" ELSE status[d]]
  /\ UNCHANGED <<attemptCount, failCount, deadLetters, workerVars, received>>

\* The claim, and the read of the claimed rows with their targets.
Claim(w, B) ==
  /\ stage[w] = "idle"
  /\ B # {} /\ Cardinality(B) <= BatchSize
  /\ \A d \in B : status[d] = "PENDING"
  /\ status' = [d \in Deliveries |-> IF d \in B THEN "PROCESSING" ELSE status[d]]
  /\ stage' = [stage EXCEPT ![w] = "claimed"]
  /\ batch' = [batch EXCEPT ![w] =
       {[delivery |-> d, attempts |-> attemptCount[d], fails |-> failCount[TargetOf(d)],
         phase |-> "send"] : d \in B}]
  /\ UNCHANGED <<attemptCount, outbox, failCount, deadLetters, payloads, received>>

\* Rows the payload query returns: all that exist, or none where row level security
\* hides them.  It can also be rejected: see AbandonBatch.
Visible(sees) == {r \in Rows : sees /\ outbox[r] # "deleted"}

\* The payloads of the whole batch are read once, before the first delivery.
ReadPayloads(w) ==
  /\ stage[w] = "claimed"
  /\ stage' = [stage EXCEPT ![w] = "deliver"]
  /\ \E sees \in WorkerSight : payloads' = [payloads EXCEPT ![w] = Visible(sees)]
  /\ UNCHANGED <<tableVars, batch, received>>

\* The for loop: j is the delivery being processed.
Current(w, j) ==
  /\ stage[w] = "deliver"
  /\ \A k \in batch[w] \ {j} : k.phase = "send"

SetJob(w, j, k) ==
  /\ batch' = [batch EXCEPT ![w] = (@ \ {j}) \cup {k}]
  /\ UNCHANGED <<stage, payloads>>

\* The worker's loop ends with its last delivery.
EndJob(w, j) ==
  /\ batch' = [batch EXCEPT ![w] = @ \ {j}]
  /\ stage' = [stage EXCEPT ![w] = IF batch[w] = {j} THEN "idle" ELSE @]
  /\ payloads' = [payloads EXCEPT ![w] = IF batch[w] = {j} THEN {} ELSE @]

\* The process dies, or the payload query or the error handler throws: the rest
\* of the batch stays PROCESSING.
Abandon(w) ==
  /\ batch' = [batch EXCEPT ![w] = {}]
  /\ stage' = [stage EXCEPT ![w] = "idle"]
  /\ payloads' = [payloads EXCEPT ![w] = {}]

AbandonBatch(w) ==
  /\ stage[w] # "idle"
  /\ Abandon(w)
  /\ UNCHANGED <<tableVars, received>>

\* "Outbox row was purged before delivery completed - log and skip"; the
\* delivery stays PROCESSING.
SkipPurged(w, j) ==
  /\ Current(w, j) /\ j.phase = "send"
  /\ RowOf(j.delivery) \notin payloads[w]
  /\ EndJob(w, j)
  /\ UNCHANGED <<tableVars, received>>

\* deliverFn.deliver: the sink accepts the event, or the call, or the decryption
\* of the target's config, fails.  A kind without a deliverer always fails.
Deliver(w, j, ok) ==
  /\ Current(w, j) /\ j.phase = "send"
  /\ RowOf(j.delivery) \in payloads[w]
  /\ ok => TargetOf(j.delivery) \notin NoDeliverer
  /\ received' = IF ok THEN received \cup {j.delivery} ELSE received
  /\ SetJob(w, j, [j EXCEPT !.phase = IF ok THEN "mark" ELSE "error"])
  /\ UNCHANGED tableVars

\* Mutant: the row is marked SENT under the name of another status.
MutMarkDelivered(w, j, acked) ==
  /\ Current(w, j) /\ j.phase = "mark"
  /\ status[j.delivery] # "deleted"
  /\ status' = [status EXCEPT ![j.delivery] = "DELIVERED"]
  /\ EndJob(w, j)
  /\ UNCHANGED <<attemptCount, outbox, deadLetters, failCount, received>>

\* The SENT transaction: the target's fail_count is reset only when the snapshot
\* had one.  A commit the worker does not see goes to the error handler.
MarkSent(w, j, acked) ==
  /\ Current(w, j) /\ j.phase = "mark"
  /\ status[j.delivery] # "deleted"
  /\ status' = [status EXCEPT ![j.delivery] = "SENT"]
  /\ failCount' = [failCount EXCEPT ![TargetOf(j.delivery)] = IF j.fails > 0 THEN 0 ELSE @]
  /\ IF acked THEN EndJob(w, j) ELSE SetJob(w, j, [j EXCEPT !.phase = "error"])
  /\ UNCHANGED <<attemptCount, outbox, deadLetters, received>>

\* It fails: always so when the retention has deleted the row (update throws).
MarkSentThrows(w, j) ==
  /\ Current(w, j) /\ j.phase = "mark"
  /\ SetJob(w, j, [j EXCEPT !.phase = "error"])
  /\ UNCHANGED <<tableVars, received>>

\* Mutant: the dead-letter row is written outside the transaction, and lost.
MutSilentDeadLetter(w, j) ==
  LET n == j.attempts + 1
      dead == n >= MaxAttempts
  IN
  /\ Current(w, j) /\ j.phase = "error"
  /\ status[j.delivery] # "deleted"
  /\ status' = [status EXCEPT ![j.delivery] = IF dead THEN "FAILED" ELSE "PENDING"]
  /\ attemptCount' = [attemptCount EXCEPT ![j.delivery] = n]
  /\ failCount' = [failCount EXCEPT ![TargetOf(j.delivery)] = IF dead THEN j.fails + 1 ELSE @]
  /\ EndJob(w, j)
  /\ UNCHANGED <<outbox, deadLetters, received>>

\* recordDeliveryError: attempt and failure counts are those of the snapshot plus
\* one.
RecordDeliveryError(w, j) ==
  LET n == j.attempts + 1
      dead == n >= MaxAttempts
  IN
  /\ Current(w, j) /\ j.phase = "error"
  /\ status[j.delivery] # "deleted"
  /\ status' = [status EXCEPT ![j.delivery] = IF dead THEN "FAILED" ELSE "PENDING"]
  /\ attemptCount' = [attemptCount EXCEPT ![j.delivery] = n]
  /\ failCount' = [failCount EXCEPT ![TargetOf(j.delivery)] = IF dead THEN j.fails + 1 ELSE @]
  /\ deadLetters' = IF dead THEN deadLetters \cup {j.delivery} ELSE deadLetters
  /\ EndJob(w, j)
  /\ UNCHANGED <<outbox, received>>

\* Its update of a deleted row throws, out of the loop.
RecordErrorOfDeleted(w, j) ==
  /\ Current(w, j) /\ j.phase = "error"
  /\ status[j.delivery] = "deleted"
  /\ Abandon(w)
  /\ UNCHANGED <<tableVars, received>>

\* Mutant: stuck rows are put back without counting the attempt.
MutReapForFree(d) ==
  /\ status[d] = "PROCESSING"
  /\ status' = [status EXCEPT ![d] = "PENDING"]
  /\ UNCHANGED <<attemptCount, deadLetters, outbox, failCount, workerVars, received>>

\* reapStuckDeliveries, one row at a time.
ReapStuckDelivery(d) ==
  LET n == attemptCount[d] + 1
      dead == n >= MaxAttempts
  IN
  /\ status[d] = "PROCESSING"
  /\ status' = [status EXCEPT ![d] = IF dead THEN "FAILED" ELSE "PENDING"]
  /\ attemptCount' = [attemptCount EXCEPT ![d] = n]
  /\ deadLetters' = IF dead THEN deadLetters \cup {d} ELSE deadLetters
  /\ UNCHANGED <<outbox, failCount, workerVars, received>>

\* purgeRetention: finished deliveries past their retention.
PurgeDelivery(d) ==
  /\ status[d] \in {"SENT", "FAILED"}
  /\ status' = [status EXCEPT ![d] = "deleted"]
  /\ UNCHANGED <<attemptCount, outbox, failCount, deadLetters, workerVars, received>>

\* purgeSentAgedInTx: a SENT outbox row without open deliveries.
PurgeSentOutbox(r) ==
  /\ outbox[r] = "SENT"
  /\ \A d \in Deliveries : RowOf(d) = r => status[d] \notin Open
  /\ outbox' = [outbox EXCEPT ![r] = "deleted"]
  /\ UNCHANGED <<status, attemptCount, failCount, deadLetters, workerVars, received>>

\* purgeFailedAgedInTx and the operator's purge: no condition on deliveries.
PurgeFailedOutbox(r) ==
  /\ outbox[r] = "FAILED"
  /\ outbox' = [outbox EXCEPT ![r] = "deleted"]
  /\ UNCHANGED <<status, attemptCount, failCount, deadLetters, workerVars, received>>

\* recordError of a stale outbox worker (module AuditOutbox).
OutboxRefailed(r) ==
  /\ r \in Refailable
  /\ outbox[r] = "SENT"
  /\ outbox' = [outbox EXCEPT ![r] = "FAILED"]
  /\ UNCHANGED <<status, attemptCount, failCount, deadLetters, workerVars, received>>
----------------------------------------------------------------------------
DeliveryStep(w, j) ==
  \/ SkipPurged(w, j)
  \/ \E ok \in BOOLEAN : Deliver(w, j, ok) \/ MarkSent(w, j, ok)
  \/ MarkSentThrows(w, j)
  \/ RecordDeliveryError(w, j) \/ RecordErrorOfDeleted(w, j)

WorkerStep(w) == ReadPayloads(w) \/ \E j \in batch[w] : DeliveryStep(w, j)

Next ==
  \/ \E w \in Workers :
       \/ \E B \in SUBSET Deliveries : Claim(w, B)
       \/ WorkerStep(w)
       \/ AbandonBatch(w)
  \/ \E d \in Deliveries : ReapStuckDelivery(d) \/ PurgeDelivery(d)
  \/ \E r \in Rows :
       \/ EnqueueDeliveries(r) \/ OutboxRefailed(r)
       \/ PurgeSentOutbox(r) \/ PurgeFailedOutbox(r)

Spec == Init /\ [][Next]_vars

\* The loop of a worker goes on; a due delivery is claimed in the end (oldest
\* first), a stuck one is reaped.
Fairness ==
  /\ \A w \in Workers : WF_vars(WorkerStep(w))
  /\ \A d \in Deliveries :
       /\ SF_vars(\E w \in Workers, B \in SUBSET Deliveries : d \in B /\ Claim(w, B))
       /\ WF_vars(ReapStuckDelivery(d))

FairSpec == Spec /\ Fairness
----------------------------------------------------------------------------
TypeOK ==
  /\ status \in [Deliveries -> Open \cup {"none", "SENT", "FAILED", "deleted"}]
  /\ attemptCount \in [Deliveries -> Nat]
  /\ outbox \in [Rows -> {"PROCESSING", "SENT", "FAILED", "deleted"}]
  /\ failCount \in [Targets -> Nat]
  /\ deadLetters \subseteq Deliveries
  /\ stage \in [Workers -> {"idle", "claimed", "deliver"}]
  /\ batch \in [Workers -> SUBSET Job]
  /\ payloads \in [Workers -> SUBSET Rows]
  /\ received \subseteq Deliveries

\* A delivery that has left the queue, finished or already deleted by the
\* retention, reached its sink or has its dead-letter audit row: no skip, crash,
\* abandoned batch or late write of a slow worker drops one silently.
DeliveredOrReported ==
  \A d \in Deliveries :
    /\ status[d] \in {"SENT", "deleted"} => d \in received \cup deadLetters
    /\ status[d] = "FAILED" => d \in deadLetters


\* Every delivery is finished in the end, also those of a batch abandoned
\* because of another delivery.
EventuallySettled ==
  \A d \in Deliveries : status[d] \in Open ~> status[d] \notin Open
==============================================================================
