--------------------------- MODULE WebhookDelivery ---------------------------
(* The durable webhook queue of src/src/workers/audit-outbox-worker.ts.  The    *)
(* transaction that commits an audit log also inserts a webhook_deliveries     *)
(* work item; worker processes claim items, read the outbox payload, resolve   *)
(* the subscribers that are live now, POST to each of them, keep the health of *)
(* each webhook, and mark the item SENT, retry it or dead-letter it.  A reaper *)
(* takes back items that stay PROCESSING, the retention deletes finished items *)
(* and outbox rows.  One action per database transaction or HTTP exchange; the *)
(* items of a chunk, and the webhooks of an item, run concurrently.            *)
(*                                                                             *)
(* The directory sync notifies tenant webhooks past the queue                  *)
(* (dispatchTenantWebhook of src/src/lib/webhook-dispatcher.ts) and writes the *)
(* same health columns from a count it read before it sent.                    *)
(*                                                                             *)
(* Time is not a number: an item may exceed the processing timeout while its   *)
(* worker still runs (a paused process), and every retry or retention time may *)
(* have come.  The lease arithmetic that makes this rare is in WebhookLease.   *)
EXTENDS Integers, FiniteSets

CONSTANTS
  Items,         \* webhook_deliveries rows, one per outbox row
  Webhooks,      \* tenant_webhooks / team_webhooks rows
  Subscribers,   \* webhooks of the item's tenant or team whose events name its action
  Workers,
  BatchSize,     \* WEBHOOK_DELIVERY_BATCH_SIZE
  Concurrency,   \* WEBHOOK_DELIVERY_CONCURRENCY
  MaxAttempts,   \* max_attempts of an item
  Threshold,     \* WEBHOOK_AUTO_DISABLE_THRESHOLD
  Undecryptable, \* webhooks whose secret may fail to decrypt (pending migration)
  Removable,     \* webhooks an administrator may delete
  Refailable,    \* items whose outbox row a stale outbox worker may set FAILED
  Dispatches,    \* calls of dispatchTenantWebhook that may run at once
  DirectHooks    \* tenant webhooks whose events name DIRECTORY_SYNC_STALE_RESET

ASSUME QueueAssumption ==
  /\ IsFiniteSet(Items)
  /\ Subscribers \in [Items -> SUBSET Webhooks]
  /\ BatchSize \in Nat \ {0} /\ Concurrency \in Nat \ {0}
  /\ MaxAttempts \in Nat \ {0} /\ Threshold \in Nat \ {0}
  /\ DirectHooks \subseteq Webhooks

VARIABLES
  status,       \* webhook_deliveries.status; "none" before the INSERT, "deleted" after
  attemptCount, \* webhook_deliveries.attempt_count
  outbox,       \* status of the item's audit_outbox row, "deleted" once purged
  deadLetters,  \* items with an AUDIT_WEBHOOK_DELIVERY_DEAD_LETTER audit row
  webhook,      \* is_active and fail_count of each webhook; "deleted" has no row
  waiting,      \* per worker, claimed items of later chunks
  running,      \* per worker, the items of the chunk in flight
  notified,     \* <<item, webhook>> for which the receiver answered 2xx
  gaveUp,       \* <<item, webhook>> whose final failure is counted in fail_count
  failRun,      \* per webhook, failures committed since its last committed success,
                \* or since a direct dispatch wrote over a count that had moved
  direct        \* per direct dispatch, the webhooks it has not finished

queueVars == <<status, attemptCount, outbox, deadLetters>>
healthVars == <<webhook, gaveUp, failRun>>
workerVars == <<waiting, running>>
vars == <<status, attemptCount, outbox, deadLetters, webhook, waiting, running,
          notified, gaveUp, failRun, direct>>

Snapshot == [item : Items, attempts : Nat]
\* phase: the next transaction of processOneWebhookDelivery.  answered holds the
\* outcome of finished POSTs whose onSuccess/onFailure has not run.
Job == [item : Items, attempts : Nat,
        phase : {"read", "resolve", "deliver", "mark", "error"},
        todo : SUBSET Webhooks,
        answered : SUBSET (Webhooks \X BOOLEAN),
        recoverable : BOOLEAN]

\* The WebhookRecord of a direct dispatch.
Direct == [hook : Webhooks, failCount : Nat]

NewJob(s) == [item |-> s.item, attempts |-> s.attempts, phase |-> "read", todo |-> {},
              answered |-> {}, recoverable |-> FALSE]

Open == {"PENDING", "PROCESSING"}
----------------------------------------------------------------------------
Init ==
  /\ status = [i \in Items |-> "none"]
  /\ attemptCount = [i \in Items |-> 0]
  /\ outbox = [i \in Items |-> "PROCESSING"]
  /\ deadLetters = {}
  /\ webhook = [h \in Webhooks |-> [state |-> "active", failCount |-> 0]]
  /\ waiting = [w \in Workers |-> {}]
  /\ running = [w \in Workers |-> {}]
  /\ notified = {}
  /\ gaveUp = {}
  /\ failRun = [h \in Webhooks |-> 0]
  /\ direct = [d \in Dispatches |-> {}]

\* enqueueWebhookDeliveryInTx, inside the transaction that commits the audit log
\* and marks the outbox row SENT.
Enqueue(i) ==
  /\ status[i] = "none"
  /\ status' = [status EXCEPT ![i] = "PENDING"]
  /\ outbox' = [outbox EXCEPT ![i] = "SENT"]
  /\ UNCHANGED <<attemptCount, deadLetters, healthVars, workerVars, notified, direct>>

\* processWebhookDeliveryBatch: the claim.
Claim(w, B) ==
  /\ waiting[w] = {} /\ running[w] = {}
  /\ B # {} /\ Cardinality(B) <= BatchSize
  /\ \A i \in B : status[i] = "PENDING"
  /\ status' = [i \in Items |-> IF i \in B THEN "PROCESSING" ELSE status[i]]
  /\ waiting' = [waiting EXCEPT ![w] =
                   {[item |-> i, attempts |-> attemptCount[i]] : i \in B}]
  /\ UNCHANGED <<attemptCount, outbox, deadLetters, healthVars, running, notified, direct>>

\* The next chunk of the batch starts once every item of the last one is done.
StartChunk(w, C) ==
  /\ running[w] = {}
  /\ C # {} /\ C \subseteq waiting[w]
  /\ \/ Cardinality(C) = Concurrency
     \/ C = waiting[w] /\ Cardinality(C) < Concurrency
  /\ running' = [running EXCEPT ![w] = {NewJob(s) : s \in C}]
  /\ waiting' = [waiting EXCEPT ![w] = @ \ C]
  /\ UNCHANGED <<queueVars, healthVars, notified, direct>>

SetJob(w, j, k) == running' = [running EXCEPT ![w] = (@ \ {j}) \cup {k}]
EndJob(w, j) == running' = [running EXCEPT ![w] = @ \ {j}]

\* The payload is read; without an outbox row there is nothing left to deliver.
ReadOutbox(w, j) ==
  /\ j.phase = "read"
  /\ SetJob(w, j, [j EXCEPT !.phase =
                     IF outbox[j.item] = "deleted" THEN "mark" ELSE "resolve"])
  /\ UNCHANGED <<queueVars, healthVars, waiting, notified, direct>>

\* resolveWebhookSubscribers: the live subscribers.  Their fail counts are read too,
\* but the queue's callbacks ignore them (_newFailCount).
ResolveSubscribers(w, j) ==
  LET live == {h \in Subscribers[j.item] : webhook[h].state = "active"} IN
  /\ j.phase = "resolve"
  /\ SetJob(w, j, [j EXCEPT !.phase = "deliver", !.todo = live])
  /\ UNCHANGED <<queueVars, healthVars, waiting, notified, direct>>

\* deliverWithRetry: up to WEBHOOK_MAX_RETRIES POSTs, ending in a 2xx answer or not.
Post(w, j, h, ok) ==
  /\ j.phase = "deliver" /\ h \in j.todo
  /\ SetJob(w, j, [j EXCEPT !.todo = @ \ {h}, !.answered = @ \cup {<<h, ok>>}])
  /\ notified' = IF ok THEN notified \cup {<<j.item, h>>} ELSE notified
  /\ UNCHANGED <<queueVars, healthVars, waiting, direct>>

\* The webhook's secret cannot be decrypted: onError collects a recoverable error.
DecryptFails(w, j, h) ==
  /\ j.phase = "deliver" /\ h \in j.todo \cap Undecryptable
  /\ SetJob(w, j, [j EXCEPT !.todo = @ \ {h}, !.recoverable = TRUE])
  /\ UNCHANGED <<queueVars, healthVars, waiting, notified, direct>>

\* onWebhookDeliverySuccess: resets fail_count; the update of a webhook that is
\* gone throws, which is recoverable.  is_active is not touched.
OnSuccess(w, j, h) ==
  /\ <<h, TRUE>> \in j.answered
  /\ IF webhook[h].state = "deleted"
       THEN /\ SetJob(w, j, [j EXCEPT !.answered = @ \ {<<h, TRUE>>}, !.recoverable = TRUE])
            /\ UNCHANGED healthVars
       ELSE /\ SetJob(w, j, [j EXCEPT !.answered = @ \ {<<h, TRUE>>}])
            /\ webhook' = [webhook EXCEPT ![h].failCount = 0]
            /\ failRun' = [failRun EXCEPT ![h] = 0]
            /\ UNCHANGED gaveUp
  /\ UNCHANGED <<queueVars, waiting, notified, direct>>

\* Mutant: the auto-disable is decided by the count before the increment.
MutDisableLate(w, j, h) ==
  LET n == webhook[h].failCount + 1 IN
  /\ <<h, FALSE>> \in j.answered
  /\ SetJob(w, j, [j EXCEPT !.answered = @ \ {<<h, FALSE>>}])
  /\ gaveUp' = gaveUp \cup {<<j.item, h>>}
  /\ IF webhook[h].state = "deleted"
       THEN UNCHANGED <<webhook, failRun>>
       ELSE /\ failRun' = [failRun EXCEPT ![h] = @ + 1]
            /\ webhook' = [webhook EXCEPT ![h] =
                 [state |-> IF n - 1 >= Threshold THEN "inactive" ELSE @.state, failCount |-> n]]
  /\ UNCHANGED <<queueVars, waiting, notified, direct>>

\* onWebhookDeliveryFailure: fail_count + 1 and the auto-disable it can trigger in
\* one UPDATE, which finds no row when the webhook is gone.  The audit event that
\* follows is best effort and changes nothing else.
OnFailure(w, j, h) ==
  LET n == webhook[h].failCount + 1 IN
  /\ <<h, FALSE>> \in j.answered
  /\ SetJob(w, j, [j EXCEPT !.answered = @ \ {<<h, FALSE>>}])
  /\ gaveUp' = gaveUp \cup {<<j.item, h>>}
  /\ IF webhook[h].state = "deleted"
       THEN UNCHANGED <<webhook, failRun>>
       ELSE /\ failRun' = [failRun EXCEPT ![h] = @ + 1]
            /\ webhook' = [webhook EXCEPT ![h] =
                 [state |-> IF n >= Threshold THEN "inactive" ELSE @.state, failCount |-> n]]
  /\ UNCHANGED <<queueVars, waiting, notified, direct>>

\* The health transaction itself fails: a recoverable error.
CallbackThrows(w, j, a) ==
  /\ a \in j.answered
  /\ SetJob(w, j, [j EXCEPT !.answered = @ \ {a}, !.recoverable = TRUE])
  /\ UNCHANGED <<queueVars, healthVars, waiting, notified, direct>>

\* Every webhook of the pass is through.
PassDone(j) == j.phase = "deliver" /\ j.todo = {} /\ j.answered = {}

\* Mutant: a pass with recoverable errors counts as complete.
MutRecoverableIsSent(w, j) ==
  /\ PassDone(j)
  /\ SetJob(w, j, [j EXCEPT !.phase = "mark"])
  /\ UNCHANGED <<queueVars, healthVars, waiting, notified, direct>>

\* A recoverable error fails the item, otherwise it may be marked SENT.
EndPass(w, j) ==
  /\ PassDone(j)
  /\ SetJob(w, j, [j EXCEPT !.phase = IF j.recoverable THEN "error" ELSE "mark"])
  /\ UNCHANGED <<queueVars, healthVars, waiting, notified, direct>>

\* UPDATE webhook_deliveries SET status = x WHERE id = i.
SetStatus(i, x) ==
  status' = [status EXCEPT ![i] = IF @ = "deleted" THEN @ ELSE x]

\* Mutant: a finished item gets a status its enum does not have.
MutMarkCompleted(w, j, acked) ==
  /\ j.phase = "mark"
  /\ SetStatus(j.item, "COMPLETED")
  /\ IF acked THEN EndJob(w, j) ELSE SetJob(w, j, [j EXCEPT !.phase = "error"])
  /\ UNCHANGED <<attemptCount, outbox, deadLetters, healthVars, waiting, notified, direct>>

\* markWebhookDeliverySent; a commit the worker does not see throws.
MarkSent(w, j, acked) ==
  /\ j.phase = "mark"
  /\ SetStatus(j.item, "SENT")
  /\ IF acked THEN EndJob(w, j) ELSE SetJob(w, j, [j EXCEPT !.phase = "error"])
  /\ UNCHANGED <<attemptCount, outbox, deadLetters, healthVars, waiting, notified, direct>>

\* A transaction of the pass fails without effect.
Throws(w, j) ==
  /\ j.phase \in {"read", "resolve", "mark"}
  /\ SetJob(w, j, [j EXCEPT !.phase = "error"])
  /\ UNCHANGED <<queueVars, healthVars, waiting, notified, direct>>

\* recordWebhookDeliveryError: the attempts of the snapshot plus one, whatever
\* has happened to the item since it was claimed.
RecordError(w, j) ==
  LET n == j.attempts + 1
      dead == n >= MaxAttempts
  IN
  /\ j.phase = "error"
  /\ SetStatus(j.item, IF dead THEN "FAILED" ELSE "PENDING")
  /\ attemptCount' = [attemptCount EXCEPT ![j.item] =
                        IF status[j.item] = "deleted" THEN @ ELSE n]
  /\ deadLetters' = IF dead THEN deadLetters \cup {j.item} ELSE deadLetters
  /\ EndJob(w, j)
  /\ UNCHANGED <<outbox, healthVars, waiting, notified, direct>>

\* Its transaction fails and the failure is only logged.
RecordErrorFails(w, j) ==
  /\ j.phase = "error"
  /\ EndJob(w, j)
  /\ UNCHANGED <<queueVars, healthVars, waiting, notified, direct>>

\* The worker process dies; POSTs that were answered stay answered.
Crash(w) ==
  /\ waiting[w] \cup {[item |-> j.item, attempts |-> j.attempts] : j \in running[w]} # {}
  /\ waiting' = [waiting EXCEPT ![w] = {}]
  /\ running' = [running EXCEPT ![w] = {}]
  /\ UNCHANGED <<queueVars, healthVars, notified, direct>>

\* Mutant: a stuck item is retried without using up an attempt.
MutReapForFree(i) ==
  /\ status[i] = "PROCESSING"
  /\ status' = [status EXCEPT ![i] = "PENDING"]
  /\ UNCHANGED <<attemptCount, deadLetters, outbox, healthVars, workerVars, notified, direct>>

\* reapStuckWebhookDeliveries, one item at a time.
ReapStuckItem(i) ==
  LET n == attemptCount[i] + 1
      dead == n >= MaxAttempts
  IN
  /\ status[i] = "PROCESSING"
  /\ status' = [status EXCEPT ![i] = IF dead THEN "FAILED" ELSE "PENDING"]
  /\ attemptCount' = [attemptCount EXCEPT ![i] = n]
  /\ deadLetters' = IF dead THEN deadLetters \cup {i} ELSE deadLetters
  /\ UNCHANGED <<outbox, healthVars, workerVars, notified, direct>>

\* purgeRetention: finished items past their retention.
PurgeItem(i) ==
  /\ status[i] \in {"SENT", "FAILED"}
  /\ status' = [status EXCEPT ![i] = "deleted"]
  /\ UNCHANGED <<attemptCount, outbox, deadLetters, healthVars, workerVars, notified, direct>>

\* purgeSentAgedInTx: a SENT outbox row goes only when no item of it is open ...
PurgeSentOutbox(i) ==
  /\ outbox[i] = "SENT" /\ status[i] \notin Open
  /\ outbox' = [outbox EXCEPT ![i] = "deleted"]
  /\ UNCHANGED <<status, attemptCount, deadLetters, healthVars, workerVars, notified, direct>>

\* ... purgeFailedAgedInTx and the operator's purge do not look at the items.
PurgeFailedOutbox(i) ==
  /\ outbox[i] = "FAILED"
  /\ outbox' = [outbox EXCEPT ![i] = "deleted"]
  /\ UNCHANGED <<status, attemptCount, deadLetters, healthVars, workerVars, notified, direct>>

\* recordError of an outbox worker that did not see the row's commit (module
\* AuditOutbox): the delivered row becomes FAILED.
OutboxRefailed(i) ==
  /\ i \in Refailable
  /\ outbox[i] = "SENT"
  /\ outbox' = [outbox EXCEPT ![i] = "FAILED"]
  /\ UNCHANGED <<status, attemptCount, deadLetters, healthVars, workerVars, notified, direct>>

\* DELETE /api/.../webhooks/[webhookId].
DeleteWebhook(h) ==
  /\ h \in Removable
  /\ webhook[h].state # "deleted"
  /\ webhook' = [webhook EXCEPT ![h] = [state |-> "deleted", failCount |-> 0]]
  /\ failRun' = [failRun EXCEPT ![h] = 0]
  /\ UNCHANGED <<queueVars, workerVars, notified, gaveUp, direct>>

-----------------------------------------------------------------------------
(* dispatchTenantWebhook: fire and forget, without a work item.                *)

\* The active subscribers are read with their fail counts.
DirectRead(d) ==
  LET live == {h \in DirectHooks : webhook[h].state = "active"} IN
  /\ direct[d] = {} /\ live # {}
  /\ direct' = [direct EXCEPT ![d] =
                  {[hook |-> h, failCount |-> webhook[h].failCount] : h \in live}]
  /\ UNCHANGED <<queueVars, healthVars, workerVars, notified>>

\* The receiver answered: the count is reset.
DirectSuccess(d, x) ==
  /\ webhook[x.hook].state # "deleted"
  /\ webhook' = [webhook EXCEPT ![x.hook].failCount = 0]
  /\ failRun' = [failRun EXCEPT ![x.hook] = 0]
  /\ direct' = [direct EXCEPT ![d] = @ \ {x}]
  /\ UNCHANGED <<queueVars, workerVars, notified, gaveUp>>

\* It did not: the count that was read, plus one, is written as it is, and decides
\* about the auto-disable.  What the queue counted meanwhile is overwritten.
DirectFailure(d, x) ==
  LET n == x.failCount + 1
      moved == webhook[x.hook].failCount # x.failCount
  IN
  /\ webhook[x.hook].state # "deleted"
  /\ webhook' = [webhook EXCEPT ![x.hook] =
       [state |-> IF n >= Threshold THEN "inactive" ELSE @.state, failCount |-> n]]
  /\ failRun' = [failRun EXCEPT ![x.hook] = IF moved THEN 1 ELSE @ + 1]
  /\ direct' = [direct EXCEPT ![d] = @ \ {x}]
  /\ UNCHANGED <<queueVars, workerVars, notified, gaveUp>>

\* "log-and-drop": the secret cannot be decrypted, the update throws (always so for
\* a deleted webhook), or the process ends.
DirectDropped(d, x) ==
  /\ direct' = [direct EXCEPT ![d] = @ \ {x}]
  /\ UNCHANGED <<queueVars, healthVars, workerVars, notified>>
----------------------------------------------------------------------------
\* One step of processOneWebhookDelivery.
ItemStep(w, j) ==
  \/ ReadOutbox(w, j) \/ ResolveSubscribers(w, j) \/ Throws(w, j)
  \/ \E h \in Webhooks :
       \/ \E ok \in BOOLEAN : Post(w, j, h, ok)
       \/ DecryptFails(w, j, h) \/ OnSuccess(w, j, h) \/ OnFailure(w, j, h)
  \/ \E a \in j.answered : CallbackThrows(w, j, a)
  \/ EndPass(w, j)
  \/ \E acked \in BOOLEAN : MarkSent(w, j, acked)
  \/ RecordError(w, j) \/ RecordErrorFails(w, j)

Next ==
  \/ \E w \in Workers :
       \/ \E B \in SUBSET Items : Claim(w, B)
       \/ \E C \in SUBSET waiting[w] : StartChunk(w, C)
       \/ \E j \in running[w] : ItemStep(w, j)
       \/ Crash(w)
  \/ \E i \in Items :
       \/ Enqueue(i) \/ ReapStuckItem(i) \/ PurgeItem(i)
       \/ PurgeSentOutbox(i) \/ PurgeFailedOutbox(i) \/ OutboxRefailed(i)
  \/ \E h \in Webhooks : DeleteWebhook(h)
  \/ \E d \in Dispatches :
       \/ DirectRead(d)
       \/ \E x \in direct[d] : DirectSuccess(d, x) \/ DirectFailure(d, x) \/ DirectDropped(d, x)

Spec == Init /\ [][Next]_vars

\* The worker loop keeps going: a chunk starts, the items in flight advance, a
\* PENDING item that stays due is claimed, a stuck item is reaped.
Fairness ==
  /\ \A w \in Workers :
       /\ WF_vars(\E C \in SUBSET waiting[w] : StartChunk(w, C))
       /\ WF_vars(\E j \in running[w] : ItemStep(w, j))
  /\ \A i \in Items :
       /\ SF_vars(\E w \in Workers, B \in SUBSET Items : i \in B /\ Claim(w, B))
       /\ WF_vars(ReapStuckItem(i))

FairSpec == Spec /\ Fairness
----------------------------------------------------------------------------
TypeOK ==
  /\ status \in [Items -> Open \cup {"none", "SENT", "FAILED", "deleted"}]
  /\ attemptCount \in [Items -> Nat]
  /\ outbox \in [Items -> {"PROCESSING", "SENT", "FAILED", "deleted"}]
  /\ deadLetters \subseteq Items
  /\ webhook \in [Webhooks -> [state : {"active", "inactive", "deleted"}, failCount : Nat]]
  /\ waiting \in [Workers -> SUBSET Snapshot]
  /\ running \in [Workers -> SUBSET Job]
  /\ notified \subseteq Items \X Webhooks
  /\ gaveUp \subseteq Items \X Webhooks
  /\ failRun \in [Webhooks -> Nat]
  /\ direct \in [Dispatches -> SUBSET Direct]

\* A recoverable error "must NOT let the work item be marked SENT - that would
\* permanently lose the webhook": every subscriber that is still live was
\* answered or had its failure counted before the item is SENT, as long as the
\* payload was there to deliver, and an item that is FAILED instead has its
\* AUDIT_WEBHOOK_DELIVERY_DEAD_LETTER record, however the writes of workers and
\* reaper overtake each other.
NoWebhookLost ==
  \A i \in Items :
    /\ status[i] = "SENT" /\ outbox[i] # "deleted" =>
         \A h \in Subscribers[i] :
           webhook[h].state = "active" => <<i, h>> \in notified \cup gaveUp
    /\ status[i] = "FAILED" => i \in deadLetters

\* Concurrent failures of one webhook are all counted, by the queue and by direct
\* dispatches: once Threshold failures were committed with no success between them
\* the webhook is disabled.  The exception is a direct dispatch that fails after the
\* count it read has moved: it takes back what was counted since (moved in
\* DirectFailure), and the run of failures starts anew with its own.
BrokenWebhookDisabled ==
  \A h \in Webhooks : failRun[h] >= Threshold => webhook[h].state # "active"

\* Every work item is finished in the end: neither a crash, nor a lost commit,
\* nor two workers overwriting each other's attempt counts keep it in the queue.
EventuallySettled ==
  \A i \in Items : status[i] \in Open ~> status[i] \notin Open

\* NOT an invariant: the comment in processOneWebhookDelivery says "the
\* outbox-purge guard only allows this once no PENDING/PROCESSING webhook delivery
\* references the row", and TLC finds rows purged earlier (README, section 4).
PurgedOnlyWhenSettled ==
  \A i \in Items : outbox[i] = "deleted" => status[i] \notin Open
==============================================================================
