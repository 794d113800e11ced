----------------------------- MODULE AuditOutbox -----------------------------
(* The audit outbox pipeline of src/src/workers/audit-outbox-worker.ts: rows   *)
(* enqueued with the business write (lib/audit/audit-outbox.ts) are claimed by *)
(* worker processes, written to audit_logs (with or without the per-tenant     *)
(* hash chain), retried, dead-lettered, reaped when a worker is too slow, and  *)
(* purged.  One action per database transaction: a transaction is atomic in    *)
(* PostgreSQL, everything between two transactions of a worker interleaves.    *)
(*                                                                             *)
(* Time is not a number here.  "processing_started_at is older than the        *)
(* timeout", "next_retry_at has come" and "older than the retention" may hold  *)
(* at any moment, because a worker process may be arbitrarily slow: batches of *)
(* hundreds of rows, five seconds of lock wait each, against a timeout of five *)
(* minutes.                                                                    *)
EXTENDS Integers, Sequences, FiniteSets

CONSTANTS
  Tenants,
  Rows,          \* identities (uuid) of outbox rows
  NoRow,         \* stands where no row is: the genesis hash of a chain
  TenantOf,      \* tenant_id of each row
  Malformed,     \* rows whose payload parsePayload or the userId guards reject
  FanoutRows,    \* rows for which the winning transaction enqueues work items
  Workers,       \* worker processes
  BatchSize,     \* OUTBOX_BATCH_SIZE
  MaxAttempts,   \* max_attempts of a row
  Switchable,    \* tenants whose audit_chain_enabled is changed while workers run
  Pausable,      \* tenants whose anchor the publisher may pause
  AttemptBound   \* bound of the model: rows that reach it are not claimed again

ASSUME RowAssumption == NoRow \notin Rows /\ IsFiniteSet(Rows)
ASSUME FanoutAssumption == FanoutRows \subseteq Rows
ASSUME TenantAssumption == TenantOf \in [Rows -> Tenants]
ASSUME BoundAssumption ==
  /\ BatchSize \in Nat \ {0}
  /\ MaxAttempts \in Nat \ {0}
  /\ AttemptBound \in Nat

VARIABLES
  status,        \* audit_outbox.status; "none" before the INSERT, then deleted by
                 \* the retention ("purged") or by an operator ("erased")
  attemptCount,  \* audit_outbox.attempt_count
  auditLogs,     \* audit_logs rows written from the outbox, in commit order
  anchors,       \* audit_chain_anchors: chain_seq and prev_hash of each tenant
  directLogs,    \* SYSTEM audit_logs rows about one outbox row (dead letter, reaped)
  purgeReported, \* per tenant, the sum of purgedCount over its RETENTION_PURGED rows
  fanout,        \* work items of a row: "none", "open" (some PENDING/PROCESSING), "closed"
  held,          \* per worker, the claimed snapshots it still has to process
  chainCache,    \* per worker, chainEnabledCache of the current batch
  chainEnabled,  \* tenants.audit_chain_enabled
  paused         \* audit_chain_anchors.publish_paused_until lies in the future

dbVars == <<status, attemptCount, auditLogs, anchors, directLogs, purgeReported, fanout>>
workerVars == <<held, chainCache>>
envVars == <<chainEnabled, paused>>
vars == <<status, attemptCount, auditLogs, anchors, directLogs, purgeReported,
          fanout, held, chainCache, chainEnabled, paused>>

Status == {"none", "PENDING", "PROCESSING", "SENT", "FAILED", "purged", "erased"}
\* A claimed row as RETURNING gave it; failed once its delivery has thrown.
Snapshot == [row : Rows, attempts : Nat, failed : BOOLEAN]

\* A collision-free event_hash: sha256 over the previous hash, the fresh random
\* log id, created_at, chain_seq and the payload.
Hash == [row : Rows \cup {NoRow}, seq : Nat]
Genesis == [row |-> NoRow, seq |-> 0]
EventHash(r, n) == [row |-> r, seq |-> n]

\* chainSeq = 0 stands for the NULL chain columns of an unchained row.
AuditLog == [outbox : Rows, chainSeq : Nat, prevHash : Hash, eventHash : Hash]
UnchainedLog(r) ==
  [outbox |-> r, chainSeq |-> 0, prevHash |-> Genesis, eventHash |-> Genesis]
ChainedLog(r, anchor) ==
  [outbox |-> r, chainSeq |-> anchor.seq + 1, prevHash |-> anchor.prevHash,
   eventHash |-> EventHash(r, anchor.seq + 1)]

\* A row of audit_outbox exists (an UPDATE ... WHERE id = $1 finds it).
Exists(r) == status[r] \notin {"none", "purged", "erased"}

\* Mutant: the delivery trusts the row's status instead of the unique index.
MutLoggedByStatus(r) == status[r] = "SENT"

\* The unique index on audit_logs.outbox_id already holds r.
Logged(r) == \E i \in DOMAIN auditLogs : auditLogs[i].outbox = r

DeadLettered(r) == [action |-> "DEAD_LETTER", row |-> r] \in directLogs

----------------------------------------------------------------------------
Init ==
  /\ status = [r \in Rows |-> "none"]
  /\ attemptCount = [r \in Rows |-> 0]
  /\ auditLogs = <<>>
  /\ anchors = [t \in Tenants |-> [seq |-> 0, prevHash |-> Genesis]]
  /\ directLogs = {}
  /\ purgeReported = [t \in Tenants |-> 0]
  /\ fanout = [r \in Rows |-> "none"]
  /\ held = [w \in Workers |-> {}]
  /\ chainCache = [w \in Workers |-> [t \in Tenants |-> "unknown"]]
  /\ chainEnabled \in [Tenants -> BOOLEAN]
  /\ paused = [t \in Tenants |-> FALSE]

\* enqueueAuditInTx: the INSERT commits with the business write.
EnqueueAudit(r) ==
  /\ status[r] = "none"
  /\ status' = [status EXCEPT ![r] = "PENDING"]
  /\ UNCHANGED <<attemptCount, auditLogs, anchors, directLogs, purgeReported,
                 fanout, workerVars, envVars>>

\* claimBatch: up to BatchSize due PENDING rows become PROCESSING and the worker
\* keeps their snapshots.  Which rows are due, and which are skipped because
\* another transaction has them locked, is open.
ClaimBatch(w, B) ==
  /\ held[w] = {}
  /\ B # {} /\ Cardinality(B) <= BatchSize
  /\ \A r \in B : status[r] = "PENDING" /\ attemptCount[r] < AttemptBound
  /\ status' = [r \in Rows |-> IF r \in B THEN "PROCESSING" ELSE status[r]]
  /\ held' = [held EXCEPT ![w] = 
       {[row |-> r, attempts |-> attemptCount[r], failed |-> FALSE] : r \in B}]
  /\ chainCache' = [chainCache EXCEPT ![w] = [t \in Tenants |-> "unknown"]]
  /\ UNCHANGED <<attemptCount, auditLogs, anchors, directLogs, purgeReported,
                 fanout, envVars>>

\* getChainEnabled: the tenant's flag is read once per batch and reused.
CheckChainEnabled(w, t) ==
  /\ chainCache[w][t] = "unknown"
  /\ \E s \in held[w] : TenantOf[s.row] = t /\ s.row \notin Malformed /\ ~s.failed
  /\ chainCache' = [chainCache EXCEPT ![w][t] = IF chainEnabled[t] THEN "on" ELSE "off"]
  /\ UNCHANGED <<dbVars, held, envVars>>

\* After its transaction the row leaves the worker's batch, unless the commit was
\* not acknowledged: then the delivery throws and recordError comes next.
Finish(w, s, acked) ==
  held' = [held EXCEPT ![w] =
             (@ \ {s}) \cup (IF acked THEN {} ELSE {[s EXCEPT !.failed = TRUE]})]

\* UPDATE audit_outbox SET status = x WHERE id = r: no condition on the status.
SetStatus(r, x) == status' = [status EXCEPT ![r] = IF Exists(r) THEN x ELSE @]

\* enqueueWebhookDeliveryInTx and enqueueAuditDeliveriesInTx.
EnqueueFanout(r) ==
  fanout' = [fanout EXCEPT ![r] = IF r \in FanoutRows THEN "open" ELSE @]

\* deliverRow: INSERT ... ON CONFLICT (outbox_id) DO NOTHING; only the winner
\* enqueues work items; the row is SENT either way.
DeliverRow(w, s, acked) ==
  /\ s.row \notin Malformed /\ ~s.failed
  /\ chainCache[w][TenantOf[s.row]] = "off"
  /\ IF Logged(s.row)
       THEN UNCHANGED <<auditLogs, fanout>>
       ELSE /\ auditLogs' = Append(auditLogs, UnchainedLog(s.row))
            /\ EnqueueFanout(s.row)
  /\ SetStatus(s.row, "SENT")
  /\ Finish(w, s, acked)
  /\ UNCHANGED <<attemptCount, anchors, directLogs, purgeReported, chainCache, envVars>>

\* Mutant: the anchor advances even when the INSERT met a conflict.
MutAdvanceAlways(w, s, acked) ==
  LET t == TenantOf[s.row]
      log == ChainedLog(s.row, anchors[t])
  IN
  /\ s.row \notin Malformed /\ ~s.failed
  /\ chainCache[w][t] = "on"
  /\ ~paused[t]
  /\ anchors' = [anchors EXCEPT ![t] = [seq |-> log.chainSeq, prevHash |-> log.eventHash]]
  /\ IF Logged(s.row)
       THEN UNCHANGED <<auditLogs, fanout>>
       ELSE auditLogs' = Append(auditLogs, log) /\ EnqueueFanout(s.row)
  /\ SetStatus(s.row, "SENT")
  /\ Finish(w, s, acked)
  /\ UNCHANGED <<attemptCount, directLogs, purgeReported, chainCache, envVars>>

\* deliverRowWithChain: the anchor row is locked for the whole transaction; the
\* log takes the next position of the chain and only the INSERT's winner
\* advances the anchor.
DeliverRowWithChain(w, s, acked) ==
  LET t == TenantOf[s.row]
      log == ChainedLog(s.row, anchors[t])
  IN
  /\ s.row \notin Malformed /\ ~s.failed
  /\ chainCache[w][t] = "on"
  /\ ~paused[t]
  /\ IF Logged(s.row)
       THEN UNCHANGED <<auditLogs, anchors, fanout>>
       ELSE /\ auditLogs' = Append(auditLogs, log)
            /\ anchors' = [anchors EXCEPT ![t] =
                             [seq |-> log.chainSeq, prevHash |-> log.eventHash]]
            /\ EnqueueFanout(s.row)
  /\ SetStatus(s.row, "SENT")
  /\ Finish(w, s, acked)
  /\ UNCHANGED <<attemptCount, directLogs, purgeReported, chainCache, envVars>>

\* deliverRowWithChain while the publisher's pause is active: the row goes back
\* to PENDING, whatever its status has become since it was claimed.
SkipPaused(w, s, acked) ==
  /\ s.row \notin Malformed /\ ~s.failed
  /\ chainCache[w][TenantOf[s.row]] = "on"
  /\ paused[TenantOf[s.row]]
  /\ SetStatus(s.row, "PENDING")
  /\ Finish(w, s, acked)
  /\ UNCHANGED <<attemptCount, auditLogs, anchors, directLogs, purgeReported,
                 fanout, chainCache, envVars>>

\* Mutant: the dead-letter record is not written with the FAILED transition.
MutSilentFailure(w, s) ==
  LET n == s.attempts + 1 IN
  /\ SetStatus(s.row, IF n >= MaxAttempts THEN "FAILED" ELSE "PENDING")
  /\ attemptCount' = [attemptCount EXCEPT ![s.row] = IF Exists(s.row) THEN n ELSE @]
  /\ Finish(w, s, TRUE)
  /\ UNCHANGED <<auditLogs, anchors, directLogs, purgeReported, fanout, chainCache, envVars>>

\* recordError, after a malformed payload or any exception: the attempt count of
\* the SNAPSHOT plus one is written, FAILED with its dead-letter record when it
\* reaches max_attempts, PENDING otherwise.
RecordError(w, s) ==
  LET n == s.attempts + 1 IN
  /\ SetStatus(s.row, IF n >= MaxAttempts THEN "FAILED" ELSE "PENDING")
  /\ attemptCount' = [attemptCount EXCEPT ![s.row] = IF Exists(s.row) THEN n ELSE @]
  /\ directLogs' = IF n >= MaxAttempts
                     THEN directLogs \cup {[action |-> "DEAD_LETTER", row |-> s.row]}
                     ELSE directLogs
  /\ Finish(w, s, TRUE)
  /\ UNCHANGED <<auditLogs, anchors, purgeReported, fanout, chainCache, envVars>>

\* recordError's own transaction fails and the failure is swallowed: the row is
\* left PROCESSING for the reaper.
RecordErrorFails(w, s) ==
  /\ Finish(w, s, TRUE)
  /\ UNCHANGED <<dbVars, chainCache, envVars>>

\* The worker process dies and is restarted with an empty batch.
Crash(w) ==
  /\ held[w] # {}
  /\ held' = [held EXCEPT ![w] = {}]
  /\ chainCache' = [chainCache EXCEPT ![w] = [t \in Tenants |-> "unknown"]]
  /\ UNCHANGED <<dbVars, envVars>>

\* Mutant: a reaped row does not use up an attempt.
MutReapWithoutCounting(r) ==
  /\ status[r] = "PROCESSING"
  /\ status' = [status EXCEPT ![r] = "PENDING"]
  /\ directLogs' = directLogs \cup {[action |-> "REAPED", row |-> r]}
  /\ UNCHANGED <<attemptCount, auditLogs, anchors, purgeReported, fanout, workerVars, envVars>>

\* reapStuckRows, one row at a time (the rows of one batch do not affect each
\* other): a PROCESSING row past its timeout is retried or dead-lettered.
ReapStuckRow(r) ==
  LET n == attemptCount[r] + 1
      dead == n >= MaxAttempts
  IN
  /\ status[r] = "PROCESSING"
  /\ status' = [status EXCEPT ![r] = IF dead THEN "FAILED" ELSE "PENDING"]
  /\ attemptCount' = [attemptCount EXCEPT ![r] = n]
  /\ directLogs' = directLogs \cup
       {[action |-> IF dead THEN "DEAD_LETTER" ELSE "REAPED", row |-> r]}
  /\ UNCHANGED <<auditLogs, anchors, purgeReported, fanout, workerVars, envVars>>

\* Mutant: the count is not grouped by tenant, each one is told the whole batch.
MutPurgeUngrouped(B) ==
  /\ status' = [r \in Rows |-> IF r \in B THEN "purged" ELSE status[r]]
  /\ purgeReported' = [t \in Tenants |-> purgeReported[t] + Cardinality(B)]

\* The DELETE of the rows B and one RETENTION_PURGED audit row per tenant with
\* that tenant's count, in one transaction.
PurgeRows(B) ==
  /\ status' = [r \in Rows |-> IF r \in B THEN "purged" ELSE status[r]]
  /\ purgeReported' = [t \in Tenants |->
       purgeReported[t] + Cardinality({r \in B : TenantOf[r] = t})]

\* purgeSentAgedInTx: SENT rows past the retention with no open work item.
PurgeSentAged(B) ==
  /\ B # {}
  /\ \A r \in B : status[r] = "SENT" /\ fanout[r] # "open"
  /\ PurgeRows(B)
  /\ UNCHANGED <<attemptCount, auditLogs, anchors, directLogs, fanout,
                 workerVars, envVars>>

\* purgeFailedAgedInTx: FAILED rows past their retention, work items or not.
PurgeFailedAged(B) ==
  /\ B # {}
  /\ \A r \in B : status[r] = "FAILED"
  /\ PurgeRows(B)
  /\ UNCHANGED <<attemptCount, auditLogs, anchors, directLogs, fanout,
                 workerVars, envVars>>

\* Mutant: the operator's DELETE lost its condition on the status.
MutOperatorPurge(t, B) ==
  /\ B # {}
  /\ \A r \in B : Exists(r) /\ TenantOf[r] = t
  /\ status' = [r \in Rows |-> IF r \in B THEN "erased" ELSE status[r]]
  /\ UNCHANGED <<attemptCount, auditLogs, anchors, directLogs, purgeReported,
                 fanout, workerVars, envVars>>

\* /api/maintenance/audit-outbox-purge-failed: an operator deletes FAILED rows
\* of the tenant of the operator token.  The route's own audit event is a new
\* outbox row (EnqueueAudit); it is not a RETENTION_PURGED row.
OperatorPurgeFailed(t, B) ==
  /\ B # {}
  /\ \A r \in B : status[r] = "FAILED" /\ TenantOf[r] = t
  /\ status' = [r \in Rows |-> IF r \in B THEN "erased" ELSE status[r]]
  /\ UNCHANGED <<attemptCount, auditLogs, anchors, directLogs, purgeReported,
                 fanout, workerVars, envVars>>

\* The delivery loops bring the last open work item of a row to SENT or FAILED
\* (AuditDelivery and WebhookDelivery model those loops) ...
CloseFanout(r) ==
  /\ fanout[r] = "open"
  /\ fanout' = [fanout EXCEPT ![r] = "closed"]
  /\ UNCHANGED <<status, attemptCount, auditLogs, anchors, directLogs, purgeReported,
                 workerVars, envVars>>

\* ... and a late delivery worker that records an error puts a finished item
\* back to PENDING.
ReopenFanout(r) ==
  /\ fanout[r] = "closed"
  /\ fanout' = [fanout EXCEPT ![r] = "open"]
  /\ UNCHANGED <<status, attemptCount, auditLogs, anchors, directLogs, purgeReported,
                 workerVars, envVars>>

\* An administrator changes tenants.audit_chain_enabled.
SetChainEnabled(t) ==
  /\ t \in Switchable
  /\ chainEnabled' = [chainEnabled EXCEPT ![t] = ~@]
  /\ UNCHANGED <<dbVars, workerVars, paused>>

\* The anchor publisher sets, clears or lets expire publish_paused_until.
SetPaused(t) ==
  /\ t \in Pausable
  /\ paused' = [paused EXCEPT ![t] = ~@]
  /\ UNCHANGED <<dbVars, workerVars, chainEnabled>>

----------------------------------------------------------------------------
\* The body of processBatch's loop for one claimed row.
ProcessRow(w, s) ==
  \/ \E acked \in BOOLEAN :
       \/ DeliverRow(w, s, acked)
       \/ DeliverRowWithChain(w, s, acked)
       \/ SkipPaused(w, s, acked)
  \/ RecordError(w, s)
  \/ RecordErrorFails(w, s)

WorkerStep(w) ==
  \/ \E B \in SUBSET Rows : ClaimBatch(w, B)
  \/ \E t \in Tenants : CheckChainEnabled(w, t)
  \/ \E s \in held[w] : ProcessRow(w, s)
  \/ Crash(w)

Maintenance ==
  \/ \E r \in Rows : ReapStuckRow(r)
  \/ \E B \in SUBSET Rows : PurgeSentAged(B) \/ PurgeFailedAged(B)
  \/ \E t \in Tenants, B \in SUBSET Rows : OperatorPurgeFailed(t, B)

Environment ==
  \/ \E r \in Rows : EnqueueAudit(r) \/ CloseFanout(r) \/ ReopenFanout(r)
  \/ \E t \in Tenants : SetChainEnabled(t) \/ SetPaused(t)

Next ==
  \/ \E w \in Workers : WorkerStep(w)
  \/ Maintenance
  \/ Environment

Spec == Init /\ [][Next]_vars

\* The worker loop never stops: a claimed row is processed, a row that stays due
\* is eventually in a batch (the oldest rows come first), a stuck row is reaped.
Fairness ==
  /\ \A w \in Workers : WF_vars(\E s \in held[w] : ProcessRow(w, s))
  /\ \A r \in Rows :
       /\ SF_vars(\E w \in Workers, B \in SUBSET Rows : r \in B /\ ClaimBatch(w, B))
       /\ WF_vars(ReapStuckRow(r))

FairSpec == Spec /\ Fairness
----------------------------------------------------------------------------
TypeOK ==
  /\ status \in [Rows -> Status]
  /\ attemptCount \in [Rows -> Nat]
  /\ auditLogs \in Seq(AuditLog)
  /\ anchors \in [Tenants -> [seq : Nat, prevHash : Hash]]
  /\ directLogs \subseteq [action : {"DEAD_LETTER", "REAPED"}, row : Rows]
  /\ purgeReported \in [Tenants -> Nat]
  /\ fanout \in [Rows -> {"none", "open", "closed"}]
  /\ held \in [Workers -> SUBSET Snapshot]
  /\ chainCache \in [Workers -> [Tenants -> {"unknown", "on", "off"}]]
  /\ chainEnabled \in [Tenants -> BOOLEAN]
  /\ paused \in [Tenants -> BOOLEAN]

\* However often a row is reaped, re-claimed, retried or delivered by a worker
\* that lost it long ago, audit_logs holds at most one row for it.
LoggedAtMostOnce ==
  \A i, j \in DOMAIN auditLogs : auditLogs[i].outbox = auditLogs[j].outbox => i = j

\* h is the hash at position n of tenant t's chain.
HashAt(t, n, h) ==
  \/ n = 0 /\ h = Genesis
  \/ \E i \in DOMAIN auditLogs :
       /\ TenantOf[auditLogs[i].outbox] = t
       /\ auditLogs[i].chainSeq = n
       /\ n > 0
       /\ auditLogs[i].eventHash = h

\* Every chained log links to the hash of the position before it, in the chain
\* of its own tenant.
ChainLinked ==
  \A i \in DOMAIN auditLogs :
    auditLogs[i].chainSeq > 0 =>
      HashAt(TenantOf[auditLogs[i].outbox], auditLogs[i].chainSeq - 1, auditLogs[i].prevHash)

\* No two logs of a tenant share a position of the chain.
ChainUnforked ==
  \A i, j \in DOMAIN auditLogs :
    /\ TenantOf[auditLogs[i].outbox] = TenantOf[auditLogs[j].outbox]
    /\ auditLogs[i].chainSeq = auditLogs[j].chainSeq
    /\ auditLogs[i].chainSeq > 0
    => i = j

\* The anchor is the head of the chain: every position up to its sequence number
\* is taken, none beyond it, and it carries the hash of the last one.
AnchorIsHead ==
  /\ \A t \in Tenants :
       /\ HashAt(t, anchors[t].seq, anchors[t].prevHash)
       /\ \A n \in 1..anchors[t].seq : \E i \in DOMAIN auditLogs :
            TenantOf[auditLogs[i].outbox] = t /\ auditLogs[i].chainSeq = n
  /\ \A i \in DOMAIN auditLogs :
       auditLogs[i].chainSeq <= anchors[TenantOf[auditLogs[i].outbox]].seq

\* The tamper-evident chain of every tenant is intact: contiguous from the
\* genesis to the anchor, unforked and linked, whichever workers race, retry or
\* skip, and whenever chaining is switched on, off or paused.
ChainIntact == ChainLinked /\ ChainUnforked /\ AnchorIsHead

\* A SENT row has its audit log: no stale status update marks a row delivered
\* that was not.
SentIsLogged == \A r \in Rows : status[r] = "SENT" => Logged(r)

\* "A dead-lettered row can never exist without its AUDIT_OUTBOX_DEAD_LETTER
\* record", whether recordError or the reaper dead-lettered it.
FailedIsDeadLettered == \A r \in Rows : status[r] = "FAILED" => DeadLettered(r)

\* A row is deleted, by the retention or by an operator, only when its event is
\* in audit_logs or its loss is on record.
DeletedIsAccountedFor ==
  \A r \in Rows : status[r] \in {"purged", "erased"} => Logged(r) \/ DeadLettered(r)

\* Work items for webhooks and delivery targets exist exactly for the rows whose
\* audit log was committed: neither a crash nor a lost race loses or invents one.
FanoutWithLog ==
  /\ \A r \in Rows : fanout[r] # "none" => Logged(r)
  /\ \A r \in FanoutRows : Logged(r) => fanout[r] # "none"

\* Every row is accounted for by what is in audit_logs, whichever late status
\* update, failed transaction, crash or purge it went through.
Accounted == SentIsLogged /\ FailedIsDeadLettered /\ DeletedIsAccountedFor /\ FanoutWithLog

\* The RETENTION_PURGED rows of a tenant report exactly that tenant's deleted rows.
PurgeAttribution ==
  \A t \in Tenants :
    purgeReported[t] = Cardinality({r \in Rows : TenantOf[r] = t /\ status[r] = "purged"})

\* Once the publisher's pauses are over, every enqueued row ends in audit_logs or
\* with a dead letter: no crash, slow worker or failed transaction leaves it in
\* the queue for ever.
EventuallySettled ==
  <>[](\A t \in Tenants : ~paused[t]) =>
    \A r \in Rows : status[r] # "none" ~> Logged(r) \/ DeadLettered(r)

\* The pipeline implements the ledger it promises.
Ledger == INSTANCE AuditLedger WITH
  Events <- Rows,
  requested <- {r \in Rows : status[r] # "none"},
  ledger <- [i \in DOMAIN auditLogs |-> auditLogs[i].outbox],
  givenUp <- {r \in Rows : DeadLettered(r)},
  forgotten <- {r \in Rows : status[r] \in {"purged", "erased"}}

\* No step of any worker, reaper or purge takes the event out of audit_logs,
\* writes it twice, or deletes a queued row that is neither logged nor dead-lettered.
ImplementsLedger == Ledger!Spec
==============================================================================
