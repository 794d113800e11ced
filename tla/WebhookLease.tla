----------------------------- MODULE WebhookLease -----------------------------
(* How long one worker holds the claim of a webhook_deliveries batch:           *)
(* processWebhookDeliveryBatch and deliverToWebhookRecords against the lease   *)
(* arithmetic of webhook-delivery-lease.server.ts.  The reaper takes an item   *)
(* back OUTBOX_PROCESSING_TIMEOUT_MS after its claim, so a batch must be over  *)
(* by then.                                                                    *)
(*                                                                             *)
(* Time is counted in ticks since the claim.  The items of a chunk run         *)
(* concurrently, and so do the webhooks of a round: only the slowest webhook   *)
(* of the slowest item is followed, which decides when the next round or chunk *)
(* starts.  Database time counts as zero, as in the code's own estimate ("DB   *)
(* callback time is negligible ... and covered by the /2 safety margin").      *)
EXTENDS Integers

CONSTANTS
  Timeouts,           \* values of OUTBOX_PROCESSING_TIMEOUT_MS an operator may configure
  Concurrency,        \* WEBHOOK_DELIVERY_CONCURRENCY, items per chunk
  Subscribers,        \* webhooks of an item, at most MAX_WEBHOOKS
  WebhookConcurrency, \* WEBHOOK_CONCURRENCY, webhooks per round
  Retries,            \* WEBHOOK_MAX_RETRIES
  DnsTimeout,         \* DNS_RESOLVE_TIMEOUT_MS
  FetchTimeout,       \* WEBHOOK_FETCH_TIMEOUT_MS
  Backoff             \* Backoff[n]: the sum of the first n WEBHOOK_RETRY_DELAYS_MS

ASSUME LeaseAssumption ==
  /\ Timeouts \subseteq Nat
  /\ Concurrency \in Nat \ {0} /\ Subscribers \in Nat \ {0}
  /\ WebhookConcurrency \in Nat \ {0} /\ Retries \in Nat \ {0}
  /\ DnsTimeout \in Nat \ {0} /\ FetchTimeout \in Nat
  /\ Backoff \in [0 .. Retries -> Nat] /\ Backoff[0] = 0
  /\ \A m, n \in 0 .. Retries : m <= n => Backoff[m] <= Backoff[n]

VARIABLES
  timeout, \* OUTBOX_PROCESSING_TIMEOUT_MS of this deployment
  phase,   \* what the worker is doing
  now,     \* time since the claim
  due,     \* when the current wait ends at the latest
  claimed, \* size of the claimed batch
  chunk,   \* chunks of the batch that are finished
  round,   \* round of webhooks in this chunk, from 1
  attempt  \* attempt of deliverWithRetry, from 1

leaseVars == <<timeout, phase, now, due, claimed, chunk, round, attempt>>

\* WEBHOOK_WORST_CASE_PER_ITEM_MS: all attempts time out, and all the backoffs.
WorstCasePerItem == Retries * (DnsTimeout + FetchTimeout) + Backoff[Retries - 1]

\* Math.floor(OUTBOX_PROCESSING_TIMEOUT_MS / 2 / WEBHOOK_WORST_CASE_PER_ITEM_MS)
ChunksPerLease(t) == t \div (2 * WorstCasePerItem)

\* Mutant: the chunks are rounded up.
MutRoundUp(t) == Concurrency * (ChunksPerLease(t) + 1)

\* WEBHOOK_DELIVERY_BATCH_SIZE
WebhookBatchSize(t) ==
  IF Concurrency * ChunksPerLease(t) > 1 THEN Concurrency * ChunksPerLease(t) ELSE 1

\* validateWebhookDeliveryLease finds nothing wrong.
LeaseOk(t) == t >= 2 * WorstCasePerItem

\* Rounds of at most WebhookConcurrency webhooks.
Rounds == (Subscribers + WebhookConcurrency - 1) \div WebhookConcurrency

Sending == {"dns", "fetch", "backoff"}
----------------------------------------------------------------------------
LeaseInit ==
  /\ timeout \in Timeouts
  /\ phase = "stopped"
  /\ now = 0 /\ due = 0 /\ claimed = 0 /\ chunk = 0 /\ round = 1 /\ attempt = 1

\* start refuses to run under a timeout that cannot hold one item.
Start ==
  /\ phase = "stopped"
  /\ LeaseOk(timeout)
  /\ phase' = "idle"
  /\ UNCHANGED <<timeout, now, due, claimed, chunk, round, attempt>>

\* An attempt starts with resolveAndValidateIps.
BeginAttempt(n, t) ==
  /\ attempt' = n
  /\ phase' = "dns"
  /\ due' = t + DnsTimeout

\* processWebhookDeliveryBatch claims up to a batch; the first chunk starts.
ClaimBatch(n) ==
  /\ phase = "idle"
  /\ claimed' = n
  /\ now' = 0 /\ chunk' = 0 /\ round' = 1
  /\ BeginAttempt(1, 0)
  /\ UNCHANGED timeout

\* The slowest webhook is through: next round, next chunk, or the batch is over.
WebhookDone ==
  /\ UNCHANGED <<timeout, now, claimed>>
  /\ \/ /\ round < Rounds
        /\ round' = round + 1 /\ UNCHANGED chunk
        /\ BeginAttempt(1, now)
     \/ /\ round = Rounds /\ (chunk + 1) * Concurrency < claimed
        /\ chunk' = chunk + 1 /\ round' = 1
        /\ BeginAttempt(1, now)
     \/ /\ round = Rounds /\ (chunk + 1) * Concurrency >= claimed
        /\ phase' = "idle"
        /\ UNCHANGED <<due, chunk, round, attempt>>

\* The name resolved: the POST may take until its abort signal.
Resolved ==
  /\ phase = "dns"
  /\ phase' = "fetch"
  /\ due' = now + FetchTimeout
  /\ UNCHANGED <<timeout, now, claimed, chunk, round, attempt>>

\* No address, no answer, or not a 2xx one: wait and try again, up to Retries times.
AttemptFails ==
  /\ phase \in {"dns", "fetch"}
  /\ \/ /\ attempt < Retries
        /\ phase' = "backoff"
        /\ due' = now + (Backoff[attempt] - Backoff[attempt - 1])
        /\ UNCHANGED <<timeout, now, claimed, chunk, round, attempt>>
     \/ attempt = Retries /\ WebhookDone

Answered == phase = "fetch" /\ WebhookDone

BackoffOver ==
  /\ phase = "backoff" /\ now = due
  /\ BeginAttempt(attempt + 1, now)
  /\ UNCHANGED <<timeout, now, claimed, chunk, round>>

Tick ==
  /\ phase \in Sending /\ now < due
  /\ now' = now + 1
  /\ UNCHANGED <<timeout, phase, due, claimed, chunk, round, attempt>>

LeaseNext ==
  \/ Start \/ \E n \in 1 .. WebhookBatchSize(timeout) : ClaimBatch(n)
  \/ Resolved \/ AttemptFails \/ Answered \/ BackoffOver \/ Tick

LeaseSpec == LeaseInit /\ [][LeaseNext]_leaseVars
----------------------------------------------------------------------------
LeaseTypeOK ==
  /\ timeout \in Timeouts
  /\ phase \in Sending \cup {"stopped", "idle"}
  /\ now \in Nat /\ due \in Nat /\ claimed \in Nat /\ chunk \in Nat
  /\ phase \in Sending => chunk * Concurrency < claimed
  /\ round \in 1 .. Rounds
  /\ attempt \in 1 .. Retries

\* "Bound the batch so that serial worst case stays under half the PROCESSING
\* timeout; otherwise the reaper resets still-in-flight rows": while any item of
\* the batch is unfinished, at most half of the timeout has passed since its
\* claim, per round of webhooks.  With Subscribers <= WebhookConcurrency there is
\* one round and the reaper never meets a running item.
HalfLeaseHeld == phase \in Sending => 2 * now <= Rounds * timeout
==============================================================================
