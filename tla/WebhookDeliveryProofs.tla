------------------------ MODULE WebhookDeliveryProofs ------------------------
(* What the durable webhook queue guarantees for any number of items,          *)
(* webhooks, workers and attempts, any batch size and any concurrency.         *)
EXTENDS WebhookDelivery, TLAPS

\* The receiver answered, or the failure is counted.
Settled(i, h) == <<i, h>> \in notified \cup gaveUp

\* A job is of an item that was enqueued.  While it delivers, and nothing
\* recoverable went wrong, every live subscriber is still to do, answered or
\* settled; when it is about to mark the item every live subscriber is settled, or
\* there was no payload.
JobInv(j) ==
  /\ status[j.item] # "none"
  /\ j.phase # "deliver" => j.answered = {}
  /\ \A h \in Webhooks : <<h, TRUE>> \in j.answered => <<j.item, h>> \in notified
  /\ j.phase = "deliver" /\ ~j.recoverable =>
       \A h \in Subscribers[j.item] : webhook[h].state = "active" =>
         h \in j.todo \/ <<h, FALSE>> \in j.answered \/ Settled(j.item, h)
  /\ j.phase = "mark" /\ outbox[j.item] # "deleted" =>
       \A h \in Subscribers[j.item] : webhook[h].state = "active" => Settled(j.item, h)

\* fail_count counts at least the failures since the last success, and an active
\* webhook is below the threshold.
HealthInv(h) ==
  /\ failRun[h] <= webhook[h].failCount
  /\ webhook[h].state = "active" => webhook[h].failCount < Threshold

WorkerInv(w) ==
  /\ \A s \in waiting[w] : status[s.item] # "none"
  /\ \A j \in running[w] : JobInv(j)

Inv ==
  /\ TypeOK /\ NoWebhookLost
  /\ \A w \in Workers : WorkerInv(w)
  /\ \A h \in Webhooks : HealthInv(h)

-----------------------------------------------------------------------------
LEMMA InitInv == Init => Inv
  <1> SUFFICES ASSUME Init PROVE Inv OBVIOUS
  <1> USE QueueAssumption
  <1>1. TypeOK BY DEF Init, TypeOK, Open
  <1>2. NoWebhookLost BY DEF Init, NoWebhookLost
  <1>3. \A w \in Workers : WorkerInv(w) BY DEF Init, WorkerInv
  <1>4. \A h \in Webhooks : HealthInv(h) BY DEF Init, HealthInv
  <1>5. QED BY <1>1, <1>2, <1>3, <1>4 DEF Inv

\* What no step takes back: an answer, a counted failure, the end of a webhook,
\* an enqueued item and a purged payload.
Progress ==
  /\ notified \subseteq notified' /\ gaveUp \subseteq gaveUp'
  /\ \A h \in Webhooks : webhook'[h].state = "active" => webhook[h].state = "active"
  /\ \A i \in Items : status[i] # "none" =>
       status'[i] # "none" /\ (outbox[i] = "deleted" => outbox'[i] = "deleted")

\* The invariant of a job that a step leaves alone.
LEMMA JobFrame ==
  ASSUME Progress, NEW j \in Job, JobInv(j)
  PROVE  JobInv(j)'
  <1>1. j.item \in Items /\ Subscribers[j.item] \subseteq Webhooks
    BY QueueAssumption DEF Job
  <1>2. QED BY <1>1 DEF Progress, JobInv, Settled

\* An item is lost by no step that does not finish it.
LEMMA LostFrame ==
  ASSUME NoWebhookLost, Progress, deadLetters \subseteq deadLetters',
         \A i \in Items :
           /\ status'[i] = "SENT" => status[i] = "SENT"
           /\ status'[i] = "FAILED" => status[i] = "FAILED" \/ i \in deadLetters'
  PROVE  NoWebhookLost'
  <1>1. \A i \in Items : Subscribers[i] \subseteq Webhooks BY QueueAssumption
  <1>2. QED BY <1>1 DEF NoWebhookLost, Progress

-----------------------------------------------------------------------------
(* Steps on the rows alone.                                                    *)

\* Enqueue, the reaper, the retention and the outbox worker.
RowStep(i) ==
  \/ Enqueue(i) \/ ReapStuckItem(i) \/ PurgeItem(i)
  \/ PurgeSentOutbox(i) \/ PurgeFailedOutbox(i) \/ OutboxRefailed(i)

LEMMA RowStepInv ==
  ASSUME Inv, NEW i \in Items, RowStep(i)
  PROVE  Inv'
  <1>1. /\ TypeOK /\ attemptCount \in [Items -> Nat] /\ deadLetters \subseteq Items
        /\ status \in [Items -> Open \cup {"none", "SENT", "FAILED", "deleted"}]
        /\ outbox \in [Items -> {"PROCESSING", "SENT", "FAILED", "deleted"}]
        /\ waiting \in [Workers -> SUBSET Snapshot] /\ running \in [Workers -> SUBSET Job]
    BY DEF Inv, TypeOK
  <1>2. UNCHANGED <<webhook, gaveUp, failRun, waiting, running, notified, direct>>
    BY DEF RowStep, Enqueue, ReapStuckItem, PurgeItem, PurgeSentOutbox, PurgeFailedOutbox,
           OutboxRefailed, healthVars, workerVars
  <1>3. /\ status' \in [Items -> Open \cup {"none", "SENT", "FAILED", "deleted"}]
        /\ attemptCount' \in [Items -> Nat]
        /\ outbox' \in [Items -> {"PROCESSING", "SENT", "FAILED", "deleted"}]
        /\ deadLetters' \subseteq Items /\ deadLetters \subseteq deadLetters'
        /\ \A k \in Items : /\ status[k] # "none" => status'[k] # "none"
                            /\ status[k] # "none" /\ outbox[k] = "deleted" => outbox'[k] = "deleted"
                            /\ status'[k] = "SENT" => status[k] = "SENT"
                            /\ status'[k] = "FAILED" => status[k] = "FAILED" \/ k \in deadLetters'
    <2>1. CASE Enqueue(i) BY <1>1, <2>1 DEF Enqueue, Open
    <2>2. CASE ReapStuckItem(i) BY <1>1, <2>2 DEF ReapStuckItem, Open
    <2>3. CASE PurgeItem(i) BY <1>1, <2>3 DEF PurgeItem, Open
    <2>4. CASE PurgeSentOutbox(i) BY <1>1, <2>4 DEF PurgeSentOutbox
    <2>5. CASE PurgeFailedOutbox(i) BY <1>1, <2>5 DEF PurgeFailedOutbox
    <2>6. CASE OutboxRefailed(i) BY <1>1, <2>6 DEF OutboxRefailed
    <2>7. QED BY <2>1, <2>2, <2>3, <2>4, <2>5, <2>6 DEF RowStep
  <1>4. TypeOK' BY <1>1, <1>2, <1>3 DEF TypeOK
  <1>5. Progress BY <1>2, <1>3 DEF Progress
  <1>6. NoWebhookLost' BY <1>3, <1>5, LostFrame DEF Inv
  <1>7. ASSUME NEW w \in Workers PROVE WorkerInv(w)'
    <2>1. WorkerInv(w) BY DEF Inv
    <2>2. \A s \in waiting[w] : s.item \in Items BY <1>1 DEF Snapshot
    <2>3. \A j \in running[w] : JobInv(j)' BY <1>1, <1>5, <2>1, JobFrame DEF WorkerInv
    <2>4. QED BY <1>2, <1>3, <2>1, <2>2, <2>3 DEF WorkerInv
  <1>8. \A h \in Webhooks : HealthInv(h)' BY <1>2 DEF Inv, HealthInv
  <1>9. QED BY <1>4, <1>6, <1>7, <1>8 DEF Inv

LEMMA DeleteWebhookInv ==
  ASSUME Inv, NEW h \in Webhooks, DeleteWebhook(h)
  PROVE  Inv'
  <1> DEFINE gone == [state |-> "deleted", failCount |-> 0]
  <1>1. /\ TypeOK /\ failRun \in [Webhooks -> Nat] /\ running \in [Workers -> SUBSET Job]
        /\ webhook \in [Webhooks -> [state : {"active", "inactive", "deleted"}, failCount : Nat]]
    BY DEF Inv, TypeOK
  <1>2. /\ webhook' = [webhook EXCEPT ![h] = gone] /\ failRun' = [failRun EXCEPT ![h] = 0]
        /\ UNCHANGED <<status, attemptCount, outbox, deadLetters, waiting, running, notified, gaveUp, direct>>
    BY DEF DeleteWebhook, queueVars, workerVars
  <1>3. \A k \in Webhooks : /\ webhook'[k] = IF k = h THEN gone ELSE webhook[k]
                            /\ failRun'[k] = IF k = h THEN 0 ELSE failRun[k]
    BY <1>1, <1>2
  <1>4. TypeOK' BY <1>1, <1>2 DEF TypeOK
  <1>5. Progress BY <1>2, <1>3 DEF Progress
  <1>6. NoWebhookLost' BY <1>2, <1>5, LostFrame DEF Inv
  <1>7. \A w \in Workers : WorkerInv(w)'
    BY <1>1, <1>2, <1>5, JobFrame DEF Inv, WorkerInv
  <1>8. \A k \in Webhooks : HealthInv(k)' BY <1>3 DEF Inv, HealthInv
  <1>9. QED BY <1>4, <1>6, <1>7, <1>8 DEF Inv

-----------------------------------------------------------------------------
(* The worker's batch.                                                         *)

\* What one worker has at hand changes, items may be claimed, none is finished.
LEMMA BatchStep ==
  ASSUME Inv, NEW w \in Workers, NEW snapshots \in SUBSET Snapshot, NEW jobs \in SUBSET Job,
         UNCHANGED <<attemptCount, outbox, deadLetters, webhook, gaveUp, failRun, notified, direct>>,
         status' \in [Items -> Open \cup {"none", "SENT", "FAILED", "deleted"}],
         waiting' = [waiting EXCEPT ![w] = snapshots],
         running' = [running EXCEPT ![w] = jobs],
         \A i \in Items : /\ status[i] # "none" => status'[i] # "none"
                          /\ status'[i] \in {"SENT", "FAILED"} => status'[i] = status[i],
         \A s \in snapshots : status'[s.item] # "none",
         \A j \in jobs : JobInv(j)'
  PROVE  Inv'
  <1>1. /\ TypeOK /\ waiting \in [Workers -> SUBSET Snapshot]
        /\ running \in [Workers -> SUBSET Job]
    BY DEF Inv, TypeOK
  <1>2. \A x \in Workers : /\ waiting'[x] = IF x = w THEN snapshots ELSE waiting[x]
                           /\ running'[x] = IF x = w THEN jobs ELSE running[x]
    BY <1>1
  <1>3. waiting' \in [Workers -> SUBSET Snapshot] /\ running' \in [Workers -> SUBSET Job]
    BY <1>1
  <1>4. TypeOK' BY <1>1, <1>3 DEF TypeOK
  <1>5. Progress BY DEF Progress
  <1>6. NoWebhookLost' BY <1>5, LostFrame DEF Inv
  <1>7. ASSUME NEW x \in Workers PROVE WorkerInv(x)'
    <2>1. CASE x = w BY <1>2, <2>1 DEF WorkerInv
    <2>2. CASE x # w
      <3>1. WorkerInv(x) /\ waiting'[x] = waiting[x] /\ running'[x] = running[x]
        BY <1>2, <2>2 DEF Inv
      <3>2. \A s \in waiting[x] : s.item \in Items BY <1>1 DEF Snapshot
      <3>3. \A j \in running[x] : JobInv(j)' BY <1>1, <1>5, <3>1, JobFrame DEF WorkerInv
      <3>4. QED BY <3>1, <3>2, <3>3 DEF WorkerInv
    <2>3. QED BY <2>1, <2>2
  <1>8. \A h \in Webhooks : HealthInv(h)' BY DEF Inv, HealthInv
  <1>9. QED BY <1>4, <1>6, <1>7, <1>8 DEF Inv

LEMMA ClaimInv ==
  ASSUME Inv, NEW w \in Workers, NEW B \in SUBSET Items, Claim(w, B)
  PROVE  Inv'
  <1> DEFINE snapshots == {[item |-> i, attempts |-> attemptCount[i]] : i \in B}
             none == {}
  <1>1. /\ attemptCount \in [Items -> Nat] /\ running \in [Workers -> SUBSET Job]
        /\ status \in [Items -> Open \cup {"none", "SENT", "FAILED", "deleted"}]
    BY DEF Inv, TypeOK
  <1>2. /\ running[w] = {} /\ running' = running /\ waiting' = [waiting EXCEPT ![w] = snapshots]
        /\ status' = [i \in Items |-> IF i \in B THEN "PROCESSING" ELSE status[i]]
        /\ UNCHANGED <<attemptCount, outbox, deadLetters, webhook, gaveUp, failRun, notified, direct>>
    BY DEF Claim, healthVars
  <1>3. snapshots \in SUBSET Snapshot
    <2>1. \A i \in B : [item |-> i, attempts |-> attemptCount[i]] \in Snapshot
      BY <1>1 DEF Snapshot
    <2>2. QED BY <2>1
  <1>4. \A s \in snapshots : status'[s.item] # "none" BY <1>2
  <1>5. running' = [running EXCEPT ![w] = none] BY <1>1, <1>2
  <1>6. none \in SUBSET Job /\ \A j \in none : JobInv(j)' OBVIOUS
  <1>7. /\ status' \in [Items -> Open \cup {"none", "SENT", "FAILED", "deleted"}]
        /\ \A i \in Items : /\ status[i] # "none" => status'[i] # "none"
                            /\ status'[i] \in {"SENT", "FAILED"} => status'[i] = status[i]
    BY <1>1, <1>2 DEF Open
  <1> HIDE DEF snapshots, none
  <1>8. QED BY <1>2, <1>3, <1>4, <1>5, <1>6, <1>7, BatchStep

LEMMA StartChunkInv ==
  ASSUME Inv, NEW w \in Workers, NEW C \in SUBSET waiting[w], StartChunk(w, C)
  PROVE  Inv'
  <1> DEFINE jobs == {NewJob(s) : s \in C}
             rest == waiting[w] \ C
  <1>1. /\ waiting \in [Workers -> SUBSET Snapshot] /\ running \in [Workers -> SUBSET Job]
        /\ status \in [Items -> Open \cup {"none", "SENT", "FAILED", "deleted"}]
    BY DEF Inv, TypeOK
  <1>2. /\ running' = [running EXCEPT ![w] = jobs] /\ waiting' = [waiting EXCEPT ![w] = rest]
        /\ UNCHANGED <<status, attemptCount, outbox, deadLetters, webhook, gaveUp, failRun, notified, direct>>
    BY DEF StartChunk, queueVars, healthVars
  <1>3. rest \in SUBSET Snapshot /\ \A s \in rest : status'[s.item] # "none"
    BY <1>1, <1>2 DEF Inv, WorkerInv
  <1>4. ASSUME NEW s \in C PROVE NewJob(s) \in Job /\ JobInv(NewJob(s))'
    <2>1. s.item \in Items /\ s.attempts \in Nat BY <1>1 DEF Snapshot
    <2>2. status'[s.item] # "none" BY <1>2 DEF Inv, WorkerInv
    <2>3. NewJob(s) \in Job BY <2>1 DEF NewJob, Job
    <2>4. /\ NewJob(s).item = s.item /\ NewJob(s).phase = "read" /\ NewJob(s).answered = {}
      BY DEF NewJob
    <2>5. QED BY <2>2, <2>3, <2>4 DEF JobInv
  <1>5. jobs \in SUBSET Job /\ \A j \in jobs : JobInv(j)' BY <1>4
  <1> HIDE DEF jobs, rest
  <1>6. QED BY <1>1, <1>2, <1>3, <1>5, BatchStep

LEMMA CrashInv ==
  ASSUME Inv, NEW w \in Workers, Crash(w)
  PROVE  Inv'
  <1> DEFINE none == {}
  <1>1. status \in [Items -> Open \cup {"none", "SENT", "FAILED", "deleted"}]
    BY DEF Inv, TypeOK
  <1>2. /\ running' = [running EXCEPT ![w] = none] /\ waiting' = [waiting EXCEPT ![w] = none]
        /\ UNCHANGED <<status, attemptCount, outbox, deadLetters, webhook, gaveUp, failRun, notified, direct>>
    BY DEF Crash, queueVars, healthVars
  <1>3. none \in SUBSET Job /\ none \in SUBSET Snapshot OBVIOUS
  <1>4. (\A j \in none : JobInv(j)') /\ (\A s \in none : status'[s.item] # "none") OBVIOUS
  <1> HIDE DEF none
  <1>5. QED BY <1>1, <1>2, <1>3, <1>4, BatchStep

-----------------------------------------------------------------------------
(* The steps of one job.                                                       *)

Health == [state : {"active", "inactive", "deleted"}, failCount : Nat]

\* A job is replaced or ends: the other jobs are as before.
LEMMA JobStep ==
  ASSUME Inv, NEW w \in Workers, NEW j \in running[w], NEW K \in SUBSET Job,
         running' = [running EXCEPT ![w] = (@ \ {j}) \cup K],
         \A k \in K : JobInv(k)', waiting' = waiting, outbox' = outbox, direct' = direct,
         status' \in [Items -> Open \cup {"none", "SENT", "FAILED", "deleted"}],
         attemptCount' \in [Items -> Nat], deadLetters' \subseteq Items,
         webhook' \in [Webhooks -> Health], failRun' \in [Webhooks -> Nat],
         notified' \subseteq Items \X Webhooks, gaveUp' \subseteq Items \X Webhooks,
         Progress, NoWebhookLost', \A h \in Webhooks : HealthInv(h)'
  PROVE  Inv'
  <1>1. /\ TypeOK /\ waiting \in [Workers -> SUBSET Snapshot]
        /\ running \in [Workers -> SUBSET Job]
    BY DEF Inv, TypeOK
  <1>2. /\ running'[w] = (running[w] \ {j}) \cup K
        /\ \A x \in Workers : x # w => running'[x] = running[x]
    BY <1>1
  <1>3. running' \in [Workers -> SUBSET Job] BY <1>1
  <1>4. TypeOK' BY <1>1, <1>3 DEF TypeOK, Health
  <1>5. ASSUME NEW x \in Workers PROVE WorkerInv(x)'
    <2>1. WorkerInv(x) BY DEF Inv
    <2>2. \A s \in waiting[x] : s.item \in Items BY <1>1 DEF Snapshot
    <2>3. \A s \in waiting'[x] : status'[s.item] # "none"
      BY <2>1, <2>2 DEF WorkerInv, Progress
    <2>4. \A k \in running[x] : JobInv(k)' BY <1>1, <2>1, JobFrame DEF WorkerInv
    <2>5. \A k \in running'[x] : JobInv(k)' BY <1>2, <2>4
    <2>6. QED BY <2>3, <2>5 DEF WorkerInv
  <1>6. QED BY <1>4, <1>5 DEF Inv

\* The step changes nothing but the job.
LEMMA QuietJobStep ==
  ASSUME Inv, NEW w \in Workers, NEW j \in running[w], NEW K \in SUBSET Job,
         running' = [running EXCEPT ![w] = (@ \ {j}) \cup K], \A k \in K : JobInv(k)',
         UNCHANGED <<queueVars, healthVars, waiting, notified, direct>>
  PROVE  Inv'
  <1>1. UNCHANGED <<status, attemptCount, outbox, deadLetters, webhook, gaveUp, failRun,
                    waiting, notified, direct>>
    BY DEF queueVars, healthVars
  <1>2. Progress BY <1>1 DEF Progress
  <1>3. NoWebhookLost' BY <1>1, <1>2, LostFrame DEF Inv
  <1>4. \A h \in Webhooks : HealthInv(h)' BY <1>1 DEF Inv, HealthInv
  <1>5. /\ status' \in [Items -> Open \cup {"none", "SENT", "FAILED", "deleted"}]
        /\ attemptCount' \in [Items -> Nat] /\ deadLetters' \subseteq Items
        /\ webhook' \in [Webhooks -> Health] /\ failRun' \in [Webhooks -> Nat]
        /\ notified' \subseteq Items \X Webhooks /\ gaveUp' \subseteq Items \X Webhooks
    BY <1>1 DEF Inv, TypeOK, Health
  <1>6. QED BY <1>1, <1>2, <1>3, <1>4, <1>5, JobStep

\* A job that has not come to its webhooks, or failed, promises nothing yet.
LEMMA PhaseOnly ==
  ASSUME Inv, NEW w \in Workers, NEW j \in running[w], j.phase # "deliver" \/ j.answered = {},
         NEW p \in {"read", "resolve", "mark", "error"}, status' = status,
         p = "mark" => \/ outbox'[j.item] = "deleted"
                       \/ \A h \in Subscribers[j.item] :
                            webhook'[h].state = "active" => Settled(j.item, h)'
  PROVE  [j EXCEPT !.phase = p] \in Job /\ JobInv([j EXCEPT !.phase = p])'
  <1> DEFINE k == [j EXCEPT !.phase = p]
  <1>1. j \in Job /\ JobInv(j) BY DEF Inv, TypeOK, WorkerInv
  <1>2. /\ k \in Job /\ k.item = j.item /\ k.phase = p /\ k.answered = j.answered
    BY <1>1 DEF Job
  <1>3. status[j.item] # "none" /\ j.answered = {} BY <1>1 DEF JobInv
  <1> HIDE DEF k
  <1>4. JobInv(k)' BY <1>2, <1>3 DEF JobInv
  <1>5. QED BY <1>2, <1>4 DEF k

LEMMA ReadOutboxInv ==
  ASSUME Inv, NEW w \in Workers, NEW j \in running[w], ReadOutbox(w, j)
  PROVE  Inv'
  <1>0. PICK p : p = IF outbox[j.item] = "deleted" THEN "mark" ELSE "resolve" OBVIOUS
  <1> DEFINE k == [j EXCEPT !.phase = p]
  <1>1. /\ j.phase = "read" /\ running' = [running EXCEPT ![w] = (@ \ {j}) \cup {k}]
        /\ UNCHANGED <<queueVars, healthVars, waiting, notified, direct>>
    BY <1>0 DEF ReadOutbox, SetJob
  <1>2. status' = status /\ outbox' = outbox BY <1>1 DEF queueVars
  <1>3. p \in {"read", "resolve", "mark", "error"} /\ (p = "mark" => outbox'[j.item] = "deleted")
    BY <1>0, <1>2
  <1>4. k \in Job /\ JobInv(k)' BY <1>1, <1>2, <1>3, PhaseOnly
  <1> HIDE DEF k
  <1>5. {k} \in SUBSET Job /\ \A x \in {k} : JobInv(x)' BY <1>4
  <1>6. QED BY <1>1, <1>5, QuietJobStep

LEMMA ThrowsInv ==
  ASSUME Inv, NEW w \in Workers, NEW j \in running[w], Throws(w, j)
  PROVE  Inv'
  <1> DEFINE k == [j EXCEPT !.phase = "error"]
  <1>1. /\ j.phase # "deliver" /\ running' = [running EXCEPT ![w] = (@ \ {j}) \cup {k}]
        /\ UNCHANGED <<queueVars, healthVars, waiting, notified, direct>>
    BY DEF Throws, SetJob
  <1>2. status' = status BY <1>1 DEF queueVars
  <1>3. k \in Job /\ JobInv(k)' BY <1>1, <1>2, PhaseOnly
  <1> HIDE DEF k
  <1>4. QED BY <1>1, <1>3, QuietJobStep

\* EndPass: nothing is left to do, so every live subscriber is settled.
LEMMA EndPassInv ==
  ASSUME Inv, NEW w \in Workers, NEW j \in running[w], EndPass(w, j)
  PROVE  Inv'
  <1> DEFINE p == IF j.recoverable THEN "error" ELSE "mark"
             k == [j EXCEPT !.phase = p]
  <1>1. /\ j.phase = "deliver" /\ j.todo = {} /\ j.answered = {}
        /\ running' = [running EXCEPT ![w] = (@ \ {j}) \cup {k}]
        /\ UNCHANGED <<queueVars, healthVars, waiting, notified, direct>>
    BY DEF EndPass, PassDone, SetJob
  <1>2. UNCHANGED <<status, webhook, notified, gaveUp>> BY <1>1 DEF queueVars, healthVars
  <1>3. JobInv(j) BY DEF Inv, WorkerInv
  <1>4. p = "mark" => \A h \in Subscribers[j.item] :
          webhook'[h].state = "active" => Settled(j.item, h)'
    BY <1>1, <1>2, <1>3 DEF JobInv, Settled
  <1>5. p \in {"read", "resolve", "mark", "error"} OBVIOUS
  <1> HIDE DEF p
  <1>6. k \in Job /\ JobInv(k)' BY <1>1, <1>2, <1>4, <1>5, PhaseOnly
  <1> HIDE DEF k
  <1>7. {k} \in SUBSET Job /\ \A x \in {k} : JobInv(x)' BY <1>6
  <1>8. QED BY <1>1, <1>7, QuietJobStep

LEMMA RecordErrorFailsInv ==
  ASSUME Inv, NEW w \in Workers, NEW j \in running[w], RecordErrorFails(w, j)
  PROVE  Inv'
  <1> DEFINE none == {}
  <1>1. running \in [Workers -> SUBSET Job] BY DEF Inv, TypeOK
  <1>2. running' = [running EXCEPT ![w] = (@ \ {j}) \cup none]
    BY <1>1 DEF RecordErrorFails, EndJob
  <1>3. none \in SUBSET Job /\ \A k \in none : JobInv(k)' OBVIOUS
  <1>4. UNCHANGED <<queueVars, healthVars, waiting, notified, direct>> BY DEF RecordErrorFails
  <1> HIDE DEF none
  <1>5. QED BY <1>2, <1>3, <1>4, QuietJobStep

LEMMA ResolveSubscribersInv ==
  ASSUME Inv, NEW w \in Workers, NEW j \in running[w], ResolveSubscribers(w, j)
  PROVE  Inv'
  <1>0. PICK live : live = {h \in Subscribers[j.item] : webhook[h].state = "active"}
    OBVIOUS
  <1> DEFINE k == [j EXCEPT !.phase = "deliver", !.todo = live]
  <1>1. j \in Job /\ JobInv(j) /\ webhook \in [Webhooks -> Health]
    BY DEF Inv, TypeOK, WorkerInv, Health
  <1>2. /\ j.phase = "resolve" /\ running' = [running EXCEPT ![w] = (@ \ {j}) \cup {k}]
        /\ UNCHANGED <<queueVars, healthVars, waiting, notified, direct>>
    BY <1>0 DEF ResolveSubscribers, SetJob
  <1>3. j.item \in Items BY <1>1 DEF Job
  <1>4. live \in SUBSET Webhooks BY <1>0, <1>3, QueueAssumption
  <1>6. \A h \in Subscribers[j.item] : webhook[h].state = "active" => h \in live BY <1>0
  <1>7. /\ k \in Job /\ k.item = j.item /\ k.phase = "deliver" /\ k.todo = live
        /\ k.answered = j.answered
    BY <1>1, <1>4 DEF Job
  <1>8. j.answered = {} /\ status'[j.item] # "none" /\ webhook' = webhook
    BY <1>1, <1>2 DEF JobInv, queueVars, healthVars
  <1> HIDE DEF k
  <1>9. JobInv(k)' BY <1>6, <1>7, <1>8 DEF JobInv
  <1>10. {k} \in SUBSET Job /\ \A x \in {k} : JobInv(x)' BY <1>7, <1>9
  <1>11. QED BY <1>2, <1>10, QuietJobStep

\* A webhook of a delivering job is through: its outcome is remembered, settled or
\* given up as recoverable.
LEMMA DeliverJob ==
  ASSUME Inv, NEW w \in Workers, NEW j \in running[w], j.phase = "deliver",
         NEW todo \in SUBSET Webhooks, NEW answered \in SUBSET (Webhooks \X BOOLEAN),
         NEW recoverable \in BOOLEAN, Progress,
         \A h \in Webhooks : <<h, TRUE>> \in answered =>
           <<h, TRUE>> \in j.answered \/ <<j.item, h>> \in notified',
         recoverable \/ /\ recoverable = j.recoverable
                        /\ \A h \in Webhooks :
                             /\ h \in j.todo =>
                                  h \in todo \/ <<h, FALSE>> \in answered \/ Settled(j.item, h)'
                             /\ <<h, FALSE>> \in j.answered =>
                                  <<h, FALSE>> \in answered \/ Settled(j.item, h)'
  PROVE  LET k == [j EXCEPT !.todo = todo, !.answered = answered, !.recoverable = recoverable]
         IN  k \in Job /\ JobInv(k)'
  <1> DEFINE k == [j EXCEPT !.todo = todo, !.answered = answered, !.recoverable = recoverable]
  <1>1. j \in Job /\ JobInv(j) BY DEF Inv, TypeOK, WorkerInv
  <1>2. /\ k \in Job /\ k.item = j.item /\ k.phase = "deliver" /\ k.todo = todo
        /\ k.answered = answered /\ k.recoverable = recoverable
    BY <1>1 DEF Job
  <1>3. j.item \in Items /\ Subscribers[j.item] \subseteq Webhooks
    BY <1>1, QueueAssumption DEF Job
  <1>4. status'[j.item] # "none" BY <1>1, <1>3 DEF JobInv, Progress
  <1>5. \A h \in Webhooks : <<h, TRUE>> \in answered => <<j.item, h>> \in notified'
    BY <1>1 DEF JobInv, Progress
  <1>6. ASSUME ~recoverable, NEW h \in Subscribers[j.item], webhook'[h].state = "active"
        PROVE  h \in todo \/ <<h, FALSE>> \in answered \/ Settled(j.item, h)'
    <2>1. h \in Webhooks /\ webhook[h].state = "active" /\ ~j.recoverable
      BY <1>3, <1>6 DEF Progress
    <2>2. h \in j.todo \/ <<h, FALSE>> \in j.answered \/ Settled(j.item, h)
      BY <1>1, <2>1, <1>6 DEF JobInv
    <2>3. Settled(j.item, h) => Settled(j.item, h)' BY DEF Settled, Progress
    <2>4. QED BY <1>6, <2>1, <2>2, <2>3
  <1> HIDE DEF k
  <1>7. JobInv(k)' BY <1>2, <1>4, <1>5, <1>6 DEF JobInv
  <1>8. QED BY <1>2, <1>7 DEF k

LEMMA PostInv ==
  ASSUME Inv, NEW w \in Workers, NEW j \in running[w], NEW h \in Webhooks, NEW ok \in BOOLEAN,
         Post(w, j, h, ok)
  PROVE  Inv'
  <1> DEFINE todo == j.todo \ {h}
             answered == j.answered \cup {<<h, ok>>}
             k == [j EXCEPT !.todo = todo, !.answered = answered,
                            !.recoverable = j.recoverable]
  <1>1. /\ TypeOK /\ j \in Job BY DEF Inv, TypeOK
  <1>2. /\ j.item \in Items /\ todo \in SUBSET Webhooks /\ j.recoverable \in BOOLEAN
        /\ answered \in SUBSET (Webhooks \X BOOLEAN)
    BY <1>1 DEF Job
  <1>3. k = [j EXCEPT !.todo = @ \ {h}, !.answered = @ \cup {<<h, ok>>}] BY <1>1 DEF Job
  <1>4. /\ j.phase = "deliver" /\ running' = [running EXCEPT ![w] = (@ \ {j}) \cup {k}]
        /\ notified' = IF ok THEN notified \cup {<<j.item, h>>} ELSE notified
        /\ UNCHANGED <<status, attemptCount, outbox, deadLetters, webhook, gaveUp, failRun, waiting, direct>>
    BY <1>3 DEF Post, SetJob, queueVars, healthVars
  <1>5. Progress BY <1>4 DEF Progress
  <1>6. k \in Job /\ JobInv(k)'
    <2>1. \A g \in Webhooks : <<g, TRUE>> \in answered =>
            <<g, TRUE>> \in j.answered \/ <<j.item, g>> \in notified'
      BY <1>4
    <2>2. \A g \in Webhooks :
            /\ g \in j.todo => g \in todo \/ <<g, FALSE>> \in answered \/ Settled(j.item, g)'
            /\ <<g, FALSE>> \in j.answered => <<g, FALSE>> \in answered \/ Settled(j.item, g)'
      <3>1. ok => Settled(j.item, h)' BY <1>4 DEF Settled
      <3>2. ~ok => <<h, FALSE>> \in answered BY <1>4
      <3>3. QED BY <3>1, <3>2
    <2> HIDE DEF todo, answered
    <2>3. QED BY <1>2, <1>4, <1>5, <2>1, <2>2, DeliverJob
  <1> HIDE DEF k
  <1>7. {k} \in SUBSET Job /\ \A x \in {k} : JobInv(x)' BY <1>6
  <1>8. NoWebhookLost' BY <1>4, <1>5, LostFrame DEF Inv
  <1>9. \A g \in Webhooks : HealthInv(g)' BY <1>4 DEF Inv, HealthInv
  <1>10. /\ status' \in [Items -> Open \cup {"none", "SENT", "FAILED", "deleted"}]
         /\ attemptCount' \in [Items -> Nat] /\ deadLetters' \subseteq Items
         /\ webhook' \in [Webhooks -> Health] /\ failRun' \in [Webhooks -> Nat]
         /\ gaveUp' \subseteq Items \X Webhooks
    BY <1>1, <1>4 DEF TypeOK, Health
  <1>11. notified' \subseteq Items \X Webhooks BY <1>1, <1>2, <1>4 DEF TypeOK
  <1>12. QED BY <1>4, <1>5, <1>7, <1>8, <1>9, <1>10, <1>11, JobStep

\* DecryptFails and CallbackThrows: the job is recoverable from now on.
LEMMA RecoverableInv ==
  ASSUME Inv, NEW w \in Workers, NEW j \in running[w],
         \/ \E h \in Webhooks : DecryptFails(w, j, h)
         \/ \E a \in j.answered : CallbackThrows(w, j, a)
  PROVE  Inv'
  <1>1. j \in Job /\ JobInv(j) BY DEF Inv, TypeOK, WorkerInv
  <1>2. UNCHANGED <<queueVars, healthVars, waiting, notified, direct>>
    BY DEF DecryptFails, CallbackThrows
  <1>3. Progress BY <1>2 DEF Progress, queueVars, healthVars
  <1>4. PICK todo \in SUBSET Webhooks, answered \in SUBSET j.answered :
          running' = [running EXCEPT ![w] = (@ \ {j}) \cup
            {[j EXCEPT !.todo = todo, !.answered = answered, !.recoverable = TRUE]}]
    <2>1. ASSUME NEW h \in Webhooks, DecryptFails(w, j, h)
          PROVE  running' = [running EXCEPT ![w] = (@ \ {j}) \cup
                   {[j EXCEPT !.todo = j.todo \ {h}, !.answered = j.answered, !.recoverable = TRUE]}]
      <3>1. [j EXCEPT !.todo = j.todo \ {h}, !.answered = j.answered, !.recoverable = TRUE]
              = [j EXCEPT !.todo = @ \ {h}, !.recoverable = TRUE]
        BY <1>1 DEF Job
      <3>2. QED BY <2>1, <3>1 DEF DecryptFails, SetJob
    <2>2. ASSUME NEW a \in j.answered, CallbackThrows(w, j, a)
          PROVE  running' = [running EXCEPT ![w] = (@ \ {j}) \cup
                   {[j EXCEPT !.todo = j.todo, !.answered = j.answered \ {a}, !.recoverable = TRUE]}]
      <3>1. [j EXCEPT !.todo = j.todo, !.answered = j.answered \ {a}, !.recoverable = TRUE]
              = [j EXCEPT !.answered = @ \ {a}, !.recoverable = TRUE]
        BY <1>1 DEF Job
      <3>2. QED BY <2>2, <3>1 DEF CallbackThrows, SetJob
    <2>3. j.todo \in SUBSET Webhooks /\ \A h \in Webhooks : j.todo \ {h} \in SUBSET Webhooks
      BY <1>1 DEF Job
    <2>4. j.answered \in SUBSET j.answered /\ \A a : j.answered \ {a} \in SUBSET j.answered
      OBVIOUS
    <2>5. QED BY <2>1, <2>2, <2>3, <2>4
  <1>5. j.phase = "deliver"
    BY <1>1 DEF DecryptFails, JobInv
  <1> DEFINE k == [j EXCEPT !.todo = todo, !.answered = answered, !.recoverable = TRUE]
  <1>6. answered \in SUBSET (Webhooks \X BOOLEAN) BY <1>1 DEF Job
  <1>7. k \in Job /\ JobInv(k)' BY <1>3, <1>5, <1>6, DeliverJob
  <1> HIDE DEF k
  <1>8. {k} \in SUBSET Job /\ \A x \in {k} : JobInv(x)' BY <1>7
  <1>9. running' = [running EXCEPT ![w] = (@ \ {j}) \cup {k}] BY <1>4 DEF k
  <1>10. QED BY <1>2, <1>8, <1>9, QuietJobStep

\* onWebhookDeliverySuccess of a webhook with a row resets its count; the receiver
\* has been counted as notified since its answer.
LEMMA OnSuccessInv ==
  ASSUME Inv, NEW w \in Workers, NEW j \in running[w], NEW h \in Webhooks, OnSuccess(w, j, h)
  PROVE  Inv'
  <1> DEFINE answered == j.answered \ {<<h, TRUE>>}
  <1>1. /\ TypeOK /\ j \in Job /\ JobInv(j) /\ webhook \in [Webhooks -> Health]
        /\ failRun \in [Webhooks -> Nat]
    BY DEF Inv, TypeOK, WorkerInv, Health
  <1>2. /\ j.todo \in SUBSET Webhooks /\ j.recoverable \in BOOLEAN
        /\ answered \in SUBSET (Webhooks \X BOOLEAN)
    BY <1>1 DEF Job
  <1>3. <<h, TRUE>> \in j.answered /\ UNCHANGED <<queueVars, waiting, notified, direct>>
    BY DEF OnSuccess
  <1>4. j.phase = "deliver" BY <1>1, <1>3 DEF JobInv
  <1>5. \A g \in Webhooks :
          /\ <<g, TRUE>> \in answered => <<g, TRUE>> \in j.answered
          /\ <<g, FALSE>> \in j.answered => <<g, FALSE>> \in answered
    OBVIOUS
  <1> HIDE DEF answered
  <1>6. CASE webhook[h].state = "deleted"
    <2> DEFINE k == [j EXCEPT !.todo = j.todo, !.answered = answered, !.recoverable = TRUE]
    <2>1. k = [j EXCEPT !.answered = @ \ {<<h, TRUE>>}, !.recoverable = TRUE]
      BY <1>1 DEF Job, answered
    <2>2. /\ running' = [running EXCEPT ![w] = (@ \ {j}) \cup {k}] /\ UNCHANGED healthVars
      BY <1>6, <2>1 DEF OnSuccess, SetJob
    <2>3. Progress BY <1>3, <2>2 DEF Progress, queueVars, healthVars
    <2>4. k \in Job /\ JobInv(k)' BY <1>2, <1>4, <1>5, <2>3, DeliverJob
    <2> HIDE DEF k
    <2>5. {k} \in SUBSET Job /\ \A x \in {k} : JobInv(x)' BY <2>4
    <2>6. QED BY <1>3, <2>2, <2>5, QuietJobStep
  <1>7. CASE webhook[h].state # "deleted"
    <2> DEFINE k == [j EXCEPT !.todo = j.todo, !.answered = answered,
                              !.recoverable = j.recoverable]
               new == [webhook[h] EXCEPT !.failCount = 0]
    <2>1. k = [j EXCEPT !.answered = @ \ {<<h, TRUE>>}] BY <1>1 DEF Job, answered
    <2>2. /\ running' = [running EXCEPT ![w] = (@ \ {j}) \cup {k}]
          /\ webhook' = [webhook EXCEPT ![h].failCount = 0]
          /\ failRun' = [failRun EXCEPT ![h] = 0] /\ gaveUp' = gaveUp
      BY <1>7, <2>1 DEF OnSuccess, SetJob
    <2>3. /\ new \in Health /\ new.state = webhook[h].state /\ new.failCount = 0
      BY <1>1 DEF Health
    <2>4. webhook' = [webhook EXCEPT ![h] = new] BY <1>1, <2>2
    <2> HIDE DEF new
    <2>5. /\ webhook' \in [Webhooks -> Health] /\ failRun' \in [Webhooks -> Nat]
          /\ \A g \in Webhooks : /\ webhook'[g] = IF g = h THEN new ELSE webhook[g]
                                 /\ failRun'[g] = IF g = h THEN 0 ELSE failRun[g]
      BY <1>1, <2>2, <2>3, <2>4
    <2>6. Progress BY <1>3, <2>2, <2>3, <2>5 DEF Progress, queueVars
    <2>7. k \in Job /\ JobInv(k)' BY <1>2, <1>4, <1>5, <2>6, DeliverJob
    <2> HIDE DEF k
    <2>8. {k} \in SUBSET Job /\ \A x \in {k} : JobInv(x)' BY <2>7
    <2>9. UNCHANGED <<status, attemptCount, outbox, deadLetters, waiting, notified, gaveUp, direct>>
      BY <1>3, <2>2 DEF queueVars
    <2>10. NoWebhookLost' BY <2>6, <2>9, LostFrame DEF Inv
    <2>11. \A g \in Webhooks : HealthInv(g)'
      BY <2>3, <2>5, QueueAssumption DEF Inv, HealthInv
    <2>12. /\ status' \in [Items -> Open \cup {"none", "SENT", "FAILED", "deleted"}]
           /\ attemptCount' \in [Items -> Nat] /\ deadLetters' \subseteq Items
           /\ notified' \subseteq Items \X Webhooks /\ gaveUp' \subseteq Items \X Webhooks
      BY <1>1, <2>9 DEF TypeOK
    <2>13. QED BY <2>2, <2>5, <2>6, <2>8, <2>9, <2>10, <2>11, <2>12, JobStep
  <1>8. QED BY <1>6, <1>7

\* onWebhookDeliveryFailure counts the failure and disables at the threshold, in
\* one statement.
LEMMA OnFailureInv ==
  ASSUME Inv, NEW w \in Workers, NEW j \in running[w], NEW h \in Webhooks, OnFailure(w, j, h)
  PROVE  Inv'
  <1> DEFINE answered == j.answered \ {<<h, FALSE>>}
             k == [j EXCEPT !.todo = j.todo, !.answered = answered,
                            !.recoverable = j.recoverable]
             n == webhook[h].failCount + 1
             new == [state |-> IF n >= Threshold THEN "inactive" ELSE webhook[h].state,
                     failCount |-> n]
  <1>1. /\ TypeOK /\ j \in Job /\ JobInv(j) /\ webhook \in [Webhooks -> Health]
        /\ failRun \in [Webhooks -> Nat]
    BY DEF Inv, TypeOK, WorkerInv, Health
  <1>2. /\ j.todo \in SUBSET Webhooks /\ j.recoverable \in BOOLEAN /\ j.item \in Items
        /\ answered \in SUBSET (Webhooks \X BOOLEAN)
    BY <1>1 DEF Job
  <1>3. k = [j EXCEPT !.answered = @ \ {<<h, FALSE>>}] BY <1>1 DEF Job
  <1>4. /\ <<h, FALSE>> \in j.answered /\ gaveUp' = gaveUp \cup {<<j.item, h>>}
        /\ UNCHANGED <<status, attemptCount, outbox, deadLetters, waiting, notified, direct>>
        /\ running' = [running EXCEPT ![w] = (@ \ {j}) \cup {k}]
    BY <1>3 DEF OnFailure, SetJob, queueVars
  <1>5. j.phase = "deliver" BY <1>1, <1>4 DEF JobInv
  <1>6. \A g \in Webhooks :
          /\ <<g, TRUE>> \in answered => <<g, TRUE>> \in j.answered
          /\ <<g, FALSE>> \in j.answered => <<g, FALSE>> \in answered \/ Settled(j.item, g)'
    BY <1>4 DEF Settled
  <1> HIDE DEF answered
  <1>7. /\ n \in Nat /\ new \in Health /\ new.failCount = n
        /\ new.state = "active" => webhook[h].state = "active" /\ n < Threshold
    BY <1>1, QueueAssumption DEF Health
  <1>8. webhook[h].state # "deleted" =>
          /\ webhook' = [webhook EXCEPT ![h] = new]
          /\ failRun' = [failRun EXCEPT ![h] = @ + 1]
    BY <1>1 DEF OnFailure
  <1>9. webhook[h].state = "deleted" => UNCHANGED <<webhook, failRun>> BY DEF OnFailure
  <1>10. /\ webhook' \in [Webhooks -> Health] /\ failRun' \in [Webhooks -> Nat]
         /\ \A g \in Webhooks : webhook'[g].state = "active" => webhook[g].state = "active"
         /\ \A g \in Webhooks : HealthInv(g)'
    <2>1. CASE webhook[h].state = "deleted" BY <1>1, <1>9, <2>1 DEF Inv, HealthInv
    <2>2. CASE webhook[h].state # "deleted"
      <3> HIDE DEF new, n
      <3>1. \A g \in Webhooks : /\ webhook'[g] = IF g = h THEN new ELSE webhook[g]
                                /\ failRun'[g] = IF g = h THEN failRun[h] + 1 ELSE failRun[g]
        BY <1>1, <1>8, <2>2
      <3>2. webhook' \in [Webhooks -> Health] /\ failRun' \in [Webhooks -> Nat]
        BY <1>1, <1>7, <1>8, <2>2
      <3>3. \A g \in Webhooks : webhook'[g].state = "active" => webhook[g].state = "active"
        BY <1>7, <3>1
      <3>4. HealthInv(h)'
        <4>1. failRun[h] \in Nat /\ webhook[h].failCount \in Nat /\ HealthInv(h)
          BY <1>1 DEF Health, Inv
        <4>2. n = webhook[h].failCount + 1 BY DEF n
        <4>3. QED BY <1>7, <3>1, <4>1, <4>2 DEF HealthInv
      <3>5. \A g \in Webhooks : g # h => HealthInv(g)' BY <3>1 DEF Inv, HealthInv
      <3>6. QED BY <3>2, <3>3, <3>4, <3>5
    <2>3. QED BY <2>1, <2>2
  <1>11. Progress BY <1>4, <1>10 DEF Progress
  <1>12. k \in Job /\ JobInv(k)' BY <1>2, <1>5, <1>6, <1>11, DeliverJob
  <1> HIDE DEF k
  <1>13. {k} \in SUBSET Job /\ \A x \in {k} : JobInv(x)' BY <1>12
  <1>14. NoWebhookLost' BY <1>4, <1>11, LostFrame DEF Inv
  <1>15. /\ status' \in [Items -> Open \cup {"none", "SENT", "FAILED", "deleted"}]
         /\ attemptCount' \in [Items -> Nat] /\ deadLetters' \subseteq Items
         /\ notified' \subseteq Items \X Webhooks
    BY <1>1, <1>4 DEF TypeOK
  <1>16. gaveUp' \subseteq Items \X Webhooks BY <1>1, <1>2, <1>4 DEF TypeOK
  <1>17. QED BY <1>4, <1>10, <1>11, <1>13, <1>14, <1>15, <1>16, JobStep

\* markWebhookDeliverySent: the job about to mark has no live subscriber unsettled.
LEMMA MarkSentInv ==
  ASSUME Inv, NEW w \in Workers, NEW j \in running[w], NEW acked \in BOOLEAN,
         MarkSent(w, j, acked)
  PROVE  Inv'
  <1> DEFINE k == [j EXCEPT !.phase = "error"]
  <1>1. /\ TypeOK /\ j \in Job /\ JobInv(j) /\ j.item \in Items
        /\ status \in [Items -> Open \cup {"none", "SENT", "FAILED", "deleted"}]
    BY DEF Inv, TypeOK, WorkerInv, Job
  <1>2. /\ j.phase = "mark"
        /\ status' = [status EXCEPT ![j.item] = IF @ = "deleted" THEN @ ELSE "SENT"]
        /\ UNCHANGED <<attemptCount, outbox, deadLetters, webhook, gaveUp, failRun, waiting, notified, direct>>
    BY DEF MarkSent, SetStatus, healthVars
  <1>3. /\ status' \in [Items -> Open \cup {"none", "SENT", "FAILED", "deleted"}]
        /\ \A i \in Items : /\ status[i] # "none" => status'[i] # "none"
                            /\ status'[i] = "FAILED" => status[i] = "FAILED"
                            /\ status'[i] = "SENT" => status[i] = "SENT" \/ i = j.item
    BY <1>1, <1>2
  <1>4. Progress BY <1>2, <1>3 DEF Progress
  <1>5. NoWebhookLost'
    <2>1. \A h \in Subscribers[j.item] :
            webhook[h].state = "active" /\ outbox[j.item] # "deleted" => Settled(j.item, h)
      BY <1>1, <1>2 DEF JobInv
    <2>2. QED BY <1>2, <1>3, <2>1 DEF Inv, NoWebhookLost, Settled
  <1>6. k \in Job /\ k.item = j.item /\ k.phase = "error" /\ k.answered = j.answered
    BY <1>1 DEF Job
  <1>7. JobInv(k)'
    <2>1. status'[j.item] # "none" /\ j.answered = {} BY <1>1, <1>2, <1>3 DEF JobInv
    <2> HIDE DEF k
    <2>2. QED BY <1>6, <2>1 DEF JobInv
  <1>8. PICK K \in SUBSET {k} : running' = [running EXCEPT ![w] = (@ \ {j}) \cup K]
    <2>1. CASE acked
      <3>1. running' = [running EXCEPT ![w] = (@ \ {j}) \cup {}]
        BY <2>1 DEF MarkSent, EndJob
      <3>2. QED BY <3>1
    <2>2. CASE ~acked
      <3>1. running' = [running EXCEPT ![w] = (@ \ {j}) \cup {k}]
        BY <2>2 DEF MarkSent, SetJob
      <3>2. QED BY <3>1
    <2>3. QED BY <2>1, <2>2
  <1> HIDE DEF k
  <1>9. K \in SUBSET Job /\ \A x \in K : JobInv(x)' BY <1>6, <1>7
  <1>10. \A h \in Webhooks : HealthInv(h)' BY <1>2 DEF Inv, HealthInv
  <1>11. /\ attemptCount' \in [Items -> Nat] /\ deadLetters' \subseteq Items
         /\ webhook' \in [Webhooks -> Health] /\ failRun' \in [Webhooks -> Nat]
         /\ notified' \subseteq Items \X Webhooks /\ gaveUp' \subseteq Items \X Webhooks
    BY <1>1, <1>2 DEF TypeOK, Health
  <1>12. QED BY <1>2, <1>3, <1>4, <1>5, <1>8, <1>9, <1>10, <1>11, JobStep

\* recordWebhookDeliveryError: an item set FAILED has its dead letter.
LEMMA RecordErrorInv ==
  ASSUME Inv, NEW w \in Workers, NEW j \in running[w], RecordError(w, j)
  PROVE  Inv'
  <1> DEFINE none == {}
             n == j.attempts + 1
             dead == n >= MaxAttempts
             next == IF dead THEN "FAILED" ELSE "PENDING"
  <1>1. /\ TypeOK /\ j \in Job /\ j.item \in Items /\ n \in Nat
        /\ status \in [Items -> Open \cup {"none", "SENT", "FAILED", "deleted"}]
        /\ attemptCount \in [Items -> Nat] /\ deadLetters \subseteq Items
        /\ running \in [Workers -> SUBSET Job]
    BY DEF Inv, TypeOK, Job
  <1>2. /\ status' = [status EXCEPT ![j.item] = IF @ = "deleted" THEN @ ELSE next]
        /\ attemptCount' = [attemptCount EXCEPT ![j.item] =
                              IF status[j.item] = "deleted" THEN @ ELSE n]
        /\ deadLetters' = IF dead THEN deadLetters \cup {j.item} ELSE deadLetters
        /\ running' = [running EXCEPT ![w] = @ \ {j}]
        /\ UNCHANGED <<outbox, webhook, gaveUp, failRun, waiting, notified, direct>>
    BY DEF RecordError, SetStatus, EndJob, healthVars
  <1>3. next \in {"FAILED", "PENDING"} /\ (next = "FAILED" <=> dead) OBVIOUS
  <1> HIDE DEF n, dead, next
  <1>4. /\ status' \in [Items -> Open \cup {"none", "SENT", "FAILED", "deleted"}]
        /\ attemptCount' \in [Items -> Nat] /\ deadLetters' \subseteq Items
        /\ deadLetters \subseteq deadLetters'
    BY <1>1, <1>2, <1>3 DEF Open
  <1>5. \A i \in Items :
          /\ status[i] # "none" => status'[i] # "none"
          /\ status'[i] = "SENT" => status[i] = "SENT"
          /\ status'[i] = "FAILED" => status[i] = "FAILED" \/ i \in deadLetters'
    BY <1>1, <1>2, <1>3
  <1>6. Progress BY <1>2, <1>5 DEF Progress
  <1>7. NoWebhookLost' BY <1>4, <1>5, <1>6, LostFrame DEF Inv
  <1>8. running' = [running EXCEPT ![w] = (@ \ {j}) \cup none] BY <1>1, <1>2
  <1>9. none \in SUBSET Job /\ \A x \in none : JobInv(x)' OBVIOUS
  <1>10. \A h \in Webhooks : HealthInv(h)' BY <1>2 DEF Inv, HealthInv
  <1>11. /\ webhook' \in [Webhooks -> Health] /\ failRun' \in [Webhooks -> Nat]
         /\ notified' \subseteq Items \X Webhooks /\ gaveUp' \subseteq Items \X Webhooks
    BY <1>1, <1>2 DEF TypeOK, Health
  <1> HIDE DEF none
  <1>12. QED BY <1>2, <1>4, <1>6, <1>7, <1>8, <1>9, <1>10, <1>11, JobStep

-----------------------------------------------------------------------------
(* Direct dispatches: only the health of one webhook changes.                  *)

\* A dispatch lists its webhooks, or finishes one without a trace.
LEMMA DirectQuiet ==
  ASSUME Inv, NEW d \in Dispatches, NEW X \in SUBSET Direct,
         direct' = [direct EXCEPT ![d] = X],
         UNCHANGED <<queueVars, healthVars, workerVars, notified>>
  PROVE  Inv'
  <1>1. UNCHANGED <<status, attemptCount, outbox, deadLetters, webhook, gaveUp, failRun,
                    waiting, running, notified>>
    BY DEF queueVars, healthVars, workerVars
  <1>2. direct \in [Dispatches -> SUBSET Direct] /\ TypeOK BY DEF Inv, TypeOK
  <1>3. direct' \in [Dispatches -> SUBSET Direct] BY <1>2
  <1>4. TypeOK' BY <1>1, <1>2, <1>3 DEF TypeOK
  <1>5. QED
    BY <1>1, <1>4 DEF Inv, NoWebhookLost, WorkerInv, JobInv, Settled, HealthInv

\* The count of one webhook is written, and fits the failures that are counted.
LEMMA DirectWrite ==
  ASSUME Inv, NEW d \in Dispatches, NEW x \in direct[d],
         NEW new \in Health, NEW run \in Nat,
         direct' = [direct EXCEPT ![d] = @ \ {x}],
         webhook' = [webhook EXCEPT ![x.hook] = new],
         failRun' = [failRun EXCEPT ![x.hook] = run],
         new.state = "active" => webhook[x.hook].state = "active" /\ new.failCount < Threshold,
         run <= new.failCount,
         UNCHANGED <<queueVars, workerVars, notified, gaveUp>>
  PROVE  Inv'
  <1>1. PICK h : h = x.hook OBVIOUS
  <1>2. /\ TypeOK /\ webhook \in [Webhooks -> Health] /\ failRun \in [Webhooks -> Nat]
        /\ direct \in [Dispatches -> SUBSET Direct] /\ running \in [Workers -> SUBSET Job]
    BY DEF Inv, TypeOK, Health
  <1>3. h \in Webhooks BY <1>1, <1>2 DEF Direct
  <1>4. /\ webhook' \in [Webhooks -> Health] /\ failRun' \in [Webhooks -> Nat]
        /\ \A g \in Webhooks : /\ webhook'[g] = IF g = h THEN new ELSE webhook[g]
                               /\ failRun'[g] = IF g = h THEN run ELSE failRun[g]
    BY <1>1, <1>2, <1>3
  <1>5. direct' \in [Dispatches -> SUBSET Direct] BY <1>2
  <1>6. UNCHANGED <<status, attemptCount, outbox, deadLetters, waiting, running, notified, gaveUp>>
    BY DEF queueVars, workerVars
  <1>7. TypeOK' BY <1>2, <1>4, <1>5, <1>6 DEF TypeOK, Health
  <1>8. Progress BY <1>1, <1>4, <1>6 DEF Progress
  <1>9. NoWebhookLost' BY <1>6, <1>8, LostFrame DEF Inv
  <1>10. \A w \in Workers : WorkerInv(w)'
    BY <1>2, <1>6, <1>8, JobFrame DEF Inv, WorkerInv
  <1>11. \A g \in Webhooks : HealthInv(g)' BY <1>1, <1>4 DEF Inv, HealthInv
  <1>12. QED BY <1>7, <1>9, <1>10, <1>11 DEF Inv

LEMMA DirectReadInv ==
  ASSUME Inv, NEW d \in Dispatches, DirectRead(d)
  PROVE  Inv'
  <1>1. PICK X : X = {[hook |-> h, failCount |-> webhook[h].failCount] :
                        h \in {g \in DirectHooks : webhook[g].state = "active"}}
    OBVIOUS
  <1>2. webhook \in [Webhooks -> Health] BY DEF Inv, TypeOK, Health
  <1>3. \A h \in DirectHooks : [hook |-> h, failCount |-> webhook[h].failCount] \in Direct
    BY <1>2, QueueAssumption DEF Direct, Health
  <1>4. X \in SUBSET Direct BY <1>1, <1>3
  <1>5. QED BY <1>1, <1>4, DirectQuiet DEF DirectRead

LEMMA DirectDroppedInv ==
  ASSUME Inv, NEW d \in Dispatches, NEW x \in direct[d], DirectDropped(d, x)
  PROVE  Inv'
  <1>1. PICK X : X = direct[d] \ {x} OBVIOUS
  <1>2. direct \in [Dispatches -> SUBSET Direct] BY DEF Inv, TypeOK
  <1>3. X \in SUBSET Direct /\ direct' = [direct EXCEPT ![d] = X]
    BY <1>1, <1>2 DEF DirectDropped
  <1>4. QED BY <1>3, DirectQuiet DEF DirectDropped

LEMMA DirectSuccessInv ==
  ASSUME Inv, NEW d \in Dispatches, NEW x \in direct[d], DirectSuccess(d, x)
  PROVE  Inv'
  <1>1. PICK new : new = [webhook[x.hook] EXCEPT !.failCount = 0] OBVIOUS
  <1>2. x.hook \in Webhooks /\ webhook \in [Webhooks -> Health]
    BY DEF Inv, TypeOK, Direct, Health
  <1>3. new \in Health /\ new.failCount = 0 /\ new.state = webhook[x.hook].state
    BY <1>1, <1>2 DEF Health
  <1>4. webhook' = [webhook EXCEPT ![x.hook] = new] BY <1>1, <1>2 DEF DirectSuccess
  <1>5. /\ direct' = [direct EXCEPT ![d] = @ \ {x}] /\ failRun' = [failRun EXCEPT ![x.hook] = 0]
        /\ UNCHANGED <<queueVars, workerVars, notified, gaveUp>>
    BY DEF DirectSuccess
  <1>6. /\ new.state = "active" => webhook[x.hook].state = "active" /\ new.failCount < Threshold
        /\ 0 \in Nat /\ 0 <= new.failCount
    BY <1>3, QueueAssumption
  <1>7. QED BY <1>3, <1>4, <1>5, <1>6, DirectWrite

\* The absolute write: whatever it takes back, the run of failures starts with it.
LEMMA DirectFailureInv ==
  ASSUME Inv, NEW d \in Dispatches, NEW x \in direct[d], DirectFailure(d, x)
  PROVE  Inv'
  <1> DEFINE n == x.failCount + 1
             new == [state |-> IF n >= Threshold THEN "inactive" ELSE webhook[x.hook].state,
                     failCount |-> n]
             run == IF webhook[x.hook].failCount # x.failCount THEN 1 ELSE failRun[x.hook] + 1
  <1>1. /\ x.hook \in Webhooks /\ x.failCount \in Nat /\ webhook \in [Webhooks -> Health]
        /\ failRun \in [Webhooks -> Nat] /\ HealthInv(x.hook)
    BY DEF Inv, TypeOK, Direct, Health
  <1>2. /\ new \in Health /\ new.failCount = n /\ n \in Nat
        /\ new.state = "active" => webhook[x.hook].state = "active" /\ n < Threshold
    BY <1>1, QueueAssumption DEF Health
  <1>3. run \in Nat /\ run <= n BY <1>1 DEF HealthInv
  <1>4. /\ webhook' = [webhook EXCEPT ![x.hook] = new]
        /\ failRun' = [failRun EXCEPT ![x.hook] = run]
    BY <1>1 DEF DirectFailure
  <1>5. /\ direct' = [direct EXCEPT ![d] = @ \ {x}]
        /\ UNCHANGED <<queueVars, workerVars, notified, gaveUp>>
    BY DEF DirectFailure
  <1> HIDE DEF n, new, run
  <1>6. QED BY <1>2, <1>3, <1>4, <1>5, DirectWrite

-----------------------------------------------------------------------------
\* The inductive step.
LEMMA NextInv == Inv /\ [Next]_vars => Inv'
  <1> SUFFICES ASSUME Inv, [Next]_vars PROVE Inv' OBVIOUS
  <1>1. ASSUME NEW w \in Workers, NEW j \in running[w], ItemStep(w, j) PROVE Inv'
    BY <1>1, ReadOutboxInv, ResolveSubscribersInv, ThrowsInv, PostInv, RecoverableInv,
       OnSuccessInv, OnFailureInv, EndPassInv, MarkSentInv, RecordErrorInv, RecordErrorFailsInv
    DEF ItemStep
  <1>2. CASE Next
    BY <1>1, <1>2, ClaimInv, StartChunkInv, CrashInv, RowStepInv, DeleteWebhookInv,
       DirectReadInv, DirectSuccessInv, DirectFailureInv, DirectDroppedInv
    DEF Next, RowStep
  <1>3. CASE UNCHANGED vars
    BY <1>3 DEF vars, Inv, TypeOK, NoWebhookLost, WorkerInv, JobInv, Settled, HealthInv
  <1>4. QED BY <1>2, <1>3

LEMMA Invariance == Spec => []Inv
  BY InitInv, NextInv, PTL DEF Spec

\* The columns keep their types through claims, crashes, reaping and purging.
THEOREM TypeSafety == Spec => []TypeOK
  <1>1. Inv => TypeOK BY DEF Inv
  <1>2. QED BY Invariance, <1>1, PTL

\* An item is SENT only when every live subscriber was answered or had its failure
\* counted, unless the payload was gone, and FAILED only with a dead letter:
\* however many workers hold stale claims of it.
THEOREM WebhooksKept == Spec => []NoWebhookLost
  <1>1. Inv => NoWebhookLost BY DEF Inv
  <1>2. QED BY Invariance, <1>1, PTL

\* A webhook with Threshold failures since its last success is disabled, however
\* many workers and direct dispatches count failures of it at once; a direct dispatch
\* that writes over a count which has moved since it read it starts the run anew.
THEOREM AutoDisable == Spec => []BrokenWebhookDisabled
  <1>1. Inv => BrokenWebhookDisabled
    <2>1. SUFFICES ASSUME Inv, NEW h \in Webhooks, failRun[h] >= Threshold
                   PROVE  webhook[h].state # "active"
      BY DEF BrokenWebhookDisabled
    <2>2. failRun[h] \in Nat /\ webhook[h].failCount \in Nat BY <2>1 DEF Inv, TypeOK
    <2>3. HealthInv(h) BY <2>1 DEF Inv
    <2>4. QED BY <2>1, <2>2, <2>3, QueueAssumption DEF HealthInv
  <1>2. QED BY Invariance, <1>1, PTL

==============================================================================
