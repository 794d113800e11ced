-------------------------- MODULE AuditOutboxProofs --------------------------
(* Theorems about AuditOutbox for every number of tenants, rows and workers.   *)
EXTENDS AuditOutbox, SequenceTheorems, FiniteSetTheorems, TLAPS

\* The number of rows of a batch that belong to one tenant is a number.
LEMMA BatchCount ==
  ASSUME NEW B \in SUBSET Rows, NEW t
  PROVE  Cardinality({r \in B : TenantOf[r] = t}) \in Nat
<1>1. IsFiniteSet({r \in B : TenantOf[r] = t})
  <2>1. {r \in B : TenantOf[r] = t} \subseteq Rows
    OBVIOUS
  <2> QED BY <2>1, FS_Subset, RowAssumption
<1> QED BY <1>1, FS_CardinalityType

\* The records a delivery writes are audit_logs rows.
LEMMA LogTypes ==
  ASSUME NEW r \in Rows, NEW a \in [seq : Nat, prevHash : Hash]
  PROVE  /\ UnchainedLog(r) \in AuditLog
         /\ ChainedLog(r, a) \in AuditLog
         /\ [seq |-> ChainedLog(r, a).chainSeq, prevHash |-> ChainedLog(r, a).eventHash]
              \in [seq : Nat, prevHash : Hash]
<1>1. a.seq \in Nat /\ a.prevHash \in Hash
  OBVIOUS
<1>2. Genesis \in Hash /\ EventHash(r, a.seq + 1) \in Hash
  BY <1>1 DEF Genesis, EventHash, Hash
<1> QED BY <1>1, <1>2 DEF UnchainedLog, ChainedLog, AuditLog

\* A worker's batch stays a set of snapshots when a row is finished.
LEMMA FinishType ==
  ASSUME held \in [Workers -> SUBSET Snapshot],
         NEW w \in Workers, NEW s \in held[w], NEW acked \in BOOLEAN,
         Finish(w, s, acked)
  PROVE  held' \in [Workers -> SUBSET Snapshot]
<1>1. s \in Snapshot
  OBVIOUS
<1>2. [s EXCEPT !.failed = TRUE] \in Snapshot
  BY <1>1 DEF Snapshot
<1>3. (held[w] \ {s}) \cup (IF acked THEN {} ELSE {[s EXCEPT !.failed = TRUE]})
        \in SUBSET Snapshot
  BY <1>2
<1> QED BY <1>3 DEF Finish

\* Every claimed row is processed with well-typed results.
LEMMA ProcessRowType ==
  ASSUME TypeOK, NEW w \in Workers, NEW s \in held[w], ProcessRow(w, s)
  PROVE  TypeOK'
<1> USE DEF TypeOK
<1>1. s \in Snapshot /\ s.row \in Rows /\ s.attempts \in Nat
  BY DEF Snapshot
<1>2. \A x \in Status : SetStatus(s.row, x) => status' \in [Rows -> Status]
  BY <1>1 DEF SetStatus
<1>3. {"SENT", "PENDING", "FAILED"} \subseteq Status
  BY DEF Status
<1>4. TenantOf[s.row] \in Tenants /\ anchors[TenantOf[s.row]] \in [seq : Nat, prevHash : Hash]
  BY <1>1, TenantAssumption
<1>5. EnqueueFanout(s.row) => fanout' \in [Rows -> {"none", "open", "closed"}]
  BY <1>1 DEF EnqueueFanout
<1>6. ASSUME NEW acked \in BOOLEAN, DeliverRow(w, s, acked)
      PROVE  TypeOK'
  <2>1. held' \in [Workers -> SUBSET Snapshot]
    BY <1>6, FinishType DEF DeliverRow
  <2>2. auditLogs' \in Seq(AuditLog)
    <3>1. UnchainedLog(s.row) \in AuditLog
      BY <1>1, <1>4, LogTypes
    <3>2. Append(auditLogs, UnchainedLog(s.row)) \in Seq(AuditLog)
      BY <3>1, AppendProperties
    <3> QED BY <1>6, <3>2 DEF DeliverRow
  <2>3. status' \in [Rows -> Status]
    BY <1>2, <1>3, <1>6 DEF DeliverRow
  <2>4. fanout' \in [Rows -> {"none", "open", "closed"}]
    BY <1>5, <1>6 DEF DeliverRow
  <2> QED BY <1>6, <2>1, <2>2, <2>3, <2>4 DEF DeliverRow, envVars
<1>7. ASSUME NEW acked \in BOOLEAN, DeliverRowWithChain(w, s, acked)
      PROVE  TypeOK'
  <2>1. held' \in [Workers -> SUBSET Snapshot]
    BY <1>7, FinishType DEF DeliverRowWithChain
  <2>0. /\ ChainedLog(s.row, anchors[TenantOf[s.row]]) \in AuditLog
        /\ ChainedLog(s.row, anchors[TenantOf[s.row]]).chainSeq \in Nat
        /\ ChainedLog(s.row, anchors[TenantOf[s.row]]).eventHash \in Hash
    BY <1>1, <1>4, LogTypes DEF AuditLog
  <2>2. auditLogs' \in Seq(AuditLog)
    <3>1. Append(auditLogs, ChainedLog(s.row, anchors[TenantOf[s.row]])) \in Seq(AuditLog)
      BY <2>0, AppendProperties
    <3> QED BY <1>7, <3>1 DEF DeliverRowWithChain
  <2>3. status' \in [Rows -> Status]
    BY <1>2, <1>3, <1>7 DEF DeliverRowWithChain
  <2>4. fanout' \in [Rows -> {"none", "open", "closed"}]
    BY <1>5, <1>7 DEF DeliverRowWithChain
  <2>5. anchors' \in [Tenants -> [seq : Nat, prevHash : Hash]]
    <3> DEFINE log == ChainedLog(s.row, anchors[TenantOf[s.row]])
    <3>1. [seq |-> log.chainSeq, prevHash |-> log.eventHash] \in [seq : Nat, prevHash : Hash]
      BY <2>0
    <3>2. \/ anchors' = anchors
          \/ anchors' = [anchors EXCEPT ![TenantOf[s.row]] =
                           [seq |-> log.chainSeq, prevHash |-> log.eventHash]]
      BY <1>7 DEF DeliverRowWithChain
    <3> HIDE DEF log
    <3> QED BY <1>4, <3>1, <3>2
  <2> QED BY <1>7, <2>1, <2>2, <2>3, <2>4, <2>5 DEF DeliverRowWithChain, envVars
<1>8. ASSUME NEW acked \in BOOLEAN, SkipPaused(w, s, acked)
      PROVE  TypeOK'
  <2>1. held' \in [Workers -> SUBSET Snapshot]
    BY <1>8, FinishType DEF SkipPaused
  <2>2. status' \in [Rows -> Status]
    BY <1>2, <1>3, <1>8 DEF SkipPaused
  <2> QED BY <1>8, <2>1, <2>2 DEF SkipPaused, envVars
<1>9. CASE RecordError(w, s)
  <2>1. held' \in [Workers -> SUBSET Snapshot]
    BY <1>9, FinishType DEF RecordError
  <2>2. status' \in [Rows -> Status]
    BY <1>2, <1>3, <1>9 DEF RecordError
  <2>3. attemptCount' \in [Rows -> Nat]
    BY <1>1, <1>9 DEF RecordError
  <2>4. directLogs' \subseteq [action : {"DEAD_LETTER", "REAPED"}, row : Rows]
    BY <1>1, <1>9 DEF RecordError
  <2> QED BY <1>9, <2>1, <2>2, <2>3, <2>4 DEF RecordError, envVars
<1>10. CASE RecordErrorFails(w, s)
  <2>1. held' \in [Workers -> SUBSET Snapshot]
    BY <1>10, FinishType DEF RecordErrorFails
  <2> QED BY <1>10, <2>1 DEF RecordErrorFails, dbVars, envVars
<1> QED BY <1>6, <1>7, <1>8, <1>9, <1>10 DEF ProcessRow

\* TypeOK is an invariant of the outbox pipeline.
THEOREM TypeCorrect == Spec => []TypeOK
<1>1. Init => TypeOK
  BY EmptySeq DEF Init, TypeOK, Status, Hash, Genesis
<1>2. TypeOK /\ [Next]_vars => TypeOK'
  <2> SUFFICES ASSUME TypeOK, [Next]_vars PROVE TypeOK'
    OBVIOUS
  <2> USE DEF TypeOK
  <2>1. ASSUME NEW w \in Workers, NEW B \in SUBSET Rows, ClaimBatch(w, B)
        PROVE  TypeOK'
    <3>1. {[row |-> r, attempts |-> attemptCount[r], failed |-> FALSE] : r \in B}
            \in SUBSET Snapshot
      <4>1. \A r \in B : [row |-> r, attempts |-> attemptCount[r], failed |-> FALSE] \in Snapshot
        BY <2>1 DEF Snapshot
      <4> QED BY <4>1
    <3>2. held' \in [Workers -> SUBSET Snapshot]
      BY <2>1, <3>1 DEF ClaimBatch
    <3>3. status' \in [Rows -> Status]
      BY <2>1 DEF ClaimBatch, Status
    <3> QED BY <2>1, <3>2, <3>3 DEF ClaimBatch, envVars
  <2>2. ASSUME NEW w \in Workers, NEW t \in Tenants, CheckChainEnabled(w, t)
        PROVE  TypeOK'
    BY <2>2 DEF CheckChainEnabled, dbVars, envVars
  <2>3. ASSUME NEW w \in Workers, NEW s \in held[w], ProcessRow(w, s)
        PROVE  TypeOK'
    BY <2>3, ProcessRowType
  <2>4. ASSUME NEW w \in Workers, Crash(w)
        PROVE  TypeOK'
    BY <2>4 DEF Crash, dbVars, envVars
  <2>5. ASSUME NEW r \in Rows, ReapStuckRow(r)
        PROVE  TypeOK'
    BY <2>5 DEF ReapStuckRow, Status, workerVars, envVars
  <2>6. ASSUME NEW B \in SUBSET Rows, PurgeSentAged(B) \/ PurgeFailedAged(B)
        PROVE  TypeOK'
    <3>1. status' \in [Rows -> Status]
      BY <2>6 DEF PurgeSentAged, PurgeFailedAged, PurgeRows, Status
    <3>2. purgeReported' \in [Tenants -> Nat]
      <4> DEFINE count(t) == Cardinality({r \in B : TenantOf[r] = t})
      <4>1. \A t \in Tenants : count(t) \in Nat
        BY BatchCount
      <4>2. purgeReported' = [t \in Tenants |->
              purgeReported[t] + count(t)]
        BY <2>6 DEF PurgeSentAged, PurgeFailedAged, PurgeRows
      <4> HIDE DEF count
      <4> QED BY <4>1, <4>2
    <3> QED BY <2>6, <3>1, <3>2 DEF PurgeSentAged, PurgeFailedAged, workerVars, envVars
  <2>7. ASSUME NEW t \in Tenants, NEW B \in SUBSET Rows, OperatorPurgeFailed(t, B)
        PROVE  TypeOK'
    BY <2>7 DEF OperatorPurgeFailed, Status, workerVars, envVars
  <2>8. ASSUME NEW r \in Rows, EnqueueAudit(r) \/ CloseFanout(r) \/ ReopenFanout(r)
        PROVE  TypeOK'
    BY <2>8 DEF EnqueueAudit, CloseFanout, ReopenFanout, Status, workerVars, envVars
  <2>9. ASSUME NEW t \in Tenants, SetChainEnabled(t) \/ SetPaused(t)
        PROVE  TypeOK'
    BY <2>9 DEF SetChainEnabled, SetPaused, dbVars, workerVars
  <2>10. CASE UNCHANGED vars
    BY <2>10 DEF vars
  <2> QED BY <2>1, <2>2, <2>3, <2>4, <2>5, <2>6, <2>7, <2>8, <2>9, <2>10
            DEF Next, WorkerStep, Maintenance, Environment
<1> QED BY <1>1, <1>2, PTL DEF Spec

----------------------------------------------------------------------------
(* Everything the transactions do to audit_logs and the anchors: nothing, or   *)
(* the INSERT of a row that was not there, unchained or at the chain's head.   *)
InsertUnchained(r) ==
  /\ ~Logged(r)
  /\ auditLogs' = Append(auditLogs, UnchainedLog(r))
  /\ anchors' = anchors

InsertChained(r) ==
  /\ ~Logged(r)
  /\ auditLogs' = Append(auditLogs, ChainedLog(r, anchors[TenantOf[r]]))
  /\ anchors' = [anchors EXCEPT ![TenantOf[r]] =
                   [seq |-> ChainedLog(r, anchors[TenantOf[r]]).chainSeq,
                    prevHash |-> ChainedLog(r, anchors[TenantOf[r]]).eventHash]]

LogStep ==
  \/ auditLogs' = auditLogs /\ anchors' = anchors
  \/ \E r \in Rows : InsertUnchained(r) \/ InsertChained(r)

\* Whatever step the pipeline takes, it is one of those three.
LEMMA StepsOfTheLog ==
  ASSUME TypeOK, [Next]_vars
  PROVE  LogStep
<1>1. ASSUME NEW w \in Workers, NEW s \in held[w], ProcessRow(w, s)
      PROVE  LogStep
  <2>1. s.row \in Rows
    BY DEF TypeOK, Snapshot
  <2>2. ASSUME NEW acked \in BOOLEAN, DeliverRow(w, s, acked)
        PROVE  LogStep
    BY <2>1, <2>2 DEF DeliverRow, LogStep, InsertUnchained
  <2>3. ASSUME NEW acked \in BOOLEAN, DeliverRowWithChain(w, s, acked)
        PROVE  LogStep
    BY <2>1, <2>3 DEF DeliverRowWithChain, LogStep, InsertChained
  <2>4. ASSUME NEW acked \in BOOLEAN, SkipPaused(w, s, acked)
        PROVE  LogStep
    BY <2>4 DEF SkipPaused, LogStep
  <2>5. CASE RecordError(w, s) \/ RecordErrorFails(w, s)
    BY <2>5 DEF RecordError, RecordErrorFails, dbVars, LogStep
  <2> QED BY <1>1, <2>2, <2>3, <2>4, <2>5 DEF ProcessRow
<1>2. ASSUME NEW w \in Workers, WorkerStep(w)
      PROVE  LogStep
  BY <1>1, <1>2 DEF WorkerStep, ClaimBatch, CheckChainEnabled, Crash, dbVars, LogStep
<1>3. CASE Maintenance \/ Environment
  BY <1>3 DEF Maintenance, Environment, ReapStuckRow, PurgeSentAged, PurgeFailedAged,
     OperatorPurgeFailed, EnqueueAudit, CloseFanout, ReopenFanout, SetChainEnabled,
     SetPaused, dbVars, LogStep
<1>4. CASE UNCHANGED vars
  BY <1>4 DEF vars, LogStep
<1> QED BY <1>2, <1>3, <1>4 DEF Next

\* How an INSERT changes what can be said of audit_logs, in terms of indices.
LEMMA AppendFacts ==
  ASSUME auditLogs \in Seq(AuditLog), NEW log \in AuditLog,
         auditLogs' = Append(auditLogs, log)
  PROVE  /\ DOMAIN auditLogs = 1..Len(auditLogs) /\ Len(auditLogs) \in Nat
         /\ DOMAIN auditLogs' = 1..(Len(auditLogs) + 1)
         /\ \A i \in DOMAIN auditLogs : i \in DOMAIN auditLogs' /\ auditLogs'[i] = auditLogs[i]
         /\ auditLogs'[Len(auditLogs) + 1] = log
         /\ \A i \in DOMAIN auditLogs' : i \in DOMAIN auditLogs \/ i = Len(auditLogs) + 1
<1>1. Len(auditLogs) \in Nat /\ DOMAIN auditLogs = 1..Len(auditLogs)
  BY LenProperties
<1>2. /\ auditLogs' \in Seq(AuditLog)
      /\ Len(auditLogs') = Len(auditLogs) + 1
      /\ \A i \in 1..Len(auditLogs) : auditLogs'[i] = auditLogs[i]
      /\ auditLogs'[Len(auditLogs) + 1] = log
  BY AppendProperties
<1>3. DOMAIN auditLogs' = 1..Len(auditLogs')
  BY <1>2, LenProperties
<1> QED BY <1>1, <1>2, <1>3

\* The INSERTs write audit_logs rows.
LEMMA InsertedTypes ==
  ASSUME TypeOK, NEW r \in Rows
  PROVE  /\ TenantOf[r] \in Tenants
         /\ anchors[TenantOf[r]].seq \in Nat
         /\ UnchainedLog(r) \in AuditLog
         /\ ChainedLog(r, anchors[TenantOf[r]]) \in AuditLog
<1>1. TenantOf[r] \in Tenants
  BY TenantAssumption
<1>2. anchors[TenantOf[r]] \in [seq : Nat, prevHash : Hash]
  BY <1>1 DEF TypeOK
<1> QED BY <1>1, <1>2, LogTypes

\* audit_logs holds at most one row per outbox row, for every schedule of workers,
\* reaper and retries (the unique index and ON CONFLICT DO NOTHING).
THEOREM AtMostOnce == Spec => []LoggedAtMostOnce
<1>1. Init => LoggedAtMostOnce
  BY DEF Init, LoggedAtMostOnce
<1>2. TypeOK /\ LoggedAtMostOnce /\ [Next]_vars => LoggedAtMostOnce'
  <2> SUFFICES ASSUME TypeOK, LoggedAtMostOnce, [Next]_vars PROVE LoggedAtMostOnce'
    OBVIOUS
  <2>1. ASSUME NEW r \in Rows, NEW log \in AuditLog, log.outbox = r, ~Logged(r),
               auditLogs' = Append(auditLogs, log)
        PROVE  LoggedAtMostOnce'
    BY <2>1, AppendFacts DEF TypeOK, Logged, LoggedAtMostOnce
  <2>2. ASSUME NEW r \in Rows, InsertUnchained(r) PROVE LoggedAtMostOnce'
    BY <2>1, <2>2, InsertedTypes DEF InsertUnchained, UnchainedLog
  <2>3. ASSUME NEW r \in Rows, InsertChained(r) PROVE LoggedAtMostOnce'
    BY <2>1, <2>3, InsertedTypes DEF InsertChained, ChainedLog
  <2>4. CASE auditLogs' = auditLogs
    BY <2>4 DEF LoggedAtMostOnce
  <2> QED BY <2>2, <2>3, <2>4, StepsOfTheLog DEF LogStep
<1> QED BY <1>1, <1>2, TypeCorrect, PTL DEF Spec

----------------------------------------------------------------------------
\* Positions of the chain keep their hash when a row is inserted.
LEMMA HashAtKept ==
  ASSUME TypeOK, NEW log \in AuditLog, auditLogs' = Append(auditLogs, log),
         NEW t, NEW n, NEW h, HashAt(t, n, h)
  PROVE  HashAt(t, n, h)'
<1>1. CASE n = 0 /\ h = Genesis
  BY <1>1 DEF HashAt
<1>2. ASSUME NEW i \in DOMAIN auditLogs,
             TenantOf[auditLogs[i].outbox] = t, auditLogs[i].chainSeq = n,
             n > 0, auditLogs[i].eventHash = h
      PROVE  HashAt(t, n, h)'
  <2>1. i \in DOMAIN auditLogs' /\ auditLogs'[i] = auditLogs[i]
    BY AppendFacts DEF TypeOK
  <2> QED BY <1>2, <2>1 DEF HashAt
<1> QED BY <1>1, <1>2 DEF HashAt

\* An unchained row leaves every chain as it was.
LEMMA UnchainedKeepsChain ==
  ASSUME TypeOK, ChainIntact, NEW r \in Rows, InsertUnchained(r)
  PROVE  ChainIntact'
<1> DEFINE log == UnchainedLog(r)
<1>1. log \in AuditLog /\ auditLogs' = Append(auditLogs, log) /\ anchors' = anchors
  BY InsertedTypes DEF InsertUnchained
<1>2. log.chainSeq = 0 /\ log.outbox = r
  BY DEF UnchainedLog
<1> HIDE DEF log
<1>3. /\ \A i \in DOMAIN auditLogs : i \in DOMAIN auditLogs' /\ auditLogs'[i] = auditLogs[i]
      /\ auditLogs'[Len(auditLogs) + 1] = log
      /\ \A i \in DOMAIN auditLogs' : i \in DOMAIN auditLogs \/ i = Len(auditLogs) + 1
  BY <1>1, AppendFacts DEF TypeOK
<1>4. \A t, n, h : HashAt(t, n, h) => HashAt(t, n, h)'
  BY <1>1, HashAtKept
<1>5. ChainLinked'
  <2> SUFFICES ASSUME NEW i \in DOMAIN auditLogs', auditLogs'[i].chainSeq > 0
               PROVE  HashAt(TenantOf[auditLogs[i].outbox], auditLogs[i].chainSeq - 1,
                             auditLogs[i].prevHash)'
    BY DEF ChainLinked
  <2>1. i \in DOMAIN auditLogs /\ auditLogs'[i] = auditLogs[i]
    BY <1>2, <1>3
  <2>2. HashAt(TenantOf[auditLogs[i].outbox], auditLogs[i].chainSeq - 1, auditLogs[i].prevHash)
    BY <2>1 DEF ChainIntact, ChainLinked
  <2> QED BY <1>4, <2>1, <2>2
<1>6. ChainUnforked'
  BY <1>2, <1>3 DEF ChainIntact, ChainUnforked
<1>7. AnchorIsHead'
  <2>1. ASSUME NEW t \in Tenants PROVE HashAt(t, anchors[t].seq, anchors[t].prevHash)'
    BY <1>1, <1>4 DEF ChainIntact, AnchorIsHead
  <2>2. ASSUME NEW t \in Tenants, NEW n \in 1..anchors'[t].seq
        PROVE  \E i \in DOMAIN auditLogs' :
                 TenantOf[auditLogs'[i].outbox] = t /\ auditLogs'[i].chainSeq = n
    BY <1>1, <1>3, <2>2 DEF ChainIntact, AnchorIsHead
  <2>3. ASSUME NEW i \in DOMAIN auditLogs'
        PROVE  auditLogs'[i].chainSeq <= anchors'[TenantOf[auditLogs'[i].outbox]].seq
    BY <1>1, <1>2, <1>3, InsertedTypes DEF ChainIntact, AnchorIsHead
  <2> QED BY <2>1, <2>2, <2>3 DEF AnchorIsHead
<1> QED BY <1>5, <1>6, <1>7 DEF ChainIntact

\* A chained row becomes the new head of its tenant's chain.
LEMMA ChainedKeepsChain ==
  ASSUME TypeOK, ChainIntact, NEW r \in Rows, InsertChained(r)
  PROVE  ChainIntact'
<1> DEFINE T == TenantOf[r]
           log == ChainedLog(r, anchors[T])
           k == anchors[T].seq
<1>1. /\ log \in AuditLog /\ auditLogs' = Append(auditLogs, log)
      /\ T \in Tenants /\ k \in Nat
      /\ anchors' = [anchors EXCEPT ![T] = [seq |-> log.chainSeq, prevHash |-> log.eventHash]]
  BY InsertedTypes DEF InsertChained
<1>2. log.chainSeq = k + 1 /\ log.outbox = r /\ log.prevHash = anchors[T].prevHash
  BY DEF ChainedLog
<1>3. /\ \A i \in DOMAIN auditLogs : i \in DOMAIN auditLogs' /\ auditLogs'[i] = auditLogs[i]
      /\ auditLogs'[Len(auditLogs) + 1] = log
      /\ Len(auditLogs) + 1 \in DOMAIN auditLogs'
      /\ \A i \in DOMAIN auditLogs' : i \in DOMAIN auditLogs \/ i = Len(auditLogs) + 1
  BY <1>1, AppendFacts DEF TypeOK
<1>4. \A t, n, h : HashAt(t, n, h) => HashAt(t, n, h)'
  BY <1>1, HashAtKept
<1>5. /\ anchors'[T].seq = k + 1 /\ anchors'[T].prevHash = log.eventHash
      /\ \A t \in Tenants \ {T} : anchors'[t] = anchors[t]
      /\ \A t \in Tenants : anchors[t].seq \in Nat /\ anchors'[t].seq \in Nat
  BY <1>1, <1>2 DEF TypeOK
<1>6. \A i \in DOMAIN auditLogs :
        /\ auditLogs[i].chainSeq \in Nat
        /\ TenantOf[auditLogs[i].outbox] \in Tenants
        /\ auditLogs[i].chainSeq <= anchors[TenantOf[auditLogs[i].outbox]].seq
  <2> SUFFICES ASSUME NEW i \in DOMAIN auditLogs
               PROVE  /\ auditLogs[i].chainSeq \in Nat
                      /\ TenantOf[auditLogs[i].outbox] \in Tenants
                      /\ auditLogs[i].chainSeq <= anchors[TenantOf[auditLogs[i].outbox]].seq
    OBVIOUS
  <2>1. auditLogs[i] \in AuditLog
    BY ElementOfSeq, LenProperties DEF TypeOK
  <2> QED BY <2>1, TenantAssumption DEF AuditLog, ChainIntact, AnchorIsHead
<1> HIDE DEF log, k, T
<1>7. ChainLinked'
  <2> SUFFICES ASSUME NEW i \in DOMAIN auditLogs', auditLogs'[i].chainSeq > 0
               PROVE  HashAt(TenantOf[auditLogs[i].outbox], auditLogs[i].chainSeq - 1,
                             auditLogs[i].prevHash)'
    BY DEF ChainLinked
  <2>1. CASE i \in DOMAIN auditLogs
    <3>1. auditLogs'[i] = auditLogs[i]
      BY <1>3, <2>1
    <3>2. HashAt(TenantOf[auditLogs[i].outbox], auditLogs[i].chainSeq - 1, auditLogs[i].prevHash)
      BY <2>1, <3>1 DEF ChainIntact, ChainLinked
    <3> QED BY <1>4, <3>1, <3>2
  <2>2. CASE i = Len(auditLogs) + 1
    <3>1. auditLogs'[i] = log
      BY <1>3, <2>2
    <3>2. \A n, h : n = k /\ h = anchors[T].prevHash => HashAt(T, n, h)'
      BY <1>1, <1>4 DEF ChainIntact, AnchorIsHead, k
    <3>3. TenantOf[log.outbox] = T /\ log.chainSeq - 1 = k
      BY <1>1, <1>2 DEF T
    <3> QED BY <1>2, <3>1, <3>2, <3>3
  <2> QED BY <1>3, <2>1, <2>2
<1>8. ChainUnforked'
  <2> SUFFICES ASSUME NEW i \in DOMAIN auditLogs', NEW j \in DOMAIN auditLogs',
                      TenantOf[auditLogs'[i].outbox] = TenantOf[auditLogs'[j].outbox],
                      auditLogs'[i].chainSeq = auditLogs'[j].chainSeq,
                      auditLogs'[i].chainSeq > 0
               PROVE  i = j
    BY DEF ChainUnforked
  <2>1. ASSUME NEW m \in DOMAIN auditLogs, TenantOf[auditLogs[m].outbox] = T
        PROVE  auditLogs[m].chainSeq # k + 1
    BY <1>1, <1>6, <2>1 DEF k
  <2>2. TenantOf[log.outbox] = T
    BY <1>2 DEF T
  <2>3. CASE i \in DOMAIN auditLogs /\ j \in DOMAIN auditLogs
    BY <1>3, <2>3 DEF ChainIntact, ChainUnforked
  <2>4. CASE i \in DOMAIN auditLogs /\ j = Len(auditLogs) + 1
    BY <1>2, <1>3, <2>1, <2>2, <2>4
  <2>5. CASE j \in DOMAIN auditLogs /\ i = Len(auditLogs) + 1
    BY <1>2, <1>3, <2>1, <2>2, <2>5
  <2> QED BY <1>3, <2>3, <2>4, <2>5
<1>9. AnchorIsHead'
  <2>1. ASSUME NEW t \in Tenants PROVE HashAt(t, anchors[t].seq, anchors[t].prevHash)'
    <3>1. CASE t = T
      <4>1. \A n, h : n = k + 1 /\ h = log.eventHash => HashAt(T, n, h)'
        <5>1. TenantOf[log.outbox] = T /\ k + 1 > 0
          BY <1>1, <1>2 DEF T
        <5> QED BY <1>2, <1>3, <5>1 DEF HashAt
      <4> QED BY <1>5, <3>1, <4>1
    <3>2. CASE t # T
      BY <1>4, <1>5, <3>2 DEF ChainIntact, AnchorIsHead
    <3> QED BY <3>1, <3>2
  <2>2. ASSUME NEW t \in Tenants, NEW n \in 1..anchors'[t].seq
        PROVE  \E i \in DOMAIN auditLogs' :
                 TenantOf[auditLogs'[i].outbox] = t /\ auditLogs'[i].chainSeq = n
    <3>1. CASE n \in 1..anchors[t].seq
      BY <1>3, <3>1 DEF ChainIntact, AnchorIsHead
    <3>2. CASE n \notin 1..anchors[t].seq
      <4>1. t = T /\ n = k + 1
        BY <1>1, <1>5, <2>2, <3>2 DEF k
      <4>2. TenantOf[log.outbox] = T
        BY <1>2 DEF T
      <4> QED BY <1>2, <1>3, <4>1, <4>2
    <3> QED BY <3>1, <3>2
  <2>3. ASSUME NEW i \in DOMAIN auditLogs'
        PROVE  auditLogs'[i].chainSeq <= anchors'[TenantOf[auditLogs'[i].outbox]].seq
    <3>1. CASE i \in DOMAIN auditLogs
      BY <1>1, <1>3, <1>5, <1>6, <3>1 DEF k
    <3>2. CASE i = Len(auditLogs) + 1
      <4>1. TenantOf[log.outbox] = T
        BY <1>2 DEF T
      <4> QED BY <1>1, <1>2, <1>3, <1>5, <3>2, <4>1
    <3> QED BY <1>3, <3>1, <3>2
  <2> QED BY <2>1, <2>2, <2>3 DEF AnchorIsHead
<1> QED BY <1>7, <1>8, <1>9 DEF ChainIntact

\* The chain of every tenant is contiguous, unforked and linked up to its anchor,
\* however many workers deliver, and whenever chaining is switched or paused.
THEOREM ChainAlwaysIntact == Spec => []ChainIntact
<1>1. Init => ChainIntact
  BY DEF Init, ChainIntact, ChainLinked, ChainUnforked, AnchorIsHead, HashAt
<1>2. TypeOK /\ ChainIntact /\ [Next]_vars => ChainIntact'
  <2> SUFFICES ASSUME TypeOK, ChainIntact, [Next]_vars PROVE ChainIntact'
    OBVIOUS
  <2>1. CASE auditLogs' = auditLogs /\ anchors' = anchors
    BY <2>1 DEF ChainIntact, ChainLinked, ChainUnforked, AnchorIsHead, HashAt
  <2> QED BY <2>1, StepsOfTheLog, UnchainedKeepsChain, ChainedKeepsChain DEF LogStep
<1> QED BY <1>1, <1>2, TypeCorrect, PTL DEF Spec

----------------------------------------------------------------------------
(* The accounting of rows.  The status of a row is overwritten by workers that *)
(* lost it long ago, so nothing about it alone is inductive; what is, is the   *)
(* tie between the status and the two permanent records, audit_logs and the    *)
(* dead letters.                                                               *)
HeldIsEnqueued == \A w \in Workers : \A s \in held[w] : status[s.row] # "none"

RowsAccounted ==
  /\ SentIsLogged
  /\ FailedIsDeadLettered
  /\ DeletedIsAccountedFor
  /\ FanoutWithLog
  /\ HeldIsEnqueued

\* An audit log and a dead letter are permanent.
LEMMA RecordsArePermanent ==
  ASSUME TypeOK, [Next]_vars
  PROVE  \A r \in Rows : (Logged(r) => Logged(r)') /\ (DeadLettered(r) => DeadLettered(r)')
<1>1. ASSUME NEW r \in Rows, Logged(r) PROVE Logged(r)'
  <2>1. ASSUME NEW q \in Rows, InsertUnchained(q) \/ InsertChained(q)
        PROVE  Logged(r)'
    BY <1>1, <2>1, InsertedTypes, AppendFacts
       DEF TypeOK, InsertUnchained, InsertChained, Logged
  <2>2. CASE auditLogs' = auditLogs
    BY <1>1, <2>2 DEF Logged
  <2> QED BY <2>1, <2>2, StepsOfTheLog DEF LogStep
<1>2. directLogs \subseteq directLogs'
  <2>1. ASSUME NEW w \in Workers, NEW s \in held[w], ProcessRow(w, s)
        PROVE  directLogs \subseteq directLogs'
    BY <2>1 DEF ProcessRow, DeliverRow, DeliverRowWithChain, SkipPaused, RecordError,
       RecordErrorFails, dbVars
  <2>2. ASSUME NEW w \in Workers, WorkerStep(w)
        PROVE  directLogs \subseteq directLogs'
    BY <2>1, <2>2 DEF WorkerStep, ClaimBatch, CheckChainEnabled, Crash, dbVars
  <2>3. CASE Maintenance \/ Environment
    BY <2>3 DEF Maintenance, Environment, ReapStuckRow, PurgeSentAged, PurgeFailedAged,
       OperatorPurgeFailed, EnqueueAudit, CloseFanout, ReopenFanout, SetChainEnabled,
       SetPaused, dbVars
  <2>4. CASE UNCHANGED vars
    BY <2>4 DEF vars
  <2> QED BY <2>2, <2>3, <2>4 DEF Next
<1> QED BY <1>1, <1>2 DEF DeadLettered

\* A delivery ends with the row logged.
LEMMA DeliveredIsLogged ==
  ASSUME TypeOK, NEW w \in Workers, NEW s \in held[w], NEW acked \in BOOLEAN,
         DeliverRow(w, s, acked) \/ DeliverRowWithChain(w, s, acked)
  PROVE  Logged(s.row)'
<1>1. s.row \in Rows
  BY DEF TypeOK, Snapshot
<1>2. CASE Logged(s.row)
  BY <1>2 DEF DeliverRow, DeliverRowWithChain, Logged
<1>3. CASE ~Logged(s.row)
  <2>1. PICK log \in AuditLog : log.outbox = s.row /\ auditLogs' = Append(auditLogs, log)
    <3>1. /\ UnchainedLog(s.row) \in AuditLog
          /\ ChainedLog(s.row, anchors[TenantOf[s.row]]) \in AuditLog
      BY <1>1, InsertedTypes
    <3>2. /\ UnchainedLog(s.row).outbox = s.row
          /\ ChainedLog(s.row, anchors[TenantOf[s.row]]).outbox = s.row
      BY DEF UnchainedLog, ChainedLog
    <3> QED BY <1>3, <3>1, <3>2 DEF DeliverRow, DeliverRowWithChain
  <2>2. /\ Len(auditLogs) + 1 \in DOMAIN auditLogs'
        /\ auditLogs'[Len(auditLogs) + 1] = log
    BY <2>1, AppendFacts DEF TypeOK
  <2> QED BY <2>1, <2>2 DEF Logged
<1> QED BY <1>2, <1>3

\* A finished row leaves only rows in the batches that were there before.
LEMMA FinishRows ==
  ASSUME TypeOK, NEW w \in Workers, NEW s \in held[w], NEW acked \in BOOLEAN,
         Finish(w, s, acked)
  PROVE  \A v \in Workers : \A u \in held'[v] : \E x \in held[v] : x.row = u.row
<1>1. s \in Snapshot /\ [s EXCEPT !.failed = TRUE].row = s.row
  BY DEF TypeOK, Snapshot
<1>2. held'[w] \subseteq held[w] \cup {[s EXCEPT !.failed = TRUE]}
  BY DEF Finish, TypeOK
<1>3. \A v \in Workers \ {w} : held'[v] = held[v]
  BY DEF Finish, TypeOK
<1> QED BY <1>1, <1>2, <1>3

\* A delivery logs no row but its own, and enqueues work items exactly then.
LEMMA DeliveryTouchesOwnRow ==
  ASSUME TypeOK, NEW w \in Workers, NEW s \in held[w], NEW acked \in BOOLEAN,
         DeliverRow(w, s, acked) \/ DeliverRowWithChain(w, s, acked)
  PROVE  /\ \A q \in Rows \ {s.row} : Logged(q)' => Logged(q)
         /\ \A q \in Rows \ {s.row} : fanout'[q] = fanout[q]
         /\ Logged(s.row) => fanout' = fanout
         /\ ~Logged(s.row) /\ s.row \in FanoutRows => fanout'[s.row] = "open"
<1>1. s.row \in Rows
  BY DEF TypeOK, Snapshot
<1>2. CASE Logged(s.row)
  <2>1. auditLogs' = auditLogs /\ fanout' = fanout
    BY <1>2 DEF DeliverRow, DeliverRowWithChain
  <2> QED BY <1>2, <2>1 DEF Logged
<1>3. CASE ~Logged(s.row)
  <2>1. PICK log \in AuditLog : log.outbox = s.row /\ auditLogs' = Append(auditLogs, log)
    <3>1. /\ UnchainedLog(s.row) \in AuditLog
          /\ ChainedLog(s.row, anchors[TenantOf[s.row]]) \in AuditLog
      BY <1>1, InsertedTypes
    <3>2. /\ UnchainedLog(s.row).outbox = s.row
          /\ ChainedLog(s.row, anchors[TenantOf[s.row]]).outbox = s.row
      BY DEF UnchainedLog, ChainedLog
    <3> QED BY <1>3, <3>1, <3>2 DEF DeliverRow, DeliverRowWithChain
  <2>2. ASSUME NEW q \in Rows \ {s.row}, Logged(q)' PROVE Logged(q)
    BY <2>1, <2>2, AppendFacts DEF TypeOK, Logged
  <2>3. EnqueueFanout(s.row)
    BY <1>3 DEF DeliverRow, DeliverRowWithChain
  <2>4. /\ \A q \in Rows \ {s.row} : fanout'[q] = fanout[q]
        /\ s.row \in FanoutRows => fanout'[s.row] = "open"
    BY <1>1, <2>3 DEF EnqueueFanout, TypeOK
  <2> QED BY <1>3, <2>2, <2>4
<1> QED BY <1>2, <1>3

\* Processing a claimed row keeps the accounts.
LEMMA ProcessRowAccounted ==
  ASSUME TypeOK, RowsAccounted, NEW w \in Workers, NEW s \in held[w], ProcessRow(w, s),
         \A r \in Rows : (Logged(r) => Logged(r)') /\ (DeadLettered(r) => DeadLettered(r)')
  PROVE  RowsAccounted'
<1> USE DEF RowsAccounted
<1>1. s.row \in Rows /\ status[s.row] # "none"
  BY DEF TypeOK, Snapshot, HeldIsEnqueued
<1>2. ASSUME NEW x \in {"SENT", "PENDING", "FAILED"}, SetStatus(s.row, x)
      PROVE  /\ \A r \in Rows \ {s.row} : status'[r] = status[r]
             /\ status'[s.row] \in {x, status[s.row]}
             /\ status'[s.row] # x => status[s.row] \in {"purged", "erased"}
             /\ \A r \in Rows : status'[r] = "none" => status[r] = "none"
  BY <1>1, <1>2 DEF SetStatus, Exists, TypeOK
<1>3. ASSUME NEW acked \in BOOLEAN, Finish(w, s, acked),
             \A r \in Rows : status'[r] = "none" => status[r] = "none"
      PROVE  HeldIsEnqueued'
  <2> SUFFICES ASSUME NEW v \in Workers, NEW u \in held'[v] PROVE status'[u.row] # "none"
    BY DEF HeldIsEnqueued
  <2>1. PICK x \in held[v] : x.row = u.row
    BY <1>3, FinishRows
  <2>2. x.row \in Rows
    BY DEF TypeOK, Snapshot
  <2> QED BY <1>3, <2>1, <2>2 DEF HeldIsEnqueued
<1>4. ASSUME NEW acked \in BOOLEAN,
             DeliverRow(w, s, acked) \/ DeliverRowWithChain(w, s, acked)
      PROVE  RowsAccounted'
  <2>1. /\ \A r \in Rows \ {s.row} : status'[r] = status[r]
        /\ status'[s.row] \in {"SENT", "purged", "erased"}
        /\ \A r \in Rows : status'[r] = "none" => status[r] = "none"
    BY <1>2, <1>4 DEF DeliverRow, DeliverRowWithChain
  <2>2. Logged(s.row)'
    BY <1>4, DeliveredIsLogged
  <2>3. SentIsLogged'
    BY <2>1, <2>2 DEF SentIsLogged
  <2>4. FailedIsDeadLettered'
    BY <2>1 DEF FailedIsDeadLettered
  <2>5. DeletedIsAccountedFor'
    BY <2>1, <2>2 DEF DeletedIsAccountedFor
  <2>6. FanoutWithLog'
    <3>1. ASSUME NEW r \in Rows, fanout'[r] # "none" PROVE Logged(r)'
      BY <1>4, <2>2, <3>1, DeliveryTouchesOwnRow DEF FanoutWithLog
    <3>2. ASSUME NEW r \in FanoutRows, r \in Rows, Logged(r)' PROVE fanout'[r] # "none"
      BY <1>4, <2>2, <3>2, DeliveryTouchesOwnRow DEF FanoutWithLog
    <3> QED BY <3>1, <3>2, FanoutAssumption DEF FanoutWithLog
  <2>7. HeldIsEnqueued'
    BY <1>3, <1>4, <2>1 DEF DeliverRow, DeliverRowWithChain
  <2> QED BY <2>3, <2>4, <2>5, <2>6, <2>7
<1>5. ASSUME NEW acked \in BOOLEAN, SkipPaused(w, s, acked)
      PROVE  RowsAccounted'
  <2>1. /\ \A r \in Rows \ {s.row} : status'[r] = status[r]
        /\ status'[s.row] = "PENDING" \/ status'[s.row] = status[s.row]
        /\ \A r \in Rows : status'[r] = "none" => status[r] = "none"
    BY <1>2, <1>5 DEF SkipPaused
  <2>2. HeldIsEnqueued'
    BY <1>3, <1>5, <2>1 DEF SkipPaused
  <2>3. fanout' = fanout /\ auditLogs' = auditLogs
    BY <1>5 DEF SkipPaused
  <2> QED BY <2>1, <2>2, <2>3
            DEF SentIsLogged, FailedIsDeadLettered, DeletedIsAccountedFor, FanoutWithLog, Logged
<1>6. CASE RecordError(w, s)
  <2> DEFINE n == s.attempts + 1
             x == IF n >= MaxAttempts THEN "FAILED" ELSE "PENDING"
  <2>1. /\ \A r \in Rows \ {s.row} : status'[r] = status[r]
        /\ status'[s.row] = x \/ status'[s.row] = status[s.row]
        /\ status'[s.row] # x => status[s.row] \in {"purged", "erased"}
        /\ \A r \in Rows : status'[r] = "none" => status[r] = "none"
    <3>1. x \in {"SENT", "PENDING", "FAILED"} /\ SetStatus(s.row, x)
      BY <1>6 DEF RecordError
    <3> HIDE DEF x
    <3> QED BY <1>2, <3>1
  <2>2. HeldIsEnqueued'
    BY <1>3, <1>6, <2>1 DEF RecordError
  <2>3. fanout' = fanout /\ auditLogs' = auditLogs
    BY <1>6 DEF RecordError
  <2>4. x = "FAILED" => DeadLettered(s.row)'
    BY <1>6 DEF RecordError, DeadLettered
  <2>5. x \in {"FAILED", "PENDING"}
    OBVIOUS
  <2> HIDE DEF x
  <2>6. FailedIsDeadLettered'
    BY <2>1, <2>4, <2>5 DEF FailedIsDeadLettered
  <2>7. SentIsLogged' /\ DeletedIsAccountedFor'
    BY <2>1, <2>5 DEF SentIsLogged, DeletedIsAccountedFor
  <2>8. FanoutWithLog'
    BY <2>3 DEF FanoutWithLog, Logged
  <2> QED BY <2>2, <2>6, <2>7, <2>8
<1>7. CASE RecordErrorFails(w, s)
  <2>1. status' = status /\ auditLogs' = auditLogs /\ directLogs' = directLogs /\ fanout' = fanout
    BY <1>7 DEF RecordErrorFails, dbVars
  <2>2. HeldIsEnqueued'
    BY <1>3, <1>7, <2>1 DEF RecordErrorFails
  <2> QED BY <2>1, <2>2 DEF SentIsLogged, FailedIsDeadLettered, DeletedIsAccountedFor,
            FanoutWithLog, Logged, DeadLettered
<1> QED BY <1>4, <1>5, <1>6, <1>7 DEF ProcessRow

\* RowsAccounted is inductive relative to TypeOK.
LEMMA AccountsKept ==
  ASSUME TypeOK, RowsAccounted, [Next]_vars
  PROVE  RowsAccounted'
<1> USE DEF RowsAccounted
<1>1. \A r \in Rows : (Logged(r) => Logged(r)') /\ (DeadLettered(r) => DeadLettered(r)')
  BY RecordsArePermanent
<1>2. ASSUME NEW w \in Workers, NEW s \in held[w], ProcessRow(w, s)
      PROVE  RowsAccounted'
  BY <1>1, <1>2, ProcessRowAccounted
<1>3. ASSUME NEW w \in Workers, NEW B \in SUBSET Rows, ClaimBatch(w, B)
      PROVE  RowsAccounted'
  <2>1. /\ \A r \in Rows : status'[r] = status[r] \/ status'[r] = "PROCESSING"
        /\ fanout' = fanout /\ auditLogs' = auditLogs
    BY <1>3 DEF ClaimBatch, TypeOK
  <2>2. HeldIsEnqueued'
    <3> SUFFICES ASSUME NEW v \in Workers, NEW u \in held'[v] PROVE status'[u.row] # "none"
      BY DEF HeldIsEnqueued
    <3>1. CASE v = w
      BY <1>3, <3>1 DEF ClaimBatch, TypeOK
    <3>2. CASE v # w
      <4>1. u \in held[v] /\ u.row \in Rows
        BY <1>3, <3>2 DEF ClaimBatch, TypeOK, Snapshot
      <4> QED BY <2>1, <4>1 DEF HeldIsEnqueued
    <3> QED BY <3>1, <3>2
  <2> QED BY <1>1, <2>1, <2>2 DEF SentIsLogged, FailedIsDeadLettered,
            DeletedIsAccountedFor, FanoutWithLog, Logged
<1>4. ASSUME NEW w \in Workers, Crash(w)
      PROVE  RowsAccounted'
  BY <1>4 DEF Crash, dbVars, TypeOK, SentIsLogged, FailedIsDeadLettered,
     DeletedIsAccountedFor, FanoutWithLog, HeldIsEnqueued, Logged, DeadLettered
<1>5. ASSUME NEW w \in Workers, NEW t \in Tenants, CheckChainEnabled(w, t)
      PROVE  RowsAccounted'
  BY <1>5 DEF CheckChainEnabled, dbVars, SentIsLogged, FailedIsDeadLettered,
     DeletedIsAccountedFor, FanoutWithLog, HeldIsEnqueued, Logged, DeadLettered
<1>6. ASSUME held' = held, fanout' = fanout, auditLogs' = auditLogs,
             \A r \in Rows :
               \/ status'[r] = status[r]
               \/ status'[r] \in {"PENDING", "PROCESSING"}
               \/ status'[r] = "FAILED" /\ DeadLettered(r)'
               \/ status'[r] \in {"purged", "erased"} /\ (Logged(r) \/ DeadLettered(r))
      PROVE  RowsAccounted'
  <2>1. HeldIsEnqueued'
    <3> SUFFICES ASSUME NEW v \in Workers, NEW u \in held[v] PROVE status'[u.row] # "none"
      BY <1>6 DEF HeldIsEnqueued
    <3>1. u.row \in Rows
      BY DEF TypeOK, Snapshot
    <3> QED BY <1>6, <3>1 DEF HeldIsEnqueued
  <2>2. SentIsLogged' /\ FailedIsDeadLettered' /\ DeletedIsAccountedFor'
    BY <1>1, <1>6 DEF SentIsLogged, FailedIsDeadLettered, DeletedIsAccountedFor
  <2>3. FanoutWithLog'
    BY <1>6 DEF FanoutWithLog, Logged
  <2> QED BY <2>1, <2>2, <2>3
<1>7. ASSUME NEW r \in Rows, ReapStuckRow(r)
      PROVE  RowsAccounted'
  <2>1. /\ \A q \in Rows \ {r} : status'[q] = status[q]
        /\ status'[r] = "PENDING" \/ (status'[r] = "FAILED" /\ DeadLettered(r)')
    BY <1>7 DEF ReapStuckRow, TypeOK, DeadLettered
  <2> QED BY <1>6, <1>7, <2>1 DEF ReapStuckRow, workerVars
<1>8. ASSUME NEW B \in SUBSET Rows, PurgeSentAged(B) \/ PurgeFailedAged(B)
      PROVE  RowsAccounted'
  <2>1. \A q \in Rows : \/ status'[q] = status[q]
                        \/ status'[q] = "purged" /\ (Logged(q) \/ DeadLettered(q))
    BY <1>8 DEF PurgeSentAged, PurgeFailedAged, PurgeRows, SentIsLogged, FailedIsDeadLettered
  <2> QED BY <1>6, <1>8, <2>1 DEF PurgeSentAged, PurgeFailedAged, workerVars
<1>9. ASSUME NEW t \in Tenants, NEW B \in SUBSET Rows, OperatorPurgeFailed(t, B)
      PROVE  RowsAccounted'
  <2>1. \A q \in Rows : \/ status'[q] = status[q]
                        \/ status'[q] = "erased" /\ DeadLettered(q)
    BY <1>9 DEF OperatorPurgeFailed, FailedIsDeadLettered
  <2> QED BY <1>6, <1>9, <2>1 DEF OperatorPurgeFailed, workerVars
<1>10. ASSUME NEW r \in Rows, EnqueueAudit(r)
       PROVE  RowsAccounted'
  BY <1>6, <1>10 DEF EnqueueAudit, workerVars, TypeOK
<1>11. ASSUME NEW r \in Rows, CloseFanout(r) \/ ReopenFanout(r)
       PROVE  RowsAccounted'
  <2>1. /\ status' = status /\ auditLogs' = auditLogs /\ directLogs' = directLogs
        /\ held' = held
        /\ \A q \in Rows : fanout'[q] # "none" <=> fanout[q] # "none"
    BY <1>11 DEF CloseFanout, ReopenFanout, workerVars, TypeOK
  <2>2. FanoutWithLog'
    BY <2>1, FanoutAssumption DEF FanoutWithLog, Logged
  <2> QED BY <2>1, <2>2 DEF SentIsLogged, FailedIsDeadLettered, DeletedIsAccountedFor,
            HeldIsEnqueued, Logged, DeadLettered
<1>12. ASSUME NEW t \in Tenants, SetChainEnabled(t) \/ SetPaused(t)
       PROVE  RowsAccounted'
  BY <1>6, <1>12 DEF SetChainEnabled, SetPaused, dbVars, workerVars
<1>13. CASE UNCHANGED vars
  BY <1>6, <1>13 DEF vars
<1> QED BY <1>2, <1>3, <1>4, <1>5, <1>7, <1>8, <1>9, <1>10, <1>11, <1>12, <1>13
          DEF Next, WorkerStep, Maintenance, Environment

\* No row is lost: SENT means logged, FAILED means dead-lettered, a deleted row is
\* one or the other, and work items exist exactly for the logged rows.
THEOREM NothingLost == Spec => []Accounted
<1>1. Init => RowsAccounted
  BY DEF Init, RowsAccounted, SentIsLogged, FailedIsDeadLettered, DeletedIsAccountedFor,
     FanoutWithLog, HeldIsEnqueued, Logged
<1>2. TypeOK /\ RowsAccounted /\ [Next]_vars => RowsAccounted'
  BY AccountsKept
<1>3. RowsAccounted => Accounted
  BY DEF RowsAccounted, Accounted
<1> QED BY <1>1, <1>2, <1>3, TypeCorrect, PTL DEF Spec

----------------------------------------------------------------------------
(* The refinement of AuditLedger.                                              *)

\* The mapped ledger grows by the inserted row's outbox id.
LEMMA LedgerGrows ==
  ASSUME TypeOK, NEW log \in AuditLog, auditLogs' = Append(auditLogs, log)
  PROVE  [i \in DOMAIN auditLogs' |-> auditLogs'[i].outbox]
           = Append([i \in DOMAIN auditLogs |-> auditLogs[i].outbox], log.outbox)
<1> DEFINE L == [i \in DOMAIN auditLogs |-> auditLogs[i].outbox]
           M == [i \in DOMAIN auditLogs' |-> auditLogs'[i].outbox]
<1>1. /\ DOMAIN auditLogs = 1..Len(auditLogs) /\ Len(auditLogs) \in Nat
      /\ DOMAIN auditLogs' = 1..(Len(auditLogs) + 1)
      /\ \A i \in DOMAIN auditLogs : auditLogs'[i] = auditLogs[i]
      /\ auditLogs'[Len(auditLogs) + 1] = log
  BY AppendFacts DEF TypeOK
<1>2. \A i \in DOMAIN auditLogs : auditLogs[i].outbox \in Rows
  <2> SUFFICES ASSUME NEW i \in DOMAIN auditLogs PROVE auditLogs[i].outbox \in Rows
    OBVIOUS
  <2>1. auditLogs[i] \in AuditLog
    BY ElementOfSeq, LenProperties DEF TypeOK
  <2> QED BY <2>1 DEF AuditLog
<1>3. L \in Seq(Rows) /\ Len(L) = Len(auditLogs) /\ log.outbox \in Rows
  BY <1>1, <1>2 DEF AuditLog
<1>4. M \in Seq(Rows) /\ Len(M) = Len(auditLogs) + 1
  BY <1>1, <1>2, <1>3
<1>5. /\ Append(L, log.outbox) \in Seq(Rows)
      /\ Len(Append(L, log.outbox)) = Len(auditLogs) + 1
      /\ \A i \in 1..Len(auditLogs) : Append(L, log.outbox)[i] = L[i]
      /\ Append(L, log.outbox)[Len(auditLogs) + 1] = log.outbox
  BY <1>3, AppendProperties
<1>6. \A i \in 1..Len(M) : M[i] = Append(L, log.outbox)[i]
  BY <1>1, <1>4, <1>5
<1> QED BY <1>4, <1>5, <1>6, SeqEqual

\* The mapped ledger contains exactly the logged rows.
LEMMA WrittenIsLogged ==
  ASSUME TypeOK, NEW r \in Rows
  PROVE  r \in Ledger!Written <=> Logged(r)
BY DEF Ledger!Written, Logged

\* A step that leaves the two records alone, keeps enqueued rows enqueued and
\* deletes nothing is a stuttering step of the ledger.
LEMMA LedgerStutters ==
  ASSUME TypeOK, TypeOK', auditLogs' = auditLogs,
         \A r \in Rows : /\ DeadLettered(r)' <=> DeadLettered(r)
                         /\ status'[r] = "none" <=> status[r] = "none"
                         /\ status'[r] \in {"purged", "erased"} <=> status[r] \in {"purged", "erased"}
  PROVE  UNCHANGED Ledger!ledgerVars
<1>1. {r \in Rows : status'[r] # "none"} = {r \in Rows : status[r] # "none"}
  OBVIOUS
<1>2. {r \in Rows : DeadLettered(r)'} = {r \in Rows : DeadLettered(r)}
  OBVIOUS
<1>3. {r \in Rows : status'[r] \in {"purged", "erased"}}
        = {r \in Rows : status[r] \in {"purged", "erased"}}
  OBVIOUS
<1>4. [i \in DOMAIN auditLogs' |-> auditLogs'[i].outbox]
        = [i \in DOMAIN auditLogs |-> auditLogs[i].outbox]
  OBVIOUS
<1> QED BY <1>1, <1>2, <1>3, <1>4 DEF Ledger!ledgerVars

\* A step that only records a dead letter gives the event up.
LEMMA LedgerGivesUp ==
  ASSUME TypeOK, NEW e \in Rows, status[e] # "none", auditLogs' = auditLogs,
         \A r \in Rows : /\ DeadLettered(r)' <=> DeadLettered(r) \/ r = e
                         /\ status'[r] = "none" <=> status[r] = "none"
                         /\ status'[r] \in {"purged", "erased"} <=> status[r] \in {"purged", "erased"}
  PROVE  Ledger!GiveUp(e)
<1>1. {r \in Rows : status'[r] # "none"} = {r \in Rows : status[r] # "none"}
  OBVIOUS
<1>2. {r \in Rows : DeadLettered(r)'} = {r \in Rows : DeadLettered(r)} \cup {e}
  OBVIOUS
<1>3. {r \in Rows : status'[r] \in {"purged", "erased"}}
        = {r \in Rows : status[r] \in {"purged", "erased"}}
  OBVIOUS
<1>4. [i \in DOMAIN auditLogs' |-> auditLogs'[i].outbox]
        = [i \in DOMAIN auditLogs |-> auditLogs[i].outbox]
  OBVIOUS
<1> QED BY <1>1, <1>2, <1>3, <1>4 DEF Ledger!GiveUp

\* Deleting rows that are logged or dead-lettered forgets them.
LEMMA LedgerForgets ==
  ASSUME TypeOK, NEW B \in SUBSET Rows, auditLogs' = auditLogs, directLogs' = directLogs,
         \A r \in B : /\ status[r] # "none"
                      /\ status'[r] \in {"purged", "erased"}
                      /\ Logged(r) \/ DeadLettered(r),
         \A r \in Rows \ B : status'[r] = status[r]
  PROVE  Ledger!Forget(B)
<1>1. {r \in Rows : status'[r] # "none"} = {r \in Rows : status[r] # "none"}
  OBVIOUS
<1>2. {r \in Rows : DeadLettered(r)'} = {r \in Rows : DeadLettered(r)}
  BY DEF DeadLettered
<1>3. {r \in Rows : status'[r] \in {"purged", "erased"}}
        = {r \in Rows : status[r] \in {"purged", "erased"}} \cup B
  OBVIOUS
<1>4. [i \in DOMAIN auditLogs' |-> auditLogs'[i].outbox]
        = [i \in DOMAIN auditLogs |-> auditLogs[i].outbox]
  OBVIOUS
<1>5. B \subseteq Ledger!Written \cup {r \in Rows : DeadLettered(r)}
  BY WrittenIsLogged
<1> QED BY <1>1, <1>2, <1>3, <1>4, <1>5 DEF Ledger!Forget

\* The INSERT of an enqueued row writes it to the ledger.
LEMMA LedgerWrites ==
  ASSUME TypeOK, NEW log \in AuditLog, auditLogs' = Append(auditLogs, log),
         ~Logged(log.outbox), status[log.outbox] # "none", directLogs' = directLogs,
         \A r \in Rows : /\ status'[r] = "none" <=> status[r] = "none"
                         /\ status'[r] \in {"purged", "erased"} <=> status[r] \in {"purged", "erased"}
  PROVE  Ledger!Write(log.outbox)
<1>1. {r \in Rows : status'[r] # "none"} = {r \in Rows : status[r] # "none"}
  OBVIOUS
<1>2. {r \in Rows : DeadLettered(r)'} = {r \in Rows : DeadLettered(r)}
  BY DEF DeadLettered
<1>3. {r \in Rows : status'[r] \in {"purged", "erased"}}
        = {r \in Rows : status[r] \in {"purged", "erased"}}
  OBVIOUS
<1>4. [i \in DOMAIN auditLogs' |-> auditLogs'[i].outbox]
        = Append([i \in DOMAIN auditLogs |-> auditLogs[i].outbox], log.outbox)
  BY LedgerGrows
<1>5. log.outbox \in Rows /\ log.outbox \notin Ledger!Written
  BY WrittenIsLogged DEF AuditLog
<1> QED BY <1>1, <1>2, <1>3, <1>4, <1>5 DEF Ledger!Write

\* Every step of the pipeline is a step of the ledger, or none.
LEMMA LedgerStep ==
  ASSUME TypeOK, TypeOK', RowsAccounted, [Next]_vars
  PROVE  [Ledger!Next]_(Ledger!ledgerVars)
<1> DEFINE Goal == [Ledger!Next]_(Ledger!ledgerVars)
<1>1. ASSUME NEW w \in Workers, NEW s \in held[w], ProcessRow(w, s)
      PROVE  Goal
  <2>1. s.row \in Rows /\ status[s.row] # "none"
    BY DEF TypeOK, Snapshot, RowsAccounted, HeldIsEnqueued
  <2>2. ASSUME NEW x \in {"SENT", "PENDING", "FAILED"}, SetStatus(s.row, x)
        PROVE  \A r \in Rows :
                 /\ status'[r] = "none" <=> status[r] = "none"
                 /\ status'[r] \in {"purged", "erased"} <=> status[r] \in {"purged", "erased"}
    BY <2>1, <2>2 DEF SetStatus, Exists, TypeOK
  <2>3. ASSUME NEW acked \in BOOLEAN,
               DeliverRow(w, s, acked) \/ DeliverRowWithChain(w, s, acked)
        PROVE  Goal
    <3>1. /\ directLogs' = directLogs
          /\ \A r \in Rows :
               /\ status'[r] = "none" <=> status[r] = "none"
               /\ status'[r] \in {"purged", "erased"} <=> status[r] \in {"purged", "erased"}
      BY <2>2, <2>3 DEF DeliverRow, DeliverRowWithChain
    <3>2. CASE Logged(s.row)
      <4>1. auditLogs' = auditLogs
        BY <2>3, <3>2 DEF DeliverRow, DeliverRowWithChain
      <4> QED BY <3>1, <4>1, LedgerStutters DEF DeadLettered
    <3>3. CASE ~Logged(s.row)
      <4>1. PICK log \in AuditLog : log.outbox = s.row /\ auditLogs' = Append(auditLogs, log)
        <5>1. /\ UnchainedLog(s.row) \in AuditLog
              /\ ChainedLog(s.row, anchors[TenantOf[s.row]]) \in AuditLog
          BY <2>1, InsertedTypes
        <5>2. /\ UnchainedLog(s.row).outbox = s.row
              /\ ChainedLog(s.row, anchors[TenantOf[s.row]]).outbox = s.row
          BY DEF UnchainedLog, ChainedLog
        <5> QED BY <2>3, <3>3, <5>1, <5>2 DEF DeliverRow, DeliverRowWithChain
      <4>2. Ledger!Write(log.outbox)
        BY <2>1, <3>1, <3>3, <4>1, LedgerWrites
      <4> QED BY <2>1, <4>1, <4>2 DEF Ledger!Next
    <3> QED BY <3>2, <3>3
  <2>4. ASSUME NEW acked \in BOOLEAN, SkipPaused(w, s, acked)
        PROVE  Goal
    BY <2>2, <2>4, LedgerStutters DEF SkipPaused, DeadLettered
  <2>5. CASE RecordError(w, s)
    <3> DEFINE dead == s.attempts + 1 >= MaxAttempts
    <3>1. \A r \in Rows :
            /\ status'[r] = "none" <=> status[r] = "none"
            /\ status'[r] \in {"purged", "erased"} <=> status[r] \in {"purged", "erased"}
      <4>1. PICK x \in {"SENT", "PENDING", "FAILED"} : SetStatus(s.row, x)
        BY <2>5 DEF RecordError
      <4> QED BY <2>2, <4>1
    <3>2. auditLogs' = auditLogs
      BY <2>5 DEF RecordError
    <3>3. CASE dead
      <4>1. \A r \in Rows : DeadLettered(r)' <=> DeadLettered(r) \/ r = s.row
        BY <2>5, <3>3 DEF RecordError, DeadLettered
      <4>2. Ledger!GiveUp(s.row)
        BY <2>1, <3>1, <3>2, <4>1, LedgerGivesUp
      <4> QED BY <2>1, <4>2 DEF Ledger!Next
    <3>4. CASE ~dead
      <4>1. directLogs' = directLogs
        BY <2>5, <3>4 DEF RecordError
      <4> QED BY <3>1, <3>2, <4>1, LedgerStutters DEF DeadLettered
    <3> QED BY <3>3, <3>4
  <2>6. CASE RecordErrorFails(w, s)
    BY <2>6, LedgerStutters DEF RecordErrorFails, dbVars, DeadLettered
  <2> QED BY <1>1, <2>3, <2>4, <2>5, <2>6 DEF ProcessRow
<1>2. ASSUME NEW w \in Workers, NEW B \in SUBSET Rows, ClaimBatch(w, B)
      PROVE  Goal
  <2>1. \A r \in Rows :
          /\ status'[r] = "none" <=> status[r] = "none"
          /\ status'[r] \in {"purged", "erased"} <=> status[r] \in {"purged", "erased"}
    BY <1>2 DEF ClaimBatch, TypeOK
  <2> QED BY <1>2, <2>1, LedgerStutters DEF ClaimBatch, DeadLettered
<1>3. ASSUME NEW w \in Workers, Crash(w) \/ \E t \in Tenants : CheckChainEnabled(w, t)
      PROVE  Goal
  BY <1>3, LedgerStutters DEF Crash, CheckChainEnabled, dbVars, DeadLettered
<1>4. ASSUME NEW e \in Rows, ReapStuckRow(e)
      PROVE  Goal
  <2>1. /\ auditLogs' = auditLogs /\ status[e] = "PROCESSING"
        /\ status'[e] \in {"PENDING", "FAILED"}
        /\ \A r \in Rows \ {e} : status'[r] = status[r]
    BY <1>4 DEF ReapStuckRow, TypeOK
  <2>2. CASE attemptCount[e] + 1 >= MaxAttempts
    <3>1. \A r \in Rows : DeadLettered(r)' <=> DeadLettered(r) \/ r = e
      BY <1>4, <2>2 DEF ReapStuckRow, DeadLettered
    <3>2. Ledger!GiveUp(e)
      BY <2>1, <3>1, LedgerGivesUp
    <3> QED BY <3>2 DEF Ledger!Next
  <2>3. CASE ~(attemptCount[e] + 1 >= MaxAttempts)
    <3>1. \A r \in Rows : DeadLettered(r)' <=> DeadLettered(r)
      BY <1>4, <2>3 DEF ReapStuckRow, DeadLettered
    <3> QED BY <2>1, <3>1, LedgerStutters
  <2> QED BY <2>2, <2>3
<1>5. ASSUME NEW B \in SUBSET Rows,
             \/ PurgeSentAged(B)
             \/ PurgeFailedAged(B)
             \/ \E t \in Tenants : OperatorPurgeFailed(t, B)
      PROVE  Goal
  <2>1. /\ auditLogs' = auditLogs /\ directLogs' = directLogs
        /\ \A r \in B : /\ status[r] # "none"
                        /\ status'[r] \in {"purged", "erased"}
                        /\ Logged(r) \/ DeadLettered(r)
        /\ \A r \in Rows \ B : status'[r] = status[r]
    BY <1>5 DEF PurgeSentAged, PurgeFailedAged, PurgeRows, OperatorPurgeFailed,
       RowsAccounted, SentIsLogged, FailedIsDeadLettered
  <2>2. Ledger!Forget(B)
    BY <2>1, LedgerForgets
  <2> QED BY <2>2 DEF Ledger!Next
<1>6. ASSUME NEW e \in Rows, EnqueueAudit(e)
      PROVE  Goal
  <2>1. /\ {r \in Rows : status'[r] # "none"} = {r \in Rows : status[r] # "none"} \cup {e}
        /\ {r \in Rows : status'[r] \in {"purged", "erased"}}
             = {r \in Rows : status[r] \in {"purged", "erased"}}
    BY <1>6 DEF EnqueueAudit, TypeOK
  <2>2. Ledger!Request(e)
    BY <1>6, <2>1 DEF EnqueueAudit, Ledger!Request, DeadLettered
  <2> QED BY <2>2 DEF Ledger!Next
<1>7. ASSUME NEW r \in Rows, CloseFanout(r) \/ ReopenFanout(r)
      PROVE  Goal
  BY <1>7, LedgerStutters DEF CloseFanout, ReopenFanout, DeadLettered
<1>8. ASSUME NEW t \in Tenants, SetChainEnabled(t) \/ SetPaused(t)
      PROVE  Goal
  BY <1>8, LedgerStutters DEF SetChainEnabled, SetPaused, dbVars, DeadLettered
<1>9. CASE UNCHANGED vars
  BY <1>9, LedgerStutters DEF vars, DeadLettered
<1> QED BY <1>1, <1>2, <1>3, <1>4, <1>5, <1>6, <1>7, <1>8, <1>9
          DEF Next, WorkerStep, Maintenance, Environment

\* The pipeline implements the ledger: an event is written at most once, never
\* unwritten, and deleted only when written or publicly given up.
THEOREM Refinement == Spec => ImplementsLedger
<1>1. Init => Ledger!Init
  BY DEF Init, Ledger!Init, DeadLettered
<1>2. Init => RowsAccounted
  BY DEF Init, RowsAccounted, SentIsLogged, FailedIsDeadLettered, DeletedIsAccountedFor,
     FanoutWithLog, HeldIsEnqueued, Logged
<1>3. TypeOK /\ RowsAccounted /\ [Next]_vars => RowsAccounted'
  BY AccountsKept
<1>4. TypeOK /\ TypeOK' /\ RowsAccounted /\ [Next]_vars => [Ledger!Next]_(Ledger!ledgerVars)
  BY LedgerStep
<1> QED BY <1>1, <1>2, <1>3, <1>4, TypeCorrect, PTL DEF Spec, ImplementsLedger, Ledger!Spec
----------------------------------------------------------------------------
(* What the retention reports.                                                 *)
PurgedOf(t) == {r \in Rows : TenantOf[r] = t /\ status[r] = "purged"}

\* Apart from the retention no step deletes a row the way the retention does, or
\* brings one back, and none reports.
LEMMA OnlyRetentionPurges ==
  ASSUME TypeOK, [Next]_vars,
         ~ \E B \in SUBSET Rows : PurgeSentAged(B) \/ PurgeFailedAged(B)
  PROVE  /\ purgeReported' = purgeReported
         /\ \A r \in Rows : status'[r] = "purged" <=> status[r] = "purged"
<1> DEFINE P == /\ purgeReported' = purgeReported
                /\ \A r \in Rows : status'[r] = "purged" <=> status[r] = "purged"
<1>1. ASSUME NEW w \in Workers, NEW s \in held[w], ProcessRow(w, s) PROVE P
  <2>1. s.row \in Rows
    BY DEF TypeOK, Snapshot
  <2>2. \A x \in {"SENT", "PENDING", "FAILED"} : SetStatus(s.row, x) =>
          \A r \in Rows : status'[r] = "purged" <=> status[r] = "purged"
    BY <2>1 DEF SetStatus, Exists, TypeOK
  <2>3. CASE RecordErrorFails(w, s)
    BY <2>3 DEF RecordErrorFails, dbVars
  <2>4. CASE ~ RecordErrorFails(w, s)
    <3>1. /\ purgeReported' = purgeReported
          /\ \E x \in {"SENT", "PENDING", "FAILED"} : SetStatus(s.row, x)
      <4>1. CASE RecordError(w, s)
        BY <4>1 DEF RecordError
      <4>2. ASSUME NEW acked \in BOOLEAN, DeliverRow(w, s, acked)
            PROVE  purgeReported' = purgeReported /\ SetStatus(s.row, "SENT")
        BY <4>2 DEF DeliverRow
      <4>3. ASSUME NEW acked \in BOOLEAN, DeliverRowWithChain(w, s, acked)
            PROVE  purgeReported' = purgeReported /\ SetStatus(s.row, "SENT")
        BY <4>3 DEF DeliverRowWithChain
      <4>4. ASSUME NEW acked \in BOOLEAN, SkipPaused(w, s, acked)
            PROVE  purgeReported' = purgeReported /\ SetStatus(s.row, "PENDING")
        BY <4>4 DEF SkipPaused
      <4> QED BY <1>1, <2>4, <4>1, <4>2, <4>3, <4>4 DEF ProcessRow
    <3> QED BY <2>2, <3>1
  <2> QED BY <2>3, <2>4
<1>2. ASSUME NEW w \in Workers, NEW B \in SUBSET Rows, ClaimBatch(w, B) PROVE P
  BY <1>2 DEF ClaimBatch, TypeOK
<1>3. ASSUME NEW w \in Workers, NEW t \in Tenants, CheckChainEnabled(w, t) PROVE P
  BY <1>3 DEF CheckChainEnabled, dbVars
<1>4. ASSUME NEW w \in Workers, Crash(w) PROVE P
  BY <1>4 DEF Crash, dbVars
<1>5. ASSUME NEW r \in Rows, ReapStuckRow(r) \/ EnqueueAudit(r) PROVE P
  BY <1>5 DEF ReapStuckRow, EnqueueAudit, TypeOK
<1>6. ASSUME NEW t \in Tenants, NEW B \in SUBSET Rows, OperatorPurgeFailed(t, B) PROVE P
  BY <1>6 DEF OperatorPurgeFailed, TypeOK
<1>7. ASSUME NEW r \in Rows, CloseFanout(r) \/ ReopenFanout(r) PROVE P
  BY <1>7 DEF CloseFanout, ReopenFanout
<1>8. ASSUME NEW t \in Tenants, SetChainEnabled(t) \/ SetPaused(t) PROVE P
  BY <1>8 DEF SetChainEnabled, SetPaused, dbVars
<1>9. ASSUME UNCHANGED vars PROVE P
  BY <1>9 DEF vars
<1> HIDE DEF P
<1>10. P
  BY <1>1, <1>2, <1>3, <1>4, <1>5, <1>6, <1>7, <1>8, <1>9
     DEF Next, WorkerStep, Maintenance, Environment
<1> QED BY <1>10 DEF P

\* The rows a purge deletes still existed, so none is counted twice.
LEMMA PurgeCounts ==
  ASSUME TypeOK, PurgeAttribution, NEW B \in SUBSET Rows,
         PurgeSentAged(B) \/ PurgeFailedAged(B)
  PROVE  PurgeAttribution'
<1> SUFFICES ASSUME NEW t \in Tenants PROVE purgeReported'[t] = Cardinality(PurgedOf(t)')
  BY DEF PurgeAttribution, PurgedOf
<1> DEFINE D == {r \in B : TenantOf[r] = t}
           P == PurgedOf(t)
<1>1. \A r \in B : status[r] # "purged"
  BY DEF PurgeSentAged, PurgeFailedAged
<1>2. PurgedOf(t)' = P \cup D
  BY DEF PurgeSentAged, PurgeFailedAged, PurgeRows, PurgedOf
<1>3. P \cap D = {}
  BY <1>1 DEF PurgedOf
<1>4. IsFiniteSet(P) /\ IsFiniteSet(D)
  <2>1. P \subseteq Rows /\ D \subseteq Rows
    BY DEF PurgedOf
  <2> QED BY <2>1, FS_Subset, RowAssumption
<1>5. purgeReported[t] = Cardinality(P)
  BY DEF PurgeAttribution, PurgedOf
<1>6. purgeReported'[t] = purgeReported[t] + Cardinality(D)
  BY DEF PurgeSentAged, PurgeFailedAged, PurgeRows
<1> HIDE DEF D, P
<1>7. Cardinality(P \cup D) = Cardinality(P) + Cardinality(D)
  <2>1. Cardinality(P \cup D) = Cardinality(P) + Cardinality(D) - Cardinality(P \cap D)
    BY <1>4, FS_Union
  <2>2. Cardinality(P \cap D) = 0
    BY <1>3, FS_EmptySet
  <2>3. Cardinality(P) \in Nat /\ Cardinality(D) \in Nat
    BY <1>4, FS_CardinalityType
  <2> QED BY <2>1, <2>2, <2>3
<1> QED BY <1>2, <1>5, <1>6, <1>7

\* The RETENTION_PURGED rows of a tenant add up to the rows of that tenant the
\* retention deleted, for any interleaving with late workers and operators.
THEOREM PurgesAreReported == Spec => []PurgeAttribution
<1>1. Init => PurgeAttribution
  <2> SUFFICES ASSUME Init, NEW t \in Tenants PROVE purgeReported[t] = Cardinality(PurgedOf(t))
    BY DEF PurgeAttribution, PurgedOf
  <2>1. PurgedOf(t) = {} /\ purgeReported[t] = 0
    BY DEF Init, PurgedOf
  <2> QED BY <2>1, FS_EmptySet
<1>2. ASSUME TypeOK, PurgeAttribution, [Next]_vars PROVE PurgeAttribution'
  <2>1. CASE \E B \in SUBSET Rows : PurgeSentAged(B) \/ PurgeFailedAged(B)
    BY <1>2, <2>1, PurgeCounts
  <2>2. CASE ~ \E B \in SUBSET Rows : PurgeSentAged(B) \/ PurgeFailedAged(B)
    <3>1. /\ purgeReported' = purgeReported
          /\ \A r \in Rows : status'[r] = "purged" <=> status[r] = "purged"
      BY <1>2, <2>2, OnlyRetentionPurges
    <3>2. \A t \in Tenants : PurgedOf(t)' = PurgedOf(t)
      BY <3>1 DEF PurgedOf
    <3>3. \A t \in Tenants : purgeReported[t] = Cardinality(PurgedOf(t))
      BY <1>2 DEF PurgeAttribution, PurgedOf
    <3> QED BY <3>1, <3>2, <3>3 DEF PurgeAttribution, PurgedOf
  <2> QED BY <2>1, <2>2
<1>3. TypeOK /\ PurgeAttribution /\ [Next]_vars => PurgeAttribution'
  BY <1>2
<1> QED BY <1>1, <1>3, TypeCorrect, PTL DEF Spec

==============================================================================
