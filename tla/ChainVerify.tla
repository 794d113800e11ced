----------------------------- MODULE ChainVerify -----------------------------
(* Verification of a tenant's audit hash chain: the maintenance endpoint       *)
(* src/src/app/api/maintenance/audit-chain-verify/route.ts and the walk it      *)
(* shares with the periodic worker, src/src/lib/audit/audit-chain-verify.ts.    *)
(* Both read the anchor, the endpoint also the bounds and the seed hash of a   *)
(* range, and then the rows, in separate transactions while the outbox worker  *)
(* goes on appending, a retention purge deletes old rows, and somebody with    *)
(* write access to the tables may change them once.                            *)
(*                                                                             *)
(* The endpoint reads in transactions that set app.bypass_rls.  The periodic   *)
(* worker reads outside of one, from tables under FORCE ROW LEVEL SECURITY:    *)
(* WorkerSight is {FALSE} for passwd_app, the role it is deployed with         *)
(* (NOBYPASSRLS), and TRUE for a superuser.                                    *)
EXTENDS Integers, Sequences, FiniteSets

CONSTANTS
  MaxLen,  \* bound of the model: the chain stops growing here
  Times,   \* values of created_at
  RowCap,  \* MAX_ROWS_PER_REQUEST, MAX_ROWS_PER_TENANT
  WorkerSight \* may the periodic worker's reads pass row level security

\* With a cap of one row a second row at the first position would not be read.  The
\* endpoint's cap is 10 000, the worker's 100 000 unless the environment sets it.
ASSUME VerifyAssumption ==
  /\ MaxLen \in Nat /\ RowCap \in Nat \ {0, 1} /\ Times \subseteq Nat
  /\ WorkerSight \subseteq BOOLEAN

VARIABLES
  logs,    \* chained rows of the tenant, a set of records
  anchor,  \* audit_chain_anchors row: exists, chain_seq, prev_hash
  change,  \* the change made behind the worker's back, if any, and its lowest chain_seq
  purged,  \* a retention purge has deleted rows
  req      \* the verification request and, once "done", its verdict

verifyVars == <<logs, anchor, change, purged, req>>

\* A collision-free hash: computeEventHash over the previous hash and the
\* canonical id, created_at, chain_seq and metadata of the row (here payload).  The
\* other columns (action, user_id, ip, ...) are not hashed.  id stands for the row's random UUID: the number of
\* the chain the row was appended to, 1 once a deleted anchor was made anew.
Genesis == <<>>
EventHash(prev, id, seq, created, payload) == <<prev, id, seq, created, payload>>
Rehash(r, prev) ==
  [r EXCEPT !.prev = prev, !.hash = EventHash(prev, r.id, r.seq, r.created, r.payload)]

\* before, changed, lost: for the properties, what had happened to the tables when
\* the request began and when it ended.
NoTime == 0 \* an absent "from" or "to"
Start == [phase |-> "idle", from |-> NoTime, to |-> NoTime, anchorSeq |-> 0,
          head |-> Genesis, fromSeq |-> 1, toSeq |-> 0, seed |-> Genesis, sees |-> TRUE,
          reason |-> "none", before |-> "none", changed |-> "none", lost |-> FALSE]
----------------------------------------------------------------------------
VerifyInit ==
  /\ logs = {}
  /\ anchor = [exists |-> FALSE, seq |-> 0, head |-> Genesis]
  /\ change = [kind |-> "none", seq |-> 0]
  /\ purged = FALSE
  /\ req = Start

\* deliverRowWithChain (module AuditOutbox): the row takes the next position and
\* keeps the business event's created_at, which a retry makes older than that of
\* rows already chained.  Without an anchor row the upsert starts a new chain; no
\* constraint keeps a chain_seq from being used twice.
AppendRow(created) ==
  LET n == anchor.seq + 1
      id == IF change.kind = "anchor" THEN 1 ELSE 0
      h == EventHash(anchor.head, id, n, created, "event")
  IN
  /\ n <= MaxLen
  /\ logs' = logs \cup {[id |-> id, seq |-> n, created |-> created, payload |-> "event",
                         columns |-> "event", prev |-> anchor.head, hash |-> h]}
  /\ anchor' = [exists |-> TRUE, seq |-> n, head |-> h]
  /\ UNCHANGED <<change, purged, req>>

\* The delivery of an event that is in audit_logs already: the upsert stays, the
\* chain does not advance.
UpsertAnchorOnly ==
  /\ ~anchor.exists
  /\ anchor' = [anchor EXCEPT !.exists = TRUE]
  /\ UNCHANGED <<logs, change, purged, req>>

\* audit_log_purge: rows older than the retention; the anchor stays.
RetentionPurge(before) ==
  /\ \E r \in logs : r.created < before
  /\ logs' = {r \in logs : r.created >= before}
  /\ purged' = TRUE
  /\ UNCHANGED <<anchor, change, req>>

\* One change of the tables that is not the worker's.
Changed(kind, seq) == change' = [kind |-> kind, seq |-> seq]
TamperRow(r) ==
  /\ change.kind = "none"
  /\ anchor' = anchor
  /\ \/ /\ logs' = (logs \ {r}) \cup {[r EXCEPT !.payload = "edited"]}
        /\ Changed("edit", r.seq)
     \/ /\ logs' = (logs \ {r}) \cup {[r EXCEPT !.columns = "edited"]}
        /\ Changed("column", r.seq)
     \/ /\ logs' = (logs \ {r}) \cup {[r EXCEPT !.prev = <<"edited">>]}
        /\ Changed("link", r.seq)
     \/ /\ logs' = logs \ {r}
        /\ Changed("delete", r.seq)
  /\ UNCHANGED <<purged, req>>

\* The last two rows rewritten with hashes that fit each other.
RewriteTail(r, s) ==
  LET r2 == Rehash([r EXCEPT !.payload = "edited"], r.prev) IN
  /\ change.kind = "none"
  /\ s.seq = r.seq + 1 /\ s.seq = anchor.seq
  /\ logs' = (logs \ {r, s}) \cup {r2, Rehash(s, r2.hash)}
  /\ Changed("rewrite", r.seq)
  /\ UNCHANGED <<anchor, purged, req>>

DeleteAnchor ==
  /\ change.kind = "none" /\ anchor.exists
  /\ anchor' = [exists |-> FALSE, seq |-> 0, head |-> Genesis]
  /\ Changed("anchor", anchor.seq)
  /\ UNCHANGED <<logs, purged, req>>
----------------------------------------------------------------------------
\* One action per transaction.  The endpoint goes on to the bounds of its range,
\* the periodic worker (verifyTenantChain) to the rows of the whole chain.
ReadAnchor(from, to, next) ==
  /\ req.phase = "idle"
  /\ from = NoTime \/ to = NoTime \/ from < to
  /\ req' = [Start EXCEPT !.phase = IF anchor.exists THEN next ELSE "count",
                          !.from = from, !.to = to, !.anchorSeq = anchor.seq,
                          !.head = anchor.head, !.toSeq = anchor.seq, !.before = change.kind]
  /\ UNCHANGED <<logs, anchor, change, purged>>

\* Row level security hides the anchor: the worker goes on to the count.
BlindAnchor ==
  /\ req.phase = "idle"
  /\ req' = [Start EXCEPT !.phase = "count", !.sees = FALSE, !.before = change.kind]
  /\ UNCHANGED <<logs, anchor, change, purged>>

EndpointStart == \E from, to \in Times \cup {NoTime} : ReadAnchor(from, to, "from")
WorkerStart ==
  \E sees \in WorkerSight :
    \/ sees /\ ReadAnchor(NoTime, NoTime, "rows")
    \/ ~sees /\ BlindAnchor

Done(r, reason) ==
  req' = [r EXCEPT !.phase = "done", !.reason = reason, !.changed = change.kind,
                   !.lost = purged]

\* Without an anchor: benign only when no chained row survives.  A worker that row
\* level security shows no anchor counts no row either.
CountRows ==
  /\ req.phase = "count"
  /\ Done(req, IF logs = {} \/ ~req.sees THEN "OK" ELSE "ANCHOR_MISSING")
  /\ UNCHANGED <<logs, anchor, change, purged>>

SeqMin(S) == CHOOSE x \in S : \A y \in S : x <= y
SeqMax(S) == CHOOSE x \in S : \A y \in S : y <= x

\* MIN(chain_seq) of the rows at or after "from" ...
ReadFrom ==
  LET after == {r.seq : r \in {x \in logs : x.created >= req.from}} IN
  /\ req.phase = "from"
  /\ req' = [req EXCEPT !.phase = "to",
                        !.fromSeq = IF req.from # NoTime /\ after # {} THEN SeqMin(after) ELSE @]
  /\ UNCHANGED <<logs, anchor, change, purged>>

\* ... and MAX(chain_seq) of those at or before "to", but not beyond the anchor.
ReadTo ==
  LET before == {r.seq : r \in {x \in logs : x.created <= req.to}} IN
  /\ req.phase = "to"
  /\ req' = [req EXCEPT !.phase = "seed",
                        !.toSeq = IF req.to # NoTime /\ before # {}
                                    THEN SeqMin({@, SeqMax(before)}) ELSE @]
  /\ UNCHANGED <<logs, anchor, change, purged>>

\* A partial walk starts from the stored hash of the row before its first.
ReadSeed ==
  /\ req.phase = "seed"
  /\ IF req.fromSeq = 1
       THEN req' = [req EXCEPT !.phase = "rows"]
       ELSE \/ \E r \in logs :
                 /\ r.seq = req.fromSeq - 1
                 /\ req' = [req EXCEPT !.phase = "rows", !.seed = r.hash]
            \/ /\ ~ \E r \in logs : r.seq = req.fromSeq - 1
               /\ Done(req, "SEED_NOT_FOUND")
  /\ UNCHANGED <<logs, anchor, change, purged>>

\* S by chain_seq; nothing orders rows that share one, older says which comes first.
InSeqOrder(S, older) ==
  LET before(x, r) == x.seq < r.seq \/ (x.seq = r.seq /\ (IF older THEN x.id <= r.id ELSE x.id >= r.id))
      rank(r) == Cardinality({x \in S : before(x, r)})
  IN [k \in 1..SeqMin({Cardinality(S), RowCap}) |-> CHOOSE r \in S : rank(r) = k]

\* Mutant: the walk follows the chain beyond the anchor that was read.
MutWalkToTheEnd(q, older) == InSeqOrder({r \in logs : r.seq >= q.fromSeq}, older)

\* SELECT ... chain_seq BETWEEN fromSeq AND toSeq ORDER BY chain_seq LIMIT RowCap.
SelectRows(q, older) ==
  InSeqOrder({r \in logs : r.seq >= q.fromSeq /\ r.seq <= q.toSeq}, older)

\* verifyChainRows.  The loop carries the stored hash of the row before (the
\* seed for the first row) and stops at the first row whose own hash disagrees.
PrevHash(rows, seed, k) == IF k = 1 THEN seed ELSE rows[k - 1].hash
HashOk(rows, seed, k) ==
  rows[k].hash = EventHash(PrevHash(rows, seed, k), rows[k].id, rows[k].seq,
                           rows[k].created, rows[k].payload)

\* Rows the loop looks at: up to and with the first bad one; verified: before it.
Looked(rows, seed) == {k \in DOMAIN rows : \A m \in 1..(k - 1) : HashOk(rows, seed, m)}
Verified(rows, seed) == {k \in DOMAIN rows : \A m \in 1..k : HashOk(rows, seed, m)}

Tampered(rows, seed) == Looked(rows, seed) # Verified(rows, seed)
Gap(rows, seed) == \E k \in Looked(rows, seed) : k > 1 /\ rows[k].seq # rows[k - 1].seq + 1
Older(rows, seed) == \E k \in Looked(rows, seed) : k > 1 /\ rows[k].created < rows[k - 1].created
BrokenLink(rows, seed) ==
  \E k \in Looked(rows, seed) : rows[k].prev # PrevHash(rows, seed, k)

\* Mutant: the head hash is never compared.
MutNoAnchorCheck(rows, q) ==
  LET n == Cardinality(Verified(rows, q.seed))
      covered == IF n = 0 THEN q.fromSeq - 1 ELSE rows[n].seq
      incomplete == q.fromSeq > q.toSeq \/ covered < q.toSeq
  IN CASE Tampered(rows, q.seed) -> "TAMPER_DETECTED"
       [] BrokenLink(rows, q.seed) -> "TAMPER_DETECTED"
       [] Gap(rows, q.seed) -> "GAP_DETECTED"
       [] Older(rows, q.seed) -> "TIMESTAMP_VIOLATION"
       [] incomplete -> "RANGE_INCOMPLETE"
       [] OTHER -> "OK"

\* The verdict of verifyChainRows and the order in which its reasons are tried.
Verdict(rows, q) ==
  LET n == Cardinality(Verified(rows, q.seed))
      covered == IF n = 0 THEN q.fromSeq - 1 ELSE rows[n].seq
      last == IF n = 0 THEN q.seed ELSE rows[n].hash
      incomplete == q.fromSeq > q.toSeq \/ covered < q.toSeq
      comparable == q.fromSeq = 1 /\ q.toSeq = q.anchorSeq
      tampered == Tampered(rows, q.seed)
      mismatch == comparable /\ ~incomplete /\ last # q.head
  IN CASE tampered -> "TAMPER_DETECTED"
       [] ~tampered /\ mismatch -> "ANCHOR_HASH_MISMATCH"
       [] ~tampered /\ ~mismatch /\ BrokenLink(rows, q.seed) -> "TAMPER_DETECTED"
       [] OTHER ->
            IF Gap(rows, q.seed) THEN "GAP_DETECTED"
            ELSE IF Older(rows, q.seed) THEN "TIMESTAMP_VIOLATION"
            ELSE IF ~incomplete THEN "OK"
            ELSE IF Len(rows) >= RowCap THEN "TRUNCATED" ELSE "RANGE_INCOMPLETE"

\* The rows are read and walked; the endpoint also audits the verdict.
ReadRows(older) ==
  /\ req.phase = "rows"
  /\ Done(req, Verdict(SelectRows(req, older), req))
  /\ UNCHANGED <<logs, anchor, change, purged>>

VerifyNext ==
  \/ \E c \in Times : AppendRow(c) \/ RetentionPurge(c)
  \/ UpsertAnchorOnly
  \/ \E r \in logs : TamperRow(r) \/ \E s \in logs : RewriteTail(r, s)
  \/ DeleteAnchor
  \/ EndpointStart \/ WorkerStart
  \/ CountRows \/ ReadFrom \/ ReadTo \/ ReadSeed
  \/ \E older \in BOOLEAN : ReadRows(older)

VerifySpec == VerifyInit /\ [][VerifyNext]_verifyVars
----------------------------------------------------------------------------
Reasons == {"OK", "TAMPER_DETECTED", "ANCHOR_HASH_MISMATCH", "GAP_DETECTED",
            "TIMESTAMP_VIOLATION", "TRUNCATED", "RANGE_INCOMPLETE", "ANCHOR_MISSING",
            "SEED_NOT_FOUND"}
VerifyTypeOK ==
  /\ \A r \in logs : r.seq \in 1..MaxLen /\ r.created \in Times
  /\ anchor.seq \in 0..MaxLen
  /\ req.phase \in {"idle", "count", "from", "to", "seed", "rows", "done"}
  /\ req.reason \in IF req.phase = "done" THEN Reasons ELSE {"none"}

Finished == req.phase = "done"
FullWalk == req.from = NoTime /\ req.to = NoTime
Untouched == req.changed = "none" /\ ~req.lost

\* A chain that only the worker wrote is never reported as tampered, gapped or
\* diverging from its anchor, whatever is appended while the endpoint reads; a
\* full walk of one that has a row fails only on the order of created_at or the
\* row cap.
NoFalseAlarm ==
  Finished /\ Untouched =>
    /\ req.reason \notin {"TAMPER_DETECTED", "GAP_DETECTED", "ANCHOR_HASH_MISMATCH"}
    /\ FullWalk /\ req.anchorSeq > 0 => req.reason \in {"OK", "TIMESTAMP_VIOLATION", "TRUNCATED"}

\* A change of hashed columns of rows the anchor vouched for, before the rows were
\* read, never gets the verdict OK from a full walk - not even when the rows were
\* rewritten so that they fit each other; nor does an edited row inside a partial
\* range, nor a chain whose anchor vanished, also when the worker has started a new
\* one.  Two things it cannot promise: an edit of the columns outside the hash
\* ("column") is never seen, and a periodic worker behind row level security (~sees)
\* answers OK to every change.
ChangeDetected ==
  Finished /\ req.sees /\ req.reason = "OK" =>
    /\ FullWalk /\ req.changed \in {"edit", "link", "delete", "rewrite"} =>
         change.seq > req.anchorSeq
    /\ req.changed \in {"edit", "link"} => change.seq \notin req.fromSeq..req.toSeq
    /\ FullWalk /\ req.before = "anchor" /\ ~req.lost => change.seq = 0
==============================================================================
