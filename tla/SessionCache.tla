----------------------------- MODULE SessionCache -----------------------------
(* The Redis cache in front of the session table:                              *)
(* src/src/lib/auth/session/session-cache.ts, its reader getSessionInfo in     *)
(* src/src/lib/proxy/auth-gate.ts, and the writers that delete sessions or     *)
(* change what is cached with them, each with its own order of the database's  *)
(* commit and the tombstone.                                                   *)
(*                                                                             *)
(* A Redis command and a committed transaction are one step each.  Time passes *)
(* in ticks.  FetchMax and CommitMax bound how long a miss takes from its read *)
(* of the database to its SET, and a transaction from its tombstone to its     *)
(* commit; Prisma ends a transaction after five seconds, the fetch of a miss   *)
(* has no timeout of its own.  Redis keeps what it was given for its TTL.      *)
EXTENDS Integers

CONSTANTS
  Sessions, \* session tokens
  Readers,  \* requests in the proxy
  Writers,  \* requests that revoke sessions or change what is cached
  None,     \* no session
  CacheTTL, TombTTL, NegTTL, \* SESSION_CACHE_TTL_MS, TOMBSTONE_TTL_MS, NEGATIVE_CACHE_TTL_MS
  FetchMax, CommitMax,
  MaxLeft,  \* bound: what is left of a session's life, in ticks
  MaxInfo   \* bound: changes of the cached facts

\* The tombstone outlives a miss that began before the commit it announces.
ASSUME TimingAssumption ==
  /\ None \notin Sessions
  /\ {CacheTTL, TombTTL, NegTTL} \subseteq Nat \ {0}
  /\ {FetchMax, CommitMax, MaxLeft, MaxInfo} \subseteq Nat
  /\ FetchMax + CommitMax < TombTTL

VARIABLES
  db,    \* the session rows
  info,  \* version of the tenant's facts cached with a session
  cache, \* the Redis key of each session
  op,    \* per reader, the miss under way
  job,   \* per writer, how far it has come
  hist,  \* history of each session: see History
  old    \* history: ticks since the facts last changed

vars == <<db, info, cache, op, job, hist, old>>

Stale == CacheTTL + FetchMax

\* poison: an entry of another release that no schema accepts.
Entry == [kind : {"none", "positive", "negative", "tombstone", "poison"},
          ttl : Nat, info : 0..MaxInfo]
Nothing == [kind |-> "none", ttl |-> 0, info |-> 0]
Positive(i, ttl) == [kind |-> "positive", ttl |-> ttl, info |-> i]
Negative == [kind |-> "negative", ttl |-> NegTTL, info |-> 0]
Tombstone == [kind |-> "tombstone", ttl |-> TombTTL, info |-> 0]
Poison == [kind |-> "poison", ttl |-> CacheTTL, info |-> 0]

Op == [phase : {"idle", "miss", "fetched", "evict"}, session : Sessions \cup {None},
       valid : BOOLEAN, info : 0..MaxInfo, age : 0..FetchMax]
Idle == [phase |-> "idle", session |-> None, valid |-> FALSE, info |-> 0, age |-> 0]

\* select, wipe: the sessions to revoke have been read, outside and inside the
\* transaction that deletes them; delete: that has committed; commit: it has not,
\* and the tombstones have been tried (put: and have landed); policy: the facts
\* have changed; tenant: the sessions to tombstone for it have been read.
Job == [phase : {"idle", "select", "wipe", "delete", "commit", "policy", "tenant"},
        targets : SUBSET Sessions, doomed : SUBSET Sessions, put : BOOLEAN,
        age : 0..CommitMax]
Resting == [phase |-> "idle", targets |-> {}, doomed |-> {}, put |-> FALSE, age |-> 0]

\* announced: the tombstone of its deletion landed; applied: the facts for which
\* a tombstone landed; gone: ticks since its deletion; struck: a tombstone of it
\* was removed as poison.
History == [announced : BOOLEAN, applied : 0..MaxInfo, gone : 0..(Stale + 1),
            struck : BOOLEAN]

Init ==
  /\ db \in [Sessions -> {"absent", "live"}]
  /\ info = 0
  /\ cache \in [Sessions -> {Nothing, Poison}]
  /\ \A s \in Sessions : db[s] = "absent" => cache[s] = Nothing
  /\ op = [r \in Readers |-> Idle]
  /\ job = [w \in Writers |-> Resting]
  /\ hist = [s \in Sessions |-> [announced |-> FALSE, applied |-> 0, gone |-> 0,
                                 struck |-> FALSE]]
  /\ old = 0

Live == {s \in Sessions : db[s] = "live"}

-----------------------------------------------------------------------------
(* The reader: getSessionInfo.                                                 *)

\* A positive or negative entry answers the request; a tombstone is a miss and stays.
GetCachedSession(r, s) ==
  /\ op[r].phase = "idle" /\ db[s] # "absent"
  /\ cache[s].kind \in {"none", "tombstone", "poison"}
  /\ op' = [op EXCEPT ![r].phase = IF cache[s].kind = "poison" THEN "evict" ELSE "miss",
                      ![r].session = s]
  /\ UNCHANGED <<db, info, cache, job, hist, old>>

\* The DEL comes after the GET and takes whatever is there by then.
EvictPoison(r) ==
  LET s == op[r].session
  IN  /\ op[r].phase = "evict"
      /\ cache' = [cache EXCEPT ![s] = Nothing]
      /\ hist' = [hist EXCEPT ![s].struck = @ \/ cache[s].kind = "tombstone"]
      /\ op' = [op EXCEPT ![r].phase = "miss"]
      /\ UNCHANGED <<db, info, job, old>>

FetchSession(r) ==
  /\ op[r].phase = "miss"
  /\ op' = [op EXCEPT ![r].phase = "fetched", ![r].valid = op[r].session \in Live,
                      ![r].info = info]
  /\ UNCHANGED <<db, info, cache, job, hist, old>>

\* Mutant: the entry is written over what is there.
MutSetWithoutNX(r, left) ==
  LET s == op[r].session
  IN  /\ op[r].phase = "fetched"
      /\ cache' = [cache EXCEPT ![s] =
           IF ~op[r].valid THEN Negative
           ELSE IF left = 0 THEN cache[s]
           ELSE Positive(op[r].info, IF left < CacheTTL THEN left ELSE CacheTTL)]
      /\ op' = [op EXCEPT ![r] = Idle]
      /\ UNCHANGED <<db, info, job, hist, old>>

\* Mutant: the entry lives as long as the session.
MutNoCeiling(r, left) ==
  LET s == op[r].session
  IN  /\ op[r].phase = "fetched"
      /\ cache' = [cache EXCEPT ![s] =
           IF @.kind # "none" THEN @
           ELSE IF ~op[r].valid THEN Negative
           ELSE IF left = 0 THEN @
           ELSE Positive(op[r].info, left)]
      /\ op' = [op EXCEPT ![r] = Idle]
      /\ UNCHANGED <<db, info, job, hist, old>>

\* SET ... PX ... NX, with what is left of the session as the TTL, up to the
\* ceiling; with less than a second left nothing is cached.
SetCachedSession(r, left) ==
  LET s == op[r].session
  IN  /\ op[r].phase = "fetched"
      /\ cache' = [cache EXCEPT ![s] =
           IF @.kind # "none" THEN @
           ELSE IF ~op[r].valid THEN Negative
           ELSE IF left = 0 THEN @
           ELSE Positive(op[r].info, IF left < CacheTTL THEN left ELSE CacheTTL)]
      /\ op' = [op EXCEPT ![r] = Idle]
      /\ UNCHANGED <<db, info, job, hist, old>>

\* Redis or the fetch fails, or the response is not OK: nothing is cached.
GiveUp(r) ==
  /\ op[r].phase \in {"miss", "fetched", "evict"}
  /\ op' = [op EXCEPT ![r] = Idle]
  /\ UNCHANGED <<db, info, cache, job, hist, old>>

-----------------------------------------------------------------------------
(* The writers.                                                                *)

SignIn(s) ==
  /\ db[s] = "absent"
  /\ db' = [db EXCEPT ![s] = "live"]
  /\ UNCHANGED <<info, cache, op, job, hist, old>>

\* The sessions to revoke are read first: one, some or all, maybe none; in a
\* transaction of its own, or in the one that deletes them.
SelectTargets(w, S, phase) ==
  /\ job[w].phase = "idle" /\ S \subseteq Live
  /\ job' = [job EXCEPT ![w].phase = phase, ![w].targets = S]
  /\ UNCHANGED <<db, info, cache, op, hist, old>>

\* What the DELETE finds: the targets that are left and, of a revocation by user,
\* sessions that came into being since the targets were read (extra).
Matching(w, extra) == (job[w].targets \cup extra) \cap Live

DeleteSessions(w, extra) ==
  /\ job[w].phase = "select"
  /\ db' = [s \in Sessions |-> IF s \in Matching(w, extra) THEN "gone" ELSE db[s]]
  /\ job' = [job EXCEPT ![w].phase = "delete"]
  /\ UNCHANGED <<info, cache, op, hist, old>>

\* invalidateCachedSessions; ok: the SETs reach Redis.
Entomb(S, ok) ==
  cache' = [s \in Sessions |-> IF ok /\ s \in S THEN Tombstone ELSE cache[s]]

\* Sign-out, expiry, eviction, the session routes and the passkey sign-in write
\* the tombstones after the commit.
TombstoneDeleted(w, ok) ==
  /\ job[w].phase = "delete"
  /\ Entomb(job[w].targets, ok)
  /\ hist' = [s \in Sessions |->
       [hist[s] EXCEPT !.announced = @ \/ (ok /\ s \in job[w].targets /\ db[s] = "gone")]]
  /\ job' = [job EXCEPT ![w] = Resting]
  /\ UNCHANGED <<db, info, op, old>>

\* invalidateUserSessions and deleteUser write them inside the transaction, which
\* commits after that or not at all.
TombstoneInTx(w, extra, ok) ==
  /\ job[w].phase = "wipe"
  /\ Entomb(job[w].targets, ok)
  /\ job' = [job EXCEPT ![w].phase = "commit", ![w].doomed = Matching(w, extra),
                        ![w].put = ok]
  /\ UNCHANGED <<db, info, op, hist, old>>

CommitWipe(w) ==
  /\ job[w].phase = "commit"
  /\ db' = [s \in Sessions |-> IF s \in job[w].doomed THEN "gone" ELSE db[s]]
  /\ hist' = [s \in Sessions |->
       [hist[s] EXCEPT !.announced =
          @ \/ (job[w].put /\ s \in job[w].doomed \cap job[w].targets)]]
  /\ job' = [job EXCEPT ![w] = Resting]
  /\ UNCHANGED <<info, cache, op, old>>

Rollback(w) ==
  /\ job[w].phase \in {"select", "wipe", "commit"}
  /\ job' = [job EXCEPT ![w] = Resting]
  /\ UNCHANGED <<db, info, cache, op, hist, old>>

\* PATCH /api/tenant/policy commits, then invalidateTenantSessionsCache reads the
\* tenant's sessions and writes the tombstones.
ChangePolicy(w) ==
  /\ job[w].phase = "idle" /\ info < MaxInfo
  /\ info' = info + 1 /\ old' = 0
  /\ job' = [job EXCEPT ![w].phase = "policy"]
  /\ UNCHANGED <<db, cache, op, hist>>

SelectTenantSessions(w) ==
  /\ job[w].phase = "policy"
  /\ job' = [job EXCEPT ![w].phase = "tenant", ![w].targets = Live]
  /\ UNCHANGED <<db, info, cache, op, hist, old>>

\* Mutant: the entries are deleted and leave no tombstone.
MutDelete(w, ok) ==
  /\ job[w].phase = "tenant"
  /\ cache' = [s \in Sessions |-> IF ok /\ s \in job[w].targets THEN Nothing ELSE cache[s]]
  /\ hist' = [s \in Sessions |->
       IF ok /\ s \in job[w].targets THEN [hist[s] EXCEPT !.applied = info] ELSE hist[s]]
  /\ job' = [job EXCEPT ![w] = Resting]
  /\ UNCHANGED <<db, info, op, old>>

TombstoneTenant(w, ok) ==
  /\ job[w].phase = "tenant"
  /\ Entomb(job[w].targets, ok)
  /\ hist' = [s \in Sessions |->
       IF ok /\ s \in job[w].targets THEN [hist[s] EXCEPT !.applied = info] ELSE hist[s]]
  /\ job' = [job EXCEPT ![w] = Resting]
  /\ UNCHANGED <<db, info, op, old>>

-----------------------------------------------------------------------------
(* Time.                                                                       *)

Older(n) == IF n > Stale THEN n ELSE n + 1

\* An entry whose TTL is over is gone.  No miss lasts longer than FetchMax and no
\* transaction waits longer than CommitMax for its commit.
Tick ==
  /\ \A r \in Readers : op[r].phase = "fetched" => op[r].age < FetchMax
  /\ \A w \in Writers : job[w].phase = "commit" => job[w].age < CommitMax
  /\ cache' = [s \in Sessions |->
       IF cache[s].ttl <= 1 THEN Nothing ELSE [cache[s] EXCEPT !.ttl = @ - 1]]
  /\ op' = [r \in Readers |-> IF op[r].phase = "fetched" THEN [op[r] EXCEPT !.age = @ + 1]
                                                         ELSE op[r]]
  /\ job' = [w \in Writers |-> IF job[w].phase = "commit" THEN [job[w] EXCEPT !.age = @ + 1]
                                                          ELSE job[w]]
  /\ hist' = [s \in Sessions |-> IF db[s] = "gone" THEN [hist[s] EXCEPT !.gone = Older(@)]
                                                   ELSE hist[s]]
  /\ old' = Older(old)
  /\ UNCHANGED <<db, info>>

Next ==
  \/ \E r \in Readers :
       \/ \E s \in Sessions : GetCachedSession(r, s)
       \/ EvictPoison(r)
       \/ FetchSession(r)
       \/ \E left \in {0, 1, MaxLeft} : SetCachedSession(r, left)
       \/ GiveUp(r)
  \/ \E s \in Sessions : SignIn(s)
  \/ \E w \in Writers :
       \/ \E S \in SUBSET Sessions, phase \in {"select", "wipe"} : SelectTargets(w, S, phase)
       \/ \E extra \in SUBSET Sessions : DeleteSessions(w, extra)
       \/ \E ok \in BOOLEAN : TombstoneDeleted(w, ok)
       \/ \E extra \in SUBSET Sessions, ok \in BOOLEAN : TombstoneInTx(w, extra, ok)
       \/ CommitWipe(w)
       \/ Rollback(w)
       \/ ChangePolicy(w)
       \/ SelectTenantSessions(w)
       \/ \E ok \in BOOLEAN : TombstoneTenant(w, ok)
  \/ Tick

Spec == Init /\ [][Next]_vars

-----------------------------------------------------------------------------
(* Properties.                                                                 *)

\* The parts of the state have their types.
TypeOK ==
  /\ db \in [Sessions -> {"absent", "live", "gone"}]
  /\ info \in 0..MaxInfo
  /\ cache \in [Sessions -> Entry]
  /\ op \in [Readers -> Op]
  /\ job \in [Writers -> Job]
  /\ hist \in [Sessions -> History]
  /\ old \in 0..(Stale + 1)

\* Once the tombstone of a deleted session has landed, before or after the commit,
\* no request is let in by the cache: not by an entry that was there, and not by
\* one that a miss under way puts there; unless a reader that had found a poisoned
\* entry removed the tombstone in its place.
RevokedNotServed ==
  \A s \in Sessions :
    db[s] = "gone" /\ hist[s].announced /\ ~hist[s].struck => cache[s].kind # "positive"

\* Once the tombstones of a policy change have landed, no request is judged by
\* the policy before it; with the same exception.
PolicyInForce ==
  \A s \in Sessions :
    cache[s].kind = "positive" /\ ~hist[s].struck => cache[s].info >= hist[s].applied

\* Whatever fails, whichever session was missed when the targets were read, the
\* cache lets a deleted session in, or goes by an earlier policy, for no longer
\* than its TTL and the time of a miss.
StaleIsBounded ==
  \A s \in Sessions : cache[s].kind = "positive" =>
    /\ db[s] = "gone" => hist[s].gone <= Stale
    /\ cache[s].info < info => old <= Stale
===============================================================================
