--------------------------- MODULE AnchorPublisher ---------------------------
(* The audit anchor publisher, src/src/workers/audit-anchor-publisher.ts: once  *)
(* per cadence every instance tries to publish a signed manifest of the chain  *)
(* heads, linked to the manifest before it.  The publish transaction holds a   *)
(* PostgreSQL advisory lock, uploads to every destination, then stamps the     *)
(* anchors and moves the previous-manifest pointer.  A failed upload rolls it  *)
(* back and a second transaction pauses the tenants, which stops the outbox    *)
(* worker from growing their chains (AuditOutbox, SkipPaused).                 *)
(*                                                                             *)
(* Time is a small integer.  An instance reads the clock once, at the start of *)
(* runCadence; its statements run later.  Hosts are modelled with one clock.   *)
EXTENDS Integers, Sequences, FiniteSets

CONSTANTS
  Publishers,   \* publisher instances
  Tenants,      \* tenants with audit_chain_enabled
  Destinations, \* config.destinations
  Cadence,      \* cadenceMs; publishOffsetMs is 0
  PauseCap,     \* pauseCapFactor
  MaxClock,     \* bound of the model: the clock stops here
  MaxSeq        \* bound of the model: chains stop growing here

ASSUME PublisherAssumption ==
  /\ Cadence \in Nat \ {0} /\ PauseCap \in Nat \ {0}
  /\ MaxClock \in Nat \ {0} /\ MaxSeq \in Nat

VARIABLES
  clock,
  anchors,   \* audit_chain_anchors; 0 stands for a NULL timestamp
  pointer,   \* system_settings.audit_anchor_previous_manifest: a manifest, 0 for none
  lock,      \* instances whose transaction holds the advisory lock
  pc,        \* per instance, where runCadence is
  job,       \* per instance, the locals of runCadence
  manifests, \* every manifest built, with its link; its index is its sha256
  stored,    \* <<destination, boundary, manifest>>: the artifact under the boundary's key
  published  \* manifests whose publish transaction committed, in order

instVars == <<pc, job>>
vars == <<clock, anchors, pointer, lock, pc, job, manifests, stored, published>>

\* pausedBy, for the properties: the manifest whose failure set pausedUntil.
Anchor == [seq : Nat, publishedAt : Nat, pausedUntil : Nat, updatedAt : Nat, pausedBy : Nat]
Manifest == [boundary : Nat, prev : Nat, heads : [Tenants -> Nat], tenants : SUBSET Tenants]
\* open: the publish transaction has not expired.
Job == [now : Nat, manifest : Nat, todo : SUBSET Destinations, open : BOOLEAN, updatedAt : Nat]
Idle == [now |-> 0, manifest |-> 0, todo |-> {}, open |-> FALSE, updatedAt |-> 0]

\* currentCadenceBoundary
Boundary(now) == (now \div Cadence) * Cadence

LargestOf(S) == CHOOSE x \in S : \A y \in S : y <= x
SmallestOf(S) == CHOOSE x \in S : \A y \in S : x <= y

\* Mutant: the cap formula takes the greater of the two bounds.
MutPauseUntil(now, updatedAt) ==
  LargestOf({now + Cadence, LargestOf({updatedAt, now}) + PauseCap * Cadence})

\* LEAST(now + cadence, GREATEST(updatedAt, now) + cap * cadence)
PauseUntil(now, updatedAt) ==
  SmallestOf({now + Cadence, LargestOf({updatedAt, now}) + PauseCap * Cadence})
----------------------------------------------------------------------------
Init ==
  /\ clock = 1
  /\ anchors = [t \in Tenants |->
                  [seq |-> 0, publishedAt |-> 0, pausedUntil |-> 0, updatedAt |-> 0, pausedBy |-> 0]]
  /\ pointer = 0
  /\ lock = {}
  /\ pc = [p \in Publishers |-> "idle"]
  /\ job = [p \in Publishers |-> Idle]
  /\ manifests = <<>>
  /\ stored = {}
  /\ published = <<>>

Tick ==
  /\ clock < MaxClock
  /\ clock' = clock + 1
  /\ UNCHANGED <<anchors, pointer, lock, instVars, manifests, stored, published>>

\* The outbox worker appends to the chain of a tenant that is not paused.
GrowChain(t) ==
  /\ anchors[t].seq < MaxSeq
  /\ anchors[t].pausedUntil <= clock
  /\ anchors' = [anchors EXCEPT ![t].seq = @ + 1, ![t].updatedAt = clock]
  /\ UNCHANGED <<clock, pointer, lock, instVars, manifests, stored, published>>

\* The timer of an instance fires, once per cadence; now is read.
StartCadence(p) ==
  /\ pc[p] = "idle"
  /\ job[p].now = 0 \/ Boundary(clock) > Boundary(job[p].now)
  /\ pc' = [pc EXCEPT ![p] = "started"]
  /\ job' = [job EXCEPT ![p] = [Idle EXCEPT !.now = clock]]
  /\ UNCHANGED <<clock, anchors, pointer, lock, manifests, stored, published>>

\* runCadence returns; only the time of the last run matters from here on.
Return(p) ==
  /\ pc' = [pc EXCEPT ![p] = "idle"]
  /\ job' = [job EXCEPT ![p] = [Idle EXCEPT !.now = job[p].now]]

\* pg_try_advisory_xact_lock does not wait.
LockHeld(p) ==
  /\ pc[p] = "started"
  /\ lock # {}
  /\ Return(p)
  /\ UNCHANGED <<clock, anchors, pointer, lock, manifests, stored, published>>

NotPaused(now) == {t \in Tenants : anchors[t].pausedUntil <= now}

SkipAllPaused(p) ==
  /\ pc[p] = "started"
  /\ lock = {}
  /\ NotPaused(job[p].now) = {}
  /\ Return(p)
  /\ UNCHANGED <<clock, anchors, pointer, lock, manifests, stored, published>>

\* The manifest of the heads of ts, linked to the pointer.
NewManifest(now, ts) ==
  [boundary |-> Boundary(now), prev |-> pointer, tenants |-> ts,
   heads |-> [t \in Tenants |-> IF t \in ts THEN anchors[t].seq ELSE 0]]

\* Mutant: instances do not exclude each other.
MutBuildWithoutLock(p) ==
  LET ts == NotPaused(job[p].now) IN
  /\ pc[p] = "started"
  /\ ts # {}
  /\ lock' = lock \cup {p}
  /\ manifests' = Append(manifests, NewManifest(job[p].now, ts))
  /\ job' = [job EXCEPT ![p].manifest = Len(manifests) + 1, ![p].todo = Destinations,
                        ![p].open = TRUE]
  /\ pc' = [pc EXCEPT ![p] = "upload"]
  /\ UNCHANGED <<clock, anchors, pointer, stored, published>>

\* Steps 2 to 8: take the lock, read the anchors of tenants that are not paused
\* and the pointer, build and sign the manifest.
BuildManifest(p) ==
  LET ts == NotPaused(job[p].now) IN
  /\ pc[p] = "started"
  /\ lock = {}
  /\ ts # {}
  /\ lock' = {p}
  /\ manifests' = Append(manifests, NewManifest(job[p].now, ts))
  /\ job' = [job EXCEPT ![p].manifest = Len(manifests) + 1, ![p].todo = Destinations,
                        ![p].open = TRUE,
                        ![p].updatedAt = LargestOf({anchors[t].updatedAt : t \in ts})]
  /\ pc' = [pc EXCEPT ![p] = "upload"]
  /\ UNCHANGED <<clock, anchors, pointer, stored, published>>

\* The interactive transaction runs into its timeout during an upload: it is
\* rolled back and the lock is gone, while runCadence goes on uploading.
TransactionExpires(p) ==
  /\ pc[p] = "upload" /\ job[p].open
  /\ job' = [job EXCEPT ![p].open = FALSE]
  /\ lock' = lock \ {p}
  /\ UNCHANGED <<clock, anchors, pointer, pc, manifests, stored, published>>

\* artifactKey is the date of the boundary: a destination keeps one artifact per
\* boundary, the last one written (FilesystemDestination; the current version on S3).
Upload(p, d) ==
  LET b == manifests[job[p].manifest].boundary IN
  /\ pc[p] = "upload" /\ d \in job[p].todo
  /\ job' = [job EXCEPT ![p].todo = @ \ {d}]
  /\ stored' = {x \in stored : x[1] # d \/ x[2] # b} \cup {<<d, b, job[p].manifest>>}
  /\ UNCHANGED <<clock, anchors, pointer, lock, pc, manifests, published>>

\* Destinations uploaded before this one keep their artifact.
UploadFails(p) ==
  /\ pc[p] = "upload" /\ job[p].todo # {}
  /\ lock' = lock \ {p}
  /\ pc' = [pc EXCEPT ![p] = "pause"]
  /\ UNCHANGED <<clock, anchors, pointer, job, manifests, stored, published>>

\* Mutant: the pointer moves before every destination has the artifact.
MutPublishEarly(p) ==
  LET m == job[p].manifest IN
  /\ pc[p] = "upload" /\ job[p].open
  /\ anchors' = [t \in Tenants |->
       IF t \in manifests[m].tenants
         THEN [anchors[t] EXCEPT !.publishedAt = job[p].now, !.pausedUntil = 0, !.pausedBy = 0,
                                 !.updatedAt = clock]
         ELSE anchors[t]]
  /\ pointer' = m
  /\ published' = Append(published, m)
  /\ lock' = lock \ {p}
  /\ Return(p)
  /\ UNCHANGED <<clock, manifests, stored>>

\* Steps 10 and 11 and the commit.
Publish(p) ==
  LET m == job[p].manifest IN
  /\ pc[p] = "upload" /\ job[p].todo = {} /\ job[p].open
  /\ anchors' = [t \in Tenants |->
       IF t \in manifests[m].tenants
         THEN [anchors[t] EXCEPT !.publishedAt = job[p].now, !.pausedUntil = 0, !.pausedBy = 0,
                                 !.updatedAt = clock]
         ELSE anchors[t]]
  /\ pointer' = m
  /\ published' = Append(published, m)
  /\ lock' = lock \ {p}
  /\ Return(p)
  /\ UNCHANGED <<clock, manifests, stored>>

\* Any other error of the publish transaction (an expired transaction, a failed
\* commit) or the death of the process: rolled back, no tenant is paused.
CadenceFails(p) ==
  /\ pc[p] \in {"started", "upload", "pause"}
  /\ lock' = lock \ {p}
  /\ Return(p)
  /\ UNCHANGED <<clock, anchors, pointer, manifests, stored, published>>

\* The catch block's own transaction: pause the tenants of the manifest unless
\* one of them was published at or after now.
PersistPause(p) ==
  LET now == job[p].now IN
  /\ pc[p] = "pause"
  /\ anchors' = [t \in Tenants |->
       IF t \in manifests[job[p].manifest].tenants /\ anchors[t].publishedAt < now
         THEN [anchors[t] EXCEPT !.pausedUntil = PauseUntil(now, job[p].updatedAt),
                                 !.pausedBy = job[p].manifest, !.updatedAt = clock]
         ELSE anchors[t]]
  /\ Return(p)
  /\ UNCHANGED <<clock, pointer, lock, manifests, stored, published>>
----------------------------------------------------------------------------
RunCadence(p) ==
  \/ StartCadence(p) \/ LockHeld(p) \/ SkipAllPaused(p) \/ BuildManifest(p)
  \/ TransactionExpires(p)
  \/ \E d \in Destinations : Upload(p, d)
  \/ UploadFails(p) \/ Publish(p) \/ CadenceFails(p) \/ PersistPause(p)

Next ==
  \/ Tick
  \/ \E t \in Tenants : GrowChain(t)
  \/ \E p \in Publishers : RunCadence(p)

Spec == Init /\ [][Next]_vars
----------------------------------------------------------------------------
TypeOK ==
  /\ clock \in Nat
  /\ anchors \in [Tenants -> Anchor]
  /\ pointer \in Nat
  /\ lock \subseteq Publishers
  /\ pc \in [Publishers -> {"idle", "started", "upload", "pause"}]
  /\ job \in [Publishers -> Job]
  /\ manifests \in Seq(Manifest)
  /\ stored \subseteq Destinations \X Nat \X Nat
  /\ published \in Seq(Nat)

\* Each published manifest links to the one committed before it.
ManifestChainLinear ==
  \A n \in DOMAIN published :
    manifests[published[n]].prev = IF n = 1 THEN 0 ELSE published[n - 1]

\* Along that chain the head of no tenant goes back.
HeadsNeverRegress ==
  \A m, n \in DOMAIN published : m < n =>
    \A t \in manifests[published[m]].tenants \cap manifests[published[n]].tenants :
      manifests[published[m]].heads[t] <= manifests[published[n]].heads[t]

\* The published manifests form one chain, whichever instances race, lose their
\* lock or die, and a verifier that holds two manifests never sees a shorter chain
\* in the later one.
ManifestChainSound == ManifestChainLinear /\ HeadsNeverRegress

\* No other manifest was built for the boundary of m (see CadenceIdempotent).
AloneAtBoundary(m) ==
  \A n \in DOMAIN manifests : manifests[n].boundary = manifests[m].boundary => n = m

\* Fail closed: a manifest that the anchors and the pointer vouch for is at every
\* destination, under the key its successor's previousManifest link names, unless
\* a second run at the same boundary wrote under that key.
LinkResolves ==
  \A n \in DOMAIN published : \A d \in Destinations :
    AloneAtBoundary(published[n]) =>
      <<d, manifests[published[n]].boundary, published[n]>> \in stored

\* A failed upload stops a tenant's chain for one cadence at most.
PauseIsBounded == \A t \in Tenants : anchors[t].pausedUntil <= clock + Cadence

\* NOT an invariant (README, section 4): "Single cadence cycle. Idempotent on
\* cadence boundary via PG advisory lock."
CadenceIdempotent ==
  \A m, n \in DOMAIN published :
    manifests[published[m]].boundary = manifests[published[n]].boundary => m = n

\* NOT an invariant (README, section 4): R2-S1, after another instance's success
\* has cleared publish_paused_until, "We must NOT overwrite that NULL with our stale pauseUntil": an instance that
\* failed does not pause a tenant published since it built its manifest.
NoStalePause ==
  \A t \in Tenants : anchors[t].pausedBy # 0 =>
    ~ \E n \in DOMAIN published :
        published[n] > anchors[t].pausedBy /\ t \in manifests[published[n]].tenants
==============================================================================
