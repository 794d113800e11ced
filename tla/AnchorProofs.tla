---------------------------- MODULE AnchorProofs ----------------------------
(* The anchors of the audit chain: publishing them (AnchorPublisher) and       *)
(* verifying a chain against its anchor (ChainVerify).  Proofs for any number  *)
(* of instances, tenants and destinations, any cadence and length of run, and  *)
(* for chains of any length.                                                   *)
EXTENDS AnchorPublisher, ChainVerify, TLAPS,
        WellFoundedInduction, SequenceTheorems, FunctionTheorems, FiniteSetTheorems
----------------------------------------------------------------------------
\* Where the manifests of an instance that still runs come from and have got to.
Holds(p) == pc[p] \in {"upload", "pause"}
Publishing(p) == pc[p] = "upload" /\ job[p].open

\* No timestamp lies ahead of the clock.
ClockInv ==
  /\ \A t \in Tenants : anchors[t].updatedAt <= clock
  /\ \A p \in Publishers : job[p].now <= clock

\* The advisory lock has one holder at most, and whoever can still commit holds it.
LockInv ==
  /\ \A p, q \in lock : p = q
  /\ \A p \in Publishers : Publishing(p) => p \in lock

\* A manifest says no more of a chain than the chain has.
HeadsInv ==
  \A m \in DOMAIN manifests : \A t \in manifests[m].tenants :
    manifests[m].heads[t] <= anchors[t].seq

\* The pointer is the manifest committed last, and what was committed was built.
PointerInv ==
  /\ pointer = IF Len(published) = 0 THEN 0 ELSE published[Len(published)]
  /\ \A n \in DOMAIN published : published[n] \in DOMAIN manifests

\* What the manifest m needs to be committed next.
Continues(m) ==
  /\ manifests[m].prev = pointer
  /\ \A n \in DOMAIN published :
       \A t \in manifests[published[n]].tenants \cap manifests[m].tenants :
         manifests[published[n]].heads[t] <= manifests[m].heads[t]

\* d has the artifact of m, unless the key of m is shared.
StoredAt(d, m) == AloneAtBoundary(m) => <<d, manifests[m].boundary, m>> \in stored

JobInv(p) ==
  /\ Holds(p) => job[p].manifest \in DOMAIN manifests
  /\ pc[p] = "upload" => \A d \in Destinations \ job[p].todo : StoredAt(d, job[p].manifest)
  /\ Publishing(p) => Continues(job[p].manifest)

Inv ==
  /\ TypeOK /\ ClockInv /\ LockInv /\ HeadsInv /\ PointerInv
  /\ \A p \in Publishers : JobInv(p)
  /\ ManifestChainSound /\ LinkResolves /\ PauseIsBounded
----------------------------------------------------------------------------
\* Numbers.

\* A set of natural numbers has a least member.
LEMMA Least ==
  ASSUME NEW S \in SUBSET Nat, S # {}
  PROVE  \E x \in S : \A y \in S : x <= y
  <1> DEFINE R == OpToRel(<, Nat)
  <1>1. IsWellFoundedOn(R, Nat)
    BY NatLessThanWellFounded, ZenonT(10)
  <1>2. \A x, y \in Nat : x < y => <<x, y>> \in R
    BY DEF OpToRel
  <1> HIDE DEF R
  <1>3. PICK x \in S : \A y \in S : ~ (<<y, x>> \in R)
    BY <1>1, WFMin
  <1>4. \A y \in S : ~ (y < x)
    BY <1>2, <1>3
  <1>5. QED
    BY <1>4

\* A bounded set of natural numbers has a greatest member.
LEMMA Greatest ==
  ASSUME NEW S \in SUBSET Nat, S # {}, NEW b \in Nat, \A x \in S : x <= b
  PROVE  \E x \in S : \A y \in S : y <= x
  <1> DEFINE D == {b - x : x \in S}
  <1>1. D \in SUBSET Nat /\ D # {}
    <2>1. \A x \in S : b - x \in Nat
      OBVIOUS
    <2>2. D \subseteq Nat
      BY <2>1
    <2>3. PICK x \in S : TRUE
      OBVIOUS
    <2>4. b - x \in D
      BY <2>3
    <2> QED BY <2>2, <2>4
  <1>2. PICK d \in D : \A e \in D : d <= e
    <2> HIDE DEF D
    <2> QED BY <1>1, Least
  <1>3. PICK x \in S : d = b - x
    BY <1>2
  <1>4. \A y \in S : d <= b - y
    BY <1>2
  <1>5. \A y \in S : y <= x
    BY <1>3, <1>4
  <1>6. QED
    BY <1>5

\* LargestOf finds the greatest of numbers that have a bound, MAX in the query
\* that reads the anchors.
LEMMA LargestBelow ==
  ASSUME NEW S \in SUBSET Nat, S # {}, NEW b \in Nat, \A x \in S : x <= b
  PROVE  LargestOf(S) \in S /\ \A y \in S : y <= LargestOf(S)
  BY Greatest DEF LargestOf

\* The cap formula never reaches beyond one cadence from now.
LEMMA PauseUntilBounded ==
  ASSUME NEW now \in Nat, NEW u \in Nat
  PROVE  PauseUntil(now, u) \in Nat /\ PauseUntil(now, u) <= now + Cadence
  <1>1. Cadence \in Nat /\ PauseCap \in Nat
    BY PublisherAssumption
  <1>2. PauseCap * Cadence \in Nat
    BY <1>1
  <1>3. \A x, y \in Nat : LargestOf({x, y}) \in Nat
    <2> TAKE x, y \in Nat
    <2>1. \E z \in {x, y} : \A w \in {x, y} : w <= z
      OBVIOUS
    <2>2. LargestOf({x, y}) \in {x, y}
      BY <2>1 DEF LargestOf
    <2> QED BY <2>2
  <1>4. \A x, y \in Nat : SmallestOf({x, y}) \in Nat /\ SmallestOf({x, y}) <= x
    <2> TAKE x, y \in Nat
    <2>1. \E z \in {x, y} : \A w \in {x, y} : z <= w
      OBVIOUS
    <2>2. SmallestOf({x, y}) \in {x, y} /\ \A w \in {x, y} : SmallestOf({x, y}) <= w
      BY <2>1 DEF SmallestOf
    <2> QED BY <2>2
  <1>5. LargestOf({u, now}) \in Nat
    BY <1>3
  <1>6. LargestOf({u, now}) + PauseCap * Cadence \in Nat /\ now + Cadence \in Nat
    BY <1>1, <1>2, <1>5
  <1>7. QED
    BY <1>4, <1>6 DEF PauseUntil

\* A boundary is a time.
LEMMA BoundaryType ==
  ASSUME NEW now \in Nat
  PROVE  Boundary(now) \in Nat
  <1>1. Cadence \in Nat /\ Cadence > 0
    BY PublisherAssumption
  <1>2. now \div Cadence \in Nat
    BY <1>1
  <1>3. \A x, y \in Nat : x * y \in Nat
    OBVIOUS
  <1>4. QED
    BY <1>1, <1>2, <1>3 DEF Boundary----------------------------------------------------------------------------
\* Frames.

\* The invariant of an instance that a step leaves alone.
LEMMA JobFrame ==
  ASSUME NEW p \in Publishers, JobInv(p), pc'[p] = pc[p], job'[p] = job[p],
         UNCHANGED <<pointer, manifests, stored, published>>
  PROVE  JobInv(p)'
  BY DEF JobInv, Holds, Publishing, Continues, StoredAt, AloneAtBoundary

\* What was committed stays sound while nothing is built, stored or committed.
LEMMA ChainFrame ==
  ASSUME ManifestChainSound, LinkResolves, PointerInv,
         UNCHANGED <<pointer, manifests, stored, published>>
  PROVE  ManifestChainSound' /\ LinkResolves' /\ PointerInv'
  <1>1. ManifestChainSound'
    BY DEF ManifestChainSound, ManifestChainLinear, HeadsNeverRegress
  <1>2. LinkResolves'
    BY DEF LinkResolves, AloneAtBoundary
  <1>3. PointerInv'
    BY DEF PointerInv
  <1>4. QED
    BY <1>1, <1>2, <1>3

\* The fields of the job that StartCadence and Return write.
LEMMA IdleAt ==
  ASSUME NEW n \in Nat
  PROVE  /\ [Idle EXCEPT !.now = n] \in Job
         /\ [Idle EXCEPT !.now = n].now = n
  BY DEF Idle, Job

\* What a step may do to the anchor rows.
AnchorsMove ==
  /\ anchors' \in [Tenants -> Anchor]
  /\ \A t \in Tenants :
       /\ anchors[t].seq <= anchors'[t].seq
       /\ anchors'[t].updatedAt <= clock
       /\ anchors'[t].pausedUntil <= clock + Cadence

LEMMA AnchorsKept ==
  ASSUME TypeOK, ClockInv, PauseIsBounded, anchors' = anchors
  PROVE  AnchorsMove
  <1>1. \A t \in Tenants : anchors[t].seq \in Nat
    BY DEF TypeOK, Anchor
  <1>2. QED
    BY <1>1 DEF TypeOK, ClockInv, PauseIsBounded, AnchorsMove

LEMMA AnchorsFrame ==
  ASSUME TypeOK, HeadsInv, AnchorsMove, clock' = clock, manifests' = manifests
  PROVE  /\ HeadsInv' /\ PauseIsBounded'
         /\ \A t \in Tenants : anchors'[t].updatedAt <= clock'
  <1>1. HeadsInv'
    <2> SUFFICES ASSUME NEW m \in DOMAIN manifests, NEW t \in manifests[m].tenants
                 PROVE  manifests[m].heads[t] <= anchors'[t].seq
      BY DEF HeadsInv
    <2>1. manifests[m] \in Manifest
      BY DEF TypeOK
    <2>2. t \in Tenants /\ manifests[m].heads[t] \in Nat
      BY <2>1 DEF Manifest
    <2>3. manifests[m].heads[t] <= anchors[t].seq
      BY DEF HeadsInv
    <2>4. anchors[t].seq \in Nat /\ anchors'[t].seq \in Nat
      BY <2>2 DEF AnchorsMove, TypeOK, Anchor
    <2>5. anchors[t].seq <= anchors'[t].seq
      BY <2>2 DEF AnchorsMove
    <2> QED BY <2>2, <2>3, <2>4, <2>5
  <1>2. QED
    BY <1>1 DEF AnchorsMove, PauseIsBounded

\* An instance that returns, with or without the lock it had.
LEMMA ReturnStep ==
  ASSUME Inv, NEW p \in Publishers, Return(p), lock' \subseteq lock, lock \ {p} \subseteq lock',
         clock' = clock, AnchorsMove,
         UNCHANGED <<pointer, manifests, stored, published>>
  PROVE  Inv'
  <1>1. TypeOK /\ LockInv /\ ClockInv /\ \A q \in Publishers : JobInv(q)
    BY DEF Inv
  <1> DEFINE new == [Idle EXCEPT !.now = job[p].now]
  <1>2. job[p].now \in Nat
    BY <1>1 DEF TypeOK, Job
  <1>3. new \in Job /\ new.now = job[p].now
    BY <1>2, IdleAt
  <1>4. job' = [job EXCEPT ![p] = new] /\ pc' = [pc EXCEPT ![p] = "idle"]
    BY DEF Return
  <1> HIDE DEF new
  <1>5. job' \in [Publishers -> Job] /\ job'[p] = new /\ \A q \in Publishers \ {p} : job'[q] = job[q]
    BY <1>1, <1>3, <1>4 DEF TypeOK
  <1>6. /\ pc' \in [Publishers -> {"idle", "started", "upload", "pause"}]
        /\ pc'[p] = "idle" /\ \A q \in Publishers \ {p} : pc'[q] = pc[q]
    BY <1>1, <1>4 DEF TypeOK
  <1>7. TypeOK'
    BY <1>1, <1>5, <1>6 DEF TypeOK, AnchorsMove
  <1>8. ClockInv'
    BY <1>1, <1>3, <1>5, AnchorsFrame DEF Inv, ClockInv
  <1>9. LockInv'
    BY <1>1, <1>5, <1>6 DEF LockInv, Publishing
  <1>10. ASSUME NEW q \in Publishers PROVE JobInv(q)'
    <2>1. CASE q = p
      BY <2>1, <1>6 DEF JobInv, Holds, Publishing
    <2>2. CASE q # p
      BY <2>2, <1>1, <1>5, <1>6, JobFrame
    <2> QED BY <2>1, <2>2
  <1>11. HeadsInv' /\ PauseIsBounded'
    BY AnchorsFrame DEF Inv
  <1>12. ManifestChainSound' /\ LinkResolves' /\ PointerInv'
    BY ChainFrame DEF Inv
  <1>13. QED
    BY <1>7, <1>8, <1>9, <1>10, <1>11, <1>12 DEF Inv
----------------------------------------------------------------------------
\* The first state.
LEMMA InitInv ==
  ASSUME Init
  PROVE  Inv
  <1>1. Idle \in Job /\ Idle.now = 0
    BY DEF Idle, Job
  <1>2. TypeOK
    BY <1>1 DEF Init, TypeOK, Anchor
  <1>3. ClockInv
    BY <1>1 DEF Init, ClockInv
  <1>4. LockInv /\ \A p \in Publishers : JobInv(p)
    BY DEF Init, LockInv, JobInv, Holds, Publishing
  <1>5. HeadsInv /\ PointerInv /\ ManifestChainSound /\ LinkResolves
    BY DEF Init, HeadsInv, PointerInv, ManifestChainSound, ManifestChainLinear,
           HeadsNeverRegress, LinkResolves
  <1>6. PauseIsBounded
    BY PublisherAssumption DEF Init, PauseIsBounded
  <1>7. QED
    BY <1>2, <1>3, <1>4, <1>5, <1>6 DEF Inv

LEMMA TickInv ==
  ASSUME Inv, Tick
  PROVE  Inv'
  <1>1. TypeOK'
    BY DEF Inv, Tick, TypeOK, instVars
  <1>2. ClockInv'
    BY DEF Inv, Tick, ClockInv, instVars, TypeOK, Anchor, Job
  <1>3. LockInv' /\ HeadsInv'
    BY DEF Inv, Tick, instVars, LockInv, HeadsInv, Publishing
  <1>4. \A p \in Publishers : JobInv(p)'
    BY JobFrame DEF Inv, Tick, instVars
  <1>5. ManifestChainSound' /\ LinkResolves' /\ PointerInv'
    BY ChainFrame DEF Inv, Tick
  <1>6. PauseIsBounded'
    BY PublisherAssumption DEF Inv, Tick, PauseIsBounded, TypeOK, Anchor
  <1>7. QED
    BY <1>1, <1>2, <1>3, <1>4, <1>5, <1>6 DEF Inv

\* A step that writes anchor rows only.
LEMMA AnchorsStep ==
  ASSUME Inv, clock' = clock, AnchorsMove,
         UNCHANGED <<pointer, lock, instVars, manifests, stored, published>>
  PROVE  Inv'
  <1>1. TypeOK'
    BY DEF Inv, TypeOK, instVars, AnchorsMove
  <1>2. LockInv'
    BY DEF Inv, LockInv, Publishing, instVars
  <1>3. ClockInv' /\ HeadsInv' /\ PauseIsBounded'
    BY AnchorsFrame DEF Inv, ClockInv, instVars
  <1>4. \A p \in Publishers : JobInv(p)'
    BY JobFrame DEF Inv, instVars
  <1>5. ManifestChainSound' /\ LinkResolves' /\ PointerInv'
    BY ChainFrame DEF Inv
  <1>6. QED
    BY <1>1, <1>2, <1>3, <1>4, <1>5 DEF Inv

LEMMA GrowChainInv ==
  ASSUME Inv, NEW t \in Tenants, GrowChain(t)
  PROVE  Inv'
  <1>1. TypeOK /\ ClockInv /\ PauseIsBounded
    BY DEF Inv
  <1>2. clock \in Nat /\ \A u \in Tenants : anchors[u] \in Anchor
    BY <1>1 DEF TypeOK
  <1> DEFINE new == [anchors[t] EXCEPT !.seq = @ + 1, !.updatedAt = clock]
  <1>3. /\ new \in Anchor /\ new.seq = anchors[t].seq + 1 /\ new.updatedAt = clock
        /\ new.pausedUntil = anchors[t].pausedUntil
    <2>1. anchors[t] \in Anchor
      BY <1>2
    <2>2. anchors[t].seq + 1 \in Nat
      BY <2>1 DEF Anchor
    <2>3. new \in Anchor
      BY <2>1, <2>2, <1>2 DEF Anchor
    <2>4. new.seq = anchors[t].seq + 1
      BY <2>1 DEF Anchor
    <2>5. new.updatedAt = clock /\ new.pausedUntil = anchors[t].pausedUntil
      BY <2>1 DEF Anchor
    <2> QED BY <2>3, <2>4, <2>5
  <1>4. anchors' = [anchors EXCEPT ![t] = new]
    BY <1>1 DEF GrowChain, TypeOK, Anchor
  <1> HIDE DEF new
  <1>5. /\ anchors' \in [Tenants -> Anchor] /\ anchors'[t] = new
        /\ \A u \in Tenants \ {t} : anchors'[u] = anchors[u]
    BY <1>1, <1>3, <1>4 DEF TypeOK
  <1>6. ASSUME NEW u \in Tenants
        PROVE  /\ anchors[u].seq <= anchors'[u].seq
               /\ anchors'[u].updatedAt <= clock
               /\ anchors'[u].pausedUntil <= clock + Cadence
    <2>1. anchors[u].seq \in Nat
      BY <1>2 DEF Anchor
    <2>2. CASE u = t
      BY <2>1, <2>2, <1>1, <1>2, <1>3, <1>5 DEF PauseIsBounded
    <2>3. CASE u # t
      BY <2>1, <2>3, <1>1, <1>5 DEF PauseIsBounded, ClockInv
    <2> QED BY <2>2, <2>3
  <1>7. QED
    BY <1>5, <1>6, AnchorsStep DEF GrowChain, AnchorsMove

LEMMA StartCadenceInv ==
  ASSUME Inv, NEW p \in Publishers, StartCadence(p)
  PROVE  Inv'
  <1>1. TypeOK /\ LockInv /\ ClockInv /\ \A q \in Publishers : JobInv(q)
    BY DEF Inv
  <1> DEFINE new == [Idle EXCEPT !.now = clock]
  <1>2. clock \in Nat
    BY <1>1 DEF TypeOK
  <1>3. new \in Job /\ new.now = clock
    BY <1>2, IdleAt
  <1>4. job' = [job EXCEPT ![p] = new] /\ pc' = [pc EXCEPT ![p] = "started"]
    BY DEF StartCadence
  <1> HIDE DEF new
  <1>5. job' \in [Publishers -> Job] /\ job'[p] = new /\ \A q \in Publishers \ {p} : job'[q] = job[q]
    BY <1>1, <1>3, <1>4 DEF TypeOK
  <1>6. /\ pc' \in [Publishers -> {"idle", "started", "upload", "pause"}]
        /\ pc'[p] = "started" /\ \A q \in Publishers \ {p} : pc'[q] = pc[q]
    BY <1>1, <1>4 DEF TypeOK
  <1>7. UNCHANGED <<clock, anchors, pointer, lock, manifests, stored, published>>
    BY DEF StartCadence
  <1>8. TypeOK'
    BY <1>1, <1>5, <1>6, <1>7 DEF TypeOK
  <1>9. ClockInv'
    BY <1>1, <1>2, <1>3, <1>5, <1>7 DEF ClockInv
  <1>10. LockInv'
    BY <1>1, <1>5, <1>6, <1>7 DEF LockInv, Publishing
  <1>11. ASSUME NEW q \in Publishers PROVE JobInv(q)'
    <2>1. CASE q = p
      BY <2>1, <1>6 DEF JobInv, Holds, Publishing
    <2>2. CASE q # p
      BY <2>2, <1>1, <1>5, <1>6, <1>7, JobFrame
    <2> QED BY <2>1, <2>2
  <1>12. HeadsInv' /\ PauseIsBounded'
    BY <1>7 DEF Inv, HeadsInv, PauseIsBounded
  <1>13. ManifestChainSound' /\ LinkResolves' /\ PointerInv'
    BY <1>7, ChainFrame DEF Inv
  <1>14. QED
    BY <1>8, <1>9, <1>10, <1>11, <1>12, <1>13 DEF Inv

LEMMA LockHeldInv ==
  ASSUME Inv, NEW p \in Publishers, LockHeld(p) \/ SkipAllPaused(p)
  PROVE  Inv'
  <1>1. AnchorsMove
    BY AnchorsKept DEF Inv, LockHeld, SkipAllPaused
  <1>2. QED
    BY <1>1, ReturnStep DEF LockHeld, SkipAllPaused

LEMMA CadenceFailsInv ==
  ASSUME Inv, NEW p \in Publishers, CadenceFails(p)
  PROVE  Inv'
  <1>1. AnchorsMove
    BY AnchorsKept DEF Inv, CadenceFails
  <1>2. QED
    BY <1>1, ReturnStep DEF CadenceFails

LEMMA PersistPauseInv ==
  ASSUME Inv, NEW p \in Publishers, PersistPause(p)
  PROVE  Inv'
  <1>1. TypeOK /\ ClockInv /\ PauseIsBounded /\ JobInv(p)
    BY DEF Inv
  <1>2. job[p] \in Job /\ clock \in Nat /\ Cadence \in Nat
    BY <1>1, PublisherAssumption DEF TypeOK
  <1>3. job[p].now \in Nat /\ job[p].manifest \in Nat /\ job[p].updatedAt \in Nat
    BY <1>2 DEF Job
  <1>4. job[p].now <= clock
    BY <1>1 DEF ClockInv
  <1>5. PICK until \in Nat : until = PauseUntil(job[p].now, job[p].updatedAt)
    BY <1>3, PauseUntilBounded
  <1>6. until <= clock + Cadence
    <2>1. until <= job[p].now + Cadence
      BY <1>3, <1>5, PauseUntilBounded
    <2> QED BY <2>1, <1>2, <1>3, <1>4
  <1> DEFINE new(t) == [anchors[t] EXCEPT !.pausedUntil = until,
                                          !.pausedBy = job[p].manifest, !.updatedAt = clock]
  <1>7. \A t \in Tenants : anchors[t] \in Anchor
    BY <1>1 DEF TypeOK
  <1>8. ASSUME NEW t \in Tenants
        PROVE  /\ new(t) \in Anchor /\ new(t).seq = anchors[t].seq
               /\ new(t).updatedAt = clock /\ new(t).pausedUntil = until
    BY <1>2, <1>3, <1>5, <1>7 DEF Anchor
  <1>9. /\ anchors' = [t \in Tenants |-> anchors'[t]]
        /\ \A t \in Tenants : anchors'[t] = new(t) \/ anchors'[t] = anchors[t]
    BY <1>5 DEF PersistPause
  <1> HIDE DEF new
  <1>10. \A t \in Tenants : anchors'[t] \in Anchor
    BY <1>7, <1>8, <1>9
  <1>11. anchors' \in [Tenants -> Anchor]
    BY <1>9, <1>10
  <1>12. ASSUME NEW t \in Tenants
         PROVE  /\ anchors[t].seq <= anchors'[t].seq
                /\ anchors'[t].updatedAt <= clock
                /\ anchors'[t].pausedUntil <= clock + Cadence
    <2>1. anchors[t].seq \in Nat
      BY <1>7 DEF Anchor
    <2>2. CASE anchors'[t] = new(t)
      BY <2>1, <2>2, <1>2, <1>6, <1>8
    <2>3. CASE anchors'[t] = anchors[t]
      BY <2>1, <2>3, <1>1 DEF ClockInv, PauseIsBounded
    <2> QED BY <2>2, <2>3, <1>9
  <1>13. AnchorsMove
    BY <1>11, <1>12 DEF AnchorsMove
  <1>14. QED
    BY <1>13, ReturnStep DEF PersistPause

\* The transaction ends without a commit: the instance goes on with its manifest
\* but can no longer publish it.
LEMMA TransactionEnds ==
  ASSUME Inv, NEW p \in Publishers, Holds(p),
         lock' = lock \ {p},
         UNCHANGED <<clock, anchors, pointer, manifests, stored, published>>,
         \/ pc' = pc /\ job' = [job EXCEPT ![p].open = FALSE]
         \/ pc' = [pc EXCEPT ![p] = "pause"] /\ job' = job
  PROVE  Inv'
  <1>1. TypeOK /\ LockInv /\ ClockInv /\ \A q \in Publishers : JobInv(q)
    BY DEF Inv
  <1>2. job[p] \in Job
    BY <1>1 DEF TypeOK
  <1> DEFINE new == [job[p] EXCEPT !.open = FALSE]
  <1>3. /\ new \in Job /\ new.now = job[p].now /\ new.manifest = job[p].manifest
        /\ new.todo = job[p].todo /\ new.open = FALSE
    BY <1>2 DEF Job
  <1>4. \/ pc' = pc /\ job' = [job EXCEPT ![p] = new]
        \/ pc' = [pc EXCEPT ![p] = "pause"] /\ job' = job
    OBVIOUS
  <1> HIDE DEF new
  <1>5. /\ job' \in [Publishers -> Job]
        /\ pc' \in [Publishers -> {"idle", "started", "upload", "pause"}]
        /\ \A q \in Publishers \ {p} : pc'[q] = pc[q] /\ job'[q] = job[q]
    BY <1>1, <1>3, <1>4 DEF TypeOK
  <1>6. /\ job'[p].now = job[p].now /\ job'[p].manifest = job[p].manifest
        /\ job'[p].todo = job[p].todo
        /\ pc'[p] \in {"pause", pc[p]} /\ ~ (pc'[p] = "upload" /\ job'[p].open)
    BY <1>1, <1>3, <1>4 DEF TypeOK, Holds
  <1>7. TypeOK'
    BY <1>1, <1>5 DEF TypeOK
  <1>8. ClockInv'
    BY <1>1, <1>5, <1>6 DEF ClockInv
  <1>9. LockInv'
    BY <1>1, <1>5, <1>6 DEF LockInv, Publishing
  <1>10. ASSUME NEW q \in Publishers PROVE JobInv(q)'
    <2>1. CASE q = p
      BY <2>1, <1>1, <1>6 DEF JobInv, Holds, Publishing, StoredAt, AloneAtBoundary
    <2>2. CASE q # p
      BY <2>2, <1>1, <1>5, JobFrame
    <2> QED BY <2>1, <2>2
  <1>11. HeadsInv' /\ PauseIsBounded'
    BY DEF Inv, HeadsInv, PauseIsBounded
  <1>12. ManifestChainSound' /\ LinkResolves' /\ PointerInv'
    BY ChainFrame DEF Inv
  <1>13. QED
    BY <1>7, <1>8, <1>9, <1>10, <1>11, <1>12 DEF Inv

LEMMA UploadEndsInv ==
  ASSUME Inv, NEW p \in Publishers, TransactionExpires(p) \/ UploadFails(p)
  PROVE  Inv'
  BY TransactionEnds DEF TransactionExpires, UploadFails, Holds
----------------------------------------------------------------------------
\* Uploads: writing under a key removes no artifact of a manifest that has its
\* key for itself.
LEMMA StoredKept ==
  ASSUME TypeOK, NEW p \in Publishers, NEW d \in Destinations, Upload(p, d),
         job[p].manifest \in DOMAIN manifests,
         NEW e \in Destinations, NEW m \in DOMAIN manifests, StoredAt(e, m)
  PROVE  StoredAt(e, m)'
  <1> SUFFICES ASSUME AloneAtBoundary(m)
               PROVE  <<e, manifests[m].boundary, m>> \in stored'
    BY DEF Upload, StoredAt, AloneAtBoundary
  <1>1. <<e, manifests[m].boundary, m>> \in stored
    BY DEF StoredAt
  <1>2. manifests[job[p].manifest].boundary = manifests[m].boundary => job[p].manifest = m
    BY DEF AloneAtBoundary
  <1>3. PICK b : b = manifests[job[p].manifest].boundary
    OBVIOUS
  <1>4. stored' = {x \in stored : x[1] # d \/ x[2] # b} \cup {<<d, b, job[p].manifest>>}
    BY <1>3 DEF Upload
  <1>5. CASE e # d \/ manifests[m].boundary # b
    BY <1>1, <1>4, <1>5
  <1>6. CASE e = d /\ manifests[m].boundary = b
    BY <1>2, <1>3, <1>4, <1>6
  <1>7. QED
    BY <1>5, <1>6

LEMMA UploadInv ==
  ASSUME Inv, NEW p \in Publishers, NEW d \in Destinations, Upload(p, d)
  PROVE  Inv'
  <1>1. TypeOK /\ LockInv /\ ClockInv /\ PointerInv /\ LinkResolves
        /\ \A q \in Publishers : JobInv(q)
    BY DEF Inv
  <1>2. /\ UNCHANGED <<clock, anchors, pointer, lock, pc, manifests, published>>
        /\ pc[p] = "upload" /\ job[p] \in Job
    BY <1>1 DEF Upload, TypeOK
  <1>3. job[p].manifest \in DOMAIN manifests
    BY <1>1, <1>2 DEF JobInv, Holds
  <1>4. manifests[job[p].manifest] \in Manifest
    BY <1>1, <1>3 DEF TypeOK
  <1> DEFINE new == [job[p] EXCEPT !.todo = @ \ {d}]
  <1>5. /\ new \in Job /\ new.now = job[p].now /\ new.manifest = job[p].manifest
        /\ new.todo = job[p].todo \ {d} /\ new.open = job[p].open
    BY <1>2 DEF Job
  <1>6. job' = [job EXCEPT ![p] = new]
    BY DEF Upload
  <1> HIDE DEF new
  <1>7. job' \in [Publishers -> Job] /\ job'[p] = new /\ \A q \in Publishers \ {p} : job'[q] = job[q]
    BY <1>1, <1>5, <1>6 DEF TypeOK
  <1>8. stored' \subseteq Destinations \X Nat \X Nat
    <2>1. manifests[job[p].manifest].boundary \in Nat /\ job[p].manifest \in Nat
      BY <1>2, <1>4 DEF Manifest, Job
    <2>2. stored \subseteq Destinations \X Nat \X Nat
      BY <1>1 DEF TypeOK
    <2> QED BY <2>1, <2>2 DEF Upload
  <1>9. TypeOK'
    BY <1>1, <1>2, <1>7, <1>8 DEF TypeOK
  <1>10. ClockInv'
    BY <1>1, <1>2, <1>5, <1>7 DEF ClockInv
  <1>11. LockInv'
    BY <1>1, <1>2, <1>5, <1>7 DEF LockInv, Publishing
  <1>12. \A e \in Destinations, m \in DOMAIN manifests : StoredAt(e, m) => StoredAt(e, m)'
    BY <1>1, <1>3, StoredKept
  <1>13. <<d, manifests[job[p].manifest].boundary, job[p].manifest>> \in stored'
    BY DEF Upload
  <1>14. ASSUME NEW q \in Publishers PROVE JobInv(q)'
    <2>1. pc'[q] = pc[q] /\ job'[q].manifest = job[q].manifest /\ job'[q].open = job[q].open
      BY <1>2, <1>5, <1>7
    <2>2. (Holds(q) => job[q].manifest \in DOMAIN manifests)'
      BY <1>1, <1>2, <2>1 DEF JobInv, Holds
    <2>3. (Publishing(q) => Continues(job[q].manifest))'
      BY <1>1, <1>2, <2>1 DEF JobInv, Publishing, Continues
    <2>4. ASSUME pc[q] = "upload", NEW e \in Destinations \ job'[q].todo
          PROVE  StoredAt(e, job[q].manifest)'
      <3>1. job[q].manifest \in DOMAIN manifests
        BY <1>1, <2>4 DEF JobInv, Holds
      <3>2. CASE e \notin job[q].todo
        <4>1. StoredAt(e, job[q].manifest)
          BY <1>1, <2>4, <3>2 DEF JobInv
        <4>2. PICK m \in DOMAIN manifests : m = job[q].manifest
          BY <3>1
        <4>3. StoredAt(e, m)'
          BY <1>12, <4>1, <4>2
        <4> QED BY <4>2, <4>3, <2>1 DEF StoredAt, AloneAtBoundary
      <3>3. CASE e \in job[q].todo
        <4>1. q = p /\ e = d
          BY <1>5, <1>7, <2>4, <3>3
        <4> QED BY <4>1, <1>13, <1>2, <2>1 DEF StoredAt
      <3> QED BY <3>2, <3>3
    <2>5. (pc[q] = "upload" => \A e \in Destinations \ job[q].todo : StoredAt(e, job[q].manifest))'
      BY <2>1, <2>4
    <2> QED BY <2>2, <2>3, <2>5 DEF JobInv
  <1>15. HeadsInv' /\ PauseIsBounded' /\ ManifestChainSound' /\ PointerInv'
    BY <1>2 DEF Inv, HeadsInv, PauseIsBounded, ManifestChainSound, ManifestChainLinear,
                HeadsNeverRegress, PointerInv
  <1>16. LinkResolves'
    <2> SUFFICES ASSUME NEW n \in DOMAIN published, NEW e \in Destinations
                 PROVE  StoredAt(e, published[n])'
      BY <1>2 DEF LinkResolves, StoredAt
    <2>1. PICK m \in DOMAIN manifests : m = published[n]
      BY <1>1 DEF PointerInv
    <2>2. StoredAt(e, m)
      BY <1>1, <2>1 DEF LinkResolves, StoredAt
    <2>3. StoredAt(e, m)'
      BY <1>12, <2>2
    <2> QED BY <1>2, <2>1, <2>3 DEF StoredAt, AloneAtBoundary
  <1>17. QED
    BY <1>9, <1>10, <1>11, <1>14, <1>15, <1>16 DEF Inv
----------------------------------------------------------------------------
\* Building.

LEMMA NewManifestType ==
  ASSUME TypeOK, NEW now \in Nat, NEW ts \in SUBSET Tenants
  PROVE  NewManifest(now, ts) \in Manifest
  <1>1. Boundary(now) \in Nat /\ pointer \in Nat
    BY BoundaryType DEF TypeOK
  <1>2. \A t \in Tenants : anchors[t].seq \in Nat
    BY DEF TypeOK, Anchor
  <1>3. [t \in Tenants |-> IF t \in ts THEN anchors[t].seq ELSE 0] \in [Tenants -> Nat]
    BY <1>2
  <1>4. QED
    BY <1>1, <1>3 DEF NewManifest, Manifest

\* Adding a manifest leaves the others, and can only share a key.
LEMMA AppendKeeps ==
  ASSUME manifests \in Seq(Manifest), NEW new \in Manifest, manifests' = Append(manifests, new)
  PROVE  /\ manifests' \in Seq(Manifest)
         /\ Len(manifests) \in Nat
         /\ DOMAIN manifests = 1 .. Len(manifests)
         /\ DOMAIN manifests' = 1 .. (Len(manifests) + 1)
         /\ manifests'[Len(manifests) + 1] = new
         /\ \A m \in DOMAIN manifests :
              /\ m \in DOMAIN manifests' /\ manifests'[m] = manifests[m]
              /\ AloneAtBoundary(m)' => AloneAtBoundary(m)
  <1>1. /\ manifests' \in Seq(Manifest) /\ Len(manifests) \in Nat
        /\ DOMAIN manifests = 1 .. Len(manifests)
        /\ Len(manifests') = Len(manifests) + 1
        /\ manifests'[Len(manifests) + 1] = new
    BY AppendProperties, LenProperties
  <1>2. DOMAIN manifests' = 1 .. (Len(manifests) + 1)
    BY <1>1
  <1>3. \A m \in 1 .. Len(manifests) : manifests'[m] = manifests[m]
    BY AppendProperties
  <1>4. \A m \in DOMAIN manifests : m \in DOMAIN manifests' /\ manifests'[m] = manifests[m]
    BY <1>1, <1>2, <1>3
  <1>5. ASSUME NEW m \in DOMAIN manifests, AloneAtBoundary(m)'
        PROVE  AloneAtBoundary(m)
    BY <1>4, <1>5 DEF AloneAtBoundary
  <1>6. QED
    BY <1>1, <1>2, <1>4, <1>5

LEMMA BuildManifestInv ==
  ASSUME Inv, NEW p \in Publishers, BuildManifest(p)
  PROVE  Inv'
  <1>1. TypeOK /\ LockInv /\ ClockInv /\ PointerInv /\ HeadsInv /\ LinkResolves
        /\ ManifestChainSound /\ \A q \in Publishers : JobInv(q)
    BY DEF Inv
  <1>2. PICK ts \in SUBSET Tenants : ts = NotPaused(job[p].now) /\ ts # {}
    BY DEF BuildManifest, NotPaused
  <1>3. job[p] \in Job /\ job[p].now \in Nat /\ clock \in Nat
    BY <1>1 DEF TypeOK, Job
  <1>4. \A t \in Tenants : anchors[t].updatedAt \in Nat /\ anchors[t].updatedAt <= clock
    BY <1>1 DEF TypeOK, Anchor, ClockInv
  <1>5. PICK u \in Nat : u = LargestOf({anchors[t].updatedAt : t \in ts})
    <2> DEFINE S == {anchors[t].updatedAt : t \in ts}
    <2>1. S \subseteq Nat /\ \A x \in S : x <= clock
      BY <1>4
    <2>2. S # {}
      BY <1>2
    <2>3. LargestOf(S) \in Nat
      <3> HIDE DEF S
      <3>1. LargestOf(S) \in S
        BY <2>1, <2>2, <1>3, LargestBelow
      <3> QED BY <3>1, <2>1
    <2> QED BY <2>3
  <1>6. PICK mf \in Manifest : mf = NewManifest(job[p].now, ts)
    BY <1>1, <1>3, NewManifestType
  <1>7. PICK k : k = Len(manifests) + 1
    OBVIOUS
  <1> DEFINE new == [job[p] EXCEPT !.manifest = k, !.todo = Destinations,
                                   !.open = TRUE, !.updatedAt = u]
  <1>8. /\ manifests' = Append(manifests, mf)
        /\ lock = {} /\ lock' = {p}
        /\ job' = [job EXCEPT ![p] = new]
        /\ pc' = [pc EXCEPT ![p] = "upload"]
        /\ UNCHANGED <<clock, anchors, pointer, stored, published>>
    BY <1>1, <1>2, <1>5, <1>6, <1>7 DEF BuildManifest, TypeOK
  <1>9. manifests \in Seq(Manifest)
    BY <1>1 DEF TypeOK
  <1>10. /\ manifests' \in Seq(Manifest) /\ Len(manifests) \in Nat
         /\ DOMAIN manifests = 1 .. Len(manifests)
         /\ DOMAIN manifests' = 1 .. k /\ manifests'[k] = mf
         /\ \A m \in DOMAIN manifests :
              /\ m \in DOMAIN manifests' /\ manifests'[m] = manifests[m]
              /\ AloneAtBoundary(m)' => AloneAtBoundary(m)
    BY <1>7, <1>8, <1>9, AppendKeeps
  <1>11. k \in Nat /\ k \in DOMAIN manifests' /\ DOMAIN manifests' = DOMAIN manifests \cup {k}
    BY <1>7, <1>10
  <1>12. /\ new \in Job /\ new.now = job[p].now /\ new.manifest = k
         /\ new.todo = Destinations /\ new.open = TRUE
    BY <1>3, <1>11 DEF Job
  <1> HIDE DEF new
  <1>13. job' \in [Publishers -> Job] /\ job'[p] = new /\ \A q \in Publishers \ {p} : job'[q] = job[q]
    BY <1>1, <1>8, <1>12 DEF TypeOK
  <1>14. /\ pc' \in [Publishers -> {"idle", "started", "upload", "pause"}]
         /\ pc'[p] = "upload" /\ \A q \in Publishers \ {p} : pc'[q] = pc[q]
    BY <1>1, <1>8 DEF TypeOK
  <1>15. /\ mf.prev = pointer /\ mf.tenants = ts
         /\ \A t \in ts : mf.heads[t] = anchors[t].seq
    BY <1>6, <1>2 DEF NewManifest
  <1>16. TypeOK'
    BY <1>1, <1>8, <1>10, <1>13, <1>14 DEF TypeOK
  <1>17. ClockInv'
    BY <1>1, <1>8, <1>12, <1>13 DEF ClockInv
  <1>18. \A q \in Publishers : ~ Publishing(q)
    BY <1>1, <1>8 DEF LockInv
  <1>19. LockInv'
    BY <1>8, <1>13, <1>14, <1>18 DEF LockInv, Publishing
  <1>20. HeadsInv'
    <2> SUFFICES ASSUME NEW m \in DOMAIN manifests', NEW t \in manifests'[m].tenants
                 PROVE  manifests'[m].heads[t] <= anchors[t].seq
      BY <1>8 DEF HeadsInv
    <2>1. CASE m \in DOMAIN manifests
      BY <2>1, <1>1, <1>10 DEF HeadsInv
    <2>2. CASE m = k
      <3>1. t \in ts /\ manifests'[m].heads[t] = anchors[t].seq
        BY <2>2, <1>10, <1>15
      <3>2. anchors[t].seq \in Nat
        BY <3>1, <1>1 DEF TypeOK, Anchor
      <3> QED BY <3>1, <3>2
    <2> QED BY <2>1, <2>2, <1>11
  <1>21. \A n \in DOMAIN published : published[n] \in DOMAIN manifests
    BY <1>1 DEF PointerInv
  <1>22. \A n \in DOMAIN published : manifests'[published[n]] = manifests[published[n]]
    BY <1>10, <1>21
  <1>23. PointerInv'
    BY <1>1, <1>8, <1>10, <1>21 DEF PointerInv
  <1>24. ManifestChainSound'
    <2>1. published' = published
      BY <1>8
    <2>2. ManifestChainLinear'
      BY <2>1, <1>1, <1>22 DEF ManifestChainSound, ManifestChainLinear
    <2>3. HeadsNeverRegress'
      BY <2>1, <1>1, <1>22 DEF ManifestChainSound, HeadsNeverRegress
    <2> QED BY <2>2, <2>3 DEF ManifestChainSound
  <1>25. LinkResolves'
    BY <1>1, <1>8, <1>10, <1>21, <1>22 DEF LinkResolves
  <1>26. ASSUME NEW q \in Publishers PROVE JobInv(q)'
    <2>1. CASE q = p
      <3>1. Continues(k)'
        <4> SUFFICES ASSUME NEW n \in DOMAIN published,
                            NEW t \in manifests[published[n]].tenants \cap ts
                     PROVE  manifests[published[n]].heads[t] <= mf.heads[t]
          BY <1>8, <1>10, <1>15, <1>22 DEF Continues
        <4>1. manifests[published[n]].heads[t] <= anchors[t].seq
          BY <1>1, <1>21 DEF HeadsInv
        <4> QED BY <4>1, <1>15
      <3>2. Continues(job[p].manifest)'
        BY <3>1, <1>12, <1>13 DEF Continues
      <3> QED BY <2>1, <3>2, <1>11, <1>12, <1>13, <1>14 DEF JobInv
    <2>2. CASE q # p
      <3>1. pc'[q] = pc[q] /\ job'[q] = job[q] /\ ~ Publishing(q) /\ JobInv(q)
        BY <2>2, <1>1, <1>13, <1>14, <1>18
      <3>2. (Holds(q) => job[q].manifest \in DOMAIN manifests)'
        BY <3>1, <1>10 DEF JobInv, Holds
      <3>3. ~ Publishing(q)'
        BY <3>1 DEF Publishing
      <3>4. ASSUME pc[q] = "upload", NEW e \in Destinations \ job[q].todo
            PROVE  StoredAt(e, job[q].manifest)'
        BY <3>1, <3>4, <1>8, <1>10 DEF JobInv, Holds, StoredAt
      <3>5. (pc[q] = "upload" => \A e \in Destinations \ job[q].todo : StoredAt(e, job[q].manifest))'
        BY <3>1, <3>4
      <3> QED BY <3>2, <3>3, <3>5 DEF JobInv
    <2> QED BY <2>1, <2>2
  <1>27. PauseIsBounded'
    BY <1>8 DEF Inv, PauseIsBounded
  <1>28. QED
    BY <1>16, <1>17, <1>19, <1>20, <1>23, <1>24, <1>25, <1>26, <1>27 DEF Inv
----------------------------------------------------------------------------
\* Publishing.
LEMMA PublishInv ==
  ASSUME Inv, NEW p \in Publishers, Publish(p)
  PROVE  Inv'
  <1>1. TypeOK /\ LockInv /\ ClockInv /\ PointerInv /\ HeadsInv /\ LinkResolves
        /\ ManifestChainSound /\ PauseIsBounded /\ \A q \in Publishers : JobInv(q)
    BY DEF Inv
  <1>2. PICK m : m = job[p].manifest
    OBVIOUS
  <1>3. /\ Publishing(p) /\ job[p].todo = {} /\ job[p] \in Job
        /\ pointer' = m /\ published' = Append(published, m) /\ lock' = lock \ {p}
        /\ Return(p) /\ UNCHANGED <<clock, manifests, stored>>
    BY <1>1, <1>2 DEF Publish, Publishing, TypeOK
  <1>4. m \in DOMAIN manifests /\ Continues(m) /\ \A d \in Destinations : StoredAt(d, m)
    BY <1>1, <1>2, <1>3 DEF JobInv, Holds, Publishing
  <1>5. m \in Nat /\ job[p].now \in Nat /\ clock \in Nat
    BY <1>1, <1>2, <1>3 DEF Job, TypeOK
  <1>6. AnchorsMove
    <2> DEFINE new(t) == [anchors[t] EXCEPT !.publishedAt = job[p].now, !.pausedUntil = 0,
                                            !.pausedBy = 0, !.updatedAt = clock]
    <2>1. \A t \in Tenants : anchors[t] \in Anchor
      BY <1>1 DEF TypeOK
    <2>2. ASSUME NEW t \in Tenants
          PROVE  /\ new(t) \in Anchor /\ new(t).seq = anchors[t].seq
                 /\ new(t).updatedAt = clock /\ new(t).pausedUntil = 0
      BY <2>1, <1>5 DEF Anchor
    <2>3. /\ anchors' = [t \in Tenants |-> anchors'[t]]
          /\ \A t \in Tenants : anchors'[t] = new(t) \/ anchors'[t] = anchors[t]
      BY DEF Publish
    <2> HIDE DEF new
    <2>4. \A t \in Tenants : anchors'[t] \in Anchor
      BY <2>1, <2>2, <2>3
    <2>5. anchors' \in [Tenants -> Anchor]
      BY <2>3, <2>4
    <2>6. ASSUME NEW t \in Tenants
          PROVE  /\ anchors[t].seq <= anchors'[t].seq
                 /\ anchors'[t].updatedAt <= clock
                 /\ anchors'[t].pausedUntil <= clock + Cadence
      <3>1. anchors[t].seq \in Nat /\ Cadence \in Nat
        BY <2>1, PublisherAssumption DEF Anchor
      <3>2. CASE anchors'[t] = new(t)
        BY <3>1, <3>2, <2>2, <1>5
      <3>3. CASE anchors'[t] = anchors[t]
        BY <3>1, <3>3, <1>1 DEF ClockInv, PauseIsBounded
      <3> QED BY <3>2, <3>3, <2>3
    <2> QED BY <2>5, <2>6 DEF AnchorsMove
  <1>7. /\ HeadsInv' /\ PauseIsBounded'
        /\ \A t \in Tenants : anchors'[t].updatedAt <= clock'
    BY <1>1, <1>3, <1>6, AnchorsFrame
  <1> DEFINE idle == [Idle EXCEPT !.now = job[p].now]
  <1>8. idle \in Job /\ idle.now = job[p].now
    BY <1>5, IdleAt
  <1>9. job' = [job EXCEPT ![p] = idle] /\ pc' = [pc EXCEPT ![p] = "idle"]
    BY <1>3 DEF Return
  <1> HIDE DEF idle
  <1>10. job' \in [Publishers -> Job] /\ job'[p] = idle /\ \A q \in Publishers \ {p} : job'[q] = job[q]
    BY <1>1, <1>8, <1>9 DEF TypeOK
  <1>11. /\ pc' \in [Publishers -> {"idle", "started", "upload", "pause"}]
         /\ pc'[p] = "idle" /\ \A q \in Publishers \ {p} : pc'[q] = pc[q]
    BY <1>1, <1>9 DEF TypeOK
  <1>12. published \in Seq(Nat)
    BY <1>1 DEF TypeOK
  <1>13. PICK k : k = Len(published) + 1
    OBVIOUS
  <1>14. /\ published' \in Seq(Nat) /\ Len(published') = k /\ published'[k] = m
         /\ Len(published) \in Nat /\ DOMAIN published = 1 .. Len(published)
         /\ DOMAIN published' = 1 .. k
         /\ \A n \in 1 .. Len(published) : published'[n] = published[n]
    BY <1>3, <1>5, <1>12, <1>13, AppendProperties, LenProperties
  <1>15. /\ k \in Nat /\ k # 0 /\ DOMAIN published' = DOMAIN published \cup {k}
         /\ \A n \in DOMAIN published : n \in Nat /\ n < k /\ published'[n] = published[n]
    BY <1>13, <1>14
  <1>16. TypeOK'
    BY <1>1, <1>3, <1>5, <1>6, <1>10, <1>11, <1>14 DEF TypeOK, AnchorsMove
  <1>17. ClockInv'
    BY <1>1, <1>3, <1>7, <1>8, <1>10 DEF ClockInv
  <1>18. \A q \in Publishers \ {p} : ~ Publishing(q)
    BY <1>1, <1>3 DEF LockInv
  <1>19. \A q \in Publishers : ~ Publishing(q)'
    BY <1>10, <1>11, <1>18 DEF Publishing
  <1>20. LockInv'
    BY <1>1, <1>3, <1>19 DEF LockInv
  <1>21. ASSUME NEW q \in Publishers PROVE JobInv(q)'
    <2>1. CASE q = p
      BY <2>1, <1>11, <1>19 DEF JobInv, Holds
    <2>2. CASE q # p
      <3>1. pc'[q] = pc[q] /\ job'[q] = job[q] /\ JobInv(q)
        BY <2>2, <1>1, <1>10, <1>11
      <3> QED BY <3>1, <1>3, <1>19 DEF JobInv, Holds, StoredAt, AloneAtBoundary
    <2> QED BY <2>1, <2>2
  <1>22. PointerInv'
    <2>1. \A n \in DOMAIN published' : published'[n] \in DOMAIN manifests
      BY <1>1, <1>4, <1>14, <1>15 DEF PointerInv
    <2> QED BY <2>1, <1>3, <1>14, <1>15 DEF PointerInv
  <1>23. ManifestChainLinear'
    <2> SUFFICES ASSUME NEW n \in DOMAIN published'
                 PROVE  manifests[published'[n]].prev = IF n = 1 THEN 0 ELSE published'[n - 1]
      BY <1>3 DEF ManifestChainLinear
    <2>1. CASE n \in DOMAIN published
      <3>1. manifests[published[n]].prev = IF n = 1 THEN 0 ELSE published[n - 1]
        BY <2>1, <1>1 DEF ManifestChainSound, ManifestChainLinear
      <3>2. n # 1 => n - 1 \in DOMAIN published
        BY <2>1, <1>14
      <3> QED BY <2>1, <3>1, <3>2, <1>15
    <2>2. CASE n = k
      <3>1. manifests[m].prev = IF Len(published) = 0 THEN 0 ELSE published[Len(published)]
        BY <1>1, <1>4 DEF Continues, PointerInv
      <3>2. n - 1 = Len(published) /\ (n = 1 <=> Len(published) = 0)
        BY <2>2, <1>13, <1>14
      <3>3. Len(published) # 0 => published'[n - 1] = published[Len(published)]
        BY <3>2, <1>14
      <3> QED BY <2>2, <3>1, <3>2, <3>3, <1>14
    <2> QED BY <2>1, <2>2, <1>15
  <1>24. HeadsNeverRegress'
    <2> SUFFICES ASSUME NEW i \in DOMAIN published', NEW n \in DOMAIN published', i < n,
                        NEW t \in manifests[published'[i]].tenants
                                    \cap manifests[published'[n]].tenants
                 PROVE  manifests[published'[i]].heads[t] <= manifests[published'[n]].heads[t]
      BY <1>3 DEF HeadsNeverRegress
    <2>1. i \in DOMAIN published
      BY <1>13, <1>14
    <2>2. published'[i] = published[i]
      BY <2>1, <1>15
    <2>3. CASE n \in DOMAIN published
      BY <2>1, <2>2, <2>3, <1>1, <1>15 DEF ManifestChainSound, HeadsNeverRegress
    <2>4. CASE n = k
      BY <2>1, <2>2, <2>4, <1>4, <1>14 DEF Continues
    <2> QED BY <2>3, <2>4, <1>15
  <1>25. LinkResolves'
    <2> SUFFICES ASSUME NEW n \in DOMAIN published', NEW d \in Destinations
                 PROVE  StoredAt(d, published'[n])
      BY <1>3 DEF LinkResolves, StoredAt, AloneAtBoundary
    <2>1. CASE n \in DOMAIN published
      BY <2>1, <1>1, <1>15 DEF LinkResolves, StoredAt
    <2>2. CASE n = k
      BY <2>2, <1>4, <1>14
    <2> QED BY <2>1, <2>2, <1>15
  <1>26. QED
    BY <1>7, <1>16, <1>17, <1>20, <1>21, <1>22, <1>23, <1>24, <1>25
       DEF Inv, ManifestChainSound
----------------------------------------------------------------------------
\* Every step keeps the invariant.
LEMMA NextInv ==
  ASSUME Inv, [Next]_vars
  PROVE  Inv'
  <1>1. CASE Tick
    BY <1>1, TickInv
  <1>2. ASSUME NEW t \in Tenants, GrowChain(t) PROVE Inv'
    BY <1>2, GrowChainInv
  <1>3. ASSUME NEW p \in Publishers, RunCadence(p) PROVE Inv'
    <2>1. CASE StartCadence(p)
      BY <2>1, StartCadenceInv
    <2>2. CASE LockHeld(p) \/ SkipAllPaused(p)
      BY <2>2, LockHeldInv
    <2>3. CASE BuildManifest(p)
      BY <2>3, BuildManifestInv
    <2>4. CASE TransactionExpires(p) \/ UploadFails(p)
      BY <2>4, UploadEndsInv
    <2>5. CASE \E d \in Destinations : Upload(p, d)
      BY <2>5, UploadInv
    <2>6. CASE Publish(p)
      BY <2>6, PublishInv
    <2>7. CASE CadenceFails(p)
      BY <2>7, CadenceFailsInv
    <2>8. CASE PersistPause(p)
      BY <2>8, PersistPauseInv
    <2> QED BY <1>3, <2>1, <2>2, <2>3, <2>4, <2>5, <2>6, <2>7, <2>8 DEF RunCadence
  <1>4. CASE UNCHANGED vars
    <2>1. TypeOK' /\ ClockInv' /\ LockInv' /\ HeadsInv' /\ PauseIsBounded'
      BY <1>4 DEF vars, Inv, TypeOK, ClockInv, LockInv, HeadsInv, PauseIsBounded, Publishing
    <2>2. \A p \in Publishers : JobInv(p)'
      BY <1>4, JobFrame DEF vars, Inv
    <2>3. ManifestChainSound' /\ LinkResolves' /\ PointerInv'
      BY <1>4, ChainFrame DEF vars, Inv
    <2> QED BY <2>1, <2>2, <2>3 DEF Inv
  <1>5. QED
    BY <1>1, <1>2, <1>3, <1>4 DEF Next

LEMMA InvHolds == Spec => []Inv
  <1>1. Init => Inv
    BY InitInv
  <1>2. Inv /\ [Next]_vars => Inv'
    BY NextInv
  <1>3. QED
    BY <1>1, <1>2, PTL DEF Spec

\* Type correctness: in particular the pause computed from MAX(updated_at) is a
\* time, however many tenants the manifest covers.
THEOREM TypeSafety == Spec => []TypeOK
  <1>1. Inv => TypeOK
    BY DEF Inv
  <1>2. QED
    BY <1>1, InvHolds, PTL

\* The committed manifests form one chain whose heads never go back: with any
\* number of instances that race for the advisory lock, outlive their transaction
\* or die (runCadence, steps 2 to 11).
THEOREM OneManifestChain == Spec => []ManifestChainSound
  <1>1. Inv => ManifestChainSound
    BY DEF Inv
  <1>2. QED
    BY <1>1, InvHolds, PTL

\* A committed manifest is at every destination under its boundary's key, unless
\* another run wrote under the same key (step 9 before steps 10 and 11).
THEOREM LinksResolve == Spec => []LinkResolves
  <1>1. Inv => LinkResolves
    BY DEF Inv
  <1>2. QED
    BY <1>1, InvHolds, PTL

\* The pause that a failed upload sets is over within one cadence, whatever the
\* cap factor (the LEAST and GREATEST of the catch block).
THEOREM PausesEnd == Spec => []PauseIsBounded
  <1>1. Inv => PauseIsBounded
    BY DEF Inv
  <1>2. QED
    BY <1>1, InvHolds, PTL
----------------------------------------------------------------------------
(* Verification.  A hash carries the position of its row and the hash of the   *)
(* row before it, so what a walk compares ties a row to its place.             *)

\* h is the hash of a row at position n, and says so of the position before it.
Hashed(h, n) == Len(h) = 5 /\ h[3] = n
Follows(h, n) ==
  /\ Hashed(h, n)
  /\ n = 1 => h[1] = Genesis
  /\ n > 1 => Hashed(h[1], n - 1)

\* ... written by the worker, as its predecessor was; what an anchor of a chain of
\* n rows holds.
Genuine(h, n) == Follows(h, n) /\ h[5] = "event" /\ (n > 1 => h[1][5] = "event")
Vouches(h, n) == IF n = 0 THEN h = Genesis ELSE Genuine(h, n)

\* Hashes are nested without bound and in no set, so records are typed by shape.
IsRow(r) == r = [id |-> r.id, seq |-> r.seq, created |-> r.created, payload |-> r.payload,
                 columns |-> r.columns, prev |-> r.prev, hash |-> r.hash]
IsRequest(q) ==
  q = [phase |-> q.phase, from |-> q.from, to |-> q.to, anchorSeq |-> q.anchorSeq,
       head |-> q.head, fromSeq |-> q.fromSeq, toSeq |-> q.toSeq, seed |-> q.seed, sees |-> q.sees,
       reason |-> q.reason, before |-> q.before, changed |-> q.changed, lost |-> q.lost]

\* Rows: changed or not, the stored hash is of the row's position.  No row of the
\* anchor's chain lies beyond the anchor.
RowInv(r) ==
  /\ IsRow(r)
  /\ r.id \in {0, 1} /\ r.seq \in 1..MaxLen /\ r.created \in Times
  /\ Follows(r.hash, r.seq)
  /\ r.id = (IF change.kind = "anchor" THEN 1 ELSE 0) => r.seq <= anchor.seq
  /\ r.id = 1 => change.kind = "anchor"

AnchorInv ==
  /\ anchor = [exists |-> anchor.exists, seq |-> anchor.seq, head |-> anchor.head]
  /\ anchor.seq \in 0..MaxLen
  /\ ~anchor.exists => anchor.seq = 0
  /\ Vouches(anchor.head, anchor.seq)

\* A chain has one row at a position.
Unique == \A r, s \in logs : r.seq = s.seq /\ r.id = s.id => r = s

\* Until somebody changes a row each one fits the next and the last the anchor,
\* and until rows are purged all of them are there.
Linked ==
  change.kind = "none" =>
    /\ \A r \in logs : /\ r.hash = EventHash(r.prev, r.id, r.seq, r.created, r.payload)
                       /\ r.payload = "event" /\ r.columns = "event"
                       /\ r.seq = 1 => r.prev = Genesis
                       /\ r.seq = anchor.seq => anchor.head = r.hash
    /\ \A r, s \in logs : s.seq = r.seq + 1 => s.prev = r.hash
Whole ==
  change.kind = "none" /\ ~purged => \A n \in 1..anchor.seq : \E r \in logs : r.seq = n

\* The trace each change leaves.  A rewritten tail is given away by the row after
\* it, whose hash is of the original.
ChangeInv ==
  /\ change.kind \in {"none", "edit", "column", "link", "delete", "rewrite", "anchor"}
  /\ change.seq \in Nat
  /\ change.kind \notin {"none", "anchor"} => change.seq \in 1..anchor.seq
  /\ change.kind = "rewrite" => change.seq < anchor.seq
  /\ \A r \in logs :
       /\ change.kind = "edit" /\ r.seq = change.seq => r.payload = "edited" /\ r.hash[5] = "event"
       /\ change.kind = "link" /\ r.seq = change.seq => r.prev = <<"edited">>
       /\ change.kind = "delete" => r.seq # change.seq
       /\ change.kind = "rewrite" =>
            /\ r.seq = change.seq => r.hash[5] = "edited"
            /\ r.seq = change.seq + 1 => r.hash[1][5] = "edited"
            /\ r.seq = change.seq + 2 => r.hash[1][1][5] = "event"

\* After the loss of an anchor the first rows of the old chain and of the new one
\* share a position.
LostInv ==
  change.kind = "anchor" /\ ~purged =>
    /\ change.seq > 0 => \E r \in logs : r.id = 0 /\ r.seq = 1
    /\ anchor.seq > 0 => \E r \in logs : r.id = 1 /\ r.seq = 1

TablesInv ==
  /\ IsFiniteSet(logs) /\ \A r \in logs : RowInv(r)
  /\ AnchorInv /\ Unique /\ Linked /\ Whole /\ ChangeInv /\ LostInv

\* What a request has read: a head that vouched for its position, a seed that is the
\* hash of the row before the range, and no more of the chain than there is now.
ReqInv ==
  /\ IsRequest(req)
  /\ req.phase \in {"idle", "count", "from", "to", "seed", "rows", "done"}
  /\ req.reason \in IF req.phase = "done" THEN Reasons ELSE {"none"}
  /\ req.anchorSeq \in Nat /\ req.fromSeq \in Nat \ {0} /\ req.toSeq \in Nat
  /\ req.from \in Nat /\ req.to \in Nat
  /\ Vouches(req.head, req.anchorSeq)
  /\ req.phase = "count" => req.anchorSeq = 0
  /\ req.phase \in {"from", "to", "seed"} => req.seed = Genesis
  /\ req.phase = "rows" => IF req.fromSeq = 1 THEN req.seed = Genesis
                                              ELSE Hashed(req.seed, req.fromSeq - 1)
  /\ FullWalk => req.fromSeq = 1 /\ req.toSeq = req.anchorSeq
  /\ req.toSeq <= req.anchorSeq
  /\ req.before = "anchor" => change.kind = "anchor"
  /\ req.before = "anchor" \/ change.kind # "anchor" => req.anchorSeq <= anchor.seq
  /\ req.phase = "done" /\ req.changed # "none" => change.kind = req.changed

\* Head and seed are those of the rows, as long as nobody changes one.
ReqReads ==
  change.kind = "none" =>
    /\ \A r \in logs : r.seq = req.anchorSeq => req.head = r.hash
    /\ req.phase = "rows" /\ req.fromSeq > 1 =>
         /\ req.fromSeq <= anchor.seq + 1
         /\ \A r \in logs : r.seq = req.fromSeq - 1 => req.seed = r.hash

VerifyInv == TablesInv /\ ReqInv /\ ReqReads /\ NoFalseAlarm /\ ChangeDetected
----------------------------------------------------------------------------
\* MIN and MAX of chain_seq.
LEMMA SeqMinIs ==
  ASSUME NEW S \in SUBSET Nat, S # {}
  PROVE  SeqMin(S) \in S /\ \A y \in S : SeqMin(S) <= y
  BY Least DEF SeqMin

LEMMA SeqMaxIs ==
  ASSUME NEW S \in SUBSET Nat, S # {}, NEW b \in Nat, \A x \in S : x <= b
  PROVE  SeqMax(S) \in S
  BY Greatest DEF SeqMax

\* The order of SELECT ... ORDER BY chain_seq.
Before(x, r, older) ==
  x.seq < r.seq \/ (x.seq = r.seq /\ (IF older THEN x.id <= r.id ELSE x.id >= r.id))
UpTo(S, r, older) == {x \in S : Before(x, r, older)}
Rank(S, r, older) == Cardinality(UpTo(S, r, older))

LEMMA Ranked ==
  ASSUME NEW S, IsFiniteSet(S), NEW older \in BOOLEAN,
         \A x \in S : x.seq \in Nat /\ x.id \in Nat,
         \A x, y \in S : x.seq = y.seq /\ x.id = y.id => x = y,
         NEW k \in 1..Cardinality(S)
  PROVE  \E r \in S : Rank(S, r, older) = k
  <1> DEFINE n == Cardinality(S)
             f == [r \in S |-> Rank(S, r, older)]
  <1>1. n \in Nat
    BY FS_CardinalityType
  <1>2. \A r \in S : /\ IsFiniteSet(UpTo(S, r, older)) /\ Rank(S, r, older) \in 1..n
    <2> TAKE r \in S
    <2>1. UpTo(S, r, older) \in SUBSET S /\ r \in UpTo(S, r, older)
      BY DEF UpTo, Before
    <2>2. IsFiniteSet(UpTo(S, r, older)) /\ Rank(S, r, older) <= n
      BY <2>1, FS_Subset DEF Rank
    <2>3. Rank(S, r, older) \in Nat /\ Rank(S, r, older) # 0
      BY <2>1, <2>2, FS_CardinalityType, FS_EmptySet DEF Rank
    <2>4. QED BY <1>1, <2>2, <2>3
  <1>3. \A x, y \in S : Before(x, y, older) /\ x # y => Rank(S, x, older) # Rank(S, y, older)
    <2> SUFFICES ASSUME NEW x \in S, NEW y \in S, Before(x, y, older), x # y,
                        Rank(S, x, older) = Rank(S, y, older)
                 PROVE  FALSE
      OBVIOUS
    <2>1. ~Before(y, x, older)
      BY DEF Before
    <2>2. UpTo(S, x, older) \in SUBSET UpTo(S, y, older)
      BY DEF UpTo, Before
    <2>3. UpTo(S, x, older) = UpTo(S, y, older)
      BY <1>2, <2>2, FS_Subset DEF Rank
    <2>4. y \in UpTo(S, y, older) /\ y \notin UpTo(S, x, older)
      BY <2>1 DEF UpTo, Before
    <2>5. QED BY <2>3, <2>4
  <1>4. \A x, y \in S : Before(x, y, older) \/ Before(y, x, older)
    BY DEF Before
  <1>5. f \in Injection(S, 1..n)
    <2>1. f \in [S -> 1..n]
      BY <1>2
    <2>2. \A x, y \in S : f[x] = f[y] => x = y
      BY <1>3, <1>4
    <2> HIDE DEF f
    <2>3. QED BY <2>1, <2>2, Fun_IsInj
  <1>6. IsFiniteSet(1..n) /\ Cardinality(1..n) = n
    BY <1>1, FS_Interval
  <1>7. f \in Surjection(S, 1..n)
    <2> HIDE DEF f
    <2> QED BY <1>5, <1>6, FS_Injection
  <1>8. \E r \in S : f[r] = k
    <2> HIDE DEF f
    <2> QED BY <1>7 DEF Surjection
  <1>9. QED BY <1>8

\* What the SELECT returns: rows of S in order, all of them or RowCap.
Ordered(rows, S, older) ==
  /\ Len(rows) \in Nat /\ DOMAIN rows = 1..Len(rows)
  /\ Len(rows) <= Cardinality(S) /\ Len(rows) <= RowCap
  /\ Len(rows) = Cardinality(S) \/ Len(rows) = RowCap
  /\ \A k \in 1..Len(rows) : rows[k] \in S /\ Rank(S, rows[k], older) = k

LEMMA SelectIsOrdered ==
  ASSUME NEW S, IsFiniteSet(S), NEW older \in BOOLEAN,
         \A x \in S : x.seq \in Nat /\ x.id \in Nat,
         \A x, y \in S : x.seq = y.seq /\ x.id = y.id => x = y
  PROVE  Ordered(InSeqOrder(S, older), S, older)
  <1> DEFINE n == SeqMin({Cardinality(S), RowCap})
             row(k) == CHOOSE r \in S : Rank(S, r, older) = k
             rows == [k \in 1..n |-> row(k)]
  <1>1. Cardinality(S) \in Nat /\ RowCap \in Nat
    BY FS_CardinalityType, VerifyAssumption
  <1>2. n \in {Cardinality(S), RowCap} /\ n <= Cardinality(S) /\ n <= RowCap
    BY <1>1, SeqMinIs
  <1>3. n \in Nat
    BY <1>1, <1>2
  <1>4. \A k \in 1..n : row(k) \in S /\ Rank(S, row(k), older) = k
    <2> TAKE k \in 1..n
    <2>1. k \in 1..Cardinality(S)
      BY <1>1, <1>2, <1>3
    <2>2. \E r \in S : Rank(S, r, older) = k
      BY <2>1, Ranked
    <2>3. QED BY <2>2
  <1>5. InSeqOrder(S, older) = rows
    BY DEF InSeqOrder, Rank, UpTo, Before
  <1>6. rows \in Seq(S) /\ Len(rows) = n /\ DOMAIN rows = 1..n
    <2>1. rows \in [1..n -> S]
      BY <1>4
    <2> HIDE DEF n, rows
    <2>2. QED BY <1>3, <2>1
  <1>7. \A k \in 1..n : rows[k] = row(k)
    OBVIOUS
  <1> HIDE DEF n, row, rows
  <1>8. QED BY <1>1, <1>2, <1>3, <1>4, <1>5, <1>6, <1>7 DEF Ordered

\* When every position of a range has one row, the k-th row read is at position k.
LEMMA OrderedByPosition ==
  ASSUME NEW S, IsFiniteSet(S), NEW older \in BOOLEAN, NEW rows, Ordered(rows, S, older),
         NEW from \in Nat, NEW to \in Nat,
         \A x \in S : x.seq \in from..to /\ x.id = 0,
         \A x, y \in S : x.seq = y.seq => x = y,
         \A n \in from..to : \E x \in S : x.seq = n
  PROVE  /\ Cardinality(S) = IF from > to THEN 0 ELSE to - from + 1
         /\ \A k \in 1..Len(rows) : rows[k].seq = from + k - 1
  <1>1. ASSUME NEW T \in SUBSET S, NEW b \in Int, b <= to,
               \A x \in T : x.seq <= b,
               \A x \in S : x.seq <= b => x \in T
        PROVE  Cardinality(T) = IF from > b THEN 0 ELSE b - from + 1
    <2> DEFINE f == [x \in T |-> x.seq]
    <2>1. f \in [T -> from..b]
      BY <1>1
    <2>2. \A x, y \in T : f[x] = f[y] => x = y
      BY <1>1
    <2>3. \A n \in from..b : \E x \in T : f[x] = n
      <3> TAKE n \in from..b
      <3>1. n \in from..to
        BY <1>1
      <3>2. PICK x \in S : x.seq = n
        BY <3>1
      <3>3. x \in T
        BY <1>1, <3>2
      <3>4. QED BY <3>2, <3>3
    <2> HIDE DEF f
    <2>4. f \in Bijection(T, from..b)
      <3>1. f \in Injection(T, from..b)
        BY <2>1, <2>2, Fun_IsInj
      <3>2. f \in Surjection(T, from..b)
        BY <2>1, <2>3, Fun_IsSurj
      <3>3. QED BY <3>1, <3>2 DEF Bijection
    <2>5. IsFiniteSet(T)
      BY <1>1, FS_Subset
    <2>6. Cardinality(from..b) = Cardinality(T)
      BY <2>4, <2>5, FS_Bijection DEF ExistsBijection
    <2>7. QED BY <2>6, FS_Interval
  <1>2. Cardinality(S) = IF from > to THEN 0 ELSE to - from + 1
    <2>1. \A x \in S : x.seq <= to
      OBVIOUS
    <2>2. QED BY <1>1, <2>1
  <1>3. ASSUME NEW k \in 1..Len(rows) PROVE rows[k].seq = from + k - 1
    <2>1. rows[k] \in S /\ Rank(S, rows[k], older) = k
      BY <1>3 DEF Ordered
    <2>2. PICK b : b = rows[k].seq
      OBVIOUS
    <2>3. b \in from..to
      BY <2>1, <2>2
    <2>4. UpTo(S, rows[k], older) \in SUBSET S
      BY DEF UpTo
    <2>5. \A x \in UpTo(S, rows[k], older) : x.seq <= b
      BY <2>1, <2>2, <2>3 DEF UpTo, Before
    <2>6. \A x \in S : x.seq <= b => x \in UpTo(S, rows[k], older)
      BY <2>1, <2>2, <2>3 DEF UpTo, Before
    <2>7. Cardinality(UpTo(S, rows[k], older)) = IF from > b THEN 0 ELSE b - from + 1
      <3>1. b \in Int /\ b <= to
        BY <2>3
      <3>2. PICK T : T = UpTo(S, rows[k], older)
        OBVIOUS
      <3>3. Cardinality(T) = IF from > b THEN 0 ELSE b - from + 1
        BY <1>1, <3>1, <3>2, <2>4, <2>5, <2>6
      <3>4. QED BY <3>2, <3>3
    <2>8. k = b - from + 1
      BY <2>1, <2>3, <2>7 DEF Rank
    <2>9. QED BY <2>2, <2>3, <2>8, <1>3
  <1>4. QED BY <1>2, <1>3

\* Two rows at one position are a gap: no row of a later position is second.
LEMMA ForkIsGap ==
  ASSUME NEW S, IsFiniteSet(S), NEW older \in BOOLEAN, NEW rows, Ordered(rows, S, older),
         \A z \in S : z.seq \in Nat \ {0} /\ z.id \in Nat,
         NEW x \in S, NEW y \in S, x # y, x.seq = 1, y.seq = 1
  PROVE  2 <= Len(rows) /\ rows[2].seq # rows[1].seq + 1
  <1>1. IsFiniteSet({x, y}) /\ Cardinality({x, y}) = 2
    <2>1. {x, y} = {x} \cup {y}
      OBVIOUS
    <2>2. IsFiniteSet({x}) /\ Cardinality({x}) = 1
      BY FS_Singleton
    <2>3. IsFiniteSet({x} \cup {y}) /\ Cardinality({x} \cup {y}) = IF y \in {x} THEN 1 ELSE 1 + 1
      BY <2>2, FS_AddElement
    <2>4. QED BY <2>1, <2>3
  <1>2. 2 <= Cardinality(S) /\ Cardinality(S) \in Nat
    <2>1. {x, y} \in SUBSET S
      OBVIOUS
    <2>2. QED BY <1>1, <2>1, FS_Subset, FS_CardinalityType
  <1>3. 2 <= Len(rows)
    <2>1. RowCap \in Nat /\ 2 <= RowCap
      BY VerifyAssumption
    <2>2. Len(rows) = Cardinality(S) \/ Len(rows) = RowCap
      BY DEF Ordered
    <2>3. QED BY <1>2, <2>1, <2>2
  <1>4. rows[1] \in S /\ rows[2] \in S /\ Rank(S, rows[2], older) = 2
    BY <1>3 DEF Ordered
  <1>5. SUFFICES ASSUME rows[2].seq = rows[1].seq + 1 PROVE FALSE
    BY <1>3
  <1>6. rows[2].seq > 1
    BY <1>4, <1>5
  <1>7. {x, y} \cup {rows[2]} \in SUBSET UpTo(S, rows[2], older)
    BY <1>4, <1>6 DEF UpTo, Before
  <1>8. rows[2] \notin {x, y}
    BY <1>6
  <1>9. Cardinality({x, y} \cup {rows[2]}) = 3
    <2>1. Cardinality({x, y} \cup {rows[2]})
            = IF rows[2] \in {x, y} THEN Cardinality({x, y}) ELSE Cardinality({x, y}) + 1
      BY <1>1, FS_AddElement
    <2>2. QED BY <1>1, <1>8, <2>1
  <1>10. IsFiniteSet(UpTo(S, rows[2], older))
    <2>1. UpTo(S, rows[2], older) \in SUBSET S
      BY DEF UpTo
    <2>2. QED BY <2>1, FS_Subset
  <1>11. 3 <= Rank(S, rows[2], older)
    BY <1>7, <1>9, <1>10, FS_Subset DEF Rank
  <1>12. QED BY <1>4, <1>11

----------------------------------------------------------------------------
\* The walk.  The loop stops at the first row whose hash disagrees: if there is
\* none, it looks at all rows and verifies them.
LEMMA AllVerified ==
  ASSUME NEW rows, NEW seed, Len(rows) \in Nat, DOMAIN rows = 1..Len(rows),
         \A k \in 1..Len(rows) : HashOk(rows, seed, k)
  PROVE  /\ Looked(rows, seed) = 1..Len(rows) /\ Verified(rows, seed) = 1..Len(rows)
         /\ ~Tampered(rows, seed)
  <1>1. \A k \in 1..Len(rows) : \A m \in 1..k : m \in 1..Len(rows)
    OBVIOUS
  <1>2. \A k \in 1..Len(rows) : \A m \in 1..(k - 1) : m \in 1..Len(rows)
    OBVIOUS
  <1>3. Looked(rows, seed) = 1..Len(rows)
    BY <1>2 DEF Looked
  <1>4. Verified(rows, seed) = 1..Len(rows)
    BY <1>1 DEF Verified
  <1>5. QED BY <1>3, <1>4 DEF Tampered

LEMMA NotTampered ==
  ASSUME NEW rows, NEW seed, Len(rows) \in Nat, DOMAIN rows = 1..Len(rows),
         ~Tampered(rows, seed)
  PROVE  \A k \in 1..Len(rows) : HashOk(rows, seed, k)
  <1> DEFINE Bad == {k \in 1..Len(rows) : ~HashOk(rows, seed, k)}
  <1>1. SUFFICES ASSUME Bad # {} PROVE FALSE
    OBVIOUS
  <1>2. Bad \in SUBSET Nat
    OBVIOUS
  <1>3. PICK k \in Bad : \A m \in Bad : k <= m
    <2> HIDE DEF Bad
    <2> QED BY <1>1, <1>2, Least
  <1>4. k \in 1..Len(rows) /\ ~HashOk(rows, seed, k)
    BY <1>3
  <1>5. \A m \in 1..(k - 1) : HashOk(rows, seed, m)
    <2> TAKE m \in 1..(k - 1)
    <2>1. m \in 1..Len(rows) /\ ~(k <= m)
      BY <1>4
    <2>2. QED BY <1>3, <2>1
  <1> HIDE DEF Bad
  <1>6. k \in Looked(rows, seed)
    BY <1>4, <1>5 DEF Looked
  <1>7. k \notin Verified(rows, seed)
    <2>1. k \in 1..k
      BY <1>4
    <2>2. QED BY <1>4, <2>1 DEF Verified
  <1>8. QED BY <1>6, <1>7 DEF Tampered

\* The verdict once the rows agree with their hashes.
LEMMA WalkVerdict ==
  ASSUME NEW rows, NEW q, Len(rows) \in Nat, DOMAIN rows = 1..Len(rows),
         \A k \in 1..Len(rows) : HashOk(rows, q.seed, k),
         NEW covered, covered = IF Len(rows) = 0 THEN q.fromSeq - 1 ELSE rows[Len(rows)].seq,
         NEW last, last = IF Len(rows) = 0 THEN q.seed ELSE rows[Len(rows)].hash,
         NEW incomplete \in BOOLEAN, incomplete <=> (q.fromSeq > q.toSeq \/ covered < q.toSeq),
         NEW mismatch \in BOOLEAN,
         mismatch <=> (q.fromSeq = 1 /\ q.toSeq = q.anchorSeq) /\ ~incomplete /\ last # q.head
  PROVE  Verdict(rows, q) =
           IF mismatch THEN "ANCHOR_HASH_MISMATCH"
           ELSE IF BrokenLink(rows, q.seed) THEN "TAMPER_DETECTED"
           ELSE IF Gap(rows, q.seed) THEN "GAP_DETECTED"
           ELSE IF Older(rows, q.seed) THEN "TIMESTAMP_VIOLATION"
           ELSE IF ~incomplete THEN "OK"
           ELSE IF Len(rows) >= RowCap THEN "TRUNCATED" ELSE "RANGE_INCOMPLETE"
  <1>1. Verified(rows, q.seed) = 1..Len(rows) /\ ~Tampered(rows, q.seed)
    BY AllVerified
  <1>2. Cardinality(1..Len(rows)) = Len(rows)
    BY FS_Interval
  <1>3. Cardinality(Verified(rows, q.seed)) = Len(rows)
    BY <1>1, <1>2
  <1>4. QED BY <1>1, <1>3 DEF Verdict

LEMMA TamperedVerdict ==
  ASSUME NEW rows, NEW q, Tampered(rows, q.seed)
  PROVE  Verdict(rows, q) = "TAMPER_DETECTED"
  BY DEF Verdict

LEMMA VerdictType ==
  ASSUME NEW rows, NEW q, Len(rows) \in Nat, DOMAIN rows = 1..Len(rows)
  PROVE  Verdict(rows, q) \in Reasons
  BY DEF Verdict, Reasons

\* What the verdict OK says of the rows that were read.
LEMMA Passed ==
  ASSUME NEW rows, NEW q, Len(rows) \in Nat, DOMAIN rows = 1..Len(rows),
         q.fromSeq \in Nat, q.toSeq \in Nat, Verdict(rows, q) = "OK"
  PROVE  /\ \A k \in 1..Len(rows) : HashOk(rows, q.seed, k) /\ rows[k].prev = PrevHash(rows, q.seed, k)
         /\ \A k \in 2..Len(rows) : rows[k].seq = rows[k - 1].seq + 1
         /\ q.fromSeq <= q.toSeq
         /\ Len(rows) > 0
         /\ ~(rows[Len(rows)].seq < q.toSeq)
         /\ q.fromSeq = 1 /\ q.toSeq = q.anchorSeq => rows[Len(rows)].hash = q.head
  <1>1. ~Tampered(rows, q.seed)
    BY TamperedVerdict
  <1>2. \A k \in 1..Len(rows) : HashOk(rows, q.seed, k)
    BY <1>1, NotTampered
  <1> DEFINE c == IF Len(rows) = 0 THEN q.fromSeq - 1 ELSE rows[Len(rows)].seq
             l == IF Len(rows) = 0 THEN q.seed ELSE rows[Len(rows)].hash
             i == q.fromSeq > q.toSeq \/ c < q.toSeq
             m == (q.fromSeq = 1 /\ q.toSeq = q.anchorSeq) /\ ~i /\ l # q.head
  <1>3. i \in BOOLEAN /\ m \in BOOLEAN
    OBVIOUS
  <1>4. Verdict(rows, q) =
           IF m THEN "ANCHOR_HASH_MISMATCH"
           ELSE IF BrokenLink(rows, q.seed) THEN "TAMPER_DETECTED"
           ELSE IF Gap(rows, q.seed) THEN "GAP_DETECTED"
           ELSE IF Older(rows, q.seed) THEN "TIMESTAMP_VIOLATION"
           ELSE IF ~i THEN "OK"
           ELSE IF Len(rows) >= RowCap THEN "TRUNCATED" ELSE "RANGE_INCOMPLETE"
    BY <1>2, <1>3, WalkVerdict
  <1>5. ~m /\ ~BrokenLink(rows, q.seed) /\ ~Gap(rows, q.seed) /\ ~i
    <2> HIDE DEF m, i
    <2> QED BY <1>4
  <1>6. Looked(rows, q.seed) = 1..Len(rows)
    BY <1>2, AllVerified
  <1>7. \A k \in 1..Len(rows) : rows[k].prev = PrevHash(rows, q.seed, k)
    BY <1>5, <1>6 DEF BrokenLink
  <1>8. \A k \in 2..Len(rows) : rows[k].seq = rows[k - 1].seq + 1
    <2> TAKE k \in 2..Len(rows)
    <2>1. k \in Looked(rows, q.seed) /\ k > 1
      BY <1>6
    <2>2. QED BY <1>5, <2>1 DEF Gap
  <1>9. Len(rows) > 0
    BY <1>5
  <1>10. QED BY <1>2, <1>5, <1>7, <1>8, <1>9

\* A walk that passes has seen one row of every position of its range, in order:
\* a hash carries its position and its predecessor's.
LEMMA Covered ==
  ASSUME NEW rows, NEW q, Len(rows) \in Nat, DOMAIN rows = 1..Len(rows),
         q.fromSeq \in Nat \ {0}, q.toSeq \in Nat, Verdict(rows, q) = "OK",
         \A k \in 1..Len(rows) : /\ rows[k].seq \in q.fromSeq..q.toSeq
                                 /\ Follows(rows[k].hash, rows[k].seq),
         IF q.fromSeq = 1 THEN q.seed = Genesis ELSE Hashed(q.seed, q.fromSeq - 1)
  PROVE  /\ \A k \in 1..Len(rows) : rows[k].seq = q.fromSeq + k - 1
         /\ Len(rows) = q.toSeq - q.fromSeq + 1
  <1> DEFINE from == q.fromSeq
             to == q.toSeq
  <1>1. /\ \A k \in 1..Len(rows) : HashOk(rows, q.seed, k)
        /\ \A k \in 2..Len(rows) : rows[k].seq = rows[k - 1].seq + 1
        /\ Len(rows) > 0 /\ ~(rows[Len(rows)].seq < to)
    BY Passed
  <1>2. rows[1].seq = from
    <2>1. 1 \in 1..Len(rows)
      BY <1>1
    <2>2. PICK h : h = rows[1].hash
      OBVIOUS
    <2>3. PICK n : n = rows[1].seq
      OBVIOUS
    <2>4. h = <<q.seed, rows[1].id, n, rows[1].created, rows[1].payload>>
      BY <1>1, <2>1, <2>2, <2>3 DEF HashOk, PrevHash, EventHash
    <2>5. h[1] = q.seed
      BY <2>4
    <2>6. Follows(h, n) /\ n \in Nat \ {0}
      BY <2>1, <2>2, <2>3
    <2>7. CASE n = 1
      <3>1. q.seed = Genesis
        BY <2>5, <2>6, <2>7 DEF Follows
      <3>2. Len(q.seed) = 0
        BY <3>1 DEF Genesis
      <3>3. q.fromSeq = 1
        BY <3>2 DEF Hashed
      <3>4. QED BY <2>3, <2>7, <3>3
    <2>8. CASE n > 1
      <3>1. Hashed(q.seed, n - 1)
        BY <2>5, <2>6, <2>8 DEF Follows
      <3>2. Len(q.seed) # 0 /\ q.seed[3] = n - 1
        BY <3>1 DEF Hashed
      <3>3. q.seed # Genesis
        BY <3>2 DEF Genesis
      <3>4. q.seed[3] = q.fromSeq - 1
        BY <3>3 DEF Hashed
      <3>5. QED BY <2>3, <2>6, <3>2, <3>4
    <2>9. QED BY <2>6, <2>7, <2>8
  <1>3. \A k \in 1..Len(rows) : rows[k].seq = from + k - 1
    <2> DEFINE Off == {k \in 1..Len(rows) : rows[k].seq # from + k - 1}
    <2>1. SUFFICES ASSUME Off # {} PROVE FALSE
      OBVIOUS
    <2>2. Off \in SUBSET Nat
      OBVIOUS
    <2>3. PICK k \in Off : \A m \in Off : k <= m
      <3> HIDE DEF Off
      <3> QED BY <2>1, <2>2, Least
    <2>4. k \in 1..Len(rows) /\ rows[k].seq # from + k - 1
      BY <2>3
    <2>5. k # 1
      BY <1>2, <2>4
    <2>6. k \in 2..Len(rows) /\ k - 1 \in 1..Len(rows) /\ ~(k <= k - 1)
      BY <2>4, <2>5
    <2>7. rows[k - 1].seq = from + (k - 1) - 1
      BY <2>3, <2>6
    <2>8. QED BY <1>1, <2>4, <2>6, <2>7
  <1>4. Len(rows) = to - from + 1
    <2>1. PICK n : n = Len(rows)
      OBVIOUS
    <2>2. n \in 1..Len(rows)
      BY <1>1, <2>1
    <2>3. rows[n].seq = from + n - 1 /\ rows[n].seq \in from..to /\ ~(rows[n].seq < to)
      BY <1>1, <1>3, <2>1, <2>2
    <2>4. from + n - 1 = to
      BY <2>2, <2>3
    <2>5. QED BY <2>1, <2>2, <2>4
  <1>5. QED BY <1>3, <1>4

\* The rows a request reads.
InRange(q) == {r \in logs : r.seq >= q.fromSeq /\ r.seq <= q.toSeq}

LEMMA RowNumbers ==
  ASSUME VerifyInv
  PROVE  /\ MaxLen \in Nat /\ anchor.seq \in Nat
         /\ \A r \in logs : /\ r.id \in {0, 1} /\ r.id \in Nat /\ r.seq \in Nat \ {0} /\ r.seq <= MaxLen
                            /\ Follows(r.hash, r.seq)
  BY VerifyAssumption DEF VerifyInv, TablesInv, RowInv, AnchorInv

LEMMA RowsRead ==
  ASSUME VerifyInv, NEW older \in BOOLEAN
  PROVE  IsFiniteSet(InRange(req)) /\ Ordered(SelectRows(req, older), InRange(req), older)
  <1>1. InRange(req) \in SUBSET logs
    BY DEF InRange
  <1>2. IsFiniteSet(InRange(req))
    BY <1>1, FS_Subset DEF VerifyInv, TablesInv
  <1>3. /\ \A x \in InRange(req) : x.seq \in Nat /\ x.id \in Nat
        /\ \A x, y \in InRange(req) : x.seq = y.seq /\ x.id = y.id => x = y
    BY <1>1, RowNumbers DEF VerifyInv, TablesInv, Unique
  <1>4. Ordered(InSeqOrder(InRange(req), older), InRange(req), older)
    BY <1>2, <1>3, SelectIsOrdered
  <1>5. QED BY <1>2, <1>4 DEF SelectRows, InRange

\* What the verdict OK of the rows means.
LEMMA OkMeans ==
  ASSUME VerifyInv, req.phase = "rows", NEW older \in BOOLEAN,
         NEW rows, rows = SelectRows(req, older), Verdict(rows, req) = "OK"
  PROVE  /\ \A n \in req.fromSeq..req.toSeq :
              \E k \in 1..Len(rows) :
                /\ k = n - req.fromSeq + 1 /\ rows[k].seq = n /\ rows[k] \in logs
                /\ HashOk(rows, req.seed, k) /\ rows[k].prev = PrevHash(rows, req.seed, k)
         /\ req.fromSeq <= req.toSeq
         /\ req.fromSeq = 1 /\ req.toSeq = req.anchorSeq =>
              \E r \in logs : r.seq = req.toSeq /\ r.hash = req.head
  <1>1. Ordered(rows, InRange(req), older)
    BY RowsRead
  <1>2. /\ Len(rows) \in Nat /\ DOMAIN rows = 1..Len(rows)
        /\ \A k \in 1..Len(rows) : rows[k] \in InRange(req)
    BY <1>1 DEF Ordered
  <1>3. req.fromSeq \in Nat \ {0} /\ req.toSeq \in Nat
    BY DEF VerifyInv, ReqInv
  <1>4. \A k \in 1..Len(rows) : /\ rows[k] \in logs /\ rows[k].seq \in req.fromSeq..req.toSeq
                                /\ Follows(rows[k].hash, rows[k].seq)
    BY <1>2, <1>3, RowNumbers DEF InRange
  <1>5. IF req.fromSeq = 1 THEN req.seed = Genesis ELSE Hashed(req.seed, req.fromSeq - 1)
    BY DEF VerifyInv, ReqInv
  <1>6. /\ \A k \in 1..Len(rows) : rows[k].seq = req.fromSeq + k - 1
        /\ Len(rows) = req.toSeq - req.fromSeq + 1
    BY <1>2, <1>3, <1>4, <1>5, Covered
  <1>7. /\ \A k \in 1..Len(rows) :
             HashOk(rows, req.seed, k) /\ rows[k].prev = PrevHash(rows, req.seed, k)
        /\ req.fromSeq <= req.toSeq /\ Len(rows) > 0
        /\ req.fromSeq = 1 /\ req.toSeq = req.anchorSeq => rows[Len(rows)].hash = req.head
    BY <1>2, <1>3, Passed
  <1>8. ASSUME NEW n \in req.fromSeq..req.toSeq
        PROVE  \E k \in 1..Len(rows) :
                /\ k = n - req.fromSeq + 1 /\ rows[k].seq = n /\ rows[k] \in logs
                /\ HashOk(rows, req.seed, k) /\ rows[k].prev = PrevHash(rows, req.seed, k)
    <2>1. PICK k : k = n - req.fromSeq + 1
      OBVIOUS
    <2>2. k \in 1..Len(rows)
      BY <1>3, <1>6, <1>8, <2>1
    <2>3. rows[k].seq = n
      BY <1>3, <1>6, <1>8, <2>1, <2>2
    <2>4. QED BY <1>4, <1>7, <2>1, <2>2, <2>3
  <1>9. Len(rows) \in 1..Len(rows) /\ rows[Len(rows)].seq = req.toSeq
    BY <1>2, <1>3, <1>6, <1>7
  <1>10. QED BY <1>4, <1>7, <1>8, <1>9

\* The predecessor hash the walk carries is a hash or Genesis, never a marker.
LEMMA NotMarker ==
  ASSUME NEW h, Len(h) = 0 \/ Len(h) = 5 PROVE h # <<"edited">>
  <1>1. ASSUME h = <<"edited">> PROVE FALSE
    <2>1. Len(h) = 1
      BY <1>1
    <2>2. QED BY <2>1
  <1>2. QED BY <1>1, Zenon

LEMMA PrevHashLen ==
  ASSUME VerifyInv, req.phase = "rows", NEW rows, Len(rows) \in Nat,
         \A k \in 1..Len(rows) : rows[k] \in logs, NEW k \in 1..Len(rows)
  PROVE  PrevHash(rows, req.seed, k) # <<"edited">>
  <1>1. PICK h : h = PrevHash(rows, req.seed, k)
    OBVIOUS
  <1>2. CASE k = 1
    <2>1. Len(req.seed) = 0 \/ Len(req.seed) = 5
      BY DEF VerifyInv, ReqInv, Hashed, Genesis
    <2>2. Len(h) = 0 \/ Len(h) = 5
      BY <1>1, <1>2, <2>1 DEF PrevHash
    <2>3. QED BY <1>1, <2>2, NotMarker
  <1>3. CASE k # 1
    <2>1. k - 1 \in 1..Len(rows)
      BY <1>3
    <2>2. Len(rows[k - 1].hash) = 5
      BY <2>1, RowNumbers DEF Follows, Hashed
    <2>3. Len(h) = 5
      BY <1>1, <1>3, <2>2 DEF PrevHash
    <2>4. QED BY <1>1, <2>3, NotMarker
  <1>4. QED BY <1>2, <1>3

\* Verdict OK of a full or partial walk, change by change.
LEMMA EditSeen ==
  ASSUME VerifyInv, req.phase = "rows", NEW older \in BOOLEAN,
         NEW rows, rows = SelectRows(req, older), Verdict(rows, req) = "OK",
         change.kind \in {"edit", "link", "delete"}
  PROVE  change.seq \notin req.fromSeq..req.toSeq
  <1>1. SUFFICES ASSUME change.seq \in req.fromSeq..req.toSeq PROVE FALSE
    OBVIOUS
  <1>2. PICK k \in 1..Len(rows) :
          /\ rows[k].seq = change.seq /\ rows[k] \in logs
          /\ HashOk(rows, req.seed, k) /\ rows[k].prev = PrevHash(rows, req.seed, k)
    BY <1>1, OkMeans
  <1>3. CASE change.kind = "edit"
    <2>1. rows[k].payload = "edited" /\ rows[k].hash[5] = "event"
      BY <1>2, <1>3 DEF VerifyInv, TablesInv, ChangeInv
    <2>2. PICK h : h = rows[k].hash
      OBVIOUS
    <2>3. h = <<PrevHash(rows, req.seed, k), rows[k].id, rows[k].seq, rows[k].created, rows[k].payload>>
      BY <1>2, <2>2 DEF HashOk, EventHash
    <2>4. h[5] = rows[k].payload
      BY <2>3
    <2>5. QED BY <2>1, <2>2, <2>4
  <1>4. CASE change.kind = "link"
    <2>1. rows[k].prev = <<"edited">>
      BY <1>2, <1>4 DEF VerifyInv, TablesInv, ChangeInv
    <2>2. Len(rows) \in Nat /\ \A m \in 1..Len(rows) : rows[m] \in logs
      BY RowsRead DEF Ordered, InRange
    <2>3. QED BY <1>2, <2>1, <2>2, PrevHashLen
  <1>5. CASE change.kind = "delete"
    BY <1>2, <1>5 DEF VerifyInv, TablesInv, ChangeInv
  <1>6. QED BY <1>3, <1>4, <1>5

LEMMA RewriteSeen ==
  ASSUME VerifyInv, req.phase = "rows", NEW older \in BOOLEAN,
         NEW rows, rows = SelectRows(req, older), Verdict(rows, req) = "OK",
         FullWalk, change.kind = "rewrite"
  PROVE  change.seq > req.anchorSeq
  <1>1. /\ req.fromSeq = 1 /\ req.toSeq = req.anchorSeq /\ req.anchorSeq \in Nat
        /\ Vouches(req.head, req.anchorSeq)
    BY DEF VerifyInv, ReqInv
  <1> DEFINE c == change.seq
             a == req.anchorSeq
  <1>2. c \in Nat \ {0}
    BY DEF VerifyInv, TablesInv, ChangeInv
  <1>3. SUFFICES ASSUME c <= a PROVE FALSE
    BY <1>1, <1>2
  <1>4. Genuine(req.head, a)
    BY <1>1, <1>2, <1>3 DEF Vouches
  <1>5. PICK r \in logs : r.seq = a /\ r.hash = req.head
    BY <1>1, OkMeans
  <1>6. \A x \in logs :
          /\ x.seq = c => x.hash[5] = "edited"
          /\ x.seq = c + 1 => x.hash[1][5] = "edited"
          /\ x.seq = c + 2 => x.hash[1][1][5] = "event"
    BY DEF VerifyInv, TablesInv, ChangeInv
  <1>7. CASE a = c
    BY <1>4, <1>5, <1>6, <1>7 DEF Genuine
  <1>8. CASE a = c + 1
    BY <1>2, <1>4, <1>5, <1>6, <1>8 DEF Genuine
  <1>9. CASE a > c + 1
    <2>1. c + 1 \in 1..a /\ c + 2 \in 1..a
      BY <1>1, <1>2, <1>9
    <2>2. PICK j \in 1..Len(rows) : j = (c + 1) - 1 + 1 /\ rows[j].seq = c + 1 /\ rows[j] \in logs
      BY <1>1, <2>1, OkMeans
    <2> DEFINE n == c + 2
    <2>a. n \in req.fromSeq..req.toSeq
      BY <1>1, <2>1
    <2>3. PICK k \in 1..Len(rows) :
            /\ k = n - req.fromSeq + 1 /\ rows[k].seq = n /\ rows[k] \in logs
            /\ HashOk(rows, req.seed, k)
      <3> HIDE DEF n
      <3> QED BY <2>a, OkMeans
    <2>4. k # 1 /\ k - 1 = j
      BY <1>1, <1>2, <2>2, <2>3
    <2>5. PICK h : h = rows[k].hash
      OBVIOUS
    <2>6. h = <<rows[j].hash, rows[k].id, rows[k].seq, rows[k].created, rows[k].payload>>
      BY <2>3, <2>4, <2>5 DEF HashOk, EventHash, PrevHash
    <2>7. h[1] = rows[j].hash
      BY <2>6
    <2>8. QED BY <1>6, <2>2, <2>3, <2>5, <2>7
  <1>10. QED BY <1>1, <1>2, <1>3, <1>7, <1>8, <1>9

LEMMA NewChainSeen ==
  ASSUME VerifyInv, req.phase = "rows", NEW older \in BOOLEAN,
         NEW rows, rows = SelectRows(req, older), Verdict(rows, req) = "OK",
         FullWalk, req.before = "anchor", ~purged
  PROVE  change.seq = 0
  <1>1. /\ req.fromSeq = 1 /\ req.toSeq = req.anchorSeq /\ req.anchorSeq \in Nat
        /\ change.kind = "anchor" /\ req.anchorSeq <= anchor.seq
    BY DEF VerifyInv, ReqInv
  <1>2. 1 <= req.anchorSeq /\ anchor.seq > 0
    BY <1>1, OkMeans, RowNumbers
  <1>3. change.seq \in Nat
    BY DEF VerifyInv, TablesInv, ChangeInv
  <1>4. SUFFICES ASSUME change.seq > 0 PROVE FALSE
    BY <1>3
  <1>5. PICK x \in logs : x.id = 0 /\ x.seq = 1
    BY <1>1, <1>4 DEF VerifyInv, TablesInv, LostInv
  <1>6. PICK y \in logs : y.id = 1 /\ y.seq = 1
    BY <1>1, <1>2 DEF VerifyInv, TablesInv, LostInv
  <1>7. x \in InRange(req) /\ y \in InRange(req) /\ x # y
    BY <1>1, <1>2, <1>5, <1>6 DEF InRange
  <1>8. IsFiniteSet(InRange(req)) /\ Ordered(rows, InRange(req), older)
    BY RowsRead
  <1>9. \A z \in InRange(req) : z.seq \in Nat \ {0} /\ z.id \in Nat
    BY RowNumbers DEF InRange
  <1>10. 2 <= Len(rows) /\ rows[2].seq # rows[1].seq + 1
    BY <1>5, <1>6, <1>7, <1>8, <1>9, ForkIsGap
  <1>11. Len(rows) \in Nat /\ DOMAIN rows = 1..Len(rows)
    BY <1>8 DEF Ordered
  <1>12. \A k \in 2..Len(rows) : rows[k].seq = rows[k - 1].seq + 1
    BY <1>1, <1>11, Passed
  <1>13. 2 \in 2..Len(rows)
    BY <1>10, <1>11
  <1>14. rows[2].seq = rows[2 - 1].seq + 1
    BY <1>12, <1>13
  <1>15. QED BY <1>10, <1>14

\* The verdict about a chain that only the worker wrote.
LEMMA TrueVerdict ==
  ASSUME VerifyInv, req.phase = "rows", NEW older \in BOOLEAN,
         NEW rows, rows = SelectRows(req, older), change.kind = "none", ~purged
  PROVE  /\ Verdict(rows, req) \notin {"TAMPER_DETECTED", "GAP_DETECTED", "ANCHOR_HASH_MISMATCH"}
         /\ FullWalk /\ req.anchorSeq > 0 =>
              Verdict(rows, req) \in {"OK", "TIMESTAMP_VIOLATION", "TRUNCATED"}
  <1> DEFINE S == InRange(req)
  <1>1. PICK from, to, top : from = req.fromSeq /\ to = req.toSeq /\ top = anchor.seq
    OBVIOUS
  <1>2. from \in Nat \ {0} /\ to \in Nat /\ top \in Nat /\ req.anchorSeq \in Nat
        /\ to <= req.anchorSeq /\ req.anchorSeq <= top /\ req.before # "anchor"
    BY <1>1, RowNumbers DEF VerifyInv, ReqInv
  <1>3. IsFiniteSet(S) /\ Ordered(rows, S, older)
    BY RowsRead
  <1>4. Len(rows) \in Nat /\ DOMAIN rows = 1..Len(rows) /\ \A k \in 1..Len(rows) : rows[k] \in S
    BY <1>3 DEF Ordered
  <1>5. \A x \in logs : x.id = 0
    BY DEF VerifyInv, TablesInv, RowInv
  <1>6. \A x \in S : x \in logs /\ x.seq \in from..to /\ x.id = 0
    BY <1>1, <1>2, <1>5, RowNumbers DEF InRange
  <1>7. \A x, y \in S : x.seq = y.seq => x = y
    BY <1>6 DEF VerifyInv, TablesInv, Unique
  <1>8. \A n \in 1..top : \E x \in logs : x.seq = n
    BY <1>1 DEF VerifyInv, TablesInv, Whole
  <1>9. \A n \in from..to : \E x \in S : x.seq = n
    <2> TAKE n \in from..to
    <2>1. n \in 1..top
      BY <1>2
    <2>2. PICK x \in logs : x.seq = n
      BY <1>8, <2>1
    <2>3. x \in S
      BY <1>1, <1>2, <2>2 DEF InRange
    <2>4. QED BY <2>2, <2>3
  <1>10. /\ Cardinality(S) = IF from > to THEN 0 ELSE to - from + 1
         /\ \A k \in 1..Len(rows) : rows[k].seq = from + k - 1
    <2>1. from \in Nat /\ to \in Nat
      BY <1>2
    <2>2. PICK T : T = S
      OBVIOUS
    <2> HIDE DEF S
    <2>3. IsFiniteSet(T) /\ Ordered(rows, T, older)
      BY <1>3, <2>2
    <2>4. \A x \in T : x.seq \in from..to /\ x.id = 0
      BY <1>6, <2>2
    <2>5. /\ \A x, y \in T : x.seq = y.seq => x = y
          /\ \A n \in from..to : \E x \in T : x.seq = n
      BY <1>7, <1>9, <2>2
    <2>6. /\ Cardinality(T) = IF from > to THEN 0 ELSE to - from + 1
          /\ \A k \in 1..Len(rows) : rows[k].seq = from + k - 1
      BY <2>1, <2>3, <2>4, <2>5, OrderedByPosition
    <2>7. QED BY <2>2, <2>6
  <1>11. /\ \A x \in logs : /\ x.hash = EventHash(x.prev, x.id, x.seq, x.created, x.payload)
                            /\ x.seq = 1 => x.prev = Genesis
         /\ \A x, y \in logs : y.seq = x.seq + 1 => y.prev = x.hash
    BY DEF VerifyInv, TablesInv, Linked
  <1>12. ASSUME NEW k \in 1..Len(rows) PROVE rows[k].prev = PrevHash(rows, req.seed, k)
    <2>1. rows[k] \in logs /\ rows[k].seq = from + k - 1 /\ rows[k].seq \in from..to
      BY <1>4, <1>6, <1>10
    <2>2. CASE k = 1 /\ from = 1
      <3>1. req.seed = Genesis
        BY <1>1, <2>2 DEF VerifyInv, ReqInv
      <3>2. QED BY <1>11, <2>1, <2>2, <3>1 DEF PrevHash
    <2>3. CASE k = 1 /\ from > 1
      <3>1. from - 1 \in 1..top
        BY <1>2, <2>1, <2>3
      <3>2. PICK x \in logs : x.seq = from - 1
        BY <1>8, <3>1
      <3>3. req.seed = x.hash
        BY <1>1, <2>3, <3>2 DEF VerifyInv, ReqReads
      <3>4. rows[k].seq = x.seq + 1
        BY <1>2, <2>1, <2>3, <3>2
      <3>5. QED BY <1>11, <2>1, <2>3, <3>2, <3>3, <3>4 DEF PrevHash
    <2>4. CASE k > 1
      <3>1. k - 1 \in 1..Len(rows)
        BY <1>4, <2>4
      <3>2. rows[k - 1] \in logs /\ rows[k - 1].seq = from + (k - 1) - 1
        BY <1>4, <1>6, <1>10, <3>1
      <3>3. rows[k].seq = rows[k - 1].seq + 1
        BY <1>2, <2>1, <3>2, <2>4
      <3>4. QED BY <1>11, <2>1, <2>4, <3>2, <3>3 DEF PrevHash
    <2>5. QED BY <1>2, <1>12, <2>2, <2>3, <2>4
  <1>13. \A k \in 1..Len(rows) : HashOk(rows, req.seed, k)
    BY <1>4, <1>6, <1>11, <1>12 DEF HashOk
  <1>14. Looked(rows, req.seed) = 1..Len(rows)
    BY <1>4, <1>13, AllVerified
  <1>15. ~BrokenLink(rows, req.seed)
    BY <1>12, <1>14 DEF BrokenLink
  <1>16. ~Gap(rows, req.seed)
    <2>1. \A k \in 1..Len(rows) : k > 1 => rows[k].seq = rows[k - 1].seq + 1
      <3> SUFFICES ASSUME NEW k \in 1..Len(rows), k > 1 PROVE rows[k].seq = rows[k - 1].seq + 1
        OBVIOUS
      <3>1. k - 1 \in 1..Len(rows)
        BY <1>4
      <3>2. rows[k].seq = from + k - 1 /\ rows[k - 1].seq = from + (k - 1) - 1
        BY <1>10, <3>1
      <3>3. QED BY <1>2, <1>4, <3>2
    <2>2. QED BY <1>14, <2>1 DEF Gap
  <1> DEFINE c == IF Len(rows) = 0 THEN req.fromSeq - 1 ELSE rows[Len(rows)].seq
             l == IF Len(rows) = 0 THEN req.seed ELSE rows[Len(rows)].hash
             i == req.fromSeq > req.toSeq \/ c < req.toSeq
             m == (req.fromSeq = 1 /\ req.toSeq = req.anchorSeq) /\ ~i /\ l # req.head
  <1>17. i \in BOOLEAN /\ m \in BOOLEAN
    OBVIOUS
  <1>18. Verdict(rows, req) =
           IF m THEN "ANCHOR_HASH_MISMATCH"
           ELSE IF BrokenLink(rows, req.seed) THEN "TAMPER_DETECTED"
           ELSE IF Gap(rows, req.seed) THEN "GAP_DETECTED"
           ELSE IF Older(rows, req.seed) THEN "TIMESTAMP_VIOLATION"
           ELSE IF ~i THEN "OK"
           ELSE IF Len(rows) >= RowCap THEN "TRUNCATED" ELSE "RANGE_INCOMPLETE"
    BY <1>4, <1>13, <1>17, WalkVerdict
  <1>19. ~m
    <2> SUFFICES ASSUME m PROVE FALSE
      OBVIOUS
    <2>1. PICK n : n = Len(rows)
      OBVIOUS
    <2>2. n # 0
      BY <1>1, <1>2, <2>1
    <2>3. n \in 1..Len(rows)
      BY <1>4, <2>1, <2>2
    <2>4. rows[n] \in logs /\ rows[n].seq \in from..to /\ ~(rows[n].seq < to)
      BY <1>1, <1>4, <1>6, <2>1, <2>2, <2>3
    <2>5. rows[n].seq = req.anchorSeq
      BY <1>1, <1>2, <2>4
    <2>6. req.head = rows[n].hash
      BY <2>4, <2>5 DEF VerifyInv, ReqReads
    <2>7. QED BY <2>1, <2>2, <2>6
  <1>20. ASSUME FullWalk, req.anchorSeq > 0, i PROVE Len(rows) >= RowCap
    <2>1. from = 1 /\ to = req.anchorSeq
      BY <1>1, <1>20 DEF VerifyInv, ReqInv
    <2>2. Cardinality(S) = to
      BY <1>2, <1>10, <1>20, <2>1
    <2>3. PICK n : n = Len(rows)
      OBVIOUS
    <2>4. n # to
      <3> SUFFICES ASSUME n = to PROVE FALSE
        OBVIOUS
      <3>1. n \in 1..Len(rows)
        BY <1>2, <1>4, <1>20, <2>1, <2>3
      <3>2. rows[n].seq = to
        BY <1>2, <1>10, <2>1, <3>1
      <3>3. QED BY <1>1, <1>2, <1>20, <2>1, <2>3, <3>2
    <2>5. QED BY <1>3, <2>2, <2>3, <2>4, VerifyAssumption DEF Ordered
  <1> HIDE DEF m, i
  <1>21. QED BY <1>15, <1>16, <1>18, <1>19, <1>20

----------------------------------------------------------------------------
LEMMA StartInv == VerifyInit => VerifyInv
  <1> SUFFICES ASSUME VerifyInit PROVE VerifyInv
    OBVIOUS
  <1> USE DEF VerifyInit
  <1>1. IsFiniteSet(logs) /\ logs = {}
    BY FS_EmptySet
  <1>2. AnchorInv
    BY VerifyAssumption DEF AnchorInv, Vouches
  <1>3. Unique /\ Linked /\ Whole /\ ChangeInv /\ LostInv
    BY DEF Unique, Linked, Whole, ChangeInv, LostInv
  <1>4. ReqInv
    <2>1. IsRequest(req)
      BY DEF Start, IsRequest
    <2>2. QED BY <2>1, VerifyAssumption DEF ReqInv, Start, Vouches, FullWalk, NoTime, Reasons
  <1>5. ReqReads /\ NoFalseAlarm /\ ChangeDetected
    BY DEF ReqReads, NoFalseAlarm, ChangeDetected, Finished, Start
  <1>6. QED BY <1>1, <1>2, <1>3, <1>4, <1>5 DEF VerifyInv, TablesInv

\* A step of the tables leaves the request with what it may rely on: the chain of
\* the anchor it read only grows, unless the anchor is deleted, and a change that
\* was made stays the only one.
LEMMA RequestFrame ==
  ASSUME VerifyInv, anchor'.seq \in Nat, req' = req,
         change' = change \/ change.kind = "none",
         anchor.seq <= anchor'.seq \/ (change.kind = "none" /\ change'.kind = "anchor"),
         change'.kind = "none" => \A r \in logs' : r \in logs \/ r.seq = anchor.seq + 1
  PROVE  (ReqInv /\ ReqReads /\ NoFalseAlarm /\ ChangeDetected)'
  <1>1. ReqInv /\ ReqReads /\ NoFalseAlarm /\ ChangeDetected /\ anchor.seq \in Nat
    BY RowNumbers DEF VerifyInv
  <1>2. ReqInv'
    <2>1. IsRequest(req)'
      BY <1>1 DEF ReqInv, IsRequest
    <2>2. (req.before = "anchor" \/ change.kind # "anchor" => req.anchorSeq <= anchor.seq)'
      BY <1>1 DEF ReqInv
    <2>3. /\ (req.before = "anchor" => change.kind = "anchor")'
          /\ (req.phase = "done" /\ req.changed # "none" => change.kind = req.changed)'
      BY <1>1 DEF ReqInv
    <2>4. QED BY <1>1, <2>1, <2>2, <2>3 DEF ReqInv, FullWalk
  <1>3. ReqReads'
    <2> SUFFICES ASSUME change'.kind = "none" PROVE ReqReads'
      BY DEF ReqReads
    <2>1. change.kind = "none" /\ anchor.seq <= anchor'.seq /\ req.anchorSeq \in Nat
          /\ req.anchorSeq <= anchor.seq /\ req.fromSeq \in Nat
      BY <1>1 DEF ReqInv
    <2>2. \A r \in logs' : r.seq = req.anchorSeq => req.head = r.hash
      BY <1>1, <2>1 DEF ReqReads
    <2>3. req.phase = "rows" /\ req.fromSeq > 1 =>
            /\ req.fromSeq <= anchor'.seq + 1
            /\ \A r \in logs' : r.seq = req.fromSeq - 1 => req.seed = r.hash
      BY <1>1, <2>1 DEF ReqReads
    <2>4. QED BY <2>1, <2>2, <2>3 DEF ReqReads
  <1>4. NoFalseAlarm'
    BY <1>1 DEF NoFalseAlarm, Finished, Untouched, FullWalk
  <1>5. ChangeDetected'
    <2>1. req.phase = "done" =>
            /\ req.changed \in {"edit", "link", "delete", "rewrite"} => change' = change
            /\ req.before = "anchor" => change' = change
      BY <1>1 DEF ReqInv
    <2>2. QED BY <1>1, <2>1 DEF ChangeDetected, Finished, FullWalk
  <1>6. QED BY <1>2, <1>3, <1>4, <1>5

\* The hash of a row that takes the next position of the chain.
LEMMA NextHash ==
  ASSUME VerifyInv, NEW id, NEW created, NEW n, n = anchor.seq + 1,
         NEW h, h = EventHash(anchor.head, id, n, created, "event")
  PROVE  Genuine(h, n) /\ h[1] = anchor.head /\ (n > 1 => h[1][5] = "event")
  <1>1. anchor.seq \in Nat /\ Vouches(anchor.head, anchor.seq)
    BY RowNumbers DEF VerifyInv, TablesInv, AnchorInv
  <1>2. h = <<anchor.head, id, n, created, "event">>
    BY DEF EventHash
  <1>3. Len(h) = 5 /\ h[1] = anchor.head /\ h[3] = n /\ h[5] = "event"
    BY <1>2
  <1>4. n = 1 => anchor.head = Genesis
    BY <1>1 DEF Vouches
  <1>5. n > 1 => Hashed(anchor.head, n - 1) /\ anchor.head[5] = "event"
    <2> SUFFICES ASSUME n > 1 PROVE Hashed(anchor.head, n - 1) /\ anchor.head[5] = "event"
      OBVIOUS
    <2>1. anchor.seq # 0 /\ n - 1 = anchor.seq
      BY <1>1
    <2>2. Genuine(anchor.head, anchor.seq)
      BY <1>1, <2>1 DEF Vouches
    <2>3. QED BY <2>1, <2>2 DEF Genuine, Follows
  <1>6. QED BY <1>3, <1>4, <1>5 DEF Genuine, Follows, Hashed

LEMMA AppendRowInv ==
  ASSUME VerifyInv, NEW created \in Times, AppendRow(created)
  PROVE  VerifyInv'
  <1>1. PICK n, id : n = anchor.seq + 1 /\ id = IF change.kind = "anchor" THEN 1 ELSE 0
    OBVIOUS
  <1>2. PICK h : h = EventHash(anchor.head, id, n, created, "event")
    OBVIOUS
  <1>3. PICK new : new = [id |-> id, seq |-> n, created |-> created, payload |-> "event",
                          columns |-> "event", prev |-> anchor.head, hash |-> h]
    OBVIOUS
  <1>4. /\ n <= MaxLen /\ logs' = logs \cup {new}
        /\ anchor' = [exists |-> TRUE, seq |-> n, head |-> h]
        /\ change' = change /\ purged' = purged /\ req' = req
    BY <1>1, <1>2, <1>3 DEF AppendRow
  <1>5. /\ new.id = id /\ new.seq = n /\ new.created = created /\ new.payload = "event"
        /\ new.columns = "event"
        /\ new.prev = anchor.head /\ new.hash = h /\ IsRow(new)
    BY <1>3 DEF IsRow
  <1>6. anchor.seq \in Nat /\ MaxLen \in Nat /\ n \in 1..MaxLen /\ id \in {0, 1}
        /\ id = (IF change.kind = "anchor" THEN 1 ELSE 0)
    BY <1>1, <1>4, RowNumbers
  <1>7. anchor'.exists = TRUE /\ anchor'.seq = n /\ anchor'.head = h
    BY <1>4
  <1>8. Genuine(h, n) /\ h[1] = anchor.head /\ (n > 1 => h[1][5] = "event")
    BY <1>1, <1>2, NextHash
  <1>9. \A r \in logs : /\ RowInv(r) /\ r.seq \in Nat \ {0}
                        /\ r.id = id => r.seq < n
                        /\ r.id # id => r.id = 0 /\ change.kind = "anchor"
    BY <1>1, <1>6, RowNumbers DEF VerifyInv, TablesInv, RowInv
  <1> HIDE DEF VerifyInv
  <1>10. IsFiniteSet(logs)'
    BY <1>4, FS_AddElement DEF VerifyInv, TablesInv
  <1>11. ASSUME NEW r \in logs' PROVE RowInv(r)'
    <2>1. CASE r \in logs
      <3>1. RowInv(r) /\ (r.id = id => r.seq <= n)
        BY <1>6, <1>9, <2>1
      <3>2. QED BY <1>4, <1>6, <1>7, <3>1 DEF RowInv
    <2>2. CASE r = new
      BY <1>4, <1>5, <1>6, <1>7, <1>8, <2>2 DEF RowInv, Genuine
    <2>3. QED BY <1>4, <1>11, <2>1, <2>2
  <1>12. AnchorInv'
    BY <1>4, <1>6, <1>7, <1>8 DEF AnchorInv, Vouches
  <1>13. Unique'
    BY <1>4, <1>5, <1>6, <1>9 DEF VerifyInv, TablesInv, Unique
  <1>14. Linked'
    <2> SUFFICES ASSUME change.kind = "none" PROVE Linked'
      BY <1>4 DEF Linked
    <2>1. \A r \in logs : r.seq < n
      BY <1>6, <1>9
    <2>2. Linked
      BY DEF VerifyInv, TablesInv
    <2>3. \A r \in logs : r.seq + 1 = n => anchor.head = r.hash
      BY <1>1, <1>6, <1>9, <2>2 DEF Linked
    <2>4. n = 1 => anchor.head = Genesis
      BY <1>8 DEF Genuine, Follows
    <2>5. ASSUME NEW r \in logs'
          PROVE  /\ r.hash = EventHash(r.prev, r.id, r.seq, r.created, r.payload)
                 /\ r.payload = "event" /\ r.columns = "event"
                 /\ r.seq = 1 => r.prev = Genesis
                 /\ r.seq = anchor'.seq => anchor'.head = r.hash
      <3>1. CASE r \in logs
        BY <1>6, <1>7, <2>1, <2>2, <3>1 DEF Linked
      <3>2. CASE r = new
        BY <1>2, <1>5, <1>7, <2>4, <3>2
      <3>3. QED BY <1>4, <2>5, <3>1, <3>2
    <2>6. ASSUME NEW r \in logs', NEW s \in logs', s.seq = r.seq + 1
          PROVE  s.prev = r.hash
      <3>1. CASE s \in logs
        <4>1. r # new
          BY <1>5, <1>6, <1>9, <2>1, <2>6, <3>1
        <4>2. QED BY <1>4, <2>2, <2>6, <3>1, <4>1 DEF Linked
      <3>2. CASE s = new
        <4>1. r # new
          BY <1>5, <1>6, <2>6, <3>2
        <4>2. r \in logs /\ r.seq + 1 = n
          BY <1>4, <1>5, <2>6, <3>2, <4>1
        <4>3. QED BY <1>5, <2>3, <3>2, <4>2
      <3>3. QED BY <1>4, <2>6, <3>1, <3>2
    <2>7. QED BY <2>5, <2>6 DEF Linked
  <1>15. Whole'
    <2> SUFFICES ASSUME change.kind = "none", ~purged, NEW k \in 1..n
                 PROVE  \E r \in logs' : r.seq = k
      BY <1>4, <1>7 DEF Whole
    <2>1. CASE k = n
      BY <1>4, <1>5, <2>1
    <2>2. CASE k # n
      <3>1. k \in 1..anchor.seq
        BY <1>1, <1>6, <2>2
      <3>2. QED BY <1>4, <3>1 DEF VerifyInv, TablesInv, Whole
    <2>3. QED BY <2>1, <2>2
  <1>16. ChangeInv'
    <2>1. ChangeInv
      BY DEF VerifyInv, TablesInv
    <2>2. /\ change.kind \notin {"none", "anchor"} => change.seq \in 1..n /\ new.seq # change.seq
          /\ change.kind = "rewrite" => change.seq < n /\ change.seq + 1 # new.seq
      BY <1>1, <1>5, <1>6, <2>1 DEF ChangeInv
    <2>3. change.kind = "rewrite" /\ new.seq = change.seq + 2 => new.hash[1][1][5] = "event"
      <3> SUFFICES ASSUME change.kind = "rewrite", n = change.seq + 2 PROVE h[1][1][5] = "event"
        BY <1>5
      <3>1. change.seq \in Nat \ {0} /\ anchor.seq = change.seq + 1
        BY <1>1, <1>6, <2>1 DEF ChangeInv
      <3>2. Genuine(anchor.head, anchor.seq) /\ anchor.seq > 1
        BY <3>1 DEF VerifyInv, TablesInv, AnchorInv, Vouches
      <3>3. QED BY <1>8, <3>2 DEF Genuine
    <2>4. QED BY <1>4, <1>7, <2>1, <2>2, <2>3 DEF ChangeInv
  <1>17. LostInv'
    <2> SUFFICES ASSUME change.kind = "anchor", ~purged PROVE LostInv'
      BY <1>4 DEF LostInv
    <2>1. LostInv
      BY DEF VerifyInv, TablesInv
    <2>2. anchor.seq = 0 => new.id = 1 /\ new.seq = 1
      BY <1>1, <1>5
    <2>3. QED BY <1>4, <1>6, <2>1, <2>2 DEF LostInv
  <1>18. TablesInv'
    BY <1>10, <1>11, <1>12, <1>13, <1>14, <1>15, <1>16, <1>17 DEF TablesInv
  <1>19. (ReqInv /\ ReqReads /\ NoFalseAlarm /\ ChangeDetected)'
    <2>1. /\ anchor'.seq \in Nat /\ anchor.seq <= anchor'.seq
          /\ \A r \in logs' : r \in logs \/ r.seq = anchor.seq + 1
      BY <1>1, <1>4, <1>5, <1>6, <1>7
    <2>2. QED BY <1>4, <2>1, RequestFrame
  <1>20. QED BY <1>18, <1>19 DEF VerifyInv

LEMMA UpsertAnchorOnlyInv ==
  ASSUME VerifyInv, UpsertAnchorOnly
  PROVE  VerifyInv'
  <1>1. AnchorInv /\ TablesInv /\ anchor.seq \in Nat
    BY RowNumbers DEF VerifyInv, TablesInv
  <1>2. /\ anchor' = [exists |-> TRUE, seq |-> anchor.seq, head |-> anchor.head]
        /\ logs' = logs /\ change' = change /\ purged' = purged /\ req' = req
    BY <1>1 DEF UpsertAnchorOnly, AnchorInv
  <1>3. anchor'.exists = TRUE /\ anchor'.seq = anchor.seq /\ anchor'.head = anchor.head
    BY <1>2
  <1>4. AnchorInv'
    BY <1>1, <1>2, <1>3 DEF AnchorInv, Vouches, Genuine, Follows, Hashed
  <1>5. \A r \in logs' : RowInv(r)'
    BY <1>1, <1>2, <1>3 DEF TablesInv, RowInv
  <1>6. (IsFiniteSet(logs) /\ Unique /\ Linked /\ Whole /\ ChangeInv /\ LostInv)'
    BY <1>1, <1>2, <1>3 DEF TablesInv, Unique, Linked, Whole, ChangeInv, LostInv
  <1>7. (ReqInv /\ ReqReads /\ NoFalseAlarm /\ ChangeDetected)'
    BY <1>1, <1>2, <1>3, RequestFrame
  <1>8. QED BY <1>4, <1>5, <1>6, <1>7 DEF VerifyInv, TablesInv

LEMMA RetentionPurgeInv ==
  ASSUME VerifyInv, NEW before \in Times, RetentionPurge(before)
  PROVE  VerifyInv'
  <1>1. TablesInv /\ anchor.seq \in Nat
    BY RowNumbers DEF VerifyInv
  <1>2. /\ logs' \in SUBSET logs /\ purged' = TRUE
        /\ anchor' = anchor /\ change' = change /\ req' = req
    BY DEF RetentionPurge
  <1>3. IsFiniteSet(logs)'
    BY <1>1, <1>2, FS_Subset DEF TablesInv
  <1>4. AnchorInv'
    BY <1>1, <1>2 DEF TablesInv, AnchorInv
  <1>5. \A r \in logs' : RowInv(r)'
    BY <1>1, <1>2 DEF TablesInv, RowInv
  <1>6. (Unique /\ Linked)'
    BY <1>1, <1>2 DEF TablesInv, Unique, Linked
  <1>7. (Whole /\ LostInv)'
    BY <1>2 DEF Whole, LostInv
  <1>8. ChangeInv'
    BY <1>1, <1>2 DEF TablesInv, ChangeInv
  <1>9. (ReqInv /\ ReqReads /\ NoFalseAlarm /\ ChangeDetected)'
    <2>1. anchor.seq <= anchor'.seq /\ anchor'.seq \in Nat
      BY <1>1, <1>2
    <2>2. QED BY <1>2, <2>1, RequestFrame
  <1>10. QED BY <1>3, <1>4, <1>5, <1>6, <1>7, <1>8, <1>9 DEF VerifyInv, TablesInv

\* What a chain that nobody changed looks like.
LEMMA Unchanged ==
  ASSUME VerifyInv, change.kind = "none", NEW r \in logs
  PROVE  /\ IsRow(r) /\ r.id = 0 /\ r.seq \in Nat \ {0} /\ r.seq <= anchor.seq
         /\ r.hash = EventHash(r.prev, r.id, r.seq, r.created, r.payload)
         /\ r.payload = "event" /\ r.columns = "event"
         /\ r.hash[1] = r.prev /\ r.hash[5] = "event"
         /\ \A s \in logs : s.seq = r.seq => s = r
  <1>1. /\ IsRow(r) /\ r.id = 0 /\ r.seq \in Nat \ {0} /\ r.seq <= anchor.seq
        /\ \A s \in logs : s.id = 0
    BY RowNumbers DEF VerifyInv, TablesInv, RowInv
  <1>2. /\ r.hash = EventHash(r.prev, r.id, r.seq, r.created, r.payload)
        /\ r.payload = "event" /\ r.columns = "event"
    BY DEF VerifyInv, TablesInv, Linked
  <1>3. PICK h : h = r.hash
    OBVIOUS
  <1>4. h = <<r.prev, r.id, r.seq, r.created, r.payload>>
    BY <1>2, <1>3 DEF EventHash
  <1>5. h[1] = r.prev /\ h[5] = r.payload
    BY <1>4
  <1>6. \A s \in logs : s.seq = r.seq => s = r
    BY <1>1 DEF VerifyInv, TablesInv, Unique
  <1>7. QED BY <1>1, <1>2, <1>3, <1>5, <1>6

\* Everything but ChangeInv after a change of rows that keeps anchor, positions
\* and ids.
LEMMA TamperFrame ==
  ASSUME VerifyInv, change.kind = "none", change'.kind \notin {"none", "anchor"},
         anchor' = anchor, purged' = purged, req' = req, IsFiniteSet(logs'),
         \A x \in logs' : x \in logs \/ (/\ IsRow(x) /\ Follows(x.hash, x.seq)
                                         /\ \E y \in logs \ logs' : /\ x.seq = y.seq /\ x.id = y.id
                                                                    /\ x.created = y.created),
         \A x, y \in logs' : x \notin logs /\ y \notin logs /\ x.seq = y.seq => x = y,
         ChangeInv'
  PROVE  VerifyInv'
  <1>1. TablesInv /\ anchor.seq \in Nat
    BY RowNumbers DEF VerifyInv
  <1>2. \A x \in logs : RowInv(x) /\ x.id = 0
    BY Unchanged DEF VerifyInv, TablesInv
  <1>3. ASSUME NEW x \in logs' PROVE RowInv(x)'
    <2>1. CASE x \in logs
      BY <1>2, <2>1 DEF RowInv
    <2>2. CASE x \notin logs
      <3>1. IsRow(x) /\ Follows(x.hash, x.seq)
        BY <1>3, <2>2
      <3>2. PICK y \in logs : x.seq = y.seq /\ x.id = y.id /\ x.created = y.created
        BY <1>3, <2>2
      <3>3. RowInv(y)
        BY <1>2
      <3>4. QED BY <3>1, <3>2, <3>3 DEF RowInv
    <2>3. QED BY <2>1, <2>2
  <1>4. AnchorInv'
    BY <1>1 DEF TablesInv, AnchorInv
  <1>5. Unique'
    <2> SUFFICES ASSUME NEW x \in logs', NEW y \in logs', x.seq = y.seq, x.id = y.id PROVE x = y
      BY DEF Unique
    <2>1. CASE x \in logs /\ y \in logs
      BY <1>1, <2>1 DEF TablesInv, Unique
    <2>2. ASSUME NEW u \in logs', NEW v \in logs', u \in logs, v \notin logs, u.seq = v.seq PROVE FALSE
      <3>1. PICK w \in logs \ logs' : v.seq = w.seq
        BY <2>2
      <3>2. u = w
        BY <2>2, <3>1, Unchanged
      <3>3. QED BY <2>2, <3>1, <3>2
    <2>3. QED BY <2>1, <2>2
  <1>6. (Linked /\ Whole /\ LostInv)'
    BY DEF Linked, Whole, LostInv
  <1>7. (ReqInv /\ ReqReads /\ NoFalseAlarm /\ ChangeDetected)'
    <2>1. anchor.seq <= anchor'.seq /\ anchor'.seq \in Nat
      BY <1>1
    <2>2. QED BY <2>1, RequestFrame
  <1>8. QED BY <1>3, <1>4, <1>5, <1>6, <1>7 DEF VerifyInv, TablesInv

LEMMA ReplaceFinite ==
  ASSUME VerifyInv, NEW r, NEW s
  PROVE  IsFiniteSet(logs \ {r}) /\ IsFiniteSet((logs \ {r}) \cup {s})
  <1>1. IsFiniteSet(logs \ {r})
    BY FS_RemoveElement DEF VerifyInv, TablesInv
  <1>2. QED BY <1>1, FS_AddElement

LEMMA TamperRowInv ==
  ASSUME VerifyInv, NEW r \in logs, TamperRow(r)
  PROVE  VerifyInv'
  <1>1. change.kind = "none" /\ anchor' = anchor /\ purged' = purged /\ req' = req
    BY DEF TamperRow
  <1>2. /\ IsRow(r) /\ r.id = 0 /\ r.seq \in Nat \ {0} /\ r.seq <= anchor.seq
        /\ r.payload = "event" /\ r.columns = "event" /\ r.hash[5] = "event"
        /\ Follows(r.hash, r.seq)
        /\ \A s \in logs : s.seq = r.seq => s = r
    BY <1>1, Unchanged, RowNumbers
  <1>3. anchor.seq \in Nat /\ r.seq \in 1..anchor.seq
    BY <1>2, RowNumbers
  <1>4. ASSUME NEW new, IsRow(new), new.id = r.id, new.seq = r.seq, new.created = r.created,
               new.hash = r.hash, new # r, logs' = (logs \ {r}) \cup {new},
               \/ change'.kind = "edit" /\ new.payload = "edited"
               \/ change'.kind = "link" /\ new.prev = <<"edited">>
               \/ change'.kind = "column",
               change'.seq = r.seq
        PROVE  VerifyInv'
    <2>1. IsFiniteSet(logs')
      BY <1>4, ReplaceFinite
    <2>2. new \notin logs
      BY <1>2, <1>4
    <2>3. r \notin logs'
      BY <1>4
    <2>4. ChangeInv'
      <3>1. \A x \in logs' : x.seq = change'.seq => x = new
        BY <1>2, <1>4
      <3>2. change'.seq \in Nat /\ change'.seq \in 1..anchor'.seq
        BY <1>1, <1>3, <1>4
      <3>3. QED BY <1>2, <1>4, <3>1, <3>2 DEF ChangeInv
    <2>5. \A x \in logs' : x \in logs \/ (/\ IsRow(x) /\ Follows(x.hash, x.seq)
                                         /\ \E y \in logs \ logs' : /\ x.seq = y.seq /\ x.id = y.id
                                                                    /\ x.created = y.created)
      BY <1>2, <1>4, <2>3
    <2>6. \A x, y \in logs' : x \notin logs /\ y \notin logs /\ x.seq = y.seq => x = y
      BY <1>4
    <2>7. change'.kind \notin {"none", "anchor"}
      BY <1>4
    <2>8. QED BY <1>1, <2>1, <2>4, <2>5, <2>6, <2>7, TamperFrame
  <1>5. CASE /\ logs' = (logs \ {r}) \cup {[r EXCEPT !.payload = "edited"]}
             /\ Changed("edit", r.seq)
    <2>1. PICK new : new = [r EXCEPT !.payload = "edited"]
      OBVIOUS
    <2>2. new = [id |-> r.id, seq |-> r.seq, created |-> r.created, payload |-> "edited",
                 columns |-> r.columns, prev |-> r.prev, hash |-> r.hash]
      BY <1>2, <2>1 DEF IsRow
    <2>3. /\ IsRow(new) /\ new.id = r.id /\ new.seq = r.seq /\ new.created = r.created
          /\ new.hash = r.hash /\ new.payload = "edited"
      BY <2>2 DEF IsRow
    <2>4. new # r
      BY <1>2, <2>3
    <2>5. change'.kind = "edit" /\ change'.seq = r.seq
      BY <1>5 DEF Changed
    <2>6. QED BY <1>4, <1>5, <2>1, <2>3, <2>4, <2>5
  <1>6. CASE /\ logs' = (logs \ {r}) \cup {[r EXCEPT !.prev = <<"edited">>]}
             /\ Changed("link", r.seq)
    <2>1. PICK mark : mark = <<"edited">>
      OBVIOUS
    <2>2. PICK new : new = [r EXCEPT !.prev = mark]
      OBVIOUS
    <2>3. new = [id |-> r.id, seq |-> r.seq, created |-> r.created, payload |-> r.payload,
                 columns |-> r.columns, prev |-> mark, hash |-> r.hash]
      BY <1>2, <2>2 DEF IsRow
    <2>4. /\ IsRow(new) /\ new.id = r.id /\ new.seq = r.seq /\ new.created = r.created
          /\ new.hash = r.hash /\ new.prev = mark
      BY <2>3 DEF IsRow
    <2>5. r.prev # mark
      <3>1. r.hash[1] = r.prev
        BY <1>1, Unchanged
      <3>2. Len(r.prev) = 0 \/ Len(r.prev) = 5
        BY <1>2, <3>1 DEF Follows, Hashed, Genesis
      <3>3. PICK h : h = r.prev
        OBVIOUS
      <3>4. Len(h) = 0 \/ Len(h) = 5
        BY <3>2, <3>3
      <3>5. h # <<"edited">>
        BY <3>4, NotMarker
      <3>6. QED BY <2>1, <3>3, <3>5
    <2>6. new # r
      BY <2>4, <2>5
    <2>7. change'.kind = "link" /\ change'.seq = r.seq
      BY <1>6 DEF Changed
    <2>8. logs' = (logs \ {r}) \cup {new}
      BY <1>6, <2>1, <2>2
    <2>9. new.prev = <<"edited">>
      BY <2>1, <2>4
    <2>10. QED BY <1>4, <2>4, <2>6, <2>7, <2>8, <2>9
  <1>7. CASE logs' = logs \ {r} /\ Changed("delete", r.seq)
    <2>1. IsFiniteSet(logs')
      BY <1>7, ReplaceFinite
    <2>2. change'.kind = "delete" /\ change'.seq = r.seq
      BY <1>7 DEF Changed
    <2>3. ChangeInv'
      <3>1. \A x \in logs' : x.seq # r.seq
        BY <1>2, <1>7
      <3>2. QED BY <1>1, <1>2, <1>3, <2>2, <3>1 DEF ChangeInv
    <2>4. \A x \in logs' : x \in logs
      BY <1>7
    <2>5. QED BY <1>1, <2>1, <2>2, <2>3, <2>4, TamperFrame
  <1>8. CASE /\ logs' = (logs \ {r}) \cup {[r EXCEPT !.columns = "edited"]}
             /\ Changed("column", r.seq)
    <2>1. PICK new : new = [r EXCEPT !.columns = "edited"]
      OBVIOUS
    <2>2. new = [id |-> r.id, seq |-> r.seq, created |-> r.created, payload |-> r.payload,
                 columns |-> "edited", prev |-> r.prev, hash |-> r.hash]
      BY <1>2, <2>1 DEF IsRow
    <2>3. /\ IsRow(new) /\ new.id = r.id /\ new.seq = r.seq /\ new.created = r.created
          /\ new.hash = r.hash /\ new.columns = "edited"
      BY <2>2 DEF IsRow
    <2>4. new # r
      BY <1>2, <2>3
    <2>5. change'.kind = "column" /\ change'.seq = r.seq
      BY <1>8 DEF Changed
    <2>6. QED BY <1>4, <1>8, <2>1, <2>3, <2>4, <2>5
  <1>9. QED BY <1>5, <1>6, <1>7, <1>8 DEF TamperRow

\* A row made anew: its hash fits the predecessor it is given.
LEMMA RehashIs ==
  ASSUME NEW r, IsRow(r), NEW prev, NEW x, x = Rehash(r, prev)
  PROVE  /\ IsRow(x) /\ x.id = r.id /\ x.seq = r.seq /\ x.created = r.created
         /\ x.payload = r.payload /\ x.prev = prev
         /\ Len(x.hash) = 5 /\ x.hash[1] = prev /\ x.hash[3] = r.seq /\ x.hash[5] = r.payload
  <1>1. PICK h : h = EventHash(prev, r.id, r.seq, r.created, r.payload)
    OBVIOUS
  <1>2. x = [r EXCEPT !.prev = prev, !.hash = h]
    BY <1>1 DEF Rehash
  <1>3. x = [id |-> r.id, seq |-> r.seq, created |-> r.created, payload |-> r.payload,
             columns |-> r.columns, prev |-> prev, hash |-> h]
    BY <1>2 DEF IsRow
  <1>4. /\ IsRow(x) /\ x.id = r.id /\ x.seq = r.seq /\ x.created = r.created
        /\ x.payload = r.payload /\ x.prev = prev /\ x.hash = h
    BY <1>3 DEF IsRow
  <1>5. Len(h) = 5 /\ h[1] = prev /\ h[3] = r.seq /\ h[5] = r.payload
    BY <1>1 DEF EventHash
  <1>6. QED BY <1>4, <1>5

LEMMA RewriteTailInv ==
  ASSUME VerifyInv, NEW r \in logs, NEW s \in logs, RewriteTail(r, s)
  PROVE  VerifyInv'
  <1>1. PICK e : e = [r EXCEPT !.payload = "edited"]
    OBVIOUS
  <1>2. PICK r2 : r2 = Rehash(e, r.prev)
    OBVIOUS
  <1>3. PICK s2 : s2 = Rehash(s, r2.hash)
    OBVIOUS
  <1>4. /\ change.kind = "none" /\ s.seq = r.seq + 1 /\ s.seq = anchor.seq
        /\ logs' = (logs \ {r, s}) \cup {r2, s2}
        /\ change'.kind = "rewrite" /\ change'.seq = r.seq
        /\ anchor' = anchor /\ purged' = purged /\ req' = req
    BY <1>1, <1>2, <1>3 DEF RewriteTail, Changed
  <1>5. /\ IsRow(r) /\ r.id = 0 /\ r.seq \in Nat \ {0} /\ Follows(r.hash, r.seq)
        /\ r.hash[1] = r.prev /\ r.hash[5] = "event"
        /\ \A x \in logs : x.seq = r.seq => x = r
    BY <1>4, Unchanged, RowNumbers
  <1>6. /\ IsRow(s) /\ s.id = 0 /\ s.seq \in Nat \ {0} /\ s.payload = "event"
        /\ s.hash[1] = s.prev /\ s.prev = r.hash
        /\ \A x \in logs : x.seq = s.seq => x = s
    <2>1. s.prev = r.hash
      BY <1>4 DEF VerifyInv, TablesInv, Linked
    <2>2. QED BY <1>4, <2>1, Unchanged, RowNumbers
  <1>7. /\ IsRow(e) /\ e.id = 0 /\ e.seq = r.seq /\ e.created = r.created /\ e.payload = "edited"
    <2>1. e = [id |-> r.id, seq |-> r.seq, created |-> r.created, payload |-> "edited",
               columns |-> r.columns, prev |-> r.prev, hash |-> r.hash]
      BY <1>1, <1>5 DEF IsRow
    <2>2. QED BY <1>5, <2>1 DEF IsRow
  <1>8. /\ IsRow(r2) /\ r2.id = 0 /\ r2.seq = r.seq /\ r2.created = r.created
        /\ Len(r2.hash) = 5 /\ r2.hash[1] = r.prev /\ r2.hash[3] = r.seq /\ r2.hash[5] = "edited"
    BY <1>2, <1>7, RehashIs
  <1>9. /\ IsRow(s2) /\ s2.id = 0 /\ s2.seq = s.seq /\ s2.created = s.created
        /\ Len(s2.hash) = 5 /\ s2.hash[1] = r2.hash /\ s2.hash[3] = s.seq
    BY <1>3, <1>6, RehashIs
  <1>10. Follows(r2.hash, r.seq)
    BY <1>5, <1>8 DEF Follows, Hashed
  <1>11. Follows(s2.hash, s.seq)
    <2>1. Hashed(s2.hash[1], s.seq - 1) /\ s.seq # 1
      BY <1>4, <1>5, <1>8, <1>9 DEF Hashed
    <2>2. QED BY <1>9, <2>1 DEF Follows, Hashed
  <1>12. r2 # r /\ s2 # s /\ r2 \notin logs /\ s2 \notin logs
    <2>1. r2 # r
      BY <1>5, <1>8
    <2>2. s2 # s
      <3>1. s2.hash[1][5] = "edited" /\ s.hash[1][5] = "event"
        BY <1>5, <1>6, <1>8, <1>9
      <3>2. QED BY <3>1
    <2>3. QED BY <1>5, <1>6, <1>8, <1>9, <2>1, <2>2
  <1>13. r \notin logs' /\ s \notin logs'
    <2>1. r.seq # s.seq
      BY <1>4, <1>5
    <2>2. QED BY <1>4, <1>8, <1>9, <1>12, <2>1
  <1>14. IsFiniteSet(logs')
    <2>1. logs' = (((logs \ {r}) \ {s}) \cup {r2}) \cup {s2}
      BY <1>4
    <2>2. IsFiniteSet((logs \ {r}) \ {s})
      <3>1. IsFiniteSet(logs \ {r})
        BY ReplaceFinite
      <3>2. QED BY <3>1, FS_RemoveElement
    <2>3. IsFiniteSet(((logs \ {r}) \ {s}) \cup {r2})
      BY <2>2, FS_AddElement
    <2>4. IsFiniteSet((((logs \ {r}) \ {s}) \cup {r2}) \cup {s2})
      BY <2>3, FS_AddElement
    <2>5. QED BY <2>1, <2>4
  <1>15. ChangeInv'
    <2>1. anchor.seq \in Nat /\ \A x \in logs : x.seq \in Nat /\ x.seq <= anchor.seq
      BY <1>4, Unchanged, RowNumbers
    <2>2. \A x \in logs' : /\ x.seq = r.seq => x = r2
                           /\ x.seq = r.seq + 1 => x = s2
                           /\ x.seq # r.seq + 2
      BY <1>4, <1>5, <1>6, <1>8, <1>9, <2>1
    <2>3. s2.hash[1][5] = "edited"
      BY <1>8, <1>9
    <2>4. r.seq \in Nat /\ r.seq \in 1..anchor'.seq /\ r.seq < anchor'.seq
      BY <1>4, <1>5, <2>1
    <2>5. QED BY <1>4, <1>8, <2>2, <2>3, <2>4 DEF ChangeInv
  <1>16. \A x \in logs' : x \in logs \/ (/\ IsRow(x) /\ Follows(x.hash, x.seq)
                                         /\ \E y \in logs \ logs' : /\ x.seq = y.seq /\ x.id = y.id
                                                                    /\ x.created = y.created)
    BY <1>4, <1>5, <1>6, <1>8, <1>9, <1>10, <1>11, <1>13
  <1>17. \A x, y \in logs' : x \notin logs /\ y \notin logs /\ x.seq = y.seq => x = y
    <2>1. r.seq # s.seq
      BY <1>4, <1>5
    <2>2. QED BY <1>4, <1>8, <1>9, <2>1
  <1>18. QED BY <1>4, <1>14, <1>15, <1>16, <1>17, TamperFrame

LEMMA DeleteAnchorInv ==
  ASSUME VerifyInv, DeleteAnchor
  PROVE  VerifyInv'
  <1>1. /\ change.kind = "none" /\ anchor' = [exists |-> FALSE, seq |-> 0, head |-> Genesis]
        /\ change' = [kind |-> "anchor", seq |-> anchor.seq]
        /\ logs' = logs /\ purged' = purged /\ req' = req
    BY DEF DeleteAnchor, Changed
  <1>2. /\ anchor'.exists = FALSE /\ anchor'.seq = 0 /\ anchor'.head = Genesis
        /\ change'.kind = "anchor" /\ change'.seq = anchor.seq /\ anchor.seq \in Nat
    BY <1>1, RowNumbers
  <1>3. TablesInv /\ \A r \in logs : RowInv(r) /\ r.id = 0
    BY <1>1, Unchanged DEF VerifyInv, TablesInv
  <1>4. \A r \in logs' : RowInv(r)'
    BY <1>1, <1>2, <1>3 DEF RowInv
  <1>5. AnchorInv'
    BY <1>1, <1>2, VerifyAssumption DEF AnchorInv, Vouches
  <1>6. (IsFiniteSet(logs) /\ Unique /\ Linked /\ Whole /\ ChangeInv)'
    BY <1>1, <1>2, <1>3 DEF TablesInv, Unique, Linked, Whole, ChangeInv
  <1>7. LostInv'
    <2> SUFFICES ASSUME ~purged, anchor.seq > 0 PROVE \E r \in logs : r.id = 0 /\ r.seq = 1
      BY <1>1, <1>2 DEF LostInv
    <2>1. 1 \in 1..anchor.seq
      BY <1>2
    <2>2. QED BY <1>1, <1>3, <2>1 DEF TablesInv, Whole
  <1>8. (ReqInv /\ ReqReads /\ NoFalseAlarm /\ ChangeDetected)'
    <2>1. anchor'.seq \in Nat /\ change'.kind # "none"
      BY <1>2
    <2>2. QED BY <1>1, <1>2, <2>1, RequestFrame
  <1>9. QED BY <1>4, <1>5, <1>6, <1>7, <1>8 DEF VerifyInv, TablesInv

----------------------------------------------------------------------------
\* Steps of the request.
LEMMA TablesFrame ==
  ASSUME TablesInv, UNCHANGED <<logs, anchor, change, purged>>
  PROVE  TablesInv'
  <1>1. logs' = logs /\ anchor' = anchor /\ change' = change /\ purged' = purged
    OBVIOUS
  <1>2. \A r \in logs' : RowInv(r)'
    BY <1>1 DEF TablesInv, RowInv
  <1>3. (IsFiniteSet(logs) /\ AnchorInv /\ Unique /\ Linked /\ Whole /\ ChangeInv /\ LostInv)'
    BY <1>1 DEF TablesInv, AnchorInv, Unique, Linked, Whole, ChangeInv, LostInv
  <1>4. QED BY <1>2, <1>3 DEF TablesInv

\* A verdict is sound if it is of a reason that fits the tables now.
LEMMA DoneInv ==
  ASSUME VerifyInv, UNCHANGED <<logs, anchor, change, purged>>,
         NEW reason \in Reasons, Done(req, reason),
         change.kind = "none" /\ ~purged =>
           /\ reason \notin {"TAMPER_DETECTED", "GAP_DETECTED", "ANCHOR_HASH_MISMATCH"}
           /\ FullWalk /\ req.anchorSeq > 0 => reason \in {"OK", "TIMESTAMP_VIOLATION", "TRUNCATED"},
         req.sees /\ reason = "OK" =>
           /\ FullWalk /\ change.kind \in {"edit", "link", "delete", "rewrite"} =>
                change.seq > req.anchorSeq
           /\ change.kind \in {"edit", "link"} => change.seq \notin req.fromSeq..req.toSeq
           /\ FullWalk /\ req.before = "anchor" /\ ~purged => change.seq = 0
  PROVE  VerifyInv'
  <1>1. TablesInv'
    BY TablesFrame DEF VerifyInv
  <1>2. ReqInv /\ change' = change /\ anchor' = anchor
    BY DEF VerifyInv
  <1>3. req' = [phase |-> "done", from |-> req.from, to |-> req.to, anchorSeq |-> req.anchorSeq,
                head |-> req.head, fromSeq |-> req.fromSeq, toSeq |-> req.toSeq, seed |-> req.seed,
                sees |-> req.sees, reason |-> reason, before |-> req.before, changed |-> change.kind, lost |-> purged]
    BY <1>2 DEF Done, ReqInv, IsRequest
  <1>4. /\ req'.phase = "done" /\ req'.from = req.from /\ req'.to = req.to
        /\ req'.anchorSeq = req.anchorSeq /\ req'.head = req.head /\ req'.fromSeq = req.fromSeq
        /\ req'.toSeq = req.toSeq /\ req'.seed = req.seed /\ req'.reason = reason
        /\ req'.before = req.before /\ req'.changed = change.kind /\ req'.lost = purged
        /\ req'.sees = req.sees /\ IsRequest(req')
    BY <1>3 DEF IsRequest
  <1>5. ReqInv'
    <2>1. Vouches(req.head, req.anchorSeq)'
      BY <1>2, <1>4 DEF ReqInv, Vouches, Genuine, Follows, Hashed
    <2>2. QED BY <1>2, <1>4, <2>1 DEF ReqInv, FullWalk
  <1>6. ReqReads'
    BY <1>4 DEF VerifyInv, ReqReads
  <1>7. NoFalseAlarm'
    BY <1>4 DEF NoFalseAlarm, Untouched, FullWalk
  <1>8. ChangeDetected'
    BY <1>2, <1>4 DEF ChangeDetected, FullWalk
  <1>9. QED BY <1>1, <1>5, <1>6, <1>7, <1>8 DEF VerifyInv

LEMMA CountRowsInv ==
  ASSUME VerifyInv, CountRows
  PROVE  VerifyInv'
  <1>1. PICK reason : reason = IF logs = {} \/ ~req.sees THEN "OK" ELSE "ANCHOR_MISSING"
    OBVIOUS
  <1>2. Done(req, reason) /\ req.phase = "count" /\ UNCHANGED <<logs, anchor, change, purged>>
    BY <1>1 DEF CountRows
  <1>3. reason \in Reasons
    BY <1>1 DEF Reasons
  <1>4. req.anchorSeq = 0 /\ req.toSeq = 0 /\ req.fromSeq \in Nat \ {0}
    BY <1>2 DEF VerifyInv, ReqInv
  <1>5. ASSUME req.sees, reason = "OK"
        PROVE  /\ change.kind \in {"edit", "link", "delete", "rewrite"} => change.seq > req.anchorSeq
               /\ change.seq \notin req.fromSeq..req.toSeq
               /\ req.before = "anchor" /\ ~purged => change.seq = 0
    <2>1. logs = {} /\ anchor.seq \in Nat /\ change.seq \in Nat
      BY <1>1, <1>5, RowNumbers DEF VerifyInv, TablesInv, ChangeInv
    <2>2. change.kind \in {"edit", "link", "delete", "rewrite"} => change.seq > req.anchorSeq
      BY <1>4, <2>1 DEF VerifyInv, TablesInv, ChangeInv
    <2>3. req.before = "anchor" /\ ~purged => change.seq = 0
      BY <2>1 DEF VerifyInv, ReqInv, TablesInv, LostInv
    <2>4. QED BY <1>4, <2>1, <2>2, <2>3
  <1>6. QED BY <1>1, <1>2, <1>3, <1>4, <1>5, DoneInv

LEMMA ReadRowsInv ==
  ASSUME VerifyInv, NEW older \in BOOLEAN, ReadRows(older)
  PROVE  VerifyInv'
  <1>1. PICK rows : rows = SelectRows(req, older)
    OBVIOUS
  <1>2. PICK reason : reason = Verdict(rows, req)
    OBVIOUS
  <1>3. Done(req, reason) /\ req.phase = "rows" /\ UNCHANGED <<logs, anchor, change, purged>>
    BY <1>1, <1>2 DEF ReadRows
  <1>4. reason \in Reasons
    <2>1. Len(rows) \in Nat /\ DOMAIN rows = 1..Len(rows)
      BY <1>1, RowsRead DEF Ordered
    <2>2. QED BY <1>2, <2>1, VerdictType
  <1>5. change.kind = "none" /\ ~purged =>
           /\ reason \notin {"TAMPER_DETECTED", "GAP_DETECTED", "ANCHOR_HASH_MISMATCH"}
           /\ FullWalk /\ req.anchorSeq > 0 => reason \in {"OK", "TIMESTAMP_VIOLATION", "TRUNCATED"}
    BY <1>1, <1>2, <1>3, TrueVerdict
  <1>6. ASSUME reason = "OK"
        PROVE  /\ FullWalk /\ change.kind \in {"edit", "link", "delete", "rewrite"} =>
                    change.seq > req.anchorSeq
               /\ change.kind \in {"edit", "link"} => change.seq \notin req.fromSeq..req.toSeq
               /\ FullWalk /\ req.before = "anchor" /\ ~purged => change.seq = 0
    <2>1. change.kind \in {"edit", "link", "delete"} => change.seq \notin req.fromSeq..req.toSeq
      BY <1>1, <1>2, <1>3, <1>6, EditSeen
    <2>2. FullWalk /\ change.kind = "rewrite" => change.seq > req.anchorSeq
      BY <1>1, <1>2, <1>3, <1>6, RewriteSeen
    <2>3. FullWalk /\ req.before = "anchor" /\ ~purged => change.seq = 0
      BY <1>1, <1>2, <1>3, <1>6, NewChainSeen
    <2>4. FullWalk /\ change.kind \in {"edit", "link", "delete"} => change.seq > req.anchorSeq
      <3> SUFFICES ASSUME FullWalk, change.kind \in {"edit", "link", "delete"}
                   PROVE  change.seq > req.anchorSeq
        OBVIOUS
      <3>1. req.fromSeq = 1 /\ req.toSeq = req.anchorSeq /\ req.anchorSeq \in Nat
        BY DEF VerifyInv, ReqInv
      <3>2. change.seq \in Nat \ {0}
        BY RowNumbers DEF VerifyInv, TablesInv, ChangeInv
      <3>3. change.seq \notin 1..req.anchorSeq
        BY <2>1, <3>1
      <3>4. QED BY <3>1, <3>2, <3>3
    <2>5. QED BY <2>1, <2>2, <2>3, <2>4
  <1>7. QED BY <1>3, <1>4, <1>5, <1>6, DoneInv

\* A read that goes on to the next one.  What it may change are the phase, the
\* bounds of the range and the seed.
LEMMA ReadOnInv ==
  ASSUME VerifyInv, UNCHANGED <<logs, anchor, change, purged>>,
         NEW phase \in {"to", "seed", "rows"}, NEW fromSeq \in Nat \ {0}, NEW toSeq \in Nat, NEW seed,
         toSeq <= req.toSeq,
         req.phase \in {"from", "to", "seed"},
         req' = [req EXCEPT !.phase = phase, !.fromSeq = fromSeq, !.toSeq = toSeq, !.seed = seed],
         FullWalk => fromSeq = req.fromSeq /\ toSeq = req.toSeq,
         phase # "rows" \/ fromSeq = 1 => seed = Genesis,
         phase = "rows" /\ fromSeq > 1 =>
           /\ Hashed(seed, fromSeq - 1)
           /\ change.kind = "none" =>
                /\ fromSeq <= anchor.seq + 1
                /\ \A r \in logs : r.seq = fromSeq - 1 => seed = r.hash
  PROVE  VerifyInv'
  <1>1. TablesInv'
    BY TablesFrame DEF VerifyInv
  <1>2. ReqInv /\ ReqReads /\ change' = change /\ anchor' = anchor /\ logs' = logs
    BY DEF VerifyInv
  <1>3. req' = [phase |-> phase, from |-> req.from, to |-> req.to, anchorSeq |-> req.anchorSeq,
                head |-> req.head, fromSeq |-> fromSeq, toSeq |-> toSeq, seed |-> seed,
                sees |-> req.sees, reason |-> req.reason, before |-> req.before, changed |-> req.changed,
                lost |-> req.lost]
    BY <1>2 DEF ReqInv, IsRequest
  <1>4. /\ req'.phase = phase /\ req'.from = req.from /\ req'.to = req.to
        /\ req'.anchorSeq = req.anchorSeq /\ req'.head = req.head /\ req'.fromSeq = fromSeq
        /\ req'.toSeq = toSeq /\ req'.seed = seed /\ req'.reason = req.reason
        /\ req'.before = req.before /\ IsRequest(req')
    BY <1>3 DEF IsRequest
  <1>5. ReqInv'
    <2>1. Vouches(req.head, req.anchorSeq)'
      BY <1>2, <1>4 DEF ReqInv, Vouches, Genuine, Follows, Hashed
    <2>2. req.reason = "none" /\ req.toSeq \in Nat /\ req.anchorSeq \in Nat /\ toSeq <= req.anchorSeq
      BY <1>2 DEF ReqInv
    <2>3. (FullWalk => req.fromSeq = 1 /\ req.toSeq = req.anchorSeq)'
      BY <1>2, <1>4 DEF ReqInv, FullWalk
    <2>4. (req.phase = "rows" => IF req.fromSeq = 1 THEN req.seed = Genesis
                                                    ELSE Hashed(req.seed, req.fromSeq - 1))'
      BY <1>4 DEF Hashed
    <2>5. QED BY <1>2, <1>4, <2>1, <2>2, <2>3, <2>4 DEF ReqInv
  <1>6. ReqReads'
    BY <1>2, <1>4 DEF ReqReads
  <1>7. (NoFalseAlarm /\ ChangeDetected)'
    BY <1>4 DEF NoFalseAlarm, ChangeDetected, Finished
  <1>8. QED BY <1>1, <1>5, <1>6, <1>7 DEF VerifyInv

LEMMA SameFields ==
  ASSUME ReqInv, NEW phase, NEW fromSeq, NEW toSeq, NEW seed
  PROVE  /\ [req EXCEPT !.phase = phase, !.fromSeq = fromSeq]
              = [req EXCEPT !.phase = phase, !.fromSeq = fromSeq, !.toSeq = req.toSeq, !.seed = req.seed]
         /\ [req EXCEPT !.phase = phase, !.toSeq = toSeq]
              = [req EXCEPT !.phase = phase, !.fromSeq = req.fromSeq, !.toSeq = toSeq, !.seed = req.seed]
         /\ [req EXCEPT !.phase = phase, !.seed = seed]
              = [req EXCEPT !.phase = phase, !.fromSeq = req.fromSeq, !.toSeq = req.toSeq, !.seed = seed]
         /\ [req EXCEPT !.phase = phase]
              = [req EXCEPT !.phase = phase, !.fromSeq = req.fromSeq, !.toSeq = req.toSeq, !.seed = req.seed]
  BY DEF ReqInv, IsRequest

LEMMA ReadFromInv ==
  ASSUME VerifyInv, ReadFrom
  PROVE  VerifyInv'
  <1> DEFINE after == {r.seq : r \in {x \in logs : x.created >= req.from}}
  <1>1. PICK n : n = IF req.from # NoTime /\ after # {} THEN SeqMin(after) ELSE req.fromSeq
    OBVIOUS
  <1>2. /\ req.phase = "from" /\ req' = [req EXCEPT !.phase = "to", !.fromSeq = n]
        /\ UNCHANGED <<logs, anchor, change, purged>>
    BY <1>1 DEF ReadFrom
  <1>3. ReqInv /\ req.fromSeq \in Nat \ {0} /\ req.toSeq \in Nat /\ req.seed = Genesis
    BY <1>2 DEF VerifyInv, ReqInv
  <1>4. n \in Nat \ {0}
    <2>1. \A x \in after : x \in Nat \ {0}
      BY RowNumbers
    <2> HIDE DEF after
    <2>2. after # {} => SeqMin(after) \in after
      BY <2>1, SeqMinIs
    <2>3. QED BY <1>1, <1>3, <2>1, <2>2
  <1>5. FullWalk => n = req.fromSeq
    BY <1>1 DEF FullWalk
  <1>6. req' = [req EXCEPT !.phase = "to", !.fromSeq = n, !.toSeq = req.toSeq, !.seed = req.seed]
    BY <1>2, <1>3, SameFields
  <1>7. req.toSeq <= req.toSeq
    BY <1>3
  <1>8. QED BY <1>2, <1>3, <1>4, <1>5, <1>6, <1>7, ReadOnInv

LEMMA ReadToInv ==
  ASSUME VerifyInv, ReadTo
  PROVE  VerifyInv'
  <1> DEFINE before == {r.seq : r \in {x \in logs : x.created <= req.to}}
  <1>1. PICK n : n = IF req.to # NoTime /\ before # {}
                       THEN SeqMin({req.toSeq, SeqMax(before)}) ELSE req.toSeq
    OBVIOUS
  <1>2. /\ req.phase = "to" /\ req' = [req EXCEPT !.phase = "seed", !.toSeq = n]
        /\ UNCHANGED <<logs, anchor, change, purged>>
    BY <1>1 DEF ReadTo
  <1>3. ReqInv /\ req.fromSeq \in Nat \ {0} /\ req.toSeq \in Nat /\ req.seed = Genesis
    BY <1>2 DEF VerifyInv, ReqInv
  <1>4. n \in Nat /\ n <= req.toSeq
    <2>1. MaxLen \in Nat /\ \A x \in before : x \in Nat /\ x <= MaxLen
      BY RowNumbers
    <2> HIDE DEF before
    <2>2. before # {} => SeqMax(before) \in Nat
      BY <2>1, SeqMaxIs
    <2>3. before # {} => /\ SeqMin({req.toSeq, SeqMax(before)}) \in {req.toSeq, SeqMax(before)}
                         /\ SeqMin({req.toSeq, SeqMax(before)}) <= req.toSeq
      BY <1>3, <2>2, SeqMinIs
    <2>4. QED BY <1>1, <1>3, <2>2, <2>3
  <1>5. FullWalk => n = req.toSeq
    BY <1>1 DEF FullWalk
  <1>6. req' = [req EXCEPT !.phase = "seed", !.fromSeq = req.fromSeq, !.toSeq = n, !.seed = req.seed]
    BY <1>2, <1>3, SameFields
  <1>7. QED BY <1>2, <1>3, <1>4, <1>5, <1>6, ReadOnInv

LEMMA ReadSeedInv ==
  ASSUME VerifyInv, ReadSeed
  PROVE  VerifyInv'
  <1>1. req.phase = "seed" /\ UNCHANGED <<logs, anchor, change, purged>>
    BY DEF ReadSeed
  <1>2. ReqInv /\ req.fromSeq \in Nat \ {0} /\ req.toSeq \in Nat /\ req.seed = Genesis
    BY <1>1 DEF VerifyInv, ReqInv
  <1>3. req.toSeq <= req.toSeq
    BY <1>2
  <1>4. CASE req.fromSeq = 1 /\ req' = [req EXCEPT !.phase = "rows"]
    <2>1. req' = [req EXCEPT !.phase = "rows", !.fromSeq = req.fromSeq, !.toSeq = req.toSeq,
                             !.seed = req.seed]
      BY <1>2, <1>4, SameFields
    <2>2. PICK n : n = req.fromSeq
      OBVIOUS
    <2>3. n \in Nat \ {0} /\ ~(n > 1) /\ n = req.fromSeq
      BY <1>4, <2>2
    <2>4. req' = [req EXCEPT !.phase = "rows", !.fromSeq = n, !.toSeq = req.toSeq, !.seed = req.seed]
      BY <2>1, <2>2
    <2>5. QED BY <1>1, <1>2, <1>3, <2>3, <2>4, ReadOnInv
  <1>5. ASSUME NEW r \in logs, r.seq = req.fromSeq - 1, req.fromSeq # 1,
               req' = [req EXCEPT !.phase = "rows", !.seed = r.hash]
        PROVE  VerifyInv'
    <2>1. req' = [req EXCEPT !.phase = "rows", !.fromSeq = req.fromSeq, !.toSeq = req.toSeq,
                             !.seed = r.hash]
      BY <1>2, <1>5, SameFields
    <2>2. Hashed(r.hash, req.fromSeq - 1)
      BY <1>5, RowNumbers DEF Follows
    <2>3. change.kind = "none" => /\ req.fromSeq <= anchor.seq + 1
                                  /\ \A x \in logs : x.seq = req.fromSeq - 1 => r.hash = x.hash
      <3> SUFFICES ASSUME change.kind = "none"
                   PROVE  /\ req.fromSeq <= anchor.seq + 1
                          /\ \A x \in logs : x.seq = req.fromSeq - 1 => r.hash = x.hash
        OBVIOUS
      <3>1. r.seq <= anchor.seq /\ anchor.seq \in Nat /\ \A x \in logs : x.seq = r.seq => x = r
        BY Unchanged, RowNumbers
      <3>2. QED BY <1>2, <1>5, <3>1
    <2>4. QED BY <1>1, <1>2, <1>3, <1>5, <2>1, <2>2, <2>3, ReadOnInv
  <1>6. CASE req.fromSeq # 1 /\ Done(req, "SEED_NOT_FOUND")
    <2>1. ~FullWalk
      BY <1>2, <1>6 DEF ReqInv
    <2>2. "SEED_NOT_FOUND" \in Reasons
      BY DEF Reasons
    <2>3. QED BY <1>1, <1>6, <2>1, <2>2, DoneInv
  <1>7. QED BY <1>4, <1>5, <1>6 DEF ReadSeed

LEMMA ReadAnchorInv ==
  ASSUME VerifyInv, NEW from \in Times \cup {NoTime}, NEW to \in Times \cup {NoTime},
         NEW next \in {"from", "rows"}, ReadAnchor(from, to, next),
         next = "rows" => from = NoTime /\ to = NoTime
  PROVE  VerifyInv'
  <1>1. PICK p : p = IF anchor.exists THEN next ELSE "count"
    OBVIOUS
  <1>2. /\ req' = [Start EXCEPT !.phase = p, !.from = from, !.to = to, !.anchorSeq = anchor.seq,
                                !.head = anchor.head, !.toSeq = anchor.seq, !.before = change.kind]
        /\ UNCHANGED <<logs, anchor, change, purged>>
    BY <1>1 DEF ReadAnchor
  <1>3. TablesInv' /\ AnchorInv /\ Linked /\ anchor.seq \in Nat
    BY <1>2, TablesFrame, RowNumbers DEF VerifyInv, TablesInv
  <1>4. req' = [phase |-> p, from |-> from, to |-> to, anchorSeq |-> anchor.seq,
                head |-> anchor.head, fromSeq |-> 1, toSeq |-> anchor.seq, seed |-> Genesis,
                sees |-> TRUE, reason |-> "none", before |-> change.kind, changed |-> "none", lost |-> FALSE]
    BY <1>2 DEF Start
  <1>5. /\ req'.phase = p /\ req'.from = from /\ req'.to = to /\ req'.anchorSeq = anchor.seq
        /\ req'.head = anchor.head /\ req'.fromSeq = 1 /\ req'.toSeq = anchor.seq
        /\ req'.seed = Genesis /\ req'.reason = "none" /\ req'.before = change.kind
        /\ req'.changed = "none" /\ IsRequest(req')
    BY <1>4 DEF IsRequest
  <1>6. ReqInv'
    <2>1. Vouches(anchor.head, anchor.seq) /\ (p = "count" => anchor.seq = 0)
      BY <1>1, <1>3 DEF AnchorInv
    <2>2. Vouches(req.head, req.anchorSeq)'
      BY <1>5, <2>1 DEF Vouches, Genuine, Follows, Hashed
    <2>3. from \in Nat /\ to \in Nat
      BY VerifyAssumption DEF NoTime
    <2>4. p \in {"from", "rows", "count"}
      BY <1>1
    <2>5. QED BY <1>2, <1>3, <1>5, <2>1, <2>2, <2>3, <2>4 DEF ReqInv
  <1>7. ReqReads'
    BY <1>2, <1>3, <1>5 DEF ReqReads, Linked
  <1>8. (NoFalseAlarm /\ ChangeDetected)'
    <2>1. p # "done"
      BY <1>1
    <2>2. QED BY <1>5, <2>1 DEF NoFalseAlarm, ChangeDetected, Finished
  <1>9. QED BY <1>3, <1>6, <1>7, <1>8 DEF VerifyInv

\* Behind row level security the worker begins like a request without an anchor.
LEMMA BlindAnchorInv ==
  ASSUME VerifyInv, BlindAnchor
  PROVE  VerifyInv'
  <1>1. /\ req' = [Start EXCEPT !.phase = "count", !.sees = FALSE, !.before = change.kind]
        /\ UNCHANGED <<logs, anchor, change, purged>>
    BY DEF BlindAnchor
  <1>2. TablesInv' /\ anchor.seq \in Nat /\ \A r \in logs : r.seq \in Nat \ {0}
    BY <1>1, TablesFrame, RowNumbers DEF VerifyInv
  <1>3. req' = [phase |-> "count", from |-> NoTime, to |-> NoTime, anchorSeq |-> 0,
                head |-> Genesis, fromSeq |-> 1, toSeq |-> 0, seed |-> Genesis,
                sees |-> FALSE, reason |-> "none", before |-> change.kind,
                changed |-> "none", lost |-> FALSE]
    BY <1>1 DEF Start
  <1>4. /\ req'.phase = "count" /\ req'.from = NoTime /\ req'.to = NoTime
        /\ req'.anchorSeq = 0 /\ req'.head = Genesis /\ req'.fromSeq = 1 /\ req'.toSeq = 0
        /\ req'.seed = Genesis /\ req'.reason = "none" /\ req'.before = change.kind
        /\ req'.changed = "none" /\ IsRequest(req')
    BY <1>3 DEF IsRequest
  <1>5. ReqInv'
    <2>1. Vouches(req.head, req.anchorSeq)'
      BY <1>4 DEF Vouches
    <2>2. QED BY <1>1, <1>2, <1>4, <2>1 DEF ReqInv, NoTime
  <1>6. ReqReads'
    BY <1>1, <1>2, <1>4 DEF ReqReads
  <1>7. (NoFalseAlarm /\ ChangeDetected)'
    BY <1>4 DEF NoFalseAlarm, ChangeDetected, Finished
  <1>8. QED BY <1>2, <1>5, <1>6, <1>7 DEF VerifyInv

LEMMA VerifyStep == VerifyInv /\ [VerifyNext]_verifyVars => VerifyInv'
  <1> SUFFICES ASSUME VerifyInv, [VerifyNext]_verifyVars PROVE VerifyInv'
    OBVIOUS
  <1>1. CASE \E c \in Times : AppendRow(c) \/ RetentionPurge(c)
    BY <1>1, AppendRowInv, RetentionPurgeInv
  <1>2. CASE UpsertAnchorOnly
    BY <1>2, UpsertAnchorOnlyInv
  <1>3. CASE \E r \in logs : TamperRow(r) \/ \E s \in logs : RewriteTail(r, s)
    BY <1>3, TamperRowInv, RewriteTailInv
  <1>4. CASE DeleteAnchor
    BY <1>4, DeleteAnchorInv
  <1>5. CASE EndpointStart
    BY <1>5, ReadAnchorInv DEF EndpointStart
  <1>6. CASE WorkerStart
    BY <1>6, ReadAnchorInv, BlindAnchorInv DEF WorkerStart
  <1>7. CASE CountRows \/ ReadFrom \/ ReadTo \/ ReadSeed
    BY <1>7, CountRowsInv, ReadFromInv, ReadToInv, ReadSeedInv
  <1>8. CASE \E older \in BOOLEAN : ReadRows(older)
    BY <1>8, ReadRowsInv
  <1>9. CASE UNCHANGED verifyVars
    <2>1. req' = req /\ UNCHANGED <<logs, anchor, change, purged>>
      BY <1>9 DEF verifyVars
    <2>2. TablesInv' /\ anchor.seq \in Nat
      BY <2>1, TablesFrame, RowNumbers DEF VerifyInv
    <2>3. QED BY <2>1, <2>2, RequestFrame DEF VerifyInv
  <1>10. QED BY <1>1, <1>2, <1>3, <1>4, <1>5, <1>6, <1>7, <1>8, <1>9 DEF VerifyNext

LEMMA VerifyInvHolds == VerifySpec => []VerifyInv
  <1>1. QED BY StartInv, VerifyStep, PTL DEF VerifySpec

\* Every value the verification reads and every reason it returns has its type.
THEOREM VerifyTypeCorrect == VerifySpec => []VerifyTypeOK
  <1>1. VerifyInv => VerifyTypeOK
    BY DEF VerifyInv, TablesInv, RowInv, AnchorInv, ReqInv, VerifyTypeOK
  <1>2. QED BY <1>1, VerifyInvHolds, PTL

\* A chain of any length that only the worker wrote is never reported as tampered,
\* gapped or diverging, whatever is appended between the reads of a request.
THEOREM IntactChainPasses == VerifySpec => []NoFalseAlarm
  <1>1. VerifyInv => NoFalseAlarm
    BY DEF VerifyInv
  <1>2. QED BY <1>1, VerifyInvHolds, PTL

\* No change of the hashed columns of rows the anchor vouched for, and no deletion of
\* the anchor, gets the verdict OK from a caller that sees the tables, for chains of
\* any length and any row cap above one.
THEOREM TamperingIsSeen == VerifySpec => []ChangeDetected
  <1>1. VerifyInv => ChangeDetected
    BY DEF VerifyInv
  <1>2. QED BY <1>1, VerifyInvHolds, PTL
=============================================================================
