------------------------- MODULE SessionCacheProofs -------------------------
(* What the session cache guarantees for any number of sessions, readers and   *)
(* writers, and for all times to live that TimingAssumption admits.            *)
EXTENDS SessionCache, TLAPS

\* A tombstone of s that lasts for more than n ticks.
Covered(s, n) == cache[s].kind = "tombstone" /\ cache[s].ttl > n

\* What r has read is no longer true, and that has been announced.
Outdated(r) ==
  LET s == op[r].session
  IN  /\ ~hist[s].struck
      /\ \/ op[r].valid /\ db[s] = "gone" /\ hist[s].announced
         \/ op[r].info < hist[s].applied

\* A miss that has outdated facts in hand finds the tombstone in its way for as
\* long as it may last; and what it has in hand is as old as the miss at most.
ReaderInv ==
  \A r \in Readers :
    /\ op[r].phase # "idle" => op[r].session \in Sessions
    /\ op[r].phase # "fetched" => op[r].age = 0
    /\ op[r].phase = "fetched" =>
         /\ Outdated(r) => Covered(op[r].session, FetchMax - op[r].age)
         /\ op[r].valid /\ db[op[r].session] = "gone" => hist[op[r].session].gone <= op[r].age
         /\ op[r].info < info => old <= op[r].age

\* A transaction that has put its tombstones commits while they still last.
WriterInv ==
  \A w \in Writers, s \in Sessions :
    job[w].phase = "commit" /\ job[w].put /\ s \in job[w].targets /\ ~hist[s].struck =>
      Covered(s, TombTTL - job[w].age - 1)

\* An entry's remaining time counts against the bound of StaleIsBounded.
EntryInv ==
  \A s \in Sessions :
    /\ cache[s].kind = "positive" =>
         /\ cache[s].ttl <= CacheTTL
         /\ db[s] = "gone" => hist[s].gone + cache[s].ttl <= Stale
         /\ cache[s].info < info => old + cache[s].ttl <= Stale
    /\ hist[s].announced => db[s] = "gone"
    /\ hist[s].applied <= info
    /\ db[s] # "gone" => hist[s].gone = 0

Inv == TypeOK /\ ReaderInv /\ WriterInv /\ EntryInv /\ RevokedNotServed /\ PolicyInForce

-----------------------------------------------------------------------------
\* The constants are numbers.
LEMMA Numbers ==
  /\ CacheTTL \in Nat \ {0} /\ TombTTL \in Nat \ {0} /\ NegTTL \in Nat \ {0}
  /\ FetchMax \in Nat /\ CommitMax \in Nat /\ MaxLeft \in Nat /\ MaxInfo \in Nat
  /\ FetchMax + CommitMax < TombTTL
  /\ Stale = CacheTTL + FetchMax /\ Stale \in Nat
  BY TimingAssumption DEF Stale

\* The fields of well-typed rows, entries and requests.
LEMMA Fields ==
  ASSUME TypeOK
  PROVE  /\ info \in 0..MaxInfo /\ info \in Nat /\ old \in Nat
         /\ \A s \in Sessions :
              /\ cache[s] \in Entry /\ cache[s].ttl \in Nat /\ cache[s].info \in Nat
              /\ hist[s] \in History /\ hist[s].gone \in Nat /\ hist[s].applied \in Nat
         /\ \A r \in Readers :
              /\ op[r] \in Op /\ op[r].info \in Nat /\ op[r].age \in Nat
              /\ op[r].age <= FetchMax
         /\ \A w \in Writers :
              job[w] \in Job /\ job[w].age \in Nat /\ job[w].age <= CommitMax
  BY Numbers DEF TypeOK, Entry, History, Op, Job

\* The values that stand for nothing are well typed.
LEMMA Constants ==
  /\ Idle \in Op /\ Resting \in Job
  /\ Nothing \in Entry /\ Negative \in Entry /\ Tombstone \in Entry /\ Poison \in Entry
  BY Numbers DEF Idle, Resting, Nothing, Negative, Tombstone, Poison, Op, Job, Entry

\* The initial states satisfy the inductive invariant.
LEMMA InitInv == Init => Inv
  <1> SUFFICES ASSUME Init PROVE Inv OBVIOUS
  <1>1. TypeOK
    <2>1. [announced |-> FALSE, applied |-> 0, gone |-> 0, struck |-> FALSE] \in History
      BY Numbers DEF History
    <2>2. QED BY <2>1, Constants, Numbers DEF Init, TypeOK
  <1>2. \A s \in Sessions : cache[s].kind # "positive"
    <2>1. Nothing.kind = "none" /\ Poison.kind = "poison" BY DEF Nothing, Poison
    <2>2. \A s \in Sessions : cache[s] = Nothing \/ cache[s] = Poison BY DEF Init
    <2>3. QED BY <2>1, <2>2
  <1>3. ReaderInv BY DEF Init, ReaderInv, Idle
  <1>4. WriterInv BY DEF Init, WriterInv, Resting
  <1>5. EntryInv
    <2>1. \A s \in Sessions :
            hist[s].announced = FALSE /\ hist[s].applied = 0 /\ hist[s].gone = 0
      BY DEF Init
    <2>2. info = 0 BY DEF Init
    <2>3. \A s \in Sessions : hist[s].announced => db[s] = "gone" BY <2>1
    <2>4. \A s \in Sessions : hist[s].applied <= info
      <3>1. TAKE s \in Sessions
      <3>2. hist[s].applied = 0 BY <2>1
      <3>3. QED BY <2>2, <3>2
    <2>5. \A s \in Sessions : db[s] # "gone" => hist[s].gone = 0 BY <2>1
    <2>6. QED BY <1>2, <2>3, <2>4, <2>5 DEF EntryInv
  <1>6. QED BY <1>1, <1>2, <1>3, <1>4, <1>5 DEF Inv, RevokedNotServed, PolicyInForce

-----------------------------------------------------------------------------
\* Steps that only move readers that have nothing in hand, and writers that are
\* not about to commit.
LEMMA QuietInv ==
  ASSUME Inv, UNCHANGED <<db, info, cache, hist, old>>,
         op' \in [Readers -> Op], job' \in [Writers -> Job],
         \A r \in Readers : \/ op'[r] = op[r]
                            \/ /\ op'[r].phase # "fetched" /\ op'[r].age = 0
                               /\ op'[r].phase # "idle" => op'[r].session \in Sessions,
         \A w \in Writers : job'[w] = job[w] \/ job'[w].phase # "commit"
  PROVE  Inv'
  <1>1. TypeOK' BY DEF Inv, TypeOK
  <1>2. ReaderInv'
    <2>1. SUFFICES ASSUME NEW r \in Readers PROVE ReaderInv!(r)' BY DEF ReaderInv
    <2>2. CASE op'[r] = op[r] BY <2>2 DEF Inv, ReaderInv, Outdated, Covered
    <2>3. CASE op'[r] # op[r] BY <2>3 DEF ReaderInv
    <2>4. QED BY <2>2, <2>3
  <1>3. WriterInv' BY DEF Inv, WriterInv, Covered
  <1>4. EntryInv' /\ RevokedNotServed' /\ PolicyInForce'
    BY DEF Inv, EntryInv, RevokedNotServed, PolicyInForce
  <1>5. QED BY <1>1, <1>2, <1>3, <1>4 DEF Inv

\* The quiet steps of readers and writers.
QuietStep ==
  \/ \E r \in Readers, s \in Sessions : GetCachedSession(r, s)
  \/ \E r \in Readers : GiveUp(r)
  \/ \E w \in Writers :
       \/ \E S \in SUBSET Sessions, phase \in {"select", "wipe"} : SelectTargets(w, S, phase)
       \/ Rollback(w) \/ SelectTenantSessions(w)

\* They are quiet in the sense of QuietInv.
LEMMA QuietStepInv == ASSUME Inv, QuietStep PROVE Inv'
  <1>1. op \in [Readers -> Op] /\ job \in [Writers -> Job] BY DEF Inv, TypeOK
  <1>2. CASE \E r \in Readers, s \in Sessions : GetCachedSession(r, s)
    <2>1. PICK r \in Readers, s \in Sessions : GetCachedSession(r, s) BY <1>2
    <2>2. op[r] \in Op /\ op[r].phase = "idle" /\ op[r].age = 0
      BY <1>1, <2>1 DEF GetCachedSession, Inv, ReaderInv
    <2> DEFINE new == [op[r] EXCEPT
                         !.phase = IF cache[s].kind = "poison" THEN "evict" ELSE "miss",
                         !.session = s]
    <2>3. op' = [op EXCEPT ![r] = new] BY <1>1, <2>1 DEF GetCachedSession
    <2>4. new \in Op /\ new.phase \in {"evict", "miss"} /\ new.session = s /\ new.age = 0
      BY <2>2 DEF Op
    <2> HIDE DEF new
    <2>5. /\ op' \in [Readers -> Op]
          /\ \A q \in Readers : op'[q] = op[q] \/ op'[q] = new
      BY <1>1, <2>3, <2>4
    <2>6. UNCHANGED <<db, info, cache, job, hist, old>> BY <2>1 DEF GetCachedSession
    <2>7. QED BY <1>1, <2>4, <2>5, <2>6, QuietInv
  <1>3. CASE \E r \in Readers : GiveUp(r)
    <2>1. PICK r \in Readers : GiveUp(r) BY <1>3
    <2>2. op' = [op EXCEPT ![r] = Idle] /\ UNCHANGED <<db, info, cache, job, hist, old>>
      BY <2>1 DEF GiveUp
    <2>3. Idle \in Op /\ Idle.phase = "idle" /\ Idle.age = 0 BY Constants DEF Idle
    <2>4. /\ op' \in [Readers -> Op]
          /\ \A q \in Readers : op'[q] = op[q] \/ op'[q] = Idle
      BY <1>1, <2>2, <2>3
    <2>5. QED BY <1>1, <2>2, <2>3, <2>4, QuietInv
  <1>4. ASSUME NEW w \in Writers,
               \/ \E S \in SUBSET Sessions, phase \in {"select", "wipe"} : SelectTargets(w, S, phase)
               \/ Rollback(w) \/ SelectTenantSessions(w)
        PROVE  Inv'
    <2>1. job[w] \in Job BY <1>1
    <2>2. UNCHANGED <<db, info, cache, op, hist, old>>
      BY <1>4 DEF SelectTargets, Rollback, SelectTenantSessions
    <2>3. PICK new \in Job : job' = [job EXCEPT ![w] = new] /\ new.phase # "commit"
      <3>1. CASE \E S \in SUBSET Sessions, phase \in {"select", "wipe"} : SelectTargets(w, S, phase)
        <4>1. PICK S \in SUBSET Sessions, phase \in {"select", "wipe"} : SelectTargets(w, S, phase)
          BY <3>1
        <4> DEFINE new == [job[w] EXCEPT !.phase = phase, !.targets = S]
        <4>2. job' = [job EXCEPT ![w] = new] BY <1>1, <4>1 DEF SelectTargets
        <4>3. new \in Job /\ new.phase = phase BY <2>1 DEF Job
        <4> HIDE DEF new
        <4>4. QED BY <4>2, <4>3
      <3>2. CASE Rollback(w)
        <4>1. job' = [job EXCEPT ![w] = Resting] BY <3>2 DEF Rollback
        <4>2. Resting \in Job /\ Resting.phase = "idle" BY Constants DEF Resting
        <4>3. QED BY <4>1, <4>2
      <3>3. CASE SelectTenantSessions(w)
        <4> DEFINE new == [job[w] EXCEPT !.phase = "tenant", !.targets = Live]
        <4>1. job' = [job EXCEPT ![w] = new] BY <1>1, <3>3 DEF SelectTenantSessions
        <4>2. new \in Job /\ new.phase = "tenant" BY <2>1 DEF Job, Live
        <4> HIDE DEF new
        <4>3. QED BY <4>1, <4>2
      <3>4. QED BY <1>4, <3>1, <3>2, <3>3
    <2>4. /\ job' \in [Writers -> Job]
          /\ \A v \in Writers : job'[v] = job[v] \/ job'[v].phase # "commit"
      BY <1>1, <2>3
    <2>5. QED BY <1>1, <2>2, <2>4, QuietInv
  <1>5. QED BY <1>2, <1>3, <1>4 DEF QuietStep

\* A fetch: what it brings is up to date.
LEMMA FetchInv == ASSUME Inv, NEW r \in Readers, FetchSession(r) PROVE Inv'
  <1>1. op \in [Readers -> Op] /\ op[r] \in Op BY DEF Inv, TypeOK
  <1>2. op[r].session \in Sessions /\ op[r].age = 0 BY DEF FetchSession, Inv, ReaderInv
  <1> DEFINE s == op[r].session
             v == s \in Live
             new == [op[r] EXCEPT !.phase = "fetched", !.valid = v, !.info = info]
  <1>3. op' = [op EXCEPT ![r] = new] /\ UNCHANGED <<db, info, cache, job, hist, old>>
    BY <1>1 DEF FetchSession
  <1>4. v \in BOOLEAN OBVIOUS
  <1> HIDE DEF v
  <1>5. info \in 0..MaxInfo BY DEF Inv, TypeOK
  <1>6. /\ new \in Op /\ new.phase = "fetched" /\ new.session = s /\ new.age = 0
        /\ new.valid = v /\ new.info = info
    BY <1>4, <1>1, <1>2, <1>5 DEF Op
  <1> HIDE DEF new
  <1>7. op'[r] = new /\ \A q \in Readers \ {r} : op'[q] = op[q] BY <1>1, <1>3
  <1>8. TypeOK' BY <1>1, <1>3, <1>6 DEF Inv, TypeOK
  <1>9. ReaderInv'
    <2>1. SUFFICES ASSUME NEW q \in Readers PROVE ReaderInv!(q)' BY DEF ReaderInv
    <2>2. CASE q # r BY <1>3, <1>7, <2>2 DEF Inv, ReaderInv, Outdated, Covered
    <2>3. CASE q = r
      <3>1. hist[s].applied <= info /\ hist[s].applied \in Nat /\ info \in Nat
        BY <1>2, Fields DEF Inv, EntryInv
      <3>2. ~(info < hist[s].applied) /\ ~(info < info) BY <3>1
      <3>3. db[s] = "gone" => ~v BY DEF Live, v
      <3>4. QED BY <1>4, <1>2, <1>3, <1>6, <1>7, <2>3, <3>2, <3>3 DEF Outdated
    <2>4. QED BY <2>2, <2>3
  <1>10. WriterInv' BY <1>3 DEF Inv, WriterInv, Covered
  <1>11. EntryInv' /\ RevokedNotServed' /\ PolicyInForce'
    BY <1>3 DEF Inv, EntryInv, RevokedNotServed, PolicyInForce
  <1>12. QED BY <1>8, <1>9, <1>10, <1>11 DEF Inv

\* The eviction of poison: where it takes a tombstone instead, it strikes it.
LEMMA EvictInv == ASSUME Inv, NEW r \in Readers, EvictPoison(r) PROVE Inv'
  <1> DEFINE s == op[r].session
  <1>1. /\ op \in [Readers -> Op] /\ op[r] \in Op /\ cache \in [Sessions -> Entry]
        /\ hist \in [Sessions -> History]
    BY DEF Inv, TypeOK
  <1>2. s \in Sessions /\ op[r].age = 0 BY DEF EvictPoison, Inv, ReaderInv
  <1>3. hist[s] \in History /\ cache[s] \in Entry BY <1>1, <1>2
  <1> DEFINE b == hist[s].struck \/ cache[s].kind = "tombstone"
             row == [hist[s] EXCEPT !.struck = b]
             new == [op[r] EXCEPT !.phase = "miss"]
  <1>4. /\ op' = [op EXCEPT ![r] = new] /\ hist' = [hist EXCEPT ![s] = row]
        /\ cache' = [cache EXCEPT ![s] = Nothing]
        /\ UNCHANGED <<db, info, job, old>>
    BY <1>1, <1>2 DEF EvictPoison
  <1>5. b \in BOOLEAN OBVIOUS
  <1>6. ~b => hist[s].struck = FALSE /\ cache[s].kind # "tombstone" BY <1>3 DEF History
  <1> HIDE DEF b
  <1>7. /\ row \in History /\ row.struck = b /\ row.announced = hist[s].announced
        /\ row.applied = hist[s].applied /\ row.gone = hist[s].gone
    BY <1>3, <1>5 DEF History
  <1>8. new \in Op /\ new.phase = "miss" /\ new.session = s /\ new.age = 0
    BY <1>1, <1>2 DEF Op
  <1> HIDE DEF row, new
  <1>9. /\ op'[r] = new /\ \A q \in Readers \ {r} : op'[q] = op[q]
        /\ hist'[s] = row /\ \A t \in Sessions \ {s} : hist'[t] = hist[t]
        /\ cache'[s] = Nothing /\ \A t \in Sessions \ {s} : cache'[t] = cache[t]
    BY <1>1, <1>2, <1>4
  <1>10. TypeOK'
    BY <1>1, <1>2, <1>4, <1>7, <1>8, Constants DEF Inv, TypeOK
  <1>11. ReaderInv'
    <2>1. SUFFICES ASSUME NEW q \in Readers PROVE ReaderInv!(q)' BY DEF ReaderInv
    <2>2. CASE q = r BY <1>2, <1>8, <1>9, <2>2
    <2>3. CASE q # r /\ op[q].session # s
      BY <1>4, <1>9, <2>3 DEF Inv, ReaderInv, Outdated, Covered
    <2>4. CASE q # r /\ op[q].session = s
      <3>1. op'[q] = op[q] BY <1>9, <2>4
      <3>2. op[q].phase = "fetched" /\ Outdated(q)' => Outdated(q) /\ ~b
        BY <1>4, <1>6, <1>7, <1>9, <2>4, <3>1 DEF Outdated
      <3>3. ~(op[q].phase = "fetched" /\ Outdated(q)')
        BY <1>6, <2>4, <3>2 DEF Inv, ReaderInv, Covered
      <3>4. QED BY <1>4, <1>7, <1>9, <2>4, <3>1, <3>3 DEF Inv, ReaderInv
    <2>5. QED BY <2>2, <2>3, <2>4
  <1>12. WriterInv'
    <2>1. SUFFICES ASSUME NEW w \in Writers, NEW t \in Sessions PROVE WriterInv!(w, t)'
      BY DEF WriterInv
    <2>2. CASE t = s BY <1>4, <1>6, <1>7, <1>9, <2>2 DEF Inv, WriterInv, Covered
    <2>3. CASE t # s BY <1>4, <1>9, <2>3 DEF Inv, WriterInv, Covered
    <2>4. QED BY <2>2, <2>3
  <1>13. EntryInv'
    <2>1. SUFFICES ASSUME NEW t \in Sessions PROVE EntryInv!(t)' BY DEF EntryInv
    <2>2. CASE t = s
      <3>1. Nothing.kind = "none" BY DEF Nothing
      <3>2. QED BY <1>4, <1>7, <1>9, <2>2, <3>1 DEF Inv, EntryInv
    <2>3. CASE t # s BY <1>4, <1>9, <2>3 DEF Inv, EntryInv
    <2>4. QED BY <2>2, <2>3
  <1>14. RevokedNotServed' /\ PolicyInForce'
    <2>1. Nothing.kind = "none" BY DEF Nothing
    <2>2. QED BY <1>4, <1>9, <2>1 DEF Inv, RevokedNotServed, PolicyInForce
  <1>15. QED BY <1>10, <1>11, <1>12, <1>13, <1>14 DEF Inv

\* SET ... NX: a miss in hand meets the tombstone, or brings what is still true
\* or has not been announced.
LEMMA SetInv ==
  ASSUME Inv, NEW r \in Readers, NEW left \in Nat, SetCachedSession(r, left) PROVE Inv'
  <1> DEFINE s == op[r].session
  <1>1. op \in [Readers -> Op] /\ op[r] \in Op /\ cache \in [Sessions -> Entry]
    BY DEF Inv, TypeOK
  <1>2. s \in Sessions /\ op[r].phase = "fetched" BY DEF SetCachedSession, Inv, ReaderInv
  <1>3. PICK e \in Entry :
          /\ cache' = [cache EXCEPT ![s] = e]
          /\ \/ e = cache[s]
             \/ cache[s].kind = "none" /\ e.kind = "negative"
             \/ /\ cache[s].kind = "none" /\ op[r].valid
                /\ e.kind = "positive" /\ e.info = op[r].info /\ e.ttl <= CacheTTL
    <2> DEFINE m == IF left < CacheTTL THEN left ELSE CacheTTL
               e == IF cache[s].kind # "none" THEN cache[s]
                    ELSE IF ~op[r].valid THEN Negative
                    ELSE IF left = 0 THEN cache[s]
                    ELSE Positive(op[r].info, m)
    <2>1. cache' = [cache EXCEPT ![s] = e] BY <1>1, <1>2 DEF SetCachedSession
    <2>2. m \in Nat /\ m <= CacheTTL BY Numbers
    <2> HIDE DEF m
    <2>3. op[r].info \in 0..MaxInfo BY <1>1 DEF Op
    <2>4. /\ Positive(op[r].info, m) \in Entry /\ Positive(op[r].info, m).kind = "positive"
          /\ Positive(op[r].info, m).info = op[r].info /\ Positive(op[r].info, m).ttl = m
      BY <2>2, <2>3 DEF Positive, Entry
    <2>5. Negative \in Entry /\ Negative.kind = "negative" BY Constants DEF Negative
    <2>6. cache[s] \in Entry BY <1>1, <1>2
    <2>7. CASE e = cache[s] BY <2>1, <2>6, <2>7
    <2>8. CASE e # cache[s] /\ ~op[r].valid BY <2>1, <2>5, <2>8
    <2>9. CASE e # cache[s] /\ op[r].valid
      <3>1. e = Positive(op[r].info, m) /\ cache[s].kind = "none" BY <2>9
      <3> HIDE DEF e
      <3>2. QED BY <2>1, <2>2, <2>4, <2>9, <3>1
    <2>10. QED BY <2>7, <2>8, <2>9
  <1>4. op' = [op EXCEPT ![r] = Idle] /\ UNCHANGED <<db, info, job, hist, old>>
    BY DEF SetCachedSession
  <1>5. Idle.phase = "idle" /\ Idle.age = 0 BY DEF Idle
  <1>6. /\ op'[r] = Idle /\ \A q \in Readers \ {r} : op'[q] = op[q]
        /\ cache'[s] = e /\ \A t \in Sessions \ {s} : cache'[t] = cache[t]
    BY <1>1, <1>2, <1>3, <1>4
  <1>7. TypeOK' BY <1>1, <1>2, <1>3, <1>4, Constants DEF Inv, TypeOK
  <1>8. \A t \in Sessions : cache[t].kind = "tombstone" => cache'[t] = cache[t]
    BY <1>3, <1>6
  <1>9. ReaderInv'
    <2>1. SUFFICES ASSUME NEW q \in Readers PROVE ReaderInv!(q)' BY DEF ReaderInv
    <2>2. CASE q = r BY <1>5, <1>6, <2>2
    <2>3. CASE q # r
      <3>1. op'[q] = op[q] BY <1>6, <2>3
      <3>2. Outdated(q)' = Outdated(q) BY <1>4, <3>1 DEF Outdated
      <3>3. QED BY <1>4, <1>8, <3>1, <3>2 DEF Inv, ReaderInv, Covered
    <2>4. QED BY <2>2, <2>3
  <1>10. WriterInv'
    <2>1. SUFFICES ASSUME NEW w \in Writers, NEW t \in Sessions PROVE WriterInv!(w, t)'
      BY DEF WriterInv
    <2>2. QED BY <1>4, <1>8 DEF Inv, WriterInv, Covered
  <1>11. EntryInv' /\ RevokedNotServed' /\ PolicyInForce'
    <2>1. CASE e.kind # "positive" \/ e = cache[s]
      <3>1. EntryInv' BY <1>4, <1>6, <2>1 DEF Inv, EntryInv
      <3>2. RevokedNotServed' /\ PolicyInForce'
        BY <1>4, <1>6, <2>1 DEF Inv, RevokedNotServed, PolicyInForce
      <3>3. QED BY <3>1, <3>2
    <2>2. CASE e.kind = "positive" /\ e # cache[s]
      <3>1. /\ cache[s].kind = "none" /\ op[r].valid /\ e.info = op[r].info
            /\ e.ttl <= CacheTTL
        BY <1>3, <2>2
      <3>2. ~Outdated(r) BY <1>2, <3>1 DEF Inv, ReaderInv, Covered
      <3>3. /\ db[s] = "gone" => hist[s].gone <= op[r].age
            /\ op[r].info < info => old <= op[r].age
        BY <1>2, <3>1 DEF Inv, ReaderInv
      <3>4. /\ op[r].age \in Nat /\ op[r].age <= FetchMax /\ old \in Nat /\ e.ttl \in Nat
            /\ hist[s].gone \in Nat /\ hist[s].applied \in Nat /\ op[r].info \in Nat
        BY <1>2, Fields DEF Inv, Entry
      <3>5. /\ db[s] = "gone" => hist[s].gone + e.ttl <= Stale
            /\ op[r].info < info => old + e.ttl <= Stale
        BY <3>1, <3>3, <3>4, Numbers
      <3>6. EntryInv'
        <4>1. SUFFICES ASSUME NEW t \in Sessions PROVE EntryInv!(t)' BY DEF EntryInv
        <4>2. CASE t = s BY <1>2, <1>4, <1>6, <3>1, <3>5, <4>2 DEF Inv, EntryInv
        <4>3. CASE t # s BY <1>4, <1>6, <4>3 DEF Inv, EntryInv
        <4>4. QED BY <4>2, <4>3
      <3>7. RevokedNotServed'
        BY <1>2, <1>4, <1>6, <3>1, <3>2 DEF Inv, RevokedNotServed, Outdated
      <3>8. PolicyInForce'
        <4>1. ~hist[s].struck => op[r].info >= hist[s].applied
          BY <3>2, <3>4 DEF Outdated
        <4>2. QED BY <1>2, <1>4, <1>6, <3>1, <4>1 DEF Inv, PolicyInForce
      <3>9. QED BY <3>6, <3>7, <3>8
    <2>3. QED BY <2>1, <2>2
  <1>12. QED BY <1>7, <1>9, <1>10, <1>11 DEF Inv

-----------------------------------------------------------------------------
\* A new session changes nothing about sessions that are gone.
LEMMA SignInInv == ASSUME Inv, NEW s \in Sessions, SignIn(s) PROVE Inv'
  <1>1. /\ db[s] = "absent" /\ db' = [db EXCEPT ![s] = "live"]
        /\ UNCHANGED <<info, cache, op, job, hist, old>>
    BY DEF SignIn
  <1>2. db \in [Sessions -> {"absent", "live", "gone"}] BY DEF Inv, TypeOK
  <1>3. \A t \in Sessions : db'[t] = "gone" <=> db[t] = "gone" BY <1>1, <1>2
  <1>4. TypeOK' BY <1>1, <1>2 DEF Inv, TypeOK
  <1>5. ReaderInv' BY <1>1, <1>3 DEF Inv, ReaderInv, Outdated, Covered
  <1>6. WriterInv' BY <1>1 DEF Inv, WriterInv, Covered
  <1>7. EntryInv' BY <1>1, <1>3 DEF Inv, EntryInv
  <1>8. RevokedNotServed' /\ PolicyInForce'
    BY <1>1, <1>3 DEF Inv, RevokedNotServed, PolicyInForce
  <1>9. QED BY <1>4, <1>5, <1>6, <1>7, <1>8 DEF Inv

\* A deletion that is not announced yet: its sessions are gone for no time.
LEMMA DeleteInv ==
  ASSUME Inv, NEW w \in Writers, NEW extra \in SUBSET Sessions, DeleteSessions(w, extra)
  PROVE  Inv'
  <1>1. /\ db \in [Sessions -> {"absent", "live", "gone"}] /\ job \in [Writers -> Job]
        /\ job[w] \in Job
    BY DEF Inv, TypeOK
  <1>2. /\ UNCHANGED <<info, cache, op, hist, old>>
        /\ db' = [t \in Sessions |-> IF t \in Matching(w, extra) THEN "gone" ELSE db[t]]
    BY DEF DeleteSessions
  <1>3. \A t \in Sessions : db'[t] = db[t] \/ (db'[t] = "gone" /\ db[t] # "gone")
    BY <1>2 DEF Matching, Live
  <1> DEFINE new == [job[w] EXCEPT !.phase = "delete"]
  <1>4. job' = [job EXCEPT ![w] = new] BY <1>1 DEF DeleteSessions
  <1>5. new \in Job /\ new.phase = "delete" BY <1>1 DEF Job
  <1> HIDE DEF new
  <1>6. \A v \in Writers : job'[v] = job[v] \/ job'[v].phase # "commit" BY <1>1, <1>4, <1>5
  <1>7. TypeOK' BY <1>1, <1>2, <1>4, <1>5 DEF Inv, TypeOK
  <1>8. ReaderInv'
    <2>1. SUFFICES ASSUME NEW q \in Readers PROVE ReaderInv!(q)' BY DEF ReaderInv
    <2>2. CASE op[q].phase # "fetched" BY <1>2, <2>2 DEF Inv, ReaderInv
    <2>3. CASE op[q].phase = "fetched"
      <3> DEFINE s == op[q].session
      <3>1. s \in Sessions /\ op[q].age \in Nat BY <2>3, Fields DEF Inv, ReaderInv
      <3>2. hist[s].announced => db[s] = "gone" BY <3>1 DEF Inv, EntryInv
      <3>3. db[s] # "gone" => hist[s].gone = 0 BY <3>1 DEF Inv, EntryInv
      <3>4. Outdated(q)' => Outdated(q) BY <1>2, <3>2 DEF Outdated
      <3>5. op[q].valid /\ db'[s] = "gone" => hist[s].gone <= op[q].age
        BY <1>3, <2>3, <3>1, <3>3 DEF Inv, ReaderInv
      <3>6. QED BY <1>2, <2>3, <3>4, <3>5 DEF Inv, ReaderInv, Covered
    <2>4. QED BY <2>2, <2>3
  <1>9. WriterInv' BY <1>2, <1>6 DEF Inv, WriterInv, Covered
  <1>10. EntryInv'
    <2>1. SUFFICES ASSUME NEW t \in Sessions PROVE EntryInv!(t)' BY DEF EntryInv
    <2>2. cache[t].ttl \in Nat BY Fields DEF Inv
    <2>3. db[t] # "gone" /\ cache[t].kind = "positive" => hist[t].gone + cache[t].ttl <= Stale
      BY <2>2, Numbers DEF Inv, EntryInv
    <2>4. QED BY <1>2, <1>3, <2>3 DEF Inv, EntryInv
  <1>11. RevokedNotServed' /\ PolicyInForce'
    BY <1>2, <1>3 DEF Inv, EntryInv, RevokedNotServed, PolicyInForce
  <1>12. QED BY <1>7, <1>8, <1>9, <1>10, <1>11 DEF Inv

\* Tombstones land, in whichever writer: what they announce is covered by them.
LEMMA BuryInv ==
  ASSUME Inv, UNCHANGED <<db, info, op, old>>,
         cache' \in [Sessions -> Entry], hist' \in [Sessions -> History],
         job' \in [Writers -> Job],
         \A t \in Sessions :
           \/ cache'[t] = Tombstone
           \/ /\ cache'[t] = cache[t] /\ hist'[t].announced = hist[t].announced
              /\ hist'[t].applied = hist[t].applied,
         \A t \in Sessions :
           /\ hist'[t].struck = hist[t].struck /\ hist'[t].gone = hist[t].gone
           /\ hist'[t].announced => hist[t].announced \/ db[t] = "gone"
           /\ hist'[t].applied = hist[t].applied \/ hist'[t].applied = info,
         \A v \in Writers :
           \/ job'[v] = job[v] \/ job'[v].phase # "commit" \/ ~job'[v].put
           \/ \A t \in job'[v].targets : cache'[t] = Tombstone
  PROVE  Inv'
  <1>1. Tombstone.kind = "tombstone" /\ Tombstone.ttl = TombTTL BY DEF Tombstone
  <1>2. TypeOK' BY DEF Inv, TypeOK
  <1>3. ReaderInv'
    <2>1. SUFFICES ASSUME NEW q \in Readers PROVE ReaderInv!(q)' BY DEF ReaderInv
    <2>2. CASE op[q].phase # "fetched" BY <2>2 DEF Inv, ReaderInv
    <2>3. CASE op[q].phase = "fetched"
      <3> DEFINE s == op[q].session
      <3>1. s \in Sessions /\ op[q].age \in Nat BY <2>3, Fields DEF Inv, ReaderInv
      <3>2. TombTTL > FetchMax - op[q].age BY <3>1, Numbers
      <3>3. CASE cache'[s] = Tombstone
        BY <1>1, <2>3, <3>1, <3>2, <3>3 DEF Inv, ReaderInv, Covered
      <3>4. CASE /\ cache'[s] = cache[s] /\ hist'[s].announced = hist[s].announced
                 /\ hist'[s].applied = hist[s].applied
        BY <2>3, <3>1, <3>4 DEF Inv, ReaderInv, Covered, Outdated
      <3>5. QED BY <3>1, <3>3, <3>4
    <2>4. QED BY <2>2, <2>3
  <1>4. WriterInv'
    <2>1. SUFFICES ASSUME NEW v \in Writers, NEW t \in Sessions PROVE WriterInv!(v, t)'
      BY DEF WriterInv
    <2>2. CASE cache'[t] = Tombstone
      <3>1. job'[v].age \in Nat BY <1>2, Numbers DEF TypeOK, Job
      <3>2. TombTTL > TombTTL - job'[v].age - 1 BY <3>1, Numbers
      <3>3. QED BY <1>1, <2>2, <3>2 DEF Covered
    <2>3. CASE cache'[t] # Tombstone
      BY <2>3 DEF Inv, WriterInv, Covered
    <2>4. QED BY <2>2, <2>3
  <1>5. EntryInv'
    <2>1. SUFFICES ASSUME NEW t \in Sessions PROVE EntryInv!(t)' BY DEF EntryInv
    <2>2. info \in Nat BY Fields DEF Inv
    <2>3. hist'[t].applied <= info BY <2>2 DEF Inv, EntryInv
    <2>4. CASE cache'[t] = Tombstone BY <1>1, <2>3, <2>4 DEF Inv, EntryInv
    <2>5. CASE cache'[t] = cache[t] BY <2>3, <2>5 DEF Inv, EntryInv
    <2>6. QED BY <2>4, <2>5
  <1>6. RevokedNotServed' /\ PolicyInForce'
    BY <1>1 DEF Inv, RevokedNotServed, PolicyInForce
  <1>7. QED BY <1>2, <1>3, <1>4, <1>5, <1>6 DEF Inv

\* The steps in which tombstones are tried.
BuryStep(w) ==
  \/ \E ok \in BOOLEAN : TombstoneDeleted(w, ok) \/ TombstoneTenant(w, ok)
  \/ \E extra \in SUBSET Sessions, ok \in BOOLEAN : TombstoneInTx(w, extra, ok)

\* They are burials in the sense of BuryInv.
LEMMA BuryStepInv == ASSUME Inv, NEW w \in Writers, BuryStep(w) PROVE Inv'
  <1>1. /\ cache \in [Sessions -> Entry] /\ hist \in [Sessions -> History]
        /\ job \in [Writers -> Job] /\ job[w] \in Job
    BY DEF Inv, TypeOK
  <1>2. Resting \in Job /\ Resting.phase = "idle" /\ Tombstone \in Entry
    BY Constants DEF Resting
  <1>3. ASSUME NEW ok \in BOOLEAN, Entomb(job[w].targets, ok)
        PROVE  /\ cache' \in [Sessions -> Entry]
               /\ \A t \in Sessions : cache'[t] = IF ok /\ t \in job[w].targets
                                                   THEN Tombstone ELSE cache[t]
    BY <1>1, <1>2, <1>3 DEF Entomb
  <1>4. ASSUME NEW ok \in BOOLEAN, TombstoneDeleted(w, ok) PROVE Inv'
    <2>1. UNCHANGED <<db, info, op, old>> /\ job' = [job EXCEPT ![w] = Resting]
      BY <1>4 DEF TombstoneDeleted
    <2>2. Entomb(job[w].targets, ok) BY <1>4 DEF TombstoneDeleted
    <2>3. \A t \in Sessions :
            /\ hist'[t] \in History
            /\ hist'[t].struck = hist[t].struck /\ hist'[t].gone = hist[t].gone
            /\ hist'[t].applied = hist[t].applied
            /\ hist'[t].announced =
                 (hist[t].announced \/ (ok /\ t \in job[w].targets /\ db[t] = "gone"))
      <3>1. TAKE t \in Sessions
      <3>2. hist[t] \in History BY <1>1
      <3> DEFINE b == hist[t].announced \/ (ok /\ t \in job[w].targets /\ db[t] = "gone")
      <3>3. hist'[t] = [hist[t] EXCEPT !.announced = b] BY <1>4 DEF TombstoneDeleted
      <3>4. b \in BOOLEAN OBVIOUS
      <3> HIDE DEF b
      <3>5. /\ hist'[t] \in History
            /\ hist'[t].struck = hist[t].struck /\ hist'[t].gone = hist[t].gone
            /\ hist'[t].applied = hist[t].applied /\ hist'[t].announced = b
        BY <3>2, <3>3, <3>4 DEF History
      <3>6. QED BY <3>5 DEF b
    <2>4. hist' \in [Sessions -> History]
      <3>1. hist' = [t \in Sessions |-> hist'[t]] BY <1>4 DEF TombstoneDeleted
      <3>2. QED BY <2>3, <3>1
    <2>5. \A t \in Sessions : ~(ok /\ t \in job[w].targets) =>
            hist'[t].announced = hist[t].announced
      <3>1. TAKE t \in Sessions
      <3>2. hist[t].announced \in BOOLEAN BY <1>1 DEF History
      <3>3. QED BY <2>3, <3>2
    <2>6. /\ job' \in [Writers -> Job]
          /\ \A v \in Writers : job'[v] = job[v] \/ job'[v].phase # "commit"
      BY <1>1, <1>2, <2>1
    <2>7. /\ cache' \in [Sessions -> Entry]
          /\ \A t \in Sessions : cache'[t] = IF ok /\ t \in job[w].targets
                                              THEN Tombstone ELSE cache[t]
      BY <1>3, <2>2
    <2>8. \A t \in Sessions :
            \/ cache'[t] = Tombstone
            \/ /\ cache'[t] = cache[t] /\ hist'[t].announced = hist[t].announced
               /\ hist'[t].applied = hist[t].applied
      BY <2>3, <2>5, <2>7
    <2>9. \A t \in Sessions : hist'[t].announced => hist[t].announced \/ db[t] = "gone"
      BY <2>3
    <2>10. QED BY <2>1, <2>3, <2>4, <2>6, <2>7, <2>8, <2>9, BuryInv
  <1>5. ASSUME NEW ok \in BOOLEAN, TombstoneTenant(w, ok) PROVE Inv'
    <2>1. UNCHANGED <<db, info, op, old>> /\ job' = [job EXCEPT ![w] = Resting]
      BY <1>5 DEF TombstoneTenant
    <2>2. Entomb(job[w].targets, ok) BY <1>5 DEF TombstoneTenant
    <2>3. \A t \in Sessions :
            /\ hist'[t] \in History
            /\ hist'[t].struck = hist[t].struck /\ hist'[t].gone = hist[t].gone
            /\ hist'[t].announced = hist[t].announced
            /\ hist'[t].applied = hist[t].applied \/ hist'[t].applied = info
            /\ ~(ok /\ t \in job[w].targets) => hist'[t].applied = hist[t].applied
      <3>1. TAKE t \in Sessions
      <3>2. hist[t] \in History /\ info \in 0..MaxInfo BY <1>1 DEF Inv, TypeOK
      <3>3. CASE ok /\ t \in job[w].targets
        <4>1. hist'[t] = [hist[t] EXCEPT !.applied = info]
          BY <1>5, <3>3 DEF TombstoneTenant
        <4>2. QED BY <3>2, <3>3, <4>1 DEF History
      <3>4. CASE ~(ok /\ t \in job[w].targets)
        <4>1. hist'[t] = hist[t] BY <1>5, <3>4 DEF TombstoneTenant
        <4>2. QED BY <3>2, <4>1
      <3>5. QED BY <3>3, <3>4
    <2>4. hist' \in [Sessions -> History]
      <3>1. hist' = [t \in Sessions |-> hist'[t]] BY <1>5 DEF TombstoneTenant
      <3>2. QED BY <2>3, <3>1
    <2>5. /\ job' \in [Writers -> Job]
          /\ \A v \in Writers : job'[v] = job[v] \/ job'[v].phase # "commit"
      BY <1>1, <1>2, <2>1
    <2>6. /\ cache' \in [Sessions -> Entry]
          /\ \A t \in Sessions : cache'[t] = IF ok /\ t \in job[w].targets
                                              THEN Tombstone ELSE cache[t]
      BY <1>3, <2>2
    <2>7. QED BY <2>1, <2>3, <2>4, <2>5, <2>6, BuryInv
  <1>6. ASSUME NEW extra \in SUBSET Sessions, NEW ok \in BOOLEAN, TombstoneInTx(w, extra, ok)
        PROVE  Inv'
    <2>1. UNCHANGED <<db, info, op, hist, old>> /\ Entomb(job[w].targets, ok)
      BY <1>6 DEF TombstoneInTx
    <2> DEFINE new == [job[w] EXCEPT !.phase = "commit", !.doomed = Matching(w, extra),
                                     !.put = ok]
    <2>2. job' = [job EXCEPT ![w] = new] BY <1>1, <1>6 DEF TombstoneInTx
    <2>3. Matching(w, extra) \in SUBSET Sessions BY DEF Matching, Live
    <2>4. new \in Job /\ new.put = ok /\ new.targets = job[w].targets BY <1>1, <2>3 DEF Job
    <2> HIDE DEF new
    <2>5. job' \in [Writers -> Job] /\ \A v \in Writers : job'[v] = job[v] \/ job'[v] = new
      BY <1>1, <2>2, <2>4
    <2>6. /\ cache' \in [Sessions -> Entry]
          /\ \A t \in Sessions : cache'[t] = IF ok /\ t \in job[w].targets
                                              THEN Tombstone ELSE cache[t]
      BY <1>3, <2>1
    <2>7. job[w].targets \in SUBSET Sessions BY <1>1 DEF Job
    <2>8. \A v \in Writers :
            \/ job'[v] = job[v] \/ job'[v].phase # "commit" \/ ~job'[v].put
            \/ \A t \in job'[v].targets : cache'[t] = Tombstone
      BY <2>4, <2>5, <2>6, <2>7
    <2>9. QED BY <1>1, <2>1, <2>5, <2>6, <2>8, BuryInv
  <1>7. QED BY <1>4, <1>5, <1>6 DEF BuryStep

\* The commit of a transaction that has put its tombstones: they outlast every
\* miss that still saw the sessions.
LEMMA CommitInv == ASSUME Inv, NEW w \in Writers, CommitWipe(w) PROVE Inv'
  <1>1. /\ db \in [Sessions -> {"absent", "live", "gone"}] /\ hist \in [Sessions -> History]
        /\ job \in [Writers -> Job] /\ job[w] \in Job
    BY DEF Inv, TypeOK
  <1>2. /\ UNCHANGED <<info, cache, op, old>> /\ job' = [job EXCEPT ![w] = Resting]
        /\ db' = [t \in Sessions |-> IF t \in job[w].doomed THEN "gone" ELSE db[t]]
        /\ job[w].phase = "commit"
    BY DEF CommitWipe
  <1>3. \A t \in Sessions : db'[t] = db[t] \/ (db'[t] = "gone" /\ db[t] # "gone") BY <1>2
  <1>4. \A t \in Sessions :
          /\ hist'[t] \in History
          /\ hist'[t].struck = hist[t].struck /\ hist'[t].gone = hist[t].gone
          /\ hist'[t].applied = hist[t].applied
          /\ hist'[t].announced =>
               \/ hist[t].announced
               \/ job[w].put /\ t \in job[w].targets /\ db'[t] = "gone"
    <2>1. TAKE t \in Sessions
    <2>2. hist[t] \in History BY <1>1
    <2> DEFINE b == hist[t].announced \/ (job[w].put /\ t \in job[w].doomed \cap job[w].targets)
    <2>3. hist'[t] = [hist[t] EXCEPT !.announced = b] BY DEF CommitWipe
    <2>4. b \in BOOLEAN OBVIOUS
    <2> HIDE DEF b
    <2>5. /\ hist'[t] \in History
          /\ hist'[t].struck = hist[t].struck /\ hist'[t].gone = hist[t].gone
          /\ hist'[t].applied = hist[t].applied /\ hist'[t].announced = b
      BY <2>2, <2>3, <2>4 DEF History
    <2>6. QED BY <1>2, <2>5 DEF b
  <1>5. /\ job' \in [Writers -> Job]
        /\ \A v \in Writers : job'[v] = job[v] \/ job'[v].phase # "commit"
    <2>1. Resting \in Job /\ Resting.phase = "idle" BY Constants DEF Resting
    <2>2. QED BY <1>1, <1>2, <2>1
  <1>6. TypeOK'
    <2>1. hist' = [t \in Sessions |-> hist'[t]] BY DEF CommitWipe
    <2>2. hist' \in [Sessions -> History] BY <1>4, <2>1
    <2>3. db' \in [Sessions -> {"absent", "live", "gone"}] BY <1>1, <1>2
    <2>4. QED BY <1>2, <1>5, <2>2, <2>3 DEF Inv, TypeOK
  <1>7. \A t \in Sessions : job[w].put /\ t \in job[w].targets /\ ~hist[t].struck =>
          cache[t].kind = "tombstone" /\ cache[t].ttl > FetchMax
    <2>1. TAKE t \in Sessions
    <2>2. HAVE job[w].put /\ t \in job[w].targets /\ ~hist[t].struck
    <2>3. cache[t].kind = "tombstone" /\ cache[t].ttl > TombTTL - job[w].age - 1
      BY <1>2, <2>2 DEF Inv, WriterInv, Covered
    <2>4. cache[t].ttl \in Nat /\ job[w].age \in Nat /\ job[w].age <= CommitMax
      BY Fields DEF Inv
    <2>5. QED BY <2>3, <2>4, Numbers
  <1>8. ReaderInv'
    <2>1. SUFFICES ASSUME NEW q \in Readers PROVE ReaderInv!(q)' BY DEF ReaderInv
    <2>2. CASE op[q].phase # "fetched" BY <1>2, <2>2 DEF Inv, ReaderInv
    <2>3. CASE op[q].phase = "fetched"
      <3> DEFINE s == op[q].session
      <3>1. s \in Sessions /\ op[q].age \in Nat BY <2>3, Fields DEF Inv, ReaderInv
      <3>2. db[s] # "gone" => hist[s].gone = 0 BY <3>1 DEF Inv, EntryInv
      <3>3. op[q].valid /\ db'[s] = "gone" => hist'[s].gone <= op[q].age
        BY <1>3, <1>4, <2>3, <3>1, <3>2 DEF Inv, ReaderInv
      <3>4. Outdated(q)' =>
              Outdated(q) \/ (job[w].put /\ s \in job[w].targets /\ ~hist[s].struck)
        <4>1. hist[s].announced => db[s] = "gone" BY <3>1 DEF Inv, EntryInv
        <4>2. QED BY <1>2, <1>4, <3>1, <4>1 DEF Outdated
      <3>5. job[w].put /\ s \in job[w].targets /\ ~hist[s].struck =>
              cache[s].kind = "tombstone" /\ cache[s].ttl > FetchMax - op[q].age
        <4>1. cache[s].ttl \in Nat BY <3>1, Fields DEF Inv
        <4>2. QED BY <1>7, <3>1, <4>1, Numbers
      <3>6. QED BY <1>2, <2>3, <3>1, <3>3, <3>4, <3>5 DEF Inv, ReaderInv, Covered
    <2>4. QED BY <2>2, <2>3
  <1>9. WriterInv' BY <1>2, <1>4, <1>5 DEF Inv, WriterInv, Covered
  <1>10. EntryInv'
    <2>1. SUFFICES ASSUME NEW t \in Sessions PROVE EntryInv!(t)' BY DEF EntryInv
    <2>2. cache[t].ttl \in Nat BY Fields DEF Inv
    <2>3. db[t] # "gone" /\ cache[t].kind = "positive" => hist[t].gone + cache[t].ttl <= Stale
      BY <2>2, Numbers DEF Inv, EntryInv
    <2>4. QED BY <1>2, <1>3, <1>4, <2>3 DEF Inv, EntryInv
  <1>11. RevokedNotServed'
    <2>1. \A t \in Sessions : hist[t].announced => db[t] = "gone" BY DEF Inv, EntryInv
    <2>2. QED BY <1>2, <1>4, <1>7, <2>1 DEF Inv, RevokedNotServed
  <1>12. PolicyInForce' BY <1>2, <1>4 DEF Inv, PolicyInForce
  <1>13. QED BY <1>6, <1>8, <1>9, <1>10, <1>11, <1>12 DEF Inv

\* A change of policy: what was read before it is outdated for no time yet.
LEMMA PolicyInv == ASSUME Inv, NEW w \in Writers, ChangePolicy(w) PROVE Inv'
  <1>1. job \in [Writers -> Job] /\ job[w] \in Job /\ info \in 0..MaxInfo /\ info \in Nat
    BY Numbers DEF Inv, TypeOK
  <1>2. info' = info + 1 /\ info' \in 0..MaxInfo /\ old' = 0 /\ UNCHANGED <<db, cache, op, hist>>
    BY <1>1, Numbers DEF ChangePolicy
  <1> DEFINE new == [job[w] EXCEPT !.phase = "policy"]
  <1>3. job' = [job EXCEPT ![w] = new] BY <1>1 DEF ChangePolicy
  <1>4. new \in Job /\ new.phase = "policy" BY <1>1 DEF Job
  <1> HIDE DEF new
  <1>5. /\ job' \in [Writers -> Job]
        /\ \A v \in Writers : job'[v] = job[v] \/ job'[v].phase # "commit"
    BY <1>1, <1>3, <1>4
  <1>6. TypeOK' BY <1>2, <1>5, Numbers DEF Inv, TypeOK
  <1>7. ReaderInv'
    <2>1. SUFFICES ASSUME NEW q \in Readers PROVE ReaderInv!(q)' BY DEF ReaderInv
    <2>2. op[q].age \in Nat BY Fields DEF Inv
    <2>3. old' <= op[q].age BY <1>2, <2>2
    <2>4. QED BY <1>2, <2>3 DEF Inv, ReaderInv, Outdated, Covered
  <1>8. WriterInv' BY <1>2, <1>5 DEF Inv, WriterInv, Covered
  <1>9. EntryInv'
    <2>1. SUFFICES ASSUME NEW t \in Sessions PROVE EntryInv!(t)' BY DEF EntryInv
    <2>2. cache[t].ttl \in Nat /\ hist[t].applied \in Nat BY Fields DEF Inv
    <2>3. cache[t].kind = "positive" => old' + cache[t].ttl <= Stale
      BY <1>2, <2>2, Numbers DEF Inv, EntryInv
    <2>4. hist[t].applied <= info' BY <1>1, <1>2, <2>2 DEF Inv, EntryInv
    <2>5. QED BY <1>2, <2>3, <2>4 DEF Inv, EntryInv
  <1>10. RevokedNotServed' /\ PolicyInForce'
    BY <1>2 DEF Inv, RevokedNotServed, PolicyInForce
  <1>11. QED BY <1>6, <1>7, <1>8, <1>9, <1>10 DEF Inv

\* A tick: tombstones lose as much time as the misses and commits they must outlast.
LEMMA TickInv == ASSUME Inv, Tick PROVE Inv'
  <1>1. /\ op \in [Readers -> Op] /\ job \in [Writers -> Job]
        /\ cache \in [Sessions -> Entry] /\ hist \in [Sessions -> History]
    BY DEF Inv, TypeOK
  <1>2. UNCHANGED <<db, info>> /\ old' = Older(old) BY DEF Tick
  <1>3. ASSUME NEW n \in 0..(Stale + 1)
        PROVE  Older(n) \in 0..(Stale + 1) /\ Older(n) <= n + 1
    BY Numbers DEF Older
  <1>4. old \in 0..(Stale + 1) /\ old' \in 0..(Stale + 1) /\ old' <= old + 1
    BY <1>2, <1>3 DEF Inv, TypeOK
  <1>5. \A t \in Sessions :
          /\ cache'[t] \in Entry
          /\ \/ cache[t].ttl <= 1 /\ cache'[t].kind = "none"
             \/ /\ cache[t].ttl > 1 /\ cache'[t].ttl = cache[t].ttl - 1
                /\ cache'[t].kind = cache[t].kind /\ cache'[t].info = cache[t].info
    <2>1. TAKE t \in Sessions
    <2>2. cache[t] \in Entry /\ cache[t].ttl \in Nat BY <1>1, Fields DEF Inv
    <2>3. CASE cache[t].ttl <= 1
      <3>1. cache'[t] = Nothing BY <2>3 DEF Tick
      <3>2. QED BY <2>3, <3>1, Constants DEF Nothing
    <2>4. CASE cache[t].ttl > 1
      <3>1. cache'[t] = [cache[t] EXCEPT !.ttl = cache[t].ttl - 1] BY <2>2, <2>4 DEF Tick
      <3>2. cache[t].ttl - 1 \in Nat BY <2>2, <2>4
      <3>3. QED BY <2>2, <2>4, <3>1, <3>2 DEF Entry
    <2>5. QED BY <2>2, <2>3, <2>4
  <1>6. \A q \in Readers :
          /\ op'[q] \in Op
          /\ op[q].phase # "fetched" => op'[q] = op[q]
          /\ op[q].phase = "fetched" =>
               /\ op[q].age < FetchMax /\ op'[q].age = op[q].age + 1
               /\ op'[q].phase = "fetched" /\ op'[q].session = op[q].session
               /\ op'[q].valid = op[q].valid /\ op'[q].info = op[q].info
    <2>1. TAKE q \in Readers
    <2>2. op[q] \in Op /\ op[q].age \in Nat BY <1>1, Fields DEF Inv
    <2>3. CASE op[q].phase # "fetched"
      <3>1. op'[q] = op[q] BY <2>3 DEF Tick
      <3>2. QED BY <2>2, <2>3, <3>1
    <2>4. CASE op[q].phase = "fetched"
      <3>1. op'[q] = [op[q] EXCEPT !.age = op[q].age + 1] /\ op[q].age < FetchMax
        BY <2>4 DEF Tick
      <3>2. op[q].age + 1 \in 0..FetchMax BY <2>2, <3>1, Numbers
      <3>3. QED BY <2>2, <2>4, <3>1, <3>2 DEF Op
    <2>5. QED BY <2>3, <2>4
  <1>7. \A v \in Writers :
          /\ job'[v] \in Job
          /\ job[v].phase # "commit" => job'[v] = job[v]
          /\ job[v].phase = "commit" =>
               /\ job[v].age < CommitMax /\ job'[v].age = job[v].age + 1
               /\ job'[v].put = job[v].put /\ job'[v].targets = job[v].targets
    <2>1. TAKE v \in Writers
    <2>2. job[v] \in Job /\ job[v].age \in Nat BY <1>1, Fields DEF Inv
    <2>3. CASE job[v].phase # "commit"
      <3>1. job'[v] = job[v] BY <2>3 DEF Tick
      <3>2. QED BY <2>2, <2>3, <3>1
    <2>4. CASE job[v].phase = "commit"
      <3>1. job'[v] = [job[v] EXCEPT !.age = job[v].age + 1] /\ job[v].age < CommitMax
        BY <2>4 DEF Tick
      <3>2. job[v].age + 1 \in 0..CommitMax BY <2>2, <3>1, Numbers
      <3>3. QED BY <2>2, <2>4, <3>1, <3>2 DEF Job
    <2>5. QED BY <2>3, <2>4
  <1>8. \A t \in Sessions :
          /\ hist'[t] \in History /\ hist'[t].announced = hist[t].announced
          /\ hist'[t].applied = hist[t].applied /\ hist'[t].struck = hist[t].struck
          /\ hist'[t].gone <= hist[t].gone + 1
          /\ db[t] # "gone" => hist'[t].gone = hist[t].gone
    <2>1. TAKE t \in Sessions
    <2>2. hist[t] \in History /\ hist[t].gone \in Nat /\ hist[t].gone \in 0..(Stale + 1)
      BY <1>1, Fields DEF Inv, History
    <2>3. CASE db[t] # "gone"
      <3>1. hist'[t] = hist[t] BY <2>3 DEF Tick
      <3>2. QED BY <2>2, <3>1
    <2>4. CASE db[t] = "gone"
      <3>1. hist'[t] = [hist[t] EXCEPT !.gone = Older(hist[t].gone)] BY <2>4 DEF Tick
      <3>2. Older(hist[t].gone) \in 0..(Stale + 1) /\ Older(hist[t].gone) <= hist[t].gone + 1
        BY <1>3, <2>2
      <3>3. QED BY <2>2, <2>4, <3>1, <3>2 DEF History
    <2>5. QED BY <2>3, <2>4
  <1>9. TypeOK'
    <2>1. /\ cache' = [t \in Sessions |-> cache'[t]] /\ hist' = [t \in Sessions |-> hist'[t]]
          /\ op' = [q \in Readers |-> op'[q]] /\ job' = [v \in Writers |-> job'[v]]
      BY DEF Tick
    <2>2. /\ cache' \in [Sessions -> Entry] /\ hist' \in [Sessions -> History]
          /\ op' \in [Readers -> Op] /\ job' \in [Writers -> Job]
      BY <1>5, <1>6, <1>7, <1>8, <2>1
    <2>3. QED BY <1>2, <1>4, <2>2 DEF Inv, TypeOK
  <1>10. ReaderInv'
    <2>1. SUFFICES ASSUME NEW q \in Readers PROVE ReaderInv!(q)' BY DEF ReaderInv
    <2>2. CASE op[q].phase # "fetched" BY <1>6, <2>2 DEF Inv, ReaderInv
    <2>3. CASE op[q].phase = "fetched"
      <3> DEFINE s == op[q].session
      <3>1. s \in Sessions BY <2>3 DEF Inv, ReaderInv
      <3>2. /\ op[q].age < FetchMax /\ op'[q].age = op[q].age + 1 /\ op[q].age \in Nat
            /\ op'[q].session = s /\ op'[q].phase = "fetched"
            /\ cache[s].ttl \in Nat /\ hist[s].gone \in Nat /\ hist'[s].gone \in Nat
            /\ old \in Nat /\ old' \in Nat
        <4>1. op[q].age \in Nat /\ cache[s].ttl \in Nat /\ hist[s].gone \in Nat /\ old \in Nat
          BY <3>1, Fields DEF Inv
        <4>2. hist'[s].gone \in Nat BY <1>8, <3>1, Numbers DEF History
        <4>3. QED BY <1>4, <1>6, <2>3, <4>1, <4>2, Numbers
      <3>3. Outdated(q)' => Outdated(q) BY <1>2, <1>6, <1>8, <2>3, <3>1 DEF Outdated
      <3>4. Outdated(q)' =>
              cache'[s].kind = "tombstone" /\ cache'[s].ttl > FetchMax - (op[q].age + 1)
        <4>1. HAVE Outdated(q)'
        <4>2. cache[s].kind = "tombstone" /\ cache[s].ttl > FetchMax - op[q].age
          BY <2>3, <3>3, <4>1 DEF Inv, ReaderInv, Covered
        <4>3. cache[s].ttl > 1 BY <3>2, <4>2, Numbers
        <4>4. cache'[s].kind = "tombstone" /\ cache'[s].ttl = cache[s].ttl - 1
          BY <1>5, <3>1, <3>2, <4>2, <4>3
        <4>5. QED BY <3>2, <4>2, <4>4, Numbers
      <3>5. op[q].valid /\ db[s] = "gone" => hist'[s].gone <= op[q].age + 1
        <4>1. HAVE op[q].valid /\ db[s] = "gone"
        <4>2. hist[s].gone <= op[q].age BY <2>3, <4>1 DEF Inv, ReaderInv
        <4>3. hist'[s].gone <= hist[s].gone + 1 BY <1>8, <3>1
        <4>4. QED BY <3>2, <4>2, <4>3
      <3>6. op[q].info < info => old' <= op[q].age + 1
        <4>1. HAVE op[q].info < info
        <4>2. old <= op[q].age BY <2>3, <4>1 DEF Inv, ReaderInv
        <4>3. QED BY <1>4, <3>2, <4>2
      <3>7. QED BY <1>2, <1>6, <2>3, <3>1, <3>2, <3>4, <3>5, <3>6 DEF Covered
    <2>4. QED BY <2>2, <2>3
  <1>11. WriterInv'
    <2>1. SUFFICES ASSUME NEW v \in Writers, NEW t \in Sessions,
                          job'[v].phase = "commit", job'[v].put,
                          t \in job'[v].targets, ~hist'[t].struck
                   PROVE  Covered(t, TombTTL - job[v].age - 1)'
      BY DEF WriterInv
    <2>2. /\ job[v].phase = "commit" /\ job[v].put /\ t \in job[v].targets
          /\ job[v].age < CommitMax /\ job'[v].age = job[v].age + 1
      BY <1>7, <2>1
    <2>3. cache[t].kind = "tombstone" /\ cache[t].ttl > TombTTL - job[v].age - 1
      BY <1>8, <2>1, <2>2 DEF Inv, WriterInv, Covered
    <2>4. cache[t].ttl \in Nat /\ job[v].age \in Nat BY Fields DEF Inv
    <2>5. cache[t].ttl > 1 BY <2>2, <2>3, <2>4, Numbers
    <2>6. cache'[t].kind = "tombstone" /\ cache'[t].ttl = cache[t].ttl - 1
      BY <1>5, <2>3, <2>4, <2>5
    <2>7. cache'[t].ttl > TombTTL - job'[v].age - 1 BY <2>2, <2>3, <2>4, <2>6, Numbers
    <2>8. QED BY <2>6, <2>7 DEF Covered
  <1>12. EntryInv'
    <2>1. SUFFICES ASSUME NEW t \in Sessions PROVE EntryInv!(t)' BY DEF EntryInv
    <2>2. /\ cache[t].ttl \in Nat /\ hist[t].gone \in Nat /\ hist'[t].gone \in Nat
          /\ old \in Nat /\ old' \in Nat
      <3>1. hist'[t].gone \in Nat BY <1>8, Numbers DEF History
      <3>2. old' \in Nat BY <1>4, Numbers
      <3>3. QED BY <3>1, <3>2, Fields DEF Inv
    <2>3. cache'[t].kind = "positive" =>
            /\ cache'[t].ttl <= CacheTTL
            /\ db[t] = "gone" => hist'[t].gone + cache'[t].ttl <= Stale
            /\ cache'[t].info < info => old' + cache'[t].ttl <= Stale
      <3>1. HAVE cache'[t].kind = "positive"
      <3>2. /\ cache[t].kind = "positive" /\ cache'[t].ttl = cache[t].ttl - 1
            /\ cache'[t].info = cache[t].info
        BY <1>5, <3>1
      <3>3. /\ cache[t].ttl <= CacheTTL
            /\ db[t] = "gone" => hist[t].gone + cache[t].ttl <= Stale
            /\ cache[t].info < info => old + cache[t].ttl <= Stale
        BY <3>2 DEF Inv, EntryInv
      <3>4. cache'[t].ttl <= CacheTTL BY <2>2, <3>2, <3>3, Numbers
      <3>5. hist'[t].gone <= hist[t].gone + 1 BY <1>8
      <3>6. db[t] = "gone" => hist'[t].gone + cache'[t].ttl <= Stale
        BY <2>2, <3>2, <3>3, <3>5, Numbers
      <3>7. cache'[t].info < info => old' + cache'[t].ttl <= Stale
        BY <1>4, <2>2, <3>2, <3>3, Numbers
      <3>8. QED BY <3>4, <3>6, <3>7
    <2>4. QED BY <1>2, <1>8, <2>3 DEF Inv, EntryInv
  <1>13. RevokedNotServed'
    <2>1. SUFFICES ASSUME NEW t \in Sessions PROVE RevokedNotServed!(t)' BY DEF RevokedNotServed
    <2>2. QED BY <1>2, <1>5, <1>8 DEF Inv, RevokedNotServed
  <1>14. PolicyInForce'
    <2>1. SUFFICES ASSUME NEW t \in Sessions PROVE PolicyInForce!(t)' BY DEF PolicyInForce
    <2>2. QED BY <1>5, <1>8 DEF Inv, PolicyInForce
  <1>15. QED BY <1>9, <1>10, <1>11, <1>12, <1>13, <1>14 DEF Inv

-----------------------------------------------------------------------------
\* The inductive step.
LEMMA NextInv == Inv /\ [Next]_vars => Inv'
  <1>1. SUFFICES ASSUME Inv, [Next]_vars PROVE Inv' OBVIOUS
  <1>2. CASE UNCHANGED vars
    <2>1. op \in [Readers -> Op] /\ job \in [Writers -> Job] BY <1>1 DEF Inv, TypeOK
    <2>2. op' = op /\ job' = job /\ UNCHANGED <<db, info, cache, hist, old>> BY <1>2 DEF vars
    <2>3. QED BY <1>1, <2>1, <2>2, QuietInv
  <1>3. CASE QuietStep BY <1>1, <1>3, QuietStepInv
  <1>4. CASE \E r \in Readers : EvictPoison(r) \/ FetchSession(r)
    BY <1>1, <1>4, EvictInv, FetchInv
  <1>5. CASE \E r \in Readers : \E left \in {0, 1, MaxLeft} : SetCachedSession(r, left)
    BY <1>1, <1>5, SetInv, Numbers
  <1>6. CASE \E s \in Sessions : SignIn(s) BY <1>1, <1>6, SignInInv
  <1>7. CASE \E w \in Writers : \E extra \in SUBSET Sessions : DeleteSessions(w, extra)
    BY <1>1, <1>7, DeleteInv
  <1>8. CASE \E w \in Writers : BuryStep(w) BY <1>1, <1>8, BuryStepInv
  <1>9. CASE \E w \in Writers : CommitWipe(w) \/ ChangePolicy(w)
    BY <1>1, <1>9, CommitInv, PolicyInv
  <1>10. CASE Tick BY <1>1, <1>10, TickInv
  <1>11. Next => \/ QuietStep \/ Tick
                 \/ \E r \in Readers : EvictPoison(r) \/ FetchSession(r)
                 \/ \E r \in Readers : \E left \in {0, 1, MaxLeft} : SetCachedSession(r, left)
                 \/ \E s \in Sessions : SignIn(s)
                 \/ \E w \in Writers : \E extra \in SUBSET Sessions : DeleteSessions(w, extra)
                 \/ \E w \in Writers : BuryStep(w)
                 \/ \E w \in Writers : CommitWipe(w) \/ ChangePolicy(w)
    BY DEF Next, QuietStep, BuryStep
  <1>12. QED BY <1>1, <1>2, <1>3, <1>4, <1>5, <1>6, <1>7, <1>8, <1>9, <1>10, <1>11

\* The inductive invariant holds throughout.
LEMMA Invariance == Spec => []Inv
  BY InitInv, NextInv, PTL DEF Spec

\* The state is well typed: the clock never passes the bound of a miss or a commit.
THEOREM TypeCorrect == Spec => []TypeOK
  <1>1. Inv => TypeOK BY DEF Inv
  <1>2. QED BY <1>1, Invariance, PTL

\* An announced revocation is in force at once, for every TTL for which the
\* tombstone outlasts a miss and a commit.
THEOREM RevocationHolds == Spec => []RevokedNotServed
  <1>1. Inv => RevokedNotServed BY DEF Inv
  <1>2. QED BY <1>1, Invariance, PTL

\* So is an announced change of policy.
THEOREM PolicyHolds == Spec => []PolicyInForce
  <1>1. Inv => PolicyInForce BY DEF Inv
  <1>2. QED BY <1>1, Invariance, PTL

\* Without any tombstone, staleness ends after SESSION_CACHE_TTL_MS and a miss.
THEOREM StalenessEnds == Spec => []StaleIsBounded
  <1>1. Inv => StaleIsBounded
    <2>1. SUFFICES ASSUME Inv, NEW s \in Sessions, cache[s].kind = "positive"
                   PROVE  /\ db[s] = "gone" => hist[s].gone <= Stale
                          /\ cache[s].info < info => old <= Stale
      BY DEF StaleIsBounded
    <2>2. cache[s].ttl \in Nat /\ hist[s].gone \in Nat /\ old \in Nat
      BY <2>1, Fields DEF Inv
    <2>3. /\ db[s] = "gone" => hist[s].gone + cache[s].ttl <= Stale
          /\ cache[s].info < info => old + cache[s].ttl <= Stale
      BY <2>1 DEF Inv, EntryInv
    <2>4. QED BY <2>2, <2>3, Numbers
  <1>2. QED BY <1>1, Invariance, PTL
=============================================================================
