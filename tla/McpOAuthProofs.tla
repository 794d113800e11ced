--------------------------- MODULE McpOAuthProofs ---------------------------
(* What the MCP OAuth server guarantees for any number of codes, token pairs   *)
(* and requests served at the same time.                                       *)
EXTENDS McpOAuth, TLAPS

Has(p) == p \in Pairs /\ refresh[p] # "none"

\* Rows: a pair that does not exist has nothing; a family is named by a member; a
\* rotated token has its successor in the same family.
RowInv ==
  \A p \in Pairs :
    /\ access[p] = "none" => refresh[p] = "none" /\ origin[p] = NoCode
    /\ refresh[p] = "none" => p \notin rotated
    /\ origin[p] # NoCode => origin[p] \in used
    /\ refresh[p] # "none" => family[p] \in Pairs /\ family[family[p]] = family[p]
    /\ p \in rotated => Has(succ[p]) /\ family[succ[p]] = family[p]
    /\ p \notin rotated => succ[p] = NoPair

\* What a request has read still fits the rows.
Fits(q) ==
  /\ q.phase = "redeem" => q.code \in Codes
  /\ q.phase = "pairup" =>
       q.pair \in Pairs /\ access[q.pair] # "none" /\ refresh[q.pair] = "none"
  /\ q.phase \in {"claim", "mint", "reused", "familyIds", "familyRows"} => Has(q.pair)
  /\ q.phase = "mint" => q.pair \notin rotated
  /\ q.phase \in {"reused", "familyIds", "familyRows"} => q.pair \in rotated
  /\ q.phase \in {"familyIds", "familyRows"} =>
       /\ succ[q.pair] \in q.ids
       /\ \A i \in q.ids : Has(i) /\ family[i] \in q.fams
  /\ q.phase = "familyRows" => \A i \in q.ids : i \in q.rows \/ refresh[i] = "revoked"
  /\ q.phase \in {"tokenRows", "userRows"} => \A i \in q.rows : family[i] \in q.fams
  /\ q.phase \in {"familyRows", "tokenRows", "userRows", "sessionRows"} =>
       \A i \in q.rows : Has(i)

ReqInv == \A r \in Requests : Fits(req[r])

\* Two requests neither complete nor rotate the same pair.
Distinct ==
  \A r, s \in Requests :
    r # s /\ req[r].phase = req[s].phase /\ req[r].phase \in {"pairup", "mint"} =>
      req[r].pair # req[s].pair

Inv ==
  /\ TypeOK /\ RowInv /\ ReqInv /\ Distinct
  /\ OneFamilyPerCode /\ OneHead /\ LoserKillsWinner /\ RevocationSticks

-----------------------------------------------------------------------------
\* The initial state satisfies the inductive invariant.
LEMMA InitInv == Init => Inv
  <1> SUFFICES ASSUME Init PROVE Inv OBVIOUS
  <1>1. Idle \in Request BY DEF Idle, Request, Phases
  <1>2. TypeOK BY <1>1, PairsAssumption DEF Init, TypeOK
  <1>3. ReqInv /\ Distinct BY DEF Init, ReqInv, Fits, Distinct, Idle
  <1>4. RowInv BY DEF Init, RowInv
  <1>5. OneFamilyPerCode /\ OneHead /\ LoserKillsWinner /\ RevocationSticks
    BY DEF Init, OneFamilyPerCode, OneHead, LoserKillsWinner, RevocationSticks
  <1>6. QED BY <1>2, <1>3, <1>4, <1>5 DEF Inv

\* Requests that do not move keep what they have read, as long as tokens do not
\* vanish, revocations stay, families are permanent, and nobody completes or
\* rotates the pair they are working on.
LEMMA KeepReq ==
  ASSUME Inv, NEW r \in Requests, req'[r] = req[r],
         \A p \in Pairs : refresh[p] # "none" => refresh'[p] # "none" /\ family'[p] = family[p],
         \A p \in Pairs : refresh[p] = "revoked" => refresh'[p] = "revoked",
         \A p \in Pairs : access[p] # "none" => access'[p] # "none",
         \A p \in rotated : p \in rotated' /\ succ'[p] = succ[p],
         req[r].phase = "pairup" => refresh'[req[r].pair] = "none",
         req[r].phase = "mint" => req[r].pair \notin rotated'
  PROVE  Fits(req[r])'
  <1>1. Fits(req[r]) BY DEF Inv, ReqInv
  <1>2. \A i : Has(i) => Has(i)' BY DEF Has
  <1>3. QED BY <1>1, <1>2 DEF Has, Fits

\* A step that moves one request and changes no token.
LEMMA ReadInv ==
  ASSUME Inv, UNCHANGED <<tokenVars, swept, punished>>, NEW r \in Requests,
         NEW new \in Request, req' = [req EXCEPT ![r] = new],
         Fits(new), new.phase # "pairup",
         new.phase = "mint" => RefreshUnlocked(r, {new.pair})
  PROVE  Inv'
  <1>1. /\ UNCHANGED <<used, origin, access, refresh, rotated, family, succ>>
        /\ swept' = swept /\ punished' = punished
    BY DEF tokenVars
  <1>a. req \in [Requests -> Request] BY DEF Inv, TypeOK
  <1>b. req'[r] = new /\ \A s \in Requests \ {r} : req'[s] = req[s] BY <1>a
  <1>2. TypeOK' BY <1>1, <1>a DEF Inv, TypeOK
  <1>3. RowInv' BY <1>1 DEF Inv, RowInv, Has
  <1>4. ReqInv'
    <2>1. SUFFICES ASSUME NEW s \in Requests PROVE Fits(req[s])' BY DEF ReqInv
    <2>2. Fits(req'[s])
      <3>1. CASE s = r BY <1>b, <3>1
      <3>2. CASE s # r BY <1>b, <3>2 DEF Inv, ReqInv
      <3>3. QED BY <3>1, <3>2
    <2>3. QED BY <1>1, <2>2 DEF Fits, Has
  <1>5. Distinct' BY <1>b DEF Inv, Distinct, RefreshUnlocked
  <1>6. OneFamilyPerCode' /\ OneHead' /\ LoserKillsWinner' /\ RevocationSticks'
    BY <1>1 DEF Inv, OneFamilyPerCode, OneHead, LoserKillsWinner, RevocationSticks
  <1>7. QED BY <1>2, <1>3, <1>4, <1>5, <1>6 DEF Inv

\* Steps that only read, wait or give up.
LEMMA LookupInv ==
  ASSUME Inv, NEW r \in Requests,
         \/ \E c \in Codes : ReadCode(r, c)
         \/ RedeemLost(r) \/ ClaimRotation(r) \/ LoseRace(r)
         \/ ReadFamily(r) \/ SnapshotFamily(r) \/ SnapshotFamilies(r)
         \/ StartUserRevocation(r) \/ StartInvalidation(r) \/ SnapshotAll(r) \/ Abandon(r)
         \/ \E p \in Pairs :
              ReadRefreshToken(r, p) \/ DetectReplay(r, p) \/ SnapshotToken(r, p)
         \/ \E ids \in SUBSET Pairs : ReadUserTokens(r, ids)
  PROVE  Inv'
  <1>t. req \in [Requests -> Request] /\ req[r] \in Request /\ family \in [Pairs -> Pairs \cup {NoPair}]
    BY DEF Inv, TypeOK
  <1>f. Fits(req[r]) BY DEF Inv, ReqInv
  <1>1. ASSUME NEW c \in Codes, ReadCode(r, c) PROVE Inv'
    <2> DEFINE new == [req[r] EXCEPT !.phase = "redeem", !.code = c]
    <2>1. req' = [req EXCEPT ![r] = new]
      BY <1>1, <1>t DEF ReadCode
    <2>2. new \in Request
      BY <1>t DEF Request, Phases, Idle, Members, Unrevoked
    <2>3. /\ new.phase = "redeem" /\ new.code = c
      BY <1>t DEF Request, Idle
    <2> HIDE DEF new
    <2>4. Fits(new) BY <1>1, <1>f, <1>t, <2>3 DEF Fits, ReadCode
    <2>5. QED BY <1>1, <2>1, <2>2, <2>3, <2>4, ReadInv DEF ReadCode
  <1>2. ASSUME RedeemLost(r) PROVE Inv'
    <2> DEFINE new == Idle
    <2>1. req' = [req EXCEPT ![r] = new]
      BY <1>2, <1>t DEF RedeemLost, Done, Idle
    <2>2. new \in Request
      BY <1>t DEF Request, Phases, Idle, Members, Unrevoked
    <2>3. /\ new.phase = "idle"
      BY <1>t DEF Request, Idle
    <2> HIDE DEF new
    <2>4. Fits(new) BY <1>2, <1>f, <1>t, <2>3 DEF Fits, RedeemLost
    <2>5. QED BY <1>2, <2>1, <2>2, <2>3, <2>4, ReadInv DEF RedeemLost
  <1>3. ASSUME NEW p \in Pairs, ReadRefreshToken(r, p) PROVE Inv'
    <2> DEFINE new == [req[r] EXCEPT !.phase = "claim", !.pair = p]
    <2>1. req' = [req EXCEPT ![r] = new]
      BY <1>3, <1>t DEF ReadRefreshToken
    <2>2. new \in Request
      BY <1>t DEF Request, Phases, Idle, Members, Unrevoked
    <2>3. /\ new.phase = "claim" /\ new.pair = p
      BY <1>t DEF Request, Idle
    <2> HIDE DEF new
    <2>4. Fits(new) BY <1>3, <1>f, <1>t, <2>3 DEF Fits, Has, ReadRefreshToken
    <2>5. QED BY <1>3, <2>1, <2>2, <2>3, <2>4, ReadInv DEF ReadRefreshToken
  <1>4. ASSUME NEW p \in Pairs, DetectReplay(r, p) PROVE Inv'
    <2> DEFINE new == [req[r] EXCEPT !.phase = "reused", !.pair = p]
    <2>1. req' = [req EXCEPT ![r] = new]
      BY <1>4, <1>t DEF DetectReplay
    <2>2. new \in Request
      BY <1>t DEF Request, Phases, Idle, Members, Unrevoked
    <2>3. /\ new.phase = "reused" /\ new.pair = p
      BY <1>t DEF Request, Idle
    <2> HIDE DEF new
    <2>4. Fits(new) BY <1>4, <1>f, <1>t, <2>3 DEF Fits, Has, DetectReplay, RowInv, Inv
    <2>5. QED BY <1>4, <2>1, <2>2, <2>3, <2>4, ReadInv DEF DetectReplay
  <1>5. ASSUME ClaimRotation(r) PROVE Inv'
    <2> DEFINE new == [req[r] EXCEPT !.phase = "mint"]
    <2>1. req' = [req EXCEPT ![r] = new]
      BY <1>5, <1>t DEF ClaimRotation, Goto
    <2>2. new \in Request
      BY <1>t DEF Request, Phases, Idle, Members, Unrevoked
    <2>3. /\ new.phase = "mint" /\ new.pair = req[r].pair
      BY <1>t DEF Request, Idle
    <2> HIDE DEF new
    <2>4. Fits(new) BY <1>5, <1>f, <1>t, <2>3 DEF Fits, ClaimRotation
    <2>5. QED BY <1>5, <2>1, <2>2, <2>3, <2>4, ReadInv DEF ClaimRotation
  <1>6. ASSUME LoseRace(r) PROVE Inv'
    <2> DEFINE new == [req[r] EXCEPT !.phase = "reused"]
    <2>1. req' = [req EXCEPT ![r] = new]
      BY <1>6, <1>t DEF LoseRace, Goto
    <2>2. new \in Request
      BY <1>t DEF Request, Phases, Idle, Members, Unrevoked
    <2>3. /\ new.phase = "reused" /\ new.pair = req[r].pair
      BY <1>t DEF Request, Idle
    <2> HIDE DEF new
    <2>4. Fits(new) BY <1>6, <1>f, <1>t, <2>3 DEF Fits, LoseRace
    <2>5. QED BY <1>6, <2>1, <2>2, <2>3, <2>4, ReadInv DEF LoseRace
  <1>7. ASSUME ReadFamily(r) PROVE Inv'
    <2> DEFINE new == [req[r] EXCEPT !.phase = "familyIds", !.fams = {family[req[r].pair]},
                              !.ids = Members({family[req[r].pair]}) \cup {req[r].pair}]
    <2>0. req[r].pair \in Pairs /\ Has(req[r].pair) /\ req[r].pair \in rotated /\ family[req[r].pair] \in Pairs
      BY <1>7, <1>f DEF ReadFamily, Fits, Has, Inv, RowInv
    <2>1. req' = [req EXCEPT ![r] = new]
      BY <1>7, <1>t DEF ReadFamily
    <2>2. new \in Request
      BY <2>0, <1>t DEF Request, Phases, Idle, Members, Unrevoked
    <2>3. /\ new.phase = "familyIds" /\ new.pair = req[r].pair
        /\ new.fams = {family[req[r].pair]}
        /\ new.ids = Members({family[req[r].pair]}) \cup {req[r].pair}
      BY <1>t DEF Request, Idle
    <2> HIDE DEF new
    <2>4. Fits(new) BY <2>0, <1>7, <1>f, <1>t, <2>3 DEF Fits, Has, ReadFamily, RowInv, Inv, Members, TypeOK
    <2>5. QED BY <1>7, <2>1, <2>2, <2>3, <2>4, ReadInv DEF ReadFamily
  <1>8. ASSUME SnapshotFamily(r) PROVE Inv'
    <2> DEFINE new == [req[r] EXCEPT !.phase = "familyRows", !.rows = Unrevoked(Members(req[r].fams))]
    <2>1. req' = [req EXCEPT ![r] = new]
      BY <1>8, <1>t DEF SnapshotFamily
    <2>2. new \in Request
      BY <1>t DEF Request, Phases, Idle, Members, Unrevoked
    <2>3. /\ new.phase = "familyRows" /\ new.pair = req[r].pair
        /\ new.fams = req[r].fams /\ new.ids = req[r].ids
        /\ new.rows = Unrevoked(Members(req[r].fams))
      BY <1>t DEF Request, Idle
    <2> HIDE DEF new
    <2>4. Fits(new) BY <1>8, <1>f, <1>t, <2>3 DEF Fits, Has, SnapshotFamily, Members, Unrevoked, Inv, TypeOK
    <2>5. QED BY <1>8, <2>1, <2>2, <2>3, <2>4, ReadInv DEF SnapshotFamily
  <1>9. ASSUME NEW p \in Pairs, SnapshotToken(r, p) PROVE Inv'
    <2> DEFINE new == [req[r] EXCEPT !.phase = "tokenRows", !.pair = p, !.fams = {family[p]},
                              !.rows = Unrevoked(Members({family[p]}))]
    <2>0. family[p] \in Pairs BY <1>9, PairsAssumption DEF SnapshotToken, Inv, TypeOK
    <2>1. req' = [req EXCEPT ![r] = new]
      BY <1>9, <1>t DEF SnapshotToken
    <2>2. new \in Request
      BY <2>0, <1>t DEF Request, Phases, Idle, Members, Unrevoked
    <2>3. /\ new.phase = "tokenRows" /\ new.fams = {family[p]}
        /\ new.rows = Unrevoked(Members({family[p]}))
      BY <1>t DEF Request, Idle
    <2> HIDE DEF new
    <2>4. Fits(new) BY <2>0, <1>9, <1>f, <1>t, <2>3 DEF Fits, Has, Members, Unrevoked, SnapshotToken
    <2>5. QED BY <1>9, <2>1, <2>2, <2>3, <2>4, ReadInv DEF SnapshotToken
  <1>10. ASSUME NEW ids \in SUBSET Pairs, ReadUserTokens(r, ids) PROVE Inv'
    <2> DEFINE new == [req[r] EXCEPT !.phase = "userRead", !.ids = ids]
    <2>1. req' = [req EXCEPT ![r] = new]
      BY <1>10, <1>t DEF ReadUserTokens
    <2>2. new \in Request
      BY <1>t DEF Request, Phases, Idle, Members, Unrevoked
    <2>3. /\ new.phase = "userRead"
      BY <1>t DEF Request, Idle
    <2> HIDE DEF new
    <2>4. Fits(new) BY <1>10, <1>f, <1>t, <2>3 DEF Fits, ReadUserTokens
    <2>5. QED BY <1>10, <2>1, <2>2, <2>3, <2>4, ReadInv DEF ReadUserTokens
  <1>10a. ASSUME StartUserRevocation(r) PROVE Inv'
    <2> DEFINE new == [req[r] EXCEPT !.phase = "userIds"]
    <2>1. req' = [req EXCEPT ![r] = new]
      BY <1>10a, <1>t DEF StartUserRevocation
    <2>2. new \in Request
      BY <1>t DEF Request, Phases
    <2>3. /\ new.phase = "userIds"
      BY <1>t DEF Request
    <2> HIDE DEF new
    <2>4. Fits(new) BY <1>10a, <1>f, <1>t, <2>3 DEF Fits, StartUserRevocation
    <2>5. QED BY <1>10a, <2>1, <2>2, <2>3, <2>4, ReadInv DEF StartUserRevocation
  <1>11. ASSUME SnapshotFamilies(r) PROVE Inv'
    <2> DEFINE new == [req[r] EXCEPT !.phase = "userRows", !.fams = {family[p] : p \in req[r].ids} \ {NoPair},
                              !.rows = Unrevoked(Members({family[p] : p \in req[r].ids} \ {NoPair}))]
    <2>0. {family[p] : p \in req[r].ids} \ {NoPair} \in SUBSET Pairs BY <1>t DEF Request
    <2>1. req' = [req EXCEPT ![r] = new]
      BY <1>11, <1>t DEF SnapshotFamilies
    <2>2. new \in Request
      BY <2>0, <1>t DEF Request, Phases, Idle, Members, Unrevoked
    <2>3. /\ new.phase = "userRows" /\ new.fams = {family[p] : p \in req[r].ids} \ {NoPair}
        /\ new.rows = Unrevoked(Members({family[p] : p \in req[r].ids} \ {NoPair}))
      BY <1>t DEF Request, Idle
    <2> HIDE DEF new
    <2>4. Fits(new) BY <2>0, <1>11, <1>f, <1>t, <2>3 DEF Fits, Has, Members, Unrevoked, SnapshotFamilies
    <2>5. QED BY <1>11, <2>1, <2>2, <2>3, <2>4, ReadInv DEF SnapshotFamilies
  <1>12. ASSUME StartInvalidation(r) PROVE Inv'
    <2> DEFINE new == [req[r] EXCEPT !.phase = "sessionIds", !.ids = {p \in Pairs : access[p] \in {"live", "expired"}}]
    <2>1. req' = [req EXCEPT ![r] = new]
      BY <1>12, <1>t DEF StartInvalidation
    <2>2. new \in Request
      BY <1>t DEF Request, Phases, Idle, Members, Unrevoked
    <2>3. /\ new.phase = "sessionIds"
      BY <1>t DEF Request, Idle
    <2> HIDE DEF new
    <2>4. Fits(new) BY <1>12, <1>f, <1>t, <2>3 DEF Fits, StartInvalidation
    <2>5. QED BY <1>12, <2>1, <2>2, <2>3, <2>4, ReadInv DEF StartInvalidation
  <1>13. ASSUME SnapshotAll(r) PROVE Inv'
    <2> DEFINE new == [req[r] EXCEPT !.phase = "sessionRows", !.rows = Unrevoked(Pairs)]
    <2>1. req' = [req EXCEPT ![r] = new]
      BY <1>13, <1>t DEF SnapshotAll
    <2>2. new \in Request
      BY <1>t DEF Request, Phases, Idle, Members, Unrevoked
    <2>3. /\ new.phase = "sessionRows" /\ new.rows = Unrevoked(Pairs)
      BY <1>t DEF Request, Idle
    <2> HIDE DEF new
    <2>4. Fits(new) BY <1>13, <1>f, <1>t, <2>3 DEF Fits, Has, Unrevoked, SnapshotAll
    <2>5. QED BY <1>13, <2>1, <2>2, <2>3, <2>4, ReadInv DEF SnapshotAll
  <1>14. ASSUME Abandon(r) PROVE Inv'
    <2> DEFINE new == Idle
    <2>1. req' = [req EXCEPT ![r] = new]
      BY <1>14, <1>t DEF Abandon, Done, Idle
    <2>2. new \in Request
      BY <1>t DEF Request, Phases, Idle, Members, Unrevoked
    <2>3. /\ new.phase = "idle"
      BY <1>t DEF Request, Idle
    <2> HIDE DEF new
    <2>4. Fits(new) BY <1>14, <1>f, <1>t, <2>3 DEF Fits, Abandon
    <2>5. QED BY <1>14, <2>1, <2>2, <2>3, <2>4, ReadInv DEF Abandon
  <1> QED BY <1>1, <1>2, <1>3, <1>4, <1>5, <1>6, <1>7, <1>8, <1>9, <1>10, <1>10a, <1>11, <1>12, <1>13, <1>14

\* A step that revokes or expires tokens and may finish requests.
Strike ==
  /\ UNCHANGED <<used, origin, rotated, family, succ>>
  /\ refresh' \in [Pairs -> {"none", "live", "revoked"}]
  /\ access' \in [Pairs -> {"none", "live", "expired", "revoked"}]
  /\ req' \in [Requests -> Request]
  /\ \A r \in Requests : req'[r] = req[r] \/ req'[r] = Idle
  /\ \A p \in Pairs : refresh'[p] = refresh[p] \/ (refresh[p] # "none" /\ refresh'[p] = "revoked")
  /\ \A p \in Pairs : \/ access'[p] = access[p]
                      \/ access[p] = "live" /\ access'[p] = "expired"
                      \/ access[p] # "none" /\ access'[p] = "revoked"
  /\ swept' \subseteq Pairs /\ punished' \subseteq Pairs
  /\ \A p \in swept' : p \in swept \/ (refresh'[p] = "revoked" /\ access'[p] = "revoked")
  /\ \A p \in punished' :
       \/ p \in punished
       \/ /\ succ[p] \in Pairs
          /\ refresh'[succ[p]] = "revoked" /\ access'[succ[p]] = "revoked"

\* Such a step preserves the invariant.
LEMMA StrikeInv ==
  ASSUME Inv, Strike
  PROVE  Inv'
  <1>1. TypeOK' BY DEF Inv, TypeOK, Strike
  <1>2. RowInv' BY DEF Inv, RowInv, Has, Strike
  <1>3. ReqInv'
    <2>1. SUFFICES ASSUME NEW r \in Requests PROVE Fits(req[r])' BY DEF ReqInv
    <2>2. CASE req'[r] = req[r]
      <3>0. /\ \A p \in Pairs : refresh[p] # "none" => refresh'[p] # "none" /\ family'[p] = family[p]
            /\ \A p \in Pairs : refresh[p] = "revoked" => refresh'[p] = "revoked"
            /\ \A p \in Pairs : access[p] # "none" => access'[p] # "none"
        BY DEF Strike
      <3>1. Fits(req[r]) BY DEF Inv, ReqInv
      <3>2. req[r].phase = "pairup" => refresh'[req[r].pair] = "none" BY <3>1 DEF Fits, Strike
      <3>3. req[r].phase = "mint" => req[r].pair \notin rotated' BY <3>1 DEF Fits, Strike
      <3>4. \A p \in rotated : p \in rotated' /\ succ'[p] = succ[p] BY DEF Strike
      <3>5. QED BY <2>2, <3>0, <3>2, <3>3, <3>4, KeepReq
    <2>3. CASE req'[r] = Idle BY <2>3 DEF Idle, Fits
    <2>4. QED BY <2>2, <2>3 DEF Strike
  <1>4. Distinct' BY DEF Inv, Distinct, Idle, Strike
  <1>5. OneFamilyPerCode' /\ OneHead' BY DEF Inv, OneFamilyPerCode, OneHead, TypeOK, Strike
  <1>6. LoserKillsWinner'
    <2>1. SUFFICES ASSUME NEW p \in punished' PROVE LoserKillsWinner!(p)' BY DEF LoserKillsWinner
    <2>2. succ[p] \in Pairs \cup {NoPair} BY DEF Inv, TypeOK, Strike
    <2>3. CASE p \in punished BY <2>2, <2>3 DEF Inv, LoserKillsWinner, Strike
    <2>4. CASE succ[p] \in Pairs /\ refresh'[succ[p]] = "revoked" /\ access'[succ[p]] = "revoked"
      BY <2>4, PairsAssumption DEF Strike
    <2>5. QED BY <2>3, <2>4 DEF Strike
  <1>7. RevocationSticks' BY DEF Inv, RevocationSticks, TypeOK, Strike
  <1>8. QED BY <1>1, <1>2, <1>3, <1>4, <1>5, <1>6, <1>7 DEF Inv

\* The revocation routes take such steps.
LEMMA RevocationStrikes ==
  ASSUME Inv, NEW r \in Requests,
         \/ RevokeFamilyOutOfBand(r) \/ RevokeToken(r) \/ RevokeConnections(r)
         \/ InvalidateUserSessions(r)
         \/ \E p \in Pairs : RevokeAccessToken(r, p)
  PROVE  Strike
  <1>t. /\ refresh \in [Pairs -> {"none", "live", "revoked"}]
        /\ access \in [Pairs -> {"none", "live", "expired", "revoked"}]
        /\ req \in [Requests -> Request] /\ req[r] \in Request
        /\ swept \subseteq Pairs /\ punished \subseteq Pairs
    BY DEF Inv, TypeOK
  <1>f. Fits(req[r]) BY DEF Inv, ReqInv
  <1>h. \A i : Has(i) => i \in Pairs /\ refresh[i] # "none" /\ access[i] # "none"
    BY DEF Has, Inv, RowInv
  <1>i. Idle \in Request BY DEF Idle, Request, Phases
  <1>d. ASSUME Done(r)
        PROVE  /\ req' \in [Requests -> Request]
               /\ \A s \in Requests : req'[s] = req[s] \/ req'[s] = Idle
    BY <1>t, <1>i, <1>d DEF Done
  <1>1. ASSUME RevokeFamilyOutOfBand(r) PROVE Strike
    <2>1. /\ UNCHANGED <<used, origin, rotated, family, succ>>
          /\ refresh' = Revoke(refresh, req[r].rows) /\ access' = Revoke(access, req[r].ids)
          /\ swept' = swept \cup req[r].ids /\ punished' = punished \cup {req[r].pair}
      BY <1>1 DEF RevokeFamilyOutOfBand
    <2>2. /\ req' \in [Requests -> Request]
          /\ \A s \in Requests : req'[s] = req[s] \/ req'[s] = Idle
      BY <1>1, <1>d DEF RevokeFamilyOutOfBand
    <2>3. /\ req[r].pair \in Pairs /\ succ[req[r].pair] \in req[r].ids
          /\ \A i \in req[r].ids : Has(i) /\ (i \in req[r].rows \/ refresh[i] = "revoked")
      BY <1>1, <1>f DEF RevokeFamilyOutOfBand, Fits, Has
    <2>4. /\ refresh' \in [Pairs -> {"none", "live", "revoked"}]
          /\ \A p \in Pairs : \/ refresh'[p] = refresh[p]
                              \/ refresh[p] # "none" /\ refresh'[p] = "revoked"
          /\ \A p \in req[r].rows \cap Pairs : refresh[p] # "none" => refresh'[p] = "revoked"
      BY <1>t, <2>1 DEF Revoke
    <2>5. /\ access' \in [Pairs -> {"none", "live", "expired", "revoked"}]
          /\ \A p \in Pairs : \/ access'[p] = access[p]
                              \/ access[p] = "live" /\ access'[p] = "expired"
                              \/ access[p] # "none" /\ access'[p] = "revoked"
          /\ \A p \in req[r].ids \cap Pairs : access[p] # "none" => access'[p] = "revoked"
      BY <1>t, <2>1 DEF Revoke
    <2>6. \A i \in req[r].ids : i \in Pairs /\ refresh'[i] = "revoked" /\ access'[i] = "revoked"
      BY <1>h, <2>3, <2>4, <2>5
    <2>s. QED BY <1>t, <2>1, <2>2, <2>3, <2>4, <2>5, <2>6 DEF Strike
  <1>2. ASSUME RevokeToken(r) PROVE Strike
    <2>1. /\ UNCHANGED <<used, origin, rotated, family, succ>>
          /\ refresh' = Revoke(refresh, req[r].rows)
          /\ access' = Revoke(access, Members(req[r].fams))
          /\ swept' = swept \cup req[r].rows /\ punished' = punished
      BY <1>2 DEF RevokeToken
    <2>2. /\ req' \in [Requests -> Request]
          /\ \A s \in Requests : req'[s] = req[s] \/ req'[s] = Idle
      BY <1>2, <1>d DEF RevokeToken
    <2>3. \A i \in req[r].rows : Has(i) /\ i \in req[r].rows /\ i \in Members(req[r].fams)
      BY <1>2, <1>f DEF RevokeToken, Fits, Has, Members
    <2>4. /\ refresh' \in [Pairs -> {"none", "live", "revoked"}]
          /\ \A p \in Pairs : \/ refresh'[p] = refresh[p]
                              \/ refresh[p] # "none" /\ refresh'[p] = "revoked"
          /\ \A p \in req[r].rows \cap Pairs : refresh[p] # "none" => refresh'[p] = "revoked"
      BY <1>t, <2>1 DEF Revoke
    <2>5. /\ access' \in [Pairs -> {"none", "live", "expired", "revoked"}]
          /\ \A p \in Pairs : \/ access'[p] = access[p]
                              \/ access[p] = "live" /\ access'[p] = "expired"
                              \/ access[p] # "none" /\ access'[p] = "revoked"
          /\ \A p \in (Members(req[r].fams)) \cap Pairs : access[p] # "none" => access'[p] = "revoked"
      BY <1>t, <2>1 DEF Revoke
    <2>6. \A i \in req[r].rows : i \in Pairs /\ refresh'[i] = "revoked" /\ access'[i] = "revoked"
      BY <1>h, <2>3, <2>4, <2>5
    <2>s. QED BY <1>t, <2>1, <2>2, <2>4, <2>5, <2>6 DEF Strike
  <1>3. ASSUME RevokeConnections(r) PROVE Strike
    <2>1. /\ UNCHANGED <<used, origin, rotated, family, succ>>
          /\ refresh' = Revoke(refresh, req[r].rows)
          /\ access' = Revoke(access, req[r].ids \cup Members(req[r].fams))
          /\ swept' = swept \cup req[r].rows /\ punished' = punished
      BY <1>3 DEF RevokeConnections
    <2>2. /\ req' \in [Requests -> Request]
          /\ \A s \in Requests : req'[s] = req[s] \/ req'[s] = Idle
      BY <1>3, <1>d DEF RevokeConnections
    <2>3. \A i \in req[r].rows : Has(i) /\ i \in req[r].rows /\ i \in req[r].ids \cup Members(req[r].fams)
      BY <1>3, <1>f DEF RevokeConnections, Fits, Has, Members
    <2>4. /\ refresh' \in [Pairs -> {"none", "live", "revoked"}]
          /\ \A p \in Pairs : \/ refresh'[p] = refresh[p]
                              \/ refresh[p] # "none" /\ refresh'[p] = "revoked"
          /\ \A p \in req[r].rows \cap Pairs : refresh[p] # "none" => refresh'[p] = "revoked"
      BY <1>t, <2>1 DEF Revoke
    <2>5. /\ access' \in [Pairs -> {"none", "live", "expired", "revoked"}]
          /\ \A p \in Pairs : \/ access'[p] = access[p]
                              \/ access[p] = "live" /\ access'[p] = "expired"
                              \/ access[p] # "none" /\ access'[p] = "revoked"
          /\ \A p \in (req[r].ids \cup Members(req[r].fams)) \cap Pairs : access[p] # "none" => access'[p] = "revoked"
      BY <1>t, <2>1 DEF Revoke
    <2>6. \A i \in req[r].rows : i \in Pairs /\ refresh'[i] = "revoked" /\ access'[i] = "revoked"
      BY <1>h, <2>3, <2>4, <2>5
    <2>s. QED BY <1>t, <2>1, <2>2, <2>4, <2>5, <2>6 DEF Strike
  <1>4. ASSUME InvalidateUserSessions(r) PROVE Strike
    <2>1. /\ UNCHANGED <<used, origin, rotated, family, succ>>
          /\ refresh' = Revoke(refresh, req[r].rows)
          /\ access' = Revoke(access, req[r].ids)
          /\ swept' = swept \cup (req[r].rows \cap req[r].ids) /\ punished' = punished
      BY <1>4 DEF InvalidateUserSessions
    <2>2. /\ req' \in [Requests -> Request]
          /\ \A s \in Requests : req'[s] = req[s] \/ req'[s] = Idle
      BY <1>4, <1>d DEF InvalidateUserSessions
    <2>3. \A i \in (req[r].rows \cap req[r].ids) : Has(i) /\ i \in req[r].rows /\ i \in req[r].ids
      BY <1>4, <1>f DEF InvalidateUserSessions, Fits, Has
    <2>4. /\ refresh' \in [Pairs -> {"none", "live", "revoked"}]
          /\ \A p \in Pairs : \/ refresh'[p] = refresh[p]
                              \/ refresh[p] # "none" /\ refresh'[p] = "revoked"
          /\ \A p \in req[r].rows \cap Pairs : refresh[p] # "none" => refresh'[p] = "revoked"
      BY <1>t, <2>1 DEF Revoke
    <2>5. /\ access' \in [Pairs -> {"none", "live", "expired", "revoked"}]
          /\ \A p \in Pairs : \/ access'[p] = access[p]
                              \/ access[p] = "live" /\ access'[p] = "expired"
                              \/ access[p] # "none" /\ access'[p] = "revoked"
          /\ \A p \in (req[r].ids) \cap Pairs : access[p] # "none" => access'[p] = "revoked"
      BY <1>t, <2>1 DEF Revoke
    <2>6. \A i \in (req[r].rows \cap req[r].ids) : i \in Pairs /\ refresh'[i] = "revoked" /\ access'[i] = "revoked"
      BY <1>h, <2>3, <2>4, <2>5
    <2>s. QED BY <1>t, <2>1, <2>2, <2>4, <2>5, <2>6 DEF Strike
  <1>5. ASSUME NEW p \in Pairs, RevokeAccessToken(r, p) PROVE Strike
    <2>1. /\ UNCHANGED <<used, origin, refresh, rotated, family, succ, req, swept, punished>>
          /\ access' = Revoke(access, {p})
      BY <1>5 DEF RevokeAccessToken
    <2>2. /\ access' \in [Pairs -> {"none", "live", "expired", "revoked"}]
          /\ \A q \in Pairs : \/ access'[q] = access[q]
                              \/ access[q] = "live" /\ access'[q] = "expired"
                              \/ access[q] # "none" /\ access'[q] = "revoked"
      BY <1>t, <2>1 DEF Revoke
    <2>s. QED BY <1>t, <2>1, <2>2 DEF Strike
  <1>6. QED BY <1>1, <1>2, <1>3, <1>4, <1>5

\* So does the expiry of an access token.
LEMMA ExpiryStrikes ==
  ASSUME Inv, NEW p \in Pairs, ExpireAccess(p)
  PROVE  Strike
  <1>1. /\ UNCHANGED <<used, origin, refresh, rotated, family, succ, req, swept, punished>>
        /\ access' = [access EXCEPT ![p] = "expired"] /\ access[p] = "live"
    BY DEF ExpireAccess
  <1>2. TypeOK BY DEF Inv
  <1>3. QED BY <1>1, <1>2 DEF Strike, TypeOK

\* The consumption of a code preserves the invariant.
LEMMA RedeemInv ==
  ASSUME Inv, NEW r \in Requests, RedeemCode(r)
  PROVE  Inv'
  <1>1. PICK p \in Pairs :
          /\ access[p] = "none"
          /\ used' = used \cup {req[r].code}
          /\ origin' = [origin EXCEPT ![p] = req[r].code]
          /\ access' = [access EXCEPT ![p] = "live"]
          /\ req' = [req EXCEPT ![r].phase = "pairup", ![r].pair = p]
    BY DEF RedeemCode
  <1>2. /\ UNCHANGED <<refresh, rotated, family, succ, swept, punished>>
        /\ req[r].code \notin used /\ req[r].phase = "redeem"
    BY DEF RedeemCode
  <1>3. TypeOK /\ req \in [Requests -> Request] /\ req[r] \in Request BY DEF Inv, TypeOK
  <1>4. req[r].code \in Codes BY <1>2 DEF Inv, ReqInv, Fits
  <1>5. refresh[p] = "none" /\ origin[p] = NoCode /\ p \notin rotated
    BY <1>1 DEF Inv, RowInv
  <1> DEFINE new == [req[r] EXCEPT !.phase = "pairup", !.pair = p]
  <1>6. new \in Request /\ new.phase = "pairup" /\ new.pair = p BY <1>3 DEF Request, Phases
  <1>7. req' = [req EXCEPT ![r] = new] BY <1>1, <1>3
  <1> HIDE DEF new
  <1>8. req'[r] = new /\ \A s \in Requests \ {r} : req'[s] = req[s] BY <1>3, <1>7
  <1>9. access'[p] = "live" /\ \A x \in Pairs \ {p} : access'[x] = access[x]
    BY <1>1, <1>3 DEF TypeOK
  <1>10. origin'[p] = req[r].code /\ \A x \in Pairs \ {p} : origin'[x] = origin[x]
    BY <1>1, <1>3 DEF TypeOK
  <1>11. TypeOK'
    <2>1. /\ used' = used \cup {req[r].code} /\ origin' = [origin EXCEPT ![p] = req[r].code]
          /\ access' = [access EXCEPT ![p] = "live"]
      BY <1>1
    <2>2. QED BY <1>2, <1>3, <1>4, <1>6, <1>7, <2>1 DEF TypeOK
  <1>12. RowInv' BY <1>1, <1>2, <1>9, <1>10 DEF Inv, RowInv, Has
  <1>13. ReqInv'
    <2>1. SUFFICES ASSUME NEW s \in Requests PROVE Fits(req[s])' BY DEF ReqInv
    <2>2. CASE s = r BY <1>2, <1>5, <1>6, <1>8, <1>9, <2>2 DEF Fits
    <2>3. CASE s # r
      <3>1. req'[s] = req[s] /\ Fits(req[s]) BY <1>8, <2>3 DEF Inv, ReqInv
      <3>2. \A x \in Pairs : access[x] # "none" => access'[x] # "none" BY <1>9
      <3>3. req[s].phase = "pairup" => refresh'[req[s].pair] = "none" BY <1>2, <3>1 DEF Fits
      <3>4. req[s].phase = "mint" => req[s].pair \notin rotated' BY <1>2, <3>1 DEF Fits
      <3>5. /\ \A x \in Pairs : refresh[x] # "none" => refresh'[x] # "none" /\ family'[x] = family[x]
            /\ \A x \in Pairs : refresh[x] = "revoked" => refresh'[x] = "revoked"
            /\ \A x \in rotated : x \in rotated' /\ succ'[x] = succ[x]
        BY <1>2
      <3>6. QED BY <3>1, <3>2, <3>3, <3>4, <3>5, KeepReq
    <2>4. QED BY <2>2, <2>3
  <1>14. Distinct'
    <2>1. \A s \in Requests : req[s].phase = "pairup" => req[s].pair # p
      BY <1>1 DEF Inv, ReqInv, Fits
    <2>2. QED BY <1>6, <1>8, <2>1 DEF Inv, Distinct
  <1>15. OneFamilyPerCode'
    <2>1. \A x \in Pairs : origin[x] # NoCode => origin[x] # req[r].code
      BY <1>2 DEF Inv, RowInv
    <2>2. QED BY <1>10, <2>1 DEF Inv, OneFamilyPerCode
  <1>16. OneHead'
    <2>1. \A x \in rotated : access'[x] = access[x] BY <1>3, <1>5, <1>9 DEF TypeOK
    <2>2. QED BY <1>2, <2>1 DEF Inv, OneHead
  <1>17. LoserKillsWinner' /\ RevocationSticks'
    BY <1>2, <1>5, <1>9, <1>3 DEF Inv, LoserKillsWinner, RevocationSticks, TypeOK
  <1>18. QED BY <1>11, <1>12, <1>13, <1>14, <1>15, <1>16, <1>17 DEF Inv

\* So does the creation of the refresh token of a fresh family.
LEMMA CreateInv ==
  ASSUME Inv, NEW r \in Requests, CreateRefreshToken(r)
  PROVE  Inv'
  <1> DEFINE p == req[r].pair
  <1>1. /\ req[r].phase = "pairup"
        /\ refresh' = [refresh EXCEPT ![p] = "live"] /\ family' = [family EXCEPT ![p] = p]
        /\ req' = [req EXCEPT ![r] = Idle]
        /\ UNCHANGED <<used, origin, access, rotated, succ, swept, punished>>
    BY DEF CreateRefreshToken, Done
  <1>2. TypeOK /\ Idle \in Request BY DEF Inv, TypeOK, Idle, Request, Phases
  <1>3. p \in Pairs /\ access[p] # "none" /\ refresh[p] = "none"
    BY <1>1 DEF Inv, ReqInv, Fits
  <1>4. p \notin rotated /\ family[p] = NoPair BY <1>2, <1>3 DEF Inv, RowInv, TypeOK
  <1>5. req'[r] = Idle /\ \A s \in Requests \ {r} : req'[s] = req[s] BY <1>1, <1>2 DEF TypeOK
  <1>d. \A s \in Requests \ {r} : req[s].phase = "pairup" => req[s].pair # p
    BY <1>1 DEF Inv, Distinct
  <1> HIDE DEF p
  <1>6. refresh'[p] = "live" /\ \A x \in Pairs \ {p} : refresh'[x] = refresh[x]
    BY <1>1, <1>2, <1>3 DEF TypeOK
  <1>7. family'[p] = p /\ \A x \in Pairs \ {p} : family'[x] = family[x]
    BY <1>1, <1>2, <1>3 DEF TypeOK
  <1>8. \A x \in Pairs : family[x] # p
    BY <1>2, <1>3, <1>4, PairsAssumption DEF Inv, RowInv, TypeOK
  <1>9. TypeOK'
    <2>1. \A x \in Pairs : (family'[x] = NoPair) <=> (refresh'[x] = "none")
      BY <1>2, <1>3, <1>6, <1>7, PairsAssumption DEF TypeOK
    <2>2. QED BY <1>1, <1>2, <1>3, <2>1 DEF TypeOK
  <1>10. RowInv' BY <1>1, <1>3, <1>4, <1>6, <1>7, <1>8, PairsAssumption DEF Inv, RowInv, Has
  <1>11. ReqInv'
    <2>1. SUFFICES ASSUME NEW s \in Requests PROVE Fits(req[s])' BY DEF ReqInv
    <2>2. CASE s = r BY <1>5, <2>2 DEF Fits, Idle
    <2>3. CASE s # r
      <3>1. req'[s] = req[s] /\ Fits(req[s]) BY <1>5, <2>3 DEF Inv, ReqInv
      <3>2. req[s].phase = "pairup" => refresh'[req[s].pair] = "none"
        BY <1>d, <1>6, <2>3, <3>1 DEF Fits
      <3>3. req[s].phase = "mint" => req[s].pair \notin rotated' BY <1>1, <3>1 DEF Fits
      <3>4. /\ \A x \in Pairs : refresh[x] # "none" => refresh'[x] # "none" /\ family'[x] = family[x]
            /\ \A x \in Pairs : refresh[x] = "revoked" => refresh'[x] = "revoked"
            /\ \A x \in Pairs : access[x] # "none" => access'[x] # "none"
            /\ \A x \in rotated : x \in rotated' /\ succ'[x] = succ[x]
        BY <1>1, <1>3, <1>6, <1>7
      <3>5. QED BY <3>1, <3>2, <3>3, <3>4, KeepReq
    <2>4. QED BY <2>2, <2>3
  <1>12. Distinct' BY <1>5 DEF Inv, Distinct, Idle
  <1>13. OneFamilyPerCode' BY <1>1 DEF Inv, OneFamilyPerCode
  <1>14. OneHead'
    <2>1. \A x, y \in Pairs \ rotated : refresh'[x] # "none" /\ family'[x] = family'[y] => x = y
      BY <1>3, <1>6, <1>7, <1>8 DEF Inv, OneHead
    <2>2. QED BY <1>1, <2>1 DEF Inv, OneHead
  <1>15. LoserKillsWinner' /\ RevocationSticks'
    BY <1>1, <1>2, <1>3, <1>6 DEF Inv, LoserKillsWinner, RevocationSticks, TypeOK
  <1>16. QED BY <1>9, <1>10, <1>11, <1>12, <1>13, <1>14, <1>15 DEF Inv

\* And the commit of a rotation.
LEMMA MintInv ==
  ASSUME Inv, NEW r \in Requests, MintSuccessor(r)
  PROVE  Inv'
  <1> DEFINE p == req[r].pair
  <1>1. /\ req[r].phase = "mint" /\ rotated' = rotated \cup {p}
        /\ req' = [req EXCEPT ![r] = Idle] /\ UNCHANGED <<used, origin, swept, punished>>
    BY DEF MintSuccessor, Done
  <1>2. PICK q \in Pairs :
          /\ access[q] = "none"
          /\ access' = [access EXCEPT ![p] = "revoked", ![q] = "live"]
          /\ refresh' = [refresh EXCEPT ![q] = "live"]
          /\ family' = [family EXCEPT ![q] = family[p]]
          /\ succ' = [succ EXCEPT ![p] = q]
    BY DEF MintSuccessor
  <1>3. TypeOK /\ Idle \in Request BY DEF Inv, TypeOK, Idle, Request, Phases
  <1>4. p \in Pairs /\ refresh[p] # "none" /\ p \notin rotated
    BY <1>1 DEF Inv, ReqInv, Fits, Has
  <1>5. /\ refresh[q] = "none" /\ origin[q] = NoCode /\ q \notin rotated /\ q # p
        /\ family[q] = NoPair /\ succ[p] = NoPair
    BY <1>2, <1>3, <1>4 DEF Inv, RowInv, TypeOK
  <1>6. family[p] \in Pairs /\ family[family[p]] = family[p] BY <1>4 DEF Inv, RowInv
  <1>7. req'[r] = Idle /\ \A s \in Requests \ {r} : req'[s] = req[s] BY <1>1, <1>3 DEF TypeOK
  <1>d. \A s \in Requests \ {r} : req[s].phase = "mint" => req[s].pair # p
    BY <1>1 DEF Inv, Distinct
  <1> HIDE DEF p
  <1>8. /\ access'[p] = "revoked" /\ access'[q] = "live"
        /\ \A x \in Pairs \ {p, q} : access'[x] = access[x]
    BY <1>2, <1>3, <1>4, <1>5 DEF TypeOK
  <1>9. refresh'[q] = "live" /\ \A x \in Pairs \ {q} : refresh'[x] = refresh[x]
    BY <1>2, <1>3 DEF TypeOK
  <1>10. family'[q] = family[p] /\ \A x \in Pairs \ {q} : family'[x] = family[x]
    BY <1>2, <1>3 DEF TypeOK
  <1>11. succ'[p] = q /\ \A x \in Pairs \ {p} : succ'[x] = succ[x]
    BY <1>2, <1>3, <1>4 DEF TypeOK
  <1>12. \A x \in Pairs : family[x] # q
    BY <1>3, <1>5, PairsAssumption DEF Inv, RowInv, TypeOK
  <1>13. TypeOK'
    <2>1. \A x \in Pairs : (family'[x] = NoPair) <=> (refresh'[x] = "none")
      BY <1>3, <1>6, <1>9, <1>10, PairsAssumption DEF TypeOK
    <2>2. QED BY <1>1, <1>2, <1>3, <1>4, <1>6, <2>1 DEF TypeOK
  <1>14. RowInv'
    <2>1. SUFFICES ASSUME NEW x \in Pairs PROVE RowInv!(x)' BY DEF RowInv
    <2>2. RowInv!(x) BY DEF Inv, RowInv
    <2>3. CASE x = q
      BY <1>1, <1>4, <1>5, <1>6, <1>8, <1>9, <1>10, <1>11, <1>12, <2>2, <2>3 DEF Has
    <2>4. CASE x = p
      BY <1>1, <1>4, <1>5, <1>6, <1>8, <1>9, <1>10, <1>11, <1>12, <2>2, <2>4 DEF Has
    <2>5. CASE x # p /\ x # q
      BY <1>1, <1>4, <1>5, <1>6, <1>8, <1>9, <1>10, <1>11, <1>12, <2>2, <2>5 DEF Has
    <2>6. QED BY <2>3, <2>4, <2>5
  <1>15. ReqInv'
    <2>1. SUFFICES ASSUME NEW s \in Requests PROVE Fits(req[s])' BY DEF ReqInv
    <2>2. CASE s = r BY <1>7, <2>2 DEF Fits, Idle
    <2>3. CASE s # r
      <3>1. req'[s] = req[s] /\ Fits(req[s]) BY <1>7, <2>3 DEF Inv, ReqInv
      <3>2. req[s].phase = "pairup" => refresh'[req[s].pair] = "none"
        BY <1>2, <1>9, <3>1 DEF Fits
      <3>3. req[s].phase = "mint" => req[s].pair \notin rotated' BY <1>1, <1>d, <2>3, <3>1 DEF Fits
      <3>4. /\ \A x \in Pairs : refresh[x] # "none" => refresh'[x] # "none" /\ family'[x] = family[x]
            /\ \A x \in Pairs : refresh[x] = "revoked" => refresh'[x] = "revoked"
            /\ \A x \in Pairs : access[x] # "none" => access'[x] # "none"
        BY <1>5, <1>8, <1>9, <1>10
      <3>5. \A x \in rotated : x \in rotated' /\ succ'[x] = succ[x]
        BY <1>1, <1>3, <1>4, <1>11 DEF TypeOK
      <3>6. QED BY <3>1, <3>2, <3>3, <3>4, <3>5, KeepReq
    <2>4. QED BY <2>2, <2>3
  <1>16. Distinct' BY <1>7 DEF Inv, Distinct, Idle
  <1>17. OneFamilyPerCode' BY <1>1 DEF Inv, OneFamilyPerCode
  <1>18. OneHead'
    <2>1. \A x, y \in Pairs \ rotated' : refresh'[x] # "none" /\ family'[x] = family'[y] => x = y
      <3>1. SUFFICES ASSUME NEW x \in Pairs \ rotated', NEW y \in Pairs \ rotated',
                            refresh'[x] # "none", family'[x] = family'[y]
                     PROVE  x = y
        OBVIOUS
      <3>2. x # p /\ y # p /\ x \notin rotated /\ y \notin rotated BY <1>1
      <3>3. \A z \in Pairs \ rotated : family[z] = family[p] => z = p
        BY <1>4 DEF Inv, OneHead
      <3>4. CASE x = q BY <1>10, <3>1, <3>2, <3>3, <3>4
      <3>5. CASE y = q BY <1>10, <3>1, <3>2, <3>3, <3>5
      <3>6. CASE x # q /\ y # q BY <1>9, <1>10, <3>1, <3>2, <3>6 DEF Inv, OneHead
      <3>7. QED BY <3>4, <3>5, <3>6
    <2>2. \A x \in rotated' : access'[x] = "revoked"
      BY <1>1, <1>3, <1>5, <1>8 DEF Inv, OneHead, TypeOK
    <2>3. QED BY <2>1, <2>2 DEF OneHead
  <1>19. LoserKillsWinner'
    <2>1. SUFFICES ASSUME NEW x \in punished PROVE LoserKillsWinner!(x)'
      BY <1>1 DEF LoserKillsWinner
    <2>2. x \in Pairs /\ succ[x] # NoPair /\ succ[x] \in Pairs
          /\ refresh[succ[x]] = "revoked" /\ access[succ[x]] = "revoked"
      BY <1>3 DEF Inv, LoserKillsWinner, TypeOK
    <2>3. x # p /\ succ'[x] = succ[x] BY <1>5, <1>11, <2>2
    <2>4. succ[x] # q BY <1>2, <2>2
    <2>5. QED BY <1>8, <1>9, <2>2, <2>3, <2>4
  <1>20. RevocationSticks'
    BY <1>1, <1>2, <1>3, <1>8, <1>9 DEF Inv, RevocationSticks, TypeOK
  <1>21. QED BY <1>13, <1>14, <1>15, <1>16, <1>17, <1>18, <1>19, <1>20 DEF Inv

-----------------------------------------------------------------------------
\* Every step preserves the invariant.
LEMMA NextInv == Inv /\ [Next]_vars => Inv'
  <1> SUFFICES ASSUME Inv, [Next]_vars PROVE Inv' OBVIOUS
  <1>1. CASE UNCHANGED vars
    BY <1>1 DEF vars, Inv, TypeOK, RowInv, ReqInv, Fits, Has, Distinct, OneFamilyPerCode,
                OneHead, LoserKillsWinner, RevocationSticks
  <1>2. ASSUME NEW r \in Requests, RedeemCode(r) PROVE Inv' BY <1>2, RedeemInv
  <1>3. ASSUME NEW r \in Requests, CreateRefreshToken(r) PROVE Inv' BY <1>3, CreateInv
  <1>4. ASSUME NEW r \in Requests, MintSuccessor(r) PROVE Inv' BY <1>4, MintInv
  <1>5. ASSUME NEW r \in Requests,
               \/ RevokeFamilyOutOfBand(r) \/ RevokeToken(r) \/ RevokeConnections(r)
               \/ InvalidateUserSessions(r)
               \/ \E p \in Pairs : RevokeAccessToken(r, p)
        PROVE  Inv'
    BY <1>5, RevocationStrikes, StrikeInv
  <1>6. ASSUME NEW p \in Pairs, ExpireAccess(p) PROVE Inv' BY <1>6, ExpiryStrikes, StrikeInv
  <1>7. ASSUME NEW r \in Requests,
               \/ \E c \in Codes : ReadCode(r, c)
               \/ RedeemLost(r) \/ ClaimRotation(r) \/ LoseRace(r)
               \/ ReadFamily(r) \/ SnapshotFamily(r) \/ SnapshotFamilies(r)
               \/ StartUserRevocation(r) \/ StartInvalidation(r) \/ SnapshotAll(r) \/ Abandon(r)
               \/ \E p \in Pairs :
                    ReadRefreshToken(r, p) \/ DetectReplay(r, p) \/ SnapshotToken(r, p)
               \/ \E ids \in SUBSET Pairs : ReadUserTokens(r, ids)
        PROVE  Inv'
    BY <1>7, LookupInv
  <1>8. QED BY <1>1, <1>2, <1>3, <1>4, <1>5, <1>6, <1>7 DEF Next

\* The invariant holds throughout.
LEMMA Invariance == Spec => []Inv
  BY InitInv, NextInv, PTL DEF Spec

\* The columns keep their types and a pair without a refresh token is in no family.
THEOREM TypeCorrect == Spec => []TypeOK
  <1>1. Inv => TypeOK BY DEF Inv
  <1>2. QED BY <1>1, Invariance, PTL

\* However many requests redeem a code at once, exchangeCodeForToken mints one
\* access token for it.
THEOREM CodeIsSingleUse == Spec => []OneFamilyPerCode
  <1>1. Inv => OneFamilyPerCode BY DEF Inv
  <1>2. QED BY <1>1, Invariance, PTL

\* However many rotations of exchangeRefreshToken race, a family has one token to
\* rotate, and no other access token of it is live.
THEOREM FamilyHasOneHead == Spec => []OneHead
  <1>1. Inv => OneHead BY DEF Inv
  <1>2. QED BY <1>1, Invariance, PTL

\* A committed revokeFamilyOutOfBand kills the winner of the race.
THEOREM RaceIsPunished == Spec => []LoserKillsWinner
  <1>1. Inv => LoserKillsWinner BY DEF Inv
  <1>2. QED BY <1>1, Invariance, PTL

\* What a committed revocation had in view is dead and stays dead.
THEOREM RevokedForGood == Spec => []RevocationSticks
  <1>1. Inv => RevocationSticks BY DEF Inv
  <1>2. QED BY <1>1, Invariance, PTL

-----------------------------------------------------------------------------
(* No request brings a dead family back.                                       *)

\* A step that adds no member to a family, revives none of its tokens and lets no
\* request take up a rotation in it leaves it over.
LEMMA OverKept ==
  ASSUME Inv, NEW f \in Pairs, Over(f), rotated \subseteq rotated',
         \A p \in Pairs : refresh[p] # "none" => family'[p] = family[p],
         \A p \in Pairs : refresh[p] = "none" => family'[p] # f,
         \A p \in Pairs : refresh[p] = "revoked" => refresh'[p] = "revoked",
         \A p \in Pairs : refresh[p] # "none" /\ access'[p] = "live" => access[p] = "live",
         \A s \in Requests : req'[s].phase \in {"claim", "mint"} =>
           Has(req'[s].pair) /\ family[req'[s].pair] # f
  PROVE  Over(f)'
  <1>1. refresh[f] # "none" BY PairsAssumption DEF Inv, TypeOK, Over
  <1>2. family'[f] = f BY <1>1 DEF Over
  <1>3. \A p \in Pairs : family'[p] = f => refresh[p] # "none" /\ family[p] = f OBVIOUS
  <1>4. \A p \in Pairs : family'[p] = f =>
          (p \in rotated' \/ refresh'[p] = "revoked") /\ access'[p] # "live"
    BY <1>3 DEF Over, Members
  <1>5. \A s \in Requests : req'[s].phase \in {"claim", "mint"} => family'[req'[s].pair] # f
    BY DEF Has
  <1>6. QED BY <1>2, <1>4, <1>5 DEF Over, Members

\* Rotations are taken up with a live token that was never rotated.
LEMMA TakenUp ==
  ASSUME Inv, NEW r \in Requests, NEW s \in Requests,
         \/ \E c \in Codes : ReadCode(r, c)
         \/ RedeemLost(r) \/ ClaimRotation(r) \/ LoseRace(r)
         \/ ReadFamily(r) \/ SnapshotFamily(r) \/ SnapshotFamilies(r)
         \/ StartUserRevocation(r) \/ StartInvalidation(r) \/ SnapshotAll(r) \/ Abandon(r)
         \/ \E p \in Pairs :
              ReadRefreshToken(r, p) \/ DetectReplay(r, p) \/ SnapshotToken(r, p)
         \/ \E ids \in SUBSET Pairs : ReadUserTokens(r, ids)
  PROVE  /\ UNCHANGED tokenVars
         /\ req'[s].phase \in {"claim", "mint"} =>
              \/ req[s].phase \in {"claim", "mint"} /\ req'[s].pair = req[s].pair
              \/ /\ req'[s].pair \in Pairs \ rotated
                 /\ refresh[req'[s].pair] = "live"
  <1>t. req \in [Requests -> Request] /\ req[s] \in Request /\ req[r] \in Request
    BY DEF Inv, TypeOK
  <1> DEFINE G == \/ req[s].phase \in {"claim", "mint"} /\ req'[s].pair = req[s].pair
                  \/ req'[s].pair \in Pairs \ rotated /\ refresh[req'[s].pair] = "live"
             Goal == UNCHANGED tokenVars /\ (req'[s].phase \in {"claim", "mint"} => G)
  <1>1. ASSUME NEW c \in Codes, ReadCode(r, c) PROVE Goal BY <1>1, <1>t DEF ReadCode, Request
  <1>2. ASSUME RedeemLost(r) PROVE Goal BY <1>2, <1>t DEF RedeemLost, Done, Idle, Request
  <1>3. ASSUME ClaimRotation(r) PROVE Goal BY <1>3, <1>t DEF ClaimRotation, Goto, Request
  <1>4. ASSUME LoseRace(r) PROVE Goal BY <1>4, <1>t DEF LoseRace, Goto, Request
  <1>5. ASSUME ReadFamily(r) PROVE Goal BY <1>5, <1>t DEF ReadFamily, Request
  <1>6. ASSUME SnapshotFamily(r) PROVE Goal BY <1>6, <1>t DEF SnapshotFamily, Request
  <1>7. ASSUME SnapshotFamilies(r) PROVE Goal BY <1>7, <1>t DEF SnapshotFamilies, Request
  <1>8. ASSUME StartInvalidation(r) PROVE Goal BY <1>8, <1>t DEF StartInvalidation, Request
  <1>9. ASSUME SnapshotAll(r) PROVE Goal BY <1>9, <1>t DEF SnapshotAll, Request
  <1>10. ASSUME Abandon(r) PROVE Goal BY <1>10, <1>t DEF Abandon, Done, Idle, Request
  <1>11. ASSUME NEW p \in Pairs, ReadRefreshToken(r, p) PROVE Goal BY <1>11, <1>t DEF ReadRefreshToken, Request
  <1>12. ASSUME NEW p \in Pairs, DetectReplay(r, p) PROVE Goal BY <1>12, <1>t DEF DetectReplay, Request
  <1>13. ASSUME NEW p \in Pairs, SnapshotToken(r, p) PROVE Goal BY <1>13, <1>t DEF SnapshotToken, Request
  <1>14. ASSUME NEW ids \in SUBSET Pairs, ReadUserTokens(r, ids) PROVE Goal BY <1>14, <1>t DEF ReadUserTokens, Request
  <1>14a. ASSUME StartUserRevocation(r) PROVE Goal BY <1>14a, <1>t DEF StartUserRevocation, Request
  <1> HIDE DEF G
  <1>15. Goal BY <1>1, <1>2, <1>3, <1>4, <1>5, <1>6, <1>7, <1>8, <1>9, <1>10, <1>11, <1>12, <1>13, <1>14, <1>14a
  <1>16. QED BY <1>15 DEF G

\* A family that is over stays over in every step.
LEMMA DeadStep ==
  ASSUME Inv, [Next]_vars, NEW f \in Pairs, Over(f)
  PROVE  Over(f)'
  <1>t. TypeOK BY DEF Inv
  <1>m. \A p \in Pairs : refresh[p] = "none" => family[p] # f
    BY <1>t, PairsAssumption DEF TypeOK
  <1>h. \A s \in Requests : req[s].phase \in {"claim", "mint"} =>
          Has(req[s].pair) /\ family[req[s].pair] # f
    BY DEF Inv, ReqInv, Fits, Over
  <1>n. \A p \in Pairs \ rotated : refresh[p] = "live" => Has(p) /\ family[p] # f
    BY DEF Over, Members, Has
  <1>1. CASE UNCHANGED vars
    <2>1. /\ UNCHANGED <<refresh, access, rotated, family, req>> BY <1>1 DEF vars
    <2>2. QED BY <1>m, <1>h, <2>1, OverKept
  <1>2. ASSUME Strike PROVE Over(f)'
    <2>1. /\ \A p \in Pairs : refresh[p] # "none" => family'[p] = family[p]
          /\ \A p \in Pairs : refresh[p] = "none" => family'[p] # f
          /\ \A p \in Pairs : refresh[p] = "revoked" => refresh'[p] = "revoked"
          /\ \A p \in Pairs : refresh[p] # "none" /\ access'[p] = "live" => access[p] = "live"
          /\ rotated \subseteq rotated'
      BY <1>2, <1>m DEF Strike
    <2>2. \A s \in Requests : req'[s].phase \in {"claim", "mint"} =>
            Has(req'[s].pair) /\ family[req'[s].pair] # f
      BY <1>2, <1>h DEF Strike, Idle
    <2>3. QED BY <2>1, <2>2, OverKept
  <1>3. ASSUME NEW r \in Requests,
               \/ \E c \in Codes : ReadCode(r, c)
               \/ RedeemLost(r) \/ ClaimRotation(r) \/ LoseRace(r)
               \/ ReadFamily(r) \/ SnapshotFamily(r) \/ SnapshotFamilies(r)
               \/ StartUserRevocation(r) \/ StartInvalidation(r) \/ SnapshotAll(r) \/ Abandon(r)
               \/ \E p \in Pairs :
                    ReadRefreshToken(r, p) \/ DetectReplay(r, p) \/ SnapshotToken(r, p)
               \/ \E ids \in SUBSET Pairs : ReadUserTokens(r, ids)
        PROVE  Over(f)'
    <2>1. \A s \in Requests :
            /\ UNCHANGED tokenVars
            /\ req'[s].phase \in {"claim", "mint"} =>
                 \/ req[s].phase \in {"claim", "mint"} /\ req'[s].pair = req[s].pair
                 \/ /\ req'[s].pair \in Pairs \ rotated
                    /\ refresh[req'[s].pair] = "live"
      BY <1>3, TakenUp
    <2>2. UNCHANGED <<refresh, access, rotated, family>> BY <2>1 DEF tokenVars
    <2>3. \A s \in Requests : req'[s].phase \in {"claim", "mint"} =>
            Has(req'[s].pair) /\ family[req'[s].pair] # f
      BY <1>h, <1>n, <2>1
    <2>4. QED BY <1>m, <2>2, <2>3, OverKept
  <1>4. ASSUME NEW r \in Requests, RedeemCode(r) PROVE Over(f)'
    <2>1. PICK p \in Pairs :
            /\ access[p] = "none"
            /\ access' = [access EXCEPT ![p] = "live"]
            /\ req' = [req EXCEPT ![r].phase = "pairup", ![r].pair = p]
      BY <1>4 DEF RedeemCode
    <2>2. UNCHANGED <<refresh, rotated, family>> BY <1>4 DEF RedeemCode
    <2>3. \A x \in Pairs : refresh[x] # "none" /\ access'[x] = "live" => access[x] = "live"
      BY <1>t, <2>1 DEF Inv, RowInv, TypeOK
    <2>4. \A s \in Requests : req'[s].phase \in {"claim", "mint"} => req'[s] = req[s]
      BY <1>t, <2>1 DEF TypeOK, Request
    <2>5. QED BY <1>m, <1>h, <2>2, <2>3, <2>4, OverKept
  <1>5. ASSUME NEW r \in Requests, CreateRefreshToken(r) PROVE Over(f)'
    <2> DEFINE p == req[r].pair
    <2>1. /\ refresh' = [refresh EXCEPT ![p] = "live"] /\ family' = [family EXCEPT ![p] = p]
          /\ req' = [req EXCEPT ![r] = Idle] /\ UNCHANGED <<access, rotated>>
      BY <1>5 DEF CreateRefreshToken, Done
    <2>2. p \in Pairs /\ refresh[p] = "none" BY <1>5 DEF CreateRefreshToken, Inv, ReqInv, Fits
    <2> HIDE DEF p
    <2>3. p # f BY <1>m, <2>2 DEF Over
    <2>4. /\ \A x \in Pairs : refresh[x] # "none" => family'[x] = family[x]
          /\ \A x \in Pairs : refresh[x] = "none" => family'[x] # f
          /\ \A x \in Pairs : refresh[x] = "revoked" => refresh'[x] = "revoked"
      BY <1>t, <1>m, <2>1, <2>2, <2>3 DEF TypeOK
    <2>5. \A s \in Requests : req'[s].phase \in {"claim", "mint"} => req'[s] = req[s]
      BY <1>t, <2>1 DEF TypeOK, Idle
    <2>6. QED BY <1>h, <2>1, <2>4, <2>5, OverKept
  <1>6. ASSUME NEW r \in Requests, MintSuccessor(r) PROVE Over(f)'
    <2> DEFINE p == req[r].pair
    <2>1. PICK q \in Pairs :
            /\ access[q] = "none"
            /\ access' = [access EXCEPT ![p] = "revoked", ![q] = "live"]
            /\ refresh' = [refresh EXCEPT ![q] = "live"]
            /\ family' = [family EXCEPT ![q] = family[p]]
      BY <1>6 DEF MintSuccessor
    <2>2. /\ req[r].phase = "mint" /\ rotated' = rotated \cup {p}
          /\ req' = [req EXCEPT ![r] = Idle]
      BY <1>6 DEF MintSuccessor, Done
    <2>3. refresh[q] = "none" BY <2>1 DEF Inv, RowInv
    <2>4. p \in Pairs /\ family[p] # f BY <1>h, <2>2 DEF Has
    <2> HIDE DEF p
    <2>5. /\ \A x \in Pairs : refresh[x] # "none" => family'[x] = family[x]
          /\ \A x \in Pairs : refresh[x] = "none" => family'[x] # f
          /\ \A x \in Pairs : refresh[x] = "revoked" => refresh'[x] = "revoked"
          /\ \A x \in Pairs : refresh[x] # "none" /\ access'[x] = "live" => access[x] = "live"
      BY <1>t, <1>m, <2>1, <2>3, <2>4 DEF TypeOK
    <2>6. \A s \in Requests : req'[s].phase \in {"claim", "mint"} => req'[s] = req[s]
      BY <1>t, <2>2 DEF TypeOK, Idle
    <2>7. QED BY <1>h, <2>2, <2>5, <2>6, OverKept
  <1>7. ASSUME NEW r \in Requests,
               \/ RevokeFamilyOutOfBand(r) \/ RevokeToken(r) \/ RevokeConnections(r)
               \/ InvalidateUserSessions(r)
               \/ \E p \in Pairs : RevokeAccessToken(r, p)
        PROVE  Over(f)'
    BY <1>2, <1>7, RevocationStrikes
  <1>8. ASSUME NEW p \in Pairs, ExpireAccess(p) PROVE Over(f)' BY <1>2, <1>8, ExpiryStrikes
  <1>9. QED BY <1>1, <1>3, <1>4, <1>5, <1>6, <1>7, <1>8 DEF Next

\* Once no token of a family works and no rotation of it is under way, no request
\* of any route brings it back.
THEOREM NoResurrection == Spec => DeadStaysDead
  <1>1. Inv /\ [Next]_vars => [\A f \in Pairs : Over(f) => Over(f)']_vars BY DeadStep
  <1>2. QED BY <1>1, Invariance, PTL DEF Spec, DeadStaysDead
=============================================================================
