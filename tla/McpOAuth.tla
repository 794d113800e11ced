------------------------------ MODULE McpOAuth ------------------------------
(* Authorization codes, token pairs and their revocation in the MCP OAuth      *)
(* server: src/src/lib/mcp/oauth-server.ts, its token and revocation routes,   *)
(* the user's own revocation routes and the bulk revocation of                 *)
(* invalidateUserSessions.                                                     *)
(*                                                                             *)
(* A pair is an mcp_access_tokens row and the mcp_refresh_tokens row created   *)
(* for it.  A rotation replaces a pair by its successor in the same family; a  *)
(* family is named by the pair the authorization code was exchanged for.       *)
(*                                                                             *)
(* Transactions are READ COMMITTED.  An UPDATE chooses its rows when the       *)
(* statement starts, waits for the row locks of open transactions, and misses  *)
(* rows committed meanwhile: a revocation is therefore a snapshot step and a   *)
(* commit step.  The variables hold committed rows; the locks follow from the  *)
(* phases of the requests.                                                     *)

CONSTANTS
  Codes,    \* authorization codes the user consented to
  Pairs,    \* token pairs that may be minted
  Requests, \* requests served at the same time
  NoCode,
  NoPair

ASSUME PairsAssumption == NoPair \notin Pairs /\ NoCode \notin Codes

VARIABLES
  used,     \* codes with used_at set
  origin,   \* the code an access token was exchanged for
  access,   \* per pair, the access token: absent, live, past expires_at, revoked
  refresh,  \* per pair, the refresh token: absent, live or revoked_at set
  rotated,  \* pairs whose refresh token has rotated_at set
  family,   \* family_id of the refresh token
  succ,     \* the pair replaced_by_hash points to
  req,      \* per request, what it has read and where it stands
  swept,    \* history: pairs a committed revocation had in view
  punished  \* history: pairs whose reuse was answered by a committed revocation

tokenVars == <<used, origin, access, refresh, rotated, family, succ>>
vars == <<used, origin, access, refresh, rotated, family, succ, req, swept, punished>>

Phases == {"idle", "redeem", "pairup", "claim", "mint", "reused", "familyIds",
           "familyRows", "tokenRows", "userRead", "userIds", "userRows", "sessionIds", "sessionRows"}

\* ids: access tokens read or updated so far; fams: families looked up; rows:
\* the refresh tokens the current UPDATE chose.
Request == [phase : Phases, code : Codes \cup {NoCode}, pair : Pairs \cup {NoPair},
            ids : SUBSET Pairs, fams : SUBSET Pairs, rows : SUBSET Pairs]

Idle == [phase |-> "idle", code |-> NoCode, pair |-> NoPair,
         ids |-> {}, fams |-> {}, rows |-> {}]

Init ==
  /\ used = {}
  /\ origin = [p \in Pairs |-> NoCode]
  /\ access = [p \in Pairs |-> "none"]
  /\ refresh = [p \in Pairs |-> "none"]
  /\ rotated = {}
  /\ family = [p \in Pairs |-> NoPair]
  /\ succ = [p \in Pairs |-> NoPair]
  /\ req = [r \in Requests |-> Idle]
  /\ swept = {} /\ punished = {}

Members(F) == {p \in Pairs : family[p] \in F}
Unrevoked(P) == {p \in P : refresh[p] = "live"}
Revoke(tokens, P) == [p \in Pairs |-> IF p \in P /\ tokens[p] # "none" THEN "revoked" ELSE tokens[p]]

\* A rotation holds its refresh row from the claim to the commit; a revocation
\* by the user holds the access rows it updated first, not those that were
\* revoked when it came to them.
RefreshUnlocked(r, P) ==
  \A s \in Requests \ {r} : req[s].phase = "mint" => req[s].pair \notin P
AccessUnlocked(r, P) ==
  \A s \in Requests \ {r} :
    req[s].phase \in {"userIds", "userRows", "sessionIds", "sessionRows"} =>
      \A p \in req[s].ids \cap P : access[p] = "revoked"

Goto(r, phase) == req' = [req EXCEPT ![r].phase = phase]
Done(r) == req' = [req EXCEPT ![r] = Idle]

-----------------------------------------------------------------------------
(* The authorization code grant.                                               *)

\* exchangeCodeForToken has found the code unused and valid.
ReadCode(r, c) ==
  /\ req[r].phase = "idle" /\ c \notin used
  /\ req' = [req EXCEPT ![r].phase = "redeem", ![r].code = c]
  /\ UNCHANGED <<tokenVars, swept, punished>>

\* Mutant: the consume matches the code whether or not it was used.
MutConsumeAgain(r) ==
  /\ req[r].phase = "redeem"
  /\ \E p \in Pairs :
       /\ access[p] = "none"
       /\ used' = used \cup {req[r].code}
       /\ origin' = [origin EXCEPT ![p] = req[r].code]
       /\ access' = [access EXCEPT ![p] = "live"]
       /\ req' = [req EXCEPT ![r].phase = "pairup", ![r].pair = p]
  /\ UNCHANGED <<refresh, rotated, family, succ, swept, punished>>

\* The consume on used_at IS NULL and the access token, in one transaction.
RedeemCode(r) ==
  /\ req[r].phase = "redeem" /\ req[r].code \notin used
  /\ \E p \in Pairs :
       /\ access[p] = "none"
       /\ used' = used \cup {req[r].code}
       /\ origin' = [origin EXCEPT ![p] = req[r].code]
       /\ access' = [access EXCEPT ![p] = "live"]
       /\ req' = [req EXCEPT ![r].phase = "pairup", ![r].pair = p]
  /\ UNCHANGED <<refresh, rotated, family, succ, swept, punished>>

\* The consume matched no row.
RedeemLost(r) ==
  /\ req[r].phase = "redeem" /\ req[r].code \in used
  /\ Done(r)
  /\ UNCHANGED <<tokenVars, swept, punished>>

\* The refresh token of a fresh family, in a transaction of its own.
CreateRefreshToken(r) ==
  /\ req[r].phase = "pairup"
  /\ refresh' = [refresh EXCEPT ![req[r].pair] = "live"]
  /\ family' = [family EXCEPT ![req[r].pair] = req[r].pair]
  /\ Done(r)
  /\ UNCHANGED <<used, origin, access, rotated, succ, swept, punished>>

-----------------------------------------------------------------------------
(* The refresh token grant.                                                    *)

\* Mutant: revoked_at is not checked.
MutRevokedAccepted(r, p) ==
  /\ req[r].phase = "idle" /\ refresh[p] # "none" /\ p \notin rotated
  /\ req' = [req EXCEPT ![r].phase = "claim", ![r].pair = p]
  /\ UNCHANGED <<tokenVars, swept, punished>>

\* exchangeRefreshToken reads a token that is neither rotated nor revoked.
ReadRefreshToken(r, p) ==
  /\ req[r].phase = "idle" /\ refresh[p] = "live" /\ p \notin rotated
  /\ req' = [req EXCEPT ![r].phase = "claim", ![r].pair = p]
  /\ UNCHANGED <<tokenVars, swept, punished>>

\* It reads a token that was rotated before, revoked or not.
DetectReplay(r, p) ==
  /\ req[r].phase = "idle" /\ p \in rotated
  /\ req' = [req EXCEPT ![r].phase = "reused", ![r].pair = p]
  /\ UNCHANGED <<tokenVars, swept, punished>>

\* Mutant: the claim is by id alone.
MutClaimById(r) ==
  /\ req[r].phase = "claim" /\ RefreshUnlocked(r, {req[r].pair})
  /\ Goto(r, "mint")
  /\ UNCHANGED <<tokenVars, swept, punished>>

\* The claim on rotated_at IS NULL; it does not look at revoked_at again.
ClaimRotation(r) ==
  /\ req[r].phase = "claim" /\ RefreshUnlocked(r, {req[r].pair})
  /\ req[r].pair \notin rotated
  /\ Goto(r, "mint")
  /\ UNCHANGED <<tokenVars, swept, punished>>

LoseRace(r) ==
  /\ req[r].phase = "claim" /\ RefreshUnlocked(r, {req[r].pair})
  /\ req[r].pair \in rotated
  /\ Goto(r, "reused")
  /\ UNCHANGED <<tokenVars, swept, punished>>

\* The successor pair is created, the old access token revoked, the claim committed.
MintSuccessor(r) ==
  LET p == req[r].pair
  IN  /\ req[r].phase = "mint" /\ AccessUnlocked(r, {p})
      /\ \E q \in Pairs :
           /\ access[q] = "none"
           /\ access' = [access EXCEPT ![p] = "revoked", ![q] = "live"]
           /\ refresh' = [refresh EXCEPT ![q] = "live"]
           /\ family' = [family EXCEPT ![q] = family[p]]
           /\ succ' = [succ EXCEPT ![p] = q]
      /\ rotated' = rotated \cup {p}
      /\ Done(r)
      /\ UNCHANGED <<used, origin, swept, punished>>

-----------------------------------------------------------------------------
(* Revocation after a replay or a lost race, in a transaction of its own.      *)

\* Mutant: only the presented token's own access token is revoked.
MutOwnAccessOnly(r) ==
  /\ req[r].phase = "reused"
  /\ req' = [req EXCEPT ![r].phase = "familyIds", ![r].fams = {family[req[r].pair]},
                        ![r].ids = {req[r].pair}]
  /\ UNCHANGED <<tokenVars, swept, punished>>

ReadFamily(r) ==
  /\ req[r].phase = "reused"
  /\ LET F == {family[req[r].pair]}
     IN  req' = [req EXCEPT ![r].phase = "familyIds", ![r].fams = F,
                            ![r].ids = Members(F) \cup {req[r].pair}]
  /\ UNCHANGED <<tokenVars, swept, punished>>

SnapshotFamily(r) ==
  /\ req[r].phase = "familyIds"
  /\ req' = [req EXCEPT ![r].phase = "familyRows",
                        ![r].rows = Unrevoked(Members(req[r].fams))]
  /\ UNCHANGED <<tokenVars, swept, punished>>

RevokeFamilyOutOfBand(r) ==
  /\ req[r].phase = "familyRows"
  /\ RefreshUnlocked(r, req[r].rows) /\ AccessUnlocked(r, req[r].ids)
  /\ refresh' = Revoke(refresh, req[r].rows)
  /\ access' = Revoke(access, req[r].ids)
  /\ swept' = swept \cup req[r].ids
  /\ punished' = punished \cup {req[r].pair}
  /\ Done(r)
  /\ UNCHANGED <<used, origin, rotated, family, succ>>

-----------------------------------------------------------------------------
(* POST /api/mcp/revoke.                                                       *)

\* The presented refresh token is found and the family's UPDATE starts.
SnapshotToken(r, p) ==
  /\ req[r].phase = "idle" /\ refresh[p] # "none"
  /\ LET F == {family[p]}
     IN  req' = [req EXCEPT ![r].phase = "tokenRows", ![r].pair = p, ![r].fams = F,
                            ![r].rows = Unrevoked(Members(F))]
  /\ UNCHANGED <<tokenVars, swept, punished>>

\* Mutant: the access tokens of the family are left to expire.
MutRefreshOnly(r) ==
  /\ req[r].phase = "tokenRows" /\ RefreshUnlocked(r, req[r].rows)
  /\ refresh' = Revoke(refresh, req[r].rows)
  /\ swept' = swept \cup req[r].rows
  /\ Done(r)
  /\ UNCHANGED <<used, origin, access, rotated, family, succ, punished>>

\* The access tokens are looked up after the refresh tokens were revoked.
RevokeToken(r) ==
  LET related == Members(req[r].fams)
  IN  /\ req[r].phase = "tokenRows"
      /\ RefreshUnlocked(r, req[r].rows) /\ AccessUnlocked(r, related)
      /\ refresh' = Revoke(refresh, req[r].rows)
      /\ access' = Revoke(access, related)
      /\ swept' = swept \cup req[r].rows
      /\ Done(r)
      /\ UNCHANGED <<used, origin, rotated, family, succ, punished>>

\* An access token alone.
RevokeAccessToken(r, p) ==
  /\ req[r].phase = "idle" /\ access[p] # "none" /\ AccessUnlocked(r, {p})
  /\ access' = Revoke(access, {p})
  /\ UNCHANGED <<used, origin, refresh, rotated, family, succ, req, swept, punished>>

-----------------------------------------------------------------------------
(* DELETE /api/user/mcp-tokens/[id] and DELETE /api/user/mcp-tokens.           *)

\* One access token that is not revoked, or all that are neither revoked nor
\* expired.
UserTokens ==
  LET one == {{p} : p \in {q \in Pairs : access[q] \in {"live", "expired"}}}
      all == {p \in Pairs : access[p] = "live"}
  IN  one \cup ({all} \ {{}})

ReadUserTokens(r, ids) ==
  /\ req[r].phase = "idle" /\ ids \in UserTokens
  /\ req' = [req EXCEPT ![r].phase = "userRead", ![r].ids = ids]
  /\ UNCHANGED <<tokenVars, swept, punished>>

\* The UPDATE comes second: by then others may have rotated or revoked them.
StartUserRevocation(r) ==
  /\ req[r].phase = "userRead" /\ AccessUnlocked(r, req[r].ids)
  /\ req' = [req EXCEPT ![r].phase = "userIds"]
  /\ UNCHANGED <<tokenVars, swept, punished>>

\* The families of those access tokens, and their refresh tokens.
SnapshotFamilies(r) ==
  /\ req[r].phase = "userIds"
  /\ LET F == {family[p] : p \in req[r].ids} \ {NoPair}
     IN  req' = [req EXCEPT ![r].phase = "userRows", ![r].fams = F,
                            ![r].rows = Unrevoked(Members(F))]
  /\ UNCHANGED <<tokenVars, swept, punished>>

RevokeConnections(r) ==
  LET related == Members(req[r].fams)
  IN  /\ req[r].phase = "userRows"
      /\ RefreshUnlocked(r, req[r].rows) /\ AccessUnlocked(r, related)
      /\ refresh' = Revoke(refresh, req[r].rows)
      /\ access' = Revoke(access, req[r].ids \cup related)
      /\ swept' = swept \cup req[r].rows
      /\ Done(r)
      /\ UNCHANGED <<used, origin, rotated, family, succ, punished>>

-----------------------------------------------------------------------------
(* invalidateUserSessions: every access token, then every refresh token.       *)

StartInvalidation(r) ==
  /\ req[r].phase = "idle"
  /\ LET ids == {p \in Pairs : access[p] \in {"live", "expired"}}
     IN  /\ AccessUnlocked(r, ids)
         /\ req' = [req EXCEPT ![r].phase = "sessionIds", ![r].ids = ids]
  /\ UNCHANGED <<tokenVars, swept, punished>>

SnapshotAll(r) ==
  /\ req[r].phase = "sessionIds"
  /\ req' = [req EXCEPT ![r].phase = "sessionRows", ![r].rows = Unrevoked(Pairs)]
  /\ UNCHANGED <<tokenVars, swept, punished>>

InvalidateUserSessions(r) ==
  /\ req[r].phase = "sessionRows" /\ RefreshUnlocked(r, req[r].rows)
  /\ refresh' = Revoke(refresh, req[r].rows)
  /\ access' = Revoke(access, req[r].ids)
  /\ swept' = swept \cup (req[r].rows \cap req[r].ids)
  /\ Done(r)
  /\ UNCHANGED <<used, origin, rotated, family, succ, punished>>

-----------------------------------------------------------------------------
(* Any open transaction may be rolled back: a later check refuses (expiry,     *)
(* client, family age, membership, passkey), the database picks a deadlock     *)
(* victim, or the process dies.  revokeFamilyOutOfBand only logs its failure.  *)
Abandon(r) ==
  /\ req[r].phase # "idle"
  /\ Done(r)
  /\ UNCHANGED <<tokenVars, swept, punished>>

ExpireAccess(p) ==
  /\ access[p] = "live"
  /\ access' = [access EXCEPT ![p] = "expired"]
  /\ UNCHANGED <<used, origin, refresh, rotated, family, succ, req, swept, punished>>

Next ==
  \/ \E r \in Requests :
       \/ \E c \in Codes : ReadCode(r, c)
       \/ RedeemCode(r)
       \/ RedeemLost(r)
       \/ CreateRefreshToken(r)
       \/ \E p \in Pairs : ReadRefreshToken(r, p)
       \/ \E p \in Pairs : DetectReplay(r, p)
       \/ ClaimRotation(r)
       \/ LoseRace(r)
       \/ MintSuccessor(r)
       \/ ReadFamily(r)
       \/ SnapshotFamily(r)
       \/ RevokeFamilyOutOfBand(r)
       \/ \E p \in Pairs : SnapshotToken(r, p)
       \/ RevokeToken(r)
       \/ \E p \in Pairs : RevokeAccessToken(r, p)
       \/ \E ids \in SUBSET Pairs : ReadUserTokens(r, ids)
       \/ StartUserRevocation(r)
       \/ SnapshotFamilies(r)
       \/ RevokeConnections(r)
       \/ StartInvalidation(r)
       \/ SnapshotAll(r)
       \/ InvalidateUserSessions(r)
       \/ Abandon(r)
  \/ \E p \in Pairs : ExpireAccess(p)

Spec == Init /\ [][Next]_vars

-----------------------------------------------------------------------------
(* Properties.                                                                 *)

\* Rows and requests have their columns' types; a pair without a refresh token
\* is in no family.
TypeOK ==
  /\ used \subseteq Codes
  /\ origin \in [Pairs -> Codes \cup {NoCode}]
  /\ access \in [Pairs -> {"none", "live", "expired", "revoked"}]
  /\ refresh \in [Pairs -> {"none", "live", "revoked"}]
  /\ rotated \subseteq Pairs
  /\ family \in [Pairs -> Pairs \cup {NoPair}]
  /\ succ \in [Pairs -> Pairs \cup {NoPair}]
  /\ req \in [Requests -> Request]
  /\ swept \subseteq Pairs /\ punished \subseteq Pairs
  /\ \A p \in Pairs : family[p] = NoPair <=> refresh[p] = "none"

\* exchangeCodeForToken: however many requests redeem a code at once, it yields
\* one access token, hence at most one family.
OneFamilyPerCode ==
  \A p, q \in Pairs : origin[p] # NoCode /\ origin[p] = origin[q] => p = q

\* exchangeRefreshToken: rotations that race for one token leave a family with
\* at most one token that can still be rotated, and no access token but that
\* token's own is live.
OneHead ==
  /\ \A p, q \in Pairs \ rotated :
       refresh[p] # "none" /\ family[p] = family[q] => p = q
  /\ \A p \in rotated : access[p] = "revoked"

\* revokeFamilyOutOfBand: once the revocation for a reused or raced token has
\* committed, the pair that token was rotated into is dead, whoever holds it.
LoserKillsWinner ==
  \A p \in punished :
    /\ succ[p] # NoPair
    /\ refresh[succ[p]] = "revoked" /\ access[succ[p]] = "revoked"

\* Every pair a committed revocation had in view is dead, whatever rotation,
\* second revocation or expiry it overlapped with.
RevocationSticks ==
  \A p \in swept : refresh[p] = "revoked" /\ access[p] = "revoked"

\* A family is over when no token of it works and no rotation that read its
\* token earlier is still running.
Over(f) ==
  /\ family[f] = f
  /\ \A p \in Members({f}) :
       /\ p \in rotated \/ refresh[p] = "revoked"
       /\ access[p] # "live"
  /\ \A r \in Requests :
       req[r].phase \in {"claim", "mint"} => family[req[r].pair] # f

\* No request brings a family back once it is over.
DeadStaysDead == [][\A f \in Pairs : Over(f) => Over(f)']_vars

=============================================================================
