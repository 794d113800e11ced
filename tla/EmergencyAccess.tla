--------------------------- MODULE EmergencyAccess ---------------------------
(* Emergency access grants of one owner to one grantee:                        *)
(* src/src/lib/emergency-access and the routes under                           *)
(* src/src/app/api/emergency-access, raced with the rotation and the reset of  *)
(* the owner's vault, which disarm the grants in their own transactions.       *)
(*                                                                             *)
(* Every change of status is one UPDATE ... WHERE status IN (...): a step.     *)
(* What a route read before it is a step of its own, and the reads and the     *)
(* update of autoPromoteIfElapsed, one transaction at READ COMMITTED, see the  *)
(* row one after the other.                                                    *)
EXTENDS Integers

CONSTANTS
  Grants,   \* ids of grants
  Requests, \* API requests that may be under way at the same time
  None,     \* no request
  MaxKey,   \* bound: secret keys of the owner
  MaxAsks   \* bound: times the grantee asks for one grant

ASSUME GrantAssumption ==
  None \notin Requests \cup Grants /\ MaxKey \in Nat \ {0} /\ MaxAsks \in Nat \ {0}

VARIABLES
  owner, \* the owner's users row: key version and secret key
  keys,  \* secret keys generated so far
  grant, \* emergency_access_grants and emergency_access_key_pairs
  op     \* per request, what it has read

vars == <<owner, keys, grant, op>>

Statuses == {"PENDING", "ACCEPTED", "IDLE", "STALE", "REQUESTED", "ACTIVATED",
             "REVOKED", "REJECTED"}
Armed == {"IDLE", "REQUESTED", "ACTIVATED"}

\* A secret key is numbered when it is generated; 0 is none.
\* pub, pair: the request whose public key, and whose private key, is stored;
\* enc: the key in encrypted_secret_key; eph: the ephemeral public key without
\* which enc cannot be unwrapped; keyVersion: 0 for null; wait: where now is
\* against wait_expires_at; asks: requests made; late: history, enc was not the
\* owner's key any more when it was stored.
Grant == [status : Statuses \cup {"absent"},
          pub : Requests \cup {None}, pair : Requests \cup {None},
          enc : 0..MaxKey, eph : BOOLEAN, keyVersion : 0..MaxKey,
          wait : {"none", "running", "over"}, asks : 0..MaxAsks, late : BOOLEAN]
NoGrant == [status |-> "absent", pub |-> None, pair |-> None,
            enc |-> 0, eph |-> FALSE, keyVersion |-> 0, wait |-> "none", asks |-> 0,
            late |-> FALSE]

Op == [phase : {"idle", "create", "accept", "escrow", "promote", "claim"},
       grant : Grants \cup {None}, key : 0..MaxKey, keyVersion : 0..MaxKey,
       asks : 0..MaxAsks]
Idle == [phase |-> "idle", grant |-> None, key |-> 0, keyVersion |-> 0, asks |-> 0]

Init ==
  /\ owner = [keyVersion |-> 1, key |-> 1] /\ keys = 1
  /\ grant = [g \in Grants |-> NoGrant]
  /\ op = [r \in Requests |-> Idle]

Exists(g) == grant[g].status # "absent"
Done(r) == op' = [op EXCEPT ![r] = Idle]

-----------------------------------------------------------------------------
(* The state machine.                                                          *)

\* Mutant: a rotation passes over a grant that has been requested.
MutRequestedKept(from, to, actor) ==
  \/ from = "PENDING"   /\ to \in {"ACCEPTED", "REJECTED"} /\ actor = "GRANTEE"
  \/ from = "IDLE"      /\ to = "REQUESTED"                /\ actor = "GRANTEE"
  \/ from = "REQUESTED" /\ to = "ACTIVATED"                /\ actor \in {"OWNER", "SYSTEM"}
  \/ from \in {"ACCEPTED", "STALE", "REQUESTED"} /\ to = "IDLE" /\ actor = "OWNER"
  \/ from \in {"IDLE", "ACTIVATED"} /\ to = "STALE"        /\ actor = "SYSTEM"
  \/ from \in {"PENDING", "ACCEPTED", "STALE"} \cup Armed /\ to = "REVOKED" /\ actor = "OWNER"

\* MATRIX: who may take a grant from one status to another.
Allowed(from, to, actor) ==
  \/ from = "PENDING"   /\ to \in {"ACCEPTED", "REJECTED"} /\ actor = "GRANTEE"
  \/ from = "IDLE"      /\ to = "REQUESTED"                /\ actor = "GRANTEE"
  \/ from = "REQUESTED" /\ to = "ACTIVATED"                /\ actor \in {"OWNER", "SYSTEM"}
  \/ from \in {"ACCEPTED", "STALE", "REQUESTED"} /\ to = "IDLE" /\ actor = "OWNER"
  \/ from \in Armed     /\ to = "STALE"                    /\ actor = "SYSTEM"
  \/ from \in {"PENDING", "ACCEPTED", "STALE"} \cup Armed /\ to = "REVOKED" /\ actor = "OWNER"

CanTransition(g, to, actor) == Allowed(grant[g].status, to, actor)

\* transition: new is the row with the update's other columns.
Transition(g, to, actor, new) ==
  /\ CanTransition(g, to, actor)
  /\ grant' = [grant EXCEPT ![g] = [new EXCEPT !.status = to]]

-----------------------------------------------------------------------------
(* Invitation.                                                                 *)

\* The search for a grant to the same grantee and the insertion are two transactions.
ReadNoDuplicate(r) ==
  /\ op[r].phase = "idle"
  /\ \A g \in Grants : grant[g].status \in {"absent", "REVOKED", "REJECTED"}
  /\ op' = [op EXCEPT ![r].phase = "create"]
  /\ UNCHANGED <<owner, keys, grant>>

CreateGrant(r, g) ==
  /\ op[r].phase = "create" /\ ~Exists(g)
  /\ grant' = [grant EXCEPT ![g].status = "PENDING"]
  /\ Done(r)
  /\ UNCHANGED <<owner, keys>>

\* The status is not looked at before the update; an invitation that has expired
\* ends here.
ReadInvitation(r, g) ==
  /\ op[r].phase = "idle" /\ Exists(g)
  /\ op' = [op EXCEPT ![r].phase = "accept", ![r].grant = g]
  /\ UNCHANGED <<owner, keys, grant>>

\* Mutant: the key pair is stored whether or not the update matched.
MutPairAnyway(r) ==
  LET g == op[r].grant
      row == [grant[g] EXCEPT !.pair = r]
  IN  /\ op[r].phase = "accept"
      /\ grant' = [grant EXCEPT ![g] =
           IF CanTransition(g, "ACCEPTED", "GRANTEE")
             THEN [row EXCEPT !.status = "ACCEPTED", !.pub = r] ELSE row]
      /\ Done(r)
      /\ UNCHANGED <<owner, keys>>

\* Status and public key, then the key pair, in one transaction.
AcceptGrant(r) ==
  /\ op[r].phase = "accept"
  /\ Transition(op[r].grant, "ACCEPTED", "GRANTEE",
                [grant[op[r].grant] EXCEPT !.pub = r, !.pair = r])
  /\ Done(r)
  /\ UNCHANGED <<owner, keys>>

DeclineGrant(g) ==
  /\ Transition(g, "REJECTED", "GRANTEE", grant[g])
  /\ UNCHANGED <<owner, keys, op>>

-----------------------------------------------------------------------------
(* Escrow.                                                                     *)

\* The request brings the key its device holds, which may be an older one.  Of
\* the grant the route reads only what never changes, so that read and the one of
\* the key version are a single step.
ReadKeyVersion(r, g, key) ==
  /\ op[r].phase = "idle" /\ Exists(g)
  /\ op' = [op EXCEPT ![r].phase = "escrow", ![r].grant = g, ![r].key = key,
                      ![r].keyVersion = owner.keyVersion]
  /\ UNCHANGED <<owner, keys, grant>>

Escrowed(r) ==
  [grant[op[r].grant] EXCEPT !.enc = op[r].key, !.eph = TRUE,
     !.keyVersion = op[r].keyVersion, !.late = op[r].key # owner.key]

\* Mutant: the escrow is stored whatever has become of the grant.
MutConfirmAnyway(r) ==
  /\ op[r].phase = "escrow"
  /\ grant' = [grant EXCEPT ![op[r].grant] = [Escrowed(r) EXCEPT !.status = "IDLE"]]
  /\ Done(r)
  /\ UNCHANGED <<owner, keys>>

ConfirmGrant(r) ==
  /\ op[r].phase = "escrow"
  /\ Transition(op[r].grant, "IDLE", "OWNER", Escrowed(r))
  /\ Done(r)
  /\ UNCHANGED <<owner, keys>>

-----------------------------------------------------------------------------
(* Request, approval and the promotion of a request whose wait is over.        *)

RequestAccess(g) ==
  /\ grant[g].asks < MaxAsks
  /\ Transition(g, "REQUESTED", "GRANTEE",
                [grant[g] EXCEPT !.wait = "running", !.asks = @ + 1])
  /\ UNCHANGED <<owner, keys, op>>

\* The wait is looked at in a requested grant only, and every request sets it anew.
WaitElapses(g) ==
  /\ grant[g].status = "REQUESTED" /\ grant[g].wait = "running"
  /\ grant' = [grant EXCEPT ![g].wait = "over"]
  /\ UNCHANGED <<owner, keys, op>>

ApproveRequest(g) ==
  /\ Transition(g, "ACTIVATED", "OWNER", grant[g])
  /\ UNCHANGED <<owner, keys, op>>

Elapsed(g) == grant[g].status = "REQUESTED" /\ grant[g].wait = "over"

\* GET vault reads the grant outside the transaction of the promotion.
ReadVault(r, g) ==
  /\ op[r].phase = "idle" /\ Elapsed(g)
  /\ op' = [op EXCEPT ![r].phase = "promote", ![r].grant = g]
  /\ UNCHANGED <<owner, keys, grant>>

\* Mutant: the promotion relies on what the route has read.
MutNotReadAgain(r) ==
  /\ op[r].phase = "promote"
  /\ op' = [op EXCEPT ![r].phase = "claim", ![r].asks = grant[op[r].grant].asks]
  /\ UNCHANGED <<owner, keys, grant>>

ReadElapsed(r) ==
  /\ op[r].phase = "promote" /\ Elapsed(op[r].grant)
  /\ op' = [op EXCEPT ![r].phase = "claim", ![r].asks = grant[op[r].grant].asks]
  /\ UNCHANGED <<owner, keys, grant>>

AutoPromote(r) ==
  /\ op[r].phase = "claim"
  /\ Transition(op[r].grant, "ACTIVATED", "SYSTEM", grant[op[r].grant])
  /\ Done(r)
  /\ UNCHANGED <<owner, keys>>

-----------------------------------------------------------------------------
(* Revocation by the owner, by a rotation of the vault key and by a reset.     *)

\* permanent = false takes back a request, and any other way to IDLE that the
\* matrix gives the owner.
RejectRequest(g) ==
  /\ Transition(g, "IDLE", "OWNER", [grant[g] EXCEPT !.wait = "none"])
  /\ UNCHANGED <<owner, keys, op>>

RevokeGrant(g) ==
  /\ Transition(g, "REVOKED", "OWNER", [grant[g] EXCEPT !.enc = 0, !.eph = FALSE])
  /\ UNCHANGED <<owner, keys, op>>

\* markGrantsStaleForOwner, in the transaction of the rotation.
MarkGrantsStale(newKeyVersion) ==
  grant' = [g \in Grants |->
    IF CanTransition(g, "STALE", "SYSTEM") /\ grant[g].keyVersion < newKeyVersion
      THEN [grant[g] EXCEPT !.status = "STALE", !.eph = FALSE]
      ELSE grant[g]]

RotateKey ==
  /\ owner.keyVersion # 0 /\ keys < MaxKey
  /\ keys' = keys + 1
  /\ owner' = [keyVersion |-> owner.keyVersion + 1, key |-> keys + 1]
  /\ MarkGrantsStale(owner.keyVersion + 1)
  /\ UNCHANGED op

\* The columns of the escrow are kept.
ResetVault ==
  /\ owner.keyVersion # 0
  /\ owner' = [keyVersion |-> 0, key |-> 0]
  /\ grant' = [g \in Grants |->
       IF CanTransition(g, "REVOKED", "OWNER") THEN [grant[g] EXCEPT !.status = "REVOKED"]
                                               ELSE grant[g]]
  /\ UNCHANGED <<keys, op>>

SetupVault ==
  /\ owner.keyVersion = 0 /\ keys < MaxKey
  /\ keys' = keys + 1
  /\ owner' = [keyVersion |-> 1, key |-> keys + 1]
  /\ UNCHANGED <<grant, op>>

\* A check refuses, an update matches no row, or the request is broken off.
Abandon(r) ==
  /\ op[r].phase # "idle"
  /\ Done(r)
  /\ UNCHANGED <<owner, keys, grant>>

Next ==
  \/ \E r \in Requests :
       \/ ReadNoDuplicate(r)
       \/ \E g \in Grants :
            \/ CreateGrant(r, g)
            \/ ReadInvitation(r, g)
            \/ \E key \in 1..keys : ReadKeyVersion(r, g, key)
            \/ ReadVault(r, g)
       \/ AcceptGrant(r)
       \/ ConfirmGrant(r)
       \/ ReadElapsed(r)
       \/ AutoPromote(r)
       \/ Abandon(r)
  \/ \E g \in Grants :
       \/ DeclineGrant(g)
       \/ RequestAccess(g)
       \/ WaitElapses(g)
       \/ ApproveRequest(g)
       \/ RejectRequest(g)
       \/ RevokeGrant(g)
  \/ RotateKey
  \/ ResetVault
  \/ SetupVault

Spec == Init /\ [][Next]_vars

-----------------------------------------------------------------------------
(* Properties.                                                                 *)

\* The columns have their types.
TypeOK ==
  /\ owner \in [keyVersion : 0..MaxKey, key : 0..MaxKey]
  /\ keys \in 1..MaxKey
  /\ grant \in [Grants -> Grant]
  /\ op \in [Requests -> Op]

\* markGrantsStaleForOwner: whatever status a grant is in when the owner's key is
\* rotated, and whatever route it takes afterwards, an escrow that can be
\* unwrapped holds the owner's present key; except one that already was of an older
\* key when it was stored: its confirmation began before the rotation, or came from
\* a device that had not heard of it.
NoStaleEscrow ==
  \A g \in Grants :
    grant[g].status \in Armed /\ grant[g].eph /\ ~grant[g].late =>
      grant[g].enc = owner.key

\* The public key the owner encrypts for and the private key the grantee gets
\* back come from the same acceptance, and every grant past its invitation has both.
KeysMatch ==
  \A g \in Grants :
    /\ grant[g].pub = grant[g].pair
    /\ grant[g].status \in Armed \cup {"ACCEPTED", "STALE"} => grant[g].pub # None
    /\ grant[g].status \in {"PENDING", "REJECTED"} => grant[g].pair = None

\* confirm, approve, request and promotion against a revocation or a refusal that
\* commits between their read and their update: what is over stays over, and no
\* escrow is put back.
OverStaysOver ==
  [][\A g \in Grants : grant[g].status \in {"REVOKED", "REJECTED"} =>
       grant'[g] = grant[g]]_vars

\* A request is activated by the owner's approval or by its own wait being over;
\* except by a promotion that found an earlier request's wait over before the
\* owner refused that one.
WaitIsServed ==
  [][\A g \in Grants :
       grant[g].status # "ACTIVATED" /\ grant'[g].status = "ACTIVATED" =>
         \/ ApproveRequest(g)
         \/ grant[g].wait = "over"
         \/ \E r \in Requests : op[r].phase = "claim" /\ op[r].grant = g
                                /\ op[r].asks < grant[g].asks]_vars
=============================================================================
