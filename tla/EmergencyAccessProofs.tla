------------------------ MODULE EmergencyAccessProofs ------------------------
(* What the state machine of emergency access guarantees for any number of     *)
(* grants, of requests under way, of keys and of requests for access.          *)
EXTENDS EmergencyAccess, TLAPS

Final == {"REVOKED", "REJECTED"}

\* Key version and key of the owner come and go together.
OwnerInv ==
  /\ owner.keyVersion <= keys
  /\ owner.keyVersion = 0 => owner.key = 0

\* What a row holds, by its status: nothing before the invitation, no usable
\* escrow before the confirmation and after a rotation, a key in a usable one, and
\* no version the owner has not had since the last reset.
RowInv ==
  \A g \in Grants :
    /\ grant[g].status = "absent" => grant[g] = NoGrant
    /\ grant[g].status \in {"PENDING", "ACCEPTED", "STALE"} => ~grant[g].eph
    /\ grant[g].eph => grant[g].enc # 0
    /\ grant[g].status \notin Final => grant[g].keyVersion <= owner.keyVersion

\* What a request remembers still fits the row it was read from.
OpInv ==
  \A r \in Requests :
    /\ op[r].phase \in {"accept", "escrow", "promote", "claim"} =>
         op[r].grant \in Grants /\ Exists(op[r].grant)
    /\ op[r].phase = "escrow" =>
         /\ op[r].key # 0
         /\ grant[op[r].grant].status \in Final \/ op[r].keyVersion <= owner.keyVersion
    /\ op[r].phase = "claim" =>
         /\ op[r].asks <= grant[op[r].grant].asks
         /\ op[r].asks = grant[op[r].grant].asks
              /\ grant[op[r].grant].status = "REQUESTED"
            => grant[op[r].grant].wait = "over"

Inv == TypeOK /\ OwnerInv /\ RowInv /\ OpInv /\ NoStaleEscrow /\ KeysMatch

-----------------------------------------------------------------------------
\* The rows of MATRIX, read by target: from which status each actor gets there.
LEMMA Matrix ==
  ASSUME NEW from \in Statuses \cup {"absent"}
  PROVE  /\ Allowed(from, "ACCEPTED", "GRANTEE") <=> from = "PENDING"
         /\ Allowed(from, "REJECTED", "GRANTEE") <=> from = "PENDING"
         /\ Allowed(from, "REQUESTED", "GRANTEE") <=> from = "IDLE"
         /\ Allowed(from, "ACTIVATED", "OWNER") <=> from = "REQUESTED"
         /\ Allowed(from, "ACTIVATED", "SYSTEM") <=> from = "REQUESTED"
         /\ Allowed(from, "IDLE", "OWNER") <=> from \in {"ACCEPTED", "STALE", "REQUESTED"}
         /\ Allowed(from, "STALE", "SYSTEM") <=> from \in Armed
         /\ Allowed(from, "REVOKED", "OWNER") <=> from \notin Final \cup {"absent"}
  BY DEF Allowed, Armed, Statuses, Final

\* The initial state satisfies the inductive invariant.
LEMMA InitInv == Init => Inv
  BY GrantAssumption
  DEF Init, Inv, TypeOK, OwnerInv, RowInv, OpInv, NoStaleEscrow, KeysMatch, Grant, NoGrant,
      Op, Idle, Armed, Statuses, Final, Exists

\* A step of one grant's row by its compare-and-set, stated for all of them: what
\* the new row must satisfy for the parts of the invariant about grants to hold.
LEMMA RowStep ==
  ASSUME Inv, NEW g \in Grants, NEW row \in Grant,
         UNCHANGED <<owner, keys>>, grant' = [grant EXCEPT ![g] = row],
         row.status # "absent",
         row.status \in {"PENDING", "ACCEPTED", "STALE"} => ~row.eph,
         row.eph => row.enc # 0,
         row.status \notin Final => row.keyVersion <= owner.keyVersion,
         row.status \in Armed /\ row.eph /\ ~row.late => row.enc = owner.key,
         row.pub = row.pair,
         row.status \in Armed \cup {"ACCEPTED", "STALE"} => row.pub # None,
         row.status \in {"PENDING", "REJECTED"} => row.pair = None
  PROVE  /\ owner' \in [keyVersion : 0..MaxKey, key : 0..MaxKey] /\ keys' \in 1..MaxKey
         /\ grant' \in [Grants -> Grant]
         /\ OwnerInv' /\ RowInv' /\ NoStaleEscrow' /\ KeysMatch'
  <1>1. grant \in [Grants -> Grant] BY DEF Inv, TypeOK
  <1>2. \A h \in Grants : grant'[h] = IF h = g THEN row ELSE grant[h] BY <1>1
  <1>3. grant' \in [Grants -> Grant] BY <1>1, <1>2
  <1>4. RowInv' BY <1>2 DEF Inv, RowInv
  <1>5. NoStaleEscrow' BY <1>2 DEF Inv, NoStaleEscrow
  <1>6. KeysMatch' BY <1>2 DEF Inv, KeysMatch
  <1>7. QED BY <1>3, <1>4, <1>5, <1>6 DEF Inv, TypeOK, OwnerInv

\* The requests' part of the invariant after such a step: a row may be over, and
\* otherwise its asks do not go back and a wait that is over is not taken back
\* without a new request.
LEMMA OpStep ==
  ASSUME Inv, NEW g \in Grants, NEW row \in Grant,
         UNCHANGED <<owner, keys>>, grant' = [grant EXCEPT ![g] = row],
         row.status # "absent",
         grant[g].status \notin Final,
         \/ row.asks > grant[g].asks
         \/ row.asks = grant[g].asks /\
              (row.status = "REQUESTED" =>
                 grant[g].status = "REQUESTED" /\ (grant[g].wait = "over" => row.wait = "over")),
         op' \in [Requests -> Op],
         \A r \in Requests : op'[r] = op[r] \/ op'[r] = Idle
  PROVE  op' \in [Requests -> Op] /\ OpInv'
  <1>1. grant \in [Grants -> Grant] BY DEF Inv, TypeOK
  <1>2. \A h \in Grants : grant'[h] = IF h = g THEN row ELSE grant[h] BY <1>1
  <1>3. \A h \in Grants : grant[h].asks \in Nat /\ grant'[h].asks \in Nat
    BY <1>1, <1>2, GrantAssumption DEF Grant
  <1>4. \A r \in Requests : op[r].asks \in Nat /\ op[r].keyVersion \in Nat
    BY GrantAssumption DEF Inv, TypeOK, Op
  <1>5. SUFFICES ASSUME NEW r \in Requests, op'[r] = op[r]
                 PROVE  OpInv!(r)'
    BY DEF OpInv, Idle
  <1>6. QED BY <1>2, <1>3, <1>4, <1>5 DEF Inv, OpInv, Exists

\* The steps of one row, by their compare-and-set on its status.
TransitionStep(g) ==
  \/ DeclineGrant(g) \/ RequestAccess(g) \/ WaitElapses(g) \/ ApproveRequest(g)
  \/ RejectRequest(g) \/ RevokeGrant(g)

\* They preserve the invariant, and leave a row that is over as it is.
LEMMA TransitionInv ==
  ASSUME Inv, NEW g \in Grants, TransitionStep(g)
  PROVE  Inv' /\ grant[g].status \notin Final /\ \A h \in Grants \ {g} : grant'[h] = grant[h]
  <1>1. grant \in [Grants -> Grant] /\ grant[g] \in Grant /\ op \in [Requests -> Op]
    BY DEF Inv, TypeOK
  <1>2. grant[g].status \in Statuses \cup {"absent"} BY <1>1 DEF Grant
  <1>3. grant[g].asks \in Nat /\ MaxAsks \in Nat BY <1>1, GrantAssumption DEF Grant
  <1>4. UNCHANGED <<owner, keys, op>>
    BY DEF TransitionStep, DeclineGrant, RequestAccess, WaitElapses, ApproveRequest,
           RejectRequest, RevokeGrant
  <1>5. PICK row :
          /\ grant' = [grant EXCEPT ![g] = row] /\ row \in Grant
          /\ row.status # "absent" /\ grant[g].status \notin Final \cup {"absent"}
          /\ row.status \in {"PENDING", "ACCEPTED", "STALE"} =>
               row.status = grant[g].status
          /\ row.status = "REJECTED" => grant[g].status = "PENDING"
          /\ row.status \in Armed => grant[g].status # "PENDING"
          /\ row.eph => grant[g].eph /\ row.enc = grant[g].enc
          /\ row.keyVersion = grant[g].keyVersion /\ row.late = grant[g].late
          /\ row.pub = grant[g].pub /\ row.pair = grant[g].pair
          /\ \/ row.asks > grant[g].asks
             \/ row.asks = grant[g].asks /\
                  (row.status = "REQUESTED" => grant[g].status = "REQUESTED"
                                               /\ row.wait = "over")
    <2>1. CASE DeclineGrant(g)
      <3> DEFINE row == [grant[g] EXCEPT !.status = "REJECTED"]
      <3>1. grant[g].status = "PENDING" /\ grant' = [grant EXCEPT ![g] = row]
        BY <2>1, <1>2, Matrix DEF DeclineGrant, Transition, CanTransition
      <3>2. row \in Grant BY <1>1 DEF Grant, Statuses
      <3>3. /\ row.status = "REJECTED" /\ row.pub = grant[g].pub /\ row.pair = grant[g].pair
            /\ row.enc = grant[g].enc /\ row.eph = grant[g].eph /\ row.keyVersion = grant[g].keyVersion
            /\ row.wait = grant[g].wait /\ row.asks = grant[g].asks /\ row.late = grant[g].late
        BY <1>1 DEF Grant
      <3> HIDE DEF row
      <3>4. QED BY <3>1, <3>2, <3>3, <1>3 DEF Final, Armed
    <2>2. CASE RequestAccess(g)
      <3> DEFINE row == [[grant[g] EXCEPT !.wait = "running", !.asks = @ + 1]
                           EXCEPT !.status = "REQUESTED"]
      <3>1. grant[g].status = "IDLE" /\ grant' = [grant EXCEPT ![g] = row]
        BY <2>2, <1>2, Matrix DEF RequestAccess, Transition, CanTransition
      <3>0. grant[g].asks + 1 \in 0..MaxAsks BY <2>2, <1>3 DEF RequestAccess
      <3>2. row \in Grant BY <1>1, <3>0 DEF Grant, Statuses
      <3>3. /\ row.status = "REQUESTED" /\ row.pub = grant[g].pub /\ row.pair = grant[g].pair
            /\ row.enc = grant[g].enc /\ row.eph = grant[g].eph /\ row.keyVersion = grant[g].keyVersion
            /\ row.wait = "running" /\ row.asks = grant[g].asks + 1 /\ row.late = grant[g].late
        BY <1>1 DEF Grant
      <3> HIDE DEF row
      <3>4. row.asks > grant[g].asks BY <3>3, <1>3
      <3>5. QED BY <3>1, <3>2, <3>3, <3>4 DEF Final, Armed
    <2>3. CASE WaitElapses(g)
      <3> DEFINE row == [grant[g] EXCEPT !.wait = "over"]
      <3>1. grant[g].status = "REQUESTED" /\ grant' = [grant EXCEPT ![g] = row]
        BY <2>3, <1>1 DEF WaitElapses
      <3>2. row \in Grant BY <1>1 DEF Grant
      <3>3. /\ row.status = grant[g].status /\ row.pub = grant[g].pub /\ row.pair = grant[g].pair
            /\ row.enc = grant[g].enc /\ row.eph = grant[g].eph /\ row.keyVersion = grant[g].keyVersion
            /\ row.wait = "over" /\ row.asks = grant[g].asks /\ row.late = grant[g].late
        BY <1>1 DEF Grant
      <3> HIDE DEF row
      <3>4. QED BY <3>1, <3>2, <3>3, <1>3 DEF Final, Armed
    <2>4. CASE ApproveRequest(g)
      <3> DEFINE row == [grant[g] EXCEPT !.status = "ACTIVATED"]
      <3>1. grant[g].status = "REQUESTED" /\ grant' = [grant EXCEPT ![g] = row]
        BY <2>4, <1>2, Matrix DEF ApproveRequest, Transition, CanTransition
      <3>2. row \in Grant BY <1>1 DEF Grant, Statuses
      <3>3. /\ row.status = "ACTIVATED" /\ row.pub = grant[g].pub /\ row.pair = grant[g].pair
            /\ row.enc = grant[g].enc /\ row.eph = grant[g].eph /\ row.keyVersion = grant[g].keyVersion
            /\ row.wait = grant[g].wait /\ row.asks = grant[g].asks /\ row.late = grant[g].late
        BY <1>1 DEF Grant
      <3> HIDE DEF row
      <3>4. QED BY <3>1, <3>2, <3>3, <1>3 DEF Final, Armed
    <2>5. CASE RejectRequest(g)
      <3> DEFINE row == [[grant[g] EXCEPT !.wait = "none"] EXCEPT !.status = "IDLE"]
      <3>1. /\ grant[g].status \in {"ACCEPTED", "STALE", "REQUESTED"}
            /\ grant' = [grant EXCEPT ![g] = row]
        BY <2>5, <1>2, Matrix DEF RejectRequest, Transition, CanTransition
      <3>2. row \in Grant BY <1>1 DEF Grant, Statuses
      <3>3. /\ row.status = "IDLE" /\ row.pub = grant[g].pub /\ row.pair = grant[g].pair
            /\ row.enc = grant[g].enc /\ row.eph = grant[g].eph /\ row.keyVersion = grant[g].keyVersion
            /\ row.wait = "none" /\ row.asks = grant[g].asks /\ row.late = grant[g].late
        BY <1>1 DEF Grant
      <3> HIDE DEF row
      <3>4. QED BY <3>1, <3>2, <3>3, <1>3 DEF Final, Armed
    <2>6. CASE RevokeGrant(g)
      <3> DEFINE row == [[grant[g] EXCEPT !.enc = 0, !.eph = FALSE] EXCEPT !.status = "REVOKED"]
      <3>1. /\ grant[g].status \notin Final \cup {"absent"}
            /\ grant' = [grant EXCEPT ![g] = row]
        BY <2>6, <1>2, Matrix DEF RevokeGrant, Transition, CanTransition
      <3>2. row \in Grant
        <4>1. 0 \in 0..MaxKey BY GrantAssumption
        <4>2. QED BY <1>1, <4>1 DEF Grant, Statuses
      <3>3. /\ row.status = "REVOKED" /\ row.pub = grant[g].pub /\ row.pair = grant[g].pair
            /\ row.enc = 0 /\ row.eph = FALSE /\ row.keyVersion = grant[g].keyVersion
            /\ row.wait = grant[g].wait /\ row.asks = grant[g].asks /\ row.late = grant[g].late
        BY <1>1 DEF Grant
      <3> HIDE DEF row
      <3>4. QED BY <3>1, <3>2, <3>3, <1>3 DEF Final, Armed
    <2>7. QED BY <2>1, <2>2, <2>3, <2>4, <2>5, <2>6 DEF TransitionStep
  <1>6. /\ grant[g].status \in {"PENDING", "ACCEPTED", "STALE"} => ~grant[g].eph
        /\ grant[g].eph => grant[g].enc # 0
        /\ grant[g].keyVersion <= owner.keyVersion
    BY <1>5 DEF Inv, RowInv
  <1>7. /\ grant[g].status \in Armed /\ grant[g].eph /\ ~grant[g].late =>
             grant[g].enc = owner.key
        /\ grant[g].pub = grant[g].pair
        /\ grant[g].status \in Armed \cup {"ACCEPTED", "STALE"} => grant[g].pub # None
        /\ grant[g].status \in {"PENDING", "REJECTED"} => grant[g].pair = None
    BY DEF Inv, NoStaleEscrow, KeysMatch
  <1>8. /\ row.status \in Armed /\ row.eph /\ ~row.late => row.enc = owner.key
        /\ row.status \in Armed \cup {"ACCEPTED", "STALE"} => row.pub # None
        /\ row.status \in {"PENDING", "REJECTED"} => row.pair = None
    BY <1>5, <1>6, <1>7, <1>2 DEF Armed, Final, Statuses
  <1>9. /\ owner' \in [keyVersion : 0..MaxKey, key : 0..MaxKey] /\ keys' \in 1..MaxKey
        /\ grant' \in [Grants -> Grant]
        /\ OwnerInv' /\ RowInv' /\ NoStaleEscrow' /\ KeysMatch'
    BY <1>4, <1>5, <1>6, <1>7, <1>8, RowStep
  <1>10. op' \in [Requests -> Op] /\ OpInv'
    BY <1>1, <1>4, <1>5, OpStep
  <1>11. QED BY <1>1, <1>5, <1>9, <1>10 DEF Inv, TypeOK

\* Steps that only read: the row exists now, and what is remembered is what it holds.
LEMMA ReadInv ==
  ASSUME Inv, NEW r \in Requests, UNCHANGED <<owner, keys, grant>>,
         \/ ReadNoDuplicate(r) \/ ReadElapsed(r) \/ Abandon(r)
         \/ \E g \in Grants :
              \/ ReadInvitation(r, g) \/ ReadVault(r, g)
              \/ \E key \in 1..keys : ReadKeyVersion(r, g, key)
  PROVE  Inv'
  <1>1. op \in [Requests -> Op] /\ grant \in [Grants -> Grant] /\ keys \in 1..MaxKey
        /\ owner \in [keyVersion : 0..MaxKey, key : 0..MaxKey]
    BY DEF Inv, TypeOK
  <1>2. op[r] \in Op BY <1>1
  <1>3. PICK new : op' = [op EXCEPT ![r] = new] /\ new \in Op
          /\ (new.phase \in {"accept", "escrow", "promote", "claim"} =>
                new.grant \in Grants /\ Exists(new.grant))
          /\ (new.phase = "escrow" => new.key # 0 /\ new.keyVersion = owner.keyVersion)
          /\ (new.phase = "claim" => new.asks = grant[new.grant].asks
                                     /\ grant[new.grant].wait = "over")
    <2>1. CASE ReadNoDuplicate(r)
      <3> DEFINE new == [op[r] EXCEPT !.phase = "create"]
      <3>1. op' = [op EXCEPT ![r] = new] BY <2>1, <1>1 DEF ReadNoDuplicate
      <3>2. new \in Op /\ new.phase = "create" BY <1>2 DEF Op
      <3> HIDE DEF new
      <3>3. QED BY <3>1, <3>2
    <2>2. CASE ReadElapsed(r)
      <3> DEFINE g == op[r].grant
                 new == [op[r] EXCEPT !.phase = "claim", !.asks = grant[g].asks]
      <3>1. op' = [op EXCEPT ![r] = new] /\ op[r].phase = "promote" /\ Elapsed(g)
        BY <2>2, <1>1 DEF ReadElapsed
      <3>2. g \in Grants /\ Exists(g) BY <3>1 DEF Inv, OpInv
      <3>3. grant[g].asks \in 0..MaxAsks BY <1>1, <3>2 DEF Grant
      <3>4. new \in Op /\ new.phase = "claim" /\ new.grant = g /\ new.asks = grant[g].asks
        BY <1>2, <3>3 DEF Op
      <3>5. grant[g].wait = "over" BY <3>1 DEF Elapsed
      <3> HIDE DEF new
      <3>6. QED BY <3>1, <3>2, <3>4, <3>5
    <2>3. CASE Abandon(r)
      <3>1. op' = [op EXCEPT ![r] = Idle] BY <2>3 DEF Abandon, Done
      <3>2. Idle \in Op /\ Idle.phase = "idle" BY GrantAssumption DEF Idle, Op
      <3>3. QED BY <3>1, <3>2
    <2>4. CASE \E g \in Grants : ReadInvitation(r, g)
      <3>1. PICK g \in Grants : ReadInvitation(r, g) BY <2>4
      <3> DEFINE new == [op[r] EXCEPT !.phase = "accept", !.grant = g]
      <3>2. op' = [op EXCEPT ![r] = new] /\ Exists(g) BY <3>1, <1>1 DEF ReadInvitation
      <3>3. new \in Op /\ new.phase = "accept" /\ new.grant = g BY <1>2 DEF Op
      <3> HIDE DEF new
      <3>4. QED BY <3>2, <3>3
    <2>5. CASE \E g \in Grants : ReadVault(r, g)
      <3>1. PICK g \in Grants : ReadVault(r, g) BY <2>5
      <3> DEFINE new == [op[r] EXCEPT !.phase = "promote", !.grant = g]
      <3>2. op' = [op EXCEPT ![r] = new] /\ Exists(g)
        BY <3>1, <1>1 DEF ReadVault, Elapsed, Exists
      <3>3. new \in Op /\ new.phase = "promote" /\ new.grant = g BY <1>2 DEF Op
      <3> HIDE DEF new
      <3>4. QED BY <3>2, <3>3
    <2>6. CASE \E g \in Grants : \E key \in 1..keys : ReadKeyVersion(r, g, key)
      <3>1. PICK g \in Grants, key \in 1..keys : ReadKeyVersion(r, g, key) BY <2>6
      <3> DEFINE new == [op[r] EXCEPT !.phase = "escrow", !.grant = g, !.key = key,
                                      !.keyVersion = owner.keyVersion]
      <3>2. op' = [op EXCEPT ![r] = new] /\ Exists(g) BY <3>1, <1>1 DEF ReadKeyVersion
      <3>3. key \in 0..MaxKey /\ key # 0 BY <1>1, GrantAssumption
      <3>4. owner.keyVersion \in 0..MaxKey BY <1>1
      <3>5. /\ new \in Op /\ new.phase = "escrow" /\ new.grant = g /\ new.key = key
            /\ new.keyVersion = owner.keyVersion
        BY <1>2, <3>3, <3>4 DEF Op
      <3> HIDE DEF new
      <3>6. QED BY <3>2, <3>3, <3>5
    <2>7. QED BY <2>1, <2>2, <2>3, <2>4, <2>5, <2>6
  <1>4. \A q \in Requests : op'[q] = IF q = r THEN new ELSE op[q] BY <1>1, <1>3
  <1>5. op' \in [Requests -> Op] BY <1>1, <1>3
  <1>6. OpInv'
    <2>1. new.phase = "claim" => new.asks \in Nat BY <1>3, GrantAssumption DEF Op
    <2>2. owner.keyVersion \in Nat BY <1>1, GrantAssumption
    <2>3. QED BY <1>3, <1>4, <2>1, <2>2 DEF Inv, OpInv, Exists
  <1>7. QED BY <1>5, <1>6 DEF Inv, TypeOK, OwnerInv, RowInv, NoStaleEscrow, KeysMatch

\* Steps of a request that end in the update of one row.
UpdateStep(r) ==
  \/ \E g \in Grants : CreateGrant(r, g)
  \/ AcceptGrant(r) \/ ConfirmGrant(r) \/ AutoPromote(r)

\* They preserve the invariant and touch no row that is over.  The grant of an
\* escrow that was read before a reset is over, so a confirmation that gets
\* through stores a version the owner still has.
LEMMA UpdateInv ==
  ASSUME Inv, NEW r \in Requests, UpdateStep(r)
  PROVE  /\ Inv'
         /\ \A h \in Grants : grant[h].status \in Final => grant'[h] = grant[h]
  <1>1. grant \in [Grants -> Grant] /\ op \in [Requests -> Op] /\ op[r] \in Op
        /\ owner \in [keyVersion : 0..MaxKey, key : 0..MaxKey]
    BY DEF Inv, TypeOK
  <1>2. UNCHANGED <<owner, keys>> /\ op' = [op EXCEPT ![r] = Idle]
    BY DEF UpdateStep, CreateGrant, AcceptGrant, ConfirmGrant, AutoPromote, Done
  <1>3. op' \in [Requests -> Op] /\ \A q \in Requests : op'[q] = op[q] \/ op'[q] = Idle
    <2>1. Idle \in Op BY GrantAssumption DEF Idle, Op
    <2>2. QED BY <1>1, <1>2, <2>1
  <1>4. PICK g \in Grants, row \in Grant :
          /\ grant' = [grant EXCEPT ![g] = row]
          /\ row.status # "absent" /\ grant[g].status \notin Final
          /\ row.status \in {"PENDING", "ACCEPTED", "STALE"} => ~row.eph
          /\ row.eph => row.enc # 0
          /\ row.status \notin Final => row.keyVersion <= owner.keyVersion
          /\ row.status \in Armed /\ row.eph /\ ~row.late => row.enc = owner.key
          /\ row.pub = row.pair
          /\ row.status \in Armed \cup {"ACCEPTED", "STALE"} => row.pub # None
          /\ row.status \in {"PENDING", "REJECTED"} => row.pair = None
          /\ row.asks = grant[g].asks /\ row.status # "REQUESTED"
    <2>1. CASE \E g \in Grants : CreateGrant(r, g)
      <3>1. PICK g \in Grants : CreateGrant(r, g) BY <2>1
      <3> DEFINE row == [NoGrant EXCEPT !.status = "PENDING"]
      <3>2. grant[g] = NoGrant /\ grant' = [grant EXCEPT ![g] = row]
        BY <3>1, <1>1 DEF CreateGrant, Exists, Inv, RowInv
      <3>3. row \in Grant
        <4>1. NoGrant \in Grant BY <1>1, <3>2
        <4>2. QED BY <4>1 DEF Grant, Statuses
      <3>4. /\ row.status = "PENDING" /\ ~row.eph /\ row.keyVersion = 0 /\ row.asks = 0
            /\ row.pub = None /\ row.pair = None
            /\ grant[g].status = "absent" /\ grant[g].asks = 0
        BY <3>2 DEF NoGrant
      <3>5. 0 <= owner.keyVersion BY <1>1
      <3> HIDE DEF row
      <3>6. QED BY <3>2, <3>3, <3>4, <3>5 DEF Armed, Final
    <2>2. CASE AcceptGrant(r)
      <3> DEFINE g == op[r].grant
                 row == [[grant[g] EXCEPT !.pub = r, !.pair = r] EXCEPT !.status = "ACCEPTED"]
      <3>1. g \in Grants BY <2>2 DEF AcceptGrant, Inv, OpInv
      <3>2. grant[g] \in Grant /\ grant[g].status \in Statuses \cup {"absent"}
        BY <3>1, <1>1 DEF Grant
      <3>3. grant[g].status = "PENDING" /\ grant' = [grant EXCEPT ![g] = row]
        BY <2>2, <3>2, Matrix DEF AcceptGrant, Transition, CanTransition
      <3>4. row \in Grant BY <3>2 DEF Grant, Statuses
      <3>5. /\ row.status = "ACCEPTED" /\ row.pub = r /\ row.pair = r
            /\ row.eph = grant[g].eph /\ row.keyVersion = grant[g].keyVersion
            /\ row.asks = grant[g].asks
        BY <3>2 DEF Grant
      <3>6. ~grant[g].eph /\ grant[g].keyVersion <= owner.keyVersion
        BY <3>1, <3>3 DEF Inv, RowInv, Final
      <3>7. r # None BY GrantAssumption
      <3> HIDE DEF row
      <3>8. QED BY <3>1, <3>3, <3>4, <3>5, <3>6, <3>7 DEF Armed, Final
    <2>3. CASE ConfirmGrant(r)
      <3> DEFINE g == op[r].grant
                 row == [Escrowed(r) EXCEPT !.status = "IDLE"]
      <3>1. g \in Grants /\ op[r].key # 0
            /\ (grant[g].status \in Final \/ op[r].keyVersion <= owner.keyVersion)
        BY <2>3 DEF ConfirmGrant, Inv, OpInv
      <3>2. grant[g] \in Grant /\ grant[g].status \in Statuses \cup {"absent"}
        BY <3>1, <1>1 DEF Grant
      <3>3. /\ grant[g].status \in {"ACCEPTED", "STALE", "REQUESTED"}
            /\ grant' = [grant EXCEPT ![g] = row]
        BY <2>3, <3>2, Matrix DEF ConfirmGrant, Transition, CanTransition
      <3>4. op[r].key \in 0..MaxKey /\ op[r].keyVersion \in 0..MaxKey BY <1>1 DEF Op
      <3>5. row \in Grant BY <3>2, <3>4 DEF Grant, Statuses, Escrowed
      <3>6. /\ row.status = "IDLE" /\ row.pub = grant[g].pub /\ row.pair = grant[g].pair
            /\ row.enc = op[r].key /\ row.keyVersion = op[r].keyVersion
            /\ row.late = (op[r].key # owner.key) /\ row.asks = grant[g].asks
        BY <3>2 DEF Grant, Escrowed
      <3>7. grant[g].pub = grant[g].pair /\ grant[g].pub # None
        BY <3>1, <3>3 DEF Inv, KeysMatch, Armed
      <3> HIDE DEF row
      <3>8. QED BY <3>1, <3>3, <3>5, <3>6, <3>7 DEF Armed, Final
    <2>4. CASE AutoPromote(r)
      <3> DEFINE g == op[r].grant
                 row == [grant[g] EXCEPT !.status = "ACTIVATED"]
      <3>1. g \in Grants BY <2>4 DEF AutoPromote, Inv, OpInv
      <3>2. grant[g] \in Grant /\ grant[g].status \in Statuses \cup {"absent"}
        BY <3>1, <1>1 DEF Grant
      <3>3. grant[g].status = "REQUESTED" /\ grant' = [grant EXCEPT ![g] = row]
        BY <2>4, <3>2, Matrix DEF AutoPromote, Transition, CanTransition
      <3>4. row \in Grant BY <3>2 DEF Grant, Statuses
      <3>5. /\ row.status = "ACTIVATED" /\ row.pub = grant[g].pub /\ row.pair = grant[g].pair
            /\ row.enc = grant[g].enc /\ row.eph = grant[g].eph /\ row.late = grant[g].late
            /\ row.keyVersion = grant[g].keyVersion /\ row.asks = grant[g].asks
        BY <3>2 DEF Grant
      <3>6. /\ grant[g].eph => grant[g].enc # 0
            /\ grant[g].keyVersion <= owner.keyVersion
            /\ grant[g].eph /\ ~grant[g].late => grant[g].enc = owner.key
            /\ grant[g].pub = grant[g].pair /\ grant[g].pub # None
        BY <3>1, <3>3 DEF Inv, RowInv, NoStaleEscrow, KeysMatch, Armed, Final
      <3> HIDE DEF row
      <3>7. QED BY <3>1, <3>3, <3>4, <3>5, <3>6 DEF Armed, Final
    <2>5. QED BY <2>1, <2>2, <2>3, <2>4 DEF UpdateStep
  <1>5. /\ owner' \in [keyVersion : 0..MaxKey, key : 0..MaxKey] /\ keys' \in 1..MaxKey
        /\ grant' \in [Grants -> Grant]
        /\ OwnerInv' /\ RowInv' /\ NoStaleEscrow' /\ KeysMatch'
    BY <1>2, <1>4, RowStep
  <1>6. OpInv' BY <1>2, <1>3, <1>4, OpStep
  <1>7. QED BY <1>1, <1>3, <1>4, <1>5, <1>6 DEF Inv, TypeOK

\* A rotation disarms every armed grant, because none has a version beyond the
\* owner's, and a reset ends every grant that is not over yet.
LEMMA OwnerStepInv ==
  ASSUME Inv, RotateKey \/ ResetVault \/ SetupVault
  PROVE  /\ Inv'
         /\ \A h \in Grants : grant[h].status \in Final => grant'[h] = grant[h]
         /\ \A h \in Grants : grant'[h].status = "ACTIVATED" => grant[h].status = "ACTIVATED"
  <1> USE GrantAssumption
  <1>1. /\ grant \in [Grants -> Grant] /\ keys \in 1..MaxKey
        /\ owner \in [keyVersion : 0..MaxKey, key : 0..MaxKey]
        /\ owner.keyVersion \in 0..MaxKey /\ owner.key \in 0..MaxKey
        /\ owner.keyVersion <= keys
    BY DEF Inv, TypeOK, OwnerInv
  <1>2. \A h \in Grants : grant[h] \in Grant /\ grant[h].status \in Statuses \cup {"absent"}
                          /\ grant[h].keyVersion \in 0..MaxKey
    BY <1>1 DEF Grant
  <1>3. \A h \in Grants : CanTransition(h, "STALE", "SYSTEM") <=> grant[h].status \in Armed
    BY <1>2, Matrix DEF CanTransition
  <1>4. \A h \in Grants :
          CanTransition(h, "REVOKED", "OWNER") <=> grant[h].status \notin Final \cup {"absent"}
    BY <1>2, Matrix DEF CanTransition
  <1>5. CASE RotateKey
    <2>1. /\ keys' = keys + 1 /\ keys' \in 1..MaxKey /\ op' = op
          /\ owner' \in [keyVersion : 0..MaxKey, key : 0..MaxKey]
          /\ owner'.keyVersion = owner.keyVersion + 1 /\ owner.keyVersion # 0
      BY <1>1, <1>5 DEF RotateKey
    <2>2. \A h \in Grants : grant'[h] =
            IF grant[h].status \in Armed
              THEN [grant[h] EXCEPT !.status = "STALE", !.eph = FALSE] ELSE grant[h]
      <3>1. \A h \in Grants : grant[h].status \in Armed =>
              grant[h].keyVersion < owner.keyVersion + 1
        BY <1>1, <1>2 DEF Inv, RowInv, Armed, Final
      <3>2. QED BY <1>3, <1>5, <3>1 DEF RotateKey, MarkGrantsStale
    <2>3. \A h \in Grants : grant[h].status \in Armed =>
            /\ grant'[h] \in Grant /\ grant'[h].status = "STALE" /\ ~grant'[h].eph
            /\ grant'[h].pub = grant[h].pub /\ grant'[h].pair = grant[h].pair
            /\ grant'[h].keyVersion = grant[h].keyVersion
            /\ grant'[h].asks = grant[h].asks
      <3>1. TAKE h \in Grants
      <3>2. HAVE grant[h].status \in Armed
      <3>3. grant'[h] = [grant[h] EXCEPT !.status = "STALE", !.eph = FALSE] BY <2>2, <3>2
      <3>4. grant[h] \in Grant BY <1>2
      <3>5. QED BY <3>3, <3>4 DEF Grant, Statuses
    <2>4. \A h \in Grants : grant[h].status \notin Armed => grant'[h] = grant[h]
      BY <2>2
    <2>5. grant' \in [Grants -> Grant]
      <3>1. grant' = [h \in Grants |-> grant'[h]] BY <1>5 DEF RotateKey, MarkGrantsStale
      <3>2. \A h \in Grants : grant'[h] \in Grant BY <1>2, <2>3, <2>4
      <3>3. QED BY <3>1, <3>2
    <2>6. TypeOK' /\ OwnerInv' BY <1>1, <2>1, <2>5 DEF Inv, TypeOK, OwnerInv
    <2>7. RowInv'
      <3>1. SUFFICES ASSUME NEW h \in Grants PROVE RowInv!(h)' BY DEF RowInv
      <3>2. CASE grant[h].status \in Armed
        BY <1>1, <1>2, <2>1, <2>3, <3>2 DEF Inv, RowInv, Armed, Final
      <3>3. CASE grant[h].status \notin Armed
        BY <1>1, <1>2, <2>1, <2>4, <3>3 DEF Inv, RowInv
      <3>4. QED BY <3>2, <3>3
    <2>8. OpInv'
      <3>1. SUFFICES ASSUME NEW r \in Requests PROVE OpInv!(r)' BY DEF OpInv
      <3>2. op[r].keyVersion \in Nat BY DEF Inv, TypeOK, Op
      <3>3. \A h \in Grants : Exists(h) => Exists(h)'
        BY <2>3, <2>4 DEF Exists, Armed
      <3>4. \A h \in Grants :
              /\ grant[h].status \in Final => grant'[h].status \in Final
              /\ grant'[h].asks = grant[h].asks
              /\ grant'[h].status = "REQUESTED" => grant'[h] = grant[h]
        BY <2>3, <2>4 DEF Armed, Final
      <3>5. QED BY <1>1, <2>1, <3>2, <3>3, <3>4 DEF Inv, OpInv
    <2>9. NoStaleEscrow' /\ KeysMatch'
      BY <2>3, <2>4 DEF Inv, NoStaleEscrow, KeysMatch, Armed
    <2>10. QED BY <2>3, <2>4, <2>6, <2>7, <2>8, <2>9 DEF Inv, Armed, Final
  <1>6. CASE ResetVault
    <2>1. /\ keys' = keys /\ op' = op
          /\ owner' = [keyVersion |-> 0, key |-> 0]
      BY <1>6 DEF ResetVault
    <2>2. \A h \in Grants : grant'[h] =
            IF grant[h].status \notin Final \cup {"absent"}
              THEN [grant[h] EXCEPT !.status = "REVOKED"] ELSE grant[h]
      BY <1>4, <1>6 DEF ResetVault
    <2>3. \A h \in Grants : grant[h].status \notin Final \cup {"absent"} =>
            /\ grant'[h] \in Grant /\ grant'[h].status = "REVOKED"
            /\ grant'[h].eph = grant[h].eph /\ grant'[h].enc = grant[h].enc
            /\ grant'[h].pub = grant[h].pub /\ grant'[h].pair = grant[h].pair
            /\ grant'[h].asks = grant[h].asks
      <3>1. TAKE h \in Grants
      <3>2. HAVE grant[h].status \notin Final \cup {"absent"}
      <3>3. grant'[h] = [grant[h] EXCEPT !.status = "REVOKED"] BY <2>2, <3>2
      <3>4. grant[h] \in Grant BY <1>2
      <3>5. QED BY <3>3, <3>4 DEF Grant, Statuses
    <2>4. \A h \in Grants : grant[h].status \in Final \cup {"absent"} => grant'[h] = grant[h]
      BY <2>2
    <2>5. grant' \in [Grants -> Grant]
      <3>1. grant' = [h \in Grants |-> grant'[h]] BY <1>6 DEF ResetVault
      <3>2. \A h \in Grants : grant'[h] \in Grant BY <1>2, <2>3, <2>4
      <3>3. QED BY <3>1, <3>2
    <2>6. TypeOK' /\ OwnerInv' BY <1>1, <2>1, <2>5 DEF Inv, TypeOK, OwnerInv
    <2>7. \A h \in Grants : grant'[h].status \in Final \cup {"absent"}
      BY <2>3, <2>4 DEF Final
    <2>8. RowInv'
      <3>1. \A h \in Grants : grant'[h].status = "absent" =>
              grant'[h] = NoGrant /\ grant'[h].keyVersion = 0
        <4>1. \A h \in Grants : grant'[h].status = "absent" => grant'[h] = NoGrant
          BY <2>3, <2>4 DEF Inv, RowInv
        <4>2. NoGrant.keyVersion = 0 BY DEF NoGrant
        <4>3. QED BY <4>1, <4>2
      <3>2. QED BY <2>1, <2>3, <2>4, <2>7, <3>1 DEF Inv, RowInv, Final
    <2>9. OpInv'
      <3>1. SUFFICES ASSUME NEW r \in Requests PROVE OpInv!(r)' BY DEF OpInv
      <3>2. \A h \in Grants : Exists(h) =>
              Exists(h)' /\ grant'[h].status \in Final /\ grant'[h].asks = grant[h].asks
        BY <2>3, <2>4 DEF Exists, Final
      <3>3. QED BY <2>1, <3>2 DEF Inv, OpInv, Final
    <2>10. NoStaleEscrow' BY <2>7 DEF NoStaleEscrow, Armed, Final
    <2>11. KeysMatch'
      BY <2>3, <2>4 DEF Inv, KeysMatch, Armed, Final
    <2>12. QED BY <2>4, <2>6, <2>7, <2>8, <2>9, <2>10, <2>11 DEF Inv, Final
  <1>7. CASE SetupVault
    <2>1. /\ keys' = keys + 1 /\ keys' \in 1..MaxKey /\ op' = op /\ grant' = grant
          /\ owner' = [keyVersion |-> 1, key |-> keys + 1]
          /\ owner.keyVersion = 0 /\ owner.key = 0
      BY <1>1, <1>7 DEF SetupVault, Inv, OwnerInv
    <2>2. TypeOK' /\ OwnerInv' BY <1>1, <2>1 DEF Inv, TypeOK, OwnerInv
    <2>3. RowInv' BY <1>2, <2>1 DEF Inv, RowInv
    <2>4. OpInv'
      <3>1. \A r \in Requests : op[r].keyVersion \in Nat BY DEF Inv, TypeOK, Op
      <3>2. QED BY <2>1, <3>1 DEF Inv, OpInv, Exists
    <2>5. NoStaleEscrow' BY <2>1 DEF Inv, RowInv, NoStaleEscrow
    <2>6. KeysMatch' BY <2>1 DEF Inv, KeysMatch
    <2>7. QED BY <2>1, <2>2, <2>3, <2>4, <2>5, <2>6 DEF Inv
  <1>8. QED BY <1>5, <1>6, <1>7

\* The three kinds of steps, and reads, are all there are.
LEMMA NextCases ==
  Next => \/ \E g \in Grants : TransitionStep(g)
          \/ \E r \in Requests : UpdateStep(r)
          \/ RotateKey \/ ResetVault \/ SetupVault
          \/ \E r \in Requests :
               /\ UNCHANGED <<owner, keys, grant>>
               /\ \/ ReadNoDuplicate(r) \/ ReadElapsed(r) \/ Abandon(r)
                  \/ \E g \in Grants :
                       \/ ReadInvitation(r, g) \/ ReadVault(r, g)
                       \/ \E key \in 1..keys : ReadKeyVersion(r, g, key)
  BY DEF Next, TransitionStep, UpdateStep, ReadNoDuplicate, ReadElapsed, Abandon,
         ReadInvitation, ReadVault, ReadKeyVersion

\* The inductive step.
LEMMA NextInv == Inv /\ [Next]_vars => Inv'
  <1>1. SUFFICES ASSUME Inv, [Next]_vars PROVE Inv' OBVIOUS
  <1>2. CASE UNCHANGED vars
    BY <1>1, <1>2 DEF vars, Inv, TypeOK, OwnerInv, RowInv, OpInv, NoStaleEscrow, KeysMatch, Exists
  <1>3. CASE \E g \in Grants : TransitionStep(g) BY <1>1, <1>3, TransitionInv
  <1>4. CASE \E r \in Requests : UpdateStep(r) BY <1>1, <1>4, UpdateInv
  <1>5. CASE RotateKey \/ ResetVault \/ SetupVault BY <1>1, <1>5, OwnerStepInv
  <1>6. QED BY <1>1, <1>2, <1>3, <1>4, <1>5, NextCases, ReadInv

\* The inductive invariant holds throughout.
LEMMA Invariance == Spec => []Inv
  BY InitInv, NextInv, PTL DEF Spec

-----------------------------------------------------------------------------
\* Every row and every request is well typed: no sequence of rotations, resets and
\* set-ups takes the owner's key version out of step with the keys generated.
THEOREM TypeCorrect == Spec => []TypeOK
  <1>1. Inv => TypeOK BY DEF Inv
  <1>2. QED BY <1>1, Invariance, PTL

\* markGrantsStaleForOwner leaves no usable escrow of an earlier key, for any
\* number of grants, except one that was confirmed late.
THEOREM EscrowFollowsRotation == Spec => []NoStaleEscrow
  <1>1. Inv => NoStaleEscrow BY DEF Inv
  <1>2. QED BY <1>1, Invariance, PTL

\* Public and private key of a grant come from the same acceptance, however many
\* acceptances of it race.
THEOREM KeysAlwaysMatch == Spec => []KeysMatch
  <1>1. Inv => KeysMatch BY DEF Inv
  <1>2. QED BY <1>1, Invariance, PTL

\* No confirmation, approval, promotion, rotation or reset changes a grant that was
\* revoked or refused.
THEOREM NothingRevived == Spec => OverStaysOver
  <1>1. Inv /\ [Next]_vars => [\A g \in Grants : grant[g].status \in {"REVOKED", "REJECTED"} =>
                                 grant'[g] = grant[g]]_vars
    <2>1. SUFFICES ASSUME Inv, Next, NEW h \in Grants, grant[h].status \in Final
                   PROVE  grant'[h] = grant[h]
      BY DEF Final
    <2>2. CASE \E g \in Grants : TransitionStep(g) BY <2>1, <2>2, TransitionInv
    <2>3. CASE \E r \in Requests : UpdateStep(r) BY <2>1, <2>3, UpdateInv
    <2>4. CASE RotateKey \/ ResetVault \/ SetupVault BY <2>1, <2>4, OwnerStepInv
    <2>5. QED BY <2>1, <2>2, <2>3, <2>4, NextCases
  <1>2. QED BY <1>1, Invariance, PTL DEF Spec, OverStaysOver

\* A grant is activated by the owner or after its own wait, with the one exception
\* that WaitIsServed names.
THEOREM WaitAlwaysServed == Spec => WaitIsServed
  <1> DEFINE Served ==
        \A g \in Grants :
          grant[g].status # "ACTIVATED" /\ grant'[g].status = "ACTIVATED" =>
            \/ ApproveRequest(g)
            \/ grant[g].wait = "over"
            \/ \E r \in Requests : op[r].phase = "claim" /\ op[r].grant = g
                                   /\ op[r].asks < grant[g].asks
  <1>1. Inv /\ [Next]_vars => [Served]_vars
    <2>1. SUFFICES ASSUME Inv, Next, NEW h \in Grants,
                          grant[h].status # "ACTIVATED", grant'[h].status = "ACTIVATED"
                   PROVE  \/ ApproveRequest(h)
                          \/ grant[h].wait = "over"
                          \/ \E r \in Requests : op[r].phase = "claim" /\ op[r].grant = h
                                                 /\ op[r].asks < grant[h].asks
      OBVIOUS
    <2>2. grant \in [Grants -> Grant] /\ grant[h] \in Grant BY <2>1 DEF Inv, TypeOK
    <2>3. CASE \E g \in Grants : TransitionStep(g)
      <3>1. PICK g \in Grants : TransitionStep(g) BY <2>3
      <3>2. h = g BY <2>1, <3>1, TransitionInv
      <3>3. DeclineGrant(h) => grant'[h].status = "REJECTED"
        BY <2>2 DEF DeclineGrant, Transition, Grant
      <3>4. RequestAccess(h) => grant'[h].status = "REQUESTED"
        BY <2>2 DEF RequestAccess, Transition, Grant
      <3>5. WaitElapses(h) => grant'[h].status = "REQUESTED"
        BY <2>2 DEF WaitElapses, Grant
      <3>6. RejectRequest(h) => grant'[h].status = "IDLE"
        BY <2>2 DEF RejectRequest, Transition, Grant
      <3>7. RevokeGrant(h) => grant'[h].status = "REVOKED"
        BY <2>2 DEF RevokeGrant, Transition, Grant
      <3>8. QED BY <2>1, <3>1, <3>2, <3>3, <3>4, <3>5, <3>6, <3>7 DEF TransitionStep
    <2>4. CASE \E r \in Requests : UpdateStep(r)
      <3>1. PICK r \in Requests : UpdateStep(r) BY <2>4
      <3>2. CASE \E g \in Grants : CreateGrant(r, g)
        BY <2>1, <2>2, <3>2 DEF CreateGrant, Grant
      <3>3. op[r].phase \in {"accept", "escrow", "claim"} => op[r].grant \in Grants
        BY <2>1 DEF Inv, OpInv
      <3>4. CASE AcceptGrant(r)
        <4>1. op[r].grant \in Grants /\ grant[op[r].grant] \in Grant
          BY <2>2, <3>3, <3>4 DEF AcceptGrant
        <4>2. grant'[op[r].grant].status = "ACCEPTED"
          BY <2>2, <3>4, <4>1 DEF AcceptGrant, Transition, Grant
        <4>3. QED BY <2>1, <2>2, <3>4, <4>1, <4>2 DEF AcceptGrant, Transition
      <3>5. CASE ConfirmGrant(r)
        <4>1. op[r].grant \in Grants /\ grant[op[r].grant] \in Grant
          BY <2>2, <3>3, <3>5 DEF ConfirmGrant
        <4>2. grant'[op[r].grant].status = "IDLE"
          BY <2>2, <3>5, <4>1 DEF ConfirmGrant, Transition, Escrowed, Grant
        <4>3. QED BY <2>1, <2>2, <3>5, <4>1, <4>2 DEF ConfirmGrant, Transition
      <3>6. CASE AutoPromote(r)
        <4>1. op[r].grant \in Grants /\ op[r].phase = "claim" BY <3>3, <3>6 DEF AutoPromote
        <4>2. op[r].grant = h BY <2>1, <2>2, <3>6, <4>1 DEF AutoPromote, Transition
        <4>3. grant[h].status = "REQUESTED"
          <5>1. grant[h].status \in Statuses \cup {"absent"} BY <2>2 DEF Grant
          <5>2. QED BY <3>6, <4>2, <5>1, Matrix DEF AutoPromote, Transition, CanTransition
        <4>4. /\ op[r].asks <= grant[h].asks
              /\ op[r].asks = grant[h].asks => grant[h].wait = "over"
          BY <2>1, <4>1, <4>2, <4>3 DEF Inv, OpInv
        <4>5. op[r].asks \in Nat /\ grant[h].asks \in Nat
          BY <2>1, <2>2, GrantAssumption DEF Inv, TypeOK, Op, Grant
        <4>6. op[r].asks < grant[h].asks \/ grant[h].wait = "over" BY <4>4, <4>5
        <4>7. QED BY <4>1, <4>2, <4>6
      <3>7. QED BY <3>1, <3>2, <3>4, <3>5, <3>6 DEF UpdateStep
    <2>5. CASE RotateKey \/ ResetVault \/ SetupVault BY <2>1, <2>5, OwnerStepInv
    <2>6. QED BY <2>1, <2>3, <2>4, <2>5, NextCases
  <1>2. QED BY <1>1, Invariance, PTL DEF Spec, WaitIsServed
=============================================================================
