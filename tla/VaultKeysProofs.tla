--------------------------- MODULE VaultKeysProofs ---------------------------
(* What the vault guarantees for any number of devices, entries, keys, salts   *)
(* and writes.                                                                 *)
EXTENDS VaultKeys, TLAPS

Fetching == {"history", "attachments", "post", "apply"}

\* The vault's keys lie between its first one and the last generated; without a
\* vault there is a recovery wrap only if one was stored late.
UserInv ==
  /\ user.setup <= user.auth /\ user.auth <= keys /\ user.salt <= salts
  /\ \A p \in Passkeys : prf[p].key <= keys
  /\ user.setup = 0 => user.auth = 0
  /\ user.setup # 0 => user.salt # 0
  /\ ~crossed /\ user.setup = 0 => user.rec = 0

\* What a device holds: a device with the account's salt has the key under the
\* passphrase wrap, and one with the vault's key version has the vault's key
\* unless its key is from an earlier vault.
HeldInv(d) ==
  Unlocked(d) =>
    /\ held[d].key <= keys /\ held[d].salt <= salts
    /\ held[d].salt # 0 /\ held[d].keyVersion # 0
    /\ held[d].salt = user.salt => held[d].key = user.wrap
    /\ user.setup # 0 /\ held[d].key >= user.setup =>
         /\ held[d].keyVersion <= user.keyVersion
         /\ held[d].keyVersion = user.keyVersion => held[d].key = user.auth

\* An entry's history and attachment live with the entry, entries live in a
\* vault, and the history row of a write carries its number.
RowInv(e) ==
  /\ rows[e].writes <= MaxVer /\ rows[e].blob.ver <= MaxVer
  /\ rows[e].state # "present" => hist[e] = {} /\ att[e].mode = "none"
  /\ rows[e].state = "present" => user.setup # 0
  /\ \A h \in hist[e] : h.id <= rows[e].writes

\* A verified wrap is of the vault's key, unless it is late.
WrapInv(d) ==
  /\ op[d].phase \in {"rewrap", "generate"} =>
       /\ Unlocked(d)
       /\ ~op[d].late /\ ~crossed => user.setup # 0 /\ held[d].key = user.auth
  /\ op[d].phase = "recover" /\ ~op[d].late /\ ~crossed =>
       user.setup # 0 /\ op[d].seen.rec = user.auth

\* A history row that was read has an older key version than the vault, or its key.
RestoreInv(d) ==
  op[d].phase = "restore" =>
    /\ op[d].entry \in Entries /\ rows[op[d].entry].state # "absent"
    /\ op[d].entry \in Present \ strays =>
         /\ op[d].blob.keyVersion <= user.keyVersion
         /\ op[d].blob.keyVersion = user.keyVersion => op[d].blob.key = user.auth

\* What a rotation fetched: one blob per entry, which is the entry's blob, or is
\* given away by a history row the rotation did not fetch, or was torn, or the
\* device has lost the vault's key to another rotation.
FetchInv(d) ==
  op[d].phase \in Fetching =>
    /\ Unlocked(d)
    /\ \A x \in op[d].ents : rows[x[1]].state # "absent" /\ x[2] <= MaxVer
    /\ \A x, y \in op[d].ents : x[1] = y[1] => x = y
    /\ held[d].key = user.auth =>
         \A x \in op[d].ents : x[1] \in Present \ op[d].torn =>
           \/ rows[x[1]].blob.ver = x[2]
           \/ /\ op[d].phase # "history"
              /\ \E h \in hist[x[1]] : <<x[1], h.id>> \notin op[d].hists
    /\ op[d].phase # "history" =>
         \A x \in op[d].hists : /\ rows[x[1]].state # "absent"
                                /\ x[1] \in Present => x[2] <= rows[x[1]].writes

\* The users row a rotation was posted against: with the same vault and key
\* version it has the same key, and with the same salt the same passphrase.
ApplyInv(d) ==
  op[d].phase = "apply" =>
    /\ op[d].seen.setup # 0 /\ op[d].seen.setup <= keys
    /\ op[d].seen.salt # 0 /\ op[d].seen.salt <= salts
    /\ held[d].key = op[d].seen.auth
    /\ user.setup = op[d].seen.setup =>
         /\ op[d].seen.keyVersion <= user.keyVersion
         /\ op[d].seen.keyVersion = user.keyVersion => user.auth = op[d].seen.auth
    /\ user.salt = op[d].seen.salt => user.pass = op[d].seen.pass

OpInv(d) == WrapInv(d) /\ RestoreInv(d) /\ FetchInv(d) /\ ApplyInv(d)

Inv ==
  /\ TypeOK /\ hist \in [Entries -> SUBSET Version]
  /\ UserInv /\ EverythingOpens /\ PasskeyOpens /\ LockedOutOnlyByRace
  /\ \A d \in Devices : HeldInv(d) /\ OpInv(d)
  /\ \A e \in Entries : RowInv(e)

-----------------------------------------------------------------------------
\* The numbers of a well-typed state.
LEMMA Numbers ==
  ASSUME TypeOK
  PROVE  /\ MaxKey \in Nat /\ MaxSalt \in Nat /\ MaxVer \in Nat /\ MaxVer >= 1
         /\ keys \in Nat /\ salts \in Nat /\ \A p \in Passkeys : prf[p].key \in Nat
         /\ user.setup \in Nat /\ user.keyVersion \in Nat /\ user.auth \in Nat
         /\ user.wrap \in Nat /\ user.rec \in Nat /\ user.salt \in Nat /\ user.pass \in Nat
         /\ \A d \in Devices : /\ held[d].key \in Nat /\ held[d].keyVersion \in Nat
                               /\ held[d].salt \in Nat /\ held[d].pass \in Nat
         /\ \A e \in Entries : /\ rows[e].writes \in Nat /\ rows[e].blob.ver \in Nat
  BY VaultAssumption DEF TypeOK, User, Held, Row, Blob, Wrap

\* The initial state satisfies the inductive invariant.
LEMMA InitInv == Init => Inv
  <1> SUFFICES ASSUME Init PROVE Inv OBVIOUS
  <1> USE VaultAssumption
  <1>1. user \in User /\ NoVault \in User BY DEF Init, User, NoVault
  <1>2. rows \in [Entries -> Row] BY DEF Init, Row, Blob, NoRow, NoBlob
  <1>3. hist \in [Entries -> SUBSET Version] BY DEF Init
  <1>4. att \in [Entries -> Attachment] BY DEF Init, Attachment, NoAttachment
  <1>5. held \in [Devices -> Held] BY DEF Init, Held, Locked
  <1>6. Idle \in Op BY <1>1 DEF Op, Idle, NoBlob, Blob
  <1>7. op \in [Devices -> Op] BY <1>6 DEF Init
  <1>p. prf \in [Passkeys -> Wrap] BY DEF Init, Wrap, NoWrap
  <1>8. TypeOK BY <1>1, <1>2, <1>3, <1>4, <1>5, <1>7, <1>p DEF Init, TypeOK
  <1>9. UserInv /\ PasskeyOpens /\ LockedOutOnlyByRace
    BY DEF Init, UserInv, PasskeyOpens, LockedOutOnlyByRace, NoWrap
  <1>10. EverythingOpens
    BY DEF Init, EverythingOpens, Opens, Present, NoRow, NoAttachment
  <1>11. \A d \in Devices : HeldInv(d) /\ OpInv(d)
    BY DEF Init, HeldInv, OpInv, WrapInv, RestoreInv, FetchInv, ApplyInv, Unlocked, Locked,
           Idle, Fetching
  <1>12. \A e \in Entries : RowInv(e)
    BY DEF Init, RowInv, NoRow, NoBlob, NoAttachment
  <1>13. QED BY <1>3, <1>8, <1>9, <1>10, <1>11, <1>12 DEF Inv

-----------------------------------------------------------------------------
(* What a step may do to the state an invariant of a device or of its request  *)
(* refers to, while the request stays as it is.                                *)

\* The vault keeps its key.
SameKey ==
  user'.setup = user.setup /\ user'.keyVersion = user.keyVersion /\ user'.auth = user.auth

\* Or it gets a new one by rotation, or ends, or starts anew.
KeyStep ==
  \/ SameKey
  \/ user'.setup = user.setup /\ user'.keyVersion > user.keyVersion
  \/ user'.setup = 0
  \/ user'.setup > keys

\* Keys and salts are never handed out twice.
CountersGrow == keys' \in Nat /\ salts' \in Nat /\ keys <= keys' /\ salts <= salts'

\* An entry that was written is never absent again, a deleted one not written
\* again, and a stray one stays a stray.
RowsGrow ==
  \A e \in Entries : rows[e].state # "absent" =>
    /\ rows'[e].state # "absent"
    /\ rows'[e].state = "present" =>
         rows[e].state = "present" /\ rows[e].writes <= rows'[e].writes
    /\ e \in strays => e \in strays'

\* The request of a device and what it holds are untouched but for the marks of
\* what happened meanwhile.
Kept(d) ==
  /\ held'[d] = held[d]
  /\ op'[d].phase = op[d].phase /\ op'[d].seen = op[d].seen
  /\ op'[d].entry = op[d].entry /\ op'[d].blob = op[d].blob
  /\ op'[d].ents = op[d].ents /\ op'[d].hists = op[d].hists
  /\ op[d].torn \subseteq op'[d].torn

\* A blob stays in place, or its history tells of the write: a fetch under way is
\* torn by it, and a later one finds a history row it did not have.
BlobsKept(d) ==
  \A e \in Present \cap Present' :
    /\ \A h \in hist[e] : \E g \in hist'[e] : g.id = h.id
    /\ \/ rows'[e].blob.ver = rows[e].blob.ver
       \/ /\ op[d].phase = "history" => e \in op'[d].torn
          /\ \E g \in hist'[e] : g.id > rows[e].writes

\* What a device holds.
LEMMA HeldFrame ==
  ASSUME TypeOK, TypeOK', NEW d \in Devices, HeldInv(d), held'[d] = held[d],
         CountersGrow, KeyStep,
         \/ user'.salt = user.salt /\ user'.wrap = user.wrap
         \/ user'.salt = 0 \/ user'.salt > salts
  PROVE  HeldInv(d)'
  <1>1. /\ keys' \in Nat /\ salts' \in Nat /\ user'.setup \in Nat /\ user'.keyVersion \in Nat
        /\ user'.salt \in Nat
    BY Numbers DEF TypeOK, User
  <1>2. QED BY <1>1, Numbers DEF HeldInv, Unlocked, CountersGrow, KeyStep, SameKey

\* A verified wrap.
LEMMA WrapFrame ==
  ASSUME NEW d \in Devices, WrapInv(d), Kept(d),
         \/ op[d].phase \in {"rewrap", "generate", "recover"} => op'[d].late
         \/ /\ op'[d].late = op[d].late /\ (crossed => crossed')
            /\ (user'.setup = user.setup /\ user'.auth = user.auth) \/ user.setup = 0
  PROVE  WrapInv(d)'
  BY DEF WrapInv, Kept, Unlocked

\* A history row that was read.
LEMMA RestoreFrame ==
  ASSUME TypeOK, TypeOK', NEW d \in Devices, RestoreInv(d), Kept(d), RowsGrow,
         \/ SameKey \/ user'.keyVersion > user.keyVersion \/ Present' = {}
  PROVE  RestoreInv(d)'
  <1>1. op[d].blob.keyVersion \in Nat /\ user'.keyVersion \in Nat /\ user.keyVersion \in Nat
    BY DEF TypeOK, Op, Blob, User
  <1>2. SUFFICES ASSUME op[d].phase = "restore" PROVE RestoreInv(d)'
    BY DEF RestoreInv, Kept
  <1> DEFINE e == op[d].entry
  <1>3. e \in Entries /\ rows[e].state # "absent" /\ rows'[e].state # "absent"
    BY <1>2 DEF RestoreInv, RowsGrow
  <1>4. e \in (Present \ strays)' => e \in Present \ strays
    BY <1>3 DEF RowsGrow, Present
  <1>5. QED BY <1>1, <1>2, <1>3, <1>4 DEF RestoreInv, Kept, SameKey

\* The users row a rotation was posted against.
LEMMA ApplyFrame ==
  ASSUME TypeOK, TypeOK', NEW d \in Devices, ApplyInv(d), Kept(d), CountersGrow, KeyStep,
         \/ user'.salt = user.salt /\ user'.pass = user.pass
         \/ user'.salt = 0 \/ user'.salt > salts
  PROVE  ApplyInv(d)'
  <1>1. /\ keys' \in Nat /\ salts' \in Nat /\ user'.setup \in Nat /\ user'.keyVersion \in Nat
        /\ user'.salt \in Nat
    BY Numbers DEF TypeOK, User
  <1>2. op[d].seen.setup \in Nat /\ op[d].seen.keyVersion \in Nat /\ op[d].seen.salt \in Nat
    BY VaultAssumption DEF TypeOK, Op, User
  <1>3. QED
    BY <1>1, <1>2, Numbers DEF ApplyInv, Kept, CountersGrow, KeyStep, SameKey

\* What a rotation fetched.
LEMMA FetchFrame ==
  ASSUME TypeOK, TypeOK', NEW d \in Devices, FetchInv(d), Kept(d), RowsGrow,
         hist \in [Entries -> SUBSET Version], hist' \in [Entries -> SUBSET Version],
         \/ user'.auth # held[d].key
         \/ user'.auth = user.auth /\ BlobsKept(d)
  PROVE  FetchInv(d)'
  <1>1. SUFFICES ASSUME op[d].phase \in Fetching PROVE FetchInv(d)'
    BY DEF FetchInv, Kept
  <1>2. op[d].ents \subseteq Entries \X Nat /\ op[d].hists \subseteq Entries \X Nat
    BY DEF TypeOK, Op
  <1>3. \A x \in op[d].ents \cup op[d].hists : x[1] \in Entries /\ x[2] \in Nat
    BY <1>2
  <1>4. \A e \in Entries : rows[e].writes \in Nat /\ rows'[e].writes \in Nat
    BY DEF TypeOK, Row
  <1>5. Unlocked(d)' /\ \A x \in op'[d].ents : rows'[x[1]].state # "absent" /\ x[2] <= MaxVer
    BY <1>1, <1>3 DEF FetchInv, Kept, RowsGrow, Unlocked
  <1>6. \A x, y \in op'[d].ents : x[1] = y[1] => x = y
    BY <1>1 DEF FetchInv, Kept
  <1>7. ASSUME op[d].phase # "history", NEW x \in op[d].hists
        PROVE  /\ rows'[x[1]].state # "absent"
               /\ x[1] \in Present' => x[2] <= rows[x[1]].writes /\ x[2] <= rows'[x[1]].writes
    BY <1>1, <1>3, <1>4, <1>7 DEF FetchInv, RowsGrow, Present
  <1>8. ASSUME held'[d].key = user'.auth, NEW x \in op[d].ents,
               x[1] \in Present', x[1] \notin op'[d].torn
        PROVE  \/ rows'[x[1]].blob.ver = x[2]
               \/ /\ op[d].phase # "history"
                  /\ \E h \in hist'[x[1]] : <<x[1], h.id>> \notin op[d].hists
    <2> DEFINE e == x[1]
    <2>1. e \in Entries /\ rows[e].state # "absent" BY <1>1, <1>3 DEF FetchInv
    <2>2. e \in Present /\ e \notin op[d].torn BY <1>8, <2>1 DEF RowsGrow, Present, Kept
    <2>3. held[d].key = user.auth /\ user'.auth = user.auth BY <1>8 DEF Kept
    <2>4. \/ rows[e].blob.ver = x[2]
          \/ /\ op[d].phase # "history"
             /\ \E h \in hist[e] : <<e, h.id>> \notin op[d].hists
      BY <1>1, <2>2, <2>3 DEF FetchInv
    <2>5. \A h \in hist[e] : \E g \in hist'[e] : g.id = h.id
      BY <1>8, <2>2, <2>3 DEF Kept, BlobsKept
    <2>6. \/ rows'[e].blob.ver = rows[e].blob.ver
          \/ op[d].phase # "history" /\ \E g \in hist'[e] : g.id > rows[e].writes
      BY <1>8, <2>2, <2>3 DEF Kept, BlobsKept
    <2>7. CASE op[d].phase # "history" /\ \E h \in hist[e] : <<e, h.id>> \notin op[d].hists
      BY <2>5, <2>7
    <2>8. CASE op[d].phase # "history" /\ \E g \in hist'[e] : g.id > rows[e].writes
      <3>1. PICK g \in hist'[e] : g.id > rows[e].writes BY <2>8
      <3>2. g.id \in Nat BY <2>1 DEF Version
      <3>3. <<e, g.id>> \notin op[d].hists
        <4>1. SUFFICES ASSUME <<e, g.id>> \in op[d].hists PROVE FALSE OBVIOUS
        <4>2. g.id <= rows[e].writes BY <1>7, <1>8, <2>8, <4>1
        <4>3. QED BY <3>1, <3>2, <4>2, <1>4, <2>1
      <3>4. QED BY <2>8, <3>3
    <2>9. QED BY <2>4, <2>6, <2>7, <2>8
  <1>9. QED BY <1>1, <1>5, <1>6, <1>7, <1>8 DEF FetchInv, Kept, Fetching

-----------------------------------------------------------------------------
(* Steps that only read: they start a request, move it on or end it.           *)

\* A request that is over, or that only waits to set up, remembers nothing.
LEMMA IdleOp ==
  ASSUME NEW d, op'[d].phase \in {"idle", "setup"}
  PROVE  OpInv(d)'
  BY DEF OpInv, WrapInv, RestoreInv, FetchInv, ApplyInv, Fetching

LEMMA IdleType == Idle \in Op
  BY VaultAssumption DEF Op, Idle, NoBlob, Blob, User, NoVault

\* A step that changes one request only.
LEMMA QuietStep ==
  ASSUME Inv, NEW d \in Devices, NEW new \in Op, op' = [op EXCEPT ![d] = new], OpInv(d)',
         UNCHANGED <<user, rows, hist, att, prf, held, keys, salts, strays, crossed>>
  PROVE  Inv'
  <1>1. op \in [Devices -> Op] BY DEF Inv, TypeOK
  <1>2. TypeOK' BY <1>1 DEF Inv, TypeOK
  <1>3. \A x \in Devices : OpInv(x)'
    <2>1. SUFFICES ASSUME NEW x \in Devices, x # d PROVE OpInv(x)' OBVIOUS
    <2>2. op'[x] = op[x] BY <1>1, <2>1
    <2>3. OpInv(x) BY DEF Inv
    <2>4. QED
      BY <2>2, <2>3 DEF OpInv, WrapInv, RestoreInv, FetchInv, ApplyInv, Unlocked, Present
  <1>4. \A x \in Devices : HeldInv(x)' BY DEF Inv, HeldInv, Unlocked
  <1>5. \A e \in Entries : RowInv(e)' BY DEF Inv, RowInv
  <1>6. UserInv' /\ PasskeyOpens' /\ LockedOutOnlyByRace'
    BY DEF Inv, UserInv, PasskeyOpens, LockedOutOnlyByRace
  <1>7. EverythingOpens' BY DEF Inv, EverythingOpens, Opens, Present
  <1>8. QED BY <1>2, <1>3, <1>4, <1>5, <1>6, <1>7 DEF Inv

\* Abandon, ReadNotSetUp.
LEMMA AbandonInv ==
  ASSUME Inv, NEW d \in Devices, Abandon(d) \/ ReadNotSetUp(d)
  PROVE  Inv'
  <1>1. op \in [Devices -> Op] /\ user \in User BY DEF Inv, TypeOK
  <1>2. CASE Abandon(d)
    <2>1. op' = [op EXCEPT ![d] = Idle] BY <1>2 DEF Abandon, Done
    <2>2. op'[d].phase = "idle" BY <1>1, <2>1 DEF Idle
    <2>3. OpInv(d)' BY <2>2, IdleOp
    <2>4. QED BY <1>2, <2>1, <2>3, IdleType, QuietStep DEF Abandon
  <1>3. CASE ReadNotSetUp(d)
    <2> DEFINE new == [op[d] EXCEPT !.phase = "setup", !.seen = user]
    <2>1. new \in Op BY <1>1 DEF Op
    <2>2. op' = [op EXCEPT ![d] = new] BY <1>1, <1>3 DEF ReadNotSetUp, Start
    <2>3. op'[d].phase = "setup" BY <1>1, <2>2 DEF Op
    <2>4. OpInv(d)' BY <2>3, IdleOp
    <2>5. QED BY <1>3, <2>1, <2>2, <2>4, QuietStep DEF ReadNotSetUp
  <1>4. QED BY <1>2, <1>3

\* VerifyPassphrase: a device with the account's salt holds the key under the wrap.
LEMMA VerifyPassphraseInv ==
  ASSUME Inv, NEW d \in Devices, NEW phase \in {"rewrap", "generate"},
         VerifyPassphrase(d, phase)
  PROVE  Inv'
  <1>1. op \in [Devices -> Op] /\ user \in User BY DEF Inv, TypeOK
  <1> DEFINE new == [op[d] EXCEPT !.phase = phase, !.seen = user]
  <1>2. new \in Op /\ op' = [op EXCEPT ![d] = new]
    <2>1. new \in Op BY <1>1 DEF Op
    <2>2. op' = [op EXCEPT ![d] = new] BY <1>1 DEF VerifyPassphrase, Start
    <2>3. QED BY <2>1, <2>2
  <1>3. op'[d].phase = phase BY <1>1, <1>2 DEF Op
  <1>4. Unlocked(d) /\ user.setup # 0 /\ held[d].salt = user.salt BY DEF VerifyPassphrase
  <1>5. held[d].key = user.wrap BY <1>4 DEF Inv, HeldInv
  <1>6. ~crossed => held[d].key = user.auth BY <1>4, <1>5 DEF Inv, LockedOutOnlyByRace
  <1>7. WrapInv(d)' BY <1>3, <1>4, <1>6 DEF VerifyPassphrase, WrapInv, Unlocked
  <1>8. RestoreInv(d)' /\ FetchInv(d)' /\ ApplyInv(d)'
    BY <1>3 DEF RestoreInv, FetchInv, ApplyInv, Fetching
  <1>9. QED BY <1>2, <1>7, <1>8, QuietStep DEF VerifyPassphrase, OpInv

\* VerifyRecoveryKey: the recovery wrap read is of the vault's key.
LEMMA VerifyRecoveryKeyInv ==
  ASSUME Inv, NEW d \in Devices, VerifyRecoveryKey(d)
  PROVE  Inv'
  <1>1. op \in [Devices -> Op] /\ user \in User BY DEF Inv, TypeOK
  <1> DEFINE new == [op[d] EXCEPT !.phase = "recover", !.seen = user]
  <1>2. new \in Op /\ op' = [op EXCEPT ![d] = new]
    BY <1>1 DEF VerifyRecoveryKey, Start, Op
  <1>3. op'[d].phase = "recover" /\ op'[d].seen = user BY <1>1, <1>2 DEF Op
  <1>4. ~crossed => user.setup # 0 /\ user.rec = user.auth
    BY DEF VerifyRecoveryKey, Inv, LockedOutOnlyByRace, UserInv
  <1>5. WrapInv(d)' BY <1>3, <1>4 DEF VerifyRecoveryKey, WrapInv
  <1>6. RestoreInv(d)' /\ FetchInv(d)' /\ ApplyInv(d)'
    BY <1>3 DEF RestoreInv, FetchInv, ApplyInv, Fetching
  <1>7. QED BY <1>2, <1>5, <1>6, QuietStep DEF VerifyRecoveryKey, OpInv

\* ReadHistory: the row read belongs to an entry, and opens unless that is a stray.
LEMMA ReadHistoryInv ==
  ASSUME Inv, NEW d \in Devices, NEW e \in Entries, NEW h \in hist[e], ReadHistory(d, e, h)
  PROVE  Inv'
  <1>1. op \in [Devices -> Op] /\ h \in Version BY DEF Inv, TypeOK
  <1> DEFINE new == [op[d] EXCEPT !.phase = "restore", !.entry = e, !.blob = h.blob]
  <1>2. op' = [op EXCEPT ![d] = new] /\ new \in Op
    <2>1. op[d] \in Op /\ h.blob \in Blob /\ e \in Entries \cup {0} BY <1>1 DEF Version
    <2>2. new \in Op BY <2>1 DEF Op
    <2>3. QED BY <1>1, <2>2 DEF ReadHistory
  <1>3. op'[d].phase = "restore" /\ op'[d].entry = e /\ op'[d].blob = h.blob
    BY <1>1, <1>2 DEF Op
  <1>4. rows[e].state = "present" BY DEF Inv, RowInv
  <1>5. e \notin strays => Opens(h.blob) BY <1>4 DEF Inv, EverythingOpens, Present
  <1>6. h.blob.keyVersion \in Nat /\ user.keyVersion \in Nat
    BY <1>1, Numbers DEF Inv, Version, Blob
  <1>7. RestoreInv(d)'
    BY <1>3, <1>4, <1>5, <1>6 DEF ReadHistory, RestoreInv, Opens, Present
  <1>8. WrapInv(d)' /\ FetchInv(d)' /\ ApplyInv(d)'
    BY <1>3 DEF WrapInv, FetchInv, ApplyInv, Fetching
  <1>9. QED BY <1>2, <1>7, <1>8, QuietStep DEF ReadHistory, OpInv

\* FetchEntries: the blobs fetched are the entries' own.
LEMMA FetchEntriesInv ==
  ASSUME Inv, NEW d \in Devices, FetchEntries(d)
  PROVE  Inv'
  <1> DEFINE fetched == {<<e, rows[e].blob.ver>> : e \in Present}
             new == [op[d] EXCEPT !.phase = "history", !.ents = fetched]
  <1>1. op \in [Devices -> Op] /\ op[d] \in Op BY DEF Inv, TypeOK
  <1>2. \A e \in Entries : rows[e].blob.ver \in Nat /\ rows[e].blob.ver <= MaxVer
    BY Numbers DEF Inv, RowInv
  <1>3. \A x \in fetched : /\ x[1] \in Entries /\ rows[x[1]].state = "present"
                           /\ x[2] = rows[x[1]].blob.ver /\ x = <<x[1], x[2]>>
    BY DEF Present
  <1>4. fetched \in SUBSET (Entries \X Nat) BY <1>2, <1>3
  <1> HIDE DEF fetched
  <1>5. new \in Op BY <1>1, <1>4 DEF Op
  <1>6. op' = [op EXCEPT ![d] = new] BY <1>1 DEF FetchEntries, fetched
  <1>7. op'[d].phase = "history" /\ op'[d].ents = fetched BY <1>1, <1>6 DEF Op
  <1>8. FetchInv(d)'
    <2>1. Unlocked(d)' BY DEF FetchEntries, Unlocked
    <2>2. \A x \in fetched : rows'[x[1]].state # "absent" /\ x[2] <= MaxVer
      BY <1>2, <1>3 DEF FetchEntries
    <2>3. \A x, y \in fetched : x[1] = y[1] => x = y BY <1>3
    <2>4. \A x \in fetched : rows'[x[1]].blob.ver = x[2] BY <1>3 DEF FetchEntries
    <2>5. QED BY <1>7, <2>1, <2>2, <2>3, <2>4 DEF FetchInv
  <1>9. WrapInv(d)' /\ RestoreInv(d)' /\ ApplyInv(d)'
    BY <1>7 DEF WrapInv, RestoreInv, ApplyInv
  <1>10. QED BY <1>5, <1>6, <1>8, <1>9, QuietStep DEF FetchEntries, OpInv

\* FetchHistory: no history row has a number above its entry's writes.
LEMMA FetchHistoryInv ==
  ASSUME Inv, NEW d \in Devices, FetchHistory(d)
  PROVE  Inv'
  <1> DEFINE new == [op[d] EXCEPT !.phase = "attachments", !.hists = HistoryIds]
  <1>1. op \in [Devices -> Op] /\ op[d] \in Op /\ hist \in [Entries -> SUBSET Version]
    BY DEF Inv, TypeOK
  <1>2. ASSUME NEW x \in HistoryIds
        PROVE  /\ x \in Entries \X Nat
               /\ rows[x[1]].state = "present" /\ x[2] <= rows[x[1]].writes
    <2>1. PICK e \in Entries : x \in {<<e, h.id>> : h \in hist[e]} BY <1>2 DEF HistoryIds
    <2>2. PICK h \in hist[e] : x = <<e, h.id>> BY <2>1
    <2>3. h.id \in Nat BY <1>1 DEF Version
    <2>4. rows[e].state = "present" /\ h.id <= rows[e].writes BY DEF Inv, RowInv
    <2>5. QED BY <2>2, <2>3, <2>4
  <1>3. HistoryIds \in SUBSET (Entries \X Nat) BY <1>2
  <1>4. new \in Op BY <1>1, <1>3 DEF Op
  <1>5. op' = [op EXCEPT ![d] = new] BY <1>1 DEF FetchHistory
  <1>6. /\ op'[d].phase = "attachments" /\ op'[d].hists = HistoryIds
        /\ op'[d].ents = op[d].ents /\ op'[d].torn = op[d].torn
    BY <1>1, <1>5 DEF Op
  <1>7. FetchInv(d) /\ op[d].phase = "history" BY DEF Inv, OpInv, FetchHistory
  <1>8. FetchInv(d)'
    BY <1>2, <1>6, <1>7 DEF FetchHistory, FetchInv, Fetching, Unlocked, Present
  <1>9. WrapInv(d)' /\ RestoreInv(d)' /\ ApplyInv(d)'
    BY <1>6 DEF WrapInv, RestoreInv, ApplyInv
  <1>10. QED BY <1>4, <1>5, <1>8, <1>9, QuietStep DEF FetchHistory, OpInv

LEMMA FetchAttachmentsInv ==
  ASSUME Inv, NEW d \in Devices, FetchAttachments(d)
  PROVE  Inv'
  <1> DEFINE ceks == {e \in Entries : att[e].mode = "cek"}
             new == [op[d] EXCEPT !.phase = "post", !.ceks = ceks]
  <1>1. op \in [Devices -> Op] /\ op[d] \in Op BY DEF Inv, TypeOK
  <1>2. ceks \in SUBSET Entries OBVIOUS
  <1> HIDE DEF ceks
  <1>3. new \in Op BY <1>1, <1>2 DEF Op
  <1>4. op' = [op EXCEPT ![d] = new] BY <1>1 DEF FetchAttachments, ceks
  <1>5. /\ op'[d].phase = "post" /\ op'[d].hists = op[d].hists
        /\ op'[d].ents = op[d].ents /\ op'[d].torn = op[d].torn
    BY <1>1, <1>4 DEF Op
  <1>6. FetchInv(d) /\ op[d].phase = "attachments" BY DEF Inv, OpInv, FetchAttachments
  <1>7. FetchInv(d)'
    BY <1>5, <1>6 DEF FetchAttachments, FetchInv, Fetching, Unlocked, Present
  <1>8. WrapInv(d)' /\ RestoreInv(d)' /\ ApplyInv(d)'
    BY <1>5 DEF WrapInv, RestoreInv, ApplyInv
  <1>9. QED BY <1>3, <1>4, <1>7, <1>8, QuietStep DEF FetchAttachments, OpInv

\* PostRotation: the users row read is the current one, and the device has its key.
LEMMA PostRotationInv ==
  ASSUME Inv, NEW d \in Devices, PostRotation(d)
  PROVE  Inv'
  <1> DEFINE new == [op[d] EXCEPT !.phase = "apply", !.seen = user]
  <1>1. op \in [Devices -> Op] /\ op[d] \in Op /\ user \in User BY DEF Inv, TypeOK
  <1>2. new \in Op BY <1>1 DEF Op
  <1>3. op' = [op EXCEPT ![d] = new] BY <1>1 DEF PostRotation, Start
  <1>4. /\ op'[d].phase = "apply" /\ op'[d].seen = user /\ op'[d].hists = op[d].hists
        /\ op'[d].ents = op[d].ents /\ op'[d].torn = op[d].torn
    BY <1>1, <1>3 DEF Op
  <1>5. FetchInv(d) /\ op[d].phase = "post" BY DEF Inv, OpInv, PostRotation
  <1>6. FetchInv(d)'
    BY <1>4, <1>5 DEF PostRotation, FetchInv, Fetching, Unlocked, Present
  <1>7. ApplyInv(d)'
    <2>1. user.setup # 0 /\ held[d].key = user.auth /\ UNCHANGED <<user, held, keys, salts>>
      BY DEF PostRotation
    <2>2. user.setup <= keys /\ user.salt <= salts /\ user.salt # 0
      BY <2>1, Numbers DEF Inv, UserInv
    <2>3. QED BY <1>4, <2>1, <2>2, Numbers DEF ApplyInv, Inv
  <1>8. WrapInv(d)' /\ RestoreInv(d)' BY <1>4 DEF WrapInv, RestoreInv
  <1>9. QED BY <1>2, <1>3, <1>6, <1>7, <1>8, QuietStep DEF PostRotation, OpInv

\* The steps that read.
ReadStep(d) ==
  \/ \E e \in Entries : \E h \in hist[e] : ReadHistory(d, e, h)
  \/ \E phase \in {"rewrap", "generate"} : VerifyPassphrase(d, phase)
  \/ VerifyRecoveryKey(d) \/ ReadNotSetUp(d) \/ FetchEntries(d) \/ FetchHistory(d)
  \/ FetchAttachments(d) \/ PostRotation(d) \/ Abandon(d)

LEMMA ReadInv ==
  ASSUME Inv, NEW d \in Devices, ReadStep(d)
  PROVE  Inv' /\ user' = user
  <1>1. Inv'
    BY ReadHistoryInv, VerifyPassphraseInv, VerifyRecoveryKeyInv, AbandonInv, FetchEntriesInv,
       FetchHistoryInv, FetchAttachmentsInv, PostRotationInv
    DEF ReadStep
  <1>2. user' = user
    BY DEF ReadStep, ReadHistory, VerifyPassphrase, VerifyRecoveryKey, ReadNotSetUp,
           FetchEntries, FetchHistory, FetchAttachments, PostRotation, Abandon
  <1>3. QED BY <1>1, <1>2

-----------------------------------------------------------------------------
(* Unlock and the guarded writers.                                             *)

LEMMA UnlockInv ==
  ASSUME Inv, NEW d \in Devices, Unlock(d)
  PROVE  Inv' /\ user' = user
  <1> DEFINE new == [key |-> user.wrap, keyVersion |-> user.keyVersion,
                     salt |-> user.salt, pass |-> user.pass]
  <1>1. held \in [Devices -> Held] /\ user \in User BY DEF Inv, TypeOK
  <1>2. new \in Held BY <1>1 DEF User, Held
  <1>3. held' = [held EXCEPT ![d] = new] BY DEF Unlock
  <1>4. \A x \in Devices : held'[x] = IF x = d THEN new ELSE held[x] BY <1>1, <1>3
  <1>5. TypeOK' BY <1>1, <1>2, <1>3 DEF Unlock, Inv, TypeOK
  <1>6. user.setup # 0 /\ user.wrap = user.auth BY DEF Unlock
  <1>7. HeldInv(d)'
    <2>1. user.keyVersion # 0 BY <1>6 DEF Inv, TypeOK
    <2>2. UNCHANGED <<user, keys, salts>> BY DEF Unlock
    <2>3. held'[d] = new BY <1>4
    <2>4. user.salt # 0 /\ user.salt <= salts /\ user.auth <= keys BY <1>6 DEF Inv, UserInv
    <2>5. QED BY <1>6, <2>1, <2>2, <2>3, <2>4, Numbers DEF Inv, HeldInv, Unlocked
  <1>8. ASSUME NEW x \in Devices PROVE HeldInv(x)' /\ OpInv(x)'
    <2>1. CASE x = d
      <3>1. op'[d].phase = "idle" BY DEF Unlock
      <3>2. QED BY <1>7, <2>1, <3>1, IdleOp
    <2>2. CASE x # d
      <3>1. held'[x] = held[x] BY <1>4, <2>2
      <3>2. HeldInv(x) /\ OpInv(x) BY DEF Inv
      <3>3. HeldInv(x)' BY <3>1, <3>2 DEF Unlock, HeldInv, Unlocked
      <3>4. WrapInv(x)' /\ RestoreInv(x)' /\ ApplyInv(x)'
        BY <3>1, <3>2 DEF Unlock, OpInv, WrapInv, RestoreInv, ApplyInv, Unlocked, Present
      <3>5. FetchInv(x)' BY <3>1, <3>2 DEF Unlock, OpInv, FetchInv, Unlocked, Present
      <3>6. QED BY <3>3, <3>4, <3>5 DEF OpInv
    <2>3. QED BY <2>1, <2>2
  <1>9. \A e \in Entries : RowInv(e)' BY DEF Unlock, Inv, RowInv
  <1>10. UserInv' /\ PasskeyOpens' /\ LockedOutOnlyByRace'
    BY DEF Unlock, Inv, UserInv, PasskeyOpens, LockedOutOnlyByRace
  <1>11. EverythingOpens' BY DEF Unlock, Inv, EverythingOpens, Opens, Present
  <1>12. user' = user /\ hist' = hist BY DEF Unlock
  <1>13. QED BY <1>5, <1>8, <1>9, <1>10, <1>11, <1>12 DEF Inv

\* A step that leaves the users row and the devices' keys alone.
LEMMA DataStep ==
  ASSUME Inv, TypeOK', hist' \in [Entries -> SUBSET Version],
         UNCHANGED <<user, keys, salts, held, crossed>>,
         \A p \in Passkeys : prf'[p].key <= keys, PasskeyOpens', EverythingOpens', \A e \in Entries : RowInv(e)',
         RowsGrow,
         \A x \in Devices : \/ op'[x].phase = "idle"
                            \/ Kept(x) /\ op'[x].late = op[x].late /\ BlobsKept(x)
  PROVE  Inv'
  <1>1. ASSUME NEW x \in Devices PROVE HeldInv(x)' /\ OpInv(x)'
    <2>1. HeldInv(x) /\ OpInv(x) BY DEF Inv
    <2>2. HeldInv(x)' BY <2>1 DEF HeldInv, Unlocked
    <2>3. ASSUME Kept(x), op'[x].late = op[x].late, BlobsKept(x) PROVE OpInv(x)'
      <3>1. WrapInv(x)' BY <2>1, <2>3, WrapFrame DEF OpInv
      <3>2. RestoreInv(x)' BY <2>1, <2>3, RestoreFrame DEF Inv, OpInv, SameKey
      <3>3. FetchInv(x)' BY <2>1, <2>3, FetchFrame DEF Inv, OpInv
      <3>4. ApplyInv(x)' BY <2>1, <2>3 DEF OpInv, ApplyInv, Kept
      <3>5. QED BY <3>1, <3>2, <3>3, <3>4 DEF OpInv
    <2>4. QED BY <2>2, <2>3, IdleOp
  <1>2. UserInv' BY DEF Inv, UserInv
  <1>3. LockedOutOnlyByRace' BY DEF Inv, LockedOutOnlyByRace
  <1>4. QED BY <1>1, <1>2, <1>3 DEF Inv

\* A wrap that is stored or taken away, of a key that was generated and that is the
\* vault's unless the wrap is loose.
LEMMA WrapStep ==
  ASSUME Inv, NEW p \in Passkeys, NEW w \in Wrap, prf' = [prf EXCEPT ![p] = w],
         w.key <= keys, user.setup # 0 /\ w.key >= user.setup /\ ~w.loose => w.key = user.auth,
         UNCHANGED <<user, rows, hist, att, held, op, keys, salts, strays, crossed>>
  PROVE  Inv' /\ user' = user
  <1>1. TypeOK /\ prf \in [Passkeys -> Wrap] BY DEF Inv, TypeOK
  <1>2. prf' \in [Passkeys -> Wrap] /\ prf'[p] = w /\ \A q \in Passkeys \ {p} : prf'[q] = prf[q]
    BY <1>1
  <1>3. TypeOK' BY <1>1, <1>2 DEF TypeOK
  <1>4. \A q \in Passkeys : prf'[q].key <= keys BY <1>2 DEF Inv, UserInv
  <1>5. PasskeyOpens' BY <1>2 DEF Inv, PasskeyOpens
  <1>6. EverythingOpens' BY DEF Inv, EverythingOpens, Opens, Present
  <1>7. \A e \in Entries : RowInv(e)' BY DEF Inv, RowInv
  <1>8. RowsGrow BY <1>1, Numbers DEF RowsGrow
  <1>9. \A x \in Devices : Kept(x) /\ op'[x].late = op[x].late /\ BlobsKept(x)
    BY DEF Kept, BlobsKept
  <1>10. hist' \in [Entries -> SUBSET Version] BY DEF Inv
  <1>11. QED BY <1>3, <1>4, <1>5, <1>6, <1>7, <1>8, <1>9, <1>10, DataStep

\* A device with the key version of the vault wraps its key; a registration that
\* wraps another key is loose.
LEMMA PasskeyInv ==
  ASSUME Inv, NEW d \in Devices, NEW p \in Passkeys,
         RegisterPasskey(d, p) \/ RebootstrapPrf(d, p) \/ DeletePasskey(d, p)
  PROVE  Inv' /\ user' = user
  <1>1. HeldInv(d) /\ held[d].key \in 0..MaxKey /\ keys \in Nat BY Numbers DEF Inv, TypeOK, Held
  <1>2. ASSUME NEW loose \in BOOLEAN, Unlocked(d), loose \/ user.setup = 0
                 \/ held[d].key < user.setup \/ held[d].key = user.auth,
               prf' = [prf EXCEPT ![p] = [key |-> held[d].key, loose |-> loose]],
               UNCHANGED <<user, rows, hist, att, held, op, keys, salts, strays, crossed>>
        PROVE  Inv' /\ user' = user
    <2>0. PICK k \in 0..MaxKey : k = held[d].key BY <1>1
    <2> DEFINE w == [key |-> k, loose |-> loose]
    <2>1. w \in Wrap /\ w.key = held[d].key /\ w.loose = loose
      BY <2>0 DEF Wrap
    <2>2. w.key <= keys BY <1>1, <1>2, <2>1 DEF HeldInv
    <2>3. user.setup # 0 /\ w.key >= user.setup /\ ~w.loose => w.key = user.auth
      BY <1>1, <1>2, <2>1, Numbers DEF Inv
    <2>4. prf' = [prf EXCEPT ![p] = w] BY <1>2, <2>0
    <2> HIDE DEF w
    <2>5. QED BY <1>2, <2>1, <2>2, <2>3, <2>4, WrapStep
  <1>3. CASE RegisterPasskey(d, p)
    BY <1>2, <1>3 DEF RegisterPasskey
  <1>4. CASE RebootstrapPrf(d, p)
    <2>1. user.setup = 0 \/ held[d].key < user.setup \/ held[d].key = user.auth
      BY <1>1, <1>4, Numbers DEF RebootstrapPrf, CurrentKeyVersion, HeldInv, Inv
    <2>2. QED BY <1>2, <1>4, <2>1 DEF RebootstrapPrf
  <1>5. CASE DeletePasskey(d, p)
    <2>0. NoWrap \in Wrap /\ NoWrap.key = 0 BY VaultAssumption DEF NoWrap, Wrap
    <2>1. PICK w \in Wrap : w = NoWrap /\ w.key = 0 BY <2>0
    <2>2. w.key <= keys /\ (user.setup # 0 => ~(w.key >= user.setup))
      BY <1>1, <2>1, Numbers DEF Inv
    <2>3. /\ prf' = [prf EXCEPT ![p] = w]
          /\ UNCHANGED <<user, rows, hist, att, held, op, keys, salts, strays, crossed>>
      BY <1>5, <2>1 DEF DeletePasskey
    <2>4. QED BY <2>2, <2>3, WrapStep
  <1>6. QED BY <1>3, <1>4, <1>5

LEMMA DeleteEntryInv ==
  ASSUME Inv, NEW d \in Devices, NEW e \in Entries, DeleteEntry(d, e)
  PROVE  Inv' /\ user' = user
  <1>1. /\ TypeOK /\ rows \in [Entries -> Row] /\ hist \in [Entries -> SUBSET Version]
        /\ att \in [Entries -> Attachment]
    BY DEF Inv, TypeOK
  <1>2. /\ UNCHANGED <<user, prf, held, op, keys, salts, strays, crossed>>
        /\ rows[e].state = "present"
        /\ rows' = [rows EXCEPT ![e] = NoRow("deleted")]
        /\ hist' = [hist EXCEPT ![e] = {}] /\ att' = [att EXCEPT ![e] = NoAttachment]
    BY DEF DeleteEntry
  <1>3. NoRow("deleted") \in Row /\ NoAttachment \in Attachment
    BY VaultAssumption DEF NoRow, Row, NoBlob, Blob, NoAttachment, Attachment
  <1>4. /\ rows' \in [Entries -> Row] /\ hist' \in [Entries -> SUBSET Version]
        /\ att' \in [Entries -> Attachment]
    BY <1>1, <1>2, <1>3
  <1>5. \A f \in Entries : f # e => rows'[f] = rows[f] /\ hist'[f] = hist[f] /\ att'[f] = att[f]
    BY <1>1, <1>2
  <1>6. /\ rows'[e].state = "deleted" /\ rows'[e].writes = 0 /\ rows'[e].blob.ver = 0
        /\ hist'[e] = {} /\ att'[e].mode = "none"
    BY <1>1, <1>2 DEF NoRow, NoBlob, NoAttachment
  <1>7. TypeOK' BY <1>1, <1>2, <1>4 DEF TypeOK
  <1>8. PasskeyOpens' BY <1>2 DEF Inv, PasskeyOpens
  <1>9. EverythingOpens' BY <1>2, <1>5, <1>6 DEF Inv, EverythingOpens, Opens, Present
  <1>10. \A f \in Entries : RowInv(f)' BY <1>2, <1>5, <1>6, Numbers DEF Inv, RowInv
  <1>11. RowsGrow BY <1>1, <1>2, <1>5, <1>6, Numbers DEF RowsGrow
  <1>12. \A x \in Devices : Kept(x) /\ op'[x].late = op[x].late /\ BlobsKept(x)
    BY <1>2, <1>5, <1>6 DEF Kept, BlobsKept, Present
  <1>13. \A p \in Passkeys : prf'[p].key <= keys BY <1>2 DEF Inv, UserInv
  <1>14. QED
    BY <1>2, <1>4, <1>7, <1>8, <1>9, <1>10, <1>11, <1>12, <1>13, DataStep

\* A device that passes assertCurrentKeyVersion holds the vault's key, unless its
\* key is older than the vault.
LEMMA CurrentKey ==
  ASSUME Inv, NEW d \in Devices, Unlocked(d), CurrentKeyVersion(held[d].keyVersion)
  PROVE  user.setup # 0 /\ (~(held[d].key < user.setup) => held[d].key = user.auth)
  <1>1. HeldInv(d) /\ held[d].keyVersion = user.keyVersion BY DEF Inv, CurrentKeyVersion
  <1>2. user.setup # 0 BY <1>1 DEF HeldInv, Inv, TypeOK
  <1>3. QED BY <1>1, <1>2, Numbers DEF HeldInv, Inv

\* What a write does to the requests under way and to the strays.
LEMMA WroteFacts ==
  ASSUME Inv, NEW d \in Devices, NEW e \in Entries, Wrote(d, e), held' = held
  PROVE  /\ op' \in [Devices -> Op] /\ op'[d].phase = "idle"
         /\ \A x \in Devices \ {d} : /\ Kept(x) /\ op'[x].late = op[x].late
                                     /\ op[x].phase = "history" => e \in op'[x].torn
         /\ strays' \subseteq Entries /\ strays \subseteq strays'
         /\ e \notin strays' => ~(held[d].key < user.setup)
         /\ \A f \in Entries \ {e} : f \in strays' => f \in strays
  <1>1. op \in [Devices -> Op] /\ strays \subseteq Entries BY DEF Inv, TypeOK
  <1>2. \A x \in Devices : op[x].torn \subseteq Entries BY <1>1 DEF Op
  <1>3. ASSUME NEW x \in Devices
        PROVE  /\ op'[x] \in Op
               /\ x # d => /\ Kept(x) /\ op'[x].late = op[x].late
                           /\ op[x].phase = "history" => e \in op'[x].torn
    <2>1. CASE x = d BY <2>1, IdleType DEF Wrote
    <2>2. CASE x # d /\ op[x].phase # "history"
      <3>1. op'[x] = op[x] BY <2>2 DEF Wrote
      <3>2. QED BY <1>1, <2>2, <3>1 DEF Kept
    <2>3. CASE x # d /\ op[x].phase = "history"
      <3> DEFINE new == [op[x] EXCEPT !.torn = @ \cup {e}]
      <3>1. op'[x] = new BY <2>3 DEF Wrote
      <3>2. op[x] \in Op /\ op[x].torn \cup {e} \in SUBSET Entries BY <1>1, <1>2
      <3>3. new \in Op BY <3>2 DEF Op
      <3>4. /\ new.phase = op[x].phase /\ new.seen = op[x].seen /\ new.entry = op[x].entry
            /\ new.blob = op[x].blob /\ new.ents = op[x].ents /\ new.hists = op[x].hists
            /\ new.late = op[x].late /\ new.torn = op[x].torn \cup {e}
        BY <3>2 DEF Op
      <3> HIDE DEF new
      <3>5. QED BY <2>3, <3>1, <3>3, <3>4 DEF Kept
    <2>4. QED BY <2>1, <2>2, <2>3
  <1>4. op' = [x \in Devices |-> op'[x]] BY DEF Wrote
  <1>5. op' \in [Devices -> Op] BY <1>3, <1>4
  <1>6. op'[d].phase = "idle" BY DEF Wrote, Idle
  <1>7. /\ strays' \subseteq Entries /\ strays \subseteq strays'
        /\ e \notin strays' => ~(held[d].key < user.setup)
        /\ \A f \in Entries \ {e} : f \in strays' => f \in strays
    BY <1>1 DEF Wrote
  <1>8. QED BY <1>3, <1>5, <1>6, <1>7

\* A new blob in place, with the history row of the write if there was one before.
LEMMA WriteStep ==
  ASSUME Inv, NEW d \in Devices, NEW e \in Entries, NEW n \in Nat, NEW b \in Blob,
         NEW versions \in SUBSET Version,
         Wrote(d, e), UNCHANGED <<user, att, prf, held, keys, salts, crossed>>,
         rows' = [rows EXCEPT ![e] = [state |-> "present", writes |-> n, blob |-> b]],
         hist' = [hist EXCEPT ![e] = @ \cup versions],
         n <= MaxVer, b.ver = n, b.keyVersion = user.keyVersion, user.setup # 0,
         rows[e].state # "deleted",
         rows[e].state = "present" => rows[e].writes < n /\ versions # {},
         \A h \in versions : h.id = n /\ rows[e].state = "present" /\ h.blob = rows[e].blob,
         e \notin strays' => b.key = user.auth
  PROVE  Inv' /\ user' = user
  <1> DEFINE row == [state |-> "present", writes |-> n, blob |-> b]
  <1>1. /\ TypeOK /\ rows \in [Entries -> Row] /\ hist \in [Entries -> SUBSET Version]
        /\ user \in User
    BY DEF Inv, TypeOK
  <1>2. row \in Row BY DEF Row
  <1>3. rows' \in [Entries -> Row] /\ hist' \in [Entries -> SUBSET Version] BY <1>1, <1>2
  <1>4. /\ \A f \in Entries : f # e => rows'[f] = rows[f] /\ hist'[f] = hist[f]
        /\ rows'[e] = row /\ hist'[e] = hist[e] \cup versions
    BY <1>1
  <1>5. /\ row.state = "present" /\ row.writes = n /\ row.blob = b OBVIOUS
  <1> HIDE DEF row
  <1>6. TypeOK'
    BY <1>1, <1>3, WroteFacts DEF TypeOK
  <1>7. \A f \in Entries : rows[f].writes \in Nat /\ rows[f].blob.ver \in Nat
    BY <1>1, Numbers
  <1>8. \A f \in Entries : f \notin strays' => f \notin strays BY WroteFacts
  <1>9. EverythingOpens'
    <2>1. SUFFICES ASSUME NEW f \in Entries, rows'[f].state = "present", f \notin strays'
                   PROVE  /\ Opens(rows'[f].blob)
                          /\ \A h \in hist'[f] : Opens(h.blob)
                          /\ att[f].mode # "none" => Opens(att[f])
      BY DEF EverythingOpens, Present, Opens
    <2>2. CASE f # e BY <1>4, <1>8, <2>1, <2>2 DEF Inv, EverythingOpens, Present
    <2>3. CASE f = e /\ rows[e].state = "present"
      BY <1>4, <1>5, <1>8, <2>1, <2>3 DEF Inv, EverythingOpens, Present, Opens
    <2>4. CASE f = e /\ rows[e].state # "present"
      <3>1. hist[e] = {} /\ att[e].mode = "none" /\ versions = {} BY <2>4 DEF Inv, RowInv
      <3>2. QED BY <1>4, <1>5, <2>1, <2>4, <3>1 DEF Opens
    <2>5. QED BY <2>2, <2>3, <2>4
  <1>10. ASSUME NEW f \in Entries PROVE RowInv(f)'
    <2>1. CASE f # e BY <1>4, <2>1 DEF Inv, RowInv
    <2>2. CASE f = e
      <3>1. \A h \in hist[e] : h.id \in Nat /\ h.id <= n
        <4>1. \A h \in hist[e] : h.id \in Nat /\ h.id <= rows[e].writes
          BY <1>1 DEF Inv, RowInv, Version
        <4>2. hist[e] # {} => rows[e].writes < n BY DEF Inv, RowInv
        <4>3. QED BY <1>7, <4>1, <4>2
      <3>2. QED BY <1>4, <1>5, <2>2, <3>1 DEF RowInv
    <2>3. QED BY <2>1, <2>2
  <1>11. RowsGrow
    <2>1. rows[e].state # "absent" => rows[e].state = "present" BY <1>1 DEF Row
    <2>2. \A f \in Entries : f \in strays => f \in strays' BY WroteFacts
    <2>3. QED BY <1>4, <1>5, <1>7, <2>1, <2>2 DEF RowsGrow
  <1>12. ASSUME NEW x \in Devices
         PROVE  \/ op'[x].phase = "idle"
                \/ Kept(x) /\ op'[x].late = op[x].late /\ BlobsKept(x)
    <2>1. CASE x = d BY <2>1, WroteFacts
    <2>2. CASE x # d
      <3>1. /\ Kept(x) /\ op'[x].late = op[x].late
            /\ op[x].phase = "history" => e \in op'[x].torn
        BY <2>2, WroteFacts
      <3>2. BlobsKept(x)
        <4>1. SUFFICES ASSUME NEW f \in Present \cap Present'
                       PROVE  /\ \A h \in hist[f] : \E g \in hist'[f] : g.id = h.id
                              /\ \/ rows'[f].blob.ver = rows[f].blob.ver
                                 \/ /\ op[x].phase = "history" => f \in op'[x].torn
                                    /\ \E g \in hist'[f] : g.id > rows[f].writes
          BY DEF BlobsKept
        <4>2. CASE f # e
          <5>1. f \in Entries BY DEF Present
          <5>2. rows'[f] = rows[f] /\ hist'[f] = hist[f] BY <1>4, <4>2, <5>1
          <5>3. QED BY <5>2
        <4>3. CASE f = e
          <5>1. rows[e].writes < n /\ versions # {} BY <4>3 DEF Present
          <5>2. PICK g \in versions : g.id = n BY <5>1
          <5>3. g \in hist'[e] /\ g.id > rows[e].writes BY <1>4, <1>7, <5>1, <5>2
          <5>4. \A h \in hist[e] : h \in hist'[e] BY <1>4
          <5>5. QED BY <3>1, <4>3, <5>3, <5>4
        <4>4. QED BY <4>2, <4>3
      <3>3. QED BY <3>1, <3>2
    <2>3. QED BY <2>1, <2>2
  <1>13. (\A p \in Passkeys : prf'[p].key <= keys) /\ PasskeyOpens' BY DEF Inv, UserInv, PasskeyOpens
  <1>14. QED BY <1>3, <1>6, <1>9, <1>10, <1>11, <1>12, <1>13, DataStep

LEMMA CreateEntryInv ==
  ASSUME Inv, NEW d \in Devices, NEW e \in Entries, CreateEntry(d, e)
  PROVE  Inv' /\ user' = user
  <1> DEFINE b == [ver |-> 1, key |-> held[d].key, keyVersion |-> held[d].keyVersion]
             none == {}
  <1>1. /\ held[d].key \in 0..MaxKey /\ held[d].keyVersion \in Nat
        /\ hist \in [Entries -> SUBSET Version]
    BY DEF Inv, TypeOK, Held
  <1>2. b \in Blob /\ none \in SUBSET Version BY <1>1 DEF Blob
  <1>3. user.setup # 0 /\ (~(held[d].key < user.setup) => held[d].key = user.auth)
    BY CurrentKey DEF CreateEntry
  <1>4. b.ver = 1 /\ b.key = held[d].key /\ b.keyVersion = user.keyVersion
    BY DEF CreateEntry, CurrentKeyVersion
  <1>5. hist' = [hist EXCEPT ![e] = @ \cup none] BY <1>1 DEF CreateEntry
  <1>6. /\ Wrote(d, e) /\ UNCHANGED <<user, att, prf, held, keys, salts, crossed>>
        /\ rows' = [rows EXCEPT ![e] = [state |-> "present", writes |-> 1, blob |-> b]]
        /\ rows[e].state = "absent"
    BY DEF CreateEntry
  <1>7. e \notin strays' => b.key = user.auth BY <1>3, <1>4, <1>6, WroteFacts
  <1>8. 1 \in Nat /\ 1 <= MaxVer BY VaultAssumption
  <1> HIDE DEF b
  <1>9. QED BY <1>2, <1>3, <1>4, <1>5, <1>6, <1>7, <1>8, WriteStep

LEMMA OverwriteStep ==
  ASSUME Inv, NEW d \in Devices, NEW e \in Entries, NEW key \in 0..MaxKey,
         Overwrite(e, key, user.keyVersion), Wrote(d, e),
         UNCHANGED <<user, att, prf, held, keys, salts, crossed>>,
         e \notin strays' => key = user.auth
  PROVE  Inv' /\ user' = user
  <1> DEFINE n == rows[e].writes + 1
             b == [ver |-> n, key |-> key, keyVersion |-> user.keyVersion]
             v == [id |-> n, blob |-> rows[e].blob]
  <1>1. rows[e].writes \in Nat /\ rows[e].blob \in Blob /\ user.keyVersion \in Nat
    BY DEF Inv, TypeOK, Row, User
  <1>2. n \in Nat /\ b \in Blob /\ v \in Version BY <1>1 DEF Blob, Version
  <1>3. /\ rows[e].state = "present" /\ n <= MaxVer /\ hist' = [hist EXCEPT ![e] = @ \cup {v}]
        /\ rows' = [rows EXCEPT ![e] = [state |-> "present", writes |-> n, blob |-> b]]
    BY DEF Overwrite
  <1>4. user.setup # 0 BY <1>3 DEF Inv, RowInv
  <1>5. b.ver = n /\ b.key = key /\ b.keyVersion = user.keyVersion
        /\ v.id = n /\ v.blob = rows[e].blob
    OBVIOUS
  <1>6. rows[e].writes < n BY <1>1
  <1>7. {v} \in SUBSET Version /\ {v} # {} BY <1>2
  <1> HIDE DEF n, b, v
  <1>8. QED BY <1>2, <1>3, <1>4, <1>5, <1>6, <1>7, WriteStep

LEMMA EditEntryInv ==
  ASSUME Inv, NEW d \in Devices, NEW e \in Entries, EditEntry(d, e)
  PROVE  Inv' /\ user' = user
  <1>1. held[d].key \in 0..MaxKey BY DEF Inv, TypeOK, Held
  <1>2. /\ Overwrite(e, held[d].key, user.keyVersion) /\ Wrote(d, e)
        /\ UNCHANGED <<user, att, prf, held, keys, salts, crossed>>
    BY DEF EditEntry, CurrentKeyVersion
  <1>3. ~(held[d].key < user.setup) => held[d].key = user.auth BY CurrentKey DEF EditEntry
  <1>4. e \notin strays' => held[d].key = user.auth BY <1>2, <1>3, WroteFacts
  <1>5. QED BY <1>1, <1>2, <1>4, OverwriteStep

\* RestoreHistory: the blob read has the vault's key version, hence its key.
LEMMA RestoreHistoryInv ==
  ASSUME Inv, NEW d \in Devices, RestoreHistory(d)
  PROVE  Inv' /\ user' = user
  <1> DEFINE e == op[d].entry
             key == op[d].blob.key
  <1>1. op[d].phase = "restore" /\ op[d].blob.keyVersion = user.keyVersion
    BY DEF RestoreHistory, CurrentKeyVersion
  <1>2. RestoreInv(d) BY DEF Inv, OpInv
  <1>3. e \in Entries BY <1>1, <1>2 DEF RestoreInv
  <1>4. key \in 0..MaxKey BY DEF Inv, TypeOK, Op, Blob
  <1>5. /\ Overwrite(e, key, user.keyVersion) /\ Wrote(d, e)
        /\ UNCHANGED <<user, att, prf, held, keys, salts, crossed>>
    BY <1>1 DEF RestoreHistory
  <1>6. rows[e].state = "present" BY <1>5 DEF Overwrite
  <1>7. e \notin strays' => e \notin strays BY <1>3, <1>5, WroteFacts
  <1>8. e \notin strays' => key = user.auth
    BY <1>1, <1>2, <1>3, <1>6, <1>7 DEF RestoreInv, Present
  <1> HIDE DEF e, key
  <1>9. QED BY <1>3, <1>4, <1>5, <1>8, OverwriteStep

\* An attachment of an entry in place.
LEMMA AttachmentStep ==
  ASSUME Inv, NEW e \in Entries, NEW a \in Attachment, att' = [att EXCEPT ![e] = a],
         UNCHANGED <<user, rows, hist, prf, held, op, keys, salts, crossed>>,
         strays \subseteq strays', strays' \subseteq Entries,
         rows[e].state = "present", e \notin strays' => Opens(a)
  PROVE  Inv' /\ user' = user
  <1>1. /\ TypeOK /\ att \in [Entries -> Attachment] /\ hist \in [Entries -> SUBSET Version]
    BY DEF Inv, TypeOK
  <1>2. att'[e] = a /\ \A f \in Entries : f # e => att'[f] = att[f] BY <1>1
  <1>3. att' \in [Entries -> Attachment] BY <1>1
  <1>4. TypeOK' BY <1>1, <1>3 DEF TypeOK
  <1>5. EverythingOpens' BY <1>2 DEF Inv, EverythingOpens, Opens, Present
  <1>6. \A f \in Entries : RowInv(f)' BY <1>2 DEF Inv, RowInv
  <1>7. RowsGrow BY <1>1, Numbers DEF RowsGrow
  <1>8. \A x \in Devices : Kept(x) /\ op'[x].late = op[x].late /\ BlobsKept(x)
    BY DEF Kept, BlobsKept
  <1>9. (\A p \in Passkeys : prf'[p].key <= keys) /\ PasskeyOpens' BY DEF Inv, UserInv, PasskeyOpens
  <1>10. hist' \in [Entries -> SUBSET Version] BY <1>1
  <1>11. QED BY <1>4, <1>5, <1>6, <1>7, <1>8, <1>9, <1>10, DataStep

LEMMA UploadAttachmentInv ==
  ASSUME Inv, NEW d \in Devices, NEW e \in Entries, UploadAttachment(d, e)
  PROVE  Inv' /\ user' = user
  <1> DEFINE a == [mode |-> "cek", key |-> held[d].key, keyVersion |-> held[d].keyVersion]
  <1>1. held[d].key \in 0..MaxKey /\ held[d].keyVersion \in Nat /\ strays \subseteq Entries
    BY DEF Inv, TypeOK, Held
  <1>2. a \in Attachment BY <1>1 DEF Attachment
  <1>3. ~(held[d].key < user.setup) => held[d].key = user.auth
    BY CurrentKey DEF UploadAttachment
  <1>4. strays' = IF held[d].key < user.setup THEN strays \cup {e} ELSE strays
    BY DEF UploadAttachment
  <1>5. strays \subseteq strays' /\ strays' \subseteq Entries BY <1>1, <1>4
  <1>6. e \notin strays' => Opens(a)
    BY <1>3, <1>4 DEF UploadAttachment, CurrentKeyVersion, Opens
  <1>7. /\ att' = [att EXCEPT ![e] = a] /\ rows[e].state = "present"
        /\ UNCHANGED <<user, rows, hist, prf, held, op, keys, salts, crossed>>
    BY DEF UploadAttachment
  <1> HIDE DEF a
  <1>8. QED BY <1>2, <1>5, <1>6, <1>7, AttachmentStep

LEMMA MigrateAttachmentInv ==
  ASSUME Inv, NEW d \in Devices, NEW e \in Entries, MigrateAttachment(d, e)
  PROVE  Inv' /\ user' = user
  <1> DEFINE a == [att[e] EXCEPT !.mode = "cek", !.keyVersion = held[d].keyVersion]
  <1>1. att \in [Entries -> Attachment] /\ held[d].keyVersion \in Nat /\ strays \subseteq Entries
    BY DEF Inv, TypeOK, Held
  <1>2. att[e].mode = "legacy" /\ held[d].keyVersion = user.keyVersion
    BY DEF MigrateAttachment, CurrentKeyVersion
  <1>3. rows[e].state = "present" BY <1>2 DEF Inv, RowInv
  <1>4. a \in Attachment /\ a.key = att[e].key /\ a.keyVersion = user.keyVersion
    BY <1>1, <1>2 DEF Attachment
  <1>5. att' = [att EXCEPT ![e] = a] BY <1>1 DEF MigrateAttachment, Attachment
  <1>6. e \notin strays => Opens(a)
    BY <1>2, <1>3, <1>4 DEF Inv, EverythingOpens, Opens, Present
  <1>7. strays' = strays /\ UNCHANGED <<user, rows, hist, prf, held, op, keys, salts, crossed>>
    BY DEF MigrateAttachment
  <1> HIDE DEF a
  <1>8. QED BY <1>1, <1>3, <1>4, <1>5, <1>6, <1>7, AttachmentStep

\* The steps that write the vault's data.
WriterStep(d) ==
  \/ \E e \in Entries : \/ CreateEntry(d, e) \/ EditEntry(d, e) \/ DeleteEntry(d, e)
                        \/ UploadAttachment(d, e) \/ MigrateAttachment(d, e)
  \/ \E p \in Passkeys : RegisterPasskey(d, p) \/ RebootstrapPrf(d, p) \/ DeletePasskey(d, p)
  \/ Unlock(d) \/ RestoreHistory(d)

LEMMA WriterInv ==
  ASSUME Inv, NEW d \in Devices, WriterStep(d)
  PROVE  Inv' /\ user' = user
  BY CreateEntryInv, EditEntryInv, DeleteEntryInv, UploadAttachmentInv, MigrateAttachmentInv,
     UnlockInv, RestoreHistoryInv, PasskeyInv
  DEF WriterStep

-----------------------------------------------------------------------------
(* The writers of the users row that verified before.                          *)

\* A wrap is stored: the vault keeps its key, and a new salt is new.
LEMMA StoreStep ==
  ASSUME Inv, NEW d \in Devices, user' \in User, held' \in [Devices -> Held],
         salts' \in 1..MaxSalt, salts <= salts', user'.salt <= salts', Stored(d),
         UNCHANGED <<rows, hist, att, prf, keys, strays>>, SameKey,
         user'.setup # 0 => user'.salt # 0,
         \A x \in Devices : x # d => held'[x] = held[x],
         HeldInv(d)', LockedOutOnlyByRace', ~crossed' /\ user'.setup = 0 => user'.rec = 0,
         \/ user'.salt = user.salt /\ user'.wrap = user.wrap /\ user'.pass = user.pass
         \/ user'.salt > salts
  PROVE  Inv'
  <1>1. /\ TypeOK /\ op \in [Devices -> Op] /\ op' = [op EXCEPT ![d] = Idle]
        /\ crossed => crossed'
    BY DEF Inv, TypeOK, Stored, Done
  <1>2. op' \in [Devices -> Op] /\ op'[d].phase = "idle" BY <1>1, IdleType DEF Idle
  <1>3. TypeOK' BY <1>1, <1>2 DEF TypeOK, SameKey
  <1>4. CountersGrow /\ KeyStep BY <1>1, Numbers DEF CountersGrow, KeyStep, TypeOK
  <1>5. RowsGrow BY <1>1, Numbers DEF RowsGrow
  <1>6. ASSUME NEW x \in Devices PROVE HeldInv(x)' /\ OpInv(x)'
    <2>1. CASE x = d BY <1>2, <2>1, IdleOp
    <2>2. CASE x # d
      <3>1. HeldInv(x) /\ OpInv(x) BY DEF Inv
      <3>2. op'[x] = op[x] /\ held'[x] = held[x] BY <1>1, <2>2
      <3>3. Kept(x) /\ BlobsKept(x) BY <3>2 DEF Kept, BlobsKept
      <3>4. HeldInv(x)' BY <1>1, <1>3, <1>4, <3>1, <3>2, HeldFrame
      <3>5. WrapInv(x)' BY <1>1, <3>1, <3>2, <3>3, WrapFrame DEF OpInv, SameKey
      <3>6. RestoreInv(x)' BY <1>1, <1>3, <1>5, <3>1, <3>3, RestoreFrame DEF OpInv
      <3>7. FetchInv(x)'
        BY <1>1, <1>3, <1>5, <3>1, <3>3, FetchFrame DEF Inv, OpInv, SameKey
      <3>8. ApplyInv(x)' BY <1>1, <1>3, <1>4, <3>1, <3>3, ApplyFrame DEF OpInv
      <3>9. QED BY <3>4, <3>5, <3>6, <3>7, <3>8 DEF OpInv
    <2>3. QED BY <2>1, <2>2
  <1>7. UserInv' BY DEF Inv, UserInv, SameKey
  <1>8. PasskeyOpens' /\ EverythingOpens'
    BY DEF Inv, PasskeyOpens, EverythingOpens, Opens, Present, SameKey
  <1>9. \A e \in Entries : RowInv(e)' BY DEF Inv, RowInv, SameKey
  <1>10. hist' \in [Entries -> SUBSET Version] BY DEF Inv
  <1>11. QED BY <1>3, <1>6, <1>7, <1>8, <1>9, <1>10 DEF Inv

LEMMA ChangePassphraseInv ==
  ASSUME Inv, NEW d \in Devices, ChangePassphrase(d)
  PROVE  Inv'
  <1> DEFINE s == salts + 1
  <1>1. /\ TypeOK /\ user \in User /\ held \in [Devices -> Held] /\ held[d] \in Held
    BY DEF Inv, TypeOK
  <1>2. salts \in 1..MaxSalt /\ salts < MaxSalt /\ salts' = s BY DEF Inv, TypeOK, ChangePassphrase
  <1>3. s \in 1..MaxSalt /\ s \in 0..MaxSalt /\ s > salts /\ salts \in Nat /\ s # 0
    BY <1>1, <1>2, Numbers
  <1> HIDE DEF s
  <1>4. user' = [user EXCEPT !.wrap = held[d].key, !.salt = s, !.pass = s]
    BY DEF ChangePassphrase, s
  <1>5. /\ user' \in User /\ user'.wrap = held[d].key /\ user'.salt = s /\ user'.pass = s
        /\ SameKey /\ user'.rec = user.rec
    BY <1>1, <1>3, <1>4 DEF User, Held, SameKey
  <1> DEFINE new == [held[d] EXCEPT !.salt = s, !.pass = s]
  <1>6. /\ new \in Held /\ new.key = held[d].key /\ new.keyVersion = held[d].keyVersion
        /\ new.salt = s
    BY <1>1, <1>3 DEF Held
  <1>7. held' = [held EXCEPT ![d] = new]
    BY <1>1 DEF ChangePassphrase, s
  <1> HIDE DEF new
  <1>8. /\ held' \in [Devices -> Held] /\ held'[d] = new
        /\ \A x \in Devices : x # d => held'[x] = held[x]
    BY <1>1, <1>6, <1>7
  <1>9. WrapInv(d) /\ HeldInv(d) /\ op[d].phase = "rewrap" /\ Unlocked(d)
    BY DEF Inv, OpInv, ChangePassphrase, WrapInv
  <1>10. Stored(d) /\ UNCHANGED <<rows, hist, att, prf, keys, strays>> BY DEF ChangePassphrase
  <1>11. HeldInv(d)'
    BY <1>2, <1>3, <1>5, <1>6, <1>8, <1>9, <1>10 DEF HeldInv, SameKey, Unlocked
  <1>12. ~crossed' => ~crossed /\ ~op[d].late BY <1>10 DEF Stored
  <1>13. ~crossed' => user.setup # 0 /\ held[d].key = user.auth BY <1>9, <1>12 DEF WrapInv
  <1>14. LockedOutOnlyByRace' /\ (~crossed' /\ user'.setup = 0 => user'.rec = 0)
    BY <1>5, <1>12, <1>13 DEF Inv, LockedOutOnlyByRace, SameKey
  <1>15. salts' \in 1..MaxSalt /\ salts <= salts' /\ user'.salt <= salts' /\ user'.salt > salts
    BY <1>2, <1>3, <1>5
  <1>16. user'.salt # 0 BY <1>3, <1>5
  <1>17. QED BY <1>5, <1>8, <1>10, <1>11, <1>14, <1>15, <1>16, StoreStep

LEMMA GenerateRecoveryKeyInv ==
  ASSUME Inv, NEW d \in Devices, GenerateRecoveryKey(d)
  PROVE  Inv'
  <1>1. /\ TypeOK /\ user \in User /\ held \in [Devices -> Held] /\ held[d] \in Held
        /\ salts \in 1..MaxSalt
    BY DEF Inv, TypeOK
  <1>2. user' = [user EXCEPT !.rec = held[d].key] BY DEF GenerateRecoveryKey
  <1>3. /\ user' \in User /\ user'.rec = held[d].key /\ user'.salt = user.salt
        /\ user'.pass = user.pass /\ user'.wrap = user.wrap /\ SameKey
    BY <1>1, <1>2 DEF User, Held, SameKey
  <1>4. WrapInv(d) /\ HeldInv(d) /\ op[d].phase = "generate" /\ Unlocked(d)
    BY DEF Inv, OpInv, GenerateRecoveryKey, WrapInv
  <1>5. /\ Stored(d) /\ UNCHANGED <<rows, hist, att, prf, held, keys, salts, strays>>
    BY DEF GenerateRecoveryKey
  <1>6. HeldInv(d)' BY <1>3, <1>4, <1>5 DEF HeldInv, SameKey, Unlocked
  <1>7. ~crossed' => ~crossed /\ ~op[d].late BY <1>5 DEF Stored
  <1>8. ~crossed' => user.setup # 0 /\ held[d].key = user.auth BY <1>4, <1>7 DEF WrapInv
  <1>9. LockedOutOnlyByRace' /\ (~crossed' /\ user'.setup = 0 => user'.rec = 0)
    BY <1>3, <1>7, <1>8 DEF Inv, LockedOutOnlyByRace, SameKey
  <1>10. /\ salts' \in 1..MaxSalt /\ salts <= salts' /\ user'.salt <= salts'
         /\ user'.setup # 0 => user'.salt # 0
    BY <1>1, <1>3, <1>5 DEF Inv, UserInv, SameKey
  <1>11. held' \in [Devices -> Held] /\ \A x \in Devices : held'[x] = held[x] BY <1>1, <1>5
  <1>12. QED BY <1>3, <1>5, <1>6, <1>9, <1>10, <1>11, StoreStep

LEMMA RecoverInv ==
  ASSUME Inv, NEW d \in Devices, Recover(d)
  PROVE  Inv'
  <1> DEFINE s == salts + 1
             key == op[d].seen.rec
  <1>1. /\ TypeOK /\ user \in User /\ held \in [Devices -> Held] /\ key \in 0..MaxKey
    BY DEF Inv, TypeOK, Op, User
  <1>2. salts \in 1..MaxSalt /\ salts < MaxSalt /\ salts' = s BY DEF Inv, TypeOK, Recover
  <1>3. s \in 1..MaxSalt /\ s \in 0..MaxSalt /\ s > salts /\ salts \in Nat /\ s # 0
    BY <1>1, <1>2, Numbers
  <1>4. user' = [user EXCEPT !.wrap = key, !.rec = key, !.salt = s, !.pass = s] BY DEF Recover
  <1>5. WrapInv(d) /\ HeldInv(d) /\ op[d].phase = "recover" BY DEF Inv, OpInv, Recover
  <1>6. ~op[d].late /\ ~crossed => user.setup # 0 /\ key = user.auth BY <1>5 DEF WrapInv
  <1> HIDE DEF s, key
  <1>7. /\ user' \in User /\ user'.wrap = key /\ user'.salt = s /\ user'.pass = s
        /\ SameKey /\ user'.rec = key
    BY <1>1, <1>3, <1>4 DEF User, SameKey
  <1>8. Stored(d) /\ UNCHANGED <<rows, hist, att, prf, held, keys, strays>> BY DEF Recover
  <1>9. salts' \in 1..MaxSalt /\ salts <= salts' /\ user'.salt <= salts' /\ user'.salt > salts
    BY <1>2, <1>3, <1>7
  <1>10. HeldInv(d)' BY <1>2, <1>3, <1>5, <1>7, <1>8, <1>1, Numbers DEF HeldInv, SameKey, Unlocked
  <1>11. ~crossed' => ~crossed /\ ~op[d].late BY <1>8 DEF Stored
  <1>12. LockedOutOnlyByRace' /\ (~crossed' /\ user'.setup = 0 => user'.rec = 0)
    BY <1>6, <1>7, <1>11 DEF LockedOutOnlyByRace, SameKey
  <1>13. held' \in [Devices -> Held] /\ \A x \in Devices : held'[x] = held[x] BY <1>1, <1>8
  <1>14. user'.salt # 0 BY <1>3, <1>7
  <1>15. QED BY <1>7, <1>8, <1>9, <1>10, <1>12, <1>13, <1>14, StoreStep

-----------------------------------------------------------------------------
(* Reset, setup and rotation: the steps after which the vault has another key. *)

\* Requests verified before the step are late, and nothing else about them changes.
LEMMA RekeyedFacts ==
  ASSUME NEW ops \in [Devices -> Op], Rekeyed(ops)
  PROVE  /\ op' \in [Devices -> Op] /\ ~crossed'
         /\ \A x \in Devices :
              /\ op'[x].phase = ops[x].phase /\ op'[x].seen = ops[x].seen
              /\ op'[x].entry = ops[x].entry /\ op'[x].blob = ops[x].blob
              /\ op'[x].ents = ops[x].ents /\ op'[x].hists = ops[x].hists
              /\ op'[x].torn = ops[x].torn
              /\ ops[x].phase \in {"rewrap", "generate", "recover"} => op'[x].late
  <1>1. ASSUME NEW x \in Devices
        PROVE  /\ op'[x] \in Op
               /\ op'[x].phase = ops[x].phase /\ op'[x].seen = ops[x].seen
               /\ op'[x].entry = ops[x].entry /\ op'[x].blob = ops[x].blob
               /\ op'[x].ents = ops[x].ents /\ op'[x].hists = ops[x].hists
               /\ op'[x].torn = ops[x].torn
               /\ ops[x].phase \in {"rewrap", "generate", "recover"} => op'[x].late
    <2> DEFINE new == [ops[x] EXCEPT !.late = TRUE]
    <2>1. ops[x] \in Op OBVIOUS
    <2>2. /\ new \in Op /\ new.phase = ops[x].phase /\ new.seen = ops[x].seen
          /\ new.entry = ops[x].entry /\ new.blob = ops[x].blob /\ new.ents = ops[x].ents
          /\ new.hists = ops[x].hists /\ new.torn = ops[x].torn /\ new.late
      BY <2>1 DEF Op
    <2>3. op'[x] = IF ops[x].phase \in {"rewrap", "generate", "recover"} THEN new ELSE ops[x]
      BY DEF Rekeyed
    <2> HIDE DEF new
    <2>4. QED BY <2>1, <2>2, <2>3
  <1>2. op' = [x \in Devices |-> op'[x]] BY DEF Rekeyed
  <1>3. QED BY <1>1, <1>2 DEF Rekeyed

LEMMA ResetVaultInv ==
  ASSUME Inv, ResetVault
  PROVE  Inv' /\ \A d \in Devices : op'[d].phase = op[d].phase
  <1>1. /\ TypeOK /\ rows \in [Entries -> Row] /\ att \in [Entries -> Attachment]
        /\ op \in [Devices -> Op] /\ held \in [Devices -> Held]
    BY DEF Inv, TypeOK
  <1>2. /\ user' = NoVault /\ UNCHANGED <<prf, held, keys, salts, strays>> /\ Rekeyed(op)
        /\ rows' = [e \in Entries |-> IF e \in Present THEN NoRow("deleted") ELSE rows[e]]
        /\ hist' = [e \in Entries |-> {}] /\ att' = [e \in Entries |-> NoAttachment]
    BY DEF ResetVault
  <1>3. /\ NoVault \in User /\ NoRow("deleted") \in Row /\ NoAttachment \in Attachment
    BY VaultAssumption DEF NoVault, User, NoRow, Row, NoBlob, Blob, NoAttachment, Attachment
  <1>4. /\ user'.setup = 0 /\ user'.keyVersion = 0 /\ user'.auth = 0 /\ user'.salt = 0
        /\ user'.rec = 0
    BY <1>2 DEF NoVault
  <1>5. \A e \in Entries :
          /\ rows'[e] = IF rows[e].state = "present" THEN NoRow("deleted") ELSE rows[e]
          /\ hist'[e] = {} /\ att'[e].mode = "none"
    BY <1>2 DEF Present, NoAttachment
  <1>6. \A e \in Entries : rows'[e].state # "present" BY <1>5 DEF NoRow
  <1>7. /\ rows' \in [Entries -> Row] /\ hist' \in [Entries -> SUBSET Version]
        /\ att' \in [Entries -> Attachment]
    BY <1>1, <1>2, <1>3
  <1>8. TypeOK' BY <1>1, <1>2, <1>3, <1>4, <1>7, RekeyedFacts DEF TypeOK
  <1>9. Present' = {} BY <1>6 DEF Present
  <1>10. UserInv' /\ PasskeyOpens' /\ LockedOutOnlyByRace'
    BY <1>1, <1>2, <1>4, Numbers DEF Inv, UserInv, PasskeyOpens, LockedOutOnlyByRace
  <1>11. EverythingOpens' BY <1>9 DEF EverythingOpens
  <1>12. \A e \in Entries : RowInv(e)'
    BY <1>1, <1>5, <1>6, Numbers DEF Inv, RowInv, NoRow, NoBlob
  <1>13. CountersGrow /\ KeyStep BY <1>1, <1>2, <1>4, Numbers DEF CountersGrow, KeyStep
  <1>14. RowsGrow BY <1>2, <1>5, <1>6 DEF RowsGrow, NoRow
  <1>15. ASSUME NEW x \in Devices PROVE HeldInv(x)' /\ OpInv(x)'
    <2>1. HeldInv(x) /\ OpInv(x) BY DEF Inv
    <2>2. Kept(x) /\ (op[x].phase \in {"rewrap", "generate", "recover"} => op'[x].late)
      BY <1>1, <1>2, RekeyedFacts DEF Kept
    <2>3. HeldInv(x)' BY <1>1, <1>2, <1>4, <1>8, <1>13, <2>1, HeldFrame
    <2>4. WrapInv(x)' BY <2>1, <2>2, WrapFrame DEF OpInv
    <2>5. RestoreInv(x)' BY <1>1, <1>8, <1>9, <1>14, <2>1, <2>2, RestoreFrame DEF OpInv
    <2>6. FetchInv(x)'
      <3>1. CASE user'.auth # held[x].key
        BY <1>1, <1>7, <1>8, <1>14, <2>1, <2>2, <3>1, FetchFrame DEF Inv, OpInv
      <3>2. CASE user'.auth = held[x].key
        BY <1>4, <2>1, <2>2, <3>2 DEF OpInv, FetchInv, Unlocked, Kept
      <3>3. QED BY <3>1, <3>2
    <2>7. ApplyInv(x)' BY <1>1, <1>4, <1>8, <1>13, <2>1, <2>2, ApplyFrame DEF OpInv
    <2>8. QED BY <2>3, <2>4, <2>5, <2>6, <2>7 DEF OpInv
  <1>16. \A d \in Devices : op'[d].phase = op[d].phase BY <1>1, <1>2, RekeyedFacts
  <1>17. QED BY <1>7, <1>8, <1>10, <1>11, <1>12, <1>15, <1>16 DEF Inv

LEMMA SetupVaultInv ==
  ASSUME Inv, NEW d \in Devices, SetupVault(d)
  PROVE  Inv'
  <1> DEFINE k == keys + 1
             s == salts + 1
             new == [key |-> k, keyVersion |-> 1, salt |-> s, pass |-> s]
  <1>1. /\ TypeOK /\ user \in User /\ op \in [Devices -> Op] /\ held \in [Devices -> Held]
        /\ hist \in [Entries -> SUBSET Version]
    BY DEF Inv, TypeOK
  <1>2. user.setup = 0 /\ user.keyVersion = 0 BY <1>1 DEF SetupVault, TypeOK
  <1>3. keys' = k /\ salts' = s /\ keys < MaxKey /\ salts < MaxSalt BY DEF SetupVault
  <1>4. k \in 1..MaxKey /\ k > keys /\ k # 0 /\ s \in 1..MaxSalt /\ s > salts /\ s # 0
    BY <1>1, <1>3, Numbers DEF TypeOK
  <1>5. k \in Nat /\ s \in Nat /\ k \in 0..MaxKey /\ s \in 0..MaxSalt BY <1>4
  <1>6. /\ user' = [user EXCEPT !.setup = k, !.keyVersion = 1, !.auth = k,
                                !.wrap = k, !.salt = s, !.pass = s]
        /\ held' = [held EXCEPT ![d] = new] /\ op' = [op EXCEPT ![d] = Idle]
        /\ UNCHANGED <<rows, hist, att, prf, strays, crossed>>
    BY DEF SetupVault, Done
  <1> HIDE DEF k, s
  <1>7. new \in Held BY <1>5 DEF Held
  <1>8. /\ user' \in User /\ user'.setup = k /\ user'.keyVersion = 1 /\ user'.auth = k
        /\ user'.wrap = k /\ user'.salt = s /\ user'.rec = user.rec
    BY <1>1, <1>5, <1>6 DEF User
  <1>9. /\ held' \in [Devices -> Held] /\ held'[d] = new
        /\ op' \in [Devices -> Op] /\ op'[d].phase = "idle"
        /\ \A x \in Devices : x # d => held'[x] = held[x] /\ op'[x] = op[x]
    BY <1>1, <1>6, <1>7, IdleType DEF Idle
  <1>10. TypeOK' BY <1>1, <1>3, <1>4, <1>6, <1>8, <1>9 DEF TypeOK
  <1>11. Present = {} /\ Present' = {} BY <1>2, <1>6 DEF Inv, RowInv, Present
  <1>12. UserInv'
    BY <1>1, <1>2, <1>3, <1>4, <1>5, <1>6, <1>8, Numbers DEF Inv, UserInv
  <1>13. PasskeyOpens'
    BY <1>1, <1>4, <1>5, <1>6, <1>8, Numbers DEF Inv, UserInv, PasskeyOpens
  <1>14. LockedOutOnlyByRace' BY <1>2, <1>6, <1>8 DEF Inv, UserInv, LockedOutOnlyByRace
  <1>15. EverythingOpens' BY <1>11 DEF EverythingOpens
  <1>16. \A e \in Entries : RowInv(e)' BY <1>6, <1>8, <1>4 DEF Inv, RowInv
  <1>17. CountersGrow /\ KeyStep
    BY <1>1, <1>3, <1>4, <1>5, <1>8, Numbers DEF CountersGrow, KeyStep
  <1>18. RowsGrow BY <1>1, <1>6, Numbers DEF RowsGrow
  <1>19. ASSUME NEW x \in Devices PROVE HeldInv(x)' /\ OpInv(x)'
    <2>1. CASE x = d
      <3>1. HeldInv(d)'
        BY <1>3, <1>4, <1>5, <1>8, <1>9 DEF HeldInv, Unlocked
      <3>2. QED BY <1>9, <2>1, <3>1, IdleOp
    <2>2. CASE x # d
      <3>1. HeldInv(x) /\ OpInv(x) BY DEF Inv
      <3>2. held'[x] = held[x] /\ op'[x] = op[x] BY <1>9, <2>2
      <3>3. Kept(x) BY <3>2 DEF Kept
      <3>4. HeldInv(x)' BY <1>1, <1>4, <1>8, <1>10, <1>17, <3>1, <3>2, HeldFrame
      <3>5. WrapInv(x)' BY <1>2, <1>6, <3>1, <3>2, <3>3, WrapFrame DEF OpInv
      <3>6. RestoreInv(x)' BY <1>1, <1>10, <1>11, <1>18, <3>1, <3>3, RestoreFrame DEF OpInv
      <3>7. FetchInv(x)'
        <4>1. CASE op[x].phase \in Fetching
          <5>1. held[x].key <= keys BY <3>1, <4>1 DEF OpInv, FetchInv, HeldInv
          <5>2. user'.auth # held[x].key BY <1>1, <1>4, <1>5, <1>8, <5>1, Numbers
          <5>3. QED BY <1>1, <1>6, <1>10, <1>18, <3>1, <3>3, <5>2, FetchFrame DEF OpInv
        <4>2. CASE op[x].phase \notin Fetching BY <3>2, <4>2 DEF FetchInv
        <4>3. QED BY <4>1, <4>2
      <3>8. ApplyInv(x)' BY <1>1, <1>4, <1>8, <1>10, <1>17, <3>1, <3>3, ApplyFrame DEF OpInv
      <3>9. QED BY <3>4, <3>5, <3>6, <3>7, <3>8 DEF OpInv
    <2>3. QED BY <2>1, <2>2
  <1>20. hist' \in [Entries -> SUBSET Version] BY <1>1, <1>6
  <1>21. QED BY <1>10, <1>12, <1>13, <1>14, <1>15, <1>16, <1>19, <1>20 DEF Inv

\* The blob a rotation puts in the place of an entry's is the one it fetched, and
\* unless its fetch was torn that is the entry's blob still.
LEMMA FetchedBlob ==
  ASSUME Inv, NEW d \in Devices, op[d].phase = "apply", SameUser(op[d].seen), SameRows(d),
         NEW e \in Present
  PROVE  LET v == CHOOSE v \in 0..MaxVer : <<e, v>> \in op[d].ents
         IN  v \in 0..MaxVer /\ (e \notin op[d].torn => v = rows[e].blob.ver)
  <1> DEFINE v == CHOOSE v \in 0..MaxVer : <<e, v>> \in op[d].ents
  <1>1. op[d].ents \subseteq Entries \X Nat /\ FetchInv(d) /\ ApplyInv(d) /\ e \in Entries
    BY DEF Inv, TypeOK, Op, OpInv, Present
  <1>2. op[d].phase \in Fetching BY DEF Fetching
  <1>3. PICK x \in op[d].ents : x[1] = e BY DEF SameRows
  <1>4. x = <<e, x[2]>> /\ x[2] \in Nat BY <1>1, <1>3
  <1>5. x[2] \in 0..MaxVer
    BY <1>1, <1>2, <1>4, VaultAssumption DEF FetchInv
  <1>6. \E w \in 0..MaxVer : <<e, w>> \in op[d].ents BY <1>4, <1>5
  <1>7. v \in 0..MaxVer /\ <<e, v>> \in op[d].ents BY <1>6
  <1> HIDE DEF v
  <1>8. <<e, v>>[1] = x[1] BY <1>3
  <1>9. <<e, v>> = x BY <1>1, <1>2, <1>7, <1>8 DEF FetchInv
  <1>10. v = x[2] BY <1>4, <1>9
  <1>11. held[d].key = user.auth BY <1>1 DEF ApplyInv, SameUser
  <1>12. ASSUME e \notin op[d].torn PROVE rows[e].blob.ver = x[2]
    <2>1. x[1] \in Present \ op[d].torn BY <1>3, <1>12
    <2>2. \/ rows[e].blob.ver = x[2]
          \/ \E h \in hist[e] : <<e, h.id>> \notin op[d].hists
      BY <1>1, <1>2, <1>3, <1>11, <2>1 DEF FetchInv
    <2>3. \A h \in hist[e] : <<e, h.id>> \in HistoryIds BY <1>1 DEF HistoryIds
    <2>4. QED BY <2>2, <2>3 DEF SameRows
  <1>13. QED BY <1>7, <1>10, <1>12 DEF v

\* applyVaultRotation preserves the invariant.
LEMMA ApplyRotationInv ==
  ASSUME Inv, NEW d \in Devices, NEW answered \in BOOLEAN, ApplyRotation(d, answered)
  PROVE  Inv' /\ \A x \in Devices : x # d => op'[x].phase = op[x].phase
  <1> DEFINE k == keys + 1
             s == salts + 1
             n == op[d].seen.keyVersion + 1
             b(e) == [ver |-> CHOOSE v \in 0..MaxVer : <<e, v>> \in op[d].ents,
                      key |-> k, keyVersion |-> n]
             new == [key |-> k, keyVersion |-> n, salt |-> s, pass |-> held[d].pass]
             ops == [op EXCEPT ![d] = Idle]
  <1>1. /\ TypeOK /\ user \in User /\ op \in [Devices -> Op] /\ held \in [Devices -> Held]
        /\ hist \in [Entries -> SUBSET Version] /\ rows \in [Entries -> Row]
        /\ att \in [Entries -> Attachment]
    BY DEF Inv, TypeOK
  <1>2. /\ op[d].phase = "apply" /\ keys < MaxKey /\ salts < MaxSalt
        /\ SameUser(op[d].seen) /\ SameRows(d) /\ SameAttachments(d)
    BY DEF ApplyRotation
  <1>3. /\ keys' = k /\ salts' = s /\ strays' = strays /\ prf' = [p \in Passkeys |-> NoWrap]
        /\ user' = RotatedUser(d, k, n, s)
        /\ held' = IF answered THEN [held EXCEPT ![d] = new] ELSE held
        /\ Rekeyed(ops)
    BY <1>1 DEF ApplyRotation
  <1>r. /\ rows' = [e \in Entries |-> IF e \in Present THEN [rows[e] EXCEPT !.blob = b(e)]
                                                       ELSE rows[e]]
        /\ hist' = [e \in Entries |->
             {[h EXCEPT !.blob.key = k, !.blob.keyVersion = n] : h \in hist[e]}]
        /\ att' = [e \in Entries |->
             IF e \in op[d].ceks THEN [att[e] EXCEPT !.key = k, !.keyVersion = n] ELSE att[e]]
    BY DEF ApplyRotation
  <1>4. k \in 1..MaxKey /\ k > keys /\ k # 0 /\ s \in 1..MaxSalt /\ s > salts /\ s # 0
    BY <1>1, <1>2, Numbers DEF TypeOK
  <1>5. k \in Nat /\ s \in Nat /\ k \in 0..MaxKey /\ s \in 0..MaxSalt BY <1>4
  <1>6. /\ user.setup # 0 /\ op[d].seen.keyVersion = user.keyVersion
        /\ n \in Nat /\ n > user.keyVersion /\ n # 0
    BY <1>1, <1>2, Numbers DEF SameUser
  <1>7. \A e \in Present : b(e) \in Blob /\ b(e).ver \in 0..MaxVer
                           /\ b(e).key = k /\ b(e).keyVersion = n
    <2>1. SUFFICES ASSUME NEW e \in Present
                   PROVE  b(e) \in Blob /\ b(e).ver \in 0..MaxVer
                          /\ b(e).key = k /\ b(e).keyVersion = n
      OBVIOUS
    <2> DEFINE v == CHOOSE v \in 0..MaxVer : <<e, v>> \in op[d].ents
    <2>2. v \in 0..MaxVer BY <1>2, FetchedBlob
    <2> HIDE DEF v
    <2>3. [ver |-> v, key |-> k, keyVersion |-> n] \in Blob BY <1>5, <1>6, <2>2 DEF Blob
    <2>4. b(e) = [ver |-> v, key |-> k, keyVersion |-> n] BY DEF v
    <2> HIDE DEF b
    <2>5. QED BY <2>2, <2>3, <2>4
  <1> HIDE DEF k, s, n, b
  <1>8. /\ user' \in User /\ user'.setup = user.setup /\ user'.keyVersion = n /\ user'.auth = k
        /\ user'.wrap = k /\ user'.rec = 0 /\ user'.salt = s
    <2>1. held[d].pass \in 0..MaxSalt BY <1>1 DEF Held
    <2>2. 0 \in 0..MaxKey BY VaultAssumption
    <2>3. QED BY <1>1, <1>3, <1>5, <1>6, <2>1, <2>2 DEF RotatedUser, User
  <1>9. new \in Held BY <1>1, <1>5, <1>6 DEF Held
  <1>10. held' \in [Devices -> Held] /\ \A x \in Devices : x # d => held'[x] = held[x]
    BY <1>1, <1>3, <1>9
  <1>11. ops \in [Devices -> Op] /\ ops[d] = Idle
         /\ \A x \in Devices : x # d => ops[x] = op[x]
    BY <1>1, IdleType
  <1> HIDE DEF ops
  <1>12. ASSUME NEW e \in Entries
         PROVE  /\ rows'[e] \in Row /\ rows'[e].state = rows[e].state
                /\ rows'[e].writes = rows[e].writes /\ rows'[e].blob.ver <= MaxVer
                /\ e \in Present => rows'[e].blob.key = k /\ rows'[e].blob.keyVersion = n
    <2>1. CASE e \in Present
      <3>1. rows'[e] = [rows[e] EXCEPT !.blob = b(e)] BY <1>r, <2>1
      <3>2. b(e) \in Blob /\ b(e).ver \in 0..MaxVer /\ b(e).key = k /\ b(e).keyVersion = n
        BY <1>7, <2>1
      <3>3. rows[e] \in Row BY <1>1
      <3>4. /\ rows'[e] \in Row /\ rows'[e].blob = b(e) /\ rows'[e].state = rows[e].state
            /\ rows'[e].writes = rows[e].writes
        BY <3>1, <3>2, <3>3 DEF Row
      <3>5. QED BY <3>2, <3>4, VaultAssumption
    <2>2. CASE e \notin Present
      BY <1>1, <1>r, <2>2 DEF Inv, RowInv
    <2>3. QED BY <2>1, <2>2
  <1>13. ASSUME NEW e \in Entries
         PROVE  /\ hist'[e] \in SUBSET Version
                /\ \A g \in hist'[e] : /\ g.blob.key = k /\ g.blob.keyVersion = n
                                       /\ \E h \in hist[e] : g.id = h.id
                /\ hist[e] = {} => hist'[e] = {}
    <2>1. hist'[e] = {[h EXCEPT !.blob.key = k, !.blob.keyVersion = n] : h \in hist[e]}
      BY <1>r
    <2>2. ASSUME NEW g \in hist'[e]
          PROVE  /\ g \in Version /\ g.blob.key = k /\ g.blob.keyVersion = n
                 /\ \E h \in hist[e] : g.id = h.id
      <3>1. PICK h \in hist[e] : g = [h EXCEPT !.blob.key = k, !.blob.keyVersion = n] BY <2>1
      <3>2. h \in Version BY <1>1
      <3>3. g.id = h.id /\ g.blob = [h.blob EXCEPT !.key = k, !.keyVersion = n]
        BY <3>1, <3>2 DEF Version
      <3>4. h.blob \in Blob /\ h.id \in Nat BY <3>2 DEF Version
      <3>5. g.blob \in Blob /\ g.blob.key = k /\ g.blob.keyVersion = n
        BY <1>5, <1>6, <3>3, <3>4 DEF Blob
      <3>6. g \in Version BY <3>1, <3>2, <3>3, <3>4, <3>5 DEF Version
      <3>7. QED BY <3>3, <3>5, <3>6
    <2>3. QED BY <2>1, <2>2
  <1>14. ASSUME NEW e \in Entries
         PROVE  /\ att'[e] \in Attachment /\ att'[e].mode = att[e].mode
                /\ att[e].mode # "none" => att'[e].key = k /\ att'[e].keyVersion = n
    <2>1. CASE e \in op[d].ceks
      <3>1. att'[e] = [att[e] EXCEPT !.key = k, !.keyVersion = n] BY <1>r, <2>1
      <3>2. att[e] \in Attachment BY <1>1
      <3>3. QED BY <1>5, <1>6, <3>1, <3>2 DEF Attachment
    <2>2. CASE e \notin op[d].ceks
      <3>1. att'[e] = att[e] /\ att[e] \in Attachment BY <1>1, <1>r, <2>2
      <3>2. att[e].mode = "none" BY <1>2, <2>2, <3>1 DEF SameAttachments, Attachment
      <3>3. QED BY <3>1, <3>2
    <2>3. QED BY <2>1, <2>2
  <1>15. /\ rows' \in [Entries -> Row] /\ hist' \in [Entries -> SUBSET Version]
         /\ att' \in [Entries -> Attachment]
    <2>1. /\ rows' = [e \in Entries |-> rows'[e]] /\ hist' = [e \in Entries |-> hist'[e]]
          /\ att' = [e \in Entries |-> att'[e]]
      BY <1>r
    <2>2. QED BY <1>12, <1>13, <1>14, <2>1
  <1>16. TypeOK'
    <2>1. op' \in [Devices -> Op] BY <1>3, <1>11, RekeyedFacts
    <2>2. prf' \in [Passkeys -> Wrap] BY <1>3, VaultAssumption DEF Wrap, NoWrap
    <2>3. user'.setup = 0 <=> user'.keyVersion = 0 BY <1>6, <1>8
    <2>4. QED BY <1>1, <1>3, <1>4, <1>8, <1>10, <1>15, <2>1, <2>2, <2>3 DEF TypeOK
  <1>17. Present' = Present BY <1>12 DEF Present
  <1>18. EverythingOpens'
    BY <1>8, <1>12, <1>13, <1>14, <1>17 DEF EverythingOpens, Opens, Present
  <1>19. UserInv' /\ PasskeyOpens' /\ LockedOutOnlyByRace'
    <2>1. user.setup <= k BY <1>1, <1>4, <1>5, Numbers DEF Inv, UserInv
    <2>2. \A p \in Passkeys : prf'[p].key = 0 BY <1>3 DEF NoWrap
    <2>3. QED BY <1>1, <1>3, <1>4, <1>5, <1>6, <1>8, <2>1, <2>2, Numbers
             DEF UserInv, PasskeyOpens, LockedOutOnlyByRace
  <1>20. ASSUME NEW e \in Entries PROVE RowInv(e)'
    <2>1. RowInv(e) BY DEF Inv
    <2>2. \A g \in hist'[e] : g.id <= rows'[e].writes BY <1>12, <1>13, <2>1 DEF RowInv
    <2>3. QED BY <1>8, <1>12, <1>13, <1>14, <2>1, <2>2 DEF RowInv
  <1>21. CountersGrow /\ KeyStep
    BY <1>1, <1>3, <1>4, <1>5, <1>6, <1>8, Numbers DEF CountersGrow, KeyStep
  <1>22. RowsGrow
    <2>1. \A e \in Entries : rows[e].writes \in Nat BY <1>1, Numbers
    <2>2. QED BY <1>3, <1>12, <2>1 DEF RowsGrow
  <1>23. ASSUME NEW x \in Devices
         PROVE  HeldInv(x)' /\ OpInv(x)' /\ (x # d => op'[x].phase = op[x].phase)
    <2>1. HeldInv(x) /\ OpInv(x) BY DEF Inv
    <2>2. CASE x # d
      <3>1. Kept(x) /\ (op[x].phase \in {"rewrap", "generate", "recover"} => op'[x].late)
        BY <1>3, <1>10, <1>11, <2>2, RekeyedFacts DEF Kept
      <3>2. held'[x] = held[x] BY <1>10, <2>2
      <3>3. HeldInv(x)' BY <1>1, <1>4, <1>8, <1>16, <1>21, <2>1, <3>2, HeldFrame
      <3>4. WrapInv(x)' BY <2>1, <3>1, WrapFrame DEF OpInv
      <3>5. RestoreInv(x)'
        BY <1>1, <1>6, <1>8, <1>16, <1>22, <2>1, <3>1, RestoreFrame DEF OpInv
      <3>6. FetchInv(x)'
        <4>1. CASE op[x].phase \in Fetching
          <5>1. held[x].key <= keys BY <2>1, <4>1 DEF OpInv, FetchInv, HeldInv
          <5>2. user'.auth # held[x].key BY <1>1, <1>4, <1>5, <1>8, <5>1, Numbers
          <5>3. QED BY <1>1, <1>15, <1>16, <1>22, <2>1, <3>1, <5>2, FetchFrame DEF OpInv
        <4>2. CASE op[x].phase \notin Fetching BY <3>1, <4>2 DEF FetchInv, Kept
        <4>3. QED BY <4>1, <4>2
      <3>7. ApplyInv(x)' BY <1>1, <1>4, <1>8, <1>16, <1>21, <2>1, <3>1, ApplyFrame DEF OpInv
      <3>8. QED BY <3>1, <3>3, <3>4, <3>5, <3>6, <3>7 DEF OpInv, Kept
    <2>3. CASE x = d
      <3>1. op'[d].phase = "idle" BY <1>3, <1>11, RekeyedFacts DEF Idle
      <3>2. CASE answered
        <4>1. held'[d] = new BY <1>1, <1>3, <3>2
        <4>2. HeldInv(d)'
          BY <1>3, <1>4, <1>5, <1>6, <1>8, <4>1 DEF HeldInv, Unlocked
        <4>3. QED BY <2>3, <3>1, <4>2, IdleOp
      <3>3. CASE ~answered
        <4>1. held'[d] = held[d] BY <1>3, <3>3
        <4>2. HeldInv(d)' BY <1>1, <1>4, <1>8, <1>16, <1>21, <2>1, <2>3, <4>1, HeldFrame
        <4>3. QED BY <2>3, <3>1, <4>2, IdleOp
      <3>4. QED BY <3>2, <3>3
    <2>4. QED BY <2>2, <2>3
  <1>24. QED BY <1>15, <1>16, <1>18, <1>19, <1>20, <1>23 DEF Inv

-----------------------------------------------------------------------------
\* The steps that write the users row.
UserStep(d) ==
  \/ ChangePassphrase(d) \/ GenerateRecoveryKey(d) \/ Recover(d) \/ SetupVault(d)

LEMMA UserStepInv ==
  ASSUME Inv, NEW d \in Devices, UserStep(d)
  PROVE  Inv' /\ \A x \in Devices : op[x].phase = "apply" => op'[x] = op[x]
  <1>1. Inv' BY ChangePassphraseInv, GenerateRecoveryKeyInv, RecoverInv, SetupVaultInv DEF UserStep
  <1>2. op' = [op EXCEPT ![d] = Idle] /\ op[d].phase # "apply"
    BY DEF UserStep, ChangePassphrase, GenerateRecoveryKey, Recover, SetupVault, Stored, Done
  <1>3. op \in [Devices -> Op] BY DEF Inv, TypeOK
  <1>4. QED BY <1>1, <1>2, <1>3

\* Every step is of one of these kinds.
LEMMA Steps ==
  ASSUME Next
  PROVE  \/ \E d \in Devices : ReadStep(d) \/ WriterStep(d) \/ UserStep(d)
         \/ \E d \in Devices : \E answered \in BOOLEAN : ApplyRotation(d, answered)
         \/ ResetVault
  BY DEF Next, ReadStep, WriterStep, UserStep

\* The inductive step.
LEMMA NextInv == Inv /\ [Next]_vars => Inv'
  <1> SUFFICES ASSUME Inv, [Next]_vars PROVE Inv' OBVIOUS
  <1>1. CASE Next
    BY <1>1, Steps, ReadInv, WriterInv, UserStepInv, ApplyRotationInv, ResetVaultInv
  <1>2. CASE UNCHANGED vars
    <2> USE <1>2 DEF vars
    <2>1. TypeOK' BY DEF Inv, TypeOK
    <2>2. UserInv' /\ PasskeyOpens' /\ LockedOutOnlyByRace'
      BY DEF Inv, UserInv, PasskeyOpens, LockedOutOnlyByRace
    <2>3. EverythingOpens' BY DEF Inv, EverythingOpens, Opens, Present
    <2>4. \A d \in Devices : HeldInv(d)' BY DEF Inv, HeldInv, Unlocked
    <2>5. \A d \in Devices : WrapInv(d)' /\ RestoreInv(d)' /\ ApplyInv(d)'
      BY DEF Inv, OpInv, WrapInv, RestoreInv, ApplyInv, Unlocked, Present
    <2>6. \A d \in Devices : FetchInv(d)' BY DEF Inv, OpInv, FetchInv, Unlocked, Present
    <2>7. \A e \in Entries : RowInv(e)' BY DEF Inv, RowInv
    <2>8. hist' \in [Entries -> SUBSET Version] BY DEF Inv
    <2>9. QED BY <2>1, <2>2, <2>3, <2>4, <2>5, <2>6, <2>7, <2>8 DEF Inv, OpInv
  <1>3. QED BY <1>1, <1>2

LEMMA Invariance == Spec => []Inv
  BY InitInv, NextInv, PTL DEF Spec

\* A posted rotation that ends with another users row was applied: no other step
\* takes it off and changes the row at once.
LEMMA RotatedIsApply ==
  ASSUME Inv, Next, NEW d \in Devices, Rotated(d)
  PROVE  \E answered \in BOOLEAN : ApplyRotation(d, answered)
  <1>1. op[d].phase = "apply" /\ op'[d].phase = "idle" /\ user' # user BY DEF Rotated
  <1>2. ~ResetVault BY <1>1, ResetVaultInv
  <1>3. ~ \E x \in Devices : ReadStep(x) \/ WriterStep(x) BY <1>1, ReadInv, WriterInv
  <1>4. ~ \E x \in Devices : UserStep(x)
    <2>1. SUFFICES ASSUME NEW x \in Devices, UserStep(x) PROVE FALSE OBVIOUS
    <2>2. op'[d] = op[d] BY <1>1, <2>1, UserStepInv
    <2>3. QED BY <1>1, <2>2
  <1>5. PICK x \in Devices : \E answered \in BOOLEAN : ApplyRotation(x, answered)
    BY <1>2, <1>3, <1>4, Steps
  <1>6. x = d
    <2>1. SUFFICES ASSUME x # d PROVE FALSE OBVIOUS
    <2>2. op'[d].phase = op[d].phase BY <1>5, <2>1, ApplyRotationInv
    <2>3. QED BY <1>1, <2>2
  <1>7. QED BY <1>5, <1>6

\* The columns keep their types and the vault is set up exactly when it has a key
\* version, whatever writers, rotations, resets and setups interleave.
THEOREM TypeSafety == Spec => []TypeOK
  <1>1. Inv => TypeOK BY DEF Inv
  <1>2. QED BY Invariance, <1>1, PTL

\* No interleaving of the guarded writers, the rotation and the reset leaves a
\* ciphertext behind that the vault's key does not open.
THEOREM CiphertextsOpen == Spec => []EverythingOpens
  <1>1. Inv => EverythingOpens BY DEF Inv
  <1>2. QED BY Invariance, <1>1, PTL

\* A passkey wrap of the vault's own time is of the vault's key: a rotation clears
\* the wraps of the key it replaces and the guarded route stores no older one; only a
\* registration, which compares nothing, can.
THEOREM PasskeySound == Spec => []PasskeyOpens
  <1>1. Inv => PasskeyOpens BY DEF Inv
  <1>2. QED BY Invariance, <1>1, PTL

\* The passphrase and the recovery key open the vault unless a wrap verified
\* before a rotation or reset was stored after it: that race is the only way out.
THEOREM LockoutNeedsRace == Spec => []LockedOutOnlyByRace
  <1>1. Inv => LockedOutOnlyByRace BY DEF Inv
  <1>2. QED BY Invariance, <1>1, PTL

\* applyVaultRotation overwrites no answered edit but one that came between the
\* statements that fetched the entries and their history.
THEOREM EditsSurvive == Spec => NoEditLost
  <1> DEFINE Kept1 == \A d \in Devices : Rotated(d) =>
               \A e \in Present \ op[d].torn : rows'[e].blob.ver = rows[e].blob.ver
  <1>1. ASSUME Inv, Next PROVE Kept1
    <2>1. SUFFICES ASSUME NEW d \in Devices, Rotated(d), NEW e \in Present, e \notin op[d].torn
                   PROVE  rows'[e].blob.ver = rows[e].blob.ver
      OBVIOUS
    <2>2. PICK answered \in BOOLEAN : ApplyRotation(d, answered) BY <1>1, <2>1, RotatedIsApply
    <2> DEFINE v == CHOOSE v \in 0..MaxVer : <<e, v>> \in op[d].ents
               b == [ver |-> v, key |-> keys + 1, keyVersion |-> op[d].seen.keyVersion + 1]
    <2>3. op[d].phase = "apply" /\ SameUser(op[d].seen) /\ SameRows(d) BY <2>2 DEF ApplyRotation
    <2>4. v = rows[e].blob.ver BY <1>1, <2>1, <2>3, FetchedBlob
    <2>5. e \in Entries /\ rows[e] \in Row BY <1>1 DEF Present, Inv, TypeOK
    <2>6. rows'[e] = [rows[e] EXCEPT !.blob = b] BY <2>2, <2>5 DEF ApplyRotation
    <2> HIDE DEF v
    <2>7. rows'[e].blob.ver = v BY <2>5, <2>6 DEF Row
    <2>8. QED BY <2>4, <2>7
  <1>2. Inv /\ [Next]_vars => [Kept1]_vars BY <1>1
  <1>3. QED BY Invariance, <1>2, PTL DEF Spec, NoEditLost

\* A rotation posted with the passphrase in use leaves a later passphrase change
\* in force: the salt it was posted against tells the two apart.
THEOREM PassphraseSurvives == Spec => PassphraseSticks
  <1> DEFINE Sticks == \A d \in Devices :
               Rotated(d) /\ held[d].pass = op[d].seen.pass => user'.pass = user.pass
  <1>1. ASSUME Inv, Next PROVE Sticks
    <2>1. SUFFICES ASSUME NEW d \in Devices, Rotated(d), held[d].pass = op[d].seen.pass
                   PROVE  user'.pass = user.pass
      OBVIOUS
    <2>2. PICK answered \in BOOLEAN : ApplyRotation(d, answered) BY <1>1, <2>1, RotatedIsApply
    <2>3. op[d].phase = "apply" /\ user.salt = op[d].seen.salt
      BY <2>2 DEF ApplyRotation, SameUser
    <2>4. ApplyInv(d) /\ user \in User BY <1>1 DEF Inv, OpInv, TypeOK
    <2>5. user.pass = op[d].seen.pass BY <2>3, <2>4 DEF ApplyInv
    <2>6. user' = RotatedUser(d, keys + 1, op[d].seen.keyVersion + 1, salts + 1)
      BY <2>2 DEF ApplyRotation
    <2>7. user'.pass = held[d].pass BY <2>4, <2>6 DEF RotatedUser, User
    <2>8. QED BY <2>1, <2>5, <2>7
  <1>2. Inv /\ [Next]_vars => [Sticks]_vars BY <1>1
  <1>3. QED BY Invariance, <1>2, PTL DEF Spec, PassphraseSticks

=============================================================================
