------------------------------ MODULE VaultKeys ------------------------------
(* The personal vault and the rotation of its secret key:                      *)
(* src/src/lib/vault/rotate-key-server.ts with its routes and its client       *)
(* (vault-context.tsx), the writers that store ciphertext under the secret key *)
(* (entries, history, attachments, passkey and recovery wraps), the passphrase *)
(* change, the recovery, the reset and the setup.                              *)
(*                                                                             *)
(* The server never sees a key.  What it can compare is the key version, the   *)
(* account salt and hashes derived from key or passphrase; the model knows     *)
(* which key a ciphertext needs.  A transaction that locks the users row       *)
(* (FOR SHARE in the guarded writers, FOR UPDATE in rotation and reset) or the *)
(* user's advisory lock is one step; a check made before the transaction that  *)
(* writes is a step of its own.                                                *)
(*                                                                             *)
(* Devices are the owner's own clients.  Nothing here relies on a session      *)
(* being invalidated: the rotation ignores a failure to do so, and a request   *)
(* that was let in before is served.                                           *)
EXTENDS Integers

CONSTANTS
  Devices, \* unlocked clients of one owner
  Entries, \* ids of password entries
  Passkeys, \* the owner's passkeys
  MaxKey,  \* bound: secret keys generated
  MaxSalt, \* bound: account salts generated
  MaxVer   \* bound: writes of one entry's blob

ASSUME VaultAssumption ==
  /\ MaxKey \in Nat \ {0} /\ MaxSalt \in Nat \ {0} /\ MaxVer \in Nat \ {0}

VARIABLES
  user,   \* the users row
  rows,   \* password_entries: the current blob of each entry
  hist,   \* password_entry_histories: earlier blobs of each entry
  att,    \* attachments: at most one per entry
  prf,    \* webauthn_credentials: the wrap stored with each passkey, if any
  held,   \* per device, what it holds since it unlocked the vault
  op,     \* per device, the request or rotation under way
  keys,   \* secret keys generated so far
  salts,  \* account salts generated so far
  strays, \* history: entries written by a device that slept through a reset
  crossed \* history: since the last rotation or reset, a wrap was stored that
          \* had been verified before it

vars == <<user, rows, hist, att, prf, held, op, keys, salts, strays, crossed>>

\* A key is numbered when it is generated; 0 is none.  setup stands for
\* vault_setup_at and is the first key of the vault; auth is the key behind
\* master_password_server_hash, wrap and rec the keys under the passphrase and
\* the recovery wrap.  A salt is numbered too, and pass is the salt that came
\* with the passphrase in use: a rotation changes the salt and keeps the passphrase.
User == [setup : 0..MaxKey, keyVersion : Nat, auth : 0..MaxKey, wrap : 0..MaxKey,
         rec : 0..MaxKey, salt : 0..MaxSalt, pass : 0..MaxSalt]

\* Mutant: a reset that leaves the key version.
MutVersionKept == [setup |-> 0, keyVersion |-> 1, auth |-> 0, wrap |-> 0, rec |-> 0,
                   salt |-> 0, pass |-> 0]

NoVault == [setup |-> 0, keyVersion |-> 0, auth |-> 0, wrap |-> 0, rec |-> 0,
            salt |-> 0, pass |-> 0]

\* writes counts the writes of an entry: ver, the number of the write, is the
\* identity of a blob, and id the one of the history row made by a write.
Blob == [ver : Nat, key : 0..MaxKey, keyVersion : Nat]
NoBlob == [ver |-> 0, key |-> 0, keyVersion |-> 0]
Row == [state : {"absent", "present", "deleted"}, writes : Nat, blob : Blob]
NoRow(state) == [state |-> state, writes |-> 0, blob |-> NoBlob]
Version == [id : Nat, blob : Blob]
Attachment == [mode : {"none", "legacy", "cek"}, key : 0..MaxKey, keyVersion : Nat]
NoAttachment == [mode |-> "none", key |-> 0, keyVersion |-> 0]
Held == [key : 0..MaxKey, keyVersion : Nat, salt : 0..MaxSalt, pass : 0..MaxSalt]
\* loose: history, a registration stored the wrap and its key was not the vault's.
\* NoWrap is a passkey that is not registered or has no wrap.
Wrap == [key : 0..MaxKey, loose : BOOLEAN]
NoWrap == [key |-> 0, loose |-> FALSE]
Locked == [key |-> 0, keyVersion |-> 0, salt |-> 0, pass |-> 0]

\* seen: the users row as the request read it; blob, entry: the history row a
\* restore read; ents, hists, ceks: what the rotation fetched; torn: history,
\* the entries written between the fetch of the entries and of their history;
\* late: history, a rotation or reset committed since the request began.
Op == [phase : {"idle", "restore", "rewrap", "generate", "recover", "setup",
                "history", "attachments", "post", "apply"},
       seen : User, entry : Entries \cup {0}, blob : Blob,
       ents : SUBSET (Entries \X Nat), hists : SUBSET (Entries \X Nat),
       ceks : SUBSET Entries, torn : SUBSET Entries, late : BOOLEAN]
Idle == [phase |-> "idle", seen |-> NoVault, entry |-> 0, blob |-> NoBlob,
         ents |-> {}, hists |-> {}, ceks |-> {}, torn |-> {}, late |-> FALSE]

\* A vault with some entries from the time attachments had no key of their own.
Init ==
  /\ user = [setup |-> 1, keyVersion |-> 1, auth |-> 1, wrap |-> 1, rec |-> 0,
             salt |-> 1, pass |-> 1]
  /\ rows \in [Entries -> {NoRow("absent"), [state |-> "present", writes |-> 1,
                              blob |-> [ver |-> 1, key |-> 1, keyVersion |-> 1]]}]
  /\ hist = [e \in Entries |-> {}]
  /\ att = [e \in Entries |->
       IF rows[e].state = "present" THEN [mode |-> "legacy", key |-> 1, keyVersion |-> 1]
                                    ELSE NoAttachment]
  /\ prf = [p \in Passkeys |-> NoWrap]
  /\ held = [d \in Devices |-> Locked]
  /\ op = [d \in Devices |-> Idle]
  /\ keys = 1 /\ salts = 1
  /\ strays = {} /\ crossed = FALSE

Present == {e \in Entries : rows[e].state = "present"}
HistoryIds == UNION {{<<e, h.id>> : h \in hist[e]} : e \in Entries}
Unlocked(d) == held[d].key # 0
Done(d) == op' = [op EXCEPT ![d] = Idle]
Start(d, phase) == op' = [op EXCEPT ![d].phase = phase, ![d].seen = user]

Rekeyed(ops) ==
  /\ crossed' = FALSE
  /\ op' = [x \in Devices |->
       IF ops[x].phase \in {"rewrap", "generate", "recover"}
         THEN [ops[x] EXCEPT !.late = TRUE] ELSE ops[x]]

\* Mutant: writers do not ask for the key version.
MutUnguarded(n) == TRUE

\* assertCurrentKeyVersion, and the comparison under the advisory lock.
CurrentKeyVersion(n) == n = user.keyVersion

\* A write by a device whose key is older than the vault is a stray; a fetch of
\* the rotation data under way is torn by it.
Wrote(d, e) ==
  /\ strays' = IF held[d].key < user.setup THEN strays \cup {e} ELSE strays
  /\ op' = [x \in Devices |-> IF x = d THEN Idle
                              ELSE IF op[x].phase = "history"
                                     THEN [op[x] EXCEPT !.torn = @ \cup {e}]
                                     ELSE op[x]]

-----------------------------------------------------------------------------
(* Unlock and the guarded writers.                                             *)

\* The wrapped key must open, and its hash must match, before a device gets in.
Unlock(d) ==
  /\ op[d].phase = "idle" /\ user.setup # 0 /\ user.wrap = user.auth
  /\ held' = [held EXCEPT ![d] = [key |-> user.wrap, keyVersion |-> user.keyVersion,
                                  salt |-> user.salt, pass |-> user.pass]]
  /\ UNCHANGED <<user, rows, hist, att, prf, op, keys, salts, strays, crossed>>

CreateEntry(d, e) ==
  /\ op[d].phase = "idle" /\ Unlocked(d) /\ CurrentKeyVersion(held[d].keyVersion)
  /\ rows[e].state = "absent"
  /\ rows' = [rows EXCEPT ![e] = [state |-> "present", writes |-> 1,
       blob |-> [ver |-> 1, key |-> held[d].key, keyVersion |-> held[d].keyVersion]]]
  /\ Wrote(d, e)
  /\ UNCHANGED <<user, hist, att, prf, held, keys, salts, crossed>>

\* The blob in place goes to the history, in the same transaction.
Overwrite(e, key, keyVersion) ==
  LET n == rows[e].writes + 1
  IN  /\ rows[e].state = "present" /\ n <= MaxVer
      /\ hist' = [hist EXCEPT ![e] = @ \cup {[id |-> n, blob |-> rows[e].blob]}]
      /\ rows' = [rows EXCEPT ![e] = [state |-> "present", writes |-> n,
           blob |-> [ver |-> n, key |-> key, keyVersion |-> keyVersion]]]

EditEntry(d, e) ==
  /\ op[d].phase = "idle" /\ Unlocked(d) /\ CurrentKeyVersion(held[d].keyVersion)
  /\ Overwrite(e, held[d].key, held[d].keyVersion)
  /\ Wrote(d, e)
  /\ UNCHANGED <<user, att, prf, held, keys, salts, crossed>>

\* The history row is read before the transaction that restores it.
ReadHistory(d, e, h) ==
  /\ op[d].phase = "idle" /\ Unlocked(d) /\ h \in hist[e]
  /\ op' = [op EXCEPT ![d].phase = "restore", ![d].entry = e, ![d].blob = h.blob]
  /\ UNCHANGED <<user, rows, hist, att, prf, held, keys, salts, strays, crossed>>

RestoreHistory(d) ==
  LET b == op[d].blob
  IN  /\ op[d].phase = "restore" /\ CurrentKeyVersion(b.keyVersion)
      /\ Overwrite(op[d].entry, b.key, b.keyVersion)
      /\ Wrote(d, op[d].entry)
      /\ UNCHANGED <<user, att, prf, held, keys, salts, crossed>>

\* Permanent deletion takes history and attachment along and asks for no key version.
DeleteEntry(d, e) ==
  /\ op[d].phase = "idle" /\ rows[e].state = "present"
  /\ rows' = [rows EXCEPT ![e] = NoRow("deleted")]
  /\ hist' = [hist EXCEPT ![e] = {}]
  /\ att' = [att EXCEPT ![e] = NoAttachment]
  /\ UNCHANGED <<user, prf, held, op, keys, salts, strays, crossed>>

UploadAttachment(d, e) ==
  /\ op[d].phase = "idle" /\ Unlocked(d) /\ CurrentKeyVersion(held[d].keyVersion)
  /\ rows[e].state = "present" /\ att[e].mode = "none"
  /\ att' = [att EXCEPT ![e] =
       [mode |-> "cek", key |-> held[d].key, keyVersion |-> held[d].keyVersion]]
  /\ strays' = IF held[d].key < user.setup THEN strays \cup {e} ELSE strays
  /\ UNCHANGED <<user, rows, hist, prf, held, op, keys, salts, crossed>>

\* A legacy attachment gets a content key of its own; the client must be able to open
\* it.  A rotating client does so before its last fetch.
MigrateAttachment(d, e) ==
  /\ op[d].phase \in {"idle", "attachments"} /\ Unlocked(d) /\ CurrentKeyVersion(held[d].keyVersion)
  /\ att[e].mode = "legacy" /\ att[e].key = held[d].key
  /\ att' = [att EXCEPT ![e].mode = "cek", ![e].keyVersion = held[d].keyVersion]
  /\ UNCHANGED <<user, rows, hist, prf, held, op, keys, salts, strays, crossed>>

\* register/verify stores a wrap of the device's key with a new passkey.  No key
\* version is sent, no lock is taken and nothing is compared.
RegisterPasskey(d, p) ==
  /\ op[d].phase = "idle" /\ Unlocked(d) /\ prf[p] = NoWrap
  /\ prf' = [prf EXCEPT ![p] = [key |-> held[d].key, loose |-> held[d].key # user.auth]]
  /\ UNCHANGED <<user, rows, hist, att, held, op, keys, salts, strays, crossed>>

\* Mutant: the passkey route does not ask for the key version.
MutPrfUnguarded(d, p) ==
  /\ op[d].phase = "idle" /\ Unlocked(d)
  /\ prf' = [prf EXCEPT ![p] = [key |-> held[d].key, loose |-> FALSE]]
  /\ UNCHANGED <<user, rows, hist, att, held, op, keys, salts, strays, crossed>>

\* The wrap of a registered passkey is stored anew.
RebootstrapPrf(d, p) ==
  /\ op[d].phase = "idle" /\ Unlocked(d) /\ CurrentKeyVersion(held[d].keyVersion)
  /\ prf' = [prf EXCEPT ![p] = [key |-> held[d].key, loose |-> FALSE]]
  /\ UNCHANGED <<user, rows, hist, att, held, op, keys, salts, strays, crossed>>

DeletePasskey(d, p) ==
  /\ op[d].phase = "idle" /\ prf[p] # NoWrap
  /\ prf' = [prf EXCEPT ![p] = NoWrap]
  /\ UNCHANGED <<user, rows, hist, att, held, op, keys, salts, strays, crossed>>

-----------------------------------------------------------------------------
(* Writers of the users row that check first and write later.                  *)

\* change-passphrase and recovery-key/generate compare the passphrase verifier.
VerifyPassphrase(d, phase) ==
  /\ op[d].phase = "idle" /\ Unlocked(d)
  /\ user.setup # 0 /\ held[d].salt = user.salt
  /\ Start(d, phase)
  /\ UNCHANGED <<user, rows, hist, att, prf, held, keys, salts, strays, crossed>>

Stored(d) ==
  /\ crossed' = (crossed \/ op[d].late)
  /\ Done(d)

ChangePassphrase(d) ==
  /\ op[d].phase = "rewrap" /\ salts < MaxSalt
  /\ salts' = salts + 1
  /\ user' = [user EXCEPT !.wrap = held[d].key, !.salt = salts + 1, !.pass = salts + 1]
  /\ held' = [held EXCEPT ![d].salt = salts + 1, ![d].pass = salts + 1]
  /\ Stored(d)
  /\ UNCHANGED <<rows, hist, att, prf, keys, strays>>

GenerateRecoveryKey(d) ==
  /\ op[d].phase = "generate"
  /\ user' = [user EXCEPT !.rec = held[d].key]
  /\ Stored(d)
  /\ UNCHANGED <<rows, hist, att, prf, held, keys, salts, strays>>

\* The recovery key opens the recovery wrap; no unlocked vault is needed.
VerifyRecoveryKey(d) ==
  /\ op[d].phase = "idle" /\ user.rec # 0
  /\ Start(d, "recover")
  /\ UNCHANGED <<user, rows, hist, att, prf, held, keys, salts, strays, crossed>>

Recover(d) ==
  LET key == op[d].seen.rec
  IN  /\ op[d].phase = "recover" /\ salts < MaxSalt
      /\ salts' = salts + 1
      /\ user' = [user EXCEPT !.wrap = key, !.rec = key, !.salt = salts + 1, !.pass = salts + 1]
      /\ Stored(d)
      /\ UNCHANGED <<rows, hist, att, prf, held, keys, strays>>

-----------------------------------------------------------------------------
(* Reset and setup.                                                            *)

\* The passkey wraps are left as they are.
ResetVault ==
  /\ user' = NoVault
  /\ rows' = [e \in Entries |-> IF e \in Present THEN NoRow("deleted") ELSE rows[e]]
  /\ hist' = [e \in Entries |-> {}]
  /\ att' = [e \in Entries |-> NoAttachment]
  /\ Rekeyed(op)
  /\ UNCHANGED <<prf, held, keys, salts, strays>>

ReadNotSetUp(d) ==
  /\ op[d].phase = "idle" /\ user.setup = 0
  /\ Start(d, "setup")
  /\ UNCHANGED <<user, rows, hist, att, prf, held, keys, salts, strays, crossed>>

\* vault_keys is unique in (user, version) and holds versions 1 to key_version:
\* the second of two setups fails on version 1 and is rolled back.
SetupVault(d) ==
  /\ op[d].phase = "setup" /\ user.keyVersion = 0
  /\ keys < MaxKey /\ salts < MaxSalt
  /\ keys' = keys + 1 /\ salts' = salts + 1
  /\ user' = [user EXCEPT !.setup = keys + 1, !.keyVersion = 1, !.auth = keys + 1,
                          !.wrap = keys + 1, !.salt = salts + 1, !.pass = salts + 1]
  /\ held' = [held EXCEPT ![d] = [key |-> keys + 1, keyVersion |-> 1,
                                  salt |-> salts + 1, pass |-> salts + 1]]
  /\ Done(d)
  /\ UNCHANGED <<rows, hist, att, prf, strays, crossed>>

-----------------------------------------------------------------------------
(* Rotation: the client fetches and re-encrypts, the server checks and stores. *)

\* The statements of GET /rotate-key/data see the vault one after the other.
\* A ciphertext the device's key does not open ends the rotation.
FetchEntries(d) ==
  /\ op[d].phase = "idle" /\ Unlocked(d)
  /\ \A e \in Present : rows[e].blob.key = held[d].key
  /\ op' = [op EXCEPT ![d].phase = "history",
                      ![d].ents = {<<e, rows[e].blob.ver>> : e \in Present}]
  /\ UNCHANGED <<user, rows, hist, att, prf, held, keys, salts, strays, crossed>>

FetchHistory(d) ==
  /\ op[d].phase = "history"
  /\ \A e \in Entries : \A h \in hist[e] : h.blob.key = held[d].key
  /\ op' = [op EXCEPT ![d].phase = "attachments",
                      ![d].hists = HistoryIds]
  /\ UNCHANGED <<user, rows, hist, att, prf, held, keys, salts, strays, crossed>>

\* The last fetch, made once no legacy attachment is left.
FetchAttachments(d) ==
  /\ op[d].phase = "attachments"
  /\ \A e \in Entries : att[e].mode # "legacy"
  /\ \A e \in Entries : att[e].mode = "cek" => att[e].key = held[d].key
  /\ op' = [op EXCEPT ![d].phase = "post", ![d].ceks = {e \in Entries : att[e].mode = "cek"}]
  /\ UNCHANGED <<user, rows, hist, att, prf, held, keys, salts, strays, crossed>>

\* POST /rotate-key reads the users row and compares the hash of the device's key.
PostRotation(d) ==
  /\ op[d].phase = "post" /\ user.setup # 0 /\ held[d].key = user.auth
  /\ Start(d, "apply")
  /\ UNCHANGED <<user, rows, hist, att, prf, held, keys, salts, strays, crossed>>

\* Mutant: the account salt is not compared.
MutNoSaltCheck(old) ==
  user.setup # 0 /\ user.keyVersion = old.keyVersion /\ user.setup = old.setup

\* The users row, locked now, is the one that was read.
SameUser(old) ==
  /\ user.setup # 0 /\ user.keyVersion = old.keyVersion
  /\ user.setup = old.setup /\ user.salt = old.salt

\* Mutant: only the entries are compared.
MutNoHistoryCheck(d) == {x[1] : x \in op[d].ents} = Present

\* Every entry and every history row, and no other, was re-encrypted.
SameRows(d) ==
  /\ {x[1] : x \in op[d].ents} = Present
  /\ op[d].hists = HistoryIds

\* The rewrapped content keys are rows of the current version, and after the
\* update none is left at another.
SameAttachments(d) ==
  /\ \A e \in Entries : att[e].mode # "legacy"
  /\ \A e \in op[d].ceks : att[e].mode = "cek" /\ att[e].keyVersion = op[d].seen.keyVersion
  /\ \A e \in Entries : att[e].mode = "cek" => e \in op[d].ceks

\* Mutant: the recovery wrap is kept.
MutKeepRecovery(d, key, version, salt) ==
  [user EXCEPT !.keyVersion = version, !.auth = key, !.wrap = key,
               !.salt = salt, !.pass = held[d].pass]

\* The recovery wrap is of the old key: it is cleared.
RotatedUser(d, key, version, salt) ==
  [user EXCEPT !.keyVersion = version, !.auth = key, !.wrap = key, !.rec = 0,
               !.salt = salt, !.pass = held[d].pass]

\* applyVaultRotation.  answered: the client learns of the commit.
ApplyRotation(d, answered) ==
  LET key == keys + 1
      version == op[d].seen.keyVersion + 1
  IN  /\ op[d].phase = "apply" /\ keys < MaxKey /\ salts < MaxSalt
      /\ SameUser(op[d].seen) /\ SameRows(d) /\ SameAttachments(d)
      /\ keys' = key /\ salts' = salts + 1
      /\ rows' = [e \in Entries |->
           IF e \in Present
             THEN [rows[e] EXCEPT !.blob =
                    [ver |-> CHOOSE v \in 0..MaxVer : <<e, v>> \in op[d].ents,
                     key |-> key, keyVersion |-> version]]
             ELSE rows[e]]
      /\ hist' = [e \in Entries |->
           {[h EXCEPT !.blob.key = key, !.blob.keyVersion = version] : h \in hist[e]}]
      /\ att' = [e \in Entries |->
           IF e \in op[d].ceks THEN [att[e] EXCEPT !.key = key, !.keyVersion = version]
                               ELSE att[e]]
      /\ user' = RotatedUser(d, key, version, salts + 1)
      /\ prf' = [p \in Passkeys |-> NoWrap]
      /\ held' = IF answered
                   THEN [held EXCEPT ![d] = [key |-> key, keyVersion |-> version,
                                             salt |-> salts + 1, pass |-> @.pass]]
                   ELSE held
      /\ Rekeyed([op EXCEPT ![d] = Idle])
      /\ UNCHANGED strays

\* A check refuses, a transaction is rolled back or the client goes away.
Abandon(d) ==
  /\ op[d].phase # "idle"
  /\ Done(d)
  /\ UNCHANGED <<user, rows, hist, att, prf, held, keys, salts, strays, crossed>>

Next ==
  \/ \E d \in Devices :
       \/ Unlock(d)
       \/ \E e \in Entries :
            \/ CreateEntry(d, e)
            \/ EditEntry(d, e)
            \/ \E h \in hist[e] : ReadHistory(d, e, h)
            \/ DeleteEntry(d, e)
            \/ UploadAttachment(d, e)
            \/ MigrateAttachment(d, e)
       \/ RestoreHistory(d)
       \/ \E p \in Passkeys :
            RegisterPasskey(d, p) \/ RebootstrapPrf(d, p) \/ DeletePasskey(d, p)
       \/ \E phase \in {"rewrap", "generate"} : VerifyPassphrase(d, phase)
       \/ ChangePassphrase(d)
       \/ GenerateRecoveryKey(d)
       \/ VerifyRecoveryKey(d)
       \/ Recover(d)
       \/ ReadNotSetUp(d)
       \/ SetupVault(d)
       \/ FetchEntries(d)
       \/ FetchHistory(d)
       \/ FetchAttachments(d)
       \/ PostRotation(d)
       \/ \E answered \in BOOLEAN : ApplyRotation(d, answered)
       \/ Abandon(d)
  \/ ResetVault

Spec == Init /\ [][Next]_vars

-----------------------------------------------------------------------------
(* Properties.                                                                 *)

\* The rows have their columns' types, and the vault is set up exactly when it
\* has a key version.
TypeOK ==
  /\ user \in User
  /\ rows \in [Entries -> Row]
  /\ \A e \in Entries : hist[e] \subseteq Version
  /\ att \in [Entries -> Attachment]
  /\ prf \in [Passkeys -> Wrap]
  /\ held \in [Devices -> Held]
  /\ op \in [Devices -> Op]
  /\ keys \in 1..MaxKey /\ salts \in 1..MaxSalt
  /\ strays \subseteq Entries
  /\ user.setup = 0 <=> user.keyVersion = 0

\* No interleaving of writers, rotations and resets leaves a ciphertext behind
\* that the vault's key does not open, or that carries another key version;
\* except what a device wrote that still held the key of an earlier vault.
Opens(b) == b.key = user.auth /\ b.keyVersion = user.keyVersion
EverythingOpens ==
  \A e \in Present \ strays :
    /\ Opens(rows[e].blob)
    /\ \A h \in hist[e] : Opens(h.blob)
    /\ att[e].mode # "none" => Opens(att[e])

\* A passkey wrap of the vault's own time holds the vault's key: no rotation leaves
\* one behind, and the guarded route stores no other.  Excepted is what a
\* registration stored while its device held another key than the vault's, which
\* nothing on the server looks at.
PasskeyOpens ==
  \A p \in Passkeys :
    user.setup # 0 /\ prf[p].key >= user.setup /\ ~prf[p].loose => prf[p].key = user.auth

Rotated(d) == op[d].phase = "apply" /\ op'[d].phase = "idle" /\ user' # user

\* applyVaultRotation: no edit that was answered is overwritten with an older
\* blob, unless it came between the two statements that fetched the entries and
\* their history.
NoEditLost ==
  [][\A d \in Devices : Rotated(d) =>
       \A e \in Present \ op[d].torn : rows'[e].blob.ver = rows[e].blob.ver]_vars

\* A rotation posted with the passphrase in use does not take back a passphrase
\* change that commits while it runs.
PassphraseSticks ==
  [][\A d \in Devices : Rotated(d) /\ held[d].pass = op[d].seen.pass =>
       user'.pass = user.pass]_vars

\* The passphrase and the recovery key open the vault, unless a passphrase
\* change, a recovery or a new recovery key was verified before the last rotation
\* or reset and stored after it.
LockedOutOnlyByRace ==
  user.setup # 0 /\ ~crossed => user.wrap = user.auth /\ user.rec \in {0, user.auth}
=============================================================================
