----------------------------- MODULE SecureStorage -----------------------------
(***************************************************************************)
(* The password-protected vault of the wallets                             *)
(* (secure-storage-manager.ts, account-persistence.ts).                    *)
(*                                                                         *)
(* One manager over one store.  Steps are cut at the awaits on the store   *)
(* and on the key derivation; what a continuation does up to its next      *)
(* await is one step.  A key is a password and a master salt, and opens    *)
(* exactly what was encrypted under it.                                    *)
(***************************************************************************)
EXTENDS Integers, FiniteSets

CONSTANTS
  Calls,       \* concurrent calls of the manager
  Passwords,
  Accounts,    \* what records hold
  AccountKey,  \* the item of AccountPersistence
  OtherKeys,   \* the items of saveItem that a password change re-encrypts
  MaxSalt,     \* bound on salts drawn
  MaxFaults,   \* bound on deaths of the process
  Nothing      \* an absent key, payload or value

Items == OtherKeys \union {AccountKey}
Entries == Items \union {"master_salt", "verification_payload"}
Keys == Passwords \X (1..MaxSalt)
Payloads == [under : Keys, records : SUBSET Accounts]

ASSUME VaultAssumption ==
  /\ Nothing \notin Passwords /\ \A v \in Keys \union Payloads \union SUBSET Accounts : v # Nothing
  /\ AccountKey \notin OtherKeys /\ "master_salt" \notin Items /\ "verification_payload" \notin Items
  /\ MaxSalt \in Nat /\ MaxFaults \in Nat

VARIABLES
  salt,        \* master_salt, 0 if there is none
  check,       \* the key verification_payload is encrypted under
  item,        \* payloads: the key each is encrypted under, and its records
  key,         \* encryptionKey
  salts,       \* salts drawn so far
  call,        \* the calls in flight
  outcome,     \* how a caller's last call ended
  kept,        \* history: the records that callers have stored
  password,    \* history: the password last set
  torn,        \* history: the operations ("change", "reset") that were cut short
  deaths

disk == <<salt, check, item>>
history == <<kept, password, torn>>
vaultVars == <<disk, key, salts, call, outcome, history, deaths>>

Steps == {"idle", "salt", "derived", "verify", "verified", "read", "rederived",
          "item", "check", "master", "load", "delete"}
Ops == {"unlock", "change", "save", "persist", "remove", "reset"}
Outcomes == {"none", "true", "false", "threw", "unreadable"}

Records == (SUBSET Accounts) \union {Nothing}
NoRecords == [i \in Items |-> Nothing]

\* A call: where it is, its arguments, the salt and key it holds, what it has
\* decrypted, what it has left to do, and whether it has written.
Call == [at : Steps, op : Ops, pw : Passwords \union {Nothing}, new : Passwords \union {Nothing},
         key : Items, arg : SUBSET Accounts, salt : 0..MaxSalt, under : Keys \union {Nothing},
         plain : [Items -> Records], left : SUBSET Entries, wrote : BOOLEAN]
Idle == [at |-> "idle", op |-> "unlock", pw |-> Nothing, new |-> Nothing, key |-> AccountKey,
         arg |-> {}, salt |-> 0, under |-> Nothing, plain |-> NoRecords, left |-> {}, wrote |-> FALSE]

VaultTypeOK ==
  /\ salt \in 0..MaxSalt /\ salts \in 0..MaxSalt
  /\ check \in Keys \union {Nothing} /\ key \in Keys \union {Nothing}
  /\ item \in [Items -> Payloads \union {Nothing}]
  /\ kept \in [Items -> Records]
  /\ outcome \in [Calls -> Outcomes]
  /\ password \in Passwords \union {Nothing}
  /\ torn \subseteq {"change", "reset"} /\ deaths \in 0..MaxFaults
  /\ \A c \in Calls :
       /\ call[c].at \in Steps /\ call[c].op \in Ops
       /\ call[c].under \in Keys \union {Nothing} /\ call[c].left \subseteq Entries

VaultInit ==
  /\ salt = 0 /\ check = Nothing /\ item = NoRecords
  /\ key = Nothing /\ salts = 0
  /\ call = [c \in Calls |-> Idle]
  /\ outcome = [c \in Calls |-> "none"]
  /\ kept = NoRecords /\ torn = {}
  /\ password = Nothing /\ deaths = 0

-----------------------------------------------------------------------------
At(c, step) == call[c].at = step

\* Call c goes on as d.
Go(c, d) == call' = [call EXCEPT ![c] = d] /\ UNCHANGED outcome
Returns(c, result) ==
  /\ call' = [call EXCEPT ![c] = [Idle EXCEPT !.op = call[c].op, !.wrote = call[c].wrote]]
  /\ outcome' = [outcome EXCEPT ![c] = result]

\* Calls the application makes together: unlocks of a vault that exists, saves,
\* and an unlock while a save is still writing.  The rest it makes alone.
Together(op, d) ==
  /\ salt # 0 /\ check # Nothing
  /\ call[d].op = op \/ call[d].op = "save"
  /\ op = "unlock" \/ op = "save"
Starts(c, d) ==
  /\ At(c, "idle")
  /\ \A o \in Calls \ {c} : At(o, "idle") \/ Together(d.op, o)
  /\ call' = [call EXCEPT ![c] = d]
  /\ outcome' = [outcome EXCEPT ![c] = "none"]
  /\ UNCHANGED <<disk, key, salts, history, deaths>>

Unlock(c, pw) ==
  IF key # Nothing
  THEN /\ At(c, "idle") /\ outcome' = [outcome EXCEPT ![c] = "true"]
       /\ UNCHANGED <<disk, key, salts, call, history, deaths>>
  ELSE Starts(c, [Idle EXCEPT !.at = "salt", !.pw = pw])

ChangePassword(c, pw, new) ==
  Starts(c, [Idle EXCEPT !.op = "change", !.at = "salt", !.pw = pw, !.new = new])

\* assertUnlocked; encryptData takes the key before its first await.
SaveItem(c, i, records) ==
  /\ key # Nothing
  /\ Starts(c, [Idle EXCEPT !.op = "save", !.at = "item", !.key = i, !.arg = records,
                           !.under = key, !.plain = [NoRecords EXCEPT ![i] = records]])

\* persistAccount and deleteAccount: read, change, save.
Persist(c, op, account) ==
  /\ key # Nothing /\ op \in {"persist", "remove"}
  /\ Starts(c, [Idle EXCEPT !.op = op, !.at = "load", !.arg = {account}])

Reset(c) == Starts(c, [Idle EXCEPT !.op = "reset", !.at = "delete", !.left = Entries])

Lock ==
  /\ key # Nothing /\ key' = Nothing
  /\ UNCHANGED <<disk, salts, call, outcome, history, deaths>>

\* A change or a reset has begun to write.
Writes(c, op) == call[c].op = op /\ call[c].wrote /\ ~At(c, "idle")
UnderWay(op) == \E c \in Calls : Writes(c, op)

\* The popup is closed, or the service worker is stopped.
Dies ==
  /\ deaths < MaxFaults /\ deaths' = deaths + 1
  /\ key' = Nothing
  /\ call' = [c \in Calls |-> Idle]
  /\ outcome' = [c \in Calls |-> "none"]
  /\ torn' = torn \union {op \in {"change", "reset"} : UnderWay(op)}
  /\ UNCHANGED <<disk, salts, kept, password>>

-----------------------------------------------------------------------------
\* unlock and changePassword

\* loadMasterSalt: a first unlock draws a salt; a change without a vault ends,
\* one with a vault locks the manager.
LoadSalt(c) ==
  /\ At(c, "salt")
  /\ \/ /\ salt = 0 /\ call[c].op = "unlock" /\ salts < MaxSalt
        /\ salts' = salts + 1
        /\ Go(c, [call[c] EXCEPT !.at = "rederived", !.new = call[c].pw, !.salt = salts + 1])
        /\ UNCHANGED key
     \/ /\ salt = 0 /\ call[c].op = "change"
        /\ Returns(c, "false")
        /\ UNCHANGED <<salts, key>>
     \/ /\ salt # 0
        /\ Go(c, [call[c] EXCEPT !.at = "derived", !.salt = salt])
        /\ key' = IF call[c].op = "change" THEN Nothing ELSE key
        /\ UNCHANGED salts
  /\ UNCHANGED <<disk, history, deaths>>

\* The derived key is published before it is verified.
Derived(c) ==
  /\ At(c, "derived")
  /\ key' = <<call[c].pw, call[c].salt>>
  /\ Go(c, [call[c] EXCEPT !.at = "verify"])
  /\ UNCHANGED <<disk, salts, history, deaths>>

\* readEncryptedPayload of the verification payload, then deriveAesKey.
Verify(c) ==
  /\ At(c, "verify")
  /\ \/ check # Nothing /\ key # Nothing
        /\ Go(c, [call[c] EXCEPT !.at = "verified", !.under = IF key = check THEN key ELSE Nothing])
        /\ UNCHANGED key
     \/ check # Nothing /\ key = Nothing /\ Returns(c, "false") /\ UNCHANGED key
     \/ /\ check = Nothing /\ Returns(c, "false")
        /\ key' = IF call[c].op = "change" THEN Nothing ELSE key
  /\ UNCHANGED <<disk, salts, history, deaths>>

ReencryptedPassed == OtherKeys \* mutant: the caller forgets the item that is not in the list
\* The default items, and AccountKey, which the caller names as an additional one.
Reencrypted == OtherKeys \union {AccountKey}

Verified(c) ==
  /\ At(c, "verified")
  /\ \/ call[c].under = Nothing /\ key' = Nothing /\ Returns(c, "false")
     \/ call[c].under # Nothing /\ call[c].op = "unlock" /\ Returns(c, "true")
        /\ UNCHANGED key
     \/ call[c].under # Nothing /\ call[c].op = "change"
        /\ Go(c, [call[c] EXCEPT !.at = "read", !.left = Reencrypted]) /\ UNCHANGED key
  /\ UNCHANGED <<disk, salts, history, deaths>>

\* One turn of the loop that decrypts everything up front.
Read(c, i) ==
  /\ At(c, "read") /\ i \in call[c].left
  /\ \/ /\ item[i] = Nothing
        /\ Go(c, [call[c] EXCEPT !.left = @ \ {i}]) /\ UNCHANGED key
     \/ /\ item[i] # Nothing /\ key = item[i].under
        /\ Go(c, [call[c] EXCEPT !.left = @ \ {i}, !.plain[i] = item[i].records])
        /\ UNCHANGED key
     \/ /\ item[i] # Nothing /\ key # item[i].under
        /\ Returns(c, "unreadable") /\ key' = Nothing
  /\ UNCHANGED <<disk, salts, history, deaths>>

ReadAll(c) ==
  /\ At(c, "read") /\ call[c].left = {} /\ salts < MaxSalt
  /\ salts' = salts + 1
  /\ Go(c, [call[c] EXCEPT !.at = "rederived", !.salt = salts + 1])
  /\ UNCHANGED <<disk, key, history, deaths>>

Encrypting(d, k) == [d EXCEPT !.at = IF d.left = {} THEN "check" ELSE "item", !.under = k]
\* mutant: a key that is gone is not noticed
EncryptsAnyway(c, d, k) == Go(c, Encrypting(d, k))
\* What is encrypted next, under the key k of this moment: an item, or, once all
\* are stored, the verification payload.
Encrypts(c, d, k) == IF k = Nothing THEN Returns(c, "threw") ELSE Go(c, Encrypting(d, k))

Rederived(c) ==
  /\ At(c, "rederived")
  /\ key' = <<call[c].new, call[c].salt>>
  /\ Encrypts(c, [call[c] EXCEPT !.left = {i \in Items : call[c].plain[i] # Nothing}],
              <<call[c].new, call[c].salt>>)
  /\ UNCHANGED <<disk, salts, history, deaths>>

PutChanged(c, i) ==
  /\ At(c, "item") /\ call[c].op = "change" /\ i \in call[c].left
  /\ item' = [item EXCEPT ![i] = [under |-> call[c].under, records |-> call[c].plain[i]]]
  /\ torn' = IF key = Nothing THEN torn \union {"change"} ELSE torn
  /\ Encrypts(c, [call[c] EXCEPT !.left = @ \ {i}, !.wrote = TRUE], key)
  /\ UNCHANGED <<salt, check, key, salts, kept, password, deaths>>

\* The verification payload, and after it the salt.
PutCheck(c) ==
  /\ At(c, "check")
  /\ check' = call[c].under
  /\ Go(c, [call[c] EXCEPT !.at = "master", !.wrote = TRUE])
  /\ UNCHANGED <<salt, item, key, salts, history, deaths>>

PutSalt(c) ==
  /\ At(c, "master")
  /\ salt' = call[c].salt
  /\ password' = call[c].new
  /\ Returns(c, "true")
  /\ UNCHANGED <<check, item, key, salts, kept, torn, deaths>>

-----------------------------------------------------------------------------
\* Items

\* The records after a call, given those before it.
Changed(d, before) ==
  LET old == IF before = Nothing THEN {} ELSE before
  IN CASE d.op = "persist" -> old \union d.arg
       [] d.op = "remove" -> old \ d.arg
       [] OTHER -> d.arg

PutSaved(c) ==
  /\ At(c, "item") /\ call[c].op # "change"
  /\ item' = [item EXCEPT ![call[c].key] =
                [under |-> call[c].under, records |-> call[c].plain[call[c].key]]]
  /\ kept' = [kept EXCEPT ![call[c].key] = Changed(call[c], @)]
  /\ Returns(c, "true")
  /\ UNCHANGED <<salt, check, key, salts, password, torn, deaths>>

\* loadAccountRecords: what cannot be read is no records; then saveItem.
Load(c) ==
  /\ At(c, "load")
  /\ IF key = Nothing
     THEN Returns(c, "threw")
     ELSE LET payload == item[AccountKey]
              records == IF payload # Nothing /\ payload.under = key THEN payload.records ELSE {}
          IN Go(c, [call[c] EXCEPT !.at = "item", !.under = key,
                                   !.plain[AccountKey] = Changed(call[c], records)])
  /\ UNCHANGED <<disk, key, salts, history, deaths>>

\* reset deletes the entries in any order, then locks.
Delete(c, e) ==
  /\ At(c, "delete") /\ e \in call[c].left
  /\ salt' = IF e = "master_salt" THEN 0 ELSE salt
  /\ check' = IF e = "verification_payload" THEN Nothing ELSE check
  /\ item' = [i \in Items |-> IF i = e THEN Nothing ELSE item[i]]
  /\ kept' = [i \in Items |-> IF i = e THEN Nothing ELSE kept[i]]
  /\ torn' = IF call[c].left = {e} THEN {} ELSE torn
  /\ IF call[c].left = {e}
     THEN Returns(c, "true") /\ key' = Nothing
     ELSE Go(c, [call[c] EXCEPT !.left = @ \ {e}, !.wrote = TRUE]) /\ UNCHANGED key
  /\ UNCHANGED <<salts, password, deaths>>

-----------------------------------------------------------------------------
CallStep(c) ==
  \/ LoadSalt(c) \/ Derived(c) \/ Verify(c) \/ Verified(c)
  \/ (\E i \in Items : Read(c, i) \/ PutChanged(c, i))
  \/ ReadAll(c) \/ Rederived(c) \/ PutCheck(c) \/ PutSalt(c)
  \/ PutSaved(c) \/ Load(c)
  \/ (\E e \in call[c].left : Delete(c, e))

CallStarts(c) ==
  \/ \E pw \in Passwords : Unlock(c, pw)
  \/ \E pw, new \in Passwords : ChangePassword(c, pw, new)
  \/ \E i \in OtherKeys, records \in SUBSET Accounts : SaveItem(c, i, records)
  \/ \E op \in {"persist", "remove"}, account \in Accounts : Persist(c, op, account)
  \/ Reset(c)

VaultNext == (\E c \in Calls : CallStarts(c) \/ CallStep(c)) \/ Lock \/ Dies

VaultSpec == VaultInit /\ [][VaultNext]_vaultVars
-----------------------------------------------------------------------------
(***************************************************************************)
(* Properties.                                                             *)
(***************************************************************************)

\* Since the last reset an operation was cut short, or it is writing now.
Torn(op) == op \in torn \/ UnderWay(op)

\* A vault no change of password or reset of which was cut short, however many
\* other calls died or were locked out, opens with the password last set, and every
\* record stored in it is there and readable (the write order of unlock and
\* changePassword, and that a change re-encrypts every item).
VaultKeepsRecords ==
  salt # 0 /\ ~Torn("change") /\ ~Torn("reset") =>
    /\ check = <<password, salt>>
    /\ \A i \in Items : kept[i] # Nothing => item[i] = [under |-> check, records |-> kept[i]]

\* A change refused for a wrong password or an unreadable item has written nothing
\* ("a wrong password or an unreadable payload aborts the change with storage
\* untouched", changePassword).
RefusedChangeWroteNothing ==
  \A c \in Calls :
    call[c].op = "change" /\ outcome[c] \in {"false", "unreadable"} => ~call[c].wrote

\* The vault keeps what was stored in it, and a refused password change touches
\* nothing.
VaultKeeps == VaultKeepsRecords /\ RefusedChangeWroteNothing

\* "If the process dies mid-write the old salt still refers to a readable vault"
\* (changePassword): some password opens every record that was stored.
SaltOpensRecords ==
  salt # 0 /\ "reset" \notin torn /\ (\A c \in Calls : At(c, "idle")) =>
    \E pw \in Passwords : \A i \in Items : kept[i] # Nothing => item[i].under = <<pw, salt>>
=============================================================================
