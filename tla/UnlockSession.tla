----------------------------- MODULE UnlockSession -----------------------------
(***************************************************************************)
(* The unlock session of the extension's background worker                 *)
(* (session-state.ts, lock-unlock.ts, unlock-rate-limit.ts).               *)
(*                                                                         *)
(* The flag and the vault's key live in the worker, the session record and *)
(* the count of failures in chrome.storage.session, which outlives it.     *)
(* Handlers are cut at their awaits.  Durations are left out: a session    *)
(* expires and a lockout ends at any moment.                               *)
(***************************************************************************)
EXTENDS Integers, FiniteSets

CONSTANTS
  Handlers,       \* handlers in flight in the worker
  MaxFailures,    \* UNLOCK_MAX_ATTEMPTS
  MaxRestarts     \* bound on deaths of the worker

ASSUME SessionAssumption == MaxFailures \in Nat \ {0} /\ MaxRestarts \in Nat

VARIABLES
  onboarded,   \* what readAuthState tells the worker
  flag,        \* _sessionUnlocked
  vaultOpen,   \* the shared storage manager holds the key
  record,      \* the unlock session: "none", "valid" or "expired"
  attempts,    \* stored failures, and their lockout: "none", "running" or "over"
  handler,     \* the handlers in flight
  restarts,
  tries,       \* history: wrong passwords judged since a success or a lockout
  raced,       \* history: two unlocks were in flight together
  sealed       \* history: a lock is alone in flight ("locking"), or ended so and no unlock
               \* came since ("sealed")

sessionHistory == <<tries, raced, sealed>>
sessionVars == <<onboarded, flag, vaultOpen, record, attempts, handler, restarts, sessionHistory>>

HandlerSteps == {"idle", "load", "vault", "count", "clear", "ttl", "put", "flag",
                 "remove", "read", "restore", "account"}
NoAttempts == [failed |-> 0, lockout |-> "none"]
Lockouts == {"none", "running", "over"}

Resting == [at |-> "idle", op |-> "none", failed |-> 0, seen |-> "none"]

SessionTypeOK ==
  /\ onboarded \in BOOLEAN /\ flag \in BOOLEAN /\ vaultOpen \in BOOLEAN
  /\ record \in {"none", "valid", "expired"}
  /\ attempts \in [failed : 0..MaxFailures, lockout : Lockouts]
  /\ handler \in [Handlers -> [at : HandlerSteps, failed : 0..MaxFailures,
                               op : {"none", "unlock", "lock", "refresh", "restore", "sign"},
                               seen : {"none", "valid", "expired"}]]
  /\ restarts \in 0..MaxRestarts
  /\ tries \in Nat /\ raced \in BOOLEAN /\ sealed \in {"no", "locking", "sealed"}

\* A fresh install has wiped the storage; the first worker has booted.
SessionInit ==
  /\ onboarded \in BOOLEAN
  /\ flag = FALSE /\ vaultOpen = FALSE /\ record = "none"
  /\ attempts = NoAttempts
  /\ handler = [h \in Handlers |-> Resting]
  /\ restarts = 0 /\ tries = 0 /\ raced = FALSE /\ sealed = "no"

-----------------------------------------------------------------------------
Stands(h, step) == handler[h].at = step
Moves(h, step) == handler' = [handler EXCEPT ![h].at = step]
Ends(h) == handler' = [handler EXCEPT ![h] = Resting]
Alone(h) == \A g \in Handlers \ {h} : Stands(g, "idle")
Begins(h, op, step) ==
  /\ Stands(h, "idle")
  /\ handler' = [handler EXCEPT ![h] = [Resting EXCEPT !.at = step, !.op = op]]
  /\ sealed' = CASE op = "lock" /\ Alone(h) /\ sealed = "no" -> "locking"
                 [] op = "unlock" \/ sealed = "locking" -> "no"
                 [] OTHER -> sealed

-----------------------------------------------------------------------------
\* UNLOCK_WALLET

UnlockStarts(h) ==
  /\ Begins(h, "unlock", "load")
  /\ raced' = (raced \/ \E g \in Handlers : handler[g].op = "unlock")
  /\ UNCHANGED <<onboarded, flag, vaultOpen, record, attempts, restarts, tries>>

FailuresKept == attempts.failed \* mutant: the count goes on after a lockout
Failures == IF attempts.lockout = "over" THEN 0 ELSE attempts.failed

\* loadUnlockAttemptState, checkUnlockRateLimit, hasOnboarded: a lockout that has
\* ended starts the count again.
LoadAttempts(h) ==
  /\ Stands(h, "load")
  /\ IF attempts.lockout = "running" \/ ~onboarded
     THEN Ends(h)
     ELSE handler' = [handler EXCEPT ![h].at = "vault", ![h].failed = Failures]
  /\ UNCHANGED <<onboarded, flag, vaultOpen, record, attempts, restarts, sessionHistory>>

\* storageManager.unlock: an open vault takes any password; a wrong one clears the key.
JudgePassword(h) ==
  /\ Stands(h, "vault")
  /\ \/ Moves(h, "clear") /\ vaultOpen' = TRUE /\ tries' = 0
     \/ ~vaultOpen /\ Moves(h, "count") /\ tries' = tries + 1 /\ UNCHANGED vaultOpen
  /\ UNCHANGED <<onboarded, flag, record, attempts, restarts, raced, sealed>>

LockoutUncounted(failed) == "none" \* mutant: the lockout is not computed from the new count
\* calculateUnlockBackoffMs
Lockout(failed) == IF failed < MaxFailures THEN "none" ELSE "running"

\* recordUnlockFailure on the count that was loaded.
CountFailure(h) ==
  /\ Stands(h, "count")
  /\ attempts' = [failed |-> handler[h].failed + 1, lockout |-> Lockout(handler[h].failed + 1)]
  /\ Ends(h)
  /\ UNCHANGED <<onboarded, flag, vaultOpen, record, restarts, sessionHistory>>

ClearAttempts(h) ==
  /\ Stands(h, "clear")
  /\ attempts' = NoAttempts
  /\ Moves(h, "ttl")
  /\ UNCHANGED <<onboarded, flag, vaultOpen, record, restarts, sessionHistory>>

-----------------------------------------------------------------------------
\* persistUnlockSession and refreshSessionExpiry

\* mutant: a change of the auto-lock setting writes a session in any case
RefreshStartsAnyway(h) ==
  /\ Begins(h, "refresh", "ttl")
  /\ UNCHANGED <<onboarded, flag, vaultOpen, record, attempts, restarts, tries, raced>>
\* The auto-lock setting has changed.
RefreshStarts(h) ==
  /\ flag /\ Begins(h, "refresh", "ttl")
  /\ UNCHANGED <<onboarded, flag, vaultOpen, record, attempts, restarts, tries, raced>>

ReadTtl(h) ==
  /\ Stands(h, "ttl") /\ Moves(h, "put")
  /\ UNCHANGED <<onboarded, flag, vaultOpen, record, attempts, restarts, sessionHistory>>

\* The write takes effect, or fails: then an unlock clears the session.
PutRecord(h) ==
  /\ Stands(h, "put")
  /\ \/ Moves(h, "flag") /\ record' = "valid" /\ UNCHANGED flag
     \/ handler[h].op = "unlock" /\ Moves(h, "remove") /\ flag' = FALSE /\ UNCHANGED record
     \/ handler[h].op = "refresh" /\ Ends(h) /\ UNCHANGED <<flag, record>>
  /\ UNCHANGED <<onboarded, vaultOpen, attempts, restarts, sessionHistory>>

RaiseFlag(h) ==
  /\ Stands(h, "flag") /\ flag' = TRUE /\ Ends(h)
  /\ UNCHANGED <<onboarded, vaultOpen, record, attempts, restarts, sessionHistory>>

-----------------------------------------------------------------------------
\* LOCK_WALLET, restoreUnlockSessionFromStorage

LockStarts(h) ==
  /\ Begins(h, "lock", "remove")
  /\ flag' = FALSE /\ vaultOpen' = FALSE
  /\ UNCHANGED <<onboarded, record, attempts, restarts, tries, raced>>

RemoveRecord(h) ==
  /\ Stands(h, "remove") /\ record' = "none" /\ Ends(h)
  /\ sealed' = IF sealed = "locking" THEN "sealed" ELSE sealed
  /\ UNCHANGED <<onboarded, flag, vaultOpen, attempts, restarts, tries, raced>>

\* At boot, and for GET_WALLET_STATE while the flag is down.
RestoreStarts(h) ==
  /\ ~flag /\ Begins(h, "restore", "read")
  /\ UNCHANGED <<onboarded, flag, vaultOpen, record, attempts, restarts, tries, raced>>

ReadRecord(h) ==
  /\ Stands(h, "read")
  /\ handler' = [handler EXCEPT ![h].at = "restore", ![h].seen = record]
  /\ UNCHANGED <<onboarded, flag, vaultOpen, record, attempts, restarts, sessionHistory>>

\* The record as it was read: one that has expired is removed.
Restored(h) ==
  /\ Stands(h, "restore")
  /\ flag' = (handler[h].seen = "valid")
  /\ record' = IF handler[h].seen = "expired" THEN "none" ELSE record
Restore(h) ==
  /\ handler[h].op = "restore" /\ Restored(h) /\ Ends(h)
  /\ UNCHANGED <<onboarded, vaultOpen, attempts, restarts, sessionHistory>>

-----------------------------------------------------------------------------
\* The worker ends, with onSuspend or without, and boots again for the next event.
WorkerEnds ==
  /\ restarts < MaxRestarts /\ restarts' = restarts + 1
  /\ flag' = FALSE /\ vaultOpen' = FALSE
  /\ record' \in {record, "none"}
  /\ handler' = [h \in Handlers |-> Resting]
  /\ UNCHANGED <<onboarded, attempts, tries, raced>>
  /\ sealed' = IF sealed = "locking" THEN "no" ELSE sealed

TimePasses ==
  /\ \/ record = "valid" /\ record' = "expired" /\ UNCHANGED <<attempts, tries>>
     \/ attempts.lockout = "running" /\ attempts' = [attempts EXCEPT !.lockout = "over"]
        /\ tries' = 0 /\ UNCHANGED record
  /\ UNCHANGED <<onboarded, flag, vaultOpen, handler, restarts, raced, sealed>>

HandlerStarts(h) == UnlockStarts(h) \/ RefreshStarts(h) \/ LockStarts(h) \/ RestoreStarts(h)
HandlerStep(h) ==
  \/ LoadAttempts(h) \/ JudgePassword(h) \/ CountFailure(h) \/ ClearAttempts(h)
  \/ ReadTtl(h) \/ PutRecord(h) \/ RaiseFlag(h)
  \/ RemoveRecord(h) \/ ReadRecord(h) \/ Restore(h)

SessionNext ==
  (\E h \in Handlers : HandlerStarts(h) \/ HandlerStep(h)) \/ WorkerEnds \/ TimePasses

SessionSpec == SessionInit /\ [][SessionNext]_sessionVars
-----------------------------------------------------------------------------
(***************************************************************************)
(* Properties.                                                             *)
(***************************************************************************)

\* A lock that nothing else was in flight with holds until the next unlock: no change
\* of a setting, request, restart or restore brings the session back
\* (executeLockWallet).
LockHolds ==
  sealed = "sealed" => ~flag /\ ~vaultOpen /\ record = "none"

\* Unlocks that come one at a time meet a lockout after MaxFailures wrong passwords;
\* a worker that dies before it has counted one lets one more through.
LockoutAfterFailures == ~raced => tries <= MaxFailures + restarts

\* A lock ends the session, and failed unlocks slow down the next.
SessionSafe == LockHolds /\ LockoutAfterFailures
=============================================================================
