--------------------------- MODULE AccountDeployment ---------------------------
(***************************************************************************)
(* The deployment of a smart account during onboarding (deploy-account.ts, *)
(* useOnboarding.ts, OnboardingFlow.tsx), the vault it saves the phrase in *)
(* (secure-storage-manager.ts) and the ledger it happens on.               *)
(*                                                                         *)
(* Two screens may onboard one recovery phrase, and either can be closed   *)
(* at any await and opened again.  An attempt polls a transaction for 45   *)
(* seconds, and the network may include it for 60: what an attempt has     *)
(* given up can still take effect under the next one.                      *)
(***************************************************************************)
EXTENDS Integers, Sequences

CONSTANTS
  Screens,        \* popups and tabs that show the onboarding
  Passwords,      \* what may be entered with the phrase
  MaxAttempts,    \* bound on the attempts of all screens
  MaxFaults       \* bound on calls that fail, and on transactions that fail by chance

ASSUME DeployAssumption == MaxAttempts \in Nat /\ MaxFaults \in Nat

VARIABLES
  chain,      \* the owner's account and contract: funded, wasm, instance, owned, seq
  sent,       \* the transactions the network took, in the order it took them
  page, progress, loading, phrase,   \* of each screen
  at, op, seq, hash,               \* of the attempt each screen awaits; hash 0 is of no transaction taken
  vault,      \* in storage: the master salt, and the keys its check and our record are under
  salts,      \* master salts drawn
  derived,    \* the key each screen has derived
  account,    \* whether the account store has the contract
  fresh,      \* history: whether the vault was empty at the start
  mishap,     \* history: two first runs of the vault overlapped ("raced"), a screen closed
              \* with its record unwritten ("cut"), a password was wrong ("refused")
  met,        \* history: of each attempt, the chain it began with
  tried, faults

networkVars == <<chain, sent>>
screenVars == <<page, progress, loading, phrase>>
attemptVars == <<at, op, seq, hash>>
vaultVars == <<vault, salts, derived>>
profileVars == <<vaultVars, account, fresh, mishap>>
deployVars == <<networkVars, screenVars, attemptVars, profileVars, met, tried, faults>>

Ops == <<"upload", "create", "initialize">>

\* The steps of an attempt that has its contract.
Saving == {"save", "check", "firstCheck", "firstSalt", "record", "show"}
FirstRun == {"firstCheck", "firstSalt"}

\* A key is derived from a master salt (0 if there is none) and a password.
Keys == [salt : Nat, word : Passwords \union {"none"}]
NoKey == [salt |-> 0, word |-> "none"]

\* The types, with sequence numbers that transactions the network took account for.
DeployTypeOK ==
  /\ chain \in [funded : BOOLEAN, wasm : BOOLEAN, instance : BOOLEAN, owned : BOOLEAN, seq : 0..Len(sent)]
  /\ \A h \in DOMAIN sent :
       sent[h] \in [op : 1..3, seq : 1..Len(sent), result : {"pending", "SUCCESS", "FAILED", "gone"}]
  /\ page \in [Screens -> {"setup", "deploy", "success"}]
  /\ progress \in [Screens -> {"idle", "funding", "success", "error"}]
  /\ loading \in [Screens -> BOOLEAN]
  /\ phrase \in [Screens -> {"none", "short", "long"}]
  /\ at \in [Screens -> {"none", "wallet", "owner", "fund", "wasm", "account", "prepare", "send", "poll"} \union Saving]
  /\ op \in [Screens -> 1..3] /\ seq \in [Screens -> 0..(Len(sent) + 1)] /\ hash \in [Screens -> 0..Len(sent)]
  /\ vault \in [salt : Nat, check : Keys, record : Keys] /\ salts \in Nat /\ derived \in [Screens -> Keys]
  /\ account \in BOOLEAN /\ fresh \in BOOLEAN /\ mishap \subseteq {"raced", "cut", "refused"}
  /\ met \in [Screens -> {"nothing", "instance", "owner"}]
  /\ tried \in 0..MaxAttempts /\ faults \in 0..MaxFaults

DeployInit ==
  /\ \E installed \in BOOLEAN :
       chain = [funded |-> FALSE, wasm |-> installed, instance |-> FALSE, owned |-> FALSE, seq |-> 0]
  /\ sent = <<>>
  /\ page = [s \in Screens |-> "setup"] /\ progress = [s \in Screens |-> "idle"]
  /\ loading = [s \in Screens |-> FALSE] /\ phrase = [s \in Screens |-> "none"]
  /\ at = [s \in Screens |-> "none"] /\ op = [s \in Screens |-> 1]
  /\ seq = [s \in Screens |-> 0] /\ hash = [s \in Screens |-> 0]
  /\ \/ fresh = TRUE /\ vault = [salt |-> 0, check |-> NoKey, record |-> NoKey]
     \/ /\ fresh = FALSE   \* another wallet has the vault
        /\ \E w \in Passwords :
             vault = [salt |-> 1, check |-> [salt |-> 1, word |-> w], record |-> NoKey]
  /\ salts = 1 /\ derived = [s \in Screens |-> NoKey] /\ mishap = {} /\ account = FALSE
  /\ met = [s \in Screens |-> "nothing"] /\ tried = 0 /\ faults = 0

-----------------------------------------------------------------------------
\* The screens

Open(s) == page[s] = "setup"

\* Creation (a phrase of 12 words) or import (12 or 24 pass the screen's check):
\* setMnemonic, setPassword, goToStep("deploy").  The status of an earlier attempt stays.
EnterPhrase(s) ==
  /\ Open(s) /\ at[s] = "none"
  /\ \E p \in {"short", "long"} : phrase' = [phrase EXCEPT ![s] = p]
  /\ page' = [page EXCEPT ![s] = "deploy"]
  /\ UNCHANGED <<networkVars, progress, loading, attemptVars, profileVars, met, tried, faults>>

Found == IF chain.owned THEN "owner" ELSE IF chain.instance THEN "instance" ELSE "nothing"

\* The effect that starts a deployment, up to its first await.
Start(s) ==
  /\ page[s] = "deploy" /\ progress[s] = "idle" /\ ~loading[s] /\ tried < MaxAttempts
  /\ progress' = [progress EXCEPT ![s] = "funding"]
  /\ loading' = [loading EXCEPT ![s] = TRUE]
  /\ at' = [at EXCEPT ![s] = "wallet"]
  /\ met' = [met EXCEPT ![s] = Found]
  /\ tried' = tried + 1
  /\ UNCHANGED <<networkVars, page, phrase, op, seq, hash, profileVars, faults>>

\* "Try Again" and "Go Back", offered once an attempt has failed.
TryAgain(s) ==
  /\ page[s] = "deploy" /\ progress[s] = "error" /\ tried < MaxAttempts
  /\ progress' = [progress EXCEPT ![s] = "idle"]
  /\ UNCHANGED <<networkVars, page, loading, phrase, attemptVars, profileVars, met, tried, faults>>

GoBack(s) ==
  /\ page[s] = "deploy" /\ progress[s] = "error"
  /\ page' = [page EXCEPT ![s] = "setup"] /\ phrase' = [phrase EXCEPT ![s] = "none"]
  /\ UNCHANGED <<networkVars, progress, loading, attemptVars, profileVars, met, tried, faults>>

\* The popup closes: its state is lost, what it has sent or stored is not.
Close(s) ==
  /\ page[s] = "deploy"
  /\ page' = [page EXCEPT ![s] = "setup"] /\ progress' = [progress EXCEPT ![s] = "idle"]
  /\ loading' = [loading EXCEPT ![s] = FALSE] /\ phrase' = [phrase EXCEPT ![s] = "none"]
  /\ at' = [at EXCEPT ![s] = "none"] /\ op' = [op EXCEPT ![s] = 1]
  /\ seq' = [seq EXCEPT ![s] = 0] /\ hash' = [hash EXCEPT ![s] = 0]
  /\ derived' = [derived EXCEPT ![s] = NoKey]
  /\ mishap' = mishap \union (IF at[s] = "record" THEN {"cut"} ELSE {})
  /\ UNCHANGED <<networkVars, vault, salts, account, fresh, met, tried, faults>>

-----------------------------------------------------------------------------
\* An attempt, one action per await

Goes(s, to) == at' = [at EXCEPT ![s] = to]

\* mutant: the catch of the hook leaves isLoading set.
CaughtLoading(s) == UNCHANGED loading /\ progress' = [progress EXCEPT ![s] = "funding"]

Caught(s) ==
  /\ loading' = [loading EXCEPT ![s] = FALSE]
  /\ progress' = [progress EXCEPT ![s] = "error"]

\* What deployAccount throws: the hook keeps the phrase, the flow shows the error.
Throws(s) ==
  /\ Goes(s, "none") /\ Caught(s)
  /\ op' = [op EXCEPT ![s] = 1] /\ seq' = [seq EXCEPT ![s] = 0] /\ hash' = [hash EXCEPT ![s] = 0]
  /\ UNCHANGED <<page, phrase>>

Failing(s) == faults < MaxFaults /\ faults' = faults + 1 /\ Throws(s)
Working(s) == UNCHANGED <<screenVars, faults>>

\* importWallet, outside of the hook's try: it takes phrases of 12 words only, and
\* what it throws leaves the screen as it is.
PrepareWallet(s) ==
  /\ at[s] = "wallet"
  /\ Goes(s, IF phrase[s] = "short" THEN "owner" ELSE "none")
  /\ UNCHANGED <<networkVars, screenVars, op, seq, hash, profileVars, met, tried, faults>>

\* getDeployedContractId: an owner is the answer; any failure is taken for none.
FindOwner(s) ==
  /\ at[s] = "owner"
  /\ \/ /\ Goes(s, IF chain.owned THEN "save" ELSE "fund") /\ UNCHANGED faults
     \/ /\ chain.owned /\ faults < MaxFaults /\ faults' = faults + 1
        /\ Goes(s, "fund")
  /\ UNCHANGED <<networkVars, screenVars, op, seq, hash, profileVars, met, tried>>

\* fundWithFriendbot, which may refuse an account that has been funded, or lose its answer.
Fund(s) ==
  /\ at[s] = "fund"
  /\ \/ /\ chain' = [chain EXCEPT !.funded = TRUE]
        /\ Goes(s, "wasm") /\ Working(s) /\ UNCHANGED <<op, seq, hash>>
     \/ chain.funded /\ Throws(s) /\ UNCHANGED <<chain, faults>>
     \/ Failing(s) /\ chain' \in {chain, [chain EXCEPT !.funded = TRUE]}
  /\ UNCHANGED <<sent, profileVars, met, tried>>

\* fetchAccountWasm throws; getContractWasmByHash failing means "not installed".
FindWasm(s) ==
  /\ at[s] = "wasm"
  /\ \/ /\ op' = [op EXCEPT ![s] = IF chain.wasm THEN 2 ELSE 1]
        /\ Goes(s, "account") /\ Working(s) /\ UNCHANGED <<seq, hash>>
     \/ /\ chain.wasm /\ op' = [op EXCEPT ![s] = 1] /\ Goes(s, "account")
        /\ faults < MaxFaults /\ faults' = faults + 1
        /\ UNCHANGED <<screenVars, seq, hash>>
     \/ Failing(s)
  /\ UNCHANGED <<networkVars, profileVars, met, tried>>

\* submitAndConfirm: getAccount reads the sequence number of the ledger.
ReadAccount(s) ==
  /\ at[s] = "account"
  /\ \/ /\ seq' = [seq EXCEPT ![s] = chain.seq + 1]
        /\ Goes(s, "prepare") /\ Working(s) /\ UNCHANGED <<op, hash>>
     \/ Failing(s)
  /\ UNCHANGED <<networkVars, profileVars, met, tried>>

\* What the host does with each operation in the present ledger.
Applies(o) ==
  \/ Ops[o] = "upload"
  \/ Ops[o] = "create" /\ chain.wasm /\ ~chain.instance
  \/ Ops[o] = "initialize" /\ chain.instance /\ ~chain.owned

\* prepareTransaction throws when the simulation does not apply.
Prepare(s) ==
  /\ at[s] = "prepare"
  /\ \/ Applies(op[s]) /\ Goes(s, "send") /\ Working(s) /\ UNCHANGED <<op, seq, hash>>
     \/ ~Applies(op[s]) /\ Throws(s) /\ UNCHANGED faults
     \/ Failing(s)
  /\ UNCHANGED <<networkVars, profileVars, met, tried>>

Transaction(s) == [op |-> op[s], seq |-> seq[s], result |-> "pending"]

\* sendTransaction: PENDING, TRY_AGAIN_LATER (nothing was taken), DUPLICATE of what the
\* other screen has sent in the same second, or ERROR for a used sequence number.
Send(s) ==
  /\ at[s] = "send"
  /\ \/ /\ seq[s] > chain.seq /\ sent' = Append(sent, Transaction(s))
        /\ hash' = [hash EXCEPT ![s] = Len(sent) + 1]
        /\ Goes(s, "poll") /\ Working(s) /\ UNCHANGED <<op, seq>>
     \/ /\ \E h \in DOMAIN sent \union {0} :
             /\ h # 0 => sent[h] = Transaction(s)
             /\ hash' = [hash EXCEPT ![s] = h]
        /\ Goes(s, "poll") /\ Working(s) /\ UNCHANGED <<sent, op, seq>>
     \/ seq[s] <= chain.seq /\ Throws(s) /\ UNCHANGED <<sent, faults>>
     \/ /\ Failing(s)
        /\ \/ UNCHANGED sent
           \/ seq[s] > chain.seq /\ sent' = Append(sent, Transaction(s))
  /\ UNCHANGED <<chain, profileVars, met, tried>>

Result(s) == IF hash[s] = 0 THEN "NOT_FOUND" ELSE sent[hash[s]].result

\* mutant: any final status confirms the transaction.
ConfirmedFinal(s) == Result(s) \in {"SUCCESS", "FAILED"}

Confirmed(s) == Result(s) = "SUCCESS"

\* pollTransactionStatus, and the step that follows in deployAccount.  It gives up on
\* a transaction the ledger has not included in time.
Poll(s) ==
  /\ at[s] = "poll"
  /\ \/ /\ Confirmed(s)
        /\ op' = [op EXCEPT ![s] = IF @ = 3 THEN 1 ELSE @ + 1]
        /\ Goes(s, IF op[s] = 3 THEN "save" ELSE "account")
        /\ seq' = [seq EXCEPT ![s] = 0] /\ hash' = [hash EXCEPT ![s] = 0]
        /\ Working(s)
     \/ ~Confirmed(s) /\ Throws(s) /\ UNCHANGED faults
     \/ Failing(s)
  /\ UNCHANGED <<networkVars, profileVars, met, tried>>

\* What the calls of the vault leave alone.
SavingOnly == UNCHANGED <<networkVars, screenVars, op, seq, hash, account, fresh, met, tried>>

\* Whatever the vault throws is caught and changes nothing; a set that fails stores nothing.
Unsaved(s) ==
  /\ faults < MaxFaults /\ faults' = faults + 1
  /\ Goes(s, "show") /\ UNCHANGED <<vaultVars, mishap>>

\* vault.unlock reads the master salt and derives the key of the password, which was
\* chosen with the phrase and is named here, where it is first used.  Without a salt it
\* is the first run, with a salt of its own.
ReadSalt(s) ==
  /\ at[s] = "save" /\ SavingOnly
  /\ \/ /\ vault.salt = 0 /\ Goes(s, "firstCheck") /\ salts' = salts + 1
        /\ \E w \in Passwords : derived' = [derived EXCEPT ![s] = [salt |-> salts + 1, word |-> w]]
        /\ mishap' = mishap \union (IF \E t \in Screens : at[t] \in FirstRun THEN {"raced"} ELSE {})
        /\ UNCHANGED <<vault, faults>>
     \/ /\ vault.salt # 0 /\ Goes(s, "check")
        /\ \E w \in Passwords : derived' = [derived EXCEPT ![s] = [salt |-> vault.salt, word |-> w]]
        /\ UNCHANGED <<vault, salts, mishap, faults>>
     \/ Unsaved(s)

\* The first run stores the verification payload, then the salt.
WriteCheck(s) ==
  /\ at[s] = "firstCheck" /\ SavingOnly
  /\ \/ /\ vault' = [vault EXCEPT !.check = derived[s]] /\ Goes(s, "firstSalt")
        /\ UNCHANGED <<salts, derived, mishap, faults>>
     \/ Unsaved(s)

WriteSalt(s) ==
  /\ at[s] = "firstSalt" /\ SavingOnly
  /\ \/ /\ vault' = [vault EXCEPT !.salt = derived[s].salt] /\ Goes(s, "record")
        /\ UNCHANGED <<salts, derived, mishap, faults>>
     \/ Unsaved(s)

\* Later runs verify the password; after a wrong one nothing is saved, and nobody told.
VerifyPassword(s) ==
  /\ at[s] = "check" /\ SavingOnly
  /\ \/ /\ vault.check = derived[s] /\ Goes(s, "record")
        /\ UNCHANGED <<vaultVars, mishap, faults>>
     \/ /\ vault.check # derived[s] /\ Goes(s, "show") /\ mishap' = mishap \union {"refused"}
        /\ UNCHANGED <<vaultVars, faults>>
     \/ Unsaved(s)

\* saveAccount: the phrase, under the key of this screen.
SaveAccount(s) ==
  /\ at[s] = "record" /\ SavingOnly
  /\ \/ /\ vault' = [vault EXCEPT !.record = derived[s]] /\ Goes(s, "show")
        /\ UNCHANGED <<salts, derived, mishap, faults>>
     \/ Unsaved(s)

\* setAccountInStore; the phrase is dropped and the success shown.
ShowSuccess(s) ==
  /\ at[s] = "show" /\ Goes(s, "none")
  /\ account' = TRUE
  /\ phrase' = [phrase EXCEPT ![s] = "none"] /\ loading' = [loading EXCEPT ![s] = FALSE]
  /\ page' = [page EXCEPT ![s] = "success"] /\ progress' = [progress EXCEPT ![s] = "success"]
  /\ UNCHANGED <<networkVars, op, seq, hash, vaultVars, fresh, mishap, met, tried, faults>>

SaveStep(s) ==
  \/ ReadSalt(s) \/ WriteCheck(s) \/ WriteSalt(s) \/ VerifyPassword(s)
  \/ SaveAccount(s) \/ ShowSuccess(s)

Attempt(s) ==
  \/ PrepareWallet(s) \/ FindOwner(s) \/ Fund(s) \/ FindWasm(s)
  \/ ReadAccount(s) \/ Prepare(s) \/ Send(s) \/ Poll(s) \/ SaveStep(s)

-----------------------------------------------------------------------------
\* The network

Settled(h, result) == sent' = [sent EXCEPT ![h].result = result]

\* A transaction with the next sequence number is included and applied, or fails
\* although its simulation did not.
IncludeDeploy(h) ==
  /\ sent[h].result = "pending" /\ sent[h].seq = chain.seq + 1
  /\ \/ /\ Applies(sent[h].op) /\ Settled(h, "SUCCESS") /\ UNCHANGED faults
        /\ chain' = [chain EXCEPT !.seq = @ + 1,
                       !.wasm = @ \/ Ops[sent[h].op] = "upload",
                       !.instance = @ \/ Ops[sent[h].op] = "create",
                       !.owned = @ \/ Ops[sent[h].op] = "initialize"]
     \/ /\ Applies(sent[h].op) => faults < MaxFaults
        /\ faults' = IF Applies(sent[h].op) THEN faults + 1 ELSE faults
        /\ Settled(h, "FAILED") /\ chain' = [chain EXCEPT !.seq = @ + 1]
  /\ UNCHANGED <<screenVars, attemptVars, profileVars, met, tried>>

\* Its time bounds pass, or another took its sequence number.
Expire(h) ==
  /\ sent[h].result = "pending" /\ Settled(h, "gone")
  /\ UNCHANGED <<chain, screenVars, attemptVars, profileVars, met, tried, faults>>

DeployNext ==
  \/ \E s \in Screens :
       EnterPhrase(s) \/ Start(s) \/ TryAgain(s) \/ GoBack(s) \/ Close(s) \/ Attempt(s)
  \/ \E h \in DOMAIN sent : IncludeDeploy(h) \/ Expire(h)

\* Promises settle: every call has a limit of its own, the polling one of 45 seconds.
DeployFairness == \A s \in Screens : WF_deployVars(Attempt(s))

DeploySpec == DeployInit /\ [][DeployNext]_deployVars /\ DeployFairness

-----------------------------------------------------------------------------
(* The owner of the vault's password reads the phrase: it is stored under the key  *)
(* of the salt and the check that are stored with it.                          *)
PhraseReadable ==
  vault.record # NoKey /\ vault.record = vault.check /\ vault.check.salt = vault.salt

(* A wallet that is shown as ready, or that the account store has a contract   *)
(* for, has its contract on the ledger with its owner, however many attempts   *)
(* it took and whichever of their transactions was included late.  Its phrase  *)
(* is in the vault, or about to be written there, however often the onboarding *)
(* was closed and opened again and whichever passwords were entered, provided  *)
(* that no call failed, no other wallet had the vault, no two screens ran its  *)
(* first unlock at once, and no password was refused after a screen was closed *)
(* between the unlock and saveAccount (deployAccount of useOnboarding.ts).     *)
DeploymentTrue ==
  /\ (account \/ \E s \in Screens : page[s] = "success") => chain.instance /\ chain.owned
  /\ /\ account /\ fresh /\ faults = 0
     /\ "raced" \notin mishap /\ ~({"cut", "refused"} \subseteq mishap)
     => PhraseReadable \/ \E s \in Screens : at[s] = "record"

(* An attempt for a phrase of 12 words comes to an end, with the wallet or with  *)
(* an error that can be retried, unless its screen is closed before            *)
(* (OnboardingFlow.handleDeploy).  One for 24 words shows its progress for ever. *)
DeploymentEnds ==
  \A s \in Screens : (loading[s] /\ phrase[s] = "short") ~> ~loading[s]

(* "every step re-checks on-chain state first and skips what already exists"   *)
(* (deploy-account.ts, head): an attempt that begins with an instance on the   *)
(* ledger does not try to create it.                                           *)
RetrySkipsInstance ==
  \A s \in Screens : at[s] = "prepare" /\ Ops[op[s]] = "create" => met[s] = "nothing"
=============================================================================
