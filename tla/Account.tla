-------------------------------- MODULE Account --------------------------------
(***************************************************************************)
(* The smart account contract (contracts/account).                         *)
(*                                                                         *)
(* An action is one successful contract call: Soroban runs a call without  *)
(* interruption, forbids re-entry and undoes every write of a call that    *)
(* fails, so an error path is a call that does not happen.  Calls come in  *)
(* any order from any sender; a session key's signed messages are public   *)
(* once made, and can be submitted late, twice or never.                   *)
(***************************************************************************)
EXTENDS Integers, FiniteSets

CONSTANTS
  Addresses,     \* addresses that may own the account
  Keys,          \* session public keys
  Contracts,     \* contracts the account may call
  Args,          \* argument lists, as the set of integers among them
  Modules,       \* validation modules
  Rejects,       \* <<module, contract>>: the module refuses calls to it
  Policies,      \* [perCall, limit, window] offered to add_session_key
  PermissionSets,\* permission lists offered to add_session_key
  Expiries,      \* expires_at values offered to add_session_key
  MillisFrom,    \* MIN_MILLISECONDS_TIMESTAMP
  MillisPerSec,  \* 1000
  MaxNonce,      \* bound on executions
  MaxVersion,    \* bound on upgrades
  MaxTime,       \* bound on the ledger timestamp
  MaxSigned      \* bound on signed messages

Unlimited == -1
None == "none"

PERMISSION_SEND_PAYMENT == 0
PERMISSION_EXECUTE == 1
PERMISSION_INVOKE_CONTRACT == 2
Permissions == {PERMISSION_SEND_PAYMENT, PERMISSION_EXECUTE, PERMISSION_INVOKE_CONTRACT}

ASSUME AccountAssumption ==
  /\ IsFiniteSet(Addresses) /\ None \notin Addresses
  /\ \A a \in Args : a \subseteq Int /\ IsFiniteSet(a)
  /\ Policies \subseteq [perCall : Int, limit : Int, window : Nat]
  /\ PermissionSets \subseteq SUBSET Permissions
  /\ Expiries \subseteq Nat
  /\ MillisFrom \in Nat /\ MillisPerSec \in Nat \ {0}
  /\ MaxNonce \in Nat /\ MaxVersion \in Nat \ {0} /\ MaxTime \in Nat /\ MaxSigned \in Nat

VARIABLES
  owner,       \* DataKey::Owner, or None before initialize
  nonce,       \* DataKey::Nonce
  version,     \* DataKey::Version
  owners,      \* DataKey::Owners, empty before initialize_multi_owner
  threshold,   \* DataKey::Threshold
  modules,     \* DataKey::ValidationModules
  registered,  \* keys with a DataKey::SessionKey entry
  session,     \* that entry
  now,         \* ledger timestamp
  signed,      \* messages session-key holders have signed
  executed,    \* history: signed messages that were executed
  replayed,    \* history: a message was executed twice
  approvers,   \* history: who approved the last execution, a key's holder aside
  paid         \* history: what each key has spent up to each time

ownerVars == <<owner, version, owners, threshold, modules>>
keyVars == <<registered, session, paid>>
execVars == <<nonce, executed, replayed, approvers>>
vars == <<ownerVars, keyVars, execVars, now, signed>>

Times == 0..MaxTime

Session == [expires : Nat, permissions : SUBSET Permissions,
            anyContract : BOOLEAN, allowed : SUBSET Contracts,
            perCall : Int, limit : Int, start : Times, window : Nat, spent : Nat]

NoSession == [expires |-> 0, permissions |-> {}, anyContract |-> FALSE, allowed |-> {},
              perCall |-> Unlimited, limit |-> Unlimited, start |-> 0, window |-> 0,
              spent |-> 0]

Message == [key : Keys, to : Contracts, args : Args, nonce : Nat]

TypeOK ==
  /\ owner \in Addresses \union {None}
  /\ nonce \in 0..MaxNonce
  /\ version \in 0..MaxVersion
  /\ owners \subseteq Addresses
  /\ threshold \in Nat
  /\ modules \subseteq Modules
  /\ registered \subseteq Keys
  /\ session \in [Keys -> Session]
  /\ now \in Times
  /\ signed \subseteq Message /\ executed \subseteq signed
  /\ replayed \in BOOLEAN
  /\ approvers \subseteq Addresses
  /\ paid \in [Keys -> [Times -> Nat]]

NothingPaid == [t \in Times |-> 0]

Init ==
  /\ owner = None /\ nonce = 0 /\ version = 0
  /\ owners = {} /\ threshold = 0 /\ modules = {}
  /\ registered = {} /\ session = [k \in Keys |-> NoSession]
  /\ now = 0 /\ signed = {}
  /\ executed = {} /\ replayed = FALSE /\ approvers = {}
  /\ paid = [k \in Keys |-> NothingPaid]

Initialized == owner # None

-----------------------------------------------------------------------------
\* Set-up, upgrades and modules: the owner's calls.

Initialize(a) ==
  /\ ~Initialized
  /\ owner' = a /\ version' = 1 /\ nonce' = 0
  /\ UNCHANGED <<owners, threshold, modules, keyVars, executed, replayed, approvers,
                 now, signed>>

\* upgrade; the new code is taken to be this code.
Upgrade ==
  /\ Initialized /\ version < MaxVersion
  /\ version' = version + 1
  /\ UNCHANGED <<owner, owners, threshold, modules, keyVars, execVars, now, signed>>

Migrate(v) ==
  /\ Initialized /\ v > version
  /\ version' = v
  /\ UNCHANGED <<owner, owners, threshold, modules, keyVars, execVars, now, signed>>

SetModules(ms) ==
  /\ Initialized
  /\ modules' = ms
  /\ UNCHANGED <<owner, version, owners, threshold, keyVars, execVars, now, signed>>

RegisterModule(m) == SetModules(modules \union {m})
UnregisterModule(m) == SetModules(modules \ {m})

-----------------------------------------------------------------------------
\* Several owners.

\* require_multi_owner_quorum: the signers are owners, repetitions not counted.
Quorum(signers) ==
  /\ owners # {}
  /\ signers \subseteq owners
  /\ Cardinality(signers) >= threshold

SetOwners(os, n) ==
  /\ owners' = os /\ threshold' = n
  /\ UNCHANGED <<owner, version, modules, keyVars, execVars, now, signed>>

InitializeMultiOwner(os, n) ==
  /\ owners = {} /\ Initialized
  /\ os # {} /\ n \in 1..Cardinality(os)
  /\ SetOwners(os, n)

AddOwner(signers, a) ==
  /\ Quorum(signers)
  /\ a \notin owners
  /\ SetOwners(owners \union {a}, threshold)

ThresholdKept(os) == threshold \* mutant: no adjustment
\* remove_owner lowers a threshold that exceeds the new number of owners.
ThresholdFor(os) == IF threshold > Cardinality(os) THEN Cardinality(os) ELSE threshold

RemoveOwner(signers, a) ==
  /\ Quorum(signers)
  /\ a \in owners /\ Cardinality(owners) > 1
  /\ SetOwners(owners \ {a}, ThresholdFor(owners \ {a}))

SetThreshold(signers, n) ==
  /\ Quorum(signers)
  /\ n \in 1..Cardinality(owners)
  /\ SetOwners(owners, n)

-----------------------------------------------------------------------------
\* Session keys.

\* validate_spend_policy
ValidSpendPolicy(p) ==
  /\ p.perCall = Unlimited \/ p.perCall > 0
  /\ p.limit # Unlimited => p.limit > 0 /\ p.window > 0
  /\ p.window > 0 => p.limit # Unlimited

\* normalize_expiry_timestamp: milliseconds become seconds.
NormalizeExpiry(e) == IF e >= MillisFrom THEN e \div MillisPerSec ELSE e

\* validate_expiry, in seconds.
ValidExpiry(e) == e # 0 /\ e > now

\* reject_zero_allowed_contracts: the Contracts are non-zero and few.
AddSessionKey(k, e, p, perms, any, allowed) ==
  LET expires == NormalizeExpiry(e) IN
  /\ Initialized
  /\ e # 0 /\ ValidExpiry(expires)
  /\ ValidSpendPolicy(p)
  /\ k \notin registered
  /\ registered' = registered \union {k}
  /\ session' = [session EXCEPT ![k] =
       [expires |-> expires, permissions |-> perms, anyContract |-> any,
        allowed |-> allowed, perCall |-> p.perCall, limit |-> p.limit,
        start |-> now, window |-> p.window, spent |-> 0]]
  /\ paid' = [paid EXCEPT ![k] = NothingPaid]
  /\ UNCHANGED <<ownerVars, execVars, now, signed>>

RevokeSessionKey(k) ==
  /\ Initialized
  /\ k \in registered
  /\ registered' = registered \ {k}
  /\ session' = [session EXCEPT ![k] = NoSession]
  /\ UNCHANGED <<ownerVars, execVars, paid, now, signed>>

SetAllowedContracts(k, any, allowed) ==
  /\ Initialized
  /\ k \in registered
  /\ session' = [session EXCEPT ![k].anyContract = any, ![k].allowed = allowed]
  /\ UNCHANGED <<ownerVars, execVars, registered, paid, now, signed>>

RefreshSessionKeyTtl(k) ==
  /\ Initialized
  /\ k \in registered
  /\ session[k].expires > now
  /\ session' = [session EXCEPT ![k].expires = NormalizeExpiry(@)]
  /\ UNCHANGED <<ownerVars, execVars, registered, paid, now, signed>>

-----------------------------------------------------------------------------
\* execute.

\* The session key's holder signs a call for the nonce it read, or the next.
Sign(m) ==
  /\ Cardinality(signed) < MaxSigned
  /\ m.nonce \in {nonce, nonce + 1}
  /\ signed' = signed \union {m}
  /\ UNCHANGED <<ownerVars, keyVars, execVars, now>>

SpendOfAny(args) == \* mutant: non-positive integers are spends too
  CHOOSE x \in args : \A y \in args : y <= x
\* extract_spend_amount: the largest positive integer among the arguments.
SpendOf(args) ==
  IF \E x \in args : x > 0
  THEN CHOOSE x \in args : x > 0 /\ \A y \in args : y <= x
  ELSE 0

WindowOver(s) == now > s.start + s.window

SpentNow(s) == IF WindowOver(s) THEN 0 ELSE s.spent

\* check_spend_limits
WithinSpendLimits(s, amount) ==
  amount > 0 =>
    /\ s.perCall # Unlimited => amount <= s.perCall
    /\ s.limit # Unlimited => SpentNow(s) + amount <= s.limit

AfterSpendSameStart(s, amount) == \* mutant: the window's start is not moved
  IF amount = 0 \/ s.limit = Unlimited THEN s
  ELSE [s EXCEPT !.spent = SpentNow(s) + amount]
AfterSpendNoReset(s, amount) == \* mutant: the sum is not reset
  IF amount = 0 \/ s.limit = Unlimited THEN s
  ELSE [s EXCEPT !.spent = @ + amount, !.start = IF WindowOver(s) THEN now ELSE @]
\* apply_spend_usage
AfterSpend(s, amount) ==
  IF amount = 0 \/ s.limit = Unlimited THEN s
  ELSE [s EXCEPT !.spent = SpentNow(s) + amount,
                 !.start = IF WindowOver(s) THEN now ELSE @]

NextNonceKept == nonce \* mutant: the nonce is not advanced
NextNonce == nonce + 1

\* The nonce advances, every module approves and the target call returns.
Invoke(to) ==
  /\ nonce < MaxNonce
  /\ nonce' = NextNonce
  /\ \A m \in modules : <<m, to>> \notin Rejects

ExecuteAsOwner(to) ==
  /\ Initialized
  /\ Invoke(to)
  /\ approvers' = {owner}
  /\ UNCHANGED <<ownerVars, keyVars, executed, replayed, now, signed>>

ExecuteByQuorum(signers, to) ==
  /\ Quorum(signers)
  /\ Invoke(to)
  /\ approvers' = signers
  /\ UNCHANGED <<ownerVars, keyVars, executed, replayed, now, signed>>

\* canonical_execute_signing_payload: the payload, and so the signature, is bound to the call and to the nonce.
\* session_key_is_expired: at and after its expiry.
Expired(s) == now >= s.expires

\* allowlist_permits_address
AllowlistPermits(s, to) == s.anyContract \/ to \in s.allowed

SignatureCoversCallOnly(m) == TRUE \* mutant: the payload leaves out the nonce
SignatureCovers(m) == m.nonce = nonce

ExecuteBySession(m) ==
  LET s == session[m.key]
      amount == SpendOf(m.args) IN
  /\ m \in signed /\ SignatureCovers(m)
  /\ m.key \in registered
  /\ ~Expired(s)
  /\ PERMISSION_EXECUTE \in s.permissions
  /\ AllowlistPermits(s, m.to)
  /\ WithinSpendLimits(s, amount)
  /\ Invoke(m.to)
  /\ session' = [session EXCEPT ![m.key] = AfterSpend(s, amount)]
  /\ executed' = executed \union {m}
  /\ replayed' = (replayed \/ m \in executed)
  /\ approvers' = {}
  /\ paid' = [paid EXCEPT ![m.key][now] = @ + amount]
  /\ UNCHANGED <<ownerVars, registered, now, signed>>

\* The ledger closes with a later timestamp.
Tick ==
  /\ now < MaxTime
  /\ now' = now + 1
  /\ paid' = [k \in Keys |-> [paid[k] EXCEPT ![now + 1] = paid[k][now]]]
  /\ UNCHANGED <<ownerVars, registered, session, execVars, signed>>

OwnerCall ==
  \/ \E a \in Addresses : Initialize(a)
  \/ Upgrade \/ \E v \in 0..MaxVersion : Migrate(v)
  \/ \E m \in Modules : RegisterModule(m) \/ UnregisterModule(m)
  \/ \E os \in SUBSET Addresses, n \in 0..Cardinality(Addresses) : InitializeMultiOwner(os, n)

QuorumCall ==
  \E signers \in SUBSET Addresses :
    \/ \E a \in Addresses : AddOwner(signers, a) \/ RemoveOwner(signers, a)
    \/ \E n \in 0..Cardinality(Addresses) : SetThreshold(signers, n)

KeyCall ==
  \E k \in Keys :
    \/ \E e \in Expiries, p \in Policies, perms \in PermissionSets,
          any \in BOOLEAN, allowed \in SUBSET Contracts :
         AddSessionKey(k, e, p, perms, any, allowed)
    \/ RevokeSessionKey(k) \/ RefreshSessionKeyTtl(k)
    \/ \E any \in BOOLEAN, allowed \in SUBSET Contracts : SetAllowedContracts(k, any, allowed)

Execute ==
  \/ \E to \in Contracts : \/ ExecuteAsOwner(to)
                           \/ \E signers \in SUBSET Addresses : ExecuteByQuorum(signers, to)
  \/ \E m \in signed : ExecuteBySession(m)

Next ==
  \/ OwnerCall \/ QuorumCall \/ KeyCall \/ Execute \/ Tick
  \/ \E k \in Keys, to \in Contracts, args \in Args, n \in 0..(MaxNonce - 1) :
       Sign([key |-> k, to |-> to, args |-> args, nonce |-> n])

Spec == Init /\ [][Next]_vars

-----------------------------------------------------------------------------
(***************************************************************************)
(* Properties.                                                             *)
(***************************************************************************)

\* A signed message is executed at most once, however often it is submitted
\* and whatever becomes of its key (execute's nonce and bound payload).
NoReplay == ~replayed

PaidFrom(k, t) == paid[k][now] - (IF t = 0 THEN 0 ELSE paid[k][t - 1])

\* The sum a session entry carries is what its key has spent since its window
\* began, and never exceeds the cumulative limit (check_spend_limits against
\* apply_spend_usage).
WindowSpend ==
  \A k \in registered :
    session[k].limit # Unlimited =>
      /\ session[k].spent <= session[k].limit
      /\ session[k].spent = PaidFrom(k, session[k].start)

\* A key spends at most twice its cumulative limit in any stretch of time as
\* long as its window (the reset of the window in apply_spend_usage).
SlidingSpend ==
  \A k \in registered : \A t \in 0..now :
    session[k].limit # Unlimited /\ now <= t + session[k].window
      => PaidFrom(k, t) <= 2 * session[k].limit

\* With several owners the threshold can be met, and not by nobody: a quorum
\* exists (initialize_multi_owner, remove_owner, set_threshold).
ThresholdMeetable == owners # {} => threshold \in 1..Cardinality(owners)

\* Once several owners share the account, a call is executed with a quorum of
\* them or by a session key ("This migrates from single-owner to multi-owner
\* mode", initialize_multi_owner).
MultiOwnerNeedsQuorum ==
  [][nonce' # nonce /\ owners # {} /\ executed' = executed =>
       Cardinality(approvers' \intersect owners) >= threshold]_vars
=============================================================================
