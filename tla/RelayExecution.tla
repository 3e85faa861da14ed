--------------------------- MODULE RelayExecution ---------------------------
(***************************************************************************)
(* POST /relay/execute on several relayer processes that share Postgres:   *)
(* the idempotency middleware, RelayService.executeRelay, the nonce table  *)
(* and the submission to the network.                                      *)
(*                                                                         *)
(* A call is a signed request with its nonce, its idempotency key and the  *)
(* transaction it carries; a client may send it again at any time, to any  *)
(* process, while earlier attempts are still running.  Every await is a    *)
(* step.  All calls are of one session key.                                *)
(***************************************************************************)
EXTENDS Integers, FiniteSets, Sequences

CONSTANTS
  Calls,        \* signed requests
  Nonce,        \* nonce of each call
  Key,          \* idempotency key of each call, or NoKey without the header
  Keys,         \* idempotency keys
  NoKey,
  Hosts,        \* relayer processes
  TTL,          \* ttlMs of PgIdempotencyStore
  MaxAttempts,  \* bound on attempts
  MaxTime,      \* bound on the clock
  MaxCrashes,   \* bound on processes that die
  MaxDbErrors   \* bound on failing queries

ASSUME RelayAssumption ==
  /\ Nonce \in [Calls -> Nat]
  /\ NoKey \notin Keys
  /\ Key \in [Calls -> Keys \union {NoKey}]
  /\ TTL \in Nat /\ MaxAttempts \in Nat /\ MaxTime \in Nat
  /\ MaxCrashes \in Nat /\ MaxDbErrors \in Nat

VARIABLES
  attempts,    \* requests received, in the order of their arrival
  idem,        \* idempotency_keys, without the keys that have no row
  usedNonces,  \* used_nonces
  ledger,      \* calls whose transaction the network has accepted
  handed,      \* history: calls whose transaction left the relayer
  now, crashes, dbErrors

vars == <<attempts, idem, usedNonces, ledger, handed, now, crashes, dbErrors>>

-----------------------------------------------------------------------------
Answers == {"none", "success", "refused", "replay", "error"}
Open == {"lookup", "evict", "fresh", "verify", "track", "simulate", "submit", "store"}

\* body is the call the answer speaks of.
Attempt == [call : Calls, host : Hosts, at : Open \union {"closed"},
            answer : Answers, body : Calls]
Entry == [answer : Answers, body : Calls, expires : Int]

Ids == DOMAIN attempts
NonceOf(i) == Nonce[attempts[i].call]
KeyOf(i) == Key[attempts[i].call]

TypeOK ==
  /\ attempts \in Seq(Attempt)
  /\ DOMAIN idem \subseteq Keys /\ idem \in [DOMAIN idem -> Entry]
  /\ usedNonces \subseteq Nat
  /\ ledger \subseteq Calls /\ handed \subseteq Calls
  /\ now \in Nat /\ crashes \in Nat /\ dbErrors \in Nat

Init ==
  /\ attempts = << >>
  /\ idem = << >>
  /\ usedNonces = {} /\ ledger = {} /\ handed = {}
  /\ now = 0 /\ crashes = 0 /\ dbErrors = 0

-----------------------------------------------------------------------------
Send(c, h) ==
  /\ Len(attempts) < MaxAttempts
  /\ attempts' = Append(attempts,
       [call |-> c, host |-> h, at |-> IF Key[c] = NoKey THEN "fresh" ELSE "lookup",
        answer |-> "none", body |-> c])
  /\ UNCHANGED <<idem, usedNonces, ledger, handed, now, crashes, dbErrors>>

Goto(i, from, to) ==
  attempts[i].at = from /\ attempts' = [attempts EXCEPT ![i].at = to]

CacheableAnyStatus(i, answer) == KeyOf(i) # NoKey \* mutant: errors are cached too
CacheableNoKey(i, answer) == answer = "success" \* mutant: the header is not looked at
\* The wrapped res.json caches a 2xx answer of a request that has a key.
Cacheable(i, answer) == KeyOf(i) # NoKey /\ answer = "success"

\* The handler answers; caching the answer goes on by itself.
Respond(i, answer) ==
  attempts' = [attempts EXCEPT ![i].answer = answer,
                               ![i].at = IF Cacheable(i, answer) THEN "store" ELSE "closed"]

-----------------------------------------------------------------------------
\* The idempotency middleware.

\* PgIdempotencyStore.get: no row, an expired row, or an answer to repeat.
Lookup(i) ==
  LET k == KeyOf(i) IN
  /\ attempts[i].at = "lookup"
  /\ \/ k \notin DOMAIN idem /\ Goto(i, "lookup", "fresh")
     \/ k \in DOMAIN idem /\ now > idem[k].expires /\ Goto(i, "lookup", "evict")
     \/ /\ k \in DOMAIN idem /\ now <= idem[k].expires
        /\ attempts' = [attempts EXCEPT ![i].at = "closed", ![i].answer = idem[k].answer,
                                        ![i].body = idem[k].body]
  /\ UNCHANGED <<idem, usedNonces, ledger, handed, now, crashes, dbErrors>>

Evicted(k) == [x \in DOMAIN idem \ {k} |-> idem[x]]

\* The DELETE is by key alone.
Evict(i) ==
  /\ Goto(i, "evict", "fresh")
  /\ idem' = Evicted(KeyOf(i))
  /\ UNCHANGED <<usedNonces, ledger, handed, now, crashes, dbErrors>>

Stored(i) ==
  [x \in DOMAIN idem \union {KeyOf(i)} |->
     IF x = KeyOf(i) THEN [answer |-> attempts[i].answer, body |-> attempts[i].body,
                           expires |-> now + TTL]
     ELSE idem[x]]

Store(i) ==
  /\ Goto(i, "store", "closed")
  /\ idem' = Stored(i)
  /\ UNCHANGED <<usedNonces, ledger, handed, now, crashes, dbErrors>>

-----------------------------------------------------------------------------
\* validateRelay and executeRelay.

FreshNonceUnchecked(i) == TRUE \* mutant: assertFresh finds nothing
FreshNonce(i) == NonceOf(i) \notin usedNonces

AssertFresh(i) ==
  /\ attempts[i].at = "fresh"
  /\ IF FreshNonce(i) THEN Goto(i, "fresh", "verify") ELSE Respond(i, "replay")
  /\ UNCHANGED <<idem, usedNonces, ledger, handed, now, crashes, dbErrors>>

\* The key on chain, the signature and the transfer policy.
Verify(i) ==
  /\ attempts[i].at = "verify"
  /\ Goto(i, "verify", "track") \/ Respond(i, "refused")
  /\ UNCHANGED <<idem, usedNonces, ledger, handed, now, crashes, dbErrors>>

TrackedNot(i) == usedNonces \* mutant: the nonce is not recorded
Tracked(i) == usedNonces \union {NonceOf(i)}

Track(i) ==
  /\ Goto(i, "track", "simulate")
  /\ usedNonces' = Tracked(i)
  /\ UNCHANGED <<idem, ledger, handed, now, crashes, dbErrors>>

\* The transaction is missing, or its simulation fails or passes.
Simulate(i) ==
  /\ attempts[i].at = "simulate"
  /\ Goto(i, "simulate", "submit") \/ Respond(i, "error")
  /\ UNCHANGED <<idem, usedNonces, ledger, handed, now, crashes, dbErrors>>

\* The network accepts the transaction, knows it already or refuses it; what
\* it says may get lost.
SubmitAnswer(i) == {"error"} \union {a \in {"success"} : attempts[i].call \in ledger'}

Submit(i) ==
  LET c == attempts[i].call IN
  /\ attempts[i].at = "submit"
  /\ handed' = handed \union {c}
  /\ ledger' \in {ledger, ledger \union {c}}
  /\ \E answer \in SubmitAnswer(i) : Respond(i, answer)
  /\ UNCHANGED <<idem, usedNonces, now, crashes, dbErrors>>

Step(i) ==
  \/ Lookup(i) \/ Evict(i) \/ Store(i) \/ AssertFresh(i) \/ Verify(i)
  \/ Track(i) \/ Simulate(i) \/ Submit(i)

-----------------------------------------------------------------------------
\* Failures and time.

\* Everything a process was doing is gone; its answers, and what the database
\* has, stay.
HostDies(h) ==
  attempts' = [i \in Ids |->
    IF attempts[i].host = h THEN [attempts[i] EXCEPT !.at = "closed"] ELSE attempts[i]]

\* A query throws.  The middleware and assertFresh answer an error (assertFresh
\* calls it a replay), a failing DELETE or store.set is swallowed, and the
\* rejection of a failing track either is answered 500 or leaves the async
\* handler, which nothing in Express 4 catches: the process ends.
QueryFails(i) ==
  /\ dbErrors < MaxDbErrors
  /\ dbErrors' = dbErrors + 1
  /\ \/ attempts[i].at = "lookup" /\ Respond(i, "error")
     \/ Goto(i, "evict", "fresh")
     \/ attempts[i].at = "fresh" /\ Respond(i, "replay")
     \/ attempts[i].at = "track" /\ (Respond(i, "error") \/ HostDies(attempts[i].host))
     \/ Goto(i, "store", "closed")
  /\ UNCHANGED <<idem, usedNonces, ledger, handed, now, crashes>>

\* The process dies and is started again.
Crash(h) ==
  /\ crashes < MaxCrashes
  /\ crashes' = crashes + 1
  /\ \E i \in Ids : attempts[i].host = h /\ attempts[i].at # "closed"
  /\ HostDies(h)
  /\ UNCHANGED <<idem, usedNonces, ledger, handed, now, dbErrors>>

Tick ==
  /\ now < MaxTime
  /\ now' = now + 1
  /\ UNCHANGED <<attempts, idem, usedNonces, ledger, handed, crashes, dbErrors>>

Next ==
  \/ \E c \in Calls, h \in Hosts : Send(c, h)
  \/ \E i \in Ids : Step(i) \/ QueryFails(i)
  \/ \E h \in Hosts : Crash(h)
  \/ Tick

Spec == Init /\ [][Next]_vars

-----------------------------------------------------------------------------
(***************************************************************************)
(* Properties.                                                             *)
(***************************************************************************)

\* The nonce of every transaction that left the relayer is on record, whatever
\* failed before or after (executeRelay tracks before it submits).
HandedIsRecorded == \A c \in handed : Nonce[c] \in usedNonces

\* A request passes the nonce check only while no transaction with its nonce
\* has left the relayer: a nonce is handed out twice only by requests that
\* were between check and record together (assertFresh, track).
PassesOnlyUnhanded ==
  [][\A i \in Ids : attempts[i].at = "fresh" /\ attempts'[i].at = "verify"
       => \A c \in handed : Nonce[c] # NonceOf(i)]_vars

\* A success, given directly or repeated from the idempotency store, names a
\* transaction the network has accepted, sent under the request's own key, and
\* the store repeats nothing but successes (createIdempotencyMiddleware).
SuccessIsTrue ==
  /\ \A i \in Ids : attempts[i].answer = "success" =>
       attempts[i].body \in ledger /\ Key[attempts[i].body] = KeyOf(i)
  /\ \A k \in DOMAIN idem :
       idem[k].answer = "success" /\ idem[k].body \in ledger /\ Key[idem[k].body] = k
=============================================================================
