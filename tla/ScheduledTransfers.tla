-------------------------- MODULE ScheduledTransfers --------------------------
(***************************************************************************)
(* The relayer's off-chain scheduler on its production (Postgres) store.   *)
(*                                                                         *)
(* Several relayer instances poll one database.  A tick lists the due      *)
(* transfers, and for each takes a lease, derives a nonce from the         *)
(* execution log, relays, logs the outcome, updates the row and drops the  *)
(* lease.  Every await on the database or the network is a step of its     *)
(* own, so instances, API requests, crashes and the clock interleave       *)
(* between any two of them.  One unit of time is the poll interval, which  *)
(* is also the base of the retry backoff (1 s for both).                   *)
(***************************************************************************)
EXTENDS Integers, FiniteSets, Sequences

CONSTANTS
  Workers,        \* relayer instances
  Transfers,      \* scheduled transfers
  SessionKeys,
  Approved,       \* nonce of each transfer's relayPayload
  Frequencies,    \* periods a transfer may have; Once means it does not recur
  EndTimes,       \* values of endAt offered to create; NoEnd means absent
  StartDelays,    \* how far ahead of creation startAt may lie
  UserOps,        \* status changes users ask for: "paused", "cancelled"
  MaxFailures,    \* MAX_CONSECUTIVE_FAILURES
  LeaseTTL,       \* LEASE_TTL_MS
  ExecLimit,      \* LIMIT of listExecutions
  BackoffCap,     \* capMs of computeBackoffMs
  TimelyRelay,    \* TRUE: no execution outlives its lease (see LEASE_TTL_MS)
  MaxTime,        \* bound on the clock
  MaxCrashes,     \* bound on instance crashes
  MaxDbErrors     \* bound on failing queries

Once == 0
NoEnd == -1

ASSUME SchedulerAssumption ==
  /\ IsFiniteSet(Workers)
  /\ Transfers # {} /\ SessionKeys # {}
  /\ Approved \in [Transfers -> Nat]
  /\ Frequencies \subseteq Nat
  /\ EndTimes \subseteq Nat \union {NoEnd}
  /\ StartDelays \subseteq Nat
  /\ UserOps \subseteq {"paused", "cancelled"}
  /\ MaxFailures \in Nat \ {0}
  /\ LeaseTTL \in Nat \ {0}
  /\ ExecLimit \in Nat
  /\ BackoffCap \in Nat \ {0}
  /\ TimelyRelay \in BOOLEAN
  /\ MaxTime \in Nat
  /\ MaxCrashes \in Nat
  /\ MaxDbErrors \in Nat

VARIABLES
  row,         \* scheduled_transfers: the row of each transfer
  lease,       \* scheduled_transfer_leases: owner and expiry, or NoLease
  executions,  \* scheduled_transfer_executions: outcomes, oldest first
  usedNonces,  \* used_nonces, per session key
  notes,       \* scheduled_transfer_notifications: kinds recorded
  requests,    \* pause/cancel requests between their read and their write
  pc,          \* where each instance's scheduler tick is
  tickNow,     \* `now` of the instance's last tick
  due,         \* snapshots of the tick still to process
  cur,         \* snapshot being executed
  nonce,       \* nonce of the relay request
  outcome,     \* response.success of the relay
  expiresAt,   \* expiry the instance asked for when it took the lease
  clock,       \* database time
  crashes, dbErrors,
  submitted,   \* history: nonces handed to the network, per transfer
  stopped,     \* history: transfers cancelled while no tick knew of them
  overran      \* history: an execution has outlived its lease

dbVars == <<row, lease, executions, usedNonces, notes>>
tickVars == <<tickNow, due, cur, nonce, outcome, expiresAt>>
envVars == <<requests, clock, crashes, dbErrors>>
histVars == <<submitted, stopped, overran>>
vars == <<dbVars, tickVars, envVars, histVars, pc>>

-----------------------------------------------------------------------------
Statuses == {"absent", "active", "paused", "cancelled", "completed", "failed"}

\* CHECK constraint on scheduled_transfers.status: an UPDATE to any other
\* status is refused by the database and the query throws.
CheckedStatuses == {"active", "paused", "cancelled", "completed"}

\* key is the sessionKey of the row's relay_payload.
Row == [status : Statuses, key : SessionKeys, frequency : Nat, nextRunAt : Int,
        endAt : Int, failures : Nat]
Snapshot == [id : Transfers, row : Row]

NoLease == [worker |-> "none", expires |-> -1]
\* Owner of a lease whose process died: workerId is a fresh UUID per process.
Gone == "gone"
Lease == [worker : Workers \union {"none", Gone}, expires : Int]

PC == {"idle", "acquire", "count", "fresh", "track", "submit", "append",
       "update", "notify", "release", "down"}

\* The steps between tryAcquireProcessing and releaseProcessing.
Holding == {"count", "fresh", "track", "submit", "append", "update",
            "notify", "release"}

Holds(w, t) == pc[w] \in Holding /\ cur[w].id = t

TypeOK ==
  /\ row \in [Transfers -> Row]
  /\ lease \in [Transfers -> Lease]
  /\ executions \in [Transfers -> Seq({"success", "failed"})]
  /\ usedNonces \in [SessionKeys -> SUBSET Nat]
  /\ notes \in [Transfers -> SUBSET {"consecutive_failure", "max_failures_reached"}]
  /\ requests \in SUBSET [op : {"paused", "cancelled"}, id : Transfers]
  /\ pc \in [Workers -> PC]
  /\ tickNow \in [Workers -> Int]
  /\ due \in [Workers -> SUBSET Snapshot]
  /\ cur \in [Workers -> Snapshot]
  /\ nonce \in [Workers -> Nat]
  /\ outcome \in [Workers -> {"success", "failed"}]
  /\ expiresAt \in [Workers -> Int]
  /\ clock \in Nat /\ crashes \in Nat /\ dbErrors \in Nat
  /\ submitted \in [Transfers -> Seq(Nat)]
  /\ stopped \in SUBSET Transfers /\ overran \in BOOLEAN

Absent == [status |-> "absent", key |-> CHOOSE k \in SessionKeys : TRUE,
           frequency |-> Once, nextRunAt |-> 0, endAt |-> NoEnd, failures |-> 0]

NoSnapshot == [id |-> CHOOSE t \in Transfers : TRUE, row |-> Absent]

Init ==
  /\ row = [t \in Transfers |-> Absent]
  /\ lease = [t \in Transfers |-> NoLease]
  /\ executions = [t \in Transfers |-> << >>]
  /\ usedNonces = [k \in SessionKeys |-> {}]
  /\ notes = [t \in Transfers |-> {}]
  /\ requests = {}
  /\ pc = [w \in Workers |-> "idle"]
  /\ tickNow = [w \in Workers |-> -1]
  /\ due = [w \in Workers |-> {}]
  /\ cur = [w \in Workers |-> NoSnapshot]
  /\ nonce = [w \in Workers |-> 0]
  /\ outcome = [w \in Workers |-> "failed"]
  /\ expiresAt = [w \in Workers |-> -1]
  /\ clock = 0 /\ crashes = 0 /\ dbErrors = 0
  /\ submitted = [t \in Transfers |-> << >>]
  /\ stopped = {} /\ overran = FALSE

-----------------------------------------------------------------------------
\* Pure helpers.

\* The delays computeBackoffMs may draw: 0 .. min(cap, 2^attempt) - 1.
ComputeBackoff(attempt) ==
  {d \in 0..(BackoffCap - 1) : d < 2^attempt}

IsDue(nextRunAt, now) == nextRunAt <= now

\* computeNextRunAt: the set of next run times, empty for null.
ComputeNextRunAtAlways(from, frequency, endAt) == \* mutant: `once` recurs
  {n \in {from + frequency} : endAt = NoEnd \/ n <= endAt}

ComputeNextRunAt(from, frequency, endAt) ==
  {n \in {from + frequency} : frequency # Once /\ (endAt = NoEnd \/ n <= endAt)}

\* The failure count after an execution: a success resets it.
FailuresKept(s, result) == \* mutant: a success leaves the count alone
  IF result = "success" THEN s.row.failures ELSE s.row.failures + 1

FailuresAfter(s, result) ==
  IF result = "success" THEN 0 ELSE s.row.failures + 1

\* The patches executeTransfer may write after relaying snapshot s.
Patched(s, status, nextRunAt, failures) ==
  [s.row EXCEPT !.status = status, !.nextRunAt = nextRunAt, !.failures = failures]

FailurePatch(s, failures, now) ==
  IF s.row.frequency = Once
    THEN {Patched(s, "completed", s.row.nextRunAt, failures)}
  ELSE IF failures >= MaxFailures
    THEN {Patched(s, "failed", s.row.nextRunAt, failures)}
  ELSE {Patched(s, "active", now + d, failures) : d \in ComputeBackoff(failures - 1)}

SuccessPatch(s, failures, now) ==
  LET next == ComputeNextRunAt(now, s.row.frequency, s.row.endAt)
  IN  IF next = {} THEN {Patched(s, "completed", s.row.nextRunAt, failures)}
      ELSE {Patched(s, "active", n, failures) : n \in next}

Patch(s, result, now) ==
  IF result = "failed" THEN FailurePatch(s, FailuresAfter(s, result), now)
  ELSE SuccessPatch(s, FailuresAfter(s, result), now)

\* Rows an execution adds to scheduled_transfer_notifications once its update
\* has been written.
NotificationKind(s, result) == \* mutant: a kind the migration names, never recorded
  IF result = "success" THEN {} ELSE {"cancelled_after_failure"}

Notification(s, result) ==
  LET failures == FailuresAfter(s, result)
  IN  IF result = "success" \/ s.row.frequency = Once THEN {}
      ELSE IF failures >= MaxFailures THEN {"max_failures_reached"}
      ELSE IF failures > 1 THEN {"consecutive_failure"}
      ELSE {}

-----------------------------------------------------------------------------
\* The scheduled-transfers API.

Create(t) ==
  /\ row[t].status = "absent"
  /\ \E k \in SessionKeys, f \in Frequencies, e \in EndTimes, d \in StartDelays :
       row' = [row EXCEPT ![t] = [status |-> "active", key |-> k, frequency |-> f,
                 nextRunAt |-> clock + d, endAt |-> e, failures |-> 0]]
  /\ UNCHANGED <<lease, executions, usedNonces, notes, tickVars, envVars,
                 histVars, pc>>

\* getByIdForCaller and the status check of pause.
PauseRead(t) ==
  /\ "paused" \in UserOps
  /\ row[t].status = "active"
  /\ requests' = requests \union {[op |-> "paused", id |-> t]}
  /\ UNCHANGED <<dbVars, tickVars, clock, crashes, dbErrors, histVars, pc>>

\* getByIdForCaller and the status check of cancel.
CancelRead(t) ==
  /\ "cancelled" \in UserOps
  /\ row[t].status \notin {"absent", "cancelled", "completed", "failed"}
  /\ requests' = requests \union {[op |-> "cancelled", id |-> t]}
  /\ UNCHANGED <<dbVars, tickVars, clock, crashes, dbErrors, histVars, pc>>

\* No tick has listed t, and no other request on t is half way.
Unobserved(t) ==
  /\ \A w \in Workers : ~Holds(w, t) /\ \A s \in due[w] : s.id # t
  /\ \A r \in requests : r.id = t => r.op = "cancelled"

\* updateStatus: an unconditional UPDATE of the status column.
UpdateStatus(r) ==
  /\ r \in requests
  /\ requests' = requests \ {r}
  /\ row' = [row EXCEPT ![r.id].status = r.op]
  /\ stopped' = IF r.op = "cancelled" /\ Unobserved(r.id)
                THEN stopped \union {r.id} ELSE stopped
  /\ UNCHANGED <<lease, executions, usedNonces, notes, tickVars, clock, crashes,
                 dbErrors, submitted, overran, pc>>

-----------------------------------------------------------------------------
\* One tick of SchedulerEngine / processDueTransfers on instance w.

Goto(w, from, to) == pc[w] = from /\ pc' = [pc EXCEPT ![w] = to]

ListDueAnyStatus(now) == \* mutant: no filter on the status
  {[id |-> t, row |-> row[t]] :
     t \in {x \in Transfers : /\ row[x].status # "absent"
                              /\ row[x].nextRunAt <= now
                              /\ ~(lease[x].expires > clock)}}

\* What listDue returns at the current database time.
ListDue(now) ==
  {[id |-> t, row |-> row[t]] :
     t \in {x \in Transfers : /\ row[x].status = "active"
                              /\ row[x].nextRunAt <= now
                              /\ ~(lease[x].expires > clock)}}

\* The poll timer fires (at least one interval after the previous tick) and
\* listDue answers.
StartTick(w) ==
  /\ clock > tickNow[w]
  /\ tickNow' = [tickNow EXCEPT ![w] = clock]
  /\ due' = [due EXCEPT ![w] = ListDue(clock)]
  /\ Goto(w, "idle", IF ListDue(clock) = {} THEN "idle" ELSE "acquire")
  /\ UNCHANGED <<dbVars, cur, nonce, outcome, expiresAt, envVars, histVars>>

\* The snapshot the loop reaches next: listDue orders by next_run_at.
NextDue(w) ==
  {s \in due[w] : IsDue(s.row.nextRunAt, tickNow[w]) /\
                  \A x \in due[w] : s.row.nextRunAt <= x.row.nextRunAt}

\* The locals of executeTransfer go out of scope.
ForgetLocals(w) ==
  /\ cur' = [cur EXCEPT ![w] = NoSnapshot]
  /\ nonce' = [nonce EXCEPT ![w] = 0]
  /\ outcome' = [outcome EXCEPT ![w] = "failed"]
  /\ expiresAt' = [expiresAt EXCEPT ![w] = -1]

AfterItem(rest) == IF rest = {} THEN "idle" ELSE "acquire"

LeaseFreeAtExpiry(t) == \* mutant: <= for < in the upsert's WHERE
  lease[t] = NoLease \/ lease[t].expires <= clock
LeaseFreeOnlyIfAbsent(t) == \* mutant: ON CONFLICT DO NOTHING
  lease[t] = NoLease

\* The upsert takes a missing row or one whose lease has expired.
LeaseFree(t) == lease[t] = NoLease \/ lease[t].expires < clock

TryAcquire(w) ==
  \E s \in NextDue(w) :
    /\ due' = [due EXCEPT ![w] = @ \ {s}]
    /\ IF LeaseFree(s.id)
       THEN /\ lease' = [lease EXCEPT ![s.id] =
                           [worker |-> w, expires |-> clock + LeaseTTL]]
            /\ expiresAt' = [expiresAt EXCEPT ![w] = clock + LeaseTTL]
            /\ cur' = [cur EXCEPT ![w] = s]
            /\ Goto(w, "acquire", "count")
       ELSE /\ Goto(w, "acquire", AfterItem(due[w] \ {s}))
            /\ UNCHANGED <<lease, expiresAt, cur>>
    /\ UNCHANGED <<row, executions, usedNonces, notes, tickNow, nonce, outcome,
                   envVars, histVars>>

DerivedFromSuccesses(t) == \* mutant: only successful executions counted
  Approved[t] + Cardinality({i \in DOMAIN executions[t] : executions[t][i] = "success"})

\* approvedNonce + priorExecutions.length; listExecutions returns the newest
\* ExecLimit rows.
DerivedNonce(t) ==
  Approved[t] + IF Len(executions[t]) <= ExecLimit THEN Len(executions[t]) ELSE ExecLimit

CountExecutions(w) ==
  /\ Goto(w, "count", "fresh")
  /\ nonce' = [nonce EXCEPT ![w] = DerivedNonce(cur[w].id)]
  /\ UNCHANGED <<dbVars, tickNow, due, cur, outcome, expiresAt, envVars, histVars>>

NonceAssumedFresh(w) == TRUE \* mutant: no assertFresh
NonceFresh(w) == nonce[w] \notin usedNonces[cur[w].row.key]

\* validateRelay: a used nonce fails; a fresh one may still fail on the session
\* key lookup, the signature or the policy.
ValidateRelay(w) ==
  /\ pc[w] = "fresh"
  /\ \/ /\ NonceFresh(w)
        /\ Goto(w, "fresh", "track")
        /\ UNCHANGED outcome
     \/ /\ Goto(w, "fresh", "append")
        /\ outcome' = [outcome EXCEPT ![w] = "failed"]
  /\ UNCHANGED <<dbVars, tickNow, due, cur, nonce, expiresAt, envVars, histVars>>

\* nonceStore.track: INSERT ... ON CONFLICT DO NOTHING.
TrackNonce(w) ==
  /\ Goto(w, "track", "submit")
  /\ usedNonces' = [usedNonces EXCEPT ![cur[w].row.key] = @ \union {nonce[w]}]
  /\ UNCHANGED <<row, lease, executions, notes, tickVars, envVars, histVars>>

\* simulate and submit: the network takes the transaction, the answer is a
\* success or an error (which a lost reply also is).
Submit(w) ==
  /\ Goto(w, "submit", "append")
  /\ \E o \in {"success", "failed"} : outcome' = [outcome EXCEPT ![w] = o]
  /\ submitted' = [submitted EXCEPT ![cur[w].id] = Append(@, nonce[w])]
  /\ UNCHANGED <<dbVars, tickNow, due, cur, nonce, expiresAt, envVars, stopped, overran>>

LogSuccessOnly(t, o) == \* mutant: failures are not logged
  IF o = "success" THEN Append(executions[t], o) ELSE executions[t]
Logged(t, o) == Append(executions[t], o)

AppendExecution(w) ==
  /\ Goto(w, "append", "update")
  /\ executions' = [executions EXCEPT ![cur[w].id] = Logged(cur[w].id, outcome[w])]
  /\ UNCHANGED <<row, lease, usedNonces, notes, tickVars, envVars, histVars>>

\* updateAfterExecution writes the patch computed from the snapshot; a status
\* the CHECK constraint refuses makes the query throw, and the catch of
\* processDueTransfers goes on to the release.
UpdateAfterExecution(w) ==
  /\ pc[w] = "update"
  /\ \E p \in Patch(cur[w], outcome[w], tickNow[w]) :
       IF p.status \in CheckedStatuses
       THEN /\ row' = [row EXCEPT ![cur[w].id].status = p.status,
                                  ![cur[w].id].nextRunAt = p.nextRunAt,
                                  ![cur[w].id].failures = p.failures]
            /\ Goto(w, "update", IF Notification(cur[w], outcome[w]) = {}
                                 THEN "release" ELSE "notify")
       ELSE UNCHANGED row /\ Goto(w, "update", "release")
  /\ UNCHANGED <<lease, executions, usedNonces, notes, tickVars, envVars, histVars>>

\* recordFailureNotification.
Notify(w) ==
  /\ Goto(w, "notify", "release")
  /\ notes' = [notes EXCEPT ![cur[w].id] = @ \union Notification(cur[w], outcome[w])]
  /\ UNCHANGED <<row, lease, executions, usedNonces, tickVars, envVars, histVars>>

ReleasedByAnyone(t, w) == NoLease \* mutant: DELETE without worker_id
\* releaseLease deletes the row only if it still carries this worker's id.
Released(t, w) == IF lease[t].worker = w THEN NoLease ELSE lease[t]

Release(w) ==
  /\ Goto(w, "release", AfterItem(due[w]))
  /\ lease' = [lease EXCEPT ![cur[w].id] = Released(cur[w].id, w)]
  /\ ForgetLocals(w)
  /\ UNCHANGED <<row, executions, usedNonces, notes, tickNow, due, envVars, histVars>>

WorkerStep(w) ==
  \/ StartTick(w) \/ TryAcquire(w) \/ CountExecutions(w) \/ ValidateRelay(w)
  \/ TrackNonce(w) \/ Submit(w) \/ AppendExecution(w)
  \/ UpdateAfterExecution(w) \/ Notify(w) \/ Release(w)

-----------------------------------------------------------------------------
\* Failures and time.

\* Crashes and failing queries are bounded in number and happen early enough
\* for a lease they orphan to expire within the clock's bound.
BeforeHorizon == clock + LeaseTTL < MaxTime

\* The pass ends: the rest of the loop is not run.
AbandonTick(w) ==
  /\ pc' = [pc EXCEPT ![w] = "idle"]
  /\ due' = [due EXCEPT ![w] = {}]
  /\ ForgetLocals(w)
  /\ UNCHANGED tickNow

\* The catch of processDueTransfers, or that of recordFailureNotification.
SkipToRelease(w) == pc' = [pc EXCEPT ![w] = "release"] /\ UNCHANGED tickVars

\* A query throws and has had no effect.  Outside the try (listDue, tryAcquire,
\* release) the pass is over and a lease that was not deleted stays; inside it
\* the loop goes on to the release.
QueryFails(w) ==
  /\ \/ /\ pc[w] = "idle" /\ clock > tickNow[w]
        /\ tickNow' = [tickNow EXCEPT ![w] = clock]
        /\ UNCHANGED <<pc, due, cur, nonce, outcome, expiresAt>>
     \/ pc[w] \in {"acquire", "release"} /\ AbandonTick(w)
     \/ pc[w] \in {"count", "track", "append", "update", "notify"} /\ SkipToRelease(w)
  /\ UNCHANGED dbVars

\* A statement is committed and its answer is lost, so that the query throws all
\* the same: the lease was written, or deleted, by a pass that is over; the nonce,
\* the log entry, the row or the notification by an execution that goes no further.
AnswerLost(w) ==
  \/ /\ pc[w] = "acquire" /\ AbandonTick(w)
     /\ \E s \in NextDue(w) :
          /\ LeaseFree(s.id)
          /\ lease' = [lease EXCEPT ![s.id] = [worker |-> w, expires |-> clock + LeaseTTL]]
     /\ UNCHANGED <<row, executions, usedNonces, notes>>
  \/ /\ pc[w] = "release" /\ AbandonTick(w)
     /\ lease' = [lease EXCEPT ![cur[w].id] = Released(cur[w].id, w)]
     /\ UNCHANGED <<row, executions, usedNonces, notes>>
  \/ /\ pc[w] = "track" /\ SkipToRelease(w)
     /\ usedNonces' = [usedNonces EXCEPT ![cur[w].row.key] = @ \union {nonce[w]}]
     /\ UNCHANGED <<row, lease, executions, notes>>
  \/ /\ pc[w] = "append" /\ SkipToRelease(w)
     /\ executions' = [executions EXCEPT ![cur[w].id] = Logged(cur[w].id, outcome[w])]
     /\ UNCHANGED <<row, lease, usedNonces, notes>>
  \/ /\ pc[w] = "update" /\ SkipToRelease(w)
     /\ \E p \in Patch(cur[w], outcome[w], tickNow[w]) :
          /\ p.status \in CheckedStatuses
          /\ row' = [row EXCEPT ![cur[w].id].status = p.status,
                                ![cur[w].id].nextRunAt = p.nextRunAt,
                                ![cur[w].id].failures = p.failures]
     /\ UNCHANGED <<lease, executions, usedNonces, notes>>
  \/ /\ pc[w] = "notify" /\ SkipToRelease(w)
     /\ notes' = [notes EXCEPT ![cur[w].id] = @ \union Notification(cur[w], outcome[w])]
     /\ UNCHANGED <<row, lease, executions, usedNonces>>

\* One of the tick's queries throws, with or without an effect.
DbError(w) ==
  /\ BeforeHorizon /\ dbErrors < MaxDbErrors
  /\ dbErrors' = dbErrors + 1
  /\ QueryFails(w) \/ AnswerLost(w)
  /\ UNCHANGED <<requests, clock, crashes, histVars>>

\* The process dies.  Its lease rows stay, under an id no process has.
Crash(w) ==
  /\ BeforeHorizon /\ crashes < MaxCrashes
  /\ pc[w] # "down"
  /\ crashes' = crashes + 1
  /\ pc' = [pc EXCEPT ![w] = "down"]
  /\ due' = [due EXCEPT ![w] = {}]
  /\ lease' = [t \in Transfers |->
                 IF lease[t].worker = w THEN [lease[t] EXCEPT !.worker = Gone]
                 ELSE lease[t]]
  /\ ForgetLocals(w)
  /\ UNCHANGED <<row, executions, usedNonces, notes, tickNow, requests, clock,
                 dbErrors, histVars>>

Restart(w) ==
  /\ Goto(w, "down", "idle")
  /\ UNCHANGED <<dbVars, tickVars, envVars, histVars>>

Tick ==
  /\ clock < MaxTime
  /\ TimelyRelay => \A w \in Workers : pc[w] \in Holding => clock < expiresAt[w]
  /\ clock' = clock + 1
  /\ overran' = (overran \/ \E w \in Workers : pc[w] \in Holding /\ clock' > expiresAt[w])
  /\ UNCHANGED <<dbVars, tickVars, requests, crashes, dbErrors, submitted, stopped, pc>>

Next ==
  \/ \E t \in Transfers : Create(t) \/ PauseRead(t) \/ CancelRead(t)
  \/ \E r \in requests : UpdateStatus(r)
  \/ \E w \in Workers : WorkerStep(w) \/ DbError(w) \/ Crash(w) \/ Restart(w)
  \/ Tick

Spec == Init /\ [][Next]_vars

\* The event loop of every instance keeps turning, restarted processes come
\* back and time passes; crashes and failing queries are bounded.
FairSpec ==
  /\ Spec
  /\ \A w \in Workers : WF_vars(WorkerStep(w)) /\ WF_vars(Restart(w))
  /\ WF_vars(Tick)

-----------------------------------------------------------------------------
(***************************************************************************)
(* Properties.                                                             *)
(***************************************************************************)

\* Two instances execute the same transfer at once only if one of them has
\* outlived the 30 s lease it took: while its lease runs, an instance is the
\* only one between tryAcquireProcessing and releaseProcessing
\* (PgScheduledTransferStore.tryAcquireLease).
LeaseMutex ==
  \A w1, w2 \in Workers, t \in Transfers :
    w1 # w2 /\ Holds(w1, t) /\ Holds(w2, t) =>
      clock > expiresAt[w1] \/ clock > expiresAt[w2]

\* Until its deadline, an instance that executes a transfer still owns the lease
\* row it wrote: no takeover, late release or crash of another instance has
\* touched it (tryAcquireLease and releaseLease).
LeaseHeld ==
  \A w \in Workers :
    pc[w] \in Holding /\ clock <= expiresAt[w] =>
      lease[cur[w].id] = [worker |-> w, expires |-> expiresAt[w]]

\* Nobody but its owner changes an unexpired lease: a slow instance that
\* releases late does not drop the lease of the one that took over
\* (releaseLease deletes WHERE worker_id is its own).
LeaseRespected ==
  [][\A w \in Workers, t \in Transfers :
       lease[t].worker = w /\ clock <= lease[t].expires /\ lease'[t] # lease[t]
         => pc'[w] # pc[w]]_vars

\* Only one instance has polled so far.
OneProcess == \A v, w \in Workers : tickNow[v] # -1 /\ tickNow[w] # -1 => v = w

Created(t) == row[t].status # "absent"
\* No other transfer has the session key of t.
SoleUser(t) == \A u \in Transfers \ {t} : Created(u) => row[u].key # row[t].key
KeysApart == \A t \in Transfers : Created(t) => SoleUser(t)

\* As long as executions fit in their leases, no nonce of a session key is
\* handed to the network twice, whatever crashes, failing queries and stale
\* snapshots occur (executeTransfer with validateRelay and track).  With transfers
\* that share a key this takes a single process: a lease is of one transfer.
NonceSubmittedOnce ==
  \A t, u \in Transfers : \A i \in DOMAIN submitted[t], j \in DOMAIN submitted[u] :
    row[t].key = row[u].key /\ <<t, i>> # <<u, j>> => submitted[t][i] # submitted[u][j]

SuccessCount(t) == Cardinality({i \in DOMAIN executions[t] : executions[t][i] = "success"})
Unrecorded(t) == Cardinality({w \in Workers : pc[w] = "append" /\ cur[w].id = t})

\* The execution log and the network agree up to the instances that are about
\* to append, one row per crash and one per failing query: a success is logged
\* only for a submission, and a submission goes unlogged only that way
\* (executeTransfer appends before it updates).
LogAccountsForSubmissions ==
  \A t \in Transfers :
    /\ SuccessCount(t) <= Len(submitted[t])
    /\ Len(submitted[t]) <= Len(executions[t]) + Unrecorded(t) + crashes + dbErrors

\* No nonce leaves twice and the log accounts for what has left (see
\* NonceSubmittedOnce and LogAccountsForSubmissions).
SubmissionsAccounted ==
  /\ LogAccountsForSubmissions
  /\ (~overran /\ KeysApart) \/ OneProcess => NonceSubmittedOnce

\* A transfer cancelled while no tick had listed it stays cancelled
\* (listDue's status filter against updateAfterExecution's blind write).
CancelledIdleIsFinal ==
  \A t \in stopped : row[t].status = "cancelled"

\* A one-time transfer is relayed at most once, and again only after a crash or
\* a failing query kept its row from being completed ("to prevent
\* double-execution across concurrent worker instances", processDueTransfers).
OnceRelayedOnce ==
  \A t \in Transfers :
    row[t].frequency = Once => Len(submitted[t]) <= 1 + crashes + dbErrors

\* Length of the run of failures the log ends with.
Streak(t) ==
  LET L == executions[t]
      tails == {n \in 0..Len(L) : \A i \in DOMAIN L : i > Len(L) - n => L[i] = "failed"}
  IN  CHOOSE n \in tails : \A m \in tails : m <= n

Undisturbed == crashes = 0 /\ dbErrors = 0

\* Between executions of an instance that has neither died nor met a failing
\* query, the failure count of a row is the run of failures its log ends with,
\* as long as that is below the cap: a success resets it and nothing skips or
\* doubles a failure (executeTransfer).
FailuresMatchLog ==
  \A t \in Transfers :
    Undisturbed /\ (\A w \in Workers : ~Holds(w, t)) /\ Streak(t) < MaxFailures
      => row[t].failures = Streak(t)

\* The nonce derived for an execution has not been used before, while the log
\* is complete and within what listExecutions returns and no other transfer has
\* the session key (executeTransfer).
DerivedNonceFresh ==
  \A w \in Workers :
    Undisturbed /\ pc[w] = "fresh" /\ SoleUser(cur[w].id)
      /\ Len(executions[cur[w].id]) <= ExecLimit
      => NonceFresh(w)

\* The log is what the failure count and the next nonce are rightly derived from:
\* the one while a single process runs, the other also while executions fit in
\* their leases (see FailuresMatchLog and DerivedNonceFresh).
LogIsTrusted ==
  /\ OneProcess => FailuresMatchLog
  /\ OneProcess \/ ~overran => DerivedNonceFresh

\* A transfer that falls due before the last instant is attempted again,
\* stopped or rescheduled, even when the instance that held its lease died:
\* the lease expires and another tick takes it over.
DueIsAttempted ==
  \A t \in Transfers : \A n \in 0..MaxTime :
    (row[t].status = "active" /\ row[t].nextRunAt <= clock /\ clock < MaxTime
       /\ Len(executions[t]) = n)
    ~> (Len(executions[t]) > n \/ row[t].status # "active"
        \/ row[t].nextRunAt > clock)
=============================================================================
