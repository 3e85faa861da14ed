# TLA+ models of Ancore

Specifications of the parts of Ancore whose correctness depends on the order
in which things happen: the services that share a Postgres database, the
contracts, and the flows of the wallets and of the dashboard that keep state
across awaits. Each is written from the code under `src/`, checked by TLC on
small instances. What the runs check of safety is, with few exceptions, also
proved with TLAPS for every value of the constants, the refinement of the job
queue's life cycle included.

`PROJECT.json` maps every definition to the lines it stands for and lists the
runs, the hazards, the findings and the theorems.

## The system

| Component | State | Operations | Models |
| --- | --- | --- | --- |
| Relayer scheduler (`services/relayer/src/scheduler`) | transfers, lease rows, execution log, notifications; the locals of a tick | create, pause, cancel; a tick lists due transfers and executes each under a lease | `ScheduledTransfers` |
| Relayer job queue (`queue/PgJobQueue.ts`, `workers/QueueWorker.ts`) | jobs table; poll loop and deliveries of each worker | enqueue, dequeue, ack, nack, poll, stop | `JobQueue`, implementing `JobLifecycle` |
| Relayer execution (`services/relayService.ts`, idempotency middleware, nonce and idempotency stores) | `idempotency_keys`, `used_nonces`, requests in flight | `POST /relay/execute` | `RelayExecution` |
| Relayer process (`migrations.ts`, `server.ts`, `shutdown.ts`, `SchedulerEngine.ts`) | applied migrations, advisory lock; phases of a shutdown, open requests, pool | migrate, serve, signal, drain, close, exit | `RelayerProcess` |
| Account contract (`contracts/account`) | owner(s), threshold, nonce, session keys with their spend windows, modules | every entry point that changes state | `Account` |
| Invoice contract (`contracts/invoice`) | invoices, their indexes, the token's balances | create, open, pay, pay_verified, cancel, expire | `Invoice` |
| Upgrade governor (`contracts/upgrade`) | proposals, signers, approvals, delay, policy | propose, cancel, sign, execute either way, setters | `UpgradeGovernor` |
| Indexer ingestion (`services/indexer/src/ingest`) | checkpoint, event and activity rows, dead letters; the batch of each process | worker tick, backfill, reprocess-dead-letters | `IndexerIngest` |
| Wallet vault (`core-sdk/src/storage`) | salt, verification payload, encrypted items, the key in memory | unlock, lock, changePassword, reset, items, account records | `SecureStorage` |
| Extension session (`background/session-state.ts`, `handlers/lock-unlock.ts`, `unlock-rate-limit.ts`) | unlock flag, session record, count of failures | unlock, lock, refresh of the auto-lock, restore, end of the worker | `UnlockSession` |
| Extension requests of pages (`background/handlers/external`) | pending approvals, callbacks, status entries, windows, allowlist | request, approve, refuse, time out, sweep | `ExternalRequests`, over `UnlockSession` |
| Extension send flow (`useSendTransaction.ts`, `send-service.ts`, `stellar/src/client.ts`) | the form, the submissions in flight, polled statuses; the ledger | review, confirm, submit with retries, poll | `PaymentFlow` |
| Onboarding and deployment (`useOnboarding.ts`, `deploy-account.ts`) | screen, attempt in flight, vault and account store; the ledger | fund, install, create, initialize, retry | `AccountDeployment` |
| Dashboard bulk payouts (`services/bulk-payouts.ts`, `pages/BulkPayouts.tsx`) | outcomes, checkpoint, worker pool | select, execute, resume, close the tab | `BulkPayouts` |
| Mobile requests of dApps (`providers/WalletKitProvider.tsx`) | sessions, the slots of the sheets, handlers in flight | propose, request, approve, refuse, disconnect, lock | `WalletConnectRequests` |
| Everything else (HTTP surface, query API, AI agent, SDK builders, crypto, user interfaces, tooling) | none that outlives a request, or view state | - | not modelled; the reason is in `PROJECT.json` |

How they interact:

- A **client** (wallet, dashboard) sends signed requests to the relayer, again
  if no answer came. The relayer's processes share nothing but Postgres: the
  scheduler, the queue workers and the request handlers of all of them meet in
  its tables, one statement at a time, with no transaction around several.
- The **scheduler** calls the relay service in process, so a scheduled transfer
  takes the same path of nonce check, nonce record and submission as a request;
  its nonce is derived from its own execution log.
- What the relayer submits arrives at the **account contract** as a call of a
  session key, bound by its signature to the contract's nonce. Contract calls
  are atomic; they interleave only as a whole.
- Contracts emit events. The **indexer** reads them in pages from the Soroban
  RPC node and writes them to its own tables; the query API serves those.
- The **governor** upgrades the account through the account's own `upgrade`; the
  invoice contract moves the token of whoever pays. Both share no state with
  the account but these calls.
- In the **extension**, screens and background worker share `chrome.storage` and
  messages. The worker ends when the browser likes and comes back with nothing
  but its storage; a page's request waits in it for a screen.
- **Ledgers** appear in the client models as what takes, includes, fails or drops
  a transaction after the client has stopped looking.

What makes it hard:

- Every `await` is a point where other instances run. A tick works on a
  snapshot of rows that others change; the nonce is checked in one query and
  recorded in another; `nack` reads and writes `attempts` in two.
- Processes die anywhere. What they hold by lease or by status `processing`
  must come back; what they did must not be done twice, or not under one nonce.
- Answers are lost. A statement may have been committed when its query throws;
  a transaction may have been accepted when the submission reports an error.
- Deadlines race with late work: leases of 30 s, jobs stale after 5 minutes,
  idempotency entries with a time to live.
- Blind writes: `updateAfterExecution`, `ack`, `checkpoint.save` overwrite
  whatever another process has written since.
- Screens are closed, tabs are reloaded and service workers are ended between
  two awaits; what was sent before has its effect after.
- React handlers keep the values they were created with while the screen has
  gone on to the next request.

What makes each component correct is stated as its properties, below.

## Modules

Each component is one module: state, helpers, one action per step of the code,
environment (crash, failing query, clock), then the properties. Steps are cut
at the awaits, since that is where another process can run. An `MC` module
extends it with constants for TLC; a `Proofs` module extends it with theorems.
Operators marked `mutant:` are not used by the specification. Each is a
plausible mistake in the definition that follows it, and the property named for
it in `PROJECT.json` fails when it takes that definition's place.

**ScheduledTransfers.** `pc[w]` is where instance `w` is inside
`processDueTransfers` / `executeTransfer`: listing (`StartTick`), the lease
upsert (`TryAcquire`), counting executions to derive the nonce, the freshness
check, recording the nonce, submission, log append, row update, notification,
lease release. `row`, `lease`, `executions`, `usedNonces` (per session key) and
`notes` are tables; a row carries the session key of its stored payload, chosen at
its creation, `Approved` is the nonce of that payload; several transfers may share a
key. `overran` remembers that an execution has outlived its lease. `requests` are API
calls between their status check and their unconditional status update. A crash
keeps the tables and turns the process' leases into leases of nobody (`workerId`
is a new UUID at each start). The
`CHECK` constraint of migration 002 does not admit status `failed`, so the
update that should end a transfer at its failure cap throws; the model follows
the code, and the transfer stays due. A query that throws may have had no effect
(`QueryFails`) or have been committed with its answer lost (`AnswerLost`); the tick
goes on in the same way after either.

**JobQueue.** Rows of the jobs table with an age (while processing) and a wait
(until retry) instead of absolute times; `deliveries` are jobs a worker has in
hand, by the phase of `finish()` they are in; `poll` is the poll loop, including
the moment between the answer of `dequeue` and the resumption of `poll()`. A
rejection nobody catches ends the process. An enqueue, ack or nack that throws may
have been committed all the same (`EnqueueFails`, `AckFails`, `CatchFails`). After an ack
of that kind the worker nacks the job it has just completed, and the row goes back to
`pending` or `dead`; the history `tally[j].unheard` marks a completion whose worker has
not heard of it. `JobLifecycle` is the life cycle of `queue/types.ts` as the code
keeps it, and `ImplementsLifecycle` maps the rows onto it. It differs from that
comment in two places: the stage `failed` is no state, since `nack` writes `pending` or
`dead` at once and nothing writes `failed`; and a job that was completed unheard may be
taken back (`Retract`), once for each ack that was lost.

**RelayExecution.** An attempt is one HTTP request, `at` its next await: lookup
and eviction in the idempotency store, nonce check, verification, nonce record,
simulation, submission, storing of the answer. `handed` and `ledger` separate
what left the relayer from what the network accepted.

**Account.** One action per entry point, with the guards of all its checks;
messages signed by session keys stay in `signed` for ever and may be submitted
in any order, late and again. `paid` is a history of what each key spent up to
each instant, against which the contract's single window counter is judged.

**IndexerIngest.** An event is a position in the stream with its ledger, its
row key and how well it normalises. `job[p]` is what a process holds between
two awaits: cursor, events to write, failures to record. The worker writes the
failures, then the rows of both tables event by event, then the checkpoint;
backfill and reprocessing end in the same writes. Workers of an old and a new
deployment may run together.

**RelayerProcess.** A process from `main` to its exit: `runMigrations` takes the
advisory lock, looks for each migration and commits the missing ones in one
transaction; then requests and ticks come and go; a signal starts
`runShutdown`, whose drains and closers share one deadline. Time passes only
while something is awaited whose deadline lies ahead, which is how the event
loop runs timers.

**Invoice**, **UpgradeGovernor.** Contract calls as in `Account`, one action each.
A call that returns an error undoes its writes, the `Expired` that `pay` stores
included. `payments`, `promised` and `upgrades` are histories that the
properties read.

**SecureStorage.** A key is a password and a salt and opens what was encrypted
under it. `call[c]` is where a call of the manager is, with the locals it will
write; `Together` names the pairs of calls the applications can have in flight
at once. `torn` remembers, until the next reset, that a password change or a reset
was cut short by a death or a lock: from then on the vault promises nothing.

**UnlockSession**, **ExternalRequests.** The second extends the first: a request
of a page is checked against the session, and what is signed is signed with the
vault's key. The approval screen, its window, the timer of the handler and the
sweep of stale entries are actors of their own. A window that fails to open
(`OpenFails`) refuses the page's request and leaves the approval pending, and the side
panel may show it all the same.

**PaymentFlow**, **AccountDeployment.** The client's steps and a ledger. In the
first the ledger may lose answers, drop transactions and decline an attempt: an attempt
it has declined may be answered with any result code at any time, which the client
takes as final, also when it was a retry and an earlier copy still waits in the network.
In the second a transaction stays valid for 60 seconds while the attempt polls it for
45, so that what an attempt has given up can still take effect. Its last part, the
vault, is cut at each await of `useOnboarding`: the salt is read; a first run writes the
verification payload and then the salt, any other compares the payload; then the
record, and then the account store. The screen may be closed between any two of these,
and the phrase entered again with another password. `mishap` is a history of what can
make that go wrong: a screen closed with its record unwritten (`cut`), a wrong
password (`refused`), first runs of two screens together (`raced`).

**BulkPayouts.** The pool of workers takes rows from a shared cursor; each
outcome is checkpointed. The runs of a file form campaigns, whose requests and cut
requests `sent` and `cut` count: a run goes on with the campaign of its file when
the run before it was cut off, or when it finds its checkpoint (`Resumes`), and
starts a new one otherwise. A row is its own idempotency key.

**WalletConnectRequests.** One slot for each kind of sheet. A tap starts a
handler with the request the sheet showed; what it clears after its awaits is
what the slot holds by then.

An **MC module** puts several small instances into one run: its variable `part`
(`contract` in `MCContracts`) is chosen initially and never changes, every
behaviour runs the actions of its part only, and the other parts' variables
keep their initial values. Instances that differ in their constants are
`INSTANCE ... WITH` of the same module. A property of such a run is the
conjunction of what its parts promise, or is conditioned on the part.

## Runs

Seven runs must pass; five show a statement of the repository that the code
does not live up to.

| Run | Instances | Shows |
| --- | --- | --- |
| `scheduler` | *solo*: 1 process that may die and come back, 2 transfers, with an end date; *shared*: 1 process, 2 transfers of one session key; *late*: 2 processes, executions of any length, 1 crash or failing query, committed or not; *pair*: 2 processes within their leases, pauses and cancellations one at a time, 1 crash | `OnceRelayedOnce`, `LeaseMutex`, `SubmissionsAccounted`, `CancelledIdleIsFinal`, `LogIsTrusted`, `DueIsTaken` (a due transfer is attempted although its lease was orphaned) |
| `scheduler_double_run` (violation) | 2 healthy processes, 1 one-time transfer | `OnceRelayedOnce` fails: see Findings |
| `queue` | *timely*: 2 workers, 2 requests of one key, 2 attempts, 1 crash or stop, 1 failing query, committed or not; *late*: deliveries that outlast the stale window | `ActiveUnique`, `DeliveriesCounted`, `LifecycleKept` (the refinement), `JobsSettle` |
| `relayer` | *requests*: 3 calls sharing nonces and a key, 3 attempts, 2 processes, 1 crash, 1 failing query; *processes*: 2 processes, 2 migrations, 1 fault | `SuccessIsTrue`, `PassesOnlyUnhanded`; `ShutdownOrderly`, `MigratedOnce`, `ProcessSettles` |
| `contracts` | *owners*: 3 addresses, 1 key, 1 module; *spending*: 1 key, 3 signed messages, 5 instants, a window of 1; *invoice*: 2 parties, 2 invoices; *governor*: 2 signers, 2 proposals, changing lists, policies and delays | `NoReplay`, `SlidingSpend`, `ThresholdMeetable`; `PaidExactlyOnce`, `DueDateKept`, `BooksAgree`; `UpgradesOnceInTime`, `MultisigQuorum` |
| `account_quorum` (violation) | 3 addresses | `MultiOwnerNeedsQuorum` fails: see Findings |
| `ingest_tables` | 2 workers, 1 operator, 4 events of every quality in 3 ledgers, pages of 2, 1 failure, 1 deployment | `CheckpointComplete`, `BackfillCovers`, `CatchesUp` |
| `ingest_split` (violation) | 1 worker, no failure, 3 events in 2 ledgers, pages of 2 | `LedgersComplete` fails: see Findings |
| `clients` | *vault*: 2 calls together, 2 passwords, 1 death; *payouts*: files of 1 and 2 rows, 2 workers, 2 runs; *dapps*: 2 requests, 2 taps, 1 lock, 1 lost answer | `VaultKeeps`, `PayoutsTrue`, `DappsAnswered` |
| `vault_change_dies` (violation) | the vault, 1 death | `SaltOpensRecords` fails: see Findings |
| `extension` | *session*: 2 handlers, 1 restart of the worker; *requests*: 1 request of each kind with its window, timer and sweep; *payment*: 2 confirmations, 1 retry; *deploy*: 1 screen, 3 attempts, 2 passwords, 1 fault | `SessionSafe`, `SigningConsented`, `PaymentsTrue`, `DeploymentTrue`, `ExtensionSettles`, `DeploymentEnds` |
| `deployment_retry` (violation) | 1 screen, 2 attempts, no fault | `RetrySkipsInstance` fails: see Findings |

`TypeOK`, `TypesOK`, `ProcessTypeOK` and `GovernorTypeOK` are the type invariants.

**Bounds.** Two instances are the smallest number that can race, and the
properties speak of pairs; a third instance can only repeat what the second
does to the first. One crash and one failing query reach each single loss at
every step; properties that depend on their number carry it
(`1 + crashes + dbErrors`), so they are not made true by the bound. Clocks run
one to three leases long, enough for a lease to be taken, to expire, to be
taken over and to be released late. Crashes and failing queries in the
scheduler happen early enough (`BeforeHorizon`) that the lease they orphan can
expire before the clock's bound; without this the liveness run would only show
that the clock stops. Bounds of the models are `MaxTime`, `MaxClock`, `MaxLedger`,
`MaxCrashes`, `MaxDbErrors`, `MaxFaults`, `MaxRestarts`, `MaxCalls`, `MaxConns`,
`MaxFailures` (indexer), `MaxAttempts` (relay, deployment), `MaxNonce`,
`MaxVersion`, `MaxSigned`, `MaxSalt`, `MaxInvoices`, `MaxProposals`, `MaxRuns`,
`MaxSeq`, `MaxPolls`, `MaxLocks`, `MaxUndelivered`, and in the MC modules `Brief`,
`OneTransfer`, `OneRequest`, `OneFault`, `FirstToH1`. Parameters of the code, made small so that
they are reached, are `MaxFailures` (scheduler, session), `MaxAttempts` (queue),
`MaxRetries`, `LeaseTTL`, `ExecLimit`, `BackoffCap`, `StaleAfter`, `Batch`, `Limit`,
`Budget`, `Migrations`, `MaxSigners`; `OwnKeys` in `MCScheduledTransfers` says in
which parts each transfer has a session key to itself. `CHECK_DEADLOCK FALSE` stands where a clock or
a number of calls is bounded, so that the system stops at the bound.
Three attempts in the deployment are what it takes to retry a retry, and two passwords
what it takes to come back with another one; the run has one screen, and several are
left to the theorem. Four events
in three ledgers give a page that ends inside a ledger, one that ends on its
border and one event behind both. Symmetry is used in `contracts` (addresses) and
`clients` (calls, passwords, workers), whose runs check no liveness.

**Timeliness.** That no execution outlives its lease, and no delivery its stale
window, is assumed by the code and not enforced. Scheduler and queue each have a
history `overran` that says whether it has happened. `LeaseMutex`, `ActiveUnique` and
`CancelledIdleIsFinal` hold whether it has or not; `DeliveriesCounted` and
`LifecycleKept` hold until it does; `SubmissionsAccounted` names for each of its parts
whether it needs the leases (`~overran`), one process (`OneProcess`: no second one
has polled) or keys that are not shared (`KeysApart`), and so does `LogIsTrusted`.
The parts *late* let executions and deliveries take any time (`TimelyRelay`, `Timely`);
`JobsSettle` is checked in the part *timely*.

**Fairness.** Weak fairness for each instance's own steps: Node's event loop
and tokio go on to the next step, `setTimeout` and the poll loops of
`SchedulerEngine`, `QueueWorker` and `main.rs` re-arm themselves after an error,
and the orchestrator restarts processes. Weak fairness of the clock where
something waits for an expiry. Strong fairness in one place: a process that
waits for the advisory lock gets it if it is free again and again (`TakeLock`),
since Postgres serves the waiters of a lock in turn. An attempt to deploy goes
on (`Attempt`) because its polling is capped at 45 seconds, whatever the ledger
does. No fairness for crashes, failing queries, user requests, taps, approvals,
operators' commands, deployments or the ledger. Handlers of jobs settle
(`DeliveryStep`), which `QueueWorker` relies on as well.

## Findings

- `scheduler_double_run`: `tryAcquireLease` looks at the lease row only. An
  instance whose `listDue` answer predates another's completed execution takes
  the freed lease and relays the same one-time transfer again.
- `account_quorum`: after `initialize_multi_owner` the single owner recorded by
  `initialize` still executes alone, whatever the threshold.
- `ingest_split`: the batch limit may end a page inside a ledger; the
  checkpoint then names that ledger, and the rest of its events is never read.
  `CheckpointComplete` therefore leaves out the ledgers a page can cut (`Cuts`).
- `vault_change_dies`: `changePassword` overwrites the items one after the other
  before it stores the salt they were encrypted under. A death or a lock in
  between leaves a vault that no password opens whole, although the comment says
  that the old salt still refers to a readable vault.
- `deployment_retry`: `deployAccount` looks for an owner and for the WASM but not
  for the instance. An attempt that left an instance without owner makes every
  later attempt fail at its creation, although the comment calls it safe to
  retry.

Seen while modelling, and followed by the models without a run of their own:

- Relayer: a transfer at its failure cap cannot be written as `failed` and stays
  due; its derived nonce stops growing at the 50 rows `listExecutions` returns;
  transfers of one session key derive each other's nonces, so that the later is
  refused as a replay, a one-time one is then completed without having been
  relayed, and two processes (whose leases are per transfer) may submit one nonce
  for two transfers; a late `nack` revives a completed job, and so does the `nack` that follows an `ack`
  whose answer was lost; crashes do not count towards
  `maxAttempts`; the promise of `stop()` may resolve while a `dequeue` is in
  flight; a nonce stays on record when the submission fails; a failing nonce
  query rejects an async Express handler and ends the process;
  `PgIdempotencyStore.get` deletes by key what may by then be a fresh row;
  `server.close()` does not wait for a handler whose client has gone.
- Contracts: `refresh_session_key_ttl` normalises an expiry again; a signer named
  twice counts twice towards the governor's threshold.
- Indexer: a full page of unparseable events stops the indexer where it is; dead
  letters that never normalise fill every listing up to `--limit`; two events of
  one type in one transaction share a row key; a backfill only warns of events
  that do not normalise.
- Extension: `APPROVE_ACCESS_REQUEST` has no listener, so access is never granted;
  unlocks in flight together count as one failure; the status page shows a failed transaction as
  confirmed, and a late answer overwrites a newer one; a retry that is answered with a
  result code is shown as rejected while the first copy waits in the network and may
  still be paid; `importWallet` stands
  outside the `try`, so a phrase of 24 words, which the import screen accepts,
  leaves the screen in progress for ever; a vault of another wallet makes `unlock`
  return false, and success is shown all the same; a screen closed after `unlock` and
  before `saveAccount`, and the phrase entered again with another password, end in the same
  success, with no record in the vault; when `getContractWasmByHash` fails for a
  WASM that is installed, it is uploaded again; the friendbot may refuse an
  account it has funded, and every retry ends there.
- Vault: after a change that was cut short, `persistAccount` reads the records it cannot
  open as none and overwrites them.
- Mobile: `signMessage` is answered without the user being asked; a request or proposal displaced by a newer one, or by the timer of the
  success page, is never answered; when the delivery of a result fails, an error
  is sent after it; the timer of a proposal sends nothing.

`PROJECT.json` has the hazards among these at their lines.

## Proofs

`tlapm` checks every leaf. The proofs assume only the named assumption on the
constants at the head of each module. Components that share a run share a module
of proofs.

- **ScheduledTransfersProofs**, for any number of instances and transfers, any
  lease length, any crashes and failing queries. `TypeCorrect`, `LeasesHeld`,
  `LeasesExclude`, `LeasesRespected`: `LeaseHeld` is not inductive alone, since a step
  of one instance could drop the lease of another unless one knows that a lease row
  names the instance that wrote it and that its expiry is the one the instance
  remembers. `LeaseMutex` follows, since one row has one owner. The rest needs what a
  tick works on: `TickInv` says that its snapshots are of distinct, created transfers
  and agree with the rows in what never changes.
  - `CancelledForGood`: `StoppedInv` adds that no tick knows of a transfer that was
    cancelled while none had listed it.
  - `SubmissionsAreAccounted`: `Recorded` (what has left is on record under its key),
    `NewUntilSubmitted` (a nonce that passed the check is new until it leaves; here
    `InTime` and the leases, or the single process, keep others away), and
    `LogCounts`, which counts the instances about to append: the sets of indices and
    of instances change by one element at a time.
  - A query that throws after it was committed writes what the step writes that it
    cut short (`RowWritten`, `DbErrorWrites`), so each invariant has one lemma for both.
  - `OnceRelayed`: `OnceInv` counts submissions against faults, with one less as long as
    the transfer may be submitted again. It needs a single process; with two the
    statement is false (`scheduler_double_run`).
  - `LogTrusted`: `SnapshotsFresh` and `FailuresFollow` follow the failure count
    through an execution, `Logs` and `IsStreak` give the run of failures without
    recursion, and `NoncesDerived` says that every nonce of a transfer was
    derived from a shorter log.
- **JobQueueProofs**: `TypeCorrect` and `KeysUnique` for deliveries of any length;
  `OneDeliveryAtATime`, `FailuresCounted`, `DeliveriesAreCounted`, `QueueKeepsLifecycle`
  until one has outlasted the stale window, and `QueueImplementsLifecycle` for queues
  where none does. `BaseInv` holds in any case. In time, a delivery and the job it
  is of have the same age, below `StaleAfter` (`Held`), so that nobody reclaims a job in
  hand; or its ack was committed unheard, and the row stays completed until its nack
  (`Doubtful`). A delivery that may still write is one or the other (`Live`); hence a row
  that `ack` or `nack` writes is the row it dequeued, and each step of the queue is a step
  of `JobLifecycle`, `Retract` for a doubtful one, or leaves its rows alone. `RoomInv`
  says that each job was made by its own call, which gives the id a new job takes.
  That a handler succeeds again only after a fault takes `SuccessesExplained`: all
  successes but the one that is `Credited` to the row have been lost to a crash, a
  failing query or a process that left. A fault is counted when it happens and its loss
  may come later, so `Faults` leaves out those whose loss is still `Owed`: by a process
  that is leaving, or by an ack that was committed unheard.
- **RelayerProofs**. *Requests*: `TypeCorrect`, `NonceRecordedFirst`, `SuccessesTrue`,
  `CheckedBeforeHanded`. The invariant says what an attempt at each step has
  behind it: from `simulate` on, its nonce is on record; an answer `success`, in
  an attempt or in the idempotency table, is of an accepted call of that key.
  *Processes*: `ProcessTypesCorrect`, `MigrationsOnce`, `ShutdownKeepsOrder`, for any
  number of processes and migrations and any budget. A transaction is open under the
  lock only, the migrations a process has passed are committed or its own, the one
  it found missing still is, and a process serves only when all are applied. In a
  shutdown, the closers begin when both drains have settled, and a drain is given
  up only when the budget is used up.
- **AccountProofs**: `TypeCorrect`, `MessagesOnce`, `QuorumExists`, `WindowsAddUp`,
  `SlidingBound`, for any owners, keys, argument lists, policies and times.
  `NoReplay` follows from `NoncesPast` (every executed message has a smaller
  nonce) and `Unborn` (nothing was executed before `initialize`, which sets the
  nonce to 0). The spend bounds follow from `Books`: an entry carries what its key
  paid since its window began; when that window is over nothing has been paid at
  this instant, so the reset loses nothing; and no stretch as long as the window
  that ends where it began saw more than the limit. Two such stretches cover any
  other, hence twice the limit. That `SpendOf` is a number at all rests on
  `Largest`: a finite set of integers has a largest member.
- **ContractProofs**. *Invoices*: `InvoiceTypes`, `PaidOnce`, `DueDatesAgree`,
  `FinalInvoicesStay`, `BooksAreInOrder`, for any parties, amounts and due dates. The
  books add up sums and follow loops, and induction over data is out of the prover's
  reach: in its place, of the subsets of a finite set that have some property one is
  least (`LeastSubset`), and so is the first count at which a loop goes wrong
  (`CountingUp`). `AmountsAdd` is what that gives for sums: one more invoice adds
  its amount, in whatever order the sum is taken; `GetByAccountMerges`, for listings:
  those of both indexes, each once. `IndexesTrue` says that each index has the
  invoices of its party, and the counter is their number. *Upgrades*:
  `GovernorTypes`, `OnceAndInTime`, `QuorumOfSigners`. A proposal's time is that of its
  making plus the delay promised then; an upgrade marks it executed; nothing is both
  executed and cancelled. The quorum follows from an injection of the entries of a
  list that names nobody twice into its signers.
- **IndexerIngestProofs**: `TypeCorrect`, `NothingLost`, `MarkedAreStored`,
  `BackfillsCover`. `Good(j, ...)` states for each job what its cursor vouches
  for: every due event up to it is kept, still to be written, or still to be
  recorded as failed. The tables only grow (`Grows`), which keeps the jobs of all
  other processes good; `FetchedClosed` shows that a page leaves no gap behind
  its last event outside a cut ledger, from the order of the stream and
  cardinalities alone.
- **ClientsProofs**. *Payouts*: `PayoutsTyped`, `PayoutsAreTrue`, for any files, workers
  and runs. `RowsShared` says that a row of a running batch is waiting, or with one
  worker, or settled; `CampaignCounted` that what may be posted again was either not
  posted or counted as cut; `AnswersKept` that every success was answered in a
  run of the same campaign. The attempt to prove this showed that a campaign is not
  over when another file is executed in between: a file whose checkpoint is
  still there is resumed from it, which is why `first`, `sent` and `cut` are kept
  for each file. *Requests of dApps*: `WalletTyped`, `DappsAreAnswered`, for any
  requests, sessions and taps. `HandlersEntitled` says what each handler's next step
  has been allowed by; `SheetsMatch`, that a sheet shows requests of its kind;
  `TimersCounted`, that each timer of the success page had a handler of its own.
  *Vault*: `VaultTypeCorrect`, `VaultIsKept`, for any calls, passwords, items, salts and
  deaths. `Apart` leaves only unlocks and saves to overlap, so that whatever
  writes more than one entry writes alone, and `Ordered` says what each call may still
  assume of what it has read. `KeyRight` is the heart: a published key is that of the
  verification payload, or somebody is about to judge it or to store it; hence a save,
  which took its key before, encrypts under the right one. `Stage` follows a change
  from item to item: what is left is under the old key, what is done under the new
  one, and what was decrypted is what was stored. The attempt to prove it showed
  that a change that was cut short cannot be forgotten at the next change that succeeds, as
  the model once had it: in between, `persistAccount` takes records it cannot read for
  none and overwrites them. *Composition*: `ClientsCompose` shows that the run of all
  three adds nothing to any of them, which carries their theorems over: `ClientsTyped`,
  `ClientsAreTrue`.
- **ExtensionProofs**. *Payments*: `PaymentTyped`, `PaymentsAreTrue`. `LedgerFollows`
  ties what the network has to the calls that own a sequence number,
  `SendsCounted` bounds the retries, `OutcomesTrue` says what each outcome shown is
  worth. A rejection is the truth only of a payment sent once (`RejectedIsNeverPaid`); of
  any other, no call is more than one number ahead of the ledger, so whoever pays again
  while it waits does it under its number, and one of the two is paid (`RepaymentReplaces`).
  *Deployment*: `DeploymentIsTrue`. `OwnerFollows` says that a contract has an
  owner exactly when its initialization was included, `AttemptTrue` what an attempt
  at each step may rely on, `ProfileTrue` what a saved wallet has. `VaultFollows` follows
  the vault through its writes, for any screens and passwords: a first run is
  alone, what is stored or about to be stored is under the key that is checked
  (`KeysMatch`), and a vault without its record was cut short or is about to have it
  (`PhraseKept`). The theorem excludes by name what breaks this: a vault of another
  wallet, a call that failed, `raced`, and `cut` together with `refused`. `DeploymentTyped`
  bounds the account's sequence number by the transactions the network took:
  `NumbersTaken` gives every number included a transaction of its own, hence by
  cardinality (`NumbersCounted`) there are at least as many transactions, and the next
  one, which may be signed with a number read long before, is at most one ahead.
  *Session and requests of pages*: `ExternalTyped`, `SessionIsSafe`,
  `SigningIsConsented`, of both modules together. After a lock, `SealHolds`: nothing in
  flight can bring the session back. `TriesCounted` counts wrong passwords against
  failures and restarts while unlocks come one at a time. `RequestMatches` says what
  the entry, the callback, the screen and the signer of one request have in
  common at each moment. *Composition*: `ExtensionTyped` and `ExtensionIsTrue`,
  of the run of all four parts. A session step may end the worker, which requests and handlers share, so
  the invariant of these two is taken together; payments and deployment are untouched by it.

The theorems that state a property no run checks by that name: the type
invariants of the modules that share a run, `LeaseHeld`, `LeaseRespected`,
`HandedIsRecorded`, `WindowSpend`, `ReprocessedIsStored`, `FinalIsFinal`, and
`SingleDelivery`, `DeadAfterMaxFailures` and the refinement, which the runs of the
queue check as parts of `DeliveriesCounted` and `LifecycleKept`, and `ClientsCompose`.

Only model-checked: the liveness properties (`DueIsTaken`, `JobsSettle`, `CatchesUp`,
`ProcessSettles`, `ExtensionSettles`, `DeploymentEnds`), because `ENABLED` and fairness
are outside the prover's reach. Every other property
of a passing run is a theorem.

## Not modelled, and abstracted

Signatures, hashes, XDR and JSON encodings are taken as injective; a simulation
or a verification may succeed or fail. The RPC node serves closed ledgers in
order and counts events for its limit. `addOneUTCMonthClamped` is a period of
fixed length. Storage TTLs and resource fees of Soroban, statistics, logging and
metrics are left out, and so are the in-memory stores, which the production
configuration does not use.

- *Account and modules.* The account calls `validate` with three arguments
  (`contracts/account/src/lib.rs:438`), while `TargetAllowlistModule.validate` takes
  one `ValidationContext` (`contracts/validation-modules/src/lib.rs:187`): the two
  do not compose, and `Account` takes a module as the set of contracts it refuses.
- *Scheduler.* Queries of API requests do not fail: a request whose write never happens
  stays open, which the model allows, and one whose write was committed with its answer
  lost is the same to the tables.
- *Queue.* The stage `failed` of `queue/types.ts`, which no row ever has. Not covered
  by a property: attempts are counted by `nack` only, a worker
  may start a job after its stop has resolved, keys that are unique per
  transaction may collide.
- *Shutdown.* Timers that are `unref`'d and handlers of clients that have gone are
  in the model, but `ShutdownOrderly` does not speak of the latter.
- *Vault.* `Together` lists the calls the screens can overlap; others are left
  out. `changeVaultPassword` passes no additional keys, so only the items the
  manager knows are re-encrypted.
- *Extension.* Whether the wallet was onboarded is chosen once. The record that a
  lock or an unlock copies to `chrome.storage.local`, the hardware signer, the
  simulated total of the review and the validation of forms are left out. After a
  restart of the worker the session may be restored while the vault is locked,
  which `session-state.ts:4` does not mention.
- *Payments.* Assumed of Horizon: a transaction it has taken at some attempt gets a result
  code at that attempt only once its sequence number is used. Nothing is assumed of an
  attempt it declined. Without the first, a payment sent once could be shown as
  rejected and still be paid.
- *Onboarding.* A failing write of `chrome.storage` stores nothing. A vault that is already
  unlocked when the onboarding reaches it is left out.
- *Bulk payouts.* One page; the relayer is its idempotency table.
- *Mobile requests.* Pairing and the development mocks are left out.
- *Dashboard.* Its send hook runs in demo mode only.

`PROJECT.json` gives the reason for each component that has no module.

## Plan

1. *Done*: the scheduler, the queue, relay execution, the relayer's process, the
   three contracts, ingestion, the extension's session, requests, payments and
   deployment, the dashboard's payouts, the mobile wallet's requests and the vault,
   with a proof of every invariant.
2. *Left*: the validation module contracts, the lockout of the mobile wallet, the paging of
   histories.
