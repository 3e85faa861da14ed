---------------------------- MODULE RelayerProcess ----------------------------
(***************************************************************************)
(* The life of the relayer's processes: migrations, serving, shutdown      *)
(* (migrations.ts, server.ts, shutdown.ts, SchedulerEngine.ts).            *)
(*                                                                         *)
(* Steps are cut at the awaits.  The event loop runs a timer that is due   *)
(* before more time passes: time passes only while something is awaited    *)
(* whose deadline lies ahead.  One tick of time is longer than the few     *)
(* milliseconds runShutdown does not use, so they are not told from zero.  *)
(***************************************************************************)
EXTENDS Integers, FiniteSets

CONSTANTS
  Procs,         \* processes of all deployments
  Nobody,        \* holder of a free lock
  Migrations,    \* how many migrations there are
  Budget,        \* timeoutMs of runShutdown
  MaxConns,      \* bound on open requests of a process
  MaxFaults      \* bound on deaths and failing migration queries

ASSUME ProcessAssumption ==
  /\ Nobody \notin Procs
  /\ Migrations \in Nat /\ Budget \in Nat /\ MaxConns \in Nat /\ MaxFaults \in Nat

VARIABLES
  phase,         \* where main and runShutdown are
  applied,       \* relayer_schema_migrations, committed
  lock,          \* holder of the advisory lock
  next,          \* the migration a process is at
  missing,       \* it found that one not applied
  done,          \* those its open transaction has applied
  collided,      \* history: a migration was applied over a committed one
  polling,       \* running of the SchedulerEngine
  ticking,       \* inFlightTick
  conns,         \* requests in flight whose client is connected
  orphans,       \* handlers still at work for a client that has gone
  closed,        \* what closeServer resolved to, or "pending"
  drained,       \* what the drain of the scheduler resolved to, or "pending"
  pool,          \* the Postgres pool: "open", "ending", "ended"
  elapsed,       \* time since the signal
  closeBy,       \* deadline of the closers
  code,          \* exit code
  faults

migrationVars == <<applied, lock, next, missing, done, collided>>
workVars == <<polling, ticking, conns, orphans>>
shutdownVars == <<closed, drained, pool, elapsed, closeBy, code>>
processVars == <<phase, migrationVars, workVars, shutdownVars, faults>>

Phases == {"exited", "migrating", "serving", "draining", "closing"}
Results == {"pending", "yes", "no"}

ProcessTypeOK ==
  /\ phase \in [Procs -> Phases]
  /\ applied \subseteq 1..Migrations
  /\ lock \in Procs \union {Nobody}
  /\ next \in [Procs -> 1..(Migrations + 1)]
  /\ missing \in [Procs -> BOOLEAN]
  /\ done \in [Procs -> SUBSET (1..Migrations)]
  /\ collided \in BOOLEAN
  /\ polling \in [Procs -> BOOLEAN] /\ ticking \in [Procs -> BOOLEAN]
  /\ conns \in [Procs -> Nat] /\ orphans \in [Procs -> Nat]
  /\ closed \in [Procs -> Results] /\ drained \in [Procs -> Results]
  /\ pool \in [Procs -> {"open", "ending", "ended"}]
  /\ elapsed \in [Procs -> Nat] /\ closeBy \in [Procs -> Nat]
  /\ code \in [Procs -> {0, 1}]
  /\ faults \in Nat
  /\ \A p \in Procs : phase[p] # "migrating" \/ lock # p => done[p] = {} /\ ~missing[p]

ProcessInit ==
  /\ phase = [p \in Procs |-> "exited"]
  /\ applied = {} /\ lock = Nobody /\ collided = FALSE
  /\ next = [p \in Procs |-> 1]
  /\ missing = [p \in Procs |-> FALSE]
  /\ done = [p \in Procs |-> {}]
  /\ polling = [p \in Procs |-> FALSE] /\ ticking = [p \in Procs |-> FALSE]
  /\ conns = [p \in Procs |-> 0] /\ orphans = [p \in Procs |-> 0]
  /\ closed = [p \in Procs |-> "pending"] /\ drained = [p \in Procs |-> "pending"]
  /\ pool = [p \in Procs |-> "ended"]
  /\ elapsed = [p \in Procs |-> 0] /\ closeBy = [p \in Procs |-> 0]
  /\ code = [p \in Procs |-> 1]
  /\ faults = 0

-----------------------------------------------------------------------------
\* Start-up: runMigrations in one transaction under the advisory lock.

Boot(p) ==
  /\ phase[p] = "exited"
  /\ phase' = [phase EXCEPT ![p] = "migrating"]
  /\ next' = [next EXCEPT ![p] = 1]
  /\ pool' = [pool EXCEPT ![p] = "open"]
  /\ conns' = [conns EXCEPT ![p] = 0] /\ orphans' = [orphans EXCEPT ![p] = 0]
  /\ ticking' = [ticking EXCEPT ![p] = FALSE] /\ polling' = [polling EXCEPT ![p] = FALSE]
  /\ closed' = [closed EXCEPT ![p] = "pending"]
  /\ drained' = [drained EXCEPT ![p] = "pending"]
  /\ elapsed' = [elapsed EXCEPT ![p] = 0]
  /\ code' = [code EXCEPT ![p] = 1]
  /\ UNCHANGED <<applied, lock, missing, done, collided, closeBy, faults>>

LockHeldNotAsked(p) == TRUE \* mutant: no advisory lock
LockHeld(p) == lock = p

TakeLock(p) ==
  /\ phase[p] = "migrating" /\ lock = Nobody
  /\ lock' = p
  /\ UNCHANGED <<phase, applied, next, missing, done, collided, workVars, shutdownVars, faults>>

\* The SELECT of one migration; each statement sees what others have committed.
LookForMigration(p) ==
  /\ phase[p] = "migrating" /\ LockHeld(p)
  /\ ~missing[p] /\ next[p] <= Migrations
  /\ IF next[p] \in applied
     THEN next' = [next EXCEPT ![p] = @ + 1] /\ UNCHANGED missing
     ELSE missing' = [missing EXCEPT ![p] = TRUE] /\ UNCHANGED next
  /\ UNCHANGED <<phase, applied, lock, done, collided, workVars, shutdownVars, faults>>

\* Its statements and the INSERT.
ApplyMigration(p) ==
  /\ phase[p] = "migrating" /\ missing[p]
  /\ collided' = (collided \/ next[p] \in applied)
  /\ done' = [done EXCEPT ![p] = @ \union {next[p]}]
  /\ next' = [next EXCEPT ![p] = @ + 1]
  /\ missing' = [missing EXCEPT ![p] = FALSE]
  /\ UNCHANGED <<phase, applied, lock, workVars, shutdownVars, faults>>

EndTransactionNotLock(p, committed) == \* mutant: the lock is not the transaction's
  /\ applied' = applied \union committed
  /\ lock' = lock
  /\ done' = [done EXCEPT ![p] = {}]
  /\ missing' = [missing EXCEPT ![p] = FALSE]
\* The transaction ends, and with it the lock.
EndTransaction(p, committed) ==
  /\ applied' = applied \union committed
  /\ lock' = IF lock = p THEN Nobody ELSE lock
  /\ done' = [done EXCEPT ![p] = {}]
  /\ missing' = [missing EXCEPT ![p] = FALSE]

\* COMMIT; then the scheduler starts and the server listens.
Serve(p) ==
  /\ phase[p] = "migrating" /\ LockHeld(p) /\ next[p] > Migrations
  /\ EndTransaction(p, done[p])
  /\ phase' = [phase EXCEPT ![p] = "serving"]
  /\ polling' = [polling EXCEPT ![p] = TRUE]
  /\ UNCHANGED <<next, collided, ticking, conns, orphans, shutdownVars, faults>>

Exit(p, c) ==
  /\ phase' = [phase EXCEPT ![p] = "exited"]
  /\ code' = [code EXCEPT ![p] = c]

\* A failing query rolls back and ends the process; so does a death anywhere,
\* a signal before the handlers are installed included.
Dies(p) ==
  /\ phase[p] # "exited" /\ faults < MaxFaults
  /\ faults' = faults + 1
  /\ EndTransaction(p, {})
  /\ Exit(p, 1)
  /\ UNCHANGED <<next, collided, workVars, closed, drained, pool, elapsed, closeBy>>

-----------------------------------------------------------------------------
\* Work: ticks of the scheduler and requests.

Running(p) == phase[p] \in {"serving", "draining", "closing"}

TickStarts(p) ==
  /\ Running(p) /\ polling[p] /\ ~ticking[p]
  /\ ticking' = [ticking EXCEPT ![p] = TRUE]
  /\ UNCHANGED <<phase, migrationVars, polling, conns, orphans, shutdownVars, faults>>

\* runTick's finally; the next poll is armed only while polling.
TickEnds(p) ==
  /\ Running(p) /\ ticking[p]
  /\ ticking' = [ticking EXCEPT ![p] = FALSE]
  /\ UNCHANGED <<phase, migrationVars, polling, conns, orphans, shutdownVars, faults>>

RequestArrives(p) ==
  /\ phase[p] = "serving" /\ conns[p] + orphans[p] < MaxConns
  /\ conns' = [conns EXCEPT ![p] = @ + 1]
  /\ UNCHANGED <<phase, migrationVars, polling, ticking, orphans, shutdownVars, faults>>

RequestAnswered(p) ==
  /\ Running(p) /\ conns[p] > 0
  /\ conns' = [conns EXCEPT ![p] = @ - 1]
  /\ UNCHANGED <<phase, migrationVars, polling, ticking, orphans, shutdownVars, faults>>

\* The client hangs up; the handler goes on.
ClientLeaves(p) ==
  /\ Running(p) /\ conns[p] > 0
  /\ conns' = [conns EXCEPT ![p] = @ - 1]
  /\ orphans' = [orphans EXCEPT ![p] = @ + 1]
  /\ UNCHANGED <<phase, migrationVars, polling, ticking, shutdownVars, faults>>

OrphanEnds(p) ==
  /\ Running(p) /\ orphans[p] > 0
  /\ orphans' = [orphans EXCEPT ![p] = @ - 1]
  /\ UNCHANGED <<phase, migrationVars, polling, ticking, conns, shutdownVars, faults>>

-----------------------------------------------------------------------------
\* Shutdown.

StillPolling(p) == polling \* mutant: drain leaves the poll timer armed
\* stop() of the SchedulerEngine.
PollingStopped(p) == [polling EXCEPT ![p] = FALSE]

\* The first signal: server.close() and drain(), which clears the poll timer.
Signal(p) ==
  /\ phase[p] = "serving"
  /\ phase' = [phase EXCEPT ![p] = "draining"]
  /\ polling' = PollingStopped(p)
  /\ UNCHANGED <<migrationVars, ticking, conns, orphans, shutdownVars, faults>>

\* A second one.
SignalAgain(p) ==
  /\ phase[p] \in {"draining", "closing"}
  /\ Exit(p, 1)
  /\ UNCHANGED <<migrationVars, workVars, closed, drained, pool, elapsed, closeBy, faults>>

\* The callback of close: the last connection has gone.
ServerCloses(p) ==
  /\ phase[p] = "draining" /\ closed[p] = "pending" /\ conns[p] = 0
  /\ closed' = [closed EXCEPT ![p] = "yes"]
  /\ UNCHANGED <<phase, migrationVars, workVars, drained, pool, elapsed, closeBy, code, faults>>

DrainedWhileTicking(p) == TRUE \* mutant: drain does not wait for the tick
TickIsOver(p) == ~ticking[p]

SchedulerDrains(p) ==
  /\ phase[p] = "draining" /\ drained[p] = "pending" /\ TickIsOver(p)
  /\ drained' = [drained EXCEPT ![p] = "yes"]
  /\ UNCHANGED <<phase, migrationVars, workVars, closed, pool, elapsed, closeBy, code, faults>>

DrainTimesOutServerOnly(p) == \* mutant: no deadline for the scheduler's drain
  /\ phase[p] = "draining" /\ elapsed[p] = Budget
  /\ closed[p] = "pending" /\ closed' = [closed EXCEPT ![p] = "no"]
  /\ UNCHANGED <<phase, migrationVars, workVars, drained, pool, elapsed, closeBy, code, faults>>
\* The timers of closeServer, of drain and of withDeadline.
DrainTimesOut(p) ==
  /\ phase[p] = "draining" /\ elapsed[p] = Budget
  /\ \/ /\ closed[p] = "pending" /\ closed' = [closed EXCEPT ![p] = "no"]
        /\ UNCHANGED drained
     \/ /\ drained[p] = "pending" /\ drained' = [drained EXCEPT ![p] = "no"]
        /\ UNCHANGED closed
  /\ UNCHANGED <<phase, migrationVars, workVars, pool, elapsed, closeBy, code, faults>>

RemainingFresh(p) == Budget \* mutant: a fresh budget for the closers
\* remainingMs
Remaining(p) == Budget - elapsed[p]

Settled(p) == phase[p] = "draining" /\ closed[p] # "pending" /\ drained[p] # "pending"

\* The closers start with what is left of the budget.
StartClosers(p) ==
  /\ Settled(p) /\ Remaining(p) > 0
  /\ phase' = [phase EXCEPT ![p] = "closing"]
  /\ closeBy' = [closeBy EXCEPT ![p] = elapsed[p] + Remaining(p)]
  /\ pool' = [pool EXCEPT ![p] = "ending"]
  /\ UNCHANGED <<migrationVars, workVars, closed, drained, elapsed, code, faults>>

NoBudgetLeft(p) ==
  /\ Settled(p) /\ ~(Remaining(p) > 0)
  /\ Exit(p, 1)
  /\ UNCHANGED <<migrationVars, workVars, closed, drained, pool, elapsed, closeBy, faults>>

\* Zero if everything drained and was released.
CleanCode(p) == IF closed[p] = "yes" /\ drained[p] = "yes" THEN 0 ELSE 1

PoolEnds(p) ==
  /\ phase[p] = "closing"
  /\ pool' = [pool EXCEPT ![p] = "ended"]
  /\ Exit(p, CleanCode(p))
  /\ UNCHANGED <<migrationVars, workVars, closed, drained, elapsed, closeBy, faults>>

\* pool.end() rejects, or its deadline passes.
PoolFails(p) ==
  /\ phase[p] = "closing"
  /\ \/ elapsed[p] = closeBy[p]
     \/ faults < MaxFaults
  /\ faults' = IF elapsed[p] = closeBy[p] THEN faults ELSE faults + 1
  /\ Exit(p, 1)
  /\ UNCHANGED <<migrationVars, workVars, closed, drained, pool, elapsed, closeBy>>

\* Time passes while runShutdown awaits something that is not yet due.
Elapse(p) ==
  /\ \/ phase[p] = "draining" /\ ~Settled(p) /\ elapsed[p] < Budget
     \/ phase[p] = "closing" /\ elapsed[p] < closeBy[p]
  /\ elapsed' = [elapsed EXCEPT ![p] = @ + 1]
  /\ UNCHANGED <<phase, migrationVars, workVars, closed, drained, pool, closeBy, code, faults>>

-----------------------------------------------------------------------------
Migrate(p) == TakeLock(p) \/ LookForMigration(p) \/ ApplyMigration(p) \/ Serve(p)

\* What the event loop does by itself once the signal has come.
Wind(p) ==
  \/ ServerCloses(p) \/ SchedulerDrains(p) \/ DrainTimesOut(p)
  \/ StartClosers(p) \/ NoBudgetLeft(p) \/ PoolFails(p) \/ Elapse(p)

ProcessNext ==
  \E p \in Procs :
    \/ Boot(p) \/ Migrate(p) \/ Dies(p)
    \/ TickStarts(p) \/ TickEnds(p)
    \/ RequestArrives(p) \/ RequestAnswered(p) \/ ClientLeaves(p) \/ OrphanEnds(p)
    \/ Signal(p) \/ SignalAgain(p) \/ Wind(p) \/ PoolEnds(p)

\* Handlers, ticks and pool.end() need not settle; the database answers, and
\* hands the advisory lock to those that wait for it in turn.
ProcessFairness ==
  \A p \in Procs : /\ WF_processVars(Migrate(p)) /\ SF_processVars(TakeLock(p))
                  /\ WF_processVars(Wind(p))

ProcessSpec == ProcessInit /\ [][ProcessNext]_processVars /\ ProcessFairness

-----------------------------------------------------------------------------
(***************************************************************************)
(* Properties.                                                             *)
(***************************************************************************)

\* While the pool is being closed no tick runs and no client awaits an answer
\* ("closing it while requests are still draining would fail the very work
\* shutdown exists to protect", runShutdown).  A handler whose client has gone is
\* not waited for.
PoolOutlivesWork ==
  \A p \in Procs : phase[p] = "closing" => ~ticking[p] /\ conns[p] = 0

\* The whole shutdown ends within its budget, whatever hangs (withDeadline,
\* closeServer, remainingMs).
ExitWithinBudget == \A p \in Procs : elapsed[p] <= Budget

\* Exit code 0 means that nothing a client or the schedule waits for was cut off
\* and that the connections were released (the result of runShutdown).
CleanExitIsClean ==
  \A p \in Procs : phase[p] = "exited" /\ code[p] = 0 =>
    ~ticking[p] /\ conns[p] = 0 /\ pool[p] = "ended"

\* A shutdown lets work finish, within its budget, and says so only then.
ShutdownOrderly == PoolOutlivesWork /\ ExitWithinBudget /\ CleanExitIsClean

\* No process serves before every migration is committed, and two that start
\* together never apply the same one (runMigrations' lock and its SELECT).
MigratedOnce ==
  /\ ~collided
  /\ \A p \in Procs : Running(p) => applied = 1..Migrations

\* A process told to stop exits (the deadlines).
SignalledExits ==
  \A p \in Procs : phase[p] = "draining" ~> phase[p] = "exited"

\* A process that starts serves, or dies: none waits for the lock for ever.
StarterServes ==
  \A p \in Procs : phase[p] = "migrating" ~> phase[p] # "migrating"
=============================================================================
