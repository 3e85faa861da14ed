------------------------------- MODULE JobQueue -------------------------------
(***************************************************************************)
(* The relayer's persistent job queue (PgJobQueue) and the workers that    *)
(* poll it (QueueWorker), one worker per process.                          *)
(*                                                                         *)
(* Each await on the database is a step of its own: the three queries of   *)
(* enqueue, dequeue and the resumption of the poll loop, the handler, ack, *)
(* the two queries of nack and the read of the final status.  Times are    *)
(* kept relative to now: a processing job and a delivery have an age, a    *)
(* job to be retried a wait; a unit is the base of the retry backoff.      *)
(***************************************************************************)
EXTENDS Integers, Sequences, FiniteSets

CONSTANTS
  Workers,      \* worker processes
  Concurrency,  \* jobs one worker handles at once
  Requests,     \* enqueue calls
  Keys,         \* idempotency keys
  MaxAttempts,  \* maxAttempts of every job
  StaleAfter,   \* age at which a processing job is handed out again
  BackoffCap,   \* capMs of computeBackoffMs
  Timely,       \* TRUE: every delivery ends before its job goes stale
  MaxCrashes,   \* bound on crashes and stops of worker processes
  MaxDbErrors   \* bound on failing queries

ASSUME JobQueueAssumption ==
  /\ Concurrency \in Nat \ {0}
  /\ IsFiniteSet(Requests) /\ IsFiniteSet(Workers)
  /\ MaxAttempts \in Nat \ {0}
  /\ StaleAfter \in Nat \ {0}
  /\ BackoffCap \in Nat \ {0}
  /\ Timely \in BOOLEAN
  /\ MaxCrashes \in Nat
  /\ MaxDbErrors \in Nat

VARIABLES
  jobs,        \* the jobs table, in order of created_at
  tally,       \* history, per job: claims, handler successes, failures, and
               \* whether it was completed by an ack whose answer was lost
  req,         \* the enqueue calls
  proc,        \* state of each worker process
  poll,        \* where each worker's poll loop is
  deliveries,  \* jobs handed to a worker and not finished with
  overran,     \* history: a delivery has outlasted the stale window
  crashes, dbErrors

vars == <<jobs, tally, req, proc, poll, deliveries, overran, crashes, dbErrors>>

-----------------------------------------------------------------------------
\* No code writes the type's fifth status, "failed".
JobStatuses == {"pending", "processing", "completed", "dead"}
Terminal == {"completed", "dead"}

Job == [key : Keys, status : JobStatuses, attempts : Nat,
        age : 0..StaleAfter, wait : Nat]

\* "claimed": the row is taken but the poll loop has not resumed, so the
\* delivery is not counted in activeJobs yet.
Phases == {"claimed", "handler", "ack", "nack", "nackWrite", "stat"}

Delivery == [worker : Workers, job : Nat, claim : Nat, at : Phases,
             age : 0..StaleAfter, read : Nat]

Keyless == "none"

JobIds == DOMAIN jobs

TypeOK ==
  /\ jobs \in Seq(Job)
  /\ tally \in Seq([claims : Nat, done : Nat, failures : Nat, unheard : BOOLEAN])
  /\ DOMAIN tally = JobIds
  /\ \A r \in Requests :
       /\ req[r].at \in {"new", "insert", "refetch", "answered", "threw"}
       /\ req[r].at = "answered" => req[r].job \in JobIds
  /\ proc \in [Workers -> {"up", "draining", "stopped", "gaveUp", "down"}]
  /\ poll \in [Workers -> {"off", "timer", "query", "resume"}]
  /\ deliveries \subseteq Delivery
  /\ \A d \in deliveries : d.job \in JobIds
  /\ overran \in BOOLEAN
  /\ crashes \in 0..MaxCrashes
  /\ dbErrors \in 0..MaxDbErrors

Init ==
  /\ jobs = << >>
  /\ tally = << >>
  /\ req = [r \in Requests |-> [at |-> "new", key |-> Keyless, job |-> 0]]
  /\ proc = [w \in Workers |-> "up"]
  /\ poll = [w \in Workers |-> "timer"]
  /\ deliveries = {}
  /\ overran = FALSE
  /\ crashes = 0
  /\ dbErrors = 0

-----------------------------------------------------------------------------
\* enqueue.  A statement whose query fails may be committed all the same: its
\* answer was lost.

ActiveJobs(k) == {j \in JobIds : jobs[j].key = k /\ jobs[j].status \notin Terminal}

Answer(r, k, j) == req' = [req EXCEPT ![r] = [at |-> "answered", key |-> k, job |-> j]]

EnqueueFind(r) ==
  /\ req[r].at = "new"
  /\ \E k \in Keys :
       \/ \E j \in ActiveJobs(k) : Answer(r, k, j)
       \/ /\ ActiveJobs(k) = {}
          /\ req' = [req EXCEPT ![r] = [at |-> "insert", key |-> k, job |-> 0]]
  /\ UNCHANGED <<jobs, tally, proc, poll, deliveries, overran, crashes, dbErrors>>

NewJob(k) == [key |-> k, status |-> "pending", attempts |-> 0, age |-> 0, wait |-> 0]

NewTally == [claims |-> 0, done |-> 0, failures |-> 0, unheard |-> FALSE]

\* idx_jobs_active_idempotency: ON CONFLICT DO NOTHING on an active job's key.
InsertAllowed(k) == ActiveJobs(k) = {}

Insert(k) ==
  /\ InsertAllowed(k)
  /\ jobs' = Append(jobs, NewJob(k))
  /\ tally' = Append(tally, NewTally)

EnqueueInsert(r) ==
  LET k == req[r].key IN
  /\ req[r].at = "insert"
  /\ \/ Insert(k) /\ Answer(r, k, Len(jobs) + 1)
     \/ /\ ~InsertAllowed(k)
        /\ req' = [req EXCEPT ![r].at = "refetch"]
        /\ UNCHANGED <<jobs, tally>>
  /\ UNCHANGED <<proc, poll, deliveries, overran, crashes, dbErrors>>

EnqueueRefetch(r) ==
  LET k == req[r].key IN
  /\ req[r].at = "refetch"
  /\ \/ \E j \in ActiveJobs(k) : Answer(r, k, j)
     \/ ActiveJobs(k) = {} /\ req' = [req EXCEPT ![r].at = "threw"]
  /\ UNCHANGED <<jobs, tally, proc, poll, deliveries, overran, crashes, dbErrors>>

\* A failing query ends the call, except for the INSERT, whose error is caught
\* whether or not the row was written.
EnqueueFails(r) ==
  /\ dbErrors < MaxDbErrors
  /\ req[r].at \in {"new", "insert", "refetch"}
  /\ req' = [req EXCEPT ![r].at = IF @ = "insert" THEN "refetch" ELSE "threw"]
  /\ \/ req[r].at = "insert" /\ Insert(req[r].key)
     \/ UNCHANGED <<jobs, tally>>
  /\ dbErrors' = dbErrors + 1
  /\ UNCHANGED <<proc, poll, deliveries, overran, crashes>>

EnqueueStep(r) == EnqueueFind(r) \/ EnqueueInsert(r) \/ EnqueueRefetch(r)

-----------------------------------------------------------------------------
\* The poll loop.

Active(w) == {d \in deliveries : d.worker = w /\ d.at # "claimed"}

\* The loop condition, and what finally() does once the loop is left.
LoopNext(w, active) ==
  IF proc[w] # "up" THEN "off"
  ELSE IF active < Concurrency THEN "query" ELSE "timer"

Reschedule(w) == IF proc[w] = "up" THEN "timer" ELSE "off"

PollTimer(w) ==
  /\ poll[w] = "timer" /\ proc[w] = "up"
  /\ Cardinality(Active(w)) < Concurrency
  /\ poll' = [poll EXCEPT ![w] = "query"]
  /\ UNCHANGED <<jobs, tally, req, proc, deliveries, overran, crashes, dbErrors>>

EligibleEarly(j) == \* mutant: the stale window one unit short
  \/ jobs[j].status = "pending" /\ jobs[j].wait = 0
  \/ jobs[j].status = "processing" /\ jobs[j].age + 1 >= StaleAfter
EligiblePendingOnly(j) == \* mutant: stale jobs are not reclaimed
  jobs[j].status = "pending" /\ jobs[j].wait = 0

Eligible(j) ==
  \/ jobs[j].status = "pending" /\ jobs[j].wait = 0
  \/ jobs[j].status = "processing" /\ jobs[j].age >= StaleAfter

Oldest(j) == Eligible(j) /\ \A i \in JobIds : Eligible(i) => j <= i

\* The CTE with FOR UPDATE SKIP LOCKED takes the job in one statement.
Take(j) ==
  /\ jobs' = [jobs EXCEPT ![j].status = "processing", ![j].age = 0]
  /\ tally' = [tally EXCEPT ![j].claims = @ + 1]

Dequeue(w) ==
  /\ poll[w] = "query"
  /\ \/ /\ \E j \in JobIds :
             /\ Oldest(j)
             /\ Take(j)
             /\ deliveries' = deliveries \union
                  {[worker |-> w, job |-> j, claim |-> tally[j].claims + 1,
                    at |-> "claimed", age |-> 0, read |-> 0]}
        /\ poll' = [poll EXCEPT ![w] = "resume"]
     \/ /\ \A j \in JobIds : ~Eligible(j)
        /\ poll' = [poll EXCEPT ![w] = Reschedule(w)]
        /\ UNCHANGED <<jobs, tally, deliveries>>
  /\ UNCHANGED <<req, proc, overran, crashes, dbErrors>>

\* The query fails, or its answer is lost after it committed; the catch of
\* schedulePoll swallows the error.
DequeueFails(w) ==
  /\ dbErrors < MaxDbErrors /\ poll[w] = "query"
  /\ \/ UNCHANGED <<jobs, tally>>
     \/ \E j \in JobIds : Oldest(j) /\ Take(j)
  /\ poll' = [poll EXCEPT ![w] = Reschedule(w)]
  /\ dbErrors' = dbErrors + 1
  /\ UNCHANGED <<req, proc, deliveries, overran, crashes>>

\* poll() resumes: activeJobs++, the handler starts, and the loop goes on.
Dispatch(w) ==
  /\ poll[w] = "resume"
  /\ \E d \in deliveries :
       /\ d.worker = w /\ d.at = "claimed"
       /\ deliveries' = (deliveries \ {d}) \union {[d EXCEPT !.at = "handler"]}
  /\ poll' = [poll EXCEPT ![w] = LoopNext(w, Cardinality(Active(w)) + 1)]
  /\ UNCHANGED <<jobs, tally, req, proc, overran, crashes, dbErrors>>

PollStep(w) == PollTimer(w) \/ Dequeue(w) \/ Dispatch(w)

-----------------------------------------------------------------------------
\* finish(): what happens to a delivery.

Becomes(d, e) == deliveries' = (deliveries \ {d}) \union {e}
Goto(d, to) == Becomes(d, [d EXCEPT !.at = to])

AfterHandlerAlwaysAck(ok) == "ack" \* mutant: the handler's error is swallowed
AfterHandler(ok) == IF ok THEN "ack" ELSE "nack"

Handle(d) ==
  /\ d.at = "handler"
  /\ \E ok \in BOOLEAN :
       /\ Goto(d, AfterHandler(ok))
       /\ tally' = IF ok THEN [tally EXCEPT ![d.job].done = @ + 1] ELSE tally
  /\ UNCHANGED <<jobs, req, proc, poll, overran, crashes, dbErrors>>

Complete(j) == jobs' = [jobs EXCEPT ![j].status = "completed", ![j].age = 0]

\* ack: an unconditional UPDATE; activeJobs-- follows at once.
Ack(d) ==
  /\ d.at = "ack"
  /\ Complete(d.job)
  /\ deliveries' = deliveries \ {d}
  /\ UNCHANGED <<tally, req, proc, poll, overran, crashes, dbErrors>>

\* A failing ack lands in the catch, which nacks the job, also when the UPDATE
\* was committed and only its answer was lost.
AckFails(d) ==
  /\ dbErrors < MaxDbErrors /\ d.at = "ack"
  /\ \/ UNCHANGED <<jobs, tally>>
     \/ Complete(d.job) /\ tally' = [tally EXCEPT ![d.job].unheard = TRUE]
  /\ Goto(d, "nack")
  /\ dbErrors' = dbErrors + 1
  /\ UNCHANGED <<req, proc, poll, overran, crashes>>

NackRead(d) ==
  /\ d.at = "nack"
  /\ Becomes(d, [d EXCEPT !.at = "nackWrite", !.read = jobs[d.job].attempts])
  /\ UNCHANGED <<jobs, tally, req, proc, poll, overran, crashes, dbErrors>>

\* The delays nextRetryAfter(attempts) may draw.
RetryDelays(attempts) == {n \in 0..(BackoffCap - 1) : n < 2^attempts}

IsLastAttemptLate(attempts) == attempts > MaxAttempts \* mutant: > for >=
IsLastAttempt(attempts) == attempts >= MaxAttempts

NackedFailed(job, attempts) == \* mutant: the `failed` status the type declares
  {[job EXCEPT !.status = "failed", !.attempts = attempts, !.age = 0]}
\* The rows nack may write, from the attempts it read.
Nacked(job, attempts) ==
  IF IsLastAttempt(attempts)
    THEN {[job EXCEPT !.status = "dead", !.attempts = attempts, !.age = 0, !.wait = 0]}
  ELSE {[job EXCEPT !.status = "pending", !.attempts = attempts, !.age = 0, !.wait = n] :
          n \in RetryDelays(attempts)}

UniqueViolationNever(j, row) == FALSE \* mutant: no partial unique index
\* The UPDATE would make a second active job of the key.
UniqueViolation(j, row) ==
  row.status \notin Terminal /\ ActiveJobs(row.key) \ {j} # {}

\* A process ends: what it had in hand is gone, its jobs stay "processing".
ProcessEnds(w) ==
  /\ proc' = [proc EXCEPT ![w] = "down"]
  /\ poll' = [poll EXCEPT ![w] = "off"]
  /\ deliveries' = {d \in deliveries : d.worker # w}

\* nack's UPDATE, whatever the row says by now.
WriteRow(j, row) ==
  /\ ~UniqueViolation(j, row)
  /\ jobs' = [jobs EXCEPT ![j] = row]
  /\ tally' = [tally EXCEPT ![j].failures = @ + 1, ![j].unheard = FALSE]

\* nack's write; a refused UPDATE rejects finish(), which nobody catches, and
\* the unhandled rejection ends the process.
NackWrite(d) ==
  /\ d.at = "nackWrite"
  /\ \E row \in Nacked(jobs[d.job], d.read + 1) :
       \/ WriteRow(d.job, row) /\ Goto(d, "stat") /\ UNCHANGED <<proc, poll>>
       \/ /\ UniqueViolation(d.job, row)
          /\ ProcessEnds(d.worker)
          /\ UNCHANGED <<jobs, tally>>
  /\ UNCHANGED <<req, overran, crashes, dbErrors>>

\* getById for the dead-letter count, then activeJobs--.
Stat(d) ==
  /\ d.at = "stat"
  /\ deliveries' = deliveries \ {d}
  /\ UNCHANGED <<jobs, tally, req, proc, poll, overran, crashes, dbErrors>>

\* A failing query in the catch block rejects finish(): the process ends.
CatchFails(d) ==
  /\ dbErrors < MaxDbErrors /\ d.at \in {"nack", "nackWrite", "stat"}
  /\ \/ UNCHANGED <<jobs, tally>>
     \/ /\ d.at = "nackWrite"
        /\ \E row \in Nacked(jobs[d.job], d.read + 1) : WriteRow(d.job, row)
  /\ ProcessEnds(d.worker)
  /\ dbErrors' = dbErrors + 1
  /\ UNCHANGED <<req, overran, crashes>>

DeliveryStep(w) ==
  \E d \in Active(w) : Handle(d) \/ Ack(d) \/ NackRead(d) \/ NackWrite(d) \/ Stat(d)

-----------------------------------------------------------------------------
\* Processes and time.

\* stop(): no new poll; a poll already awaiting dequeue goes on.
Stop(w) ==
  /\ crashes < MaxCrashes /\ proc[w] = "up"
  /\ crashes' = crashes + 1
  /\ proc' = [proc EXCEPT ![w] = "draining"]
  /\ poll' = [poll EXCEPT ![w] = IF @ = "timer" THEN "off" ELSE @]
  /\ UNCHANGED <<jobs, tally, req, deliveries, overran, dbErrors>>

\* waitForIdle resolves: activeJobs is 0, or the deadline has passed.
StopResolves(w) ==
  /\ proc[w] = "draining"
  /\ proc' = [proc EXCEPT ![w] = IF Active(w) = {} THEN "stopped" ELSE "gaveUp"]
  /\ UNCHANGED <<jobs, tally, req, poll, deliveries, overran, crashes, dbErrors>>

Exit(w) ==
  /\ proc[w] \in {"stopped", "gaveUp"}
  /\ ProcessEnds(w)
  /\ UNCHANGED <<jobs, tally, req, overran, crashes, dbErrors>>

Crash(w) ==
  /\ crashes < MaxCrashes /\ proc[w] # "down"
  /\ crashes' = crashes + 1
  /\ ProcessEnds(w)
  /\ UNCHANGED <<jobs, tally, req, overran, dbErrors>>

Start(w) ==
  /\ proc[w] = "down"
  /\ proc' = [proc EXCEPT ![w] = "up"]
  /\ poll' = [poll EXCEPT ![w] = "timer"]
  /\ UNCHANGED <<jobs, tally, req, deliveries, overran, crashes, dbErrors>>

Older(age) == IF age < StaleAfter THEN age + 1 ELSE age

\* A delivery is about to be as old as the stale window.
Outlasted == \E d \in deliveries : d.age + 1 >= StaleAfter

Tick ==
  /\ Timely => ~Outlasted
  /\ jobs' = [j \in JobIds |->
       [jobs[j] EXCEPT !.age = IF jobs[j].status = "processing" THEN Older(@) ELSE 0,
                       !.wait = IF @ > 0 THEN @ - 1 ELSE 0]]
  /\ deliveries' = {[d EXCEPT !.age = Older(@)] : d \in deliveries}
  /\ overran' = (overran \/ Outlasted)
  /\ UNCHANGED <<tally, req, proc, poll, crashes, dbErrors>>

Next ==
  \/ \E r \in Requests : EnqueueStep(r) \/ EnqueueFails(r)
  \/ \E w \in Workers : \/ PollStep(w) \/ DequeueFails(w) \/ DeliveryStep(w)
                        \/ Stop(w) \/ StopResolves(w) \/ Exit(w) \/ Crash(w) \/ Start(w)
  \/ \E d \in deliveries : AckFails(d) \/ CatchFails(d)
  \/ Tick

Spec == Init /\ [][Next]_vars

\* Event loops turn, handlers settle, the orchestrator restarts processes and
\* time passes; crashes, stops and failing queries are bounded.
FairSpec ==
  /\ Spec
  /\ \A r \in Requests : WF_vars(EnqueueStep(r))
  /\ \A w \in Workers :
       /\ WF_vars(PollStep(w)) /\ WF_vars(DeliveryStep(w))
       /\ WF_vars(StopResolves(w)) /\ WF_vars(Exit(w)) /\ WF_vars(Start(w))
  /\ WF_vars(Tick)

-----------------------------------------------------------------------------
(***************************************************************************)
(* Properties.                                                             *)
(***************************************************************************)

\* There is never a second unfinished job of a key, whatever late acks and
\* nacks of stale deliveries do (enqueue's duplicate suppression).
ActiveUnique ==
  \A i, j \in JobIds :
    i # j /\ jobs[i].key = jobs[j].key =>
      jobs[i].status \in Terminal \/ jobs[j].status \in Terminal

\* No job is in two deliveries at once, but for their last read, although crashes,
\* lost answers and stops hand jobs out again (dequeue's reclaim of stale jobs).
SingleDelivery ==
  \A d, e \in {x \in deliveries : x.at # "stat"} : d.job = e.job => d = e

\* A job is dead exactly when it has failed MaxAttempts times: no failure is
\* lost or counted twice (nack's read and write).
DeadAfterMaxFailures ==
  \A j \in JobIds :
    /\ jobs[j].status = "dead" <=> tally[j].failures >= MaxAttempts
    /\ jobs[j].attempts = tally[j].failures

\* A completed job's handler has succeeded, and more than once only if an
\* answer was lost or a process ended in between (finish: ack after handler).
CompletedAsHandled ==
  \A j \in JobIds :
    /\ jobs[j].status = "completed" => tally[j].done >= 1
    /\ tally[j].done <= 1 + crashes + dbErrors

\* As long as no delivery has outlasted the stale window: one delivery at a time,
\* each failure counted once, each completion earned.
DeliveriesCounted ==
  ~overran => SingleDelivery /\ DeadAfterMaxFailures /\ CompletedAsHandled

\* The life cycle that queue/types.ts gives a job, as far as the queue keeps it.
Lifecycle == INSTANCE JobLifecycle WITH
  Jobs <- 1..Cardinality(Requests),
  status <- [j \in 1..Cardinality(Requests) |->
               IF j \in JobIds THEN jobs[j].status ELSE "absent"],
  attempts <- [j \in 1..Cardinality(Requests) |->
               IF j \in JobIds THEN jobs[j].attempts ELSE 0],
  unheard <- [j \in 1..Cardinality(Requests) |->
               IF j \in JobIds THEN tally[j].unheard ELSE FALSE]

ImplementsLifecycle == Lifecycle!Spec

\* As long as no delivery has outlasted the stale window, every step of the queue
\* is a step of that life cycle, or none: a finished job is touched again only by
\* the one nack of an ack whose answer was lost (finish's catch).
LifecycleKept == Lifecycle!Init /\ [][~overran' => Lifecycle!Next]_(Lifecycle!vars)

\* Every job whose enqueue was answered ends up completed or dead, although
\* its process may die or its claim be lost (stale reclaim and retries).
EnqueuedIsSettled ==
  \A j \in 1..Cardinality(Requests) :
    (j \in JobIds) ~> (j \in JobIds /\ jobs[j].status \in Terminal)
=============================================================================
