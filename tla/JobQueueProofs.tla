---------------------------- MODULE JobQueueProofs ----------------------------
(* Theorems about JobQueue, for any workers, requests and keys, any number of *)
(* attempts, crashes and failing queries.                                     *)
EXTENDS JobQueue, SequenceTheorems, FiniteSetTheorems, TLAPS

Tally == [claims : Nat, done : Nat, failures : Nat, unheard : BOOLEAN]
Call == [at : {"new", "insert", "refetch", "answered", "threw"},
         key : Keys \union {Keyless}, job : Nat]

\* The calls of enqueue.
CallsKnown ==
  /\ req \in [Requests -> Call]
  /\ \A r \in Requests :
       /\ req[r].at \in {"insert", "refetch"} => req[r].key \in Keys
       /\ req[r].at = "answered" => req[r].job \in JobIds

RowsTyped ==
  /\ jobs \in Seq(Job) /\ tally \in Seq(Tally) /\ DOMAIN tally = JobIds
  /\ deliveries \subseteq Delivery /\ \A d \in deliveries : d.job \in JobIds

WorkersTyped ==
  /\ proc \in [Workers -> {"up", "draining", "stopped", "gaveUp", "down"}]
  /\ poll \in [Workers -> {"off", "timer", "query", "resume"}]
  /\ crashes \in 0..MaxCrashes /\ dbErrors \in 0..MaxDbErrors

BaseInv == RowsTyped /\ CallsKnown /\ WorkersTyped /\ ActiveUnique

LEMMA Bounds ==
  /\ StaleAfter \in Nat /\ StaleAfter > 0 /\ 0 \in 0..StaleAfter
  /\ MaxAttempts \in Nat /\ MaxAttempts > 0 /\ BackoffCap \in Nat
  /\ MaxCrashes \in Nat /\ MaxDbErrors \in Nat
BY JobQueueAssumption

-----------------------------------------------------------------------------
\* Writing a row, or a job's counters.
LEMMA RowWritten ==
  ASSUME RowsTyped, NEW j \in JobIds, NEW row \in Job, jobs' = [jobs EXCEPT ![j] = row]
  PROVE  /\ jobs' \in Seq(Job) /\ JobIds' = JobIds /\ jobs'[j] = row
         /\ \A i \in JobIds \ {j} : jobs'[i] = jobs[i]
BY DEF RowsTyped, JobIds

LEMMA CountersWritten ==
  ASSUME RowsTyped, NEW j \in JobIds, NEW t \in Tally, tally' = [tally EXCEPT ![j] = t]
  PROVE  /\ tally' \in Seq(Tally) /\ DOMAIN tally' = JobIds /\ tally'[j] = t
         /\ \A i \in JobIds \ {j} : tally'[i] = tally[i]
BY DEF RowsTyped, JobIds

LEMMA RowType ==
  ASSUME RowsTyped, NEW j \in JobIds
  PROVE  jobs[j] \in Job /\ tally[j] \in Tally
<1>1. jobs[j] \in Job
  BY DEF RowsTyped, JobIds
<1>2. tally[j] \in Tally
  BY DEF RowsTyped, JobIds
<1> QED BY <1>1, <1>2

\* A claim changes status, age and the number of claims, nothing else.
LEMMA TakeEffect ==
  ASSUME RowsTyped, NEW j \in JobIds, Take(j)
  PROVE  /\ jobs' \in Seq(Job) /\ JobIds' = JobIds
         /\ jobs'[j] = [jobs[j] EXCEPT !.status = "processing", !.age = 0]
         /\ \A i \in JobIds \ {j} : jobs'[i] = jobs[i]
         /\ tally' \in Seq(Tally) /\ DOMAIN tally' = JobIds
         /\ tally'[j] = [tally[j] EXCEPT !.claims = @ + 1]
         /\ \A i \in JobIds \ {j} : tally'[i] = tally[i]
<1> DEFINE row == [jobs[j] EXCEPT !.status = "processing", !.age = 0]
           t == [tally[j] EXCEPT !.claims = @ + 1]
<1>1. jobs' = [jobs EXCEPT ![j] = row] /\ tally' = [tally EXCEPT ![j] = t]
  BY DEF Take
<1>2. row \in Job
  BY RowType, Bounds DEF Job, JobStatuses
<1>3. t \in Tally
  BY RowType DEF Tally
<1> HIDE DEF row, t
<1>4. /\ jobs' \in Seq(Job) /\ JobIds' = JobIds /\ jobs'[j] = row
      /\ \A i \in JobIds \ {j} : jobs'[i] = jobs[i]
  BY <1>1, <1>2, RowWritten
<1>5. /\ tally' \in Seq(Tally) /\ DOMAIN tally' = JobIds /\ tally'[j] = t
      /\ \A i \in JobIds \ {j} : tally'[i] = tally[i]
  BY <1>1, <1>3, CountersWritten
<1> QED BY <1>4, <1>5 DEF row, t

\* Replacing a delivery by one of the same job.
LEMMA BecomesTyped ==
  ASSUME RowsTyped, NEW d \in deliveries, NEW e \in Delivery, e.job = d.job, Becomes(d, e)
  PROVE  deliveries' \subseteq Delivery /\ \A x \in deliveries' : x.job \in JobIds
BY DEF RowsTyped, Becomes

LEMMA DeliveryType ==
  ASSUME RowsTyped, NEW d \in deliveries
  PROVE  d \in Delivery /\ d.job \in JobIds
BY DEF RowsTyped

\* An ack, heard of or not.
LEMMA CompleteEffect ==
  ASSUME RowsTyped, NEW j \in JobIds, Complete(j)
  PROVE  /\ jobs' \in Seq(Job) /\ JobIds' = JobIds
         /\ jobs'[j] = [jobs[j] EXCEPT !.status = "completed", !.age = 0]
         /\ jobs'[j].status = "completed" /\ jobs'[j].key = jobs[j].key
         /\ jobs'[j].attempts = jobs[j].attempts
         /\ \A i \in JobIds \ {j} : jobs'[i] = jobs[i]
<1> DEFINE row == [jobs[j] EXCEPT !.status = "completed", !.age = 0]
<1>1. jobs' = [jobs EXCEPT ![j] = row]
  BY DEF Complete
<1>2. row \in Job /\ row.status = "completed" /\ row.key = jobs[j].key
      /\ row.attempts = jobs[j].attempts
  BY RowType, Bounds DEF Job, JobStatuses
<1> HIDE DEF row
<1>3. /\ jobs' \in Seq(Job) /\ JobIds' = JobIds /\ jobs'[j] = row
      /\ \A i \in JobIds \ {j} : jobs'[i] = jobs[i]
  BY <1>1, <1>2, RowWritten
<1> QED BY <1>2, <1>3 DEF row

\* What nack may write, and that it is refused or counted.
LEMMA NackedRow ==
  ASSUME NEW job \in Job, NEW n \in Nat, NEW row \in Nacked(job, n)
  PROVE  /\ row \in Job /\ row.key = job.key /\ row.attempts = n
         /\ row.status = IF n >= MaxAttempts THEN "dead" ELSE "pending"
<1>1. CASE n >= MaxAttempts
  <2>1. row = [job EXCEPT !.status = "dead", !.attempts = n, !.age = 0, !.wait = 0]
    BY <1>1 DEF Nacked, IsLastAttempt
  <2> QED BY <1>1, <2>1, Bounds DEF Job, JobStatuses
<1>2. CASE ~(n >= MaxAttempts)
  <2>1. PICK w \in RetryDelays(n) :
          row = [job EXCEPT !.status = "pending", !.attempts = n, !.age = 0, !.wait = w]
    BY <1>2 DEF Nacked, IsLastAttempt
  <2>2. w \in Nat
    BY Bounds DEF RetryDelays
  <2> QED BY <1>2, <2>1, <2>2, Bounds DEF Job, JobStatuses
<1> QED BY <1>1, <1>2

-----------------------------------------------------------------------------
\* The base invariant, by kinds of steps.
LEMMA AnswerEffect ==
  ASSUME CallsKnown, NEW r \in Requests, NEW k \in Keys, NEW j \in Nat, Answer(r, k, j)
  PROVE  /\ req' \in [Requests -> Call]
         /\ req'[r].at = "answered" /\ req'[r].job = j
         /\ \A q \in Requests \ {r} : req'[q] = req[q]
BY DEF CallsKnown, Answer, Call

LEMMA EnqueueFindKeeps ==
  ASSUME BaseInv, NEW r \in Requests, EnqueueFind(r)
  PROVE  BaseInv'
<1>1. jobs' = jobs /\ tally' = tally /\ proc' = proc /\ poll' = poll /\ deliveries' = deliveries
      /\ crashes' = crashes /\ dbErrors' = dbErrors /\ JobIds' = JobIds
  BY DEF EnqueueFind, JobIds
<1>2. CASE \E k \in Keys : \E j \in ActiveJobs(k) : Answer(r, k, j)
  <2>0. PICK k \in Keys : \E j \in ActiveJobs(k) : Answer(r, k, j)
    BY <1>2
  <2>1. PICK j \in ActiveJobs(k) : Answer(r, k, j)
    BY <2>0
  <2>2. j \in JobIds /\ j \in Nat
    BY DEF ActiveJobs, BaseInv, RowsTyped, JobIds
  <2>3. CallsKnown'
    BY <1>1, <2>1, <2>2, AnswerEffect DEF BaseInv, CallsKnown
  <2> QED BY <1>1, <2>3 DEF BaseInv, RowsTyped, WorkersTyped, ActiveUnique
<1>3. CASE \E k \in Keys : req' = [req EXCEPT ![r] = [at |-> "insert", key |-> k, job |-> 0]]
  <2>1. CallsKnown'
    BY <1>1, <1>3 DEF BaseInv, CallsKnown, Call
  <2> QED BY <1>1, <2>1 DEF BaseInv, RowsTyped, WorkersTyped, ActiveUnique
<1> QED BY <1>2, <1>3 DEF EnqueueFind

LEMMA EnqueueRefetchKeeps ==
  ASSUME BaseInv, NEW r \in Requests, EnqueueRefetch(r)
  PROVE  BaseInv'
<1>1. jobs' = jobs /\ tally' = tally /\ proc' = proc /\ poll' = poll /\ deliveries' = deliveries
      /\ crashes' = crashes /\ dbErrors' = dbErrors /\ JobIds' = JobIds
  BY DEF EnqueueRefetch, JobIds
<1>2. CASE \E j \in ActiveJobs(req[r].key) : Answer(r, req[r].key, j)
  <2>1. PICK j \in ActiveJobs(req[r].key) : Answer(r, req[r].key, j)
    BY <1>2
  <2>2. j \in JobIds /\ j \in Nat
    BY DEF ActiveJobs, BaseInv, RowsTyped, JobIds
  <2>3. req[r].key \in Keys
    BY DEF EnqueueRefetch, BaseInv, CallsKnown
  <2>4. CallsKnown'
    BY <1>1, <2>1, <2>2, <2>3, AnswerEffect DEF BaseInv, CallsKnown
  <2> QED BY <1>1, <2>4 DEF BaseInv, RowsTyped, WorkersTyped, ActiveUnique
<1>3. CASE req' = [req EXCEPT ![r].at = "threw"]
  <2>1. CallsKnown'
    BY <1>1, <1>3 DEF BaseInv, CallsKnown, Call
  <2> QED BY <1>1, <2>1 DEF BaseInv, RowsTyped, WorkersTyped, ActiveUnique
<1> QED BY <1>2, <1>3 DEF EnqueueRefetch

\* The partial index refuses a second active job of the key.
LEMMA InsertEffect ==
  ASSUME BaseInv, NEW k \in Keys, Insert(k), NEW new, new = Len(jobs) + 1
  PROVE  /\ jobs' \in Seq(Job) /\ tally' \in Seq(Tally) /\ DOMAIN tally' = JobIds'
         /\ JobIds' = JobIds \union {new} /\ new \notin JobIds /\ new \in Nat
         /\ Len(jobs') = new /\ jobs'[new] = NewJob(k) /\ tally'[new] = NewTally
         /\ \A i \in JobIds : jobs'[i] = jobs[i] /\ tally'[i] = tally[i]
         /\ ActiveUnique'
<1> DEFINE row == NewJob(k)
           t == NewTally
<1>1. jobs' = Append(jobs, row) /\ tally' = Append(tally, t) /\ InsertAllowed(k)
  BY DEF Insert
<1>2. row \in Job /\ row.key = k /\ t \in Tally
  BY Bounds DEF NewJob, NewTally, Job, JobStatuses, Tally
<1> HIDE DEF row, t
<1>3. /\ jobs \in Seq(Job) /\ tally \in Seq(Tally) /\ JobIds = 1..Len(jobs)
      /\ Len(jobs) \in Nat /\ Len(tally) = Len(jobs)
  BY DEF BaseInv, RowsTyped, JobIds
<1>4. /\ jobs' \in Seq(Job) /\ jobs'[new] = row /\ JobIds' = JobIds \union {new}
      /\ new \notin JobIds /\ new \in Nat /\ Len(jobs') = new
      /\ \A i \in JobIds : jobs'[i] = jobs[i]
  BY <1>1, <1>2, <1>3 DEF JobIds
<1>5. /\ tally' \in Seq(Tally) /\ DOMAIN tally' = JobIds' /\ tally'[new] = t
      /\ \A i \in JobIds : tally'[i] = tally[i]
  BY <1>1, <1>2, <1>3, <1>4 DEF JobIds
<1>6. \A i \in JobIds : jobs[i].key = k => jobs[i].status \in Terminal
  BY <1>1 DEF InsertAllowed, ActiveJobs
<1>7. ActiveUnique'
  BY <1>2, <1>4, <1>6 DEF BaseInv, ActiveUnique
<1> QED BY <1>4, <1>5, <1>7 DEF row, t

LEMMA EnqueueFailsKeeps ==
  ASSUME BaseInv, NEW r \in Requests, EnqueueFails(r)
  PROVE  BaseInv'
<1>1. proc' = proc /\ poll' = poll /\ deliveries' = deliveries /\ crashes' = crashes
  BY DEF EnqueueFails
<1>2. req' = [req EXCEPT ![r].at = IF req[r].at = "insert" THEN "refetch" ELSE "threw"]
  BY DEF EnqueueFails
<1>3. JobIds \subseteq JobIds' => CallsKnown'
  BY <1>2 DEF BaseInv, CallsKnown, Call
<1>4. dbErrors' \in 0..MaxDbErrors
  BY Bounds DEF EnqueueFails, BaseInv, WorkersTyped
<1>5. WorkersTyped'
  BY <1>1, <1>4 DEF BaseInv, WorkersTyped
<1>6. CASE jobs' = jobs /\ tally' = tally
  <2>1. JobIds' = JobIds
    BY <1>6 DEF JobIds
  <2> QED BY <1>1, <1>3, <1>5, <1>6, <2>1 DEF BaseInv, RowsTyped, ActiveUnique
<1>7. CASE req[r].at = "insert" /\ Insert(req[r].key)
  <2>0. PICK new : new = Len(jobs) + 1
    OBVIOUS
  <2>1. req[r].key \in Keys
    BY <1>7 DEF BaseInv, CallsKnown
  <2>2. /\ jobs' \in Seq(Job) /\ tally' \in Seq(Tally) /\ DOMAIN tally' = JobIds'
        /\ JobIds' = JobIds \union {new} /\ ActiveUnique'
    BY <1>7, <2>0, <2>1, InsertEffect
  <2> QED BY <1>1, <1>3, <1>5, <2>2 DEF BaseInv, RowsTyped
<1> QED BY <1>6, <1>7 DEF EnqueueFails

LEMMA InsertKeeps ==
  ASSUME BaseInv, NEW r \in Requests, EnqueueInsert(r)
  PROVE  BaseInv'
<1>1. proc' = proc /\ poll' = poll /\ deliveries' = deliveries /\ crashes' = crashes
      /\ dbErrors' = dbErrors /\ req[r].key \in Keys
  BY DEF EnqueueInsert, BaseInv, CallsKnown
<1>2. CASE req' = [req EXCEPT ![r].at = "refetch"] /\ jobs' = jobs /\ tally' = tally
  <2>1. JobIds' = JobIds
    BY <1>2 DEF JobIds
  <2>2. CallsKnown'
    BY <1>2, <2>1 DEF BaseInv, CallsKnown, Call, EnqueueInsert
  <2> QED BY <1>1, <1>2, <2>1, <2>2 DEF BaseInv, RowsTyped, WorkersTyped, ActiveUnique
<1>3. CASE Insert(req[r].key) /\ Answer(r, req[r].key, Len(jobs) + 1)
  <2>0. PICK new : new = Len(jobs) + 1
    OBVIOUS
  <2>1. /\ jobs' \in Seq(Job) /\ tally' \in Seq(Tally) /\ DOMAIN tally' = JobIds'
        /\ JobIds' = JobIds \union {new} /\ new \in Nat /\ ActiveUnique'
    BY <1>1, <1>3, <2>0, InsertEffect
  <2>2. CallsKnown'
    BY <1>1, <1>3, <2>0, <2>1, AnswerEffect DEF BaseInv, CallsKnown
  <2> QED BY <1>1, <2>1, <2>2 DEF BaseInv, RowsTyped, WorkersTyped
<1> QED BY <1>2, <1>3 DEF EnqueueInsert

\* A step that keeps the keys and makes no finished job unfinished.
LEMMA NoneRevived ==
  ASSUME ActiveUnique, JobIds' = JobIds,
         \A i \in JobIds : /\ jobs'[i].key = jobs[i].key
                           /\ jobs[i].status \in Terminal => jobs'[i].status \in Terminal
  PROVE  ActiveUnique'
BY DEF ActiveUnique

LEMMA SameCalls ==
  ASSUME CallsKnown, req' = req, JobIds' = JobIds
  PROVE  CallsKnown'
BY DEF CallsKnown

LEMMA ClaimKeeps ==
  ASSUME BaseInv, NEW j \in JobIds, Eligible(j), Take(j), req' = req,
         WorkersTyped', deliveries' \subseteq Delivery, \A d \in deliveries' : d.job \in JobIds
  PROVE  BaseInv'
<1>1. /\ jobs' \in Seq(Job) /\ JobIds' = JobIds
      /\ jobs'[j] = [jobs[j] EXCEPT !.status = "processing", !.age = 0]
      /\ \A i \in JobIds \ {j} : jobs'[i] = jobs[i]
      /\ tally' \in Seq(Tally) /\ DOMAIN tally' = JobIds
  BY TakeEffect DEF BaseInv
<1>2. jobs[j] \in Job /\ jobs[j].status \notin Terminal
  BY RowType DEF BaseInv, Eligible, Terminal
<1>3. jobs'[j].key = jobs[j].key
  BY <1>1, <1>2 DEF Job
<1>4. ActiveUnique'
  BY <1>1, <1>2, <1>3, NoneRevived DEF BaseInv
<1> QED BY <1>1, <1>4, SameCalls DEF BaseInv, RowsTyped

LEMMA DequeueKeeps ==
  ASSUME BaseInv, NEW w \in Workers, Dequeue(w)
  PROVE  BaseInv'
<1>1. req' = req /\ proc' = proc /\ crashes' = crashes /\ dbErrors' = dbErrors
  BY DEF Dequeue
<1>2. WorkersTyped'
  BY <1>1 DEF Dequeue, Reschedule, BaseInv, WorkersTyped
<1>3. CASE \E j \in JobIds : Oldest(j) /\ Take(j) /\ deliveries' = deliveries \union
             {[worker |-> w, job |-> j, claim |-> tally[j].claims + 1,
               at |-> "claimed", age |-> 0, read |-> 0]}
  <2>1. PICK j \in JobIds : Oldest(j) /\ Take(j) /\ deliveries' = deliveries \union
             {[worker |-> w, job |-> j, claim |-> tally[j].claims + 1,
               at |-> "claimed", age |-> 0, read |-> 0]}
    BY <1>3
  <2>2. tally[j].claims \in Nat /\ j \in Nat
    BY RowType DEF BaseInv, Tally, RowsTyped, JobIds
  <2>3. deliveries' \subseteq Delivery /\ \A d \in deliveries' : d.job \in JobIds
    BY <2>1, <2>2, Bounds DEF BaseInv, RowsTyped, Delivery, Phases
  <2> QED BY <1>1, <1>2, <2>1, <2>3, ClaimKeeps DEF Oldest
<1>4. CASE jobs' = jobs /\ tally' = tally /\ deliveries' = deliveries
  <2>1. JobIds' = JobIds
    BY <1>4 DEF JobIds
  <2> QED BY <1>1, <1>2, <1>4, <2>1, SameCalls DEF BaseInv, RowsTyped, ActiveUnique
<1> QED BY <1>3, <1>4 DEF Dequeue

LEMMA DequeueFailsKeeps ==
  ASSUME BaseInv, NEW w \in Workers, DequeueFails(w)
  PROVE  BaseInv'
<1>1. req' = req /\ proc' = proc /\ crashes' = crashes /\ deliveries' = deliveries
  BY DEF DequeueFails
<1>2. WorkersTyped'
  <2>1. dbErrors' \in 0..MaxDbErrors
    BY Bounds DEF DequeueFails, BaseInv, WorkersTyped
  <2> QED BY <1>1, <2>1 DEF DequeueFails, Reschedule, BaseInv, WorkersTyped
<1>3. CASE \E j \in JobIds : Oldest(j) /\ Take(j)
  BY <1>1, <1>2, <1>3, ClaimKeeps DEF Oldest, BaseInv, RowsTyped
<1>4. CASE jobs' = jobs /\ tally' = tally
  <2>1. JobIds' = JobIds
    BY <1>4 DEF JobIds
  <2> QED BY <1>1, <1>2, <1>4, <2>1, SameCalls DEF BaseInv, RowsTyped, ActiveUnique
<1> QED BY <1>3, <1>4 DEF DequeueFails

\* A step that writes no row.
LEMMA RowsUntouched ==
  ASSUME BaseInv, jobs' = jobs, req' = req, tally' \in Seq(Tally), DOMAIN tally' = DOMAIN tally,
         deliveries' \subseteq Delivery, \A d \in deliveries' : d.job \in JobIds, WorkersTyped'
  PROVE  BaseInv'
<1>1. JobIds' = JobIds
  BY DEF JobIds
<1> QED BY <1>1, SameCalls DEF BaseInv, RowsTyped, ActiveUnique

LEMMA DispatchKeeps ==
  ASSUME BaseInv, NEW w \in Workers, Dispatch(w)
  PROVE  BaseInv'
<1>1. jobs' = jobs /\ tally' = tally /\ req' = req /\ proc' = proc /\ crashes' = crashes
      /\ dbErrors' = dbErrors /\ poll' = [poll EXCEPT ![w] = LoopNext(w, Cardinality(Active(w)) + 1)]
  BY DEF Dispatch
<1>2. LoopNext(w, Cardinality(Active(w)) + 1) \in {"off", "timer", "query"}
  BY DEF LoopNext
<1>3. WorkersTyped'
  BY <1>1, <1>2 DEF BaseInv, WorkersTyped
<1>4. PICK d \in deliveries : deliveries' = (deliveries \ {d}) \union {[d EXCEPT !.at = "handler"]}
  BY DEF Dispatch
<1>5. [d EXCEPT !.at = "handler"] \in Delivery /\ [d EXCEPT !.at = "handler"].job = d.job
  BY DeliveryType DEF BaseInv, Delivery, Phases
<1>6. deliveries' \subseteq Delivery /\ \A x \in deliveries' : x.job \in JobIds
  BY <1>4, <1>5 DEF BaseInv, RowsTyped
<1> QED BY <1>1, <1>3, <1>6, RowsUntouched DEF BaseInv, RowsTyped

LEMMA HandleKeeps ==
  ASSUME BaseInv, NEW d \in deliveries, Handle(d)
  PROVE  BaseInv'
<1>1. jobs' = jobs /\ req' = req /\ proc' = proc /\ poll' = poll /\ crashes' = crashes
      /\ dbErrors' = dbErrors
  BY DEF Handle
<1>2. WorkersTyped'
  BY <1>1 DEF BaseInv, WorkersTyped
<1>3. PICK ok \in BOOLEAN : /\ Goto(d, AfterHandler(ok))
                            /\ tally' = IF ok THEN [tally EXCEPT ![d.job].done = @ + 1] ELSE tally
  BY DEF Handle
<1>4. /\ [d EXCEPT !.at = AfterHandler(ok)] \in Delivery
      /\ [d EXCEPT !.at = AfterHandler(ok)].job = d.job
  <2>1. AfterHandler(ok) \in Phases
    BY DEF AfterHandler, Phases
  <2> QED BY <2>1, DeliveryType DEF BaseInv, Delivery
<1>5. deliveries' \subseteq Delivery /\ \A x \in deliveries' : x.job \in JobIds
  BY <1>3, <1>4, BecomesTyped DEF Goto, BaseInv
<1>6. tally' \in Seq(Tally) /\ DOMAIN tally' = DOMAIN tally
  <2> DEFINE t == [tally[d.job] EXCEPT !.done = @ + 1]
  <2>1. t \in Tally /\ d.job \in JobIds
    BY RowType, DeliveryType DEF BaseInv, Tally
  <2>2. tally' = [tally EXCEPT ![d.job] = t] \/ tally' = tally
    BY <1>3
  <2> HIDE DEF t
  <2> QED BY <2>1, <2>2, CountersWritten DEF BaseInv, RowsTyped
<1> QED BY <1>1, <1>2, <1>5, <1>6, RowsUntouched

LEMMA UnheardEffect ==
  ASSUME RowsTyped, NEW j \in JobIds, tally' = [tally EXCEPT ![j].unheard = TRUE]
  PROVE  /\ tally' \in Seq(Tally) /\ DOMAIN tally' = JobIds
         /\ tally'[j] = [tally[j] EXCEPT !.unheard = TRUE]
         /\ tally'[j].unheard /\ tally'[j].failures = tally[j].failures
         /\ tally'[j].done = tally[j].done
         /\ \A i \in JobIds \ {j} : tally'[i] = tally[i]
<1> DEFINE t == [tally[j] EXCEPT !.unheard = TRUE]
<1>1. tally' = [tally EXCEPT ![j] = t]
  OBVIOUS
<1>2. t \in Tally /\ t.unheard /\ t.failures = tally[j].failures /\ t.done = tally[j].done
  BY RowType DEF Tally
<1> HIDE DEF t
<1>3. /\ tally' \in Seq(Tally) /\ DOMAIN tally' = JobIds /\ tally'[j] = t
      /\ \A i \in JobIds \ {j} : tally'[i] = tally[i]
  BY <1>1, <1>2, CountersWritten
<1> QED BY <1>2, <1>3 DEF t

\* Completing a job makes none unfinished.
LEMMA CompleteKeeps ==
  ASSUME BaseInv, NEW j \in JobIds, Complete(j), req' = req, WorkersTyped',
         tally' \in Seq(Tally), DOMAIN tally' = JobIds,
         deliveries' \subseteq Delivery, \A x \in deliveries' : x.job \in JobIds
  PROVE  BaseInv'
<1>1. /\ jobs' \in Seq(Job) /\ JobIds' = JobIds
      /\ jobs'[j].key = jobs[j].key /\ jobs'[j].status \in Terminal
      /\ \A i \in JobIds \ {j} : jobs'[i] = jobs[i]
  BY CompleteEffect DEF BaseInv, Terminal
<1>2. ActiveUnique'
  BY <1>1, NoneRevived DEF BaseInv
<1> QED BY <1>1, <1>2, SameCalls DEF BaseInv, RowsTyped

LEMMA AckKeeps ==
  ASSUME BaseInv, NEW d \in deliveries, Ack(d)
  PROVE  BaseInv'
<1>1. /\ Complete(d.job) /\ tally' = tally /\ deliveries' = deliveries \ {d}
      /\ req' = req /\ proc' = proc /\ poll' = poll /\ crashes' = crashes /\ dbErrors' = dbErrors
  BY DEF Ack
<1>2. WorkersTyped'
  BY <1>1 DEF BaseInv, WorkersTyped
<1>3. d.job \in JobIds /\ deliveries' \subseteq Delivery /\ \A x \in deliveries' : x.job \in JobIds
  BY <1>1 DEF BaseInv, RowsTyped
<1>4. tally' \in Seq(Tally) /\ DOMAIN tally' = JobIds
  BY <1>1 DEF BaseInv, RowsTyped
<1> QED BY <1>1, <1>2, <1>3, <1>4, CompleteKeeps

LEMMA FailingAckKeeps ==
  ASSUME BaseInv, NEW d \in deliveries, AckFails(d)
  PROVE  BaseInv'
<1>1. req' = req /\ proc' = proc /\ poll' = poll /\ crashes' = crashes
  BY DEF AckFails
<1>2. dbErrors' \in 0..MaxDbErrors
  BY Bounds DEF AckFails, BaseInv, WorkersTyped
<1>3. WorkersTyped'
  BY <1>1, <1>2 DEF BaseInv, WorkersTyped
<1>4. [d EXCEPT !.at = "nack"] \in Delivery /\ [d EXCEPT !.at = "nack"].job = d.job
  BY DeliveryType DEF BaseInv, Delivery, Phases
<1>5. deliveries' \subseteq Delivery /\ \A x \in deliveries' : x.job \in JobIds
  BY <1>4, BecomesTyped DEF AckFails, Goto, BaseInv
<1>6. CASE jobs' = jobs /\ tally' = tally
  BY <1>1, <1>3, <1>5, <1>6, RowsUntouched DEF BaseInv, RowsTyped
<1>7. CASE Complete(d.job) /\ tally' = [tally EXCEPT ![d.job].unheard = TRUE]
  <2>1. d.job \in JobIds
    BY DeliveryType DEF BaseInv
  <2>2. tally' \in Seq(Tally) /\ DOMAIN tally' = JobIds
    BY <1>7, <2>1, UnheardEffect DEF BaseInv
  <2> QED BY <1>1, <1>3, <1>5, <1>7, <2>1, <2>2, CompleteKeeps
<1> QED BY <1>6, <1>7 DEF AckFails

LEMMA NackReadKeeps ==
  ASSUME BaseInv, NEW d \in deliveries, NackRead(d)
  PROVE  BaseInv'
<1> DEFINE e == [d EXCEPT !.at = "nackWrite", !.read = jobs[d.job].attempts]
<1>1. jobs' = jobs /\ tally' = tally /\ req' = req /\ proc' = proc /\ poll' = poll
      /\ crashes' = crashes /\ dbErrors' = dbErrors /\ Becomes(d, e)
  BY DEF NackRead
<1>2. jobs[d.job].attempts \in Nat
  BY RowType, DeliveryType DEF BaseInv, Job
<1>3. e \in Delivery /\ e.job = d.job
  BY <1>2, DeliveryType DEF BaseInv, Delivery, Phases
<1> HIDE DEF e
<1>4. deliveries' \subseteq Delivery /\ \A x \in deliveries' : x.job \in JobIds
  BY <1>1, <1>3, BecomesTyped DEF BaseInv
<1> QED BY <1>1, <1>4, RowsUntouched DEF BaseInv, RowsTyped, WorkersTyped

LEMMA EndsKeeps ==
  ASSUME BaseInv, NEW w \in Workers, ProcessEnds(w), jobs' = jobs, tally' = tally, req' = req,
         crashes' \in 0..MaxCrashes, dbErrors' \in 0..MaxDbErrors
  PROVE  BaseInv'
<1>1. WorkersTyped'
  BY DEF ProcessEnds, BaseInv, WorkersTyped
<1>2. deliveries' \subseteq deliveries
  BY DEF ProcessEnds
<1> QED BY <1>1, <1>2, RowsUntouched DEF BaseInv, RowsTyped

\* nack's UPDATE; the index refuses the one that would make a second active job.
LEMMA WriteRowEffect ==
  ASSUME BaseInv, NEW j \in JobIds, NEW n \in Nat, NEW row \in Nacked(jobs[j], n), WriteRow(j, row)
  PROVE  /\ jobs' \in Seq(Job) /\ JobIds' = JobIds
         /\ jobs'[j].attempts = n
         /\ jobs'[j].status = IF n >= MaxAttempts THEN "dead" ELSE "pending"
         /\ tally' \in Seq(Tally) /\ DOMAIN tally' = JobIds
         /\ tally'[j].failures = tally[j].failures + 1 /\ tally'[j].done = tally[j].done
         /\ tally'[j].unheard = FALSE
         /\ \A i \in JobIds \ {j} : jobs'[i] = jobs[i] /\ tally'[i] = tally[i]
         /\ ActiveUnique'
<1> DEFINE t == [tally[j] EXCEPT !.failures = @ + 1, !.unheard = FALSE]
<1>1. jobs' = [jobs EXCEPT ![j] = row] /\ tally' = [tally EXCEPT ![j] = t]
      /\ ~UniqueViolation(j, row)
  <2>1. DOMAIN tally = JobIds
    BY DEF BaseInv, RowsTyped
  <2> QED BY <2>1 DEF WriteRow
<1>2. /\ row \in Job /\ row.key = jobs[j].key /\ row.attempts = n
      /\ row.status = IF n >= MaxAttempts THEN "dead" ELSE "pending"
  BY RowType, NackedRow DEF BaseInv
<1>3. /\ t \in Tally /\ t.failures = tally[j].failures + 1 /\ t.done = tally[j].done
      /\ t.unheard = FALSE
  <2>1. tally[j] \in Tally
    BY RowType DEF BaseInv
  <2>2. tally[j].failures + 1 \in Nat
    BY <2>1 DEF Tally
  <2> QED BY <2>1, <2>2, Zenon DEF Tally
<1> HIDE DEF t
<1>4. /\ jobs' \in Seq(Job) /\ JobIds' = JobIds /\ jobs'[j] = row
      /\ \A i \in JobIds \ {j} : jobs'[i] = jobs[i]
  BY <1>1, <1>2, RowWritten DEF BaseInv
<1>5. /\ tally' \in Seq(Tally) /\ DOMAIN tally' = JobIds /\ tally'[j] = t
      /\ \A i \in JobIds \ {j} : tally'[i] = tally[i]
  BY <1>1, <1>3, CountersWritten DEF BaseInv
<1>6. ActiveUnique'
  BY <1>1, <1>2, <1>4 DEF BaseInv, ActiveUnique, UniqueViolation, ActiveJobs
<1> QED BY <1>2, <1>3, <1>4, <1>5, <1>6

LEMMA WriteRowKeeps ==
  ASSUME BaseInv, NEW j \in JobIds, NEW n \in Nat, NEW row \in Nacked(jobs[j], n), WriteRow(j, row),
         req' = req, WorkersTyped',
         deliveries' \subseteq Delivery, \A x \in deliveries' : x.job \in JobIds
  PROVE  BaseInv'
<1>1. /\ jobs' \in Seq(Job) /\ JobIds' = JobIds
      /\ tally' \in Seq(Tally) /\ DOMAIN tally' = JobIds /\ ActiveUnique'
  BY WriteRowEffect
<1> QED BY <1>1, SameCalls DEF BaseInv, RowsTyped

LEMMA NackWriteKeeps ==
  ASSUME BaseInv, NEW d \in deliveries, NackWrite(d)
  PROVE  BaseInv'
<1>1. req' = req /\ crashes' = crashes /\ dbErrors' = dbErrors
  BY DEF NackWrite
<1>2. d.job \in JobIds /\ d \in Delivery /\ d.read + 1 \in Nat /\ d.worker \in Workers
  BY DeliveryType DEF BaseInv, Delivery
<1>3. CASE ProcessEnds(d.worker) /\ jobs' = jobs /\ tally' = tally
  BY <1>1, <1>2, <1>3, EndsKeeps DEF BaseInv, WorkersTyped
<1>4. ASSUME NEW row \in Nacked(jobs[d.job], d.read + 1), WriteRow(d.job, row), Goto(d, "stat"),
             proc' = proc, poll' = poll
      PROVE  BaseInv'
  <2> DEFINE e == [d EXCEPT !.at = "stat"]
  <2>1. e \in Delivery /\ e.job = d.job /\ Becomes(d, e)
    BY <1>2, <1>4 DEF Delivery, Phases, Goto
  <2> HIDE DEF e
  <2>2. deliveries' \subseteq Delivery /\ \A x \in deliveries' : x.job \in JobIds
    BY <2>1, BecomesTyped DEF BaseInv
  <2>3. WorkersTyped'
    BY <1>1, <1>4 DEF BaseInv, WorkersTyped
  <2> QED BY <1>1, <1>2, <1>4, <2>2, <2>3, WriteRowKeeps
<1> QED BY <1>3, <1>4 DEF NackWrite

LEMMA StatKeeps ==
  ASSUME BaseInv, NEW d \in deliveries, Stat(d)
  PROVE  BaseInv'
BY RowsUntouched DEF Stat, BaseInv, RowsTyped, WorkersTyped

\* A failing query of the catch block, its UPDATE written or not.
LEMMA CatchFailsKeeps ==
  ASSUME BaseInv, NEW d \in deliveries, CatchFails(d)
  PROVE  BaseInv'
<1>1. /\ req' = req /\ crashes' = crashes /\ ProcessEnds(d.worker)
  BY DEF CatchFails
<1>2. d.job \in JobIds /\ d \in Delivery /\ d.read + 1 \in Nat /\ d.worker \in Workers
  BY DeliveryType DEF BaseInv, Delivery
<1>3. crashes' \in 0..MaxCrashes /\ dbErrors' \in 0..MaxDbErrors
  BY Bounds DEF CatchFails, BaseInv, WorkersTyped
<1>4. CASE jobs' = jobs /\ tally' = tally
  BY <1>1, <1>2, <1>3, <1>4, EndsKeeps
<1>5. ASSUME NEW row \in Nacked(jobs[d.job], d.read + 1), WriteRow(d.job, row)
      PROVE  BaseInv'
  <2>1. WorkersTyped'
    BY <1>1, <1>2, <1>3 DEF ProcessEnds, BaseInv, WorkersTyped
  <2>2. deliveries' \subseteq Delivery /\ \A x \in deliveries' : x.job \in JobIds
    BY <1>1 DEF ProcessEnds, BaseInv, RowsTyped
  <2> QED BY <1>1, <1>2, <1>5, <2>1, <2>2, WriteRowKeeps
<1> QED BY <1>4, <1>5 DEF CatchFails

\* Processes come and go.
LEMMA ProcessKeeps ==
  ASSUME BaseInv, NEW w \in Workers,
         PollTimer(w) \/ Stop(w) \/ StopResolves(w) \/ Start(w) \/ Exit(w) \/ Crash(w)
  PROVE  BaseInv'
<1>1. crashes \in 0..MaxCrashes /\ dbErrors \in 0..MaxDbErrors
  BY DEF BaseInv, WorkersTyped
<1>2. CASE Exit(w) \/ Crash(w)
  <2>1. /\ ProcessEnds(w) /\ jobs' = jobs /\ tally' = tally /\ req' = req
    BY <1>2 DEF Exit, Crash
  <2>2. crashes' \in 0..MaxCrashes /\ dbErrors' \in 0..MaxDbErrors
    BY <1>1, <1>2, Bounds DEF Exit, Crash
  <2> QED BY <2>1, <2>2, EndsKeeps
<1>3. CASE PollTimer(w) \/ Stop(w) \/ StopResolves(w) \/ Start(w)
  <2>1. jobs' = jobs /\ tally' = tally /\ req' = req /\ deliveries' = deliveries
    BY <1>3 DEF PollTimer, Stop, StopResolves, Start
  <2>2. proc' \in [Workers -> {"up", "draining", "stopped", "gaveUp", "down"}]
    BY <1>3 DEF PollTimer, Stop, StopResolves, Start, BaseInv, WorkersTyped
  <2>3. poll' \in [Workers -> {"off", "timer", "query", "resume"}]
    BY <1>3 DEF PollTimer, Stop, StopResolves, Start, BaseInv, WorkersTyped
  <2>4. crashes' \in 0..MaxCrashes /\ dbErrors' = dbErrors
    BY <1>1, <1>3, Bounds DEF PollTimer, Stop, StopResolves, Start
  <2>5. WorkersTyped'
    BY <1>1, <2>2, <2>3, <2>4 DEF WorkersTyped
  <2> QED BY <2>1, <2>5, RowsUntouched DEF BaseInv, RowsTyped
<1> QED BY <1>2, <1>3

\* Time changes ages and waits only.
LEMMA TickEffect ==
  ASSUME RowsTyped, Tick
  PROVE  /\ jobs' \in Seq(Job) /\ JobIds' = JobIds
         /\ \A j \in JobIds :
              /\ jobs'[j].key = jobs[j].key /\ jobs'[j].status = jobs[j].status
              /\ jobs'[j].attempts = jobs[j].attempts
              /\ jobs'[j].age = IF jobs[j].status = "processing" THEN Older(jobs[j].age) ELSE 0
<1> DEFINE row(j) == [jobs[j] EXCEPT
                       !.age = IF jobs[j].status = "processing" THEN Older(jobs[j].age) ELSE 0,
                       !.wait = IF jobs[j].wait > 0 THEN jobs[j].wait - 1 ELSE 0]
<1>1. jobs' = [j \in JobIds |-> row(j)]
  BY DEF Tick
<1>2. ASSUME NEW j \in JobIds
      PROVE  /\ row(j) \in Job /\ row(j).key = jobs[j].key /\ row(j).status = jobs[j].status
             /\ row(j).attempts = jobs[j].attempts
             /\ row(j).age = IF jobs[j].status = "processing" THEN Older(jobs[j].age) ELSE 0
  <2>1. jobs[j] \in Job
    BY RowType
  <2>2. Older(jobs[j].age) \in 0..StaleAfter
    BY <2>1, Bounds DEF Older, Job
  <2>3. (IF jobs[j].wait > 0 THEN jobs[j].wait - 1 ELSE 0) \in Nat
    BY <2>1 DEF Job
  <2> QED BY <2>1, <2>2, <2>3, Bounds DEF Job
<1> HIDE DEF row
<1>3. JobIds = 1..Len(jobs) /\ Len(jobs) \in Nat
  BY DEF RowsTyped, JobIds
<1>4. jobs' \in Seq(Job) /\ JobIds' = JobIds
  <2>1. jobs' \in [1..Len(jobs) -> Job]
    BY <1>1, <1>2, <1>3
  <2>2. jobs' \in Seq(Job)
    BY <1>3, <2>1, IsASeq
  <2> QED BY <1>3, <2>1, <2>2 DEF JobIds
<1> QED BY <1>1, <1>2, <1>4

LEMMA TickKeeps ==
  ASSUME BaseInv, Tick
  PROVE  BaseInv'
<1>1. /\ jobs' \in Seq(Job) /\ JobIds' = JobIds
      /\ \A j \in JobIds : jobs'[j].key = jobs[j].key /\ jobs'[j].status = jobs[j].status
  BY TickEffect DEF BaseInv
<1>2. tally' = tally /\ req' = req /\ proc' = proc /\ poll' = poll /\ crashes' = crashes
      /\ dbErrors' = dbErrors /\ deliveries' = {[d EXCEPT !.age = Older(d.age)] : d \in deliveries}
  BY DEF Tick
<1>3. ASSUME NEW d \in deliveries
      PROVE  [d EXCEPT !.age = Older(d.age)] \in Delivery /\ [d EXCEPT !.age = Older(d.age)].job = d.job
  <2>1. d \in Delivery
    BY DeliveryType DEF BaseInv
  <2>2. Older(d.age) \in 0..StaleAfter
    BY <2>1, Bounds DEF Older, Delivery
  <2> QED BY <2>1, <2>2 DEF Delivery
<1>4. deliveries' \subseteq Delivery /\ \A x \in deliveries' : x.job \in JobIds
  BY <1>2, <1>3, DeliveryType DEF BaseInv
<1>5. ActiveUnique'
  BY <1>1, NoneRevived DEF BaseInv
<1>6. WorkersTyped'
  BY <1>2 DEF BaseInv, WorkersTyped
<1> QED BY <1>1, <1>2, <1>4, <1>5, <1>6, SameCalls DEF BaseInv, RowsTyped

-----------------------------------------------------------------------------
LEMMA InitHasBase == Init => BaseInv
<1> SUFFICES ASSUME Init PROVE BaseInv
  OBVIOUS
<1>1. RowsTyped
  BY DEF Init, RowsTyped, JobIds
<1>2. CallsKnown
  BY DEF Init, CallsKnown, Call
<1>3. WorkersTyped
  BY Bounds DEF Init, WorkersTyped
<1> QED BY <1>1, <1>2, <1>3 DEF Init, BaseInv, ActiveUnique, JobIds

LEMMA NextKeepsBase == BaseInv /\ [Next]_vars => BaseInv'
<1> SUFFICES ASSUME BaseInv, [Next]_vars PROVE BaseInv'
  OBVIOUS
<1>1. CASE \E r \in Requests : EnqueueStep(r) \/ EnqueueFails(r)
  BY <1>1, EnqueueFindKeeps, InsertKeeps, EnqueueRefetchKeeps, EnqueueFailsKeeps DEF EnqueueStep
<1>2. CASE \E w \in Workers : Dequeue(w) \/ Dispatch(w) \/ DequeueFails(w)
  BY <1>2, DequeueKeeps, DispatchKeeps, DequeueFailsKeeps
<1>3. CASE \E w \in Workers : \/ PollTimer(w) \/ Stop(w) \/ StopResolves(w)
                              \/ Start(w) \/ Exit(w) \/ Crash(w)
  BY <1>3, ProcessKeeps
<1>4. CASE \E w \in Workers : DeliveryStep(w)
  <2>1. PICK d \in deliveries : Handle(d) \/ Ack(d) \/ NackRead(d) \/ NackWrite(d) \/ Stat(d)
    BY <1>4 DEF DeliveryStep, Active
  <2> QED BY <2>1, HandleKeeps, AckKeeps, NackReadKeeps, NackWriteKeeps, StatKeeps
<1>5. CASE \E d \in deliveries : AckFails(d)
  BY <1>5, FailingAckKeeps
<1>6. CASE \E d \in deliveries : CatchFails(d)
  BY <1>6, CatchFailsKeeps
<1>7. CASE Tick
  BY <1>7, TickKeeps
<1>8. CASE UNCHANGED vars
  BY <1>8, RowsUntouched DEF vars, BaseInv, RowsTyped, WorkersTyped
<1> QED BY <1>1, <1>2, <1>3, <1>4, <1>5, <1>6, <1>7, <1>8 DEF Next, PollStep

THEOREM BaseInvariant == Spec => []BaseInv
BY InitHasBase, NextKeepsBase, PTL DEF Spec

\* Only time makes a delivery outlast the stale window.
LEMMA OnlyTickOverruns ==
  ASSUME [Next]_vars
  PROVE  overran' = overran \/ (Tick /\ overran' = (overran \/ Outlasted))
BY DEF Next, vars, EnqueueStep, EnqueueFind, EnqueueInsert, EnqueueRefetch, EnqueueFails, PollStep,
       PollTimer, Dequeue, Dispatch, DequeueFails, DeliveryStep, Handle, Ack, NackRead, NackWrite,
       Stat, Stop, StopResolves, Exit, Crash, Start, AckFails, CatchFails, Tick

\* What has outlasted it stays so.
LEMMA NeverBefore ==
  ASSUME [Next]_vars, overran \in BOOLEAN, ~overran'
  PROVE  ~overran /\ (Tick => \A d \in deliveries : ~(d.age + 1 >= StaleAfter))
<1>1. ~overran
  BY OnlyTickOverruns
<1>2. Tick => ~Outlasted
  BY DEF Tick
<1> QED BY <1>1, <1>2 DEF Outlasted

THEOREM OverranTyped == Spec => [](overran \in BOOLEAN)
<1>1. Init => overran \in BOOLEAN
  BY DEF Init
<1>2. overran \in BOOLEAN /\ [Next]_vars => (overran \in BOOLEAN)'
  BY OnlyTickOverruns
<1> QED BY <1>1, <1>2, PTL DEF Spec

\* The rows, the calls, the workers and their deliveries have their types.
THEOREM TypeCorrect == Spec => []TypeOK
<1>1. BaseInv /\ overran \in BOOLEAN => TypeOK
  BY DEF BaseInv, RowsTyped, CallsKnown, WorkersTyped, TypeOK, Tally, Call
<1> QED BY <1>1, BaseInvariant, OverranTyped, PTL

\* Whatever stale deliveries ack or nack, and whenever, a key never has two
\* unfinished jobs (idx_jobs_active_idempotency).
THEOREM KeysUnique == Spec => []ActiveUnique
<1>1. BaseInv => ActiveUnique
  BY DEF BaseInv
<1> QED BY <1>1, BaseInvariant, PTL

-----------------------------------------------------------------------------
\* As long as no delivery has outlasted the stale window.

\* The delivery's job is processing and as old as itself, so that nobody reclaims it.
Held(d) == jobs[d.job].status = "processing" /\ jobs[d.job].age = d.age

\* The delivery's ack was committed and its answer lost: its nack is to come.
Doubtful(d) ==
  /\ d.at \in {"nack", "nackWrite"}
  /\ jobs[d.job].status = "completed" /\ tally[d.job].unheard

\* A delivery that may still write has its job for itself.
Live(d) ==
  d.at # "stat" =>
    /\ Held(d) \/ Doubtful(d)
    /\ d.age < StaleAfter
    /\ d.at = "ack" => tally[d.job].done >= 1
    /\ d.at = "nackWrite" => d.read = jobs[d.job].attempts

\* A completed job's handler has succeeded.
CompletionsEarned == \A j \in JobIds : jobs[j].status = "completed" => tally[j].done >= 1

\* Only a completion goes unheard.
UnheardCompleted == \A j \in JobIds : tally[j].unheard => jobs[j].status = "completed"

CountInv ==
  /\ \A d \in deliveries : Live(d)
  /\ SingleDelivery
  /\ DeadAfterMaxFailures
  /\ CompletionsEarned
  /\ UnheardCompleted

TimelyInv == BaseInv /\ overran \in BOOLEAN /\ (~overran => CountInv)

LEMMA FewerDeliveries ==
  ASSUME CountInv, jobs' = jobs, tally' = tally, deliveries' \subseteq deliveries
  PROVE  CountInv'
BY DEF CountInv, Live, Held, Doubtful, SingleDelivery, DeadAfterMaxFailures, CompletionsEarned,
       UnheardCompleted, JobIds

\* A delivery moves on; its handler may have succeeded meanwhile.
LEMMA MoveKeepsCount ==
  ASSUME BaseInv, CountInv, NEW d \in deliveries, d.at # "stat", NEW e, Becomes(d, e),
         e.job = d.job, e.age = d.age, jobs' = jobs,
         \A j \in JobIds : /\ tally'[j].failures = tally[j].failures
                           /\ tally[j].done >= 1 => tally'[j].done >= 1
                           /\ tally'[j].unheard = tally[j].unheard,
         Held(d) \/ e.at \in {"nack", "nackWrite"},
         e.at = "ack" => tally'[d.job].done >= 1,
         e.at = "nackWrite" => e.read = jobs[d.job].attempts
  PROVE  CountInv'
<1>1. JobIds' = JobIds
  BY DEF JobIds
<1>2. deliveries' = (deliveries \ {d}) \union {e}
  BY DEF Becomes
<1>3. ASSUME NEW x \in deliveries' PROVE Live(x)'
  <2>1. CASE x = e
    <3>1. d.job \in JobIds /\ (Held(d) \/ Doubtful(d)) /\ d.age < StaleAfter
      BY DeliveryType DEF BaseInv, CountInv, Live
    <3> QED BY <2>1, <3>1 DEF Live, Held, Doubtful
  <2>2. CASE x \in deliveries
    <3>1. x.job \in JobIds /\ Live(x)
      BY <2>2, DeliveryType DEF BaseInv, CountInv
    <3> QED BY <3>1 DEF Live, Held, Doubtful
  <2> QED BY <1>2, <1>3, <2>1, <2>2
<1>4. SingleDelivery'
  BY <1>2 DEF CountInv, SingleDelivery
<1>5. DeadAfterMaxFailures'
  BY <1>1 DEF CountInv, DeadAfterMaxFailures
<1>6. CompletionsEarned' /\ UnheardCompleted'
  BY <1>1 DEF CountInv, CompletionsEarned, UnheardCompleted
<1> QED BY <1>3, <1>4, <1>5, <1>6 DEF CountInv

\* Before its ack a delivery holds its job.
LEMMA HeldBeforeAck ==
  ASSUME CountInv, NEW d \in deliveries, d.at \in {"claimed", "handler", "ack"}
  PROVE  Held(d)
BY DEF CountInv, Live, Doubtful

\* Nobody holds a job that can be claimed.
LEMMA ClaimKeepsCount ==
  ASSUME BaseInv, CountInv, NEW j \in JobIds, Eligible(j), Take(j), NEW e,
         e.job = j /\ e.at = "claimed" /\ e.age = 0,
         deliveries' = deliveries \/ deliveries' = deliveries \union {e}
  PROVE  CountInv'
<1>1. /\ JobIds' = JobIds
      /\ jobs'[j] = [jobs[j] EXCEPT !.status = "processing", !.age = 0]
      /\ \A i \in JobIds \ {j} : jobs'[i] = jobs[i]
      /\ tally'[j] = [tally[j] EXCEPT !.claims = @ + 1]
      /\ \A i \in JobIds \ {j} : tally'[i] = tally[i]
  BY TakeEffect DEF BaseInv
<1>2. jobs[j] \in Job /\ tally[j] \in Tally
  BY RowType DEF BaseInv
<1>3. /\ jobs'[j].status = "processing" /\ jobs'[j].age = 0 /\ jobs'[j].attempts = jobs[j].attempts
      /\ tally'[j].failures = tally[j].failures /\ tally'[j].done = tally[j].done
      /\ tally'[j].unheard = tally[j].unheard
  BY <1>1, <1>2 DEF Job, Tally
<1>4. ASSUME NEW d \in deliveries, d.at # "stat" PROVE d.job # j
  <2>1. d.job = j => jobs[j].status = "processing" /\ jobs[j].age = d.age /\ d.age < StaleAfter
    BY <1>4 DEF CountInv, Live, Held, Doubtful, Eligible
  <2>2. d.age \in Nat /\ jobs[j].age \in Nat
    BY <1>2, DeliveryType, Bounds DEF BaseInv, Delivery, Job
  <2> QED BY <2>1, <2>2, Bounds DEF Eligible
<1>5. ASSUME NEW x \in deliveries' PROVE Live(x)'
  <2>1. CASE x = e
    BY <1>3, <2>1, Bounds DEF Live, Held
  <2>2. CASE x \in deliveries
    <3>1. x.at # "stat" => jobs'[x.job] = jobs[x.job] /\ tally'[x.job] = tally[x.job]
      BY <1>1, <1>4, <2>2, DeliveryType DEF BaseInv
    <3> QED BY <2>2, <3>1 DEF CountInv, Live, Held, Doubtful
  <2> QED BY <1>5, <2>1, <2>2
<1>6. SingleDelivery'
  BY <1>4 DEF CountInv, SingleDelivery
<1>7. DeadAfterMaxFailures'
  <2>1. jobs[j].status # "dead"
    BY DEF Eligible
  <2> SUFFICES ASSUME NEW i \in JobIds
               PROVE  /\ jobs'[i].status = "dead" <=> tally'[i].failures >= MaxAttempts
                      /\ jobs'[i].attempts = tally'[i].failures
    BY <1>1 DEF DeadAfterMaxFailures
  <2>2. /\ jobs[i].status = "dead" <=> tally[i].failures >= MaxAttempts
        /\ jobs[i].attempts = tally[i].failures
    BY DEF CountInv, DeadAfterMaxFailures
  <2>3. CASE i = j
    BY <1>3, <2>1, <2>2, <2>3
  <2>4. CASE i # j
    BY <1>1, <2>2, <2>4
  <2> QED BY <2>3, <2>4
<1>8. CompletionsEarned'
  BY <1>1, <1>3 DEF CountInv, CompletionsEarned
<1>9. UnheardCompleted'
  <2>1. jobs[j].status # "completed"
    BY DEF Eligible
  <2>2. ~tally[j].unheard /\ \A i \in JobIds : tally[i].unheard => jobs[i].status = "completed"
    BY <2>1 DEF CountInv, UnheardCompleted
  <2>3. ~tally'[j].unheard
    BY <1>3, <2>2
  <2>4. \A i \in JobIds \ {j} : tally'[i].unheard => jobs'[i].status = "completed"
    <3>1. \A i \in JobIds \ {j} : jobs'[i] = jobs[i] /\ tally'[i] = tally[i]
      BY <1>1
    <3> QED BY <2>2, <3>1, Zenon
  <2>5. JobIds' = JobIds
    BY <1>1
  <2> QED BY <2>3, <2>4, <2>5, Zenon DEF UnheardCompleted
<1> QED BY <1>5, <1>6, <1>7, <1>8, <1>9 DEF CountInv

LEMMA InsertKeepsCount ==
  ASSUME BaseInv, CountInv, NEW k \in Keys, Insert(k), deliveries' = deliveries
  PROVE  CountInv'
<1>0. PICK new : new = Len(jobs) + 1
  OBVIOUS
<1>1. /\ JobIds' = JobIds \union {new} /\ new \notin JobIds
      /\ jobs'[new] = NewJob(k) /\ tally'[new] = NewTally
      /\ \A i \in JobIds : jobs'[i] = jobs[i] /\ tally'[i] = tally[i]
  BY <1>0, InsertEffect
<1>2. /\ jobs'[new].status = "pending" /\ jobs'[new].attempts = 0
      /\ tally'[new].failures = 0 /\ ~tally'[new].unheard
  BY <1>1 DEF NewJob, NewTally
<1>3. \A d \in deliveries' : Live(d)'
  BY <1>1, DeliveryType DEF BaseInv, CountInv, Live, Held, Doubtful
<1>4. SingleDelivery'
  BY DEF CountInv, SingleDelivery
<1>5. DeadAfterMaxFailures'
  BY <1>1, <1>2, Bounds DEF CountInv, DeadAfterMaxFailures
<1>6. CompletionsEarned' /\ UnheardCompleted'
  BY <1>1, <1>2 DEF CountInv, CompletionsEarned, UnheardCompleted
<1> QED BY <1>3, <1>4, <1>5, <1>6 DEF CountInv

\* The only delivery of a job completes it, whether or not it hears of it.
LEMMA AckKeepsCount ==
  ASSUME BaseInv, CountInv, NEW d \in deliveries, d.at = "ack", Complete(d.job),
         \/ tally' = tally /\ deliveries' = deliveries \ {d}
         \/ tally' = [tally EXCEPT ![d.job].unheard = TRUE] /\ Becomes(d, [d EXCEPT !.at = "nack"])
  PROVE  CountInv'
<1> DEFINE j == d.job
           e == [d EXCEPT !.at = "nack"]
<1>1. /\ d \in Delivery /\ j \in JobIds /\ JobIds' = JobIds
      /\ jobs'[j].status = "completed" /\ jobs'[j].attempts = jobs[j].attempts
      /\ \A i \in JobIds \ {j} : jobs'[i] = jobs[i]
  BY DeliveryType, CompleteEffect DEF BaseInv
<1>2. /\ tally'[j].failures = tally[j].failures /\ tally'[j].done = tally[j].done
      /\ \A i \in JobIds \ {j} : tally'[i] = tally[i]
  BY <1>1, UnheardEffect DEF BaseInv
<1>3. jobs[j].status = "processing" /\ tally[j].done >= 1 /\ d.age < StaleAfter
  BY HeldBeforeAck DEF CountInv, Live, Held
<1>4. e.at = "nack" /\ e.job = j /\ e.age = d.age
  BY <1>1 DEF Delivery
<1>5. /\ deliveries' \subseteq (deliveries \ {d}) \union {e}
      /\ e \in deliveries' => tally'[j].unheard \/ e \in deliveries
  BY <1>1, UnheardEffect DEF Becomes, BaseInv
<1> HIDE DEF e
<1>6. \A x \in deliveries \ {d} : x.at # "stat" => x.job # j
  BY DEF CountInv, SingleDelivery
<1>7. \A x \in deliveries' : Live(x)'
  <2> SUFFICES ASSUME NEW x \in deliveries' PROVE Live(x)'
    OBVIOUS
  <2>1. CASE x \in deliveries \ {d}
    <3>1. x.job \in JobIds /\ Live(x)
      BY <2>1, DeliveryType DEF BaseInv, CountInv
    <3>2. x.at # "stat" => jobs'[x.job] = jobs[x.job] /\ tally'[x.job] = tally[x.job]
      BY <1>1, <1>2, <1>6, <2>1, <3>1
    <3> QED BY <3>1, <3>2 DEF Live, Held, Doubtful
  <2>2. CASE x = e /\ e \notin deliveries
    BY <1>1, <1>3, <1>4, <1>5, <2>2 DEF Live, Doubtful
  <2>3. CASE x = e /\ e \in deliveries
    <3>1. e # d
      BY <1>4
    <3> QED BY <2>1, <2>3, <3>1
  <2> QED BY <1>5, <2>1, <2>2, <2>3
<1>8. SingleDelivery'
  BY <1>4, <1>5, <1>6 DEF CountInv, SingleDelivery
<1>9. DeadAfterMaxFailures'
  <2>1. \A i \in JobIds : /\ jobs'[i].status = "dead" <=> jobs[i].status = "dead"
                          /\ jobs'[i].attempts = jobs[i].attempts
                          /\ tally'[i].failures = tally[i].failures
    BY <1>1, <1>2, <1>3
  <2> QED BY <1>1, <2>1 DEF CountInv, DeadAfterMaxFailures
<1>10. CompletionsEarned' /\ UnheardCompleted'
  BY <1>1, <1>2, <1>3 DEF CountInv, CompletionsEarned, UnheardCompleted
<1> QED BY <1>7, <1>8, <1>9, <1>10 DEF CountInv

\* What nack's UPDATE does; the only delivery of a job writes what it read.
Written(d) ==
  /\ JobIds' = JobIds
  /\ \A i \in JobIds \ {d.job} : jobs'[i] = jobs[i] /\ tally'[i] = tally[i]
  /\ jobs'[d.job].attempts = jobs[d.job].attempts + 1
  /\ jobs'[d.job].status = IF jobs[d.job].attempts + 1 >= MaxAttempts THEN "dead" ELSE "pending"
  /\ tally'[d.job].failures = tally[d.job].failures + 1
  /\ tally'[d.job].done = tally[d.job].done
  /\ tally'[d.job].unheard = FALSE

LEMMA WritesWhatItRead ==
  ASSUME BaseInv, CountInv, NEW d \in deliveries, d.at = "nackWrite",
         NEW row \in Nacked(jobs[d.job], d.read + 1), WriteRow(d.job, row)
  PROVE  Written(d)
<1>1. d.job \in JobIds /\ d.read + 1 \in Nat /\ d.read = jobs[d.job].attempts
  BY DeliveryType DEF BaseInv, Delivery, CountInv, Live
<1>2. /\ JobIds' = JobIds
      /\ jobs'[d.job].attempts = d.read + 1
      /\ jobs'[d.job].status = IF d.read + 1 >= MaxAttempts THEN "dead" ELSE "pending"
      /\ tally'[d.job].failures = tally[d.job].failures + 1
      /\ tally'[d.job].done = tally[d.job].done /\ tally'[d.job].unheard = FALSE
      /\ \A i \in JobIds \ {d.job} : jobs'[i] = jobs[i] /\ tally'[i] = tally[i]
  BY <1>1, WriteRowEffect
<1> QED BY <1>1, <1>2 DEF Written

\* The index refuses the nack of no job that is held: the job itself is the key's
\* unfinished one.  It may refuse the nack of a completed one, and the process ends.
LEMMA NackWriteEffect ==
  ASSUME BaseInv, CountInv, NEW d \in deliveries, NackWrite(d)
  PROVE  \/ Written(d) /\ Becomes(d, [d EXCEPT !.at = "stat"]) /\ proc' = proc
         \/ Doubtful(d) /\ jobs' = jobs /\ tally' = tally /\ ProcessEnds(d.worker)
<1>1. d.at = "nackWrite" /\ d.job \in JobIds /\ d.read + 1 \in Nat /\ (Held(d) \/ Doubtful(d))
  BY DeliveryType DEF NackWrite, BaseInv, Delivery, CountInv, Live
<1>2. ASSUME NEW row \in Nacked(jobs[d.job], d.read + 1), UniqueViolation(d.job, row) PROVE Doubtful(d)
  <2>1. row.key = jobs[d.job].key
    BY <1>1, RowType, NackedRow DEF BaseInv
  <2>2. jobs[d.job].status # "processing"
    BY <1>1, <1>2, <2>1 DEF UniqueViolation, ActiveJobs, Terminal, BaseInv, ActiveUnique
  <2> QED BY <1>1, <2>2 DEF Held
<1> QED BY <1>1, <1>2, WritesWhatItRead DEF NackWrite, Goto

LEMMA WrittenKeepsCount ==
  ASSUME BaseInv, CountInv, NEW d \in deliveries, d.at = "nackWrite", Written(d),
         \A x \in deliveries' : x.at # "stat" => x \in deliveries \ {d}
  PROVE  CountInv'
<1> DEFINE j == d.job
<1>1. /\ j \in JobIds /\ JobIds' = JobIds
      /\ \A i \in JobIds \ {j} : jobs'[i] = jobs[i] /\ tally'[i] = tally[i]
      /\ jobs'[j].attempts = jobs[j].attempts + 1
      /\ jobs'[j].status = IF jobs[j].attempts + 1 >= MaxAttempts THEN "dead" ELSE "pending"
      /\ tally'[j].failures = tally[j].failures + 1
      /\ tally'[j].done = tally[j].done /\ tally'[j].unheard = FALSE
  BY DeliveryType DEF BaseInv, Written
<1>2. \A x \in deliveries' : x.at # "stat" => x \in deliveries /\ x.job \in JobIds \ {j}
  BY DeliveryType DEF BaseInv, CountInv, SingleDelivery
<1>3. \A x \in deliveries' : Live(x)'
  BY <1>1, <1>2 DEF CountInv, Live, Held, Doubtful
<1>4. SingleDelivery'
  BY <1>2 DEF CountInv, SingleDelivery
<1>5. DeadAfterMaxFailures'
  <2>1. jobs[j].attempts = tally[j].failures
    BY <1>1 DEF CountInv, DeadAfterMaxFailures
  <2>2. jobs'[j].attempts = tally'[j].failures
    BY <1>1, <2>1
  <2>3. jobs'[j].status = "dead" <=> tally'[j].failures >= MaxAttempts
    BY <1>1, <2>1
  <2> QED BY <1>1, <2>2, <2>3 DEF CountInv, DeadAfterMaxFailures
<1>6. CompletionsEarned' /\ UnheardCompleted'
  BY <1>1 DEF CountInv, CompletionsEarned, UnheardCompleted
<1> QED BY <1>3, <1>4, <1>5, <1>6 DEF CountInv

LEMMA NackWriteKeepsCount ==
  ASSUME BaseInv, CountInv, NEW d \in deliveries, NackWrite(d)
  PROVE  CountInv'
<1>1. CASE Written(d) /\ Becomes(d, [d EXCEPT !.at = "stat"])
  <2>1. [d EXCEPT !.at = "stat"].at = "stat" /\ d.at = "nackWrite"
    BY DeliveryType DEF BaseInv, Delivery, NackWrite
  <2> QED BY <1>1, <2>1, WrittenKeepsCount DEF Becomes
<1>2. CASE jobs' = jobs /\ tally' = tally /\ ProcessEnds(d.worker)
  BY <1>2, FewerDeliveries DEF ProcessEnds
<1> QED BY <1>1, <1>2, NackWriteEffect

LEMMA CatchFailsKeepsCount ==
  ASSUME BaseInv, CountInv, NEW d \in deliveries, CatchFails(d)
  PROVE  CountInv'
<1>1. ProcessEnds(d.worker) /\ deliveries' \subseteq deliveries \ {d}
  BY DEF CatchFails, ProcessEnds
<1>2. CASE jobs' = jobs /\ tally' = tally
  BY <1>1, <1>2, FewerDeliveries
<1>3. CASE d.at = "nackWrite" /\ \E row \in Nacked(jobs[d.job], d.read + 1) : WriteRow(d.job, row)
  BY <1>1, <1>3, WritesWhatItRead, WrittenKeepsCount
<1> QED BY <1>2, <1>3 DEF CatchFails

LEMMA TickKeepsCount ==
  ASSUME BaseInv, CountInv, Tick, \A d \in deliveries : ~(d.age + 1 >= StaleAfter)
  PROVE  CountInv'
<1>1. /\ JobIds' = JobIds /\ tally' = tally
      /\ \A j \in JobIds :
           /\ jobs'[j].status = jobs[j].status /\ jobs'[j].attempts = jobs[j].attempts
           /\ jobs'[j].age = IF jobs[j].status = "processing" THEN Older(jobs[j].age) ELSE 0
  BY TickEffect DEF BaseInv, Tick
<1>2. /\ deliveries' = {[d EXCEPT !.age = Older(d.age)] : d \in deliveries}
      /\ \A d \in deliveries : d.age + 1 < StaleAfter
  <2>1. \A d \in deliveries : d.age \in 0..StaleAfter
    BY DeliveryType DEF BaseInv, Delivery
  <2>2. \A d \in deliveries : d.age + 1 < StaleAfter
    BY <2>1, Bounds
  <2> QED BY <2>2 DEF Tick
<1>3. ASSUME NEW x \in deliveries'
      PROVE  \E d \in deliveries : /\ x = [d EXCEPT !.age = Older(d.age)]
                                   /\ x.at = d.at /\ x.job = d.job /\ x.read = d.read
                                   /\ x.age = Older(d.age) /\ d.job \in JobIds
  <2>1. PICK d \in deliveries : x = [d EXCEPT !.age = Older(d.age)]
    BY <1>2, <1>3
  <2>2. d \in Delivery /\ d.job \in JobIds
    BY DeliveryType DEF BaseInv
  <2> QED BY <2>1, <2>2 DEF Delivery
<1>4. \A x \in deliveries' : Live(x)'
  <2> SUFFICES ASSUME NEW x \in deliveries', x.at # "stat" PROVE Live(x)'
    BY DEF Live
  <2>1. PICK d \in deliveries : /\ x.at = d.at /\ x.job = d.job /\ x.read = d.read
                                /\ x.age = Older(d.age) /\ d.job \in JobIds
    BY <1>3
  <2>2. /\ Held(d) \/ Doubtful(d)
        /\ d.at = "ack" => tally[d.job].done >= 1
        /\ d.at = "nackWrite" => d.read = jobs[d.job].attempts
    BY <2>1 DEF CountInv, Live
  <2>3. Older(d.age) < StaleAfter
    <3>1. d.age \in 0..StaleAfter
      BY DeliveryType DEF BaseInv, Delivery
    <3> QED BY <1>2, <3>1, Bounds DEF Older
  <2>4. (Held(x)' \/ Doubtful(x)') /\ x.age < StaleAfter
    BY <1>1, <2>1, <2>2, <2>3 DEF Held, Doubtful
  <2>5. /\ x.at = "ack" => tally'[x.job].done >= 1
        /\ x.at = "nackWrite" => x.read = jobs'[x.job].attempts
    BY <1>1, <2>1, <2>2
  <2> QED BY <2>4, <2>5 DEF Live
<1>5. SingleDelivery'
  BY <1>3 DEF CountInv, SingleDelivery
<1>6. DeadAfterMaxFailures' /\ CompletionsEarned' /\ UnheardCompleted'
  BY <1>1 DEF CountInv, DeadAfterMaxFailures, CompletionsEarned, UnheardCompleted
<1> QED BY <1>4, <1>5, <1>6 DEF CountInv

LEMMA NextKeepsCount ==
  ASSUME BaseInv, CountInv, Next, overran \in BOOLEAN, ~overran'
  PROVE  CountInv'
<1>1. CASE \E r \in Requests : EnqueueStep(r) \/ EnqueueFails(r)
  <2>1. PICK r \in Requests : EnqueueStep(r) \/ EnqueueFails(r)
    BY <1>1
  <2>2. deliveries' = deliveries
    BY <2>1 DEF EnqueueStep, EnqueueFind, EnqueueInsert, EnqueueRefetch, EnqueueFails
  <2>3. CASE req[r].at = "insert" /\ Insert(req[r].key)
    <3>1. req[r].key \in Keys
      BY <2>3 DEF BaseInv, CallsKnown
    <3> QED BY <2>2, <2>3, <3>1, InsertKeepsCount
  <2>4. CASE jobs' = jobs /\ tally' = tally
    BY <2>2, <2>4, FewerDeliveries
  <2> QED BY <2>1, <2>3, <2>4
          DEF EnqueueStep, EnqueueFind, EnqueueInsert, EnqueueRefetch, EnqueueFails
<1>2. CASE \E w \in Workers : Dequeue(w)
  <2>1. PICK w \in Workers : Dequeue(w)
    BY <1>2
  <2>2. CASE jobs' = jobs /\ tally' = tally /\ deliveries' = deliveries
    BY <2>2, FewerDeliveries
  <2>3. CASE \E j \in JobIds : Oldest(j) /\ Take(j) /\ deliveries' = deliveries \union
               {[worker |-> w, job |-> j, claim |-> tally[j].claims + 1,
                 at |-> "claimed", age |-> 0, read |-> 0]}
    <3>1. PICK j \in JobIds : Oldest(j) /\ Take(j) /\ deliveries' = deliveries \union
               {[worker |-> w, job |-> j, claim |-> tally[j].claims + 1,
                 at |-> "claimed", age |-> 0, read |-> 0]}
      BY <2>3
    <3> DEFINE e == [worker |-> w, job |-> j, claim |-> tally[j].claims + 1,
                     at |-> "claimed", age |-> 0, read |-> 0]
    <3>2. e.job = j /\ e.at = "claimed" /\ e.age = 0 /\ deliveries' = deliveries \union {e}
      BY <3>1
    <3>3. Eligible(j) /\ Take(j)
      BY <3>1 DEF Oldest
    <3> HIDE DEF e
    <3> QED BY <3>2, <3>3, ClaimKeepsCount
  <2> QED BY <2>1, <2>2, <2>3 DEF Dequeue
<1>3. CASE \E w \in Workers : DequeueFails(w)
  <2>1. PICK w \in Workers : DequeueFails(w)
    BY <1>3
  <2>2. deliveries' = deliveries
    BY <2>1 DEF DequeueFails
  <2>3. CASE jobs' = jobs /\ tally' = tally
    BY <2>2, <2>3, FewerDeliveries
  <2>4. CASE \E j \in JobIds : Oldest(j) /\ Take(j)
    <3>1. PICK j \in JobIds : Oldest(j) /\ Take(j)
      BY <2>4
    <3>2. PICK e : e = [job |-> j, at |-> "claimed", age |-> 0]
      OBVIOUS
    <3> QED BY <2>2, <3>1, <3>2, ClaimKeepsCount DEF Oldest
  <2> QED BY <2>1, <2>3, <2>4 DEF DequeueFails
<1>4. CASE \E w \in Workers : Dispatch(w)
  <2>1. PICK d \in deliveries : d.at = "claimed" /\ Becomes(d, [d EXCEPT !.at = "handler"])
    BY <1>4 DEF Dispatch, Becomes
  <2>2. jobs' = jobs /\ tally' = tally
    BY <1>4 DEF Dispatch
  <2>3. d \in Delivery
    BY DeliveryType DEF BaseInv
  <2>4. /\ [d EXCEPT !.at = "handler"].at = "handler" /\ [d EXCEPT !.at = "handler"].job = d.job
        /\ [d EXCEPT !.at = "handler"].age = d.age
    BY <2>3 DEF Delivery
  <2>5. Held(d)
    BY <2>1, HeldBeforeAck
  <2> QED BY <2>1, <2>2, <2>4, <2>5, MoveKeepsCount
<1>5. ASSUME NEW d \in deliveries, Handle(d) PROVE CountInv'
  <2>1. PICK ok \in BOOLEAN : /\ Goto(d, AfterHandler(ok)) /\ jobs' = jobs /\ d.at = "handler"
                              /\ tally' = IF ok THEN [tally EXCEPT ![d.job].done = @ + 1] ELSE tally
    BY <1>5 DEF Handle
  <2> DEFINE to == AfterHandler(ok)
             e == [d EXCEPT !.at = to]
  <2>2. d \in Delivery /\ d.job \in JobIds /\ tally[d.job] \in Tally
    BY DeliveryType, RowType DEF BaseInv
  <2>3. e.at = to /\ e.job = d.job /\ e.age = d.age /\ Becomes(d, e)
    BY <2>1, <2>2 DEF Goto, Delivery
  <2>4. to # "nackWrite" /\ (to = "ack" => ok) /\ Held(d)
    BY <2>1, HeldBeforeAck DEF AfterHandler
  <2> HIDE DEF to, e
  <2>5. CASE ~ok
    BY <2>1, <2>3, <2>4, <2>5, MoveKeepsCount
  <2>6. CASE ok
    <3> DEFINE t == [tally[d.job] EXCEPT !.done = @ + 1]
    <3>1. tally' = [tally EXCEPT ![d.job] = t]
      BY <2>1, <2>6
    <3>2. t \in Tally /\ t.failures = tally[d.job].failures /\ t.done >= 1
          /\ t.unheard = tally[d.job].unheard
      BY <2>2 DEF Tally
    <3> HIDE DEF t
    <3>3. tally'[d.job] = t /\ \A i \in JobIds \ {d.job} : tally'[i] = tally[i]
      BY <2>2, <3>1, <3>2, CountersWritten DEF BaseInv
    <3> QED BY <2>1, <2>2, <2>3, <2>4, <3>2, <3>3, MoveKeepsCount
  <2> QED BY <2>5, <2>6
<1>6. ASSUME NEW d \in deliveries, AckFails(d) PROVE CountInv'
  <2>1. d \in Delivery
    BY DeliveryType DEF BaseInv
  <2>2. /\ [d EXCEPT !.at = "nack"].at = "nack" /\ [d EXCEPT !.at = "nack"].job = d.job
        /\ [d EXCEPT !.at = "nack"].age = d.age
    BY <2>1 DEF Delivery
  <2>3. d.at = "ack" /\ Becomes(d, [d EXCEPT !.at = "nack"])
    BY <1>6 DEF AckFails, Goto
  <2>4. CASE jobs' = jobs /\ tally' = tally
    BY <2>2, <2>3, <2>4, MoveKeepsCount
  <2>5. CASE Complete(d.job) /\ tally' = [tally EXCEPT ![d.job].unheard = TRUE]
    BY <2>3, <2>5, AckKeepsCount
  <2> QED BY <1>6, <2>4, <2>5 DEF AckFails
<1>7. ASSUME NEW d \in deliveries, NackRead(d) PROVE CountInv'
  <2> DEFINE e == [d EXCEPT !.at = "nackWrite", !.read = jobs[d.job].attempts]
  <2>1. d \in Delivery
    BY DeliveryType DEF BaseInv
  <2>2. e.at = "nackWrite" /\ e.job = d.job /\ e.age = d.age /\ e.read = jobs[d.job].attempts
    BY <2>1 DEF Delivery
  <2>3. d.at = "nack" /\ jobs' = jobs /\ tally' = tally /\ Becomes(d, e)
    BY <1>7 DEF NackRead
  <2> HIDE DEF e
  <2> QED BY <2>2, <2>3, MoveKeepsCount
<1>8. ASSUME NEW d \in deliveries, Stat(d) \/ Ack(d) PROVE CountInv'
  BY <1>8, FewerDeliveries, AckKeepsCount DEF Stat, Ack
<1>9. CASE \E w \in Workers : PollTimer(w) \/ Stop(w) \/ StopResolves(w) \/ Start(w) \/ Exit(w) \/ Crash(w)
  <2>1. jobs' = jobs /\ tally' = tally /\ deliveries' \subseteq deliveries
    BY <1>9 DEF PollTimer, Stop, StopResolves, Start, Exit, Crash, ProcessEnds
  <2> QED BY <2>1, FewerDeliveries
<1>10. CASE Tick
  BY <1>10, NeverBefore, TickKeepsCount
<1> QED BY <1>1, <1>2, <1>3, <1>4, <1>5, <1>6, <1>7, <1>8, <1>9, <1>10,
           NackWriteKeepsCount, CatchFailsKeepsCount DEF Next, PollStep, DeliveryStep, Active

LEMMA InitHasTimely == Init => TimelyInv
<1>1. Init => CountInv
  BY DEF Init, CountInv, SingleDelivery, DeadAfterMaxFailures, CompletionsEarned,
         UnheardCompleted, JobIds
<1>2. Init => overran \in BOOLEAN
  BY DEF Init
<1> QED BY <1>1, <1>2, InitHasBase DEF TimelyInv

LEMMA NextKeepsTimely == TimelyInv /\ [Next]_vars => TimelyInv'
<1> SUFFICES ASSUME TimelyInv, [Next]_vars PROVE TimelyInv'
  OBVIOUS
<1>1. BaseInv'
  BY NextKeepsBase DEF TimelyInv
<1>2. ASSUME ~overran' PROVE CountInv'
  <2>0. BaseInv /\ CountInv /\ overran \in BOOLEAN
    BY <1>2, NeverBefore DEF TimelyInv
  <2>1. CASE Next
    BY <1>2, <2>0, <2>1, NextKeepsCount
  <2>2. CASE UNCHANGED vars
    BY <2>0, <2>2, FewerDeliveries DEF vars
  <2> QED BY <2>1, <2>2
<1>3. overran' \in BOOLEAN
  BY OnlyTickOverruns DEF TimelyInv
<1> QED BY <1>1, <1>2, <1>3 DEF TimelyInv

THEOREM TimelyInvariant == Spec => []TimelyInv
BY InitHasTimely, NextKeepsTimely, PTL DEF Spec

\* Until a delivery outlasts the stale window, deliveries have their jobs for
\* themselves, although crashes, lost answers and stops hand jobs out again.
THEOREM OneDeliveryAtATime == Spec => [](~overran => SingleDelivery)
<1>1. TimelyInv => (~overran => SingleDelivery)
  BY DEF TimelyInv, CountInv
<1> QED BY <1>1, TimelyInvariant, PTL

\* Until then no failure is lost or counted twice, and a job is dead after exactly
\* MaxAttempts of them (nack's read and write).
THEOREM FailuresCounted == Spec => [](~overran => DeadAfterMaxFailures)
<1>1. TimelyInv => (~overran => DeadAfterMaxFailures)
  BY DEF TimelyInv, CountInv
<1> QED BY <1>1, TimelyInvariant, PTL

-----------------------------------------------------------------------------
\* How often a handler may have succeeded.

\* Losses that a fault already counted is still to cause: a process told to stop
\* will take its acks with it, and a delivery whose ack was lost will nack its job.
Leaving == {w \in Workers : proc[w] \in {"draining", "stopped", "gaveUp"}}
Nacking(d) == d.at \in {"nack", "nackWrite"}
Retracting == {j \in JobIds : tally[j].unheard /\ \E d \in deliveries : d.job = j /\ Nacking(d)}
Owed == {<<"exit", w>> : w \in Leaving} \union {<<"nack", j>> : j \in Retracting}

\* Faults whose loss has struck already.
Faults == crashes + dbErrors - Cardinality(Owed)

\* The last success is on its way to the row, or in it.
Credited(j) == jobs[j].status = "completed" \/ \E d \in deliveries : d.at = "ack" /\ d.job = j

\* Every other success was lost to a fault.
SuccessesExplained ==
  \A j \in JobIds : /\ tally[j].done <= Faults + 1
                    /\ ~Credited(j) => tally[j].done <= Faults

DoneInv == ~overran => Faults >= 0 /\ SuccessesExplained

LEMMA TaggedFinite ==
  ASSUME NEW S, IsFiniteSet(S), NEW tag
  PROVE  IsFiniteSet({<<tag, x>> : x \in S})
<1> DEFINE T == {<<tag, x>> : x \in S}
           f == [x \in S |-> <<tag, x>>]
<1>1. f \in Surjection(S, T)
  BY DEF Surjection
<1> QED BY <1>1, FS_Surjection

LEMMA OwedFinite ==
  ASSUME BaseInv
  PROVE  /\ IsFiniteSet(Owed) /\ Cardinality(Owed) \in Nat
         /\ \A S \in SUBSET Owed : Cardinality(S) \in Nat /\ Cardinality(S) <= Cardinality(Owed)
<1>1. IsFiniteSet(Leaving)
  <2>1. Leaving \in SUBSET Workers /\ IsFiniteSet(Workers)
    BY JobQueueAssumption DEF Leaving
  <2> QED BY <2>1, FS_Subset
<1>2. IsFiniteSet(Retracting)
  <2>1. Retracting \in SUBSET (1..Len(jobs)) /\ Len(jobs) \in Nat
    BY DEF BaseInv, RowsTyped, JobIds, Retracting
  <2>2. IsFiniteSet(1..Len(jobs))
    BY <2>1, FS_Interval
  <2> QED BY <2>1, <2>2, FS_Subset
<1>3. IsFiniteSet(Owed)
  BY <1>1, <1>2, TaggedFinite, FS_Union DEF Owed
<1> QED BY <1>3, FS_Subset, FS_CardinalityType

LEMMA FaultsType == ASSUME BaseInv PROVE Faults \in Int
<1>1. crashes \in Int /\ dbErrors \in Int
  BY Bounds DEF BaseInv, WorkersTyped
<1> QED BY <1>1, OwedFinite DEF Faults

LEMMA CountsType == ASSUME BaseInv PROVE crashes \in Nat /\ dbErrors \in Nat
BY Bounds DEF BaseInv, WorkersTyped

LEMMA FaultsSplit ==
  ASSUME NEW k1, NEW e1, crashes' = k1, dbErrors' = e1
  PROVE  /\ Faults = crashes + dbErrors - Cardinality(Owed)
         /\ Faults' = k1 + e1 - Cardinality(Owed')
BY DEF Faults

\* No more is owed and n more faults were counted.
LEMMA FaultsGrow ==
  ASSUME BaseInv, Owed' \in SUBSET Owed, NEW n \in Nat, NEW k1 \in Nat, NEW e1 \in Nat,
         crashes' = k1, dbErrors' = e1, k1 + e1 >= crashes + dbErrors + n
  PROVE  Faults' >= Faults + n /\ Faults' \in Int
<1> DEFINE c == Cardinality(Owed)
           c1 == Cardinality(Owed')
<1>1. c \in Nat /\ c1 \in Nat /\ c1 <= c
  BY OwedFinite
<1>2. Faults = crashes + dbErrors - c /\ Faults' = k1 + e1 - c1
  BY FaultsSplit
<1> HIDE DEF c, c1
<1> QED BY <1>1, <1>2, CountsType

\* A fault was counted whose loss is still to come.
LEMMA FaultOwed ==
  ASSUME BaseInv, NEW x, Owed' \in SUBSET (Owed \union {x}), NEW k1 \in Nat, NEW e1 \in Nat,
         crashes' = k1, dbErrors' = e1, k1 + e1 = crashes + dbErrors + 1
  PROVE  Faults' >= Faults /\ Faults' \in Int
<1> DEFINE c == Cardinality(Owed)
           c1 == Cardinality(Owed')
<1>1. c \in Nat /\ c1 \in Nat /\ c1 <= c + 1
  <2>0. IsFiniteSet(Owed) /\ c \in Nat
    BY OwedFinite
  <2>1. IsFiniteSet(Owed \union {x}) /\ Cardinality(Owed \union {x}) <= c + 1
        /\ Cardinality(Owed \union {x}) \in Nat
    <3>1. /\ IsFiniteSet(Owed \union {x})
          /\ Cardinality(Owed \union {x}) = IF x \in Owed THEN c ELSE c + 1
      BY <2>0, FS_AddElement, Zenon
    <3> HIDE DEF c
    <3> QED BY <2>0, <3>1
  <2>2. c1 \in Nat /\ c1 <= Cardinality(Owed \union {x})
    BY <2>1, FS_Subset, FS_CardinalityType
  <2> QED BY <2>1, <2>2, OwedFinite
<1>2. Faults = crashes + dbErrors - c /\ Faults' = k1 + e1 - c1
  BY FaultsSplit
<1> HIDE DEF c, c1
<1> QED BY <1>1, <1>2, CountsType

\* The loss came.
LEMMA FaultPaid ==
  ASSUME BaseInv, NEW x \in Owed, Owed' \in SUBSET (Owed \ {x}),
         crashes' = crashes, dbErrors' = dbErrors
  PROVE  Faults' >= Faults + 1 /\ Faults' \in Int
<1> DEFINE c == Cardinality(Owed)
           c1 == Cardinality(Owed')
<1>1. c \in Nat /\ c1 \in Nat /\ c1 <= c - 1
  <2>1. IsFiniteSet(Owed \ {x}) /\ Cardinality(Owed \ {x}) = c - 1
    BY OwedFinite, FS_RemoveElement
  <2>2. c1 \in Nat /\ c1 <= Cardinality(Owed \ {x})
    BY <2>1, FS_Subset, FS_CardinalityType
  <2> QED BY <2>1, <2>2, OwedFinite
<1>2. Faults = crashes + dbErrors - c /\ Faults' = crashes + dbErrors - c1
  BY FaultsSplit
<1> HIDE DEF c, c1
<1> QED BY <1>1, <1>2, CountsType

\* Nothing new is owed: no process is told to stop, no ack's answer lost.
LEMMA NothingOwed ==
  ASSUME BaseInv, BaseInv', Leaving' \in SUBSET Leaving,
         \A j \in JobIds' : tally'[j].unheard => j \in JobIds /\ tally[j].unheard,
         \A x \in deliveries' : Nacking(x) =>
           ~tally'[x.job].unheard \/ \E d \in deliveries : d.job = x.job /\ Nacking(d)
  PROVE  Owed' \in SUBSET Owed
<1>1. Retracting' \in SUBSET Retracting
  BY DEF Retracting, BaseInv, RowsTyped, Nacking
<1> QED BY <1>1 DEF Owed

LEMMA NoFaultForgotten ==
  ASSUME BaseInv, Owed' \in SUBSET Owed, crashes' = crashes, dbErrors' \in {dbErrors, dbErrors + 1}
  PROVE  Faults' >= Faults /\ Faults' \in Int
<1>0. crashes \in Nat /\ dbErrors \in Nat /\ Faults \in Int
  BY CountsType, FaultsType
<1>1. PICK e1 \in {dbErrors, dbErrors + 1} : dbErrors' = e1
  OBVIOUS
<1>2. e1 \in Nat /\ crashes + e1 >= crashes + dbErrors + 0
  BY <1>0, <1>1
<1>3. Faults' >= Faults + 0 /\ Faults' \in Int
  BY <1>0, <1>1, <1>2, FaultsGrow
<1> QED BY <1>0, <1>3

\* A process that ends takes what it owed with it.
LEMMA EndedOwes ==
  ASSUME BaseInv, BaseInv', NEW w \in Workers, ProcessEnds(w),
         \A j \in JobIds' : tally'[j].unheard => j \in JobIds /\ tally[j].unheard
  PROVE  Owed' \in SUBSET (Owed \ {<<"exit", w>>})
<1>1. Leaving' = Leaving \ {w} /\ deliveries' \subseteq deliveries
  BY DEF ProcessEnds, Leaving, BaseInv, WorkersTyped
<1>2. Owed' \in SUBSET Owed
  BY <1>1, NothingOwed
<1>3. <<"exit", w>> \notin Owed'
  BY <1>1 DEF Owed
<1> QED BY <1>2, <1>3

LEMMA ExitLoses ==
  ASSUME BaseInv, BaseInv', NEW w \in Workers, Exit(w) \/ Crash(w)
  PROVE  Faults' >= Faults + 1 /\ Faults' \in Int
<1>0. crashes \in Nat /\ dbErrors \in Nat
  BY CountsType
<1>1. JobIds' = JobIds /\ tally' = tally /\ ProcessEnds(w)
  BY DEF Exit, Crash, JobIds
<1>2. Owed' \in SUBSET (Owed \ {<<"exit", w>>})
  BY <1>1, EndedOwes
<1>3. CASE Exit(w)
  <2>1. <<"exit", w>> \in Owed /\ crashes' = crashes /\ dbErrors' = dbErrors
    BY <1>3 DEF Exit, Leaving, Owed
  <2> QED BY <1>2, <2>1, FaultPaid
<1>4. CASE Crash(w)
  <2>1. PICK k1 : k1 = crashes + 1
    OBVIOUS
  <2>2. k1 \in Nat /\ crashes' = k1 /\ dbErrors' = dbErrors /\ k1 + dbErrors >= crashes + dbErrors + 1
    BY <1>0, <1>4, <2>1 DEF Crash
  <2> QED BY <1>0, <1>2, <2>2, FaultsGrow
<1> QED BY <1>3, <1>4

LEMMA CatchFailsLoses ==
  ASSUME BaseInv, BaseInv', CountInv, NEW d \in deliveries, CatchFails(d)
  PROVE  /\ Faults' >= Faults + 1 /\ Faults' \in Int /\ JobIds' = JobIds
         /\ \A j \in JobIds : tally'[j].done = tally[j].done
<1>1. crashes \in Nat /\ dbErrors \in Nat /\ d.worker \in Workers /\ d.job \in JobIds
  BY CountsType, DeliveryType DEF BaseInv, Delivery
<1>2. \/ jobs' = jobs /\ tally' = tally
      \/ Written(d)
  BY WritesWhatItRead DEF CatchFails
<1>3. /\ JobIds' = JobIds
      /\ \A j \in JobIds : tally'[j].done = tally[j].done /\ (tally'[j].unheard => tally[j].unheard)
  BY <1>1, <1>2 DEF Written, JobIds
<1>4. Owed' \in SUBSET (Owed \ {<<"exit", d.worker>>})
  BY <1>1, <1>3, EndedOwes DEF CatchFails
<1>5. PICK e1 : e1 = dbErrors + 1
  OBVIOUS
<1>6. e1 \in Nat /\ dbErrors' = e1 /\ crashes' = crashes /\ crashes + e1 >= crashes + dbErrors + 1
  BY <1>1, <1>5 DEF CatchFails
<1>7. Faults' >= Faults + 1 /\ Faults' \in Int
  BY <1>1, <1>4, <1>6, FaultsGrow
<1> QED BY <1>3, <1>7

\* What a step does to a job's successes, while Faults' >= Faults.
Kept(j) == tally'[j].done = tally[j].done /\ (Credited(j) => Credited(j)')
Lost(j) == tally'[j].done = tally[j].done /\ Faults' >= Faults + 1
Earned(j) == tally'[j].done = tally[j].done + 1 /\ ~Credited(j) /\ Credited(j)'

LEMMA StepExplained ==
  ASSUME BaseInv, SuccessesExplained, JobIds' = JobIds, Faults' >= Faults, Faults' \in Int,
         \A j \in JobIds : Kept(j) \/ Lost(j) \/ Earned(j)
  PROVE  SuccessesExplained'
<1> SUFFICES ASSUME NEW j \in JobIds
             PROVE  /\ tally'[j].done <= Faults' + 1
                    /\ ~Credited(j)' => tally'[j].done <= Faults'
  BY DEF SuccessesExplained
<1>1. tally[j].done <= Faults + 1 /\ (~Credited(j) => tally[j].done <= Faults)
  BY DEF SuccessesExplained
<1> DEFINE n == tally[j].done
           n1 == tally'[j].done
           f == Faults
           f1 == Faults'
<1>2. n \in Nat /\ f \in Int /\ f1 \in Int
  BY RowType, FaultsType DEF BaseInv, Tally
<1>3. n <= f + 1 /\ (~Credited(j) => n <= f) /\ f1 >= f
  BY <1>1
<1>4. CASE Kept(j)
  <2>1. n1 = n /\ (Credited(j) => Credited(j)')
    BY <1>4 DEF Kept
  <2> HIDE DEF n, n1, f, f1
  <2>2. n1 <= f1 + 1 /\ (~Credited(j) => n1 <= f1)
    BY <1>2, <1>3, <2>1
  <2> QED BY <2>1, <2>2 DEF n1, f1
<1>5. CASE Lost(j)
  <2>1. n1 = n /\ f1 >= f + 1
    BY <1>5 DEF Lost
  <2> HIDE DEF n, n1, f, f1
  <2>2. n1 <= f1 + 1 /\ n1 <= f1
    BY <1>2, <1>3, <2>1
  <2> QED BY <2>2 DEF n1, f1
<1>6. CASE Earned(j)
  <2>1. n1 = n + 1 /\ n <= f /\ Credited(j)'
    BY <1>3, <1>6 DEF Earned
  <2> HIDE DEF n, n1, f, f1
  <2>2. n1 <= f1 + 1
    BY <1>2, <1>3, <2>1
  <2> QED BY <2>1, <2>2 DEF n1, f1
<1> QED BY <1>4, <1>5, <1>6

\* A step that writes nothing and takes no ack away.
LEMMA NothingKept ==
  ASSUME jobs' = jobs, tally' = tally, \A d \in deliveries : d.at = "ack" => d \in deliveries'
  PROVE  JobIds' = JobIds /\ \A j \in JobIds : Kept(j)
BY DEF Kept, Credited, JobIds

LEMMA ClaimExplained ==
  ASSUME BaseInv, CountInv, NEW j \in JobIds, Eligible(j), Take(j), deliveries \subseteq deliveries'
  PROVE  JobIds' = JobIds /\ \A i \in JobIds : Kept(i)
<1>1. /\ JobIds' = JobIds
      /\ \A i \in JobIds \ {j} : jobs'[i] = jobs[i]
      /\ tally'[j] = [tally[j] EXCEPT !.claims = @ + 1]
      /\ \A i \in JobIds \ {j} : tally'[i] = tally[i]
  BY TakeEffect DEF BaseInv
<1>2. jobs[j] \in Job /\ tally[j] \in Tally
  BY RowType DEF BaseInv
<1>3. tally'[j].done = tally[j].done
  BY <1>1, <1>2 DEF Tally
<1>4. ~Credited(j)
  <2>1. jobs[j].status # "completed"
    BY DEF Eligible
  <2>2. ASSUME NEW d \in deliveries, d.at = "ack", d.job = j PROVE FALSE
    <3>1. jobs[j].status = "processing" /\ jobs[j].age = d.age /\ d.age < StaleAfter
      BY <2>2, HeldBeforeAck DEF CountInv, Live, Held
    <3>2. d.age \in Nat /\ jobs[j].age \in Nat
      BY <1>2, DeliveryType, Bounds DEF BaseInv, Delivery, Job
    <3> QED BY <3>1, <3>2, Bounds DEF Eligible
  <2> QED BY <2>1, <2>2 DEF Credited
<1>5. ASSUME NEW i \in JobIds \ {j} PROVE Kept(i)
  BY <1>1, <1>5 DEF Kept, Credited
<1> QED BY <1>1, <1>3, <1>4, <1>5 DEF Kept

LEMMA HandleExplained ==
  ASSUME BaseInv, CountInv, NEW d \in deliveries, Handle(d)
  PROVE  JobIds' = JobIds /\ \A j \in JobIds : Kept(j) \/ Earned(j)
<1>1. PICK ok \in BOOLEAN : /\ Goto(d, AfterHandler(ok)) /\ jobs' = jobs /\ d.at = "handler"
                            /\ tally' = IF ok THEN [tally EXCEPT ![d.job].done = @ + 1] ELSE tally
  BY DEF Handle
<1>2. d \in Delivery /\ d.job \in JobIds /\ tally[d.job] \in Tally
  BY DeliveryType, RowType DEF BaseInv
<1>3. \A x \in deliveries : x.at = "ack" => x \in deliveries'
  BY <1>1 DEF Goto, Becomes
<1>4. CASE ~ok
  BY <1>1, <1>3, <1>4, NothingKept
<1>5. CASE ok
  <2> DEFINE t == [tally[d.job] EXCEPT !.done = @ + 1]
             e == [d EXCEPT !.at = "ack"]
  <2>1. tally' = [tally EXCEPT ![d.job] = t] /\ e \in deliveries'
    BY <1>1, <1>5 DEF Goto, Becomes, AfterHandler
  <2>2. t \in Tally /\ t.done = tally[d.job].done + 1
    BY <1>2 DEF Tally
  <2>3. e.at = "ack" /\ e.job = d.job
    BY <1>2 DEF Delivery
  <2> HIDE DEF t, e
  <2>4. tally'[d.job] = t /\ \A i \in JobIds \ {d.job} : tally'[i] = tally[i]
    BY <1>2, <2>1, <2>2, CountersWritten DEF BaseInv
  <2>5. ~Credited(d.job)
    <3>1. jobs[d.job].status = "processing"
      BY <1>1, HeldBeforeAck DEF Held
    <3>2. \A x \in deliveries : x.job = d.job /\ x.at # "stat" => x = d
      BY <1>1 DEF CountInv, SingleDelivery
    <3> QED BY <1>1, <3>1, <3>2 DEF Credited
  <2>6. Credited(d.job)'
    BY <2>1, <2>3 DEF Credited
  <2>7. Earned(d.job)
    BY <2>2, <2>4, <2>5, <2>6 DEF Earned
  <2>8. ASSUME NEW i \in JobIds \ {d.job} PROVE Kept(i)
    BY <1>1, <1>3, <2>4, <2>8 DEF Kept, Credited
  <2> QED BY <1>1, <2>7, <2>8 DEF JobIds
<1> QED BY <1>4, <1>5

LEMMA AckExplained ==
  ASSUME BaseInv, NEW d \in deliveries, Complete(d.job),
         \A j \in JobIds : tally'[j].done = tally[j].done,
         \A x \in deliveries \ {d} : x \in deliveries'
  PROVE  JobIds' = JobIds /\ \A j \in JobIds : Kept(j)
<1>1. /\ JobIds' = JobIds /\ jobs'[d.job].status = "completed"
      /\ \A i \in JobIds \ {d.job} : jobs'[i] = jobs[i]
  BY DeliveryType, CompleteEffect DEF BaseInv
<1>2. ASSUME NEW i \in JobIds PROVE Kept(i)
  BY <1>1 DEF Kept, Credited
<1> QED BY <1>1, <1>2

LEMMA NackExplained ==
  ASSUME BaseInv, CountInv, NEW d \in deliveries, d.at = "nackWrite", Held(d), Written(d),
         Becomes(d, [d EXCEPT !.at = "stat"])
  PROVE  \A j \in JobIds : Kept(j)
<1>1. /\ JobIds' = JobIds /\ \A i \in JobIds \ {d.job} : jobs'[i] = jobs[i] /\ tally'[i] = tally[i]
      /\ jobs[d.job].status = "processing" /\ tally'[d.job].done = tally[d.job].done
  BY DEF Written, Held
<1>2. ~Credited(d.job)
  <2>1. \A x \in deliveries : x.job = d.job /\ x.at # "stat" => x = d
    BY DEF CountInv, SingleDelivery
  <2> QED BY <1>1, <2>1 DEF Credited
<1>3. \A x \in deliveries : x.at = "ack" => x \in deliveries'
  BY DEF Becomes
<1>4. ASSUME NEW i \in JobIds PROVE Kept(i)
  <2>1. CASE i = d.job
    BY <1>1, <1>2, <2>1 DEF Kept
  <2>2. CASE i # d.job
    BY <1>1, <1>3, <2>2 DEF Kept, Credited
  <2> QED BY <2>1, <2>2
<1> QED BY <1>4

LEMMA TickExplained ==
  ASSUME BaseInv, Tick
  PROVE  JobIds' = JobIds /\ \A j \in JobIds : Kept(j)
<1>1. /\ JobIds' = JobIds /\ tally' = tally
      /\ \A j \in JobIds : jobs'[j].status = jobs[j].status
      /\ deliveries' = {[d EXCEPT !.age = Older(d.age)] : d \in deliveries}
  BY TickEffect DEF BaseInv, Tick
<1>2. ASSUME NEW d \in deliveries
      PROVE  \E e \in deliveries' : e.at = d.at /\ e.job = d.job
  <2>1. d \in Delivery
    BY DeliveryType DEF BaseInv
  <2>2. [d EXCEPT !.age = Older(d.age)].at = d.at /\ [d EXCEPT !.age = Older(d.age)].job = d.job
    BY <2>1 DEF Delivery
  <2> QED BY <1>1, <2>2
<1>3. ASSUME NEW j \in JobIds PROVE Kept(j)
  BY <1>1, <1>2 DEF Kept, Credited
<1> QED BY <1>1, <1>3

\* A step that explains the successes, and forgets no fault.
Explained == Faults' >= Faults /\ Faults' \in Int /\ SuccessesExplained'

\* A new job has had no success yet.
LEMMA InsertExplained ==
  ASSUME BaseInv, SuccessesExplained, Faults >= 0, Faults' >= Faults, Faults' \in Int,
         NEW k \in Keys, Insert(k), deliveries' = deliveries
  PROVE  SuccessesExplained'
<1>0. PICK new : new = Len(jobs) + 1
  OBVIOUS
<1>1. /\ JobIds' = JobIds \union {new} /\ tally'[new] = NewTally
      /\ \A i \in JobIds : jobs'[i] = jobs[i] /\ tally'[i] = tally[i]
  BY <1>0, InsertEffect
<1> DEFINE f == Faults
           f1 == Faults'
<1>2. f \in Int /\ f1 \in Int /\ f >= 0 /\ f1 >= f
  BY FaultsType
<1> SUFFICES ASSUME NEW j \in JobIds'
             PROVE  /\ tally'[j].done <= Faults' + 1
                    /\ ~Credited(j)' => tally'[j].done <= Faults'
  BY DEF SuccessesExplained
<1> DEFINE n1 == tally'[j].done
<1>3. CASE j = new
  <2>1. n1 = 0
    BY <1>1, <1>3 DEF NewTally
  <2> HIDE DEF f, f1, n1
  <2>2. n1 <= f1 + 1 /\ n1 <= f1
    BY <1>2, <2>1
  <2> QED BY <2>2 DEF f1, n1
<1>4. CASE j \in JobIds
  <2>1. n1 = tally[j].done /\ Credited(j)' = Credited(j) /\ tally[j].done \in Nat
    BY <1>1, <1>4, RowType DEF Credited, BaseInv, Tally
  <2>2. tally[j].done <= f + 1 /\ (~Credited(j) => tally[j].done <= f)
    BY <1>4 DEF SuccessesExplained
  <2> HIDE DEF f, f1, n1
  <2>3. n1 <= f1 + 1 /\ (~Credited(j) => n1 <= f1)
    BY <1>2, <2>1, <2>2
  <2> QED BY <2>1, <2>3 DEF f1, n1
<1> QED BY <1>1, <1>3, <1>4

\* The calls of enqueue.
LEMMA EnqueueExplained ==
  ASSUME BaseInv, BaseInv', SuccessesExplained, Faults >= 0,
         NEW r \in Requests, EnqueueStep(r) \/ EnqueueFails(r)
  PROVE  Explained
<1>1. /\ proc' = proc /\ deliveries' = deliveries /\ crashes' = crashes
      /\ dbErrors' \in {dbErrors, dbErrors + 1}
  BY DEF EnqueueStep, EnqueueFind, EnqueueInsert, EnqueueRefetch, EnqueueFails
<1>2. CASE jobs' = jobs /\ tally' = tally
  <2>1. Owed' \in SUBSET Owed
    BY <1>1, <1>2, NothingOwed DEF Leaving, JobIds
  <2> QED BY <1>1, <1>2, <2>1, NoFaultForgotten, NothingKept, StepExplained DEF Explained
<1>3. CASE req[r].at = "insert" /\ Insert(req[r].key)
  <2>0. PICK new : new = Len(jobs) + 1
    OBVIOUS
  <2>1. req[r].key \in Keys
    BY <1>3 DEF BaseInv, CallsKnown
  <2>2. /\ JobIds' = JobIds \union {new} /\ ~tally'[new].unheard
        /\ \A i \in JobIds : tally'[i] = tally[i]
    BY <1>3, <2>0, <2>1, InsertEffect DEF NewTally
  <2>3. Owed' \in SUBSET Owed
    BY <1>1, <2>2, NothingOwed DEF Leaving
  <2> QED BY <1>1, <1>3, <2>1, <2>3, NoFaultForgotten, InsertExplained DEF Explained
<1> QED BY <1>2, <1>3 DEF EnqueueStep, EnqueueFind, EnqueueInsert, EnqueueRefetch, EnqueueFails

\* The polls, and the steps of a process that lose nothing.
LEMMA PollExplained ==
  ASSUME BaseInv, BaseInv', CountInv, SuccessesExplained, NEW w \in Workers,
         PollStep(w) \/ DequeueFails(w) \/ StopResolves(w) \/ Start(w)
  PROVE  Explained
<1>1. /\ Leaving' \in SUBSET Leaving /\ crashes' = crashes /\ dbErrors' \in {dbErrors, dbErrors + 1}
      /\ \A x \in deliveries' : Nacking(x) => x \in deliveries
  BY DeliveryType DEF PollStep, PollTimer, Dequeue, Dispatch, DequeueFails, StopResolves, Start,
         Leaving, Nacking, BaseInv, WorkersTyped, Delivery
<1>2. CASE \E j \in JobIds : Oldest(j) /\ Take(j) /\ deliveries \subseteq deliveries'
  <2>1. PICK j \in JobIds : Eligible(j) /\ Take(j) /\ deliveries \subseteq deliveries'
    BY <1>2 DEF Oldest
  <2>2. JobIds' = JobIds /\ \A i \in JobIds : tally'[i].unheard = tally[i].unheard
    BY <2>1, TakeEffect, RowType DEF BaseInv, Tally
  <2>3. Owed' \in SUBSET Owed
    BY <1>1, <2>2, NothingOwed
  <2>4. JobIds' = JobIds /\ \A i \in JobIds : Kept(i)
    BY <2>1, ClaimExplained
  <2> QED BY <1>1, <2>3, <2>4, NoFaultForgotten, StepExplained DEF Explained
<1>3. CASE jobs' = jobs /\ tally' = tally /\ \A d \in deliveries : d.at = "ack" => d \in deliveries'
  <2>1. Owed' \in SUBSET Owed
    BY <1>1, <1>3, NothingOwed DEF JobIds
  <2> QED BY <1>1, <1>3, <2>1, NoFaultForgotten, NothingKept, StepExplained DEF Explained
<1>4. CASE Dequeue(w) \/ DequeueFails(w)
  BY <1>2, <1>3, <1>4 DEF Dequeue, DequeueFails
<1>5. CASE PollTimer(w) \/ Dispatch(w) \/ StopResolves(w) \/ Start(w)
  BY <1>3, <1>5 DEF PollTimer, Dispatch, StopResolves, Start
<1> QED BY <1>4, <1>5 DEF PollStep

\* A stop is a fault whose loss is the exit's.
LEMMA StopExplained ==
  ASSUME BaseInv, BaseInv', SuccessesExplained, NEW w \in Workers, Stop(w)
  PROVE  Explained
<1>1. /\ jobs' = jobs /\ tally' = tally /\ deliveries' = deliveries /\ JobIds' = JobIds
      /\ dbErrors' = dbErrors /\ Leaving' = Leaving \union {w}
  BY DEF Stop, JobIds, Leaving, BaseInv, WorkersTyped
<1>2. Retracting' = Retracting
  BY <1>1 DEF Retracting
<1>3. Owed' \in SUBSET (Owed \union {<<"exit", w>>})
  BY <1>1, <1>2 DEF Owed
<1>4. PICK k1 : k1 = crashes + 1
  OBVIOUS
<1>5. k1 \in Nat /\ crashes' = k1 /\ dbErrors \in Nat /\ k1 + dbErrors = crashes + dbErrors + 1
  BY <1>4, CountsType DEF Stop
<1>6. Faults' >= Faults /\ Faults' \in Int
  BY <1>1, <1>3, <1>5, FaultOwed
<1> QED BY <1>1, <1>6, NothingKept, StepExplained DEF Explained

LEMMA HandleStepExplained ==
  ASSUME BaseInv, BaseInv', CountInv, SuccessesExplained, NEW d \in deliveries, Handle(d)
  PROVE  Explained
<1>1. PICK ok \in BOOLEAN : /\ Goto(d, AfterHandler(ok)) /\ d.at = "handler"
                            /\ tally' = IF ok THEN [tally EXCEPT ![d.job].done = @ + 1] ELSE tally
  BY DEF Handle
<1>2. /\ jobs' = jobs /\ JobIds' = JobIds /\ proc' = proc /\ crashes' = crashes
      /\ dbErrors' = dbErrors
  BY DEF Handle, JobIds
<1>3. \A j \in JobIds : tally'[j].unheard = tally[j].unheard
  <2>1. d.job \in JobIds /\ tally[d.job] \in Tally /\ DOMAIN tally = JobIds
    BY DeliveryType, RowType DEF BaseInv, RowsTyped
  <2> QED BY <1>1, <2>1 DEF Tally
<1>4. ~tally[d.job].unheard
  BY <1>1, HeldBeforeAck, DeliveryType DEF Held, CountInv, UnheardCompleted, BaseInv
<1>5. \A x \in deliveries' : x \in deliveries \/ x.job = d.job
  BY <1>1, DeliveryType DEF Goto, Becomes, BaseInv, Delivery
<1>6. Owed' \in SUBSET Owed
  BY <1>2, <1>3, <1>4, <1>5, NothingOwed, DeliveryType DEF Leaving, BaseInv
<1> QED BY <1>2, <1>6, HandleExplained, NoFaultForgotten, StepExplained DEF Explained

LEMMA AckStepExplained ==
  ASSUME BaseInv, BaseInv', SuccessesExplained, NEW d \in deliveries, Ack(d)
  PROVE  Explained
<1>1. /\ Complete(d.job) /\ deliveries' = deliveries \ {d} /\ tally' = tally /\ proc' = proc
      /\ crashes' = crashes /\ dbErrors' = dbErrors
  BY DEF Ack
<1>2. JobIds' = JobIds /\ \A j \in JobIds : Kept(j)
  BY <1>1, AckExplained
<1>3. Owed' \in SUBSET Owed
  BY <1>1, <1>2, NothingOwed DEF Leaving
<1> QED BY <1>1, <1>2, <1>3, NoFaultForgotten, StepExplained DEF Explained

\* A failing ack either took no effect and loses the success, or its nack will.
LEMMA AckFailsExplained ==
  ASSUME BaseInv, BaseInv', CountInv, SuccessesExplained, NEW d \in deliveries, AckFails(d)
  PROVE  Explained
<1> DEFINE e == [d EXCEPT !.at = "nack"]
<1>0. PICK e1 : e1 = dbErrors + 1
  OBVIOUS
<1>1. /\ crashes \in Nat /\ e1 \in Nat /\ crashes' = crashes /\ dbErrors' = e1 /\ proc' = proc
      /\ crashes + e1 = crashes + dbErrors + 1
  BY <1>0, CountsType DEF AckFails
<1>2. d.at = "ack" /\ d.job \in JobIds /\ deliveries' = (deliveries \ {d}) \union {e} /\ e.job = d.job
  BY DeliveryType DEF AckFails, Goto, Becomes, BaseInv, Delivery
<1> HIDE DEF e
<1>3. ~tally[d.job].unheard
  BY <1>2, HeldBeforeAck DEF Held, CountInv, UnheardCompleted
<1>4. CASE jobs' = jobs /\ tally' = tally
  <2>1. Owed' \in SUBSET Owed
    BY <1>1, <1>2, <1>3, <1>4, NothingOwed DEF Leaving, JobIds
  <2>2. Faults' >= Faults + 1 /\ Faults' \in Int
    BY <1>1, <2>1, FaultsGrow, CountsType
  <2>3. Faults' >= Faults
    BY <2>2, FaultsType
  <2>4. JobIds' = JobIds /\ \A j \in JobIds : Lost(j)
    BY <1>4, <2>2 DEF Lost, JobIds
  <2> QED BY <2>2, <2>3, <2>4, StepExplained DEF Explained
<1>5. CASE Complete(d.job) /\ tally' = [tally EXCEPT ![d.job].unheard = TRUE]
  <2>1. /\ \A j \in JobIds \ {d.job} : tally'[j] = tally[j]
        /\ \A j \in JobIds : tally'[j].done = tally[j].done
    BY <1>2, <1>5, UnheardEffect DEF BaseInv
  <2>2. JobIds' = JobIds /\ \A j \in JobIds : Kept(j)
    BY <1>2, <1>5, <2>1, AckExplained
  <2>3. Retracting' \in SUBSET (Retracting \union {d.job}) /\ Leaving' = Leaving
    BY <1>1, <1>2, <2>1, <2>2 DEF Retracting, Leaving
  <2>4. Owed' \in SUBSET (Owed \union {<<"nack", d.job>>})
    BY <2>3 DEF Owed
  <2>5. Faults' >= Faults /\ Faults' \in Int
    BY <1>1, <2>4, FaultOwed
  <2> QED BY <2>2, <2>5, StepExplained DEF Explained
<1> QED BY <1>4, <1>5 DEF AckFails

\* nack's write loses no success but that of the ack it takes back.
LEMMA NackWriteExplained ==
  ASSUME BaseInv, BaseInv', CountInv, SuccessesExplained, NEW d \in deliveries, NackWrite(d)
  PROVE  Explained
<1> DEFINE x == <<"nack", d.job>>
<1>1. /\ d.at = "nackWrite" /\ d.job \in JobIds /\ d.worker \in Workers
      /\ crashes' = crashes /\ dbErrors' = dbErrors
  BY DeliveryType DEF NackWrite, BaseInv, Delivery
<1>2. \A y \in deliveries \ {d} : Nacking(y) => y.job # d.job
  BY <1>1 DEF CountInv, SingleDelivery, Nacking
<1>3. /\ JobIds' = JobIds
      /\ \A j \in JobIds : tally'[j].done = tally[j].done /\ (tally'[j].unheard => tally[j].unheard)
      /\ Leaving' \in SUBSET Leaving
      /\ \A y \in deliveries' : Nacking(y) => y \in deliveries \ {d}
  <2>1. [d EXCEPT !.at = "stat"].at = "stat"
    BY DeliveryType DEF BaseInv, Delivery
  <2>2. CASE Written(d) /\ Becomes(d, [d EXCEPT !.at = "stat"]) /\ proc' = proc
    BY <1>1, <2>1, <2>2 DEF Written, Becomes, Nacking, Leaving
  <2>3. CASE jobs' = jobs /\ tally' = tally /\ ProcessEnds(d.worker)
    BY <1>1, <2>3 DEF ProcessEnds, JobIds, Leaving, BaseInv, WorkersTyped
  <2> QED BY <2>2, <2>3, NackWriteEffect
<1>4. Owed' \in SUBSET (Owed \ {x})
  <2>1. Owed' \in SUBSET Owed
    BY <1>3, NothingOwed
  <2>2. d.job \notin Retracting'
    BY <1>2, <1>3 DEF Retracting
  <2> QED BY <2>1, <2>2 DEF Owed
<1>5. CASE Held(d)
  <2>1. Written(d) /\ Becomes(d, [d EXCEPT !.at = "stat"])
    BY <1>5, NackWriteEffect DEF Held, Doubtful
  <2>2. \A j \in JobIds : Kept(j)
    BY <1>1, <1>5, <2>1, NackExplained
  <2> QED BY <1>1, <1>3, <1>4, <2>2, NoFaultForgotten, StepExplained DEF Explained
<1>6. CASE Doubtful(d)
  <2>1. x \in Owed
    BY <1>1, <1>6 DEF Owed, Retracting, Doubtful, Nacking
  <2> HIDE DEF x
  <2>2. Faults' >= Faults + 1 /\ Faults' \in Int
    BY <1>1, <1>4, <2>1, FaultPaid
  <2>3. Faults' >= Faults
    BY <2>2, FaultsType
  <2> QED BY <1>3, <2>2, <2>3, StepExplained DEF Explained, Lost
<1> QED BY <1>1, <1>5, <1>6 DEF CountInv, Live

\* The reads, and time.
LEMMA QuietExplained ==
  ASSUME BaseInv, BaseInv', SuccessesExplained,
         Tick \/ UNCHANGED vars \/ \E d \in deliveries : NackRead(d) \/ Stat(d)
  PROVE  Explained
<1>1. tally' = tally /\ proc' = proc /\ crashes' = crashes /\ dbErrors' = dbErrors
  BY DEF Tick, NackRead, Stat, vars
<1>2. /\ JobIds' = JobIds
      /\ \A y \in deliveries' : Nacking(y) => \E d \in deliveries : d.job = y.job /\ Nacking(d)
  <2>1. CASE Tick
    <3>1. \A d \in deliveries : [d EXCEPT !.age = Older(d.age)].job = d.job
                                /\ [d EXCEPT !.age = Older(d.age)].at = d.at
      BY DeliveryType DEF BaseInv, Delivery
    <3> QED BY <2>1, <3>1, TickEffect DEF Tick, BaseInv, Nacking
  <2>2. ASSUME NEW d \in deliveries, NackRead(d)
        PROVE  \A y \in deliveries' : Nacking(y) => \E z \in deliveries : z.job = y.job /\ Nacking(z)
    <3> DEFINE e == [d EXCEPT !.at = "nackWrite", !.read = jobs[d.job].attempts]
    <3>1. e.job = d.job /\ deliveries' = (deliveries \ {d}) \union {e} /\ Nacking(d)
      BY <2>2, DeliveryType DEF BaseInv, Delivery, NackRead, Becomes, Nacking
    <3> HIDE DEF e
    <3> QED BY <3>1
  <2>3. jobs' = jobs \/ Tick
    BY DEF NackRead, Stat, vars
  <2>4. (\E d \in deliveries : Stat(d)) \/ UNCHANGED vars => deliveries' \subseteq deliveries
    BY DEF Stat, vars
  <2> QED BY <2>1, <2>2, <2>3, <2>4 DEF JobIds
<1>3. Owed' \in SUBSET Owed
  BY <1>1, <1>2, NothingOwed DEF Leaving
<1>4. \A j \in JobIds : Kept(j)
  <2>1. CASE Tick
    BY <2>1, TickExplained
  <2>2. CASE jobs' = jobs /\ \A d \in deliveries : d.at = "ack" => d \in deliveries'
    BY <1>1, <2>2, NothingKept
  <2> QED BY <2>1, <2>2 DEF NackRead, Stat, Becomes, vars
<1> QED BY <1>1, <1>2, <1>3, <1>4, NoFaultForgotten, StepExplained DEF Explained

LEMMA NextExplained ==
  ASSUME BaseInv, BaseInv', CountInv, SuccessesExplained, Faults >= 0, [Next]_vars
  PROVE  Explained
<1>1. ASSUME NEW w \in Workers, Exit(w) \/ Crash(w) PROVE Explained
  <2>1. Faults' >= Faults + 1 /\ Faults' \in Int
    BY <1>1, ExitLoses
  <2>2. Faults' >= Faults
    BY <2>1, FaultsType
  <2>3. JobIds' = JobIds /\ \A j \in JobIds : Lost(j)
    BY <1>1, <2>1 DEF Exit, Crash, Lost, JobIds
  <2> QED BY <2>1, <2>2, <2>3, StepExplained DEF Explained
<1>2. ASSUME NEW d \in deliveries, CatchFails(d) PROVE Explained
  <2>1. /\ Faults' >= Faults + 1 /\ Faults' \in Int /\ JobIds' = JobIds
        /\ \A j \in JobIds : tally'[j].done = tally[j].done
    BY <1>2, CatchFailsLoses
  <2>2. Faults' >= Faults
    BY <2>1, FaultsType
  <2> QED BY <2>1, <2>2, StepExplained DEF Explained, Lost
<1> QED BY <1>1, <1>2, EnqueueExplained, PollExplained, StopExplained, HandleStepExplained,
           AckStepExplained, AckFailsExplained, NackWriteExplained, QuietExplained
        DEF Next, DeliveryStep, Active

CountedInv == TimelyInv /\ DoneInv

LEMMA InitHasDone == Init => DoneInv
<1> SUFFICES ASSUME Init PROVE DoneInv
  OBVIOUS
<1>1. Owed = {} /\ crashes = 0 /\ dbErrors = 0 /\ JobIds = {}
  BY DEF Init, Owed, Leaving, Retracting, JobIds
<1>2. Cardinality(Owed) = 0
  BY <1>1, FS_EmptySet
<1>3. Faults = 0
  BY <1>1, <1>2 DEF Faults
<1> QED BY <1>1, <1>3 DEF DoneInv, SuccessesExplained

LEMMA NextKeepsDone == CountedInv /\ [Next]_vars => CountedInv'
<1> SUFFICES ASSUME CountedInv, [Next]_vars PROVE CountedInv'
  OBVIOUS
<1>1. TimelyInv' /\ BaseInv /\ BaseInv'
  BY NextKeepsTimely DEF CountedInv, TimelyInv
<1>2. ASSUME ~overran' PROVE Faults' >= 0 /\ SuccessesExplained'
  <2>1. ~overran
    BY <1>2, NeverBefore DEF CountedInv, TimelyInv
  <2>2. Faults >= 0 /\ Faults \in Int /\ Explained
    BY <1>1, <2>1, FaultsType, NextExplained DEF CountedInv, TimelyInv, DoneInv
  <2> DEFINE f1 == Faults'
  <2>3. f1 >= Faults /\ f1 \in Int /\ SuccessesExplained'
    BY <2>2 DEF Explained
  <2> HIDE DEF f1
  <2>4. f1 >= 0
    BY <2>2, <2>3
  <2> QED BY <2>3, <2>4 DEF f1
<1> QED BY <1>1, <1>2 DEF CountedInv, DoneInv

THEOREM CountedInvariant == Spec => []CountedInv
<1>1. Init => CountedInv
  BY InitHasTimely, InitHasDone DEF CountedInv
<1> QED BY <1>1, NextKeepsDone, PTL DEF Spec

\* Until a delivery outlasts the stale window: one delivery of a job at a time, no
\* failure lost or counted twice, and a handler succeeds again only when a fault lost
\* its success (dequeue, nack, and ack after the handler).
THEOREM DeliveriesAreCounted == Spec => []DeliveriesCounted
<1>1. CountedInv => DeliveriesCounted
  <2> SUFFICES ASSUME CountedInv, ~overran PROVE CompletedAsHandled
    BY DEF CountedInv, TimelyInv, CountInv, DeliveriesCounted
  <2> SUFFICES ASSUME NEW j \in JobIds
               PROVE  /\ jobs[j].status = "completed" => tally[j].done >= 1
                      /\ tally[j].done <= 1 + crashes + dbErrors
    BY DEF CompletedAsHandled
  <2>1. jobs[j].status = "completed" => tally[j].done >= 1
    BY DEF CountedInv, TimelyInv, CountInv, CompletionsEarned
  <2>2. tally[j].done <= crashes + dbErrors - Cardinality(Owed) + 1
    BY DEF CountedInv, DoneInv, SuccessesExplained, Faults
  <2>3. /\ tally[j].done \in Nat /\ crashes \in Nat /\ dbErrors \in Nat
        /\ Cardinality(Owed) \in Nat
    BY RowType, CountsType, OwedFinite DEF CountedInv, TimelyInv, BaseInv, Tally
  <2> QED BY <2>1, <2>2, <2>3
<1> QED BY <1>1, CountedInvariant, PTL

-----------------------------------------------------------------------------
\* The queue implements JobLifecycle.

LifeJobs == 1..Cardinality(Requests)
Status == [j \in LifeJobs |-> IF j \in JobIds THEN jobs[j].status ELSE "absent"]
Failed == [j \in LifeJobs |-> IF j \in JobIds THEN jobs[j].attempts ELSE 0]
Unheard == [j \in LifeJobs |-> IF j \in JobIds THEN tally[j].unheard ELSE FALSE]

\* The calls past their INSERT, each of which made one job at most.
PastInsert == {r \in Requests : req[r].at \notin {"new", "insert"}}
RoomInv == Len(jobs) <= Cardinality(PastInsert)

LEMMA PastInsertFinite ==
  /\ IsFiniteSet(PastInsert) /\ Cardinality(PastInsert) \in Nat
  /\ Cardinality(Requests) \in Nat /\ Cardinality(PastInsert) <= Cardinality(Requests)
<1>1. IsFiniteSet(Requests)
  BY JobQueueAssumption
<1>2. PastInsert \in SUBSET Requests
  BY DEF PastInsert
<1> QED BY <1>1, <1>2, FS_Subset, FS_CardinalityType

\* A job is inserted by a call that has made none yet.
LEMMA InsertHasRoom ==
  ASSUME BaseInv, RoomInv, NEW r \in Requests, req[r].at = "insert", Insert(req[r].key),
         req'[r].at \notin {"new", "insert"}, \A q \in Requests \ {r} : req'[q] = req[q],
         NEW new, new = Len(jobs) + 1
  PROVE  /\ new <= Cardinality(Requests) /\ RoomInv'
         /\ JobIds' = JobIds \union {new} /\ new \notin JobIds
         /\ jobs'[new] = NewJob(req[r].key) /\ tally'[new] = NewTally
         /\ \A i \in JobIds : jobs'[i] = jobs[i] /\ tally'[i] = tally[i]
<1>1. req[r].key \in Keys /\ Len(jobs) \in Nat
  BY DEF BaseInv, CallsKnown, RowsTyped
<1>2. /\ Len(jobs') = new /\ JobIds' = JobIds \union {new} /\ new \notin JobIds
      /\ jobs'[new] = NewJob(req[r].key) /\ tally'[new] = NewTally
      /\ \A i \in JobIds : jobs'[i] = jobs[i] /\ tally'[i] = tally[i]
  BY <1>1, InsertEffect
<1>3. PastInsert' = PastInsert \union {r} /\ r \notin PastInsert
  BY DEF PastInsert
<1>4. Cardinality(PastInsert') = Cardinality(PastInsert) + 1 /\ IsFiniteSet(PastInsert')
  BY <1>3, PastInsertFinite, FS_AddElement
<1>5. Cardinality(PastInsert') <= Cardinality(Requests)
  <2>1. PastInsert' \in SUBSET Requests /\ IsFiniteSet(Requests)
    BY JobQueueAssumption DEF PastInsert
  <2> QED BY <2>1, FS_Subset
<1> QED BY <1>1, <1>2, <1>4, <1>5, PastInsertFinite DEF RoomInv

\* Other steps make no job, and no call goes back to its INSERT.
LEMMA OthersKeepRoom ==
  ASSUME RoomInv, Len(jobs') = Len(jobs), BaseInv,
         \A r \in Requests : req[r].at \notin {"new", "insert"} => req'[r].at \notin {"new", "insert"}
  PROVE  RoomInv'
<1>1. PastInsert \in SUBSET PastInsert' /\ PastInsert' \in SUBSET Requests
  BY DEF PastInsert
<1>2. IsFiniteSet(PastInsert')
  BY <1>1, JobQueueAssumption, FS_Subset
<1>3. Cardinality(PastInsert) <= Cardinality(PastInsert') /\ Cardinality(PastInsert') \in Nat
  BY <1>1, <1>2, FS_Subset, FS_CardinalityType
<1>4. Len(jobs) \in Nat
  BY DEF BaseInv, RowsTyped
<1> QED BY <1>3, <1>4, PastInsertFinite DEF RoomInv

\* What a step of the queue is to the life cycle: nothing, or the step of one job.
Same == JobIds' = JobIds /\ \A i \in JobIds : /\ jobs'[i].status = jobs[i].status
                                               /\ jobs'[i].attempts = jobs[i].attempts
                                               /\ tally'[i].unheard = tally[i].unheard
OneJob(j) == /\ JobIds' = JobIds
             /\ \A i \in JobIds \ {j} : jobs'[i] = jobs[i] /\ tally'[i].unheard = tally[i].unheard

LEMMA SameMaps == ASSUME Same PROVE Status' = Status /\ Failed' = Failed /\ Unheard' = Unheard
BY DEF Same, Status, Failed, Unheard, LifeJobs

LEMMA OneJobMaps ==
  ASSUME NEW j \in JobIds, j \in LifeJobs, OneJob(j)
  PROVE  /\ Status' = [Status EXCEPT ![j] = jobs'[j].status] /\ Status[j] = jobs[j].status
         /\ Failed' = [Failed EXCEPT ![j] = jobs'[j].attempts] /\ Failed[j] = jobs[j].attempts
         /\ Unheard' = [Unheard EXCEPT ![j] = tally'[j].unheard] /\ Unheard[j] = tally[j].unheard
         /\ jobs'[j].attempts = jobs[j].attempts => Failed' = Failed
         /\ tally'[j].unheard = tally[j].unheard => Unheard' = Unheard
BY DEF OneJob, Status, Failed, Unheard, LifeJobs

LEMMA JobsAreLifeJobs ==
  ASSUME BaseInv, RoomInv
  PROVE  JobIds \subseteq LifeJobs
<1>1. Len(jobs) \in Nat /\ JobIds = 1..Len(jobs)
  BY DEF BaseInv, RowsTyped, JobIds
<1> QED BY <1>1, PastInsertFinite DEF RoomInv, LifeJobs

LEMMA LifeMoves ==
  ASSUME NEW j \in LifeJobs
  PROVE  /\ Status[j] = "absent" /\ Status' = [Status EXCEPT ![j] = "pending"]
            /\ Failed' = Failed /\ Unheard' = Unheard
              => Lifecycle!Submit(j)
         /\ Status[j] = "pending" /\ Status' = [Status EXCEPT ![j] = "processing"]
            /\ Failed' = Failed /\ Unheard' = Unheard
              => Lifecycle!Claim(j)
         /\ Status[j] = "processing" /\ Status' = [Status EXCEPT ![j] = "completed"]
            /\ Failed' = Failed /\ Unheard' = Unheard
              => Lifecycle!Succeed(j)
         /\ Status[j] = "processing" /\ Status' = [Status EXCEPT ![j] = "completed"]
            /\ Failed' = Failed /\ Unheard' = [Unheard EXCEPT ![j] = TRUE]
              => Lifecycle!SucceedUnheard(j)
         /\ Failed' = [Failed EXCEPT ![j] = Failed[j] + 1]
            /\ Status' = [Status EXCEPT ![j] = IF Failed[j] + 1 >= MaxAttempts THEN "dead" ELSE "pending"]
            => /\ Status[j] = "processing" /\ Unheard' = Unheard => Lifecycle!Fail(j)
               /\ Status[j] = "completed" /\ Unheard[j] /\ Unheard' = [Unheard EXCEPT ![j] = FALSE]
                    => Lifecycle!Retract(j)
BY DEF Status, Failed, Unheard, LifeJobs, Lifecycle!vars, Lifecycle!Move, Lifecycle!Submit,
       Lifecycle!Claim, Lifecycle!Succeed, Lifecycle!SucceedUnheard, Lifecycle!FailFrom,
       Lifecycle!Fail, Lifecycle!Retract

LEMMA SameStutters == ASSUME Same PROVE UNCHANGED Lifecycle!vars
<1>1. Status' = Status /\ Failed' = Failed /\ Unheard' = Unheard
  BY SameMaps
<1> QED BY <1>1 DEF Status, Failed, Unheard, LifeJobs, Lifecycle!vars

LifeStep == Lifecycle!Next \/ UNCHANGED Lifecycle!vars

LEMMA ClaimImplements ==
  ASSUME BaseInv, RoomInv, NEW j \in JobIds, Eligible(j), Take(j)
  PROVE  LifeStep
<1>1. /\ OneJob(j) /\ jobs'[j].status = "processing" /\ jobs'[j].attempts = jobs[j].attempts
      /\ tally'[j].unheard = tally[j].unheard
  <2>1. jobs[j] \in Job /\ tally[j] \in Tally
    BY RowType DEF BaseInv
  <2>2. /\ JobIds' = JobIds /\ jobs'[j] = [jobs[j] EXCEPT !.status = "processing", !.age = 0]
        /\ tally'[j] = [tally[j] EXCEPT !.claims = @ + 1]
        /\ \A i \in JobIds \ {j} : jobs'[i] = jobs[i] /\ tally'[i] = tally[i]
    BY TakeEffect DEF BaseInv
  <2> QED BY <2>1, <2>2 DEF OneJob, Job, Tally
<1>2. CASE jobs[j].status = "processing"
  BY <1>1, <1>2, SameStutters DEF OneJob, Same, LifeStep
<1>3. CASE jobs[j].status = "pending"
  <2>1. j \in LifeJobs
    BY JobsAreLifeJobs
  <2>2. /\ Status' = [Status EXCEPT ![j] = "processing"] /\ Status[j] = "pending"
        /\ Failed' = Failed /\ Unheard' = Unheard
    BY <1>1, <1>3, <2>1, OneJobMaps
  <2>3. Lifecycle!Claim(j)
    BY <2>1, <2>2, LifeMoves
  <2> QED BY <2>1, <2>3 DEF LifeStep, Lifecycle!Next, LifeJobs
<1> QED BY <1>2, <1>3 DEF Eligible

LEMMA AckImplements ==
  ASSUME BaseInv, RoomInv, CountInv, NEW d \in deliveries, d.at = "ack", Complete(d.job),
         tally' = tally \/ tally' = [tally EXCEPT ![d.job].unheard = TRUE]
  PROVE  LifeStep
<1> DEFINE j == d.job
<1>1. /\ j \in JobIds /\ JobIds' = JobIds /\ jobs'[j].status = "completed"
      /\ jobs'[j].attempts = jobs[j].attempts
      /\ \A i \in JobIds \ {j} : jobs'[i] = jobs[i]
  BY DeliveryType, CompleteEffect DEF BaseInv
<1>2. jobs[j].status = "processing"
  BY HeldBeforeAck DEF Held
<1>3. /\ \A i \in JobIds \ {j} : tally'[i] = tally[i]
      /\ tally'[j].unheard = tally[j].unheard \/ tally'[j].unheard = TRUE
  BY <1>1, UnheardEffect DEF BaseInv
<1> HIDE DEF j
<1>4. j \in LifeJobs /\ OneJob(j)
  BY <1>1, <1>3, JobsAreLifeJobs DEF OneJob
<1>5. /\ Status' = [Status EXCEPT ![j] = "completed"] /\ Status[j] = "processing"
      /\ Failed' = Failed
      /\ Unheard' = Unheard \/ Unheard' = [Unheard EXCEPT ![j] = TRUE]
  BY <1>1, <1>2, <1>3, <1>4, OneJobMaps
<1>6. Lifecycle!Succeed(j) \/ Lifecycle!SucceedUnheard(j)
  BY <1>4, <1>5, LifeMoves
<1> QED BY <1>4, <1>6 DEF LifeStep, Lifecycle!Next, LifeJobs

LEMMA NackImplements ==
  ASSUME BaseInv, RoomInv, CountInv, NEW d \in deliveries, d.at = "nackWrite", Written(d)
  PROVE  LifeStep
<1> DEFINE j == d.job
<1>1. /\ OneJob(j) /\ jobs'[j].attempts = jobs[j].attempts + 1
      /\ jobs'[j].status = IF jobs[j].attempts + 1 >= MaxAttempts THEN "dead" ELSE "pending"
      /\ tally'[j].unheard = FALSE
  BY DEF Written, OneJob
<1>2. j \in JobIds /\ j \in LifeJobs /\ tally[j] \in Tally
  BY DeliveryType, JobsAreLifeJobs, RowType DEF BaseInv
<1>4. /\ Failed[j] = jobs[j].attempts /\ Status[j] = jobs[j].status
      /\ Failed' = [Failed EXCEPT ![j] = Failed[j] + 1]
      /\ Status' = [Status EXCEPT ![j] = IF Failed[j] + 1 >= MaxAttempts THEN "dead" ELSE "pending"]
      /\ Unheard[j] = tally[j].unheard /\ Unheard' = [Unheard EXCEPT ![j] = tally'[j].unheard]
      /\ tally'[j].unheard = tally[j].unheard => Unheard' = Unheard
  BY <1>1, <1>2, OneJobMaps
<1>5. CASE Held(d)
  <2>1. jobs[j].status = "processing" /\ ~tally[j].unheard
    BY <1>2, <1>5 DEF Held, CountInv, UnheardCompleted
  <2>2. tally'[j].unheard = tally[j].unheard
    BY <1>1, <1>2, <2>1 DEF Tally
  <2> HIDE DEF j
  <2>3. Lifecycle!Fail(j)
    BY <1>2, <1>4, <2>1, <2>2, LifeMoves
  <2> QED BY <1>2, <2>3 DEF LifeStep, Lifecycle!Next, LifeJobs
<1>6. CASE Doubtful(d)
  <2>1. jobs[j].status = "completed" /\ tally[j].unheard
    BY <1>6 DEF Doubtful
  <2>2. tally'[j].unheard = FALSE
    BY <1>1
  <2> HIDE DEF j
  <2>3. Lifecycle!Retract(j)
    BY <1>2, <1>4, <2>1, <2>2, LifeMoves
  <2> QED BY <1>2, <2>3 DEF LifeStep, Lifecycle!Next, LifeJobs
<1> QED BY <1>5, <1>6 DEF CountInv, Live

LEMMA InsertImplements ==
  ASSUME BaseInv, RoomInv, NEW r \in Requests, req[r].at = "insert", Insert(req[r].key),
         req'[r].at \notin {"new", "insert"}, \A q \in Requests \ {r} : req'[q] = req[q]
  PROVE  LifeStep /\ RoomInv'
<1>0. PICK new : new = Len(jobs) + 1
  OBVIOUS
<1>1. /\ new <= Cardinality(Requests) /\ RoomInv'
      /\ JobIds' = JobIds \union {new} /\ new \notin JobIds
      /\ jobs'[new] = NewJob(req[r].key) /\ tally'[new] = NewTally
      /\ \A i \in JobIds : jobs'[i] = jobs[i] /\ tally'[i] = tally[i]
  BY <1>0, InsertHasRoom
<1>2. /\ jobs'[new].status = "pending" /\ jobs'[new].attempts = 0 /\ tally'[new].unheard = FALSE
      /\ Len(jobs) \in Nat
  BY <1>1 DEF NewJob, NewTally, BaseInv, RowsTyped
<1>3. new \in LifeJobs
  BY <1>0, <1>1, <1>2, PastInsertFinite DEF LifeJobs
<1>4. /\ Status[new] = "absent" /\ Status' = [Status EXCEPT ![new] = "pending"]
      /\ Failed' = Failed /\ Unheard' = Unheard
  BY <1>1, <1>2, <1>3 DEF Status, Failed, Unheard, LifeJobs
<1>5. Lifecycle!Submit(new)
  BY <1>3, <1>4, LifeMoves
<1> QED BY <1>1, <1>3, <1>5 DEF LifeStep, Lifecycle!Next, LifeJobs

LEMMA CallsImplement ==
  ASSUME BaseInv, RoomInv, NEW r \in Requests, EnqueueStep(r) \/ EnqueueFails(r)
  PROVE  LifeStep /\ RoomInv'
<1>1. /\ \A q \in Requests \ {r} : req'[q] = req[q]
      /\ req[r].at # "new" => req'[r].at \notin {"new", "insert"}
  <2>0. req \in [Requests -> Call] /\ req[r] \in Call
    BY DEF BaseInv, CallsKnown
  <2>1. CASE EnqueueFind(r)
    BY <2>0, <2>1 DEF EnqueueFind, Answer
  <2>2. CASE EnqueueInsert(r)
    BY <2>0, <2>2 DEF EnqueueInsert, Answer, Call
  <2>3. CASE EnqueueRefetch(r)
    BY <2>0, <2>3 DEF EnqueueRefetch, Answer, Call
  <2>4. CASE EnqueueFails(r)
    BY <2>0, <2>4 DEF EnqueueFails, Call
  <2> QED BY <2>1, <2>2, <2>3, <2>4 DEF EnqueueStep
<1>2. CASE req[r].at = "insert" /\ Insert(req[r].key)
  BY <1>1, <1>2, InsertImplements
<1>3. CASE jobs' = jobs /\ tally' = tally
  <2>1. Same
    BY <1>3 DEF Same, JobIds
  <2> QED BY <1>1, <1>3, <2>1, SameStutters, OthersKeepRoom DEF LifeStep
<1> QED BY <1>2, <1>3 DEF EnqueueStep, EnqueueFind, EnqueueInsert, EnqueueRefetch, EnqueueFails

\* A job's claim, ack or nack is its step of the life cycle.
LEMMA WorkImplements ==
  ASSUME BaseInv, RoomInv, CountInv,
         \/ \E w \in Workers : \/ PollStep(w) \/ DequeueFails(w) \/ DeliveryStep(w)
                               \/ Stop(w) \/ StopResolves(w) \/ Exit(w) \/ Crash(w) \/ Start(w)
         \/ \E d \in deliveries : AckFails(d) \/ CatchFails(d)
         \/ Tick
  PROVE  LifeStep
<1>1. CASE \E j \in JobIds : Oldest(j) /\ Take(j)
  BY <1>1, ClaimImplements DEF Oldest
<1>3. CASE jobs' = jobs /\ \A i \in JobIds : tally'[i].unheard = tally[i].unheard
  BY <1>3, SameStutters DEF Same, JobIds, LifeStep
<1>4. ASSUME NEW d \in deliveries, NackWrite(d) \/ CatchFails(d) PROVE LifeStep
  <2>1. Written(d) \/ (jobs' = jobs /\ tally' = tally)
    BY <1>4, NackWriteEffect, WritesWhatItRead DEF CatchFails
  <2>2. Written(d) => d.at = "nackWrite"
    <3>1. Written(d) => jobs' # jobs
      BY DeliveryType, RowType DEF Written, BaseInv, Job
    <3> QED BY <1>4, <3>1 DEF NackWrite, CatchFails
  <2> QED BY <1>3, <2>1, <2>2, NackImplements
<1>5. ASSUME NEW d \in deliveries, Handle(d) PROVE LifeStep
  <2>1. d.job \in JobIds /\ tally[d.job] \in Tally /\ DOMAIN tally = JobIds
    BY DeliveryType, RowType DEF BaseInv, RowsTyped
  <2>2. \A i \in JobIds : tally'[i].unheard = tally[i].unheard
    BY <1>5, <2>1 DEF Handle, Tally
  <2> QED BY <1>3, <1>5, <2>2 DEF Handle
<1>6. CASE Tick
  <2>1. tally' = tally
    BY <1>6 DEF Tick
  <2> QED BY <1>6, <2>1, TickEffect, SameStutters DEF Same, BaseInv, LifeStep
<1>7. CASE jobs' = jobs /\ tally' = tally
  BY <1>3, <1>7
<1>8. ASSUME NEW d \in deliveries, Ack(d) \/ AckFails(d) PROVE LifeStep
  <2>1. CASE tally' = tally /\ jobs' = jobs
    BY <1>7, <2>1
  <2>2. CASE Complete(d.job)
    BY <1>8, <2>2, AckImplements DEF Ack, AckFails
  <2> QED BY <1>8, <2>1, <2>2 DEF Ack, AckFails
<1> QED BY <1>1, <1>4, <1>5, <1>6, <1>7, <1>8
        DEF PollStep, PollTimer, Dequeue, Dispatch, DequeueFails, DeliveryStep, Active,
            NackRead, Stat, Stop, StopResolves, Exit, Crash, Start

LEMMA WorkKeepsRoom ==
  ASSUME BaseInv, BaseInv', RoomInv, req' = req, JobIds' = JobIds
  PROVE  RoomInv'
<1>1. Len(jobs') = Len(jobs)
  BY DEF BaseInv, RowsTyped, JobIds
<1> QED BY <1>1, OthersKeepRoom

LifeInv == TimelyInv /\ RoomInv

LEMMA NextImplements ==
  ASSUME LifeInv, [Next]_vars
  PROVE  (~overran' => LifeStep) /\ LifeInv'
<1>1. BaseInv /\ RoomInv /\ BaseInv' /\ TimelyInv' /\ (~overran' => CountInv)
  BY NextKeepsBase, NextKeepsTimely, NeverBefore DEF LifeInv, TimelyInv
<1>2. CASE UNCHANGED vars
  <2>1. Same /\ req' = req /\ JobIds' = JobIds
    BY <1>2 DEF vars, Same, JobIds
  <2> QED BY <1>1, <2>1, SameStutters, WorkKeepsRoom DEF LifeStep, LifeInv
<1>3. ASSUME NEW r \in Requests, EnqueueStep(r) \/ EnqueueFails(r)
      PROVE  (~overran' => LifeStep) /\ LifeInv'
  <2>1. LifeStep /\ RoomInv'
    BY <1>1, <1>3, CallsImplement
  <2> QED BY <1>1, <2>1 DEF LifeInv
<1>4. CASE \/ \E w \in Workers : \/ PollStep(w) \/ DequeueFails(w) \/ DeliveryStep(w)
                                 \/ Stop(w) \/ StopResolves(w) \/ Exit(w) \/ Crash(w) \/ Start(w)
           \/ \E d \in deliveries : AckFails(d) \/ CatchFails(d)
           \/ Tick
  <2>1. ~overran' => LifeStep
    BY <1>1, <1>4, WorkImplements
  <2>2. req' = req
    BY <1>4 DEF PollStep, PollTimer, Dequeue, Dispatch, DequeueFails, DeliveryStep, Active, Handle,
                Ack, NackRead, NackWrite, Stat, Stop, StopResolves, Exit, Crash, Start, AckFails,
                CatchFails, Tick
  <2>3. JobIds' = JobIds
    <3>1. CASE \E j \in JobIds : Oldest(j) /\ Take(j)
      BY <1>1, <3>1, TakeEffect DEF BaseInv
    <3>2. ASSUME NEW d \in deliveries, Complete(d.job) PROVE JobIds' = JobIds
      BY <1>1, <3>2, CompleteEffect, DeliveryType DEF BaseInv
    <3>2b. ASSUME NEW d \in deliveries, NackWrite(d) \/ CatchFails(d) PROVE JobIds' = JobIds
      BY <3>2b DEF NackWrite, CatchFails, WriteRow, JobIds
    <3>3. CASE jobs' = jobs
      BY <3>3 DEF JobIds
    <3>4. CASE Tick
      BY <1>1, <3>4, TickEffect DEF BaseInv
    <3> QED BY <1>4, <3>1, <3>2, <3>2b, <3>3, <3>4
            DEF PollStep, PollTimer, Dequeue, Dispatch, DequeueFails, DeliveryStep, Active, Handle,
                Ack, NackRead, Stat, Stop, StopResolves, Exit, Crash, Start, AckFails
  <2> QED BY <1>1, <2>1, <2>2, <2>3, WorkKeepsRoom DEF LifeInv
<1> QED BY <1>2, <1>3, <1>4 DEF Next

LEMMA InitImplements == Init => LifeInv /\ Lifecycle!Init
<1> SUFFICES ASSUME Init PROVE LifeInv /\ Lifecycle!Init
  OBVIOUS
<1>1. JobIds = {} /\ Len(jobs) = 0
  BY DEF Init, JobIds
<1>2. RoomInv
  BY <1>1, PastInsertFinite DEF RoomInv
<1>3. Lifecycle!Init
  BY <1>1 DEF Lifecycle!Init
<1> QED BY <1>2, <1>3, InitHasTimely DEF LifeInv

THEOREM LifeInvariant == Spec => []LifeInv
<1>1. LifeInv /\ [Next]_vars => LifeInv'
  BY NextImplements
<1> QED BY <1>1, InitImplements, PTL DEF Spec

\* Until a delivery outlasts the stale window the tables, the workers and the calls,
\* whatever crashes, fails or is lost, do to each job what JobLifecycle allows: a
\* completed job is touched again only by the one nack of an unanswered ack.
THEOREM QueueKeepsLifecycle == Spec => LifecycleKept
<1>1. LifeInv /\ [Next]_vars => [~overran' => Lifecycle!Next]_(Lifecycle!vars)
  BY NextImplements DEF LifeStep
<1> QED BY <1>1, InitImplements, LifeInvariant, PTL DEF Spec, LifecycleKept

\* If every delivery ends before its job goes stale, the queue implements JobLifecycle.
THEOREM QueueImplementsLifecycle ==
  ASSUME Timely
  PROVE  Spec => ImplementsLifecycle
<1>1. Init => overran = FALSE
  BY DEF Init
<1>2. overran = FALSE /\ [Next]_vars => (overran = FALSE)'
  <2> SUFFICES ASSUME overran = FALSE, [Next]_vars PROVE overran' = FALSE
    OBVIOUS
  <2>1. Tick => ~Outlasted
    BY DEF Tick
  <2> QED BY <2>1, OnlyTickOverruns
<1>3. LifeInv /\ (overran = FALSE)' /\ [Next]_vars => [Lifecycle!Next]_(Lifecycle!vars)
  BY NextImplements DEF LifeStep
<1> QED BY <1>1, <1>2, <1>3, InitImplements, LifeInvariant, PTL
        DEF Spec, ImplementsLifecycle, Lifecycle!Spec
=============================================================================
