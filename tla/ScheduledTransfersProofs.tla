----------------------- MODULE ScheduledTransfersProofs -----------------------
(***************************************************************************)
(* Theorems about the scheduler, for any number of instances, transfers    *)
(* and requests of their users, any lease length, failure cap, limits of   *)
(* the log, crashes and failing queries: types, exclusion by the leases,   *)
(* cancellation, what left against what was logged, and the execution log. *)
(***************************************************************************)
EXTENDS ScheduledTransfers, FiniteSetTheorems, TLAPS

\* Every patch executeTransfer may write is a row.
LEMMA PatchType ==
  ASSUME NEW s \in Snapshot, NEW result \in {"success", "failed"}, NEW now \in Int
  PROVE  Patch(s, result, now) \in SUBSET Row
<1> DEFINE n == FailuresAfter(s, result)
<1>1. s.row \in Row /\ s.row.nextRunAt \in Int
  BY DEF Snapshot, Row
<1>2. n \in Nat
  BY <1>1 DEF FailuresAfter, Row
<1>3. ASSUME NEW st \in {"active", "completed", "failed"}, NEW at \in Int
      PROVE  Patched(s, st, at, n) \in Row
  BY <1>1, <1>2 DEF Row, Statuses, Patched
<1>4. FailurePatch(s, n, now) \in SUBSET Row
  <2>1. \A d \in ComputeBackoff(n - 1) : now + d \in Int
    BY <1>2, SchedulerAssumption DEF ComputeBackoff
  <2> HIDE DEF n
  <2> QED BY <1>1, <1>3, <2>1 DEF FailurePatch
<1>5. SuccessPatch(s, n, now) \in SUBSET Row
  <2>1. ComputeNextRunAt(now, s.row.frequency, s.row.endAt) \in SUBSET Int
    BY <1>1 DEF ComputeNextRunAt, Row
  <2> HIDE DEF n
  <2> QED BY <1>1, <1>3, <2>1 DEF SuccessPatch
<1> QED BY <1>4, <1>5 DEF Patch

\* A row that create has not written yet.
LEMMA AbsentType == Absent \in Row
<1>1. (CHOOSE k \in SessionKeys : TRUE) \in SessionKeys
  BY SchedulerAssumption
<1> QED BY <1>1 DEF Absent, Row, Statuses, Once, NoEnd

LEMMA InitType == Init => TypeOK
<1> SUFFICES ASSUME Init PROVE TypeOK
  OBVIOUS
<1>1. Absent \in Row
  BY AbsentType
<1>2. NoSnapshot \in Snapshot
  BY <1>1, SchedulerAssumption DEF NoSnapshot, Snapshot
<1>3. NoLease \in Lease
  BY DEF NoLease, Lease
<1>4. overran \in BOOLEAN
  BY DEF Init
<1> QED BY <1>1, <1>2, <1>3, <1>4 DEF Init, TypeOK, PC

\* The locals of a tick after executeTransfer returns.
LEMMA ForgetType ==
  ASSUME TypeOK, NEW w \in Workers, ForgetLocals(w)
  PROVE  /\ cur' \in [Workers -> Snapshot] /\ nonce' \in [Workers -> Nat]
         /\ outcome' \in [Workers -> {"success", "failed"}]
         /\ expiresAt' \in [Workers -> Int]
<1>1. NoSnapshot \in Snapshot
  BY SchedulerAssumption, AbsentType DEF NoSnapshot, Snapshot
<1> QED BY <1>1 DEF ForgetLocals, TypeOK

LEMMA GotoType ==
  ASSUME TypeOK, NEW w \in Workers, NEW from, NEW to \in PC, Goto(w, from, to)
  PROVE  pc' \in [Workers -> PC]
BY DEF Goto, TypeOK

\* What an instance holds in its locals.
LEMMA LocalsType ==
  ASSUME TypeOK, NEW w \in Workers
  PROVE  /\ cur[w] \in Snapshot /\ cur[w].id \in Transfers
         /\ nonce[w] \in Nat /\ outcome[w] \in {"success", "failed"}
         /\ expiresAt[w] \in Int /\ tickNow[w] \in Int /\ pc[w] \in PC
BY DEF TypeOK, Snapshot

\* Updating a column keeps a row a row, and a lease a lease.
LEMMA ExceptType ==
  /\ \A r \in Row, st \in Statuses : [r EXCEPT !.status = st] \in Row
  /\ \A r \in Row, st \in Statuses, at \in Int, n \in Nat :
       [r EXCEPT !.status = st, !.nextRunAt = at, !.failures = n] \in Row
  /\ \A l \in Lease : [l EXCEPT !.worker = Gone] \in Lease
BY DEF Row, Lease, Gone

LEMMA ListDueType ==
  ASSUME TypeOK, NEW now
  PROVE  ListDue(now) \in SUBSET Snapshot
<1>1. ASSUME NEW t \in Transfers PROVE [id |-> t, row |-> row[t]] \in Snapshot
  BY DEF TypeOK, Snapshot
<1> QED BY <1>1 DEF ListDue

\* An API call or a user's request keeps the types.
LEMMA ApiType ==
  ASSUME TypeOK, \/ \E t \in Transfers : Create(t) \/ PauseRead(t) \/ CancelRead(t)
                 \/ \E r \in requests : UpdateStatus(r)
  PROVE  TypeOK'
<1> USE DEF TypeOK, dbVars, tickVars, envVars, histVars
<1>1. ASSUME NEW t \in Transfers, Create(t) PROVE TypeOK'
  <2>1. ASSUME NEW k \in SessionKeys, NEW f \in Frequencies, NEW e \in EndTimes,
               NEW d \in StartDelays
        PROVE  [status |-> "active", key |-> k, frequency |-> f, nextRunAt |-> clock + d,
                endAt |-> e, failures |-> 0] \in Row
    <3>1. f \in Nat /\ e \in Int /\ d \in Nat /\ clock + d \in Int
      BY SchedulerAssumption DEF NoEnd
    <3> QED BY <3>1 DEF Row, Statuses
  <2>2. row' \in [Transfers -> Row]
    BY <1>1, <2>1 DEF Create
  <2> QED BY <1>1, <2>2 DEF Create
<1>2. ASSUME NEW t \in Transfers, PauseRead(t) PROVE TypeOK'
  BY <1>2 DEF PauseRead
<1>3. ASSUME NEW t \in Transfers, CancelRead(t) PROVE TypeOK'
  BY <1>3 DEF CancelRead
<1>4. ASSUME NEW r \in requests, UpdateStatus(r) PROVE TypeOK'
  <2>1. r.id \in Transfers /\ r.op \in Statuses
    BY DEF Statuses
  <2> DEFINE changed == [row[r.id] EXCEPT !.status = r.op]
  <2>2. row' \in [Transfers -> Row]
    <3>1. changed \in Row
      BY <2>1, ExceptType
    <3>2. row' = [row EXCEPT ![r.id] = changed]
      BY <1>4 DEF UpdateStatus
    <3> QED BY <2>1, <3>1, <3>2
  <2>3. stopped' \in SUBSET Transfers
    BY <1>4, <2>1 DEF UpdateStatus
  <2> QED BY <1>4, <2>2, <2>3 DEF UpdateStatus
<1> QED BY <1>1, <1>2, <1>3, <1>4

\* updateAfterExecution's UPDATE, with the answer that follows or without.
RowWritten(w) ==
  /\ pc[w] = "update"
  /\ \E p \in Patch(cur[w], outcome[w], tickNow[w]) :
       /\ p.status \in CheckedStatuses
       /\ row' = [row EXCEPT ![cur[w].id].status = p.status,
                             ![cur[w].id].nextRunAt = p.nextRunAt,
                             ![cur[w].id].failures = p.failures]

\* What a query that throws leaves of its instance, and what it may have written.
LEMMA DbErrorShape ==
  ASSUME NEW w \in Workers, DbError(w)
  PROVE  /\ dbErrors' = dbErrors + 1 /\ UNCHANGED <<requests, clock, crashes, histVars>>
         /\ \/ /\ pc[w] = "idle" /\ tickNow' = [tickNow EXCEPT ![w] = clock]
               /\ UNCHANGED <<pc, due, cur, nonce, outcome, expiresAt, dbVars>>
            \/ pc[w] \in {"acquire", "release"} /\ AbandonTick(w) /\ UNCHANGED row
            \/ /\ pc[w] \in {"count", "track", "append", "update", "notify"}
               /\ SkipToRelease(w) /\ UNCHANGED lease
<1>1. CASE QueryFails(w)
  BY <1>1 DEF DbError, QueryFails, dbVars
<1>2. CASE AnswerLost(w)
  BY <1>2 DEF DbError, AnswerLost
<1> QED BY <1>1, <1>2 DEF DbError

LEMMA DbErrorWrites ==
  ASSUME NEW w \in Workers, DbError(w)
  PROVE  /\ UNCHANGED row \/ RowWritten(w)
         /\ \/ UNCHANGED lease
            \/ /\ pc[w] = "acquire"
               /\ \E s \in NextDue(w) :
                    /\ LeaseFree(s.id)
                    /\ lease' = [lease EXCEPT ![s.id] =
                                   [worker |-> w, expires |-> clock + LeaseTTL]]
            \/ /\ pc[w] = "release"
               /\ lease' = [lease EXCEPT ![cur[w].id] = Released(cur[w].id, w)]
         /\ \/ UNCHANGED usedNonces
            \/ /\ pc[w] = "track" /\ UNCHANGED row
               /\ usedNonces' = [usedNonces EXCEPT ![cur[w].row.key] = @ \union {nonce[w]}]
         /\ \/ UNCHANGED executions
            \/ /\ pc[w] = "append" /\ UNCHANGED <<row, outcome, cur>>
               /\ executions' = [executions EXCEPT ![cur[w].id] = Logged(cur[w].id, outcome[w])]
         /\ \/ UNCHANGED notes
            \/ notes' = [notes EXCEPT ![cur[w].id] = @ \union Notification(cur[w], outcome[w])]
<1>1. CASE QueryFails(w)
  BY <1>1 DEF QueryFails, dbVars
<1>2. CASE AnswerLost(w)
  BY <1>2 DEF AnswerLost, RowWritten, SkipToRelease, tickVars
<1> QED BY <1>1, <1>2 DEF DbError

\* The row written is a row.
LEMMA RowWrittenType ==
  ASSUME TypeOK, NEW w \in Workers, RowWritten(w)
  PROVE  row' \in [Transfers -> Row]
<1> DEFINE i == cur[w].id
<1>0. /\ cur[w] \in Snapshot /\ i \in Transfers
      /\ outcome[w] \in {"success", "failed"} /\ tickNow[w] \in Int
  BY LocalsType
<1>1. PICK p \in Patch(cur[w], outcome[w], tickNow[w]) :
        row' = [row EXCEPT ![i].status = p.status, ![i].nextRunAt = p.nextRunAt,
                           ![i].failures = p.failures]
  BY DEF RowWritten
<1>2. p \in Row
  BY <1>0, PatchType
<1> DEFINE changed == [row[i] EXCEPT !.status = p.status,
                       !.nextRunAt = p.nextRunAt, !.failures = p.failures]
<1>3. changed \in Row
  BY <1>0, <1>2, ExceptType DEF TypeOK, Row
<1>4. row' = [row EXCEPT ![i] = changed]
  BY <1>1
<1> QED BY <1>0, <1>3, <1>4 DEF TypeOK

\* The tables keep their types when a query throws.
LEMMA DbErrorTables ==
  ASSUME TypeOK, NEW w \in Workers, DbError(w)
  PROVE  /\ row' \in [Transfers -> Row]
         /\ lease' \in [Transfers -> Lease]
         /\ executions' \in [Transfers -> Seq({"success", "failed"})]
         /\ usedNonces' \in [SessionKeys -> SUBSET Nat]
         /\ notes' \in [Transfers -> SUBSET {"consecutive_failure", "max_failures_reached"}]
<1>0. /\ cur[w].id \in Transfers /\ nonce[w] \in Nat /\ outcome[w] \in {"success", "failed"}
  BY LocalsType
<1>1. row' \in [Transfers -> Row]
  BY DbErrorWrites, RowWrittenType DEF TypeOK
<1>2. lease' \in [Transfers -> Lease]
  <2>1. [worker |-> w, expires |-> clock + LeaseTTL] \in Lease
    BY SchedulerAssumption DEF TypeOK, Lease
  <2>2. Released(cur[w].id, w) \in Lease
    BY <1>0 DEF Released, NoLease, Lease, TypeOK
  <2>3. lease \in [Transfers -> Lease]
    BY DEF TypeOK
  <2>4. CASE UNCHANGED lease
    BY <2>3, <2>4
  <2>5. ASSUME NEW t, NEW l \in Lease, lease' = [lease EXCEPT ![t] = l]
        PROVE  lease' \in [Transfers -> Lease]
    BY <2>3, <2>5
  <2> QED BY <2>1, <2>2, <2>4, <2>5, DbErrorWrites
<1>3. executions' \in [Transfers -> Seq({"success", "failed"})]
  <2>1. Logged(cur[w].id, outcome[w]) \in Seq({"success", "failed"})
    BY <1>0 DEF Logged, TypeOK
  <2>2. \/ UNCHANGED executions
        \/ executions' = [executions EXCEPT ![cur[w].id] = Logged(cur[w].id, outcome[w])]
    BY DbErrorWrites
  <2>3. executions \in [Transfers -> Seq({"success", "failed"})]
    BY DEF TypeOK
  <2> QED BY <2>1, <2>2, <2>3
<1>4. usedNonces' \in [SessionKeys -> SUBSET Nat]
  <2>1. \/ UNCHANGED usedNonces
        \/ usedNonces' = [usedNonces EXCEPT ![cur[w].row.key] = @ \union {nonce[w]}]
    BY DbErrorWrites
  <2> QED BY <1>0, <2>1 DEF TypeOK
<1>5. notes' \in [Transfers -> SUBSET {"consecutive_failure", "max_failures_reached"}]
  <2>1. Notification(cur[w], outcome[w]) \subseteq {"consecutive_failure", "max_failures_reached"}
    BY DEF Notification
  <2>2. \/ UNCHANGED notes
        \/ notes' = [notes EXCEPT ![cur[w].id] = @ \union Notification(cur[w], outcome[w])]
    BY DbErrorWrites
  <2>3. notes[cur[w].id] \union Notification(cur[w], outcome[w])
          \in SUBSET {"consecutive_failure", "max_failures_reached"}
    BY <1>0, <2>1 DEF TypeOK
  <2> QED BY <2>2, <2>3 DEF TypeOK
<1> QED BY <1>1, <1>2, <1>3, <1>4, <1>5

\* A step of a tick keeps the types.
LEMMA WorkerType ==
  ASSUME TypeOK, NEW w \in Workers, WorkerStep(w)
  PROVE  TypeOK'
<1> DEFINE i == cur[w].id
<1>0. /\ cur[w] \in Snapshot /\ i \in Transfers /\ nonce[w] \in Nat
      /\ outcome[w] \in {"success", "failed"} /\ tickNow[w] \in Int
  BY LocalsType
<1>1. ASSUME StartTick(w) PROVE TypeOK'
  <2>1. ListDue(clock) \in SUBSET Snapshot
    BY ListDueType
  <2>2. pc' \in [Workers -> PC]
    BY <1>1, GotoType DEF StartTick, PC
  <2>3. due' \in [Workers -> SUBSET Snapshot]
    BY <1>1, <2>1 DEF StartTick, TypeOK
  <2>4. tickNow' \in [Workers -> Int]
    BY <1>1 DEF StartTick, TypeOK
  <2>5. UNCHANGED <<dbVars, cur, nonce, outcome, expiresAt, envVars, histVars>>
    BY <1>1 DEF StartTick
  <2> QED BY <2>2, <2>3, <2>4, <2>5 DEF TypeOK, dbVars, envVars, histVars
<1>2. ASSUME TryAcquire(w) PROVE TypeOK'
  <2>1. PICK s \in NextDue(w) : 
          /\ due' = [due EXCEPT ![w] = @ \ {s}]
          /\ IF LeaseFree(s.id)
             THEN /\ lease' = [lease EXCEPT ![s.id] =
                                 [worker |-> w, expires |-> clock + LeaseTTL]]
                  /\ expiresAt' = [expiresAt EXCEPT ![w] = clock + LeaseTTL]
                  /\ cur' = [cur EXCEPT ![w] = s]
                  /\ Goto(w, "acquire", "count")
             ELSE /\ Goto(w, "acquire", AfterItem(due[w] \ {s}))
                  /\ UNCHANGED <<lease, expiresAt, cur>>
    BY <1>2 DEF TryAcquire
  <2>2. s \in Snapshot /\ clock + LeaseTTL \in Int
    BY SchedulerAssumption DEF NextDue, TypeOK
  <2>3. [worker |-> w, expires |-> clock + LeaseTTL] \in Lease
    BY <2>2 DEF Lease
  <2>4. pc' \in [Workers -> PC]
    BY <2>1, GotoType DEF PC, AfterItem
  <2>5. /\ lease' \in [Transfers -> Lease] /\ expiresAt' \in [Workers -> Int]
        /\ cur' \in [Workers -> Snapshot]
    <3>1. /\ lease \in [Transfers -> Lease] /\ expiresAt \in [Workers -> Int]
          /\ cur \in [Workers -> Snapshot]
      BY DEF TypeOK
    <3> QED BY <2>1, <2>2, <2>3, <3>1
  <2> QED BY <1>2, <2>1, <2>4, <2>5 DEF TryAcquire, TypeOK, envVars, histVars
<1>3. ASSUME CountExecutions(w) PROVE TypeOK'
  <2>1. DerivedNonce(i) \in Nat
    BY <1>0, SchedulerAssumption DEF DerivedNonce, TypeOK
  <2>2. pc' \in [Workers -> PC]
    BY <1>3, GotoType DEF CountExecutions, PC
  <2> QED BY <1>3, <2>1, <2>2 DEF CountExecutions, TypeOK, dbVars, envVars, histVars
<1>4. ASSUME ValidateRelay(w) PROVE TypeOK'
  <2>1. pc' \in [Workers -> PC]
    BY <1>4, GotoType DEF ValidateRelay, PC
  <2> QED BY <1>4, <2>1 DEF ValidateRelay, TypeOK, dbVars, envVars, histVars
<1>5. ASSUME TrackNonce(w) PROVE TypeOK'
  <2>1. pc' \in [Workers -> PC]
    BY <1>5, GotoType DEF TrackNonce, PC
  <2> QED BY <1>0, <1>5, <2>1 DEF TrackNonce, TypeOK, tickVars, envVars, histVars
<1>6. ASSUME Submit(w) PROVE TypeOK'
  <2>1. pc' \in [Workers -> PC]
    BY <1>6, GotoType DEF Submit, PC
  <2>2. Append(submitted[i], nonce[w]) \in Seq(Nat)
    BY <1>0 DEF TypeOK
  <2>3. submitted' \in [Transfers -> Seq(Nat)]
    BY <1>6, <2>2 DEF Submit, TypeOK
  <2> QED BY <1>6, <2>1, <2>3 DEF Submit, TypeOK, dbVars, envVars
<1>7. ASSUME AppendExecution(w) PROVE TypeOK'
  <2>1. pc' \in [Workers -> PC]
    BY <1>7, GotoType DEF AppendExecution, PC
  <2>2. Logged(i, outcome[w]) \in Seq({"success", "failed"})
    BY <1>0 DEF Logged, TypeOK
  <2> QED BY <1>7, <2>1, <2>2 DEF AppendExecution, TypeOK, tickVars, envVars, histVars
<1>8. ASSUME UpdateAfterExecution(w) PROVE TypeOK'
  <2>1. RowWritten(w) \/ UNCHANGED row
    BY <1>8 DEF UpdateAfterExecution, RowWritten, Goto
  <2>2. row' \in [Transfers -> Row]
    BY <2>1, RowWrittenType DEF TypeOK
  <2>3. pc' = [pc EXCEPT ![w] = "release"] \/ pc' = [pc EXCEPT ![w] = "notify"]
    BY <1>8 DEF UpdateAfterExecution, Goto
  <2>4. pc' \in [Workers -> PC]
    BY <2>3 DEF TypeOK, PC
  <2> QED BY <1>8, <2>2, <2>4 DEF UpdateAfterExecution, TypeOK, tickVars, envVars, histVars
<1>9. ASSUME Notify(w) PROVE TypeOK'
  <2>1. pc' \in [Workers -> PC]
    BY <1>9, GotoType DEF Notify, PC
  <2>2. Notification(cur[w], outcome[w]) \subseteq {"consecutive_failure", "max_failures_reached"}
    BY DEF Notification
  <2>3. notes' \in [Transfers -> SUBSET {"consecutive_failure", "max_failures_reached"}]
    BY <1>0, <1>9, <2>2 DEF Notify, TypeOK
  <2> QED BY <1>9, <2>1, <2>3 DEF Notify, TypeOK, tickVars, envVars, histVars
<1>10. ASSUME Release(w) PROVE TypeOK'
  <2>1. pc' \in [Workers -> PC]
    BY <1>10, GotoType DEF Release, PC, AfterItem
  <2>2. Released(i, w) \in Lease
    BY <1>0 DEF Released, NoLease, Lease, TypeOK
  <2>3. /\ cur' \in [Workers -> Snapshot] /\ nonce' \in [Workers -> Nat]
        /\ outcome' \in [Workers -> {"success", "failed"}]
        /\ expiresAt' \in [Workers -> Int]
    BY <1>10, ForgetType DEF Release
  <2> QED BY <1>10, <2>1, <2>2, <2>3 DEF Release, TypeOK, envVars, histVars
<1> QED
  BY <1>1, <1>2, <1>3, <1>4, <1>5, <1>6, <1>7, <1>8, <1>9, <1>10 DEF WorkerStep

\* A failure, a restart or the passing of time keeps the types.
LEMMA EnvType ==
  ASSUME TypeOK, Tick \/ \E w \in Workers : DbError(w) \/ Crash(w) \/ Restart(w)
  PROVE  TypeOK'
<1>1. ASSUME NEW w \in Workers, DbError(w) PROVE TypeOK'
  <2>1. /\ row' \in [Transfers -> Row] /\ lease' \in [Transfers -> Lease]
        /\ executions' \in [Transfers -> Seq({"success", "failed"})]
        /\ usedNonces' \in [SessionKeys -> SUBSET Nat]
        /\ notes' \in [Transfers -> SUBSET {"consecutive_failure", "max_failures_reached"}]
    BY <1>1, DbErrorTables
  <2>2. dbErrors' = dbErrors + 1 /\ UNCHANGED <<requests, clock, crashes, histVars>>
    BY <1>1, DbErrorShape
  <2>3. CASE tickNow' = [tickNow EXCEPT ![w] = clock]
             /\ UNCHANGED <<pc, due, cur, nonce, outcome, expiresAt>>
    BY <2>1, <2>2, <2>3 DEF TypeOK, histVars
  <2>4. CASE AbandonTick(w)
    <3>1. /\ cur' \in [Workers -> Snapshot] /\ nonce' \in [Workers -> Nat]
          /\ outcome' \in [Workers -> {"success", "failed"}]
          /\ expiresAt' \in [Workers -> Int]
      BY <2>4, ForgetType DEF AbandonTick
    <3>2. pc' \in [Workers -> PC] /\ due' \in [Workers -> SUBSET Snapshot]
      BY <2>4 DEF AbandonTick, TypeOK, PC
    <3> QED BY <2>1, <2>2, <2>4, <3>1, <3>2 DEF AbandonTick, TypeOK, histVars
  <2>5. CASE SkipToRelease(w)
    BY <2>1, <2>2, <2>5 DEF SkipToRelease, TypeOK, tickVars, histVars, PC
  <2> QED BY <1>1, <2>3, <2>4, <2>5, DbErrorShape
<1>2. ASSUME NEW w \in Workers, Crash(w) PROVE TypeOK'
  <2>1. /\ cur' \in [Workers -> Snapshot] /\ nonce' \in [Workers -> Nat]
        /\ outcome' \in [Workers -> {"success", "failed"}]
        /\ expiresAt' \in [Workers -> Int]
    BY <1>2, ForgetType DEF Crash
  <2>2. ASSUME NEW t \in Transfers PROVE [lease[t] EXCEPT !.worker = Gone] \in Lease
    BY ExceptType DEF TypeOK
  <2>3. lease' \in [Transfers -> Lease]
    BY <1>2, <2>2 DEF Crash, TypeOK
  <2>4. pc' \in [Workers -> PC] /\ due' \in [Workers -> SUBSET Snapshot]
    BY <1>2 DEF Crash, TypeOK, PC
  <2>5. /\ crashes' = crashes + 1
        /\ UNCHANGED <<row, executions, usedNonces, notes, tickNow, requests, clock,
                       dbErrors, histVars>>
    BY <1>2 DEF Crash
  <2> QED BY <2>1, <2>3, <2>4, <2>5 DEF TypeOK, histVars
<1>3. ASSUME NEW w \in Workers, Restart(w) PROVE TypeOK'
  BY <1>3, GotoType DEF Restart, TypeOK, dbVars, tickVars, envVars, histVars, PC
<1>4. ASSUME Tick PROVE TypeOK'
  BY <1>4 DEF Tick, TypeOK, dbVars, tickVars, histVars
<1> QED BY <1>1, <1>2, <1>3, <1>4

\* Every step keeps the types.
LEMMA NextType == TypeOK /\ [Next]_vars => TypeOK'
<1>1. ASSUME TypeOK, UNCHANGED vars PROVE TypeOK'
  BY <1>1 DEF TypeOK, vars, dbVars, tickVars, envVars, histVars
<1> QED BY <1>1, ApiType, WorkerType, EnvType DEF Next

\* Whatever the instances, crashes and failing queries do, the tables and the
\* locals of a tick hold values of their declared types
\* (PgScheduledTransferStore's rows, processDueTransfers' locals).
THEOREM TypeCorrect == Spec => []TypeOK
<1>1. Init => TypeOK
  BY InitType
<1>2. TypeOK /\ [Next]_vars => TypeOK'
  BY NextType
<1> QED BY <1>1, <1>2, PTL DEF Spec

-----------------------------------------------------------------------------
\* A tick's step keeps the lease of every execution within its deadline.
LEMMA WorkerKeepsLease ==
  ASSUME TypeOK, LeaseHeld, NEW w \in Workers, WorkerStep(w)
  PROVE  LeaseHeld'
<1> SUFFICES ASSUME NEW x \in Workers, pc'[x] \in Holding, clock' <= expiresAt'[x]
             PROVE  lease'[cur'[x].id] = [worker |-> x, expires |-> expiresAt'[x]]
  BY DEF LeaseHeld
<1>0. /\ cur[w].id \in Transfers /\ cur[x].id \in Transfers
      /\ clock \in Nat /\ expiresAt[x] \in Int
  BY LocalsType DEF TypeOK
<1>1. ASSUME UNCHANGED <<lease, cur, expiresAt, clock>>, pc[x] \in Holding
      PROVE  lease'[cur'[x].id] = [worker |-> x, expires |-> expiresAt'[x]]
  BY <1>1 DEF LeaseHeld
<1>2. ASSUME StartTick(w)
      PROVE  lease'[cur'[x].id] = [worker |-> x, expires |-> expiresAt'[x]]
  <2>1. pc[x] \in Holding
    BY <1>2 DEF StartTick, Goto, Holding, TypeOK
  <2> QED BY <1>1, <1>2, <2>1 DEF StartTick, dbVars, envVars
<1>3. ASSUME TryAcquire(w)
      PROVE  lease'[cur'[x].id] = [worker |-> x, expires |-> expiresAt'[x]]
  <2>1. PICK s \in NextDue(w) :
          IF LeaseFree(s.id)
          THEN /\ lease' = [lease EXCEPT ![s.id] =
                              [worker |-> w, expires |-> clock + LeaseTTL]]
               /\ expiresAt' = [expiresAt EXCEPT ![w] = clock + LeaseTTL]
               /\ cur' = [cur EXCEPT ![w] = s]
               /\ Goto(w, "acquire", "count")
          ELSE /\ Goto(w, "acquire", AfterItem(due[w] \ {s}))
               /\ UNCHANGED <<lease, expiresAt, cur>>
    BY <1>3 DEF TryAcquire
  <2>2. s.id \in Transfers /\ clock' = clock
    BY <1>3 DEF NextDue, TypeOK, Snapshot, TryAcquire, envVars
  <2>3. CASE LeaseFree(s.id) /\ x = w
    BY <2>1, <2>2, <2>3 DEF TypeOK
  <2>4. CASE LeaseFree(s.id) /\ x # w
    <3>1. pc[x] \in Holding /\ cur'[x] = cur[x] /\ expiresAt'[x] = expiresAt[x]
      BY <2>1, <2>4 DEF TypeOK, Goto
    <3>2. lease[cur[x].id] = [worker |-> x, expires |-> expiresAt[x]]
      BY <2>2, <3>1 DEF LeaseHeld
    <3>3. cur[x].id # s.id
      BY <1>0, <2>2, <2>4, <3>1, <3>2 DEF LeaseFree, NoLease
    <3> QED BY <2>1, <2>2, <2>4, <3>1, <3>2, <3>3, <1>0 DEF TypeOK
  <2>5. CASE ~LeaseFree(s.id)
    <3>1. pc[x] \in Holding
      BY <2>1, <2>5 DEF TypeOK, Goto, AfterItem, Holding
    <3> QED BY <1>1, <2>1, <2>2, <2>5, <3>1
  <2> QED BY <2>3, <2>4, <2>5
<1>4. ASSUME \/ CountExecutions(w) \/ ValidateRelay(w) \/ TrackNonce(w)
             \/ Submit(w) \/ AppendExecution(w) \/ UpdateAfterExecution(w) \/ Notify(w)
      PROVE  lease'[cur'[x].id] = [worker |-> x, expires |-> expiresAt'[x]]
  <2> USE DEF CountExecutions, ValidateRelay, TrackNonce, Submit, AppendExecution,
              UpdateAfterExecution, Notify
  <2>1. pc[w] \in Holding
    BY <1>4 DEF Goto, Holding
  <2>2. pc[x] \in Holding
    BY <1>4, <2>1 DEF Goto, TypeOK
  <2>3. UNCHANGED <<lease, cur, expiresAt, clock>>
    BY <1>4 DEF dbVars, tickVars, envVars
  <2> QED BY <1>1, <2>2, <2>3
<1>5. ASSUME Release(w)
      PROVE  lease'[cur'[x].id] = [worker |-> x, expires |-> expiresAt'[x]]
  <2>1. x # w /\ pc[x] \in Holding
    BY <1>5 DEF Release, Goto, AfterItem, Holding, TypeOK
  <2>2. cur'[x] = cur[x] /\ expiresAt'[x] = expiresAt[x] /\ clock' = clock
    BY <1>5, <2>1 DEF Release, ForgetLocals, TypeOK, envVars
  <2>3. lease[cur[x].id] = [worker |-> x, expires |-> expiresAt[x]]
    BY <2>1, <2>2 DEF LeaseHeld
  <2>4. lease' = [lease EXCEPT ![cur[w].id] = Released(cur[w].id, w)]
    BY <1>5 DEF Release
  <2>5. cur[x].id = cur[w].id => Released(cur[w].id, w) = lease[cur[x].id]
    BY <2>1, <2>3 DEF Released
  <2> QED BY <1>0, <2>2, <2>3, <2>4, <2>5 DEF TypeOK
<1> QED BY <1>2, <1>3, <1>4, <1>5 DEF WorkerStep

\* So does every step.
LEMMA NextKeepsLease == TypeOK /\ LeaseHeld /\ [Next]_vars => LeaseHeld'
<1> SUFFICES ASSUME TypeOK, LeaseHeld, [Next]_vars PROVE LeaseHeld'
  OBVIOUS
<1>1. ASSUME UNCHANGED <<lease, cur, expiresAt, clock, pc>> PROVE LeaseHeld'
  BY <1>1 DEF LeaseHeld
<1>2. ASSUME NEW t \in Transfers, Create(t) \/ PauseRead(t) \/ CancelRead(t)
      PROVE  LeaseHeld'
  BY <1>1, <1>2 DEF Create, PauseRead, CancelRead, dbVars, tickVars, envVars
<1>3. ASSUME NEW r \in requests, UpdateStatus(r) PROVE LeaseHeld'
  BY <1>1, <1>3 DEF UpdateStatus, tickVars
<1>4. ASSUME NEW w \in Workers, DbError(w) PROVE LeaseHeld'
  <2> SUFFICES ASSUME NEW x \in Workers, pc'[x] \in Holding, clock' <= expiresAt'[x]
               PROVE  lease'[cur'[x].id] = [worker |-> x, expires |-> expiresAt'[x]]
    BY DEF LeaseHeld
  <2>0. clock' = clock /\ cur[x].id \in Transfers /\ cur[w].id \in Transfers
    BY <1>4, DbErrorShape, LocalsType
  <2>1. CASE UNCHANGED <<lease, pc, cur, expiresAt>>
    BY <2>0, <2>1 DEF LeaseHeld
  <2>2. CASE AbandonTick(w)
    <3>1. x # w /\ pc[x] \in Holding
      BY <2>2 DEF AbandonTick, TypeOK, Holding
    <3>2. cur'[x] = cur[x] /\ expiresAt'[x] = expiresAt[x]
      BY <2>2, <3>1 DEF AbandonTick, ForgetLocals, TypeOK
    <3>3. lease[cur[x].id] = [worker |-> x, expires |-> expiresAt[x]]
      BY <2>0, <3>1, <3>2 DEF LeaseHeld
    <3>4. CASE UNCHANGED lease
      BY <3>2, <3>3, <3>4
    <3>5. ASSUME NEW s \in NextDue(w), LeaseFree(s.id),
                 lease' = [lease EXCEPT ![s.id] = [worker |-> w, expires |-> clock + LeaseTTL]]
          PROVE  lease'[cur'[x].id] = [worker |-> x, expires |-> expiresAt'[x]]
      <4>1. clock \in Nat /\ expiresAt[x] \in Int /\ clock <= expiresAt[x]
        BY <2>0, <3>2, LocalsType DEF TypeOK
      <4>2. cur[x].id # s.id
        BY <3>3, <3>5, <4>1 DEF LeaseFree, NoLease
      <4> QED BY <2>0, <3>2, <3>3, <3>5, <4>2 DEF TypeOK
    <3>6. CASE lease' = [lease EXCEPT ![cur[w].id] = Released(cur[w].id, w)]
      <4>1. cur[x].id = cur[w].id => Released(cur[w].id, w) = lease[cur[x].id]
        BY <3>1, <3>3 DEF Released
      <4> QED BY <2>0, <3>2, <3>3, <3>6, <4>1 DEF TypeOK
    <3> QED BY <1>4, <3>4, <3>5, <3>6, DbErrorWrites
  <2>3. CASE /\ pc[w] \in {"count", "track", "append", "update", "notify"}
             /\ SkipToRelease(w) /\ UNCHANGED lease
    <3>1. pc[x] \in Holding
      BY <2>3 DEF SkipToRelease, TypeOK, Holding
    <3> QED BY <2>0, <2>3, <3>1 DEF LeaseHeld, SkipToRelease, tickVars
  <2> QED BY <1>4, <2>1, <2>2, <2>3, DbErrorShape DEF dbVars
<1>5. ASSUME NEW w \in Workers, Crash(w) PROVE LeaseHeld'
  <2> SUFFICES ASSUME NEW x \in Workers, pc'[x] \in Holding, clock' <= expiresAt'[x]
               PROVE  lease'[cur'[x].id] = [worker |-> x, expires |-> expiresAt'[x]]
    BY DEF LeaseHeld
  <2>1. x # w /\ pc[x] \in Holding
    BY <1>5 DEF Crash, TypeOK, Holding
  <2>2. cur'[x] = cur[x] /\ expiresAt'[x] = expiresAt[x] /\ clock' = clock
    BY <1>5, <2>1 DEF Crash, ForgetLocals, TypeOK
  <2>3. lease[cur[x].id] = [worker |-> x, expires |-> expiresAt[x]]
    BY <2>1, <2>2 DEF LeaseHeld
  <2>4. lease'[cur[x].id] = lease[cur[x].id]
    BY <1>5, <2>1, <2>3, LocalsType DEF Crash
  <2> QED BY <2>2, <2>3, <2>4
<1>6. ASSUME NEW w \in Workers, Restart(w) PROVE LeaseHeld'
  BY <1>6 DEF Restart, Goto, LeaseHeld, TypeOK, Holding, dbVars, tickVars, envVars
<1>7. ASSUME Tick PROVE LeaseHeld'
  <2>1. UNCHANGED <<lease, cur, expiresAt, pc>> /\ clock' = clock + 1
    BY <1>7 DEF Tick, dbVars, tickVars
  <2>2. clock \in Nat /\ \A w \in Workers : expiresAt[w] \in Int
    BY DEF TypeOK
  <2> QED BY <2>1, <2>2 DEF LeaseHeld
<1>8. ASSUME UNCHANGED vars PROVE LeaseHeld'
  BY <1>1, <1>8 DEF vars, dbVars, tickVars, envVars
<1> QED BY <1>2, <1>3, <1>4, <1>5, <1>6, <1>7, <1>8, WorkerKeepsLease DEF Next

\* For any number of instances and transfers and any lease length, an instance
\* within its deadline owns the lease row it wrote (tryAcquireLease,
\* releaseLease): takeovers wait for the expiry, late releases delete nothing.
THEOREM LeasesHeld == Spec => []LeaseHeld
<1>1. Init => LeaseHeld
  BY DEF Init, LeaseHeld, Holding
<1>2. TypeOK /\ LeaseHeld /\ [Next]_vars => LeaseHeld'
  BY NextKeepsLease
<1> QED BY <1>1, <1>2, TypeCorrect, PTL DEF Spec

\* Two instances execute one transfer at once only if one has outlived the
\* lease it took (processDueTransfers).
THEOREM LeasesExclude == Spec => []LeaseMutex
<1>1. LeaseHeld /\ TypeOK => LeaseMutex
  <2> SUFFICES ASSUME LeaseHeld, TypeOK, NEW x \in Workers, NEW y \in Workers, x # y,
                      NEW t \in Transfers, Holds(x, t), Holds(y, t),
                      ~(clock > expiresAt[x]), ~(clock > expiresAt[y])
               PROVE  FALSE
    BY DEF LeaseMutex
  <2>1. clock <= expiresAt[x] /\ clock <= expiresAt[y]
    BY LocalsType DEF TypeOK
  <2>2. /\ lease[t] = [worker |-> x, expires |-> expiresAt[x]]
        /\ lease[t] = [worker |-> y, expires |-> expiresAt[y]]
    BY <2>1 DEF LeaseHeld, Holds
  <2> QED BY <2>2
<1> QED BY <1>1, LeasesHeld, TypeCorrect, PTL

\* Only its owner changes an unexpired lease (releaseLease's WHERE worker_id,
\* tryAcquireLease's WHERE lease_expires_at).
THEOREM LeasesRespected == Spec => LeaseRespected
<1> DEFINE Kept == \A w \in Workers, t \in Transfers :
       lease[t].worker = w /\ clock <= lease[t].expires /\ lease'[t] # lease[t]
         => pc'[w] # pc[w]
<1>1. ASSUME TypeOK, [Next]_vars, NEW w \in Workers, NEW t \in Transfers,
             lease[t].worker = w, clock <= lease[t].expires, lease'[t] # lease[t]
      PROVE  pc'[w] # pc[w]
  <2>0. pc \in [Workers -> PC]
    BY <1>1 DEF TypeOK
  <2>1. ASSUME NEW x \in Workers, TryAcquire(x) PROVE FALSE
    <3>1. PICK s \in NextDue(x) :
            \/ LeaseFree(s.id) /\ lease' = [lease EXCEPT ![s.id] =
                               [worker |-> x, expires |-> clock + LeaseTTL]]
            \/ UNCHANGED lease
      BY <2>1 DEF TryAcquire
    <3>2. s.id = t /\ LeaseFree(t)
      BY <1>1, <3>1 DEF TypeOK
    <3> QED BY <1>1, <3>2 DEF LeaseFree, NoLease, TypeOK, Lease
  <2>2. ASSUME NEW x \in Workers, Release(x) PROVE pc'[w] # pc[w]
    <3>1. cur[x].id = t /\ Released(t, x) # lease[t]
      BY <1>1, <2>2 DEF Release, TypeOK
    <3>2. x = w
      BY <1>1, <3>1 DEF Released
    <3>3. /\ pc[x] = "release"
          /\ pc' = [pc EXCEPT ![x] = "idle"] \/ pc' = [pc EXCEPT ![x] = "acquire"]
      BY <2>2 DEF Release, Goto, AfterItem
    <3> QED BY <2>0, <3>2, <3>3
  <2>3. ASSUME NEW x \in Workers, Crash(x) PROVE pc'[w] # pc[w]
    <3>1. x = w
      BY <1>1, <2>3 DEF Crash
    <3>2. pc[x] # "down" /\ pc' = [pc EXCEPT ![x] = "down"]
      BY <2>3 DEF Crash
    <3> QED BY <2>0, <3>1, <3>2
  <2>a. ASSUME NEW x \in Workers, DbError(x), ~UNCHANGED lease PROVE pc'[w] # pc[w]
    <3>1. ASSUME NEW s \in NextDue(x), LeaseFree(s.id),
                 lease' = [lease EXCEPT ![s.id] = [worker |-> x, expires |-> clock + LeaseTTL]]
          PROVE  FALSE
      <4>1. s.id = t /\ LeaseFree(t)
        BY <1>1, <3>1 DEF TypeOK
      <4> QED BY <1>1, <4>1 DEF LeaseFree, NoLease, TypeOK, Lease
    <3>2. pc[x] = "release" /\ lease' = [lease EXCEPT ![cur[x].id] = Released(cur[x].id, x)]
      BY <2>a, <3>1, DbErrorWrites
    <3>3. cur[x].id = t /\ Released(t, x) # lease[t]
      BY <1>1, <3>2 DEF TypeOK
    <3>4. x = w
      BY <1>1, <3>3 DEF Released
    <3>5. pc' = [pc EXCEPT ![x] = "idle"]
      BY <2>a, <3>2, DbErrorShape DEF AbandonTick
    <3> QED BY <2>0, <3>2, <3>4, <3>5
  <2>4. CASE UNCHANGED lease
    BY <1>1, <2>4
  <2>5. \/ UNCHANGED lease
        \/ \E x \in Workers : TryAcquire(x) \/ Release(x) \/ Crash(x) \/ DbError(x)
    BY <1>1 DEF Next, WorkerStep, Create, PauseRead, CancelRead, UpdateStatus,
         StartTick, CountExecutions, ValidateRelay, TrackNonce, Submit,
         AppendExecution, UpdateAfterExecution, Notify, Restart, Tick, vars, dbVars
  <2> QED BY <2>1, <2>2, <2>3, <2>a, <2>4, <2>5
<1>2. TypeOK /\ [Next]_vars => [Kept]_vars
  BY <1>1
<1> QED BY <1>2, TypeCorrect, PTL DEF Spec, LeaseRespected

-----------------------------------------------------------------------------
\* What a step leaves alone.

\* An instance's step is about its own locals.
LEMMA OthersKeepLocals ==
  ASSUME TypeOK, NEW w \in Workers, WorkerStep(w) \/ DbError(w) \/ Crash(w) \/ Restart(w),
         NEW x \in Workers, x # w
  PROVE  /\ pc'[x] = pc[x] /\ tickNow'[x] = tickNow[x] /\ due'[x] = due[x]
         /\ cur'[x] = cur[x] /\ nonce'[x] = nonce[x] /\ outcome'[x] = outcome[x]
         /\ expiresAt'[x] = expiresAt[x]
<1> USE DEF TypeOK
<1>1. ASSUME StartTick(w) \/ TryAcquire(w) \/ CountExecutions(w) \/ ValidateRelay(w)
             \/ TrackNonce(w) \/ Submit(w)
      PROVE  /\ pc'[x] = pc[x] /\ tickNow'[x] = tickNow[x] /\ due'[x] = due[x]
             /\ cur'[x] = cur[x] /\ nonce'[x] = nonce[x] /\ outcome'[x] = outcome[x]
             /\ expiresAt'[x] = expiresAt[x]
  <2>1. CASE StartTick(w)
    BY <2>1 DEF StartTick, Goto, tickVars
  <2>2. CASE TryAcquire(w)
    BY <2>2 DEF TryAcquire, Goto, tickVars
  <2>3. CASE CountExecutions(w)
    BY <2>3 DEF CountExecutions, Goto, tickVars
  <2>4. CASE ValidateRelay(w) \/ TrackNonce(w) \/ Submit(w)
    BY <2>4 DEF ValidateRelay, TrackNonce, Submit, Goto, tickVars
  <2> QED BY <1>1, <2>1, <2>2, <2>3, <2>4
<1>2. ASSUME AppendExecution(w) \/ UpdateAfterExecution(w) \/ Notify(w) \/ Release(w)
             \/ Restart(w)
      PROVE  /\ pc'[x] = pc[x] /\ tickNow'[x] = tickNow[x] /\ due'[x] = due[x]
             /\ cur'[x] = cur[x] /\ nonce'[x] = nonce[x] /\ outcome'[x] = outcome[x]
             /\ expiresAt'[x] = expiresAt[x]
  BY <1>2 DEF AppendExecution, UpdateAfterExecution, Notify, Release, Restart, ForgetLocals,
       Goto, tickVars
<1>3. ASSUME DbError(w) \/ Crash(w)
      PROVE  /\ pc'[x] = pc[x] /\ tickNow'[x] = tickNow[x] /\ due'[x] = due[x]
             /\ cur'[x] = cur[x] /\ nonce'[x] = nonce[x] /\ outcome'[x] = outcome[x]
             /\ expiresAt'[x] = expiresAt[x]
  <2>1. CASE DbError(w)
    <3>1. CASE tickNow' = [tickNow EXCEPT ![w] = clock]
               /\ UNCHANGED <<pc, due, cur, nonce, outcome, expiresAt>>
      BY <3>1
    <3>2. CASE AbandonTick(w)
      BY <3>2 DEF AbandonTick, ForgetLocals
    <3>3. CASE SkipToRelease(w)
      BY <3>3 DEF SkipToRelease, tickVars
    <3> QED BY <2>1, <3>1, <3>2, <3>3, DbErrorShape
  <2>2. CASE Crash(w)
    BY <2>2 DEF Crash, ForgetLocals
  <2> QED BY <1>3, <2>1, <2>2
<1> QED BY <1>1, <1>2, <1>3 DEF WorkerStep

\* Everything but an instance's step keeps the locals of all instances.
LEMMA ApiKeepsLocals ==
  ASSUME \/ \E t \in Transfers : Create(t) \/ PauseRead(t) \/ CancelRead(t)
         \/ \E r \in requests : UpdateStatus(r)
         \/ Tick
  PROVE  UNCHANGED <<tickVars, pc>>
BY DEF Create, PauseRead, CancelRead, UpdateStatus, Tick

\* A step in which updateAfterExecution's UPDATE takes effect.
Updates(w) == RowWritten(w) /\ (UpdateAfterExecution(w) \/ DbError(w))

\* The steps that write rows.
LEMMA RowSteps ==
  ASSUME [Next]_vars
  PROVE  \/ UNCHANGED row
         \/ \E t \in Transfers : Create(t)
         \/ \E r \in requests : UpdateStatus(r)
         \/ \E w \in Workers : Updates(w)
<1>1. ASSUME NEW w \in Workers, UpdateAfterExecution(w) PROVE UNCHANGED row \/ RowWritten(w)
  BY <1>1 DEF UpdateAfterExecution, RowWritten, Goto
<1> QED BY <1>1, DbErrorWrites DEF Updates, Next, WorkerStep, PauseRead, CancelRead, StartTick,
      TryAcquire, CountExecutions, ValidateRelay, TrackNonce, Submit, AppendExecution,
      Notify, Release, Crash, Restart, Tick, vars, dbVars

\* A row is never deleted, and its key and frequency are those it was created with.
LEMMA RowsPersist ==
  ASSUME TypeOK, [Next]_vars, NEW t \in Transfers, Created(t)
  PROVE  Created(t)' /\ row'[t].key = row[t].key /\ row'[t].frequency = row[t].frequency
<1> USE DEF Created
<1>1. ASSUME UNCHANGED row
      PROVE  Created(t)' /\ row'[t].key = row[t].key /\ row'[t].frequency = row[t].frequency
  BY <1>1
<1>2. ASSUME NEW u \in Transfers, Create(u)
      PROVE  Created(t)' /\ row'[t].key = row[t].key /\ row'[t].frequency = row[t].frequency
  <2>1. u # t /\ row' = [row EXCEPT ![u] = row'[u]]
    BY <1>2 DEF Create, TypeOK
  <2> QED BY <2>1 DEF TypeOK
<1>3. ASSUME NEW r \in requests, UpdateStatus(r)
      PROVE  Created(t)' /\ row'[t].key = row[t].key /\ row'[t].frequency = row[t].frequency
  <2>1. row' = [row EXCEPT ![r.id].status = r.op] /\ r.op # "absent"
    BY <1>3 DEF UpdateStatus, TypeOK
  <2> QED BY <2>1 DEF TypeOK, Row
<1>4. ASSUME NEW w \in Workers, RowWritten(w)
      PROVE  Created(t)' /\ row'[t].key = row[t].key /\ row'[t].frequency = row[t].frequency
  <2>1. PICK p : /\ p.status \in CheckedStatuses
                 /\ row' = [row EXCEPT ![cur[w].id].status = p.status,
                                       ![cur[w].id].nextRunAt = p.nextRunAt,
                                       ![cur[w].id].failures = p.failures]
    BY <1>4 DEF RowWritten
  <2>2. \/ row'[t] = row[t]
        \/ row'[t] = [row[t] EXCEPT !.status = p.status, !.nextRunAt = p.nextRunAt,
                                    !.failures = p.failures]
    <3>1. t \in DOMAIN row
      BY DEF TypeOK
    <3>2. CASE cur[w].id = t
      BY <2>1, <3>1, <3>2
    <3>3. CASE cur[w].id # t
      BY <2>1, <3>1, <3>3
    <3> QED BY <3>2, <3>3
  <2>3. row[t] \in Row
    BY DEF TypeOK
  <2>4. CASE row'[t] = row[t]
    BY <2>4
  <2>5. CASE row'[t] = [row[t] EXCEPT !.status = p.status, !.nextRunAt = p.nextRunAt,
                                      !.failures = p.failures]
    <3>1. /\ row'[t].status = p.status /\ row'[t].key = row[t].key
          /\ row'[t].frequency = row[t].frequency
      BY <2>3, <2>5 DEF Row
    <3> QED BY <2>1, <3>1 DEF CheckedStatuses
  <2> QED BY <2>2, <2>4, <2>5
<1> QED BY <1>1, <1>2, <1>3, <1>4, RowSteps DEF Updates

\* Every instance that has polled has polled for good, and faults and overruns are
\* not undone: what the theorems below are conditional on held in the past, too.
LEMMA ConditionsShrink ==
  ASSUME TypeOK, [Next]_vars
  PROVE  /\ OneProcess' => OneProcess
         /\ KeysApart' => KeysApart
         /\ \A t \in Transfers : Created(t) /\ SoleUser(t)' => SoleUser(t)
         /\ ~overran' => ~overran
         /\ Undisturbed' => Undisturbed
<1>1. \A w \in Workers : tickNow[w] # -1 => tickNow'[w] # -1
  <2>1. UNCHANGED tickNow \/ \E w \in Workers : tickNow' = [tickNow EXCEPT ![w] = clock]
    BY DEF Next, WorkerStep, Create, PauseRead, CancelRead, UpdateStatus, StartTick,
         TryAcquire, CountExecutions, ValidateRelay, TrackNonce, Submit, AppendExecution,
         UpdateAfterExecution, Notify, Release, DbError, QueryFails, AnswerLost, AbandonTick,
         SkipToRelease, Crash, Restart, Tick, vars, tickVars
  <2> QED BY <2>1 DEF TypeOK
<1>2. \A t \in Transfers : Created(t) => Created(t)' /\ row'[t].key = row[t].key
  BY RowsPersist
<1>3. overran => overran'
  BY DEF Next, WorkerStep, Create, PauseRead, CancelRead, UpdateStatus, StartTick,
       TryAcquire, CountExecutions, ValidateRelay, TrackNonce, Submit, AppendExecution,
       UpdateAfterExecution, Notify, Release, DbError, Crash, Restart, Tick, vars, histVars
<1>4. /\ crashes' = crashes \/ crashes' = crashes + 1
      /\ dbErrors' = dbErrors \/ dbErrors' = dbErrors + 1
  BY DEF Next, WorkerStep, Create, PauseRead, CancelRead, UpdateStatus, StartTick,
       TryAcquire, CountExecutions, ValidateRelay, TrackNonce, Submit, AppendExecution,
       UpdateAfterExecution, Notify, Release, DbError, Crash, Restart, Tick, vars, envVars
<1>5. Undisturbed' => Undisturbed
  BY <1>4 DEF Undisturbed, TypeOK
<1>6. OneProcess' => OneProcess
  BY <1>1 DEF OneProcess
<1>7. \A t \in Transfers : Created(t) /\ SoleUser(t)' => SoleUser(t)
  BY <1>2 DEF SoleUser
<1>8. KeysApart' => KeysApart
  BY <1>2, <1>7 DEF KeysApart
<1> QED BY <1>3, <1>5, <1>6, <1>7, <1>8

\* What every patch executeTransfer writes has in common.
LEMMA PatchShape ==
  ASSUME NEW s \in Snapshot, NEW result \in {"success", "failed"}, NEW now \in Int,
         NEW p \in Patch(s, result, now)
  PROVE  /\ p.failures = FailuresAfter(s, result)
         /\ p.status \in {"active", "completed", "failed"}
         /\ p.status = "failed" => FailuresAfter(s, result) >= MaxFailures
         /\ s.row.frequency = Once => p.status = "completed"
<1> DEFINE n == FailuresAfter(s, result)
<1>1. s.row \in Row
  BY DEF Snapshot
<1>2. ASSUME NEW st, NEW at
      PROVE  /\ Patched(s, st, at, n).status = st
             /\ Patched(s, st, at, n).failures = n
  BY <1>1 DEF Patched, Row
<1> HIDE DEF n
<1>3. CASE result = "failed"
  BY <1>2, <1>3 DEF Patch, FailurePatch, n
<1>4. CASE result = "success"
  <2>1. s.row.frequency = Once => ComputeNextRunAt(now, s.row.frequency, s.row.endAt) = {}
    BY DEF ComputeNextRunAt
  <2>2. p \in SuccessPatch(s, n, now)
    BY <1>4 DEF Patch, n
  <2> QED BY <1>2, <2>1, <2>2 DEF SuccessPatch, n
<1> QED BY <1>3, <1>4

-----------------------------------------------------------------------------
\* A snapshot is of a row that exists, with the key and frequency it still has.
Faithful(s) ==
  Created(s.id) /\ s.row.key = row[s.id].key /\ s.row.frequency = row[s.id].frequency

\* The snapshots of a tick: one of each transfer, each executed at most once.
TickInv ==
  \A w \in Workers :
    /\ pc[w] \in {"idle", "down"} => due[w] = {}
    /\ pc[w] \notin {"idle", "down"} => tickNow[w] # -1
    /\ \A s \in due[w] : Faithful(s)
    /\ \A s, u \in due[w] : s.id = u.id => s = u
    /\ pc[w] \in Holding => Faithful(cur[w]) /\ \A s \in due[w] : s.id # cur[w].id

\* The snapshots of an instance that a step leaves alone stay as they were.
LEMMA TickInvOfOthers ==
  ASSUME TypeOK, TickInv, [Next]_vars, NEW x \in Workers, pc'[x] = pc[x],
         tickNow'[x] = tickNow[x], due'[x] = due[x], cur'[x] = cur[x]
  PROVE  /\ pc'[x] \in {"idle", "down"} => due'[x] = {}
         /\ pc'[x] \notin {"idle", "down"} => tickNow'[x] # -1
         /\ \A s \in due'[x] : Faithful(s)'
         /\ \A s, u \in due'[x] : s.id = u.id => s = u
         /\ pc'[x] \in Holding => Faithful(cur[x])' /\ \A s \in due'[x] : s.id # cur'[x].id
<1>1. \A s \in Snapshot : Faithful(s) => Faithful(s)'
  <2> SUFFICES ASSUME NEW s \in Snapshot, Faithful(s) PROVE Faithful(s)'
    OBVIOUS
  <2>1. s.id \in Transfers /\ Created(s.id)
    BY DEF Snapshot, Faithful
  <2>2. Created(s.id)' /\ row'[s.id].key = row[s.id].key /\ row'[s.id].frequency = row[s.id].frequency
    BY <2>1, RowsPersist
  <2> QED BY <2>2 DEF Faithful
<1>2. cur[x] \in Snapshot /\ due[x] \subseteq Snapshot
  BY DEF TypeOK
<1> QED BY <1>1, <1>2 DEF TickInv

\* A tick's step keeps its snapshots in order.
LEMMA WorkerKeepsTick ==
  ASSUME TypeOK, TickInv, NEW w \in Workers, WorkerStep(w)
  PROVE  TickInv'
<1> SUFFICES ASSUME NEW x \in Workers
             PROVE  /\ pc'[x] \in {"idle", "down"} => due'[x] = {}
                    /\ pc'[x] \notin {"idle", "down"} => tickNow'[x] # -1
                    /\ \A s \in due'[x] : Faithful(s)'
                    /\ \A s, u \in due'[x] : s.id = u.id => s = u
                    /\ pc'[x] \in Holding =>
                         Faithful(cur[x])' /\ \A s \in due'[x] : s.id # cur'[x].id
  BY DEF TickInv
<1>0. [Next]_vars
  BY DEF Next
<1> DEFINE Goal == /\ pc'[x] \in {"idle", "down"} => due'[x] = {}
                   /\ pc'[x] \notin {"idle", "down"} => tickNow'[x] # -1
                   /\ \A s \in due'[x] : Faithful(s)'
                   /\ \A s, u \in due'[x] : s.id = u.id => s = u
                   /\ pc'[x] \in Holding =>
                        Faithful(cur[x])' /\ \A s \in due'[x] : s.id # cur'[x].id
<1>1. CASE x # w
  BY <1>0, <1>1, OthersKeepLocals, TickInvOfOthers
<1>2. ASSUME x = w, StartTick(w) PROVE Goal
  <2>1. due'[w] = ListDue(clock) /\ tickNow'[w] = clock /\ clock # -1 /\ UNCHANGED <<row, cur>>
    BY <1>2 DEF StartTick, TypeOK, dbVars
  <2>2. /\ \A s \in ListDue(clock) : Faithful(s)
        /\ \A s, u \in ListDue(clock) : s.id = u.id => s = u
    BY DEF ListDue, Faithful, Created
  <2>3. pc'[w] = IF ListDue(clock) = {} THEN "idle" ELSE "acquire"
    BY <1>2 DEF StartTick, Goto, TypeOK
  <2>4. \A s : Faithful(s)' <=> Faithful(s)
    BY <2>1 DEF Faithful, Created
  <2> QED BY <1>2, <2>1, <2>2, <2>3, <2>4 DEF Holding
<1>3. ASSUME x = w, TryAcquire(w) PROVE Goal
  <2>1. PICK s \in NextDue(w) :
          /\ due' = [due EXCEPT ![w] = @ \ {s}]
          /\ \/ cur' = [cur EXCEPT ![w] = s] /\ Goto(w, "acquire", "count")
             \/ UNCHANGED cur /\ Goto(w, "acquire", AfterItem(due[w] \ {s}))
    BY <1>3 DEF TryAcquire
  <2>2. s \in due[w] /\ due'[w] = due[w] \ {s} /\ UNCHANGED <<row, tickNow>> /\ pc[w] = "acquire"
    BY <1>3, <2>1 DEF NextDue, TryAcquire, TypeOK, Goto
  <2>3. \A y : Faithful(y)' <=> Faithful(y)
    BY <2>2 DEF Faithful, Created
  <2>4. \/ cur'[w] = s /\ pc'[w] = "count"
        \/ pc'[w] = AfterItem(due[w] \ {s})
    BY <2>1 DEF TypeOK, Goto
  <2> QED BY <1>3, <2>2, <2>3, <2>4 DEF TickInv, Holding, AfterItem
<1>4. ASSUME x = w, CountExecutions(w) \/ ValidateRelay(w) \/ TrackNonce(w) \/ Submit(w)
                    \/ AppendExecution(w) \/ UpdateAfterExecution(w) \/ Notify(w)
      PROVE  Goal
  <2>1. pc[w] \in Holding /\ pc'[w] \in Holding /\ UNCHANGED <<due, cur, tickNow>>
    BY <1>4 DEF CountExecutions, ValidateRelay, TrackNonce, Submit, AppendExecution,
         UpdateAfterExecution, Notify, Goto, Holding, TypeOK, tickVars
  <2>2. \A s \in Snapshot : Faithful(s) => Faithful(s)'
    BY <1>0, RowsPersist DEF Faithful, Snapshot
  <2>3. cur[w] \in Snapshot /\ due[w] \subseteq Snapshot
    BY DEF TypeOK
  <2> QED BY <1>4, <2>1, <2>2, <2>3 DEF TickInv, Holding
<1>5. ASSUME x = w, Release(w) PROVE Goal
  <2>1. UNCHANGED <<due, row, tickNow>> /\ pc[w] = "release" /\ pc'[w] = AfterItem(due[w])
    BY <1>5 DEF Release, Goto, TypeOK
  <2>2. \A y : Faithful(y)' <=> Faithful(y)
    BY <2>1 DEF Faithful, Created
  <2> QED BY <1>5, <2>1, <2>2 DEF TickInv, Holding, AfterItem
<1> QED BY <1>1, <1>2, <1>3, <1>4, <1>5 DEF WorkerStep

\* So does every step.
LEMMA NextKeepsTick == TypeOK /\ TickInv /\ [Next]_vars => TickInv'
<1> SUFFICES ASSUME TypeOK, TickInv, [Next]_vars PROVE TickInv'
  OBVIOUS
<1>1. ASSUME UNCHANGED <<tickVars, pc>> PROVE TickInv'
  BY <1>1, TickInvOfOthers DEF TickInv, tickVars
<1>2. ASSUME NEW w \in Workers, DbError(w) \/ Crash(w) \/ Restart(w) PROVE TickInv'
  <2> SUFFICES ASSUME NEW x \in Workers
               PROVE  /\ pc'[x] \in {"idle", "down"} => due'[x] = {}
                      /\ pc'[x] \notin {"idle", "down"} => tickNow'[x] # -1
                      /\ \A s \in due'[x] : Faithful(s)'
                      /\ \A s, u \in due'[x] : s.id = u.id => s = u
                      /\ pc'[x] \in Holding =>
                           Faithful(cur[x])' /\ \A s \in due'[x] : s.id # cur'[x].id
    BY DEF TickInv
  <2>0. \A s \in Snapshot : Faithful(s) => Faithful(s)'
    BY RowsPersist DEF Faithful, Snapshot
  <2>1. CASE x # w
    BY <1>2, <2>1, OthersKeepLocals, TickInvOfOthers
  <2>2. CASE x = w /\ due'[w] = {} /\ pc'[w] \in {"idle", "down"}
    BY <2>2 DEF Holding
  <2>3. CASE x = w /\ pc[w] \in Holding /\ pc'[w] = "release" /\ UNCHANGED tickVars
    BY <2>0, <2>3 DEF TickInv, Holding, tickVars, TypeOK
  <2>4. \/ due'[w] = {} /\ pc'[w] \in {"idle", "down"}
        \/ pc[w] \in Holding /\ pc'[w] = "release" /\ UNCHANGED tickVars
    <3>1. CASE DbError(w)
      BY <3>1, DbErrorShape DEF AbandonTick, SkipToRelease, TypeOK, TickInv, Holding
    <3>2. CASE Crash(w) \/ Restart(w)
      BY <3>2 DEF Crash, Restart, Goto, TypeOK, TickInv, tickVars
    <3> QED BY <1>2, <3>1, <3>2
  <2> QED BY <2>1, <2>2, <2>3, <2>4
<1>3. CASE UNCHANGED vars
  BY <1>1, <1>3 DEF vars
<1> QED BY <1>1, <1>2, <1>3, ApiKeepsLocals, WorkerKeepsTick DEF Next

LEMMA TickInvariant == Spec => []TickInv
<1>1. Init => TickInv
  BY DEF Init, TickInv, Holding
<1>2. TypeOK /\ TickInv /\ [Next]_vars => TickInv'
  BY NextKeepsTick
<1> QED BY <1>1, <1>2, TypeCorrect, PTL DEF Spec

-----------------------------------------------------------------------------
\* Once a transfer is stopped no tick knows of it, and requests only cancel it.
StoppedInv == \A t \in stopped : row[t].status = "cancelled" /\ Unobserved(t)

LEMMA NextKeepsStopped == TypeOK /\ TickInv /\ StoppedInv /\ [Next]_vars => StoppedInv'
<1> SUFFICES ASSUME TypeOK, TickInv, StoppedInv, [Next]_vars, NEW t \in stopped'
             PROVE  row'[t].status = "cancelled" /\ Unobserved(t)'
  BY DEF StoppedInv
<1> USE DEF TypeOK
<1>1. ASSUME NEW u \in Transfers, Create(u) \/ PauseRead(u) \/ CancelRead(u)
      PROVE  row'[t].status = "cancelled" /\ Unobserved(t)'
  <2>1. t \in stopped /\ row[t].status = "cancelled" /\ Unobserved(t) /\ UNCHANGED <<tickVars, pc>>
    BY <1>1 DEF Create, PauseRead, CancelRead, histVars, StoppedInv
  <2>2. row'[t] = row[t]
    BY <1>1, <2>1 DEF Create, PauseRead, CancelRead, dbVars
  <2>3. \A r \in requests' : r.id = t => r.op = "cancelled"
    BY <1>1, <2>1 DEF Create, PauseRead, CancelRead, Unobserved, envVars
  <2> QED BY <2>1, <2>2, <2>3 DEF Unobserved, Holds, tickVars
<1>2. ASSUME NEW r \in requests, UpdateStatus(r)
      PROVE  row'[t].status = "cancelled" /\ Unobserved(t)'
  <2>1. /\ requests' = requests \ {r} /\ row' = [row EXCEPT ![r.id].status = r.op]
        /\ UNCHANGED <<tickVars, pc>>
    BY <1>2 DEF UpdateStatus
  <2>2. Unobserved(t) /\ (row[t].status = "cancelled" \/ (t = r.id /\ r.op = "cancelled"))
    <3>1. CASE t \in stopped
      BY <3>1 DEF StoppedInv
    <3>2. CASE t \notin stopped
      BY <1>2, <3>2 DEF UpdateStatus, Unobserved, Holds
    <3> QED BY <3>1, <3>2
  <2>3. t \in Transfers /\ row[t] \in Row /\ r.id \in Transfers
    BY <1>2 DEF UpdateStatus
  <2>4. row'[t].status = "cancelled"
    BY <2>1, <2>2, <2>3 DEF Unobserved, Row
  <2> QED BY <2>1, <2>2, <2>4 DEF Unobserved, Holds, tickVars
<1>3. ASSUME NEW w \in Workers, WorkerStep(w)
      PROVE  row'[t].status = "cancelled" /\ Unobserved(t)'
  <2>1. t \in stopped /\ row[t].status = "cancelled" /\ Unobserved(t) /\ UNCHANGED requests
    BY <1>3 DEF WorkerStep, StartTick, TryAcquire, CountExecutions, ValidateRelay, TrackNonce,
         Submit, AppendExecution, UpdateAfterExecution, Notify, Release, histVars, envVars,
         StoppedInv
  <2>2. row'[t] = row[t]
    <3>1. CASE UpdateAfterExecution(w)
      <4>1. cur[w].id # t
        BY <2>1, <3>1 DEF UpdateAfterExecution, Unobserved, Holds, Holding
      <4>2. PICK p : \/ row' = [row EXCEPT ![cur[w].id].status = p.status,
                                          ![cur[w].id].nextRunAt = p.nextRunAt,
                                          ![cur[w].id].failures = p.failures]
                     \/ UNCHANGED row
        BY <3>1 DEF UpdateAfterExecution
      <4>3. t \in Transfers /\ cur[w].id \in Transfers
        BY <2>1 DEF Snapshot
      <4> QED BY <4>1, <4>2, <4>3
    <3>2. CASE ~UpdateAfterExecution(w)
      BY <1>3, <3>2 DEF WorkerStep, StartTick, TryAcquire, CountExecutions, ValidateRelay,
           TrackNonce, Submit, AppendExecution, Notify, Release, dbVars
    <3> QED BY <3>1, <3>2
  <2>3. ~Holds(w, t)' /\ \A s \in due'[w] : s.id # t
    <3>1. CASE StartTick(w)
      BY <2>1, <3>1 DEF StartTick, ListDue, Goto, Holds, Holding
    <3>2. CASE TryAcquire(w)
      <4>1. PICK s \in NextDue(w) :
              /\ due' = [due EXCEPT ![w] = @ \ {s}]
              /\ \/ cur' = [cur EXCEPT ![w] = s] /\ Goto(w, "acquire", "count")
                 \/ UNCHANGED cur /\ Goto(w, "acquire", AfterItem(due[w] \ {s}))
        BY <3>2 DEF TryAcquire
      <4> QED BY <2>1, <4>1 DEF Unobserved, NextDue, Goto, Holds, Holding, AfterItem
    <3>3. CASE Release(w)
      BY <2>1, <3>3 DEF Release, Goto, AfterItem, Holds, Holding, Unobserved
    <3>4. CASE CountExecutions(w) \/ ValidateRelay(w) \/ TrackNonce(w) \/ Submit(w)
               \/ AppendExecution(w) \/ UpdateAfterExecution(w) \/ Notify(w)
      <4>1. pc[w] \in Holding /\ UNCHANGED <<due, cur>>
        BY <3>4 DEF CountExecutions, ValidateRelay, TrackNonce, Submit, AppendExecution,
             UpdateAfterExecution, Notify, Goto, Holding, tickVars
      <4> QED BY <2>1, <4>1 DEF Unobserved, Holds
    <3> QED BY <1>3, <3>1, <3>2, <3>3, <3>4 DEF WorkerStep
  <2>4. \A x \in Workers : x # w => ~Holds(x, t)' /\ \A s \in due'[x] : s.id # t
    BY <1>3, <2>1, OthersKeepLocals DEF Unobserved, Holds
  <2> QED BY <2>1, <2>2, <2>3, <2>4 DEF Unobserved
<1>4. ASSUME NEW w \in Workers, DbError(w) \/ Crash(w) \/ Restart(w)
      PROVE  row'[t].status = "cancelled" /\ Unobserved(t)'
  <2>0. t \in stopped /\ row[t].status = "cancelled" /\ Unobserved(t) /\ UNCHANGED requests
    BY <1>4, DbErrorShape DEF Crash, Restart, histVars, envVars, StoppedInv
  <2>1. row'[t].status = "cancelled"
    <3>1. CASE UNCHANGED row
      BY <2>0, <3>1
    <3>2. CASE RowWritten(w)
      <4>1. cur[w].id # t /\ t \in Transfers /\ cur[w].id \in Transfers
        BY <2>0, <3>2 DEF RowWritten, Unobserved, Holds, Holding, Snapshot
      <4>2. PICK p : row' = [row EXCEPT ![cur[w].id].status = p.status,
                                        ![cur[w].id].nextRunAt = p.nextRunAt,
                                        ![cur[w].id].failures = p.failures]
        BY <3>2 DEF RowWritten
      <4> QED BY <2>0, <4>1, <4>2
    <3> QED BY <1>4, <3>1, <3>2, DbErrorWrites DEF Crash, Restart, dbVars
  <2>2. ~Holds(w, t)' /\ due'[w] \subseteq due[w]
    <3>1. CASE DbError(w)
      BY <2>0, <3>1, DbErrorShape DEF AbandonTick, SkipToRelease, Unobserved, Holds, Holding, tickVars
    <3>2. CASE Crash(w) \/ Restart(w)
      BY <3>2 DEF Crash, Restart, Goto, Holds, Holding, tickVars
    <3> QED BY <1>4, <3>1, <3>2
  <2>3. \A x \in Workers : x # w => ~Holds(x, t)' /\ due'[x] = due[x]
    BY <1>4, <2>0, OthersKeepLocals DEF Unobserved, Holds
  <2> QED BY <2>0, <2>1, <2>2, <2>3 DEF Unobserved
<1>5. CASE Tick \/ UNCHANGED vars
  BY <1>5 DEF Tick, vars, dbVars, envVars, tickVars, histVars, StoppedInv, Unobserved, Holds
<1> QED BY <1>1, <1>2, <1>3, <1>4, <1>5 DEF Next

\* A transfer that was cancelled while no tick had listed it stays cancelled, for
\* any number of instances and requests, any crashes, failing queries and late
\* executions (listDue's filter; cancel and updateAfterExecution write blindly).
THEOREM CancelledForGood == Spec => []CancelledIdleIsFinal
<1>1. Init => StoppedInv
  BY DEF Init, StoppedInv
<1>2. TypeOK /\ TickInv /\ StoppedInv /\ [Next]_vars => StoppedInv'
  BY NextKeepsStopped
<1>3. StoppedInv => CancelledIdleIsFinal
  BY DEF StoppedInv, CancelledIdleIsFinal
<1> QED BY <1>1, <1>2, <1>3, TypeCorrect, TickInvariant, PTL DEF Spec

-----------------------------------------------------------------------------
\* The locals of an instance change only in a step of its own.
LEMMA LocalsChange ==
  ASSUME TypeOK, [Next]_vars, NEW w \in Workers
  PROVE  \/ WorkerStep(w) \/ DbError(w) \/ Crash(w) \/ Restart(w)
         \/ /\ pc'[w] = pc[w] /\ tickNow'[w] = tickNow[w] /\ due'[w] = due[w]
            /\ cur'[w] = cur[w] /\ nonce'[w] = nonce[w] /\ outcome'[w] = outcome[w]
            /\ expiresAt'[w] = expiresAt[w]
<1>1. CASE UNCHANGED <<tickVars, pc>>
  BY <1>1 DEF tickVars
<1>2. CASE \E x \in Workers : WorkerStep(x) \/ DbError(x) \/ Crash(x) \/ Restart(x)
  BY <1>2, OthersKeepLocals
<1>3. UNCHANGED vars => UNCHANGED <<tickVars, pc>>
  BY DEF vars
<1> QED BY <1>1, <1>2, <1>3, ApiKeepsLocals DEF Next

\* How an instance gets to each step between the check of a nonce and the log.
LEMMA Arrivals ==
  ASSUME TypeOK, [Next]_vars, NEW w \in Workers
  PROVE  /\ pc'[w] = "count" => TryAcquire(w) \/ pc[w] = "count"
         /\ pc'[w] = "fresh" => CountExecutions(w) \/ pc[w] = "fresh"
         /\ pc'[w] = "track" => (ValidateRelay(w) /\ NonceFresh(w)) \/ pc[w] = "track"
         /\ pc'[w] = "submit" => TrackNonce(w) \/ pc[w] = "submit"
         /\ pc'[w] = "append" => ValidateRelay(w) \/ Submit(w) \/ pc[w] = "append"
         /\ pc'[w] = "update" => AppendExecution(w) \/ pc[w] = "update"
         /\ pc'[w] \in {"notify", "release"} =>
              \/ UpdateAfterExecution(w) \/ DbError(w)
              \/ pc[w] \in {"notify", "release"}
         /\ pc'[w] = pc[w] /\ pc[w] \in Holding =>
              /\ cur'[w] = cur[w] /\ nonce'[w] = nonce[w]
              /\ outcome'[w] = outcome[w] /\ expiresAt'[w] = expiresAt[w]
<1> USE DEF TypeOK, Goto, AfterItem, Holding
<1>1. CASE StartTick(w) \/ CountExecutions(w) \/ TrackNonce(w) \/ Submit(w)
  BY <1>1 DEF StartTick, CountExecutions, TrackNonce, Submit
<1>5. CASE TryAcquire(w)
  <2>1. PICK rest : \/ Goto(w, "acquire", "count")
                    \/ Goto(w, "acquire", AfterItem(rest))
    BY <1>5 DEF TryAcquire
  <2> QED BY <1>5, <2>1
<1>6. CASE ValidateRelay(w)
  BY <1>6 DEF ValidateRelay
<1>2. CASE AppendExecution(w) \/ Notify(w) \/ Release(w)
  BY <1>2 DEF AppendExecution, Notify, Release
<1>3. CASE UpdateAfterExecution(w)
  BY <1>3 DEF UpdateAfterExecution
<1>4. CASE DbError(w) \/ Crash(w) \/ Restart(w)
  BY <1>4, DbErrorShape DEF AbandonTick, SkipToRelease, Crash, Restart, tickVars
<1> QED BY <1>1, <1>2, <1>3, <1>4, <1>5, <1>6, LocalsChange DEF WorkerStep

\* An instance that has not overrun is within its deadline.
InTime == ~overran => \A w \in Workers : pc[w] \in Holding => clock <= expiresAt[w]

LEMMA NextKeepsInTime == TypeOK /\ InTime /\ [Next]_vars => InTime'
<1> SUFFICES ASSUME TypeOK, InTime, [Next]_vars, ~overran', NEW w \in Workers,
                    pc'[w] \in Holding
             PROVE  clock' <= expiresAt'[w]
  BY DEF InTime
<1>0. ~overran
  BY ConditionsShrink
<1>1. CASE Tick
  <2>1. ~(\E x \in Workers : pc[x] \in Holding /\ clock' > expiresAt[x])
    BY <1>1 DEF Tick
  <2>2. UNCHANGED <<pc, expiresAt>>
    BY <1>1 DEF Tick, tickVars
  <2>3. clock' \in Int /\ expiresAt[w] \in Int
    BY <1>1 DEF Tick, TypeOK
  <2> QED BY <2>1, <2>2, <2>3
<1>2. CASE TryAcquire(w)
  <2>1. pc'[w] = "count" => expiresAt'[w] = clock + LeaseTTL
    BY <1>2 DEF TryAcquire, Goto, AfterItem, TypeOK
  <2>2. pc'[w] = "count" /\ clock' = clock
    BY <1>2 DEF TryAcquire, Goto, AfterItem, TypeOK, Holding, envVars
  <2> QED BY <2>1, <2>2, SchedulerAssumption DEF TypeOK
<1>3. CASE ~Tick /\ ~TryAcquire(w)
  <2>1. clock' = clock
    BY <1>3 DEF Next, WorkerStep, Create, PauseRead, CancelRead, UpdateStatus, StartTick,
         TryAcquire, CountExecutions, ValidateRelay, TrackNonce, Submit, AppendExecution,
         UpdateAfterExecution, Notify, Release, DbError, Crash, Restart, vars, envVars
  <2>2. pc[w] \in Holding /\ expiresAt'[w] = expiresAt[w]
    <3>1. CASE WorkerStep(w)
      <4>1. CASE UpdateAfterExecution(w)
        BY <4>1 DEF UpdateAfterExecution, Goto, Holding, tickVars
      <4> QED BY <1>3, <3>1, <4>1 DEF WorkerStep, StartTick, CountExecutions, ValidateRelay,
               TrackNonce, Submit, AppendExecution, Notify, Release, Goto, AfterItem, Holding,
               TypeOK, tickVars
    <3>2. CASE DbError(w) \/ Crash(w) \/ Restart(w)
      BY <3>2, DbErrorShape DEF AbandonTick, SkipToRelease, Crash, Restart, Goto, Holding, TypeOK, tickVars
    <3> QED BY <3>1, <3>2, LocalsChange
  <2> QED BY <1>0, <2>1, <2>2 DEF InTime
<1> QED BY <1>1, <1>2, <1>3

LEMMA InTimeInvariant == Spec => []InTime
<1>1. Init => InTime
  BY DEF Init, InTime, Holding
<1>2. TypeOK /\ InTime /\ [Next]_vars => InTime'
  BY NextKeepsInTime
<1> QED BY <1>1, <1>2, TypeCorrect, PTL DEF Spec

\* What the invariants below build on.
BaseInv == TypeOK /\ LeaseMutex /\ TickInv /\ InTime

LEMMA BaseInvariant == Spec => []BaseInv
BY TypeCorrect, LeasesExclude, TickInvariant, InTimeInvariant, PTL DEF BaseInv

\* A single process, or executions within their leases: one executes a transfer.
LEMMA OneHolder ==
  ASSUME BaseInv, ~overran \/ OneProcess, NEW v \in Workers, NEW w \in Workers,
         pc[v] \in Holding, pc[w] \in Holding, cur[v].id = cur[w].id
  PROVE  v = w
<1>1. CASE OneProcess
  BY <1>1 DEF BaseInv, TickInv, OneProcess, Holding
<1>2. CASE ~overran
  <2>1. clock <= expiresAt[v] /\ clock <= expiresAt[w]
    BY <1>2 DEF BaseInv, InTime
  <2>2. expiresAt[v] \in Int /\ expiresAt[w] \in Int /\ clock \in Int /\ cur[v].id \in Transfers
    BY LocalsType DEF BaseInv, TypeOK
  <2> QED BY <2>1, <2>2 DEF BaseInv, LeaseMutex, Holds
<1> QED BY <1>1, <1>2

\* A nonce of a key is in the hands of one instance at a time.
Apart == (~overran /\ KeysApart) \/ OneProcess

LEMMA OneKeyHolder ==
  ASSUME BaseInv, Apart, NEW v \in Workers, NEW w \in Workers,
         pc[v] \in Holding, pc[w] \in Holding, cur[v].row.key = cur[w].row.key
  PROVE  v = w
<1>1. CASE OneProcess
  BY <1>1 DEF BaseInv, TickInv, OneProcess, Holding
<1>2. CASE ~overran /\ KeysApart
  <2>1. /\ Created(cur[v].id) /\ cur[v].row.key = row[cur[v].id].key
        /\ Created(cur[w].id) /\ cur[w].row.key = row[cur[w].id].key
    BY DEF BaseInv, TickInv, Faithful
  <2>2. cur[v].id \in Transfers /\ cur[w].id \in Transfers
    BY LocalsType DEF BaseInv
  <2>3. cur[v].id = cur[w].id
    BY <1>2, <2>1, <2>2 DEF KeysApart, SoleUser
  <2> QED BY <1>2, <2>3, OneHolder
<1> QED BY <1>1, <1>2 DEF Apart

-----------------------------------------------------------------------------
\* What was handed to the network is on record under the transfer's key, and what
\* is on record belongs to a transfer.
Recorded ==
  /\ \A t \in Transfers : \A i \in DOMAIN submitted[t] :
       submitted[t][i] \in usedNonces[row[t].key]
  /\ \A t \in Transfers : ~Created(t) => submitted[t] = << >>
  /\ \A w \in Workers : pc[w] = "submit" => nonce[w] \in usedNonces[cur[w].row.key]
  /\ \A k \in SessionKeys : usedNonces[k] # {} =>
       \E t \in Transfers : Created(t) /\ row[t].key = k

\* A step in which the INSERT of track takes effect.
Tracks(w) ==
  /\ pc[w] = "track" /\ UNCHANGED row
  /\ usedNonces' = [usedNonces EXCEPT ![cur[w].row.key] = @ \union {nonce[w]}]
  /\ TrackNonce(w) \/ DbError(w)

\* Which steps touch the used nonces and the history of submissions.
LEMMA NonceSteps ==
  ASSUME [Next]_vars
  PROVE  /\ UNCHANGED usedNonces \/ \E w \in Workers : Tracks(w)
         /\ UNCHANGED submitted \/ \E w \in Workers : Submit(w)
<1> USE DEF Next, WorkerStep, Create, PauseRead, CancelRead, UpdateStatus, StartTick,
       TryAcquire, CountExecutions, ValidateRelay, AppendExecution,
       UpdateAfterExecution, Notify, Release, Crash, Restart, Tick, vars
<1>1. ASSUME NEW w \in Workers, DbError(w) PROVE UNCHANGED usedNonces \/ Tracks(w)
  BY <1>1, DbErrorWrites DEF Tracks
<1>2. ASSUME NEW w \in Workers, TrackNonce(w) PROVE Tracks(w)
  BY <1>2 DEF TrackNonce, Tracks, Goto
<1>3. UNCHANGED usedNonces \/ \E w \in Workers : Tracks(w)
  BY <1>1, <1>2 DEF Submit, dbVars
<1>4. UNCHANGED submitted \/ \E w \in Workers : Submit(w)
  BY DEF TrackNonce, DbError, histVars
<1> QED BY <1>3, <1>4

\* The key of what an instance executes is that of its row, and a session key.
LEMMA CurKey ==
  ASSUME BaseInv, NEW w \in Workers, pc[w] \in Holding
  PROVE  /\ cur[w].id \in Transfers /\ Created(cur[w].id)
         /\ cur[w].row.key = row[cur[w].id].key /\ cur[w].row.key \in SessionKeys
         /\ nonce[w] \in Nat
<1>1. cur[w] \in Snapshot /\ cur[w].id \in Transfers /\ nonce[w] \in Nat
  BY LocalsType DEF BaseInv
<1>2. cur[w].row.key \in SessionKeys
  BY <1>1 DEF Snapshot, Row
<1> QED BY <1>1, <1>2 DEF BaseInv, TickInv, Faithful

LEMMA NextKeepsRecorded == BaseInv /\ Recorded /\ [Next]_vars => Recorded'
<1> SUFFICES ASSUME BaseInv, Recorded, [Next]_vars PROVE Recorded'
  OBVIOUS
<1>0. TypeOK
  BY DEF BaseInv
<1>1. \A t \in Transfers : Created(t) => Created(t)' /\ row'[t].key = row[t].key
  BY <1>0, RowsPersist
<1>2. \A k \in SessionKeys : usedNonces[k] \subseteq usedNonces'[k]
  BY <1>0, NonceSteps DEF Tracks, TypeOK
<1>3. \A t \in Transfers : row[t].key \in SessionKeys
  BY <1>0 DEF TypeOK, Row
<1>4. ASSUME NEW t \in Transfers, NEW i \in DOMAIN submitted'[t]
      PROVE  submitted'[t][i] \in usedNonces'[row'[t].key]
  <2>1. CASE i \in DOMAIN submitted[t] /\ submitted'[t][i] = submitted[t][i]
    <3>1. Created(t)
      BY <2>1 DEF Recorded
    <3> QED BY <1>1, <1>2, <1>3, <2>1, <3>1 DEF Recorded
  <2>2. ASSUME NEW w \in Workers, Submit(w) PROVE submitted'[t][i] \in usedNonces'[row'[t].key]
    <3>1. /\ pc[w] = "submit" /\ UNCHANGED <<usedNonces, row>>
          /\ submitted' = [submitted EXCEPT ![cur[w].id] = Append(@, nonce[w])]
      BY <2>2 DEF Submit, Goto, dbVars
    <3>2. nonce[w] \in usedNonces[cur[w].row.key] /\ cur[w].row.key = row[cur[w].id].key
      BY <3>1, CurKey DEF Recorded, Holding
    <3>3. submitted[t] \in Seq(Nat) /\ nonce[w] \in Nat
      BY <1>0, LocalsType DEF TypeOK
    <3>4. CASE t # cur[w].id
      BY <1>0, <2>1, <3>1, <3>4 DEF TypeOK
    <3>5. CASE t = cur[w].id
      <4>1. submitted'[t] = Append(submitted[t], nonce[w])
        BY <1>0, <3>1, <3>5 DEF TypeOK
      <4>2. \/ i \in DOMAIN submitted[t] /\ submitted'[t][i] = submitted[t][i]
            \/ submitted'[t][i] = nonce[w]
        BY <3>3, <4>1
      <4> QED BY <2>1, <3>1, <3>2, <3>5, <4>2
    <3> QED BY <3>4, <3>5
  <2> QED BY <2>1, <2>2, NonceSteps
<1>5. ASSUME NEW t \in Transfers, ~Created(t)' PROVE submitted'[t] = << >>
  <2>1. ~Created(t) /\ submitted[t] = << >>
    BY <1>1, <1>5 DEF Recorded
  <2>2. ASSUME NEW w \in Workers, Submit(w) PROVE cur[w].id # t
    BY <2>1, <2>2, CurKey DEF Submit, Goto, Holding
  <2>3. ASSUME NEW w \in Workers, Submit(w) PROVE submitted'[t] = << >>
    BY <1>0, <2>1, <2>2, <2>3 DEF Submit, TypeOK
  <2> QED BY <2>1, <2>3, NonceSteps
<1>6. ASSUME NEW w \in Workers, pc'[w] = "submit"
      PROVE  nonce'[w] \in usedNonces'[cur'[w].row.key]
  <2>1. CASE TrackNonce(w)
    BY <1>0, <2>1, CurKey DEF TrackNonce, Goto, Holding, tickVars, TypeOK
  <2>2. CASE pc[w] = "submit"
    <3>1. cur'[w] = cur[w] /\ nonce'[w] = nonce[w]
      BY <1>0, <1>6, <2>2, Arrivals DEF Holding
    <3>2. nonce[w] \in usedNonces[cur[w].row.key] /\ cur[w].row.key \in SessionKeys
      BY <2>2, CurKey DEF Recorded, Holding
    <3> QED BY <1>2, <3>1, <3>2
  <2> QED BY <1>0, <1>6, <2>1, <2>2, Arrivals
<1>7. ASSUME NEW k \in SessionKeys, usedNonces'[k] # {}
      PROVE  \E t \in Transfers : Created(t)' /\ row'[t].key = k
  <2>1. CASE usedNonces[k] # {}
    BY <1>1, <2>1 DEF Recorded
  <2>2. ASSUME NEW w \in Workers, Tracks(w), k = cur[w].row.key
        PROVE  \E t \in Transfers : Created(t)' /\ row'[t].key = k
    BY <1>1, <2>2, CurKey DEF Tracks, Holding
  <2> QED BY <1>0, <1>7, <2>1, <2>2, NonceSteps DEF Tracks, TypeOK
<1> QED BY <1>4, <1>5, <1>6, <1>7 DEF Recorded

\* Apart from what others submit, a nonce that passed the check is new until it is
\* submitted.
NewUntilSubmitted ==
  Apart =>
    /\ \A w \in Workers : pc[w] = "track" => NonceFresh(w)
    /\ \A w \in Workers : pc[w] = "submit" =>
         \A t \in Transfers : \A i \in DOMAIN submitted[t] :
           row[t].key = cur[w].row.key => submitted[t][i] # nonce[w]
    /\ NonceSubmittedOnce

LEMMA NextKeepsNew ==
  BaseInv /\ Recorded /\ NewUntilSubmitted /\ [Next]_vars => NewUntilSubmitted'
<1> SUFFICES ASSUME BaseInv, Recorded, NewUntilSubmitted, [Next]_vars, Apart'
             PROVE  /\ \A w \in Workers : pc'[w] = "track" => NonceFresh(w)'
                    /\ \A w \in Workers : pc'[w] = "submit" =>
                         \A t \in Transfers : \A i \in DOMAIN submitted'[t] :
                           row'[t].key = cur'[w].row.key => submitted'[t][i] # nonce'[w]
                    /\ NonceSubmittedOnce'
  BY DEF NewUntilSubmitted
<1>0. TypeOK
  BY DEF BaseInv
<1>1. Apart
  BY <1>0, ConditionsShrink DEF Apart
<1>2. \A t \in Transfers : Created(t) => row'[t].key = row[t].key
  BY <1>0, RowsPersist
<1>3. \A t \in Transfers : DOMAIN submitted[t] # {} => Created(t)
  BY DEF Recorded
<1>4. ASSUME NEW w \in Workers, pc'[w] = "track" PROVE NonceFresh(w)'
  <2>1. nonce[w] \notin usedNonces[cur[w].row.key] /\ UNCHANGED <<cur[w], nonce[w]>>
    <3>1. CASE ValidateRelay(w) /\ NonceFresh(w)
      BY <3>1 DEF ValidateRelay, NonceFresh
    <3>2. CASE pc[w] = "track"
      BY <1>0, <1>1, <1>4, <3>2, Arrivals DEF NewUntilSubmitted, NonceFresh, Holding
    <3> QED BY <1>0, <1>4, <3>1, <3>2, Arrivals
  <2>2. pc[w] \in Holding
    BY <1>0, <1>4, Arrivals DEF ValidateRelay, Goto, Holding
  <2>3. ASSUME NEW v \in Workers, Tracks(v) PROVE cur[v].row.key # cur[w].row.key
    <3>1. pc[v] = "track" /\ pc'[v] # "track"
      <4>1. CASE TrackNonce(v)
        BY <1>0, <4>1 DEF TrackNonce, Goto, TypeOK
      <4>2. CASE DbError(v)
        BY <1>0, <2>3, <4>2, DbErrorShape DEF Tracks, AbandonTick, SkipToRelease, TypeOK
      <4> QED BY <2>3, <4>1, <4>2 DEF Tracks
    <3> QED BY <1>1, <1>4, <2>2, <3>1, OneKeyHolder DEF Holding
  <2>4. usedNonces'[cur[w].row.key] = usedNonces[cur[w].row.key]
    <3>1. CASE UNCHANGED usedNonces
      BY <3>1
    <3>2. ASSUME NEW v \in Workers, Tracks(v)
          PROVE  usedNonces'[cur[w].row.key] = usedNonces[cur[w].row.key]
      <4>1. usedNonces' = [usedNonces EXCEPT ![cur[v].row.key] = @ \union {nonce[v]}]
        BY <3>2 DEF Tracks
      <4>2. cur[v].row.key # cur[w].row.key
        BY <2>3, <3>2
      <4>3. cur[w].row.key \in SessionKeys
        BY <2>2, CurKey
      <4> QED BY <1>0, <4>1, <4>2, <4>3 DEF TypeOK
    <3> QED BY <3>1, <3>2, NonceSteps
  <2> QED BY <2>1, <2>4 DEF NonceFresh
<1>5. ASSUME NEW w \in Workers, pc'[w] = "submit", NEW t \in Transfers,
             NEW i \in DOMAIN submitted'[t], row'[t].key = cur'[w].row.key
      PROVE  submitted'[t][i] # nonce'[w]
  <2>1. UNCHANGED <<cur[w], nonce[w]>> /\ pc[w] \in {"track", "submit"}
    <3>1. CASE TrackNonce(w)
      BY <3>1 DEF TrackNonce, Goto, tickVars
    <3>2. CASE pc[w] = "submit"
      BY <1>0, <1>5, <3>2, Arrivals DEF Holding
    <3> QED BY <1>0, <1>5, <3>1, <3>2, Arrivals
  <2>2. ASSUME NEW v \in Workers, Submit(v) PROVE cur[v].id # t
    <3>1. pc[v] = "submit" /\ pc'[v] = "append" /\ UNCHANGED row
      BY <1>0, <2>2 DEF Submit, Goto, TypeOK, dbVars
    <3>2. cur[v].row.key # cur[w].row.key
      BY <1>1, <1>5, <2>1, <3>1, OneKeyHolder DEF Holding
    <3> QED BY <1>5, <2>1, <3>1, <3>2, CurKey DEF Holding
  <2>3. submitted'[t] = submitted[t]
    BY <1>0, <2>2, NonceSteps DEF Submit, TypeOK
  <2>4. row[t].key = cur[w].row.key
    BY <1>2, <1>3, <1>5, <2>1, <2>3
  <2>5. CASE pc[w] = "submit"
    BY <1>1, <1>5, <2>1, <2>3, <2>4, <2>5 DEF NewUntilSubmitted
  <2>6. CASE pc[w] = "track"
    <3>1. nonce[w] \notin usedNonces[cur[w].row.key]
      BY <1>1, <2>6 DEF NewUntilSubmitted, NonceFresh
    <3> QED BY <1>5, <2>1, <2>3, <2>4, <3>1 DEF Recorded
  <2> QED BY <2>1, <2>5, <2>6
<1>6. NonceSubmittedOnce'
  <2> SUFFICES ASSUME NEW t \in Transfers, NEW u \in Transfers,
                      NEW i \in DOMAIN submitted'[t], NEW j \in DOMAIN submitted'[u],
                      row'[t].key = row'[u].key, <<t, i>> # <<u, j>>
               PROVE  submitted'[t][i] # submitted'[u][j]
    BY DEF NonceSubmittedOnce
  <2>1. CASE UNCHANGED submitted
    BY <1>1, <1>2, <1>3, <2>1 DEF NewUntilSubmitted, NonceSubmittedOnce
  <2>2. ASSUME NEW w \in Workers, Submit(w) PROVE submitted'[t][i] # submitted'[u][j]
    <3>1. /\ pc[w] = "submit" /\ UNCHANGED row
          /\ submitted' = [submitted EXCEPT ![cur[w].id] = Append(@, nonce[w])]
      BY <2>2 DEF Submit, Goto, dbVars
    <3>2. /\ cur[w].id \in Transfers /\ cur[w].row.key = row[cur[w].id].key
          /\ nonce[w] \in Nat
      BY <3>1, CurKey DEF Holding
    <3> DEFINE Old(x, m) == m \in DOMAIN submitted[x] /\ submitted'[x][m] = submitted[x][m]
               New(x, m) == x = cur[w].id /\ m = Len(submitted[x]) + 1 /\ submitted'[x][m] = nonce[w]
    <3>3. \A x \in Transfers : \A m \in DOMAIN submitted'[x] : Old(x, m) \/ New(x, m)
      <4> SUFFICES ASSUME NEW x \in Transfers, NEW m \in DOMAIN submitted'[x]
                   PROVE  Old(x, m) \/ New(x, m)
        OBVIOUS
      <4>1. submitted[x] \in Seq(Nat)
        BY <1>0 DEF TypeOK
      <4>2. CASE x # cur[w].id
        BY <1>0, <3>1, <4>2 DEF TypeOK
      <4>3. CASE x = cur[w].id
        <5>1. submitted'[x] = Append(submitted[x], nonce[w])
          BY <1>0, <3>1, <4>3 DEF TypeOK
        <5> QED BY <3>2, <4>1, <4>3, <5>1
      <4> QED BY <4>2, <4>3
    <3>4. \A x \in Transfers : \A m \in DOMAIN submitted[x] :
            row[x].key = cur[w].row.key => submitted[x][m] # nonce[w]
      BY <1>1, <3>1 DEF NewUntilSubmitted
    <3>5. CASE Old(t, i) /\ Old(u, j)
      BY <1>1, <3>1, <3>5 DEF NewUntilSubmitted, NonceSubmittedOnce
    <3>6. CASE Old(t, i) /\ New(u, j)
      BY <3>1, <3>2, <3>4, <3>6
    <3>7. CASE New(t, i) /\ Old(u, j)
      BY <3>1, <3>2, <3>4, <3>7
    <3>8. CASE New(t, i) /\ New(u, j)
      BY <3>8
    <3> QED BY <3>3, <3>5, <3>6, <3>7, <3>8
  <2> QED BY <2>1, <2>2, NonceSteps
<1> QED BY <1>4, <1>5, <1>6

LEMMA RecordedInvariant == Spec => [](Recorded /\ NewUntilSubmitted)
<1>1. Init => Recorded /\ NewUntilSubmitted
  BY DEF Init, Recorded, NewUntilSubmitted, NonceSubmittedOnce, Created
<1>2. BaseInv /\ Recorded /\ [Next]_vars => Recorded'
  BY NextKeepsRecorded
<1>3. BaseInv /\ Recorded /\ NewUntilSubmitted /\ [Next]_vars => NewUntilSubmitted'
  BY NextKeepsNew
<1> QED BY <1>1, <1>2, <1>3, BaseInvariant, PTL DEF Spec

-----------------------------------------------------------------------------
\* The instances about to log a success of t, and those about to log anything.
Successful(t) == {w \in Workers : pc[w] = "append" /\ cur[w].id = t /\ outcome[w] = "success"}
Appending(t) == {w \in Workers : pc[w] = "append" /\ cur[w].id = t}
Successes(L) == {i \in DOMAIN L : L[i] = "success"}

\* The log counts the submissions, with the instances about to append.
LogCounts ==
  \A t \in Transfers :
    /\ Cardinality(Successes(executions[t])) + Cardinality(Successful(t)) <= Len(submitted[t])
    /\ Len(submitted[t]) <= Len(executions[t]) + Cardinality(Appending(t)) + crashes + dbErrors

\* Appending an outcome adds a success or none.
LEMMA AppendSuccesses ==
  ASSUME NEW L \in Seq({"success", "failed"}), NEW o \in {"success", "failed"}
  PROVE  /\ IsFiniteSet(Successes(L)) /\ Cardinality(Successes(L)) \in Nat
         /\ Cardinality(Successes(Append(L, o))) =
              Cardinality(Successes(L)) + IF o = "success" THEN 1 ELSE 0
<1>1. IsFiniteSet(1..Len(L)) /\ Successes(L) \subseteq 1..Len(L)
  BY FS_Interval DEF Successes
<1>2. IsFiniteSet(Successes(L)) /\ Cardinality(Successes(L)) \in Nat
  BY <1>1, FS_Subset, FS_CardinalityType
<1>3. CASE o = "success"
  <2>1. Successes(Append(L, o)) = Successes(L) \union {Len(L) + 1}
    BY <1>3 DEF Successes
  <2>2. Len(L) + 1 \notin Successes(L)
    BY DEF Successes
  <2> QED BY <1>2, <1>3, <2>1, <2>2, FS_AddElement
<1>4. CASE o = "failed"
  <2>1. Successes(Append(L, o)) = Successes(L)
    BY <1>4 DEF Successes
  <2> QED BY <1>2, <1>4, <2>1
<1> QED BY <1>2, <1>3, <1>4

\* The sets of instances are finite.
LEMMA InstancesFinite ==
  ASSUME NEW t
  PROVE  /\ IsFiniteSet(Successful(t)) /\ IsFiniteSet(Appending(t))
         /\ Cardinality(Successful(t)) \in Nat /\ Cardinality(Appending(t)) \in Nat
<1>1. Successful(t) \subseteq Workers /\ Appending(t) \subseteq Workers
  BY DEF Successful, Appending
<1> QED BY <1>1, SchedulerAssumption, FS_Subset, FS_CardinalityType

\* Sets that differ in at most one element.
LEMMA DifferInOne ==
  ASSUME NEW S, NEW T, NEW w, IsFiniteSet(S), IsFiniteSet(T), S \ {w} = T \ {w}
  PROVE  Cardinality(T) + (IF w \in S THEN 1 ELSE 0) = Cardinality(S) + (IF w \in T THEN 1 ELSE 0)
<1>1. Cardinality(S \ {w}) = IF w \in S THEN Cardinality(S) - 1 ELSE Cardinality(S)
  BY FS_RemoveElement
<1>2. Cardinality(T \ {w}) = IF w \in T THEN Cardinality(T) - 1 ELSE Cardinality(T)
  BY FS_RemoveElement
<1>3. Cardinality(S) \in Nat /\ Cardinality(T) \in Nat
  BY FS_CardinalityType
<1> QED BY <1>1, <1>2, <1>3

\* How a step of w changes a set of instances that w enters or leaves.
Moves(in, in1, n, n1) ==
  /\ in /\ in1 => n1 = n
  /\ ~in /\ ~in1 => n1 = n
  /\ ~in /\ in1 => n1 = n + 1
  /\ in /\ ~in1 => n1 = n - 1

LEMMA InstancesStep ==
  ASSUME TypeOK, NEW w \in Workers, WorkerStep(w) \/ DbError(w) \/ Crash(w) \/ Restart(w), NEW t
  PROVE  /\ Moves(pc[w] = "append" /\ cur[w].id = t, pc'[w] = "append" /\ cur'[w].id = t,
                  Cardinality(Appending(t)), Cardinality(Appending(t))')
         /\ Moves(pc[w] = "append" /\ cur[w].id = t /\ outcome[w] = "success",
                  pc'[w] = "append" /\ cur'[w].id = t /\ outcome'[w] = "success",
                  Cardinality(Successful(t)), Cardinality(Successful(t))')
         /\ Cardinality(Appending(t))' \in Nat /\ Cardinality(Successful(t))' \in Nat
<1> DEFINE A == {x \in Workers : pc[x] = "append" /\ cur[x].id = t}
           A1 == {x \in Workers : pc'[x] = "append" /\ cur'[x].id = t}
           B == {x \in Workers : pc[x] = "append" /\ cur[x].id = t /\ outcome[x] = "success"}
           B1 == {x \in Workers : pc'[x] = "append" /\ cur'[x].id = t /\ outcome'[x] = "success"}
<1>1. A1 \ {w} = A \ {w} /\ B1 \ {w} = B \ {w}
  BY OthersKeepLocals
<1>2. A1 \subseteq Workers /\ B1 \subseteq Workers /\ A \subseteq Workers /\ B \subseteq Workers
  OBVIOUS
<1>3. IsFiniteSet(A1) /\ IsFiniteSet(B1) /\ IsFiniteSet(A) /\ IsFiniteSet(B)
  BY <1>2, SchedulerAssumption, FS_Subset
<1>4. /\ w \in A <=> pc[w] = "append" /\ cur[w].id = t
      /\ w \in A1 <=> pc'[w] = "append" /\ cur'[w].id = t
      /\ w \in B <=> pc[w] = "append" /\ cur[w].id = t /\ outcome[w] = "success"
      /\ w \in B1 <=> pc'[w] = "append" /\ cur'[w].id = t /\ outcome'[w] = "success"
  OBVIOUS
<1>5. A = Appending(t) /\ A1 = Appending(t)' /\ B = Successful(t) /\ B1 = Successful(t)'
  BY DEF Appending, Successful
<1> HIDE DEF A, A1, B, B1
<1>6. /\ Cardinality(A) \in Nat /\ Cardinality(A1) \in Nat
      /\ Cardinality(B) \in Nat /\ Cardinality(B1) \in Nat
  BY <1>3, FS_CardinalityType
<1>7. /\ Cardinality(A1) + (IF w \in A THEN 1 ELSE 0) = Cardinality(A) + (IF w \in A1 THEN 1 ELSE 0)
      /\ Cardinality(B1) + (IF w \in B THEN 1 ELSE 0) = Cardinality(B) + (IF w \in B1 THEN 1 ELSE 0)
  BY <1>1, <1>3, DifferInOne
<1>8. /\ Moves(pc[w] = "append" /\ cur[w].id = t, pc'[w] = "append" /\ cur'[w].id = t,
               Cardinality(A), Cardinality(A1))
      /\ Moves(pc[w] = "append" /\ cur[w].id = t /\ outcome[w] = "success",
               pc'[w] = "append" /\ cur'[w].id = t /\ outcome'[w] = "success",
               Cardinality(B), Cardinality(B1))
  BY <1>4, <1>6, <1>7 DEF Moves
<1> QED BY <1>5, <1>6, <1>8

\* A bound with a fault counter in it survives the counter's growth.
LEMMA MoreErrors ==
  ASSUME NEW x \in Nat, NEW y \in Nat, NEW d \in Nat, NEW d1 \in Nat, d <= d1, x <= y + d
  PROVE  x <= y + d1
OBVIOUS

LEMMA NextKeepsCounts == TypeOK /\ LogCounts /\ [Next]_vars => LogCounts'
<1> SUFFICES ASSUME TypeOK, LogCounts, [Next]_vars, NEW t \in Transfers
             PROVE  /\ Cardinality(Successes(executions'[t])) + Cardinality(Successful(t))' <= Len(submitted'[t])
                    /\ Len(submitted'[t]) <=
                         Len(executions'[t]) + Cardinality(Appending(t))' + crashes' + dbErrors'
  BY DEF LogCounts
<1> DEFINE s == Cardinality(Successes(executions[t]))
           s1 == Cardinality(Successes(executions'[t]))
           a == Cardinality(Appending(t))
           a1 == Cardinality(Appending(t))'
           b == Cardinality(Successful(t))
           b1 == Cardinality(Successful(t))'
           n == Len(submitted[t])
           n1 == Len(submitted'[t])
           e == Len(executions[t])
           e1 == Len(executions'[t])
           Goal == /\ s1 + b1 <= n1
                   /\ n1 <= e1 + a1 + crashes' + dbErrors'
<1>a. ASSUME NEW w \in Workers, WorkerStep(w) \/ DbError(w) \/ Crash(w)
      PROVE  /\ a1 \in Nat /\ b1 \in Nat
             /\ Moves(pc[w] = "append" /\ cur[w].id = t, pc'[w] = "append" /\ cur'[w].id = t, a, a1)
             /\ Moves(pc[w] = "append" /\ cur[w].id = t /\ outcome[w] = "success",
                      pc'[w] = "append" /\ cur'[w].id = t /\ outcome'[w] = "success", b, b1)
  BY <1>a, InstancesStep
<1>c. executions[t] \in Seq({"success", "failed"}) /\ submitted[t] \in Seq(Nat)
  BY DEF TypeOK
<1>1. /\ s \in Nat /\ n \in Nat /\ e \in Nat
      /\ b \in Nat /\ a \in Nat /\ crashes \in Nat /\ dbErrors \in Nat
  BY <1>c, AppendSuccesses, InstancesFinite DEF TypeOK
<1>2. /\ s + b <= n
      /\ n <= e + a + crashes + dbErrors
  BY DEF LogCounts
<1>b. (UNCHANGED executions => s1 = s /\ e1 = e) /\ (UNCHANGED submitted => n1 = n)
  OBVIOUS
<1> HIDE DEF a, a1, b, b1, s, s1, n, n1, e, e1
<1>3. ASSUME NEW w \in Workers, Submit(w) PROVE Goal
  <2>0. WorkerStep(w)
    BY <1>3 DEF WorkerStep
  <2>1. /\ pc[w] = "submit" /\ pc'[w] = "append" /\ UNCHANGED <<cur, executions, crashes, dbErrors>>
        /\ submitted' = [submitted EXCEPT ![cur[w].id] = Append(@, nonce[w])]
    BY <1>3 DEF Submit, Goto, TypeOK, dbVars, envVars
  <2>2. CASE cur[w].id = t
    <3>1. n1 = n + 1
      BY <1>c, <2>1, <2>2, LocalsType DEF TypeOK, n, n1
    <3>6. Moves(pc[w] = "append" /\ cur[w].id = t, pc'[w] = "append" /\ cur'[w].id = t, a, a1)
      BY <2>0, <1>a
    <3>7. Moves(pc[w] = "append" /\ cur[w].id = t /\ outcome[w] = "success",
              pc'[w] = "append" /\ cur'[w].id = t /\ outcome'[w] = "success", b, b1)
      BY <2>0, <1>a
    <3>8. a1 = a + 1
      BY <2>1, <2>2, <3>6 DEF Moves
    <3>9. b1 = b \/ b1 = b + 1
      BY <2>1, <2>2, <3>7 DEF Moves
    <3>10. s1 = s /\ e1 = e /\ crashes' = crashes /\ dbErrors' = dbErrors
      BY <2>1, <1>b
    <3>11. b1 \in Int /\ b1 <= b + 1
      BY <1>1, <3>9
    <3> QED BY <1>1, <1>2, <3>1, <3>8, <3>10, <3>11
  <2>3. CASE cur[w].id # t
    <3>1. n1 = n
      BY <2>1, <2>3, LocalsType DEF TypeOK, n, n1
    <3>6. Moves(pc[w] = "append" /\ cur[w].id = t, pc'[w] = "append" /\ cur'[w].id = t, a, a1)
      BY <2>0, <1>a
    <3>7. Moves(pc[w] = "append" /\ cur[w].id = t /\ outcome[w] = "success",
              pc'[w] = "append" /\ cur'[w].id = t /\ outcome'[w] = "success", b, b1)
      BY <2>0, <1>a
    <3>8. a1 = a
      BY <2>1, <2>3, <3>6 DEF Moves
    <3>9. b1 = b
      BY <2>1, <2>3, <3>7 DEF Moves
    <3>10. s1 = s /\ e1 = e /\ crashes' = crashes /\ dbErrors' = dbErrors
      BY <2>1, <1>b
    <3> QED BY <1>1, <1>2, <3>1, <3>8, <3>9, <3>10
  <2> QED BY <2>2, <2>3
<1>4. ASSUME NEW w \in Workers, AppendExecution(w) \/ (DbError(w) /\ ~UNCHANGED executions)
      PROVE  Goal
  <2>0. WorkerStep(w) \/ DbError(w)
    BY <1>4 DEF WorkerStep
  <2>1. /\ pc[w] = "append" /\ pc'[w] # "append" /\ UNCHANGED <<cur, outcome, submitted, crashes>>
        /\ executions' = [executions EXCEPT ![cur[w].id] = Append(executions[cur[w].id], outcome[w])]
        /\ dbErrors' \in Nat /\ dbErrors <= dbErrors'
    <3>1. CASE AppendExecution(w)
      BY <3>1 DEF AppendExecution, Goto, TypeOK, histVars, envVars, tickVars, Logged
    <3>2. CASE DbError(w) /\ ~UNCHANGED executions
      <4>1. /\ pc[w] = "append"
            /\ executions' = [executions EXCEPT ![cur[w].id] = Append(executions[cur[w].id], outcome[w])]
        BY <3>2, DbErrorWrites DEF Logged
      <4>2. SkipToRelease(w) /\ dbErrors' = dbErrors + 1 /\ UNCHANGED <<crashes, submitted>>
        BY <3>2, <4>1, DbErrorShape DEF histVars
      <4> QED BY <1>1, <4>1, <4>2 DEF SkipToRelease, tickVars, TypeOK
    <3> QED BY <1>4, <3>1, <3>2
  <2>2. CASE cur[w].id = t
    <3>1. executions'[t] = Append(executions[t], outcome[w]) /\ outcome[w] \in {"success", "failed"}
      BY <2>1, <2>2, LocalsType DEF TypeOK
    <3>2. /\ e1 = e + 1
          /\ s1 = s + IF outcome[w] = "success" THEN 1 ELSE 0
      BY <1>c, <1>1, <3>1, AppendSuccesses DEF s, s1, e, e1
    <3>6. Moves(pc[w] = "append" /\ cur[w].id = t, pc'[w] = "append" /\ cur'[w].id = t, a, a1)
      BY <2>0, <1>a
    <3>7. Moves(pc[w] = "append" /\ cur[w].id = t /\ outcome[w] = "success",
              pc'[w] = "append" /\ cur'[w].id = t /\ outcome'[w] = "success", b, b1)
      BY <2>0, <1>a
    <3>8. a1 = a - 1
      BY <2>1, <2>2, <3>1, <3>6 DEF Moves
    <3>9. IF outcome[w] = "success" THEN b1 = b - 1 /\ s1 = s + 1 ELSE b1 = b /\ s1 = s
      <4>1. outcome[w] = "success" => b1 = b - 1
        BY <2>1, <2>2, <3>7 DEF Moves
      <4>2. outcome[w] # "success" => b1 = b
        BY <2>1, <2>2, <3>7 DEF Moves
      <4> QED BY <1>1, <3>2, <4>1, <4>2
    <3>10. n1 = n /\ crashes' = crashes /\ dbErrors' \in Nat /\ dbErrors <= dbErrors'
      BY <2>1, <1>b
    <3>11. n1 <= e1 + a1 + crashes' + dbErrors
      BY <1>1, <1>2, <3>2, <3>8, <3>10
    <3>12. s1 + b1 <= n1
      BY <1>1, <1>2, <3>2, <3>9, <3>10
    <3>13. e1 + a1 + crashes' \in Nat /\ n1 \in Nat
      BY <1>1, <1>a, <2>0, <3>2, <3>10
    <3> QED BY <1>1, <3>10, <3>11, <3>12, <3>13, MoreErrors
  <2>3. CASE cur[w].id # t
    <3>1. executions'[t] = executions[t]
      BY <2>1, <2>3, LocalsType DEF TypeOK
    <3>6. Moves(pc[w] = "append" /\ cur[w].id = t, pc'[w] = "append" /\ cur'[w].id = t, a, a1)
      BY <2>0, <1>a
    <3>7. Moves(pc[w] = "append" /\ cur[w].id = t /\ outcome[w] = "success",
              pc'[w] = "append" /\ cur'[w].id = t /\ outcome'[w] = "success", b, b1)
      BY <2>0, <1>a
    <3>8. a1 = a
      BY <2>1, <2>3, <3>6 DEF Moves
    <3>9. b1 = b
      BY <2>1, <2>3, <3>7 DEF Moves
    <3>10. /\ s1 = s /\ e1 = e /\ n1 = n /\ crashes' = crashes
           /\ dbErrors' \in Nat /\ dbErrors <= dbErrors'
      BY <2>1, <3>1, <1>b DEF s, s1, e, e1
    <3>11. n1 <= e1 + a1 + crashes' + dbErrors
      BY <1>1, <1>2, <3>8, <3>10
    <3>12. s1 + b1 <= n1
      BY <1>1, <1>2, <3>9, <3>10
    <3>13. e1 + a1 + crashes' \in Nat /\ n1 \in Nat
      BY <1>1, <1>a, <2>0, <3>10
    <3> QED BY <1>1, <3>10, <3>11, <3>12, <3>13, MoreErrors
  <2> QED BY <2>2, <2>3
<1>5. ASSUME NEW w \in Workers, ValidateRelay(w) PROVE Goal
  <2>0. WorkerStep(w)
    BY <1>5 DEF WorkerStep
  <2>1. pc[w] = "fresh" /\ (pc'[w] = "append" => outcome'[w] = "failed")
        /\ UNCHANGED <<executions, submitted, crashes, dbErrors>>
    BY <1>5 DEF ValidateRelay, Goto, TypeOK, dbVars, envVars, histVars
  <2>2. Moves(pc[w] = "append" /\ cur[w].id = t, pc'[w] = "append" /\ cur'[w].id = t, a, a1)
    BY <2>0, <1>a
  <2>3. a1 = a \/ a1 = a + 1
    BY <2>1, <2>2 DEF Moves
  <2>4. Moves(pc[w] = "append" /\ cur[w].id = t /\ outcome[w] = "success",
                      pc'[w] = "append" /\ cur'[w].id = t /\ outcome'[w] = "success", b, b1)
    BY <2>0, <1>a
  <2>5. b1 = b
    BY <2>1, <2>4 DEF Moves
  <2> QED BY <1>1, <1>2, <2>1, <2>3, <2>5, <1>b
<1>6. ASSUME NEW w \in Workers, DbError(w) \/ Crash(w), UNCHANGED executions PROVE Goal
  <2>1. /\ UNCHANGED <<executions, submitted>> /\ pc'[w] # "append"
        /\ crashes' + dbErrors' = crashes + dbErrors + 1 /\ crashes' \in Nat /\ dbErrors' \in Nat
    <3>1. CASE DbError(w)
      <4>1. dbErrors' = dbErrors + 1 /\ UNCHANGED <<crashes, submitted>>
        BY <3>1, DbErrorShape DEF histVars
      <4>2. pc'[w] # "append"
        BY <3>1, DbErrorShape DEF AbandonTick, SkipToRelease, TypeOK
      <4> QED BY <1>1, <1>6, <4>1, <4>2
    <3>2. CASE Crash(w)
      <4>1. /\ UNCHANGED <<executions, submitted, dbErrors>> /\ crashes' = crashes + 1
            /\ pc' = [pc EXCEPT ![w] = "down"]
        BY <3>2 DEF Crash, histVars
      <4>2. pc'[w] = "down"
        BY <4>1 DEF TypeOK
      <4> QED BY <1>1, <4>1, <4>2
    <3> QED BY <1>6, <3>1, <3>2
  <2>6. Moves(pc[w] = "append" /\ cur[w].id = t, pc'[w] = "append" /\ cur'[w].id = t, a, a1)
    BY <1>6, <1>a
  <2>7. Moves(pc[w] = "append" /\ cur[w].id = t /\ outcome[w] = "success",
              pc'[w] = "append" /\ cur'[w].id = t /\ outcome'[w] = "success", b, b1)
    BY <1>6, <1>a
  <2>8. a1 = a \/ a1 = a - 1
    BY <2>1, <2>6 DEF Moves
  <2>9. b1 = b \/ b1 = b - 1
    BY <2>1, <2>7 DEF Moves
  <2>10. s1 = s /\ e1 = e /\ n1 = n
    BY <2>1, <1>b
  <2>11. a1 \in Int /\ a - 1 <= a1 /\ b1 \in Int /\ b1 <= b
    BY <1>1, <2>8, <2>9
  <2>12. crashes' + dbErrors' = crashes + dbErrors + 1 /\ crashes' \in Nat /\ dbErrors' \in Nat
    BY <2>1
  <2>13. s1 + b1 <= n1
    BY <1>1, <1>2, <2>10, <2>11
  <2> DEFINE c == crashes
             d == dbErrors
             c1 == crashes'
             d1 == dbErrors'
  <2>14. c1 + d1 = c + d + 1 /\ c1 \in Nat /\ d1 \in Nat /\ c \in Nat /\ d \in Nat /\ n <= e + a + c + d
    BY <2>12, <1>1, <1>2
  <2>15. n1 = n /\ a1 \in Int /\ a - 1 <= a1 /\ a \in Nat /\ e \in Nat /\ e1 = e /\ n \in Nat
    BY <1>1, <2>10, <2>11
  <2>16. n1 <= e1 + a1 + c1 + d1
    <3> HIDE DEF c, d, c1, d1
    <3> QED BY <2>14, <2>15
  <2> QED BY <2>13, <2>16
<1>7. ASSUME UNCHANGED <<executions, submitted, crashes, dbErrors>>,
             \A x \in Workers : /\ pc'[x] = "append" <=> pc[x] = "append"
                                /\ pc[x] = "append" => cur'[x] = cur[x] /\ outcome'[x] = outcome[x]
      PROVE  Goal
  <2>1. Appending(t)' = Appending(t) /\ Successful(t)' = Successful(t)
    BY <1>7 DEF Appending, Successful
  <2>2. a1 = a /\ b1 = b
    BY <2>1 DEF a, a1, b, b1
  <2> QED BY <1>2, <1>7, <1>b, <2>2
<1>8. CASE \A w \in Workers : ~Submit(w) /\ ~AppendExecution(w) /\ ~ValidateRelay(w)
                               /\ ~DbError(w) /\ ~Crash(w)
  <2>1. UNCHANGED <<executions, submitted, crashes, dbErrors>>
    BY <1>8 DEF Next, WorkerStep, Create, PauseRead, CancelRead, UpdateStatus, StartTick,
         TryAcquire, CountExecutions, TrackNonce, UpdateAfterExecution, Notify,
         Release, Restart, Tick, vars, dbVars, envVars, histVars
  <2>2. ASSUME NEW x \in Workers
        PROVE  /\ pc'[x] = "append" <=> pc[x] = "append"
               /\ pc[x] = "append" => cur'[x] = cur[x] /\ outcome'[x] = outcome[x]
    <3>1. pc'[x] = "append" => pc[x] = "append"
      BY <1>8, Arrivals
    <3>2. ASSUME pc[x] = "append" PROVE pc'[x] = "append" /\ cur'[x] = cur[x] /\ outcome'[x] = outcome[x]
      <4>1. ~WorkerStep(x) /\ ~Restart(x)
        BY <1>8, <3>2 DEF WorkerStep, StartTick, TryAcquire, CountExecutions, TrackNonce,
             UpdateAfterExecution, Notify, Release, Restart, Goto
      <4> QED BY <1>8, <3>2, <4>1, LocalsChange
    <3> QED BY <3>1, <3>2
  <2> QED BY <1>7, <2>1, <2>2 DEF a, a1, b, b1, s, s1, n, n1, e, e1
<1>9. ASSUME NEW w \in Workers, Crash(w) PROVE UNCHANGED executions
  BY <1>9 DEF Crash
<1> QED BY <1>3, <1>4, <1>5, <1>6, <1>8, <1>9 DEF a, a1, b, b1, s, s1, n, n1, e, e1

\* No nonce leaves twice and the log accounts for what has left, for any number of
\* instances, transfers and session keys, and any crashes, failing queries and late
\* executions (executeTransfer, validateRelay, track and appendExecution).
THEOREM SubmissionsAreAccounted == Spec => []SubmissionsAccounted
<1>1. Init => LogCounts
  <2> SUFFICES ASSUME Init, NEW t \in Transfers
               PROVE  /\ Cardinality(Successes(executions[t])) + Cardinality(Successful(t)) <= Len(submitted[t])
                      /\ Len(submitted[t]) <=
                           Len(executions[t]) + Cardinality(Appending(t)) + crashes + dbErrors
    BY DEF LogCounts
  <2>1. Successes(executions[t]) = {} /\ Successful(t) = {} /\ Appending(t) = {}
    BY DEF Init, Successes, Successful, Appending
  <2>2. Len(submitted[t]) = 0 /\ Len(executions[t]) = 0 /\ crashes = 0 /\ dbErrors = 0
    BY DEF Init
  <2> QED BY <2>1, <2>2, FS_EmptySet
<1>2. TypeOK /\ LogCounts /\ [Next]_vars => LogCounts'
  BY NextKeepsCounts
<1>3. TypeOK /\ LogCounts => LogAccountsForSubmissions
  <2> SUFFICES ASSUME TypeOK, LogCounts, NEW t \in Transfers
               PROVE  /\ SuccessCount(t) <= Len(submitted[t])
                      /\ Len(submitted[t]) <= Len(executions[t]) + Unrecorded(t) + crashes + dbErrors
    BY DEF LogAccountsForSubmissions
  <2>1. executions[t] \in Seq({"success", "failed"}) /\ submitted[t] \in Seq(Nat)
    BY DEF TypeOK
  <2>2. SuccessCount(t) = Cardinality(Successes(executions[t])) /\ SuccessCount(t) \in Nat
    BY <2>1, AppendSuccesses DEF SuccessCount, Successes
  <2>3. Cardinality(Successful(t)) \in Nat /\ Len(submitted[t]) \in Nat
    BY <2>1, InstancesFinite
  <2> QED BY <2>2, <2>3 DEF LogCounts, Unrecorded, Appending
<1>4. NewUntilSubmitted /\ LogAccountsForSubmissions => SubmissionsAccounted
  BY DEF NewUntilSubmitted, SubmissionsAccounted, Apart
<1> QED BY <1>1, <1>2, <1>3, <1>4, TypeCorrect, RecordedInvariant, PTL DEF Spec


-----------------------------------------------------------------------------
\* An instance may still submit t, and it has submitted t or refused to.
Ready(w, t) ==
  \/ \E s \in due[w] : s.id = t
  \/ pc[w] \in {"count", "fresh", "track", "submit"} /\ cur[w].id = t
Ending(w, t) == pc[w] \in {"append", "update"} /\ cur[w].id = t

\* t will be submitted again.
Open(t) == row[t].status = "active" \/ \E w \in Workers : Ready(w, t)
Pending(t) == \E w \in Workers : Ending(w, t)

Faults == crashes + dbErrors

\* What a single process has submitted of a one-time transfer: one more than the
\* faults, and not more than the faults as long as it may submit it again.
OnceInv ==
  OneProcess => \A t \in Transfers :
    row[t].frequency = Once =>
      /\ Len(submitted[t]) <= 1 + Faults
      /\ Open(t) /\ ~Pending(t) => Len(submitted[t]) <= Faults

\* Faults are counted and only counted up.
LEMMA FaultsGrow ==
  ASSUME TypeOK, [Next]_vars
  PROVE  /\ Faults \in Nat /\ Faults' \in Nat /\ Faults <= Faults'
         /\ \A w \in Workers : DbError(w) \/ Crash(w) => Faults' = Faults + 1
<1> DEFINE c == crashes
           d == dbErrors
           c1 == crashes'
           d1 == dbErrors'
<1>1. c \in Nat /\ d \in Nat
  BY DEF TypeOK
<1>2. ASSUME NEW w \in Workers, DbError(w) \/ Crash(w) PROVE c1 + d1 = c + d + 1 /\ c1 \in Nat /\ d1 \in Nat
  <2>1. CASE DbError(w)
    <3>1. c1 = c /\ d1 = d + 1
      BY <2>1 DEF DbError
    <3> HIDE DEF c, d, c1, d1
    <3> QED BY <1>1, <3>1
  <2>2. CASE Crash(w)
    <3>1. c1 = c + 1 /\ d1 = d
      BY <2>2 DEF Crash
    <3> HIDE DEF c, d, c1, d1
    <3> QED BY <1>1, <3>1
  <2> QED BY <1>2, <2>1, <2>2
<1>3. CASE \A w \in Workers : ~DbError(w) /\ ~Crash(w)
  <2>1. crashes' = crashes /\ dbErrors' = dbErrors
    BY <1>3 DEF Next, WorkerStep, Create, PauseRead, CancelRead, UpdateStatus, StartTick,
         TryAcquire, CountExecutions, ValidateRelay, TrackNonce, Submit, AppendExecution,
         UpdateAfterExecution, Notify, Release, Restart, Tick, vars, envVars
  <2>2. Faults' = Faults /\ Faults \in Nat
    BY <1>1, <2>1 DEF Faults
  <2> QED BY <1>3, <2>2
<1>4. c1 + d1 = Faults' /\ c + d = Faults
  BY DEF Faults
<1>5. ASSUME NEW w \in Workers, DbError(w) \/ Crash(w) PROVE Faults' = Faults + 1 /\ Faults' \in Nat
  <2>1. c1 + d1 = c + d + 1 /\ c1 \in Nat /\ d1 \in Nat
    BY <1>2, <1>5
  <2>2. c1 + d1 \in Nat
    <3> HIDE DEF c, d, c1, d1
    <3> QED BY <2>1
  <2> QED BY <1>4, <2>1, <2>2
<1>6. Faults \in Nat
  BY <1>1 DEF Faults
<1> QED BY <1>3, <1>5, <1>6

\* What an instance may still submit grows by listing an active transfer only, and
\* an instance that is ending one is done with it after its update.
LEMMA OnceSteps ==
  ASSUME TypeOK, [Next]_vars, NEW t \in Transfers, NEW w \in Workers
  PROVE  /\ Ready(w, t)' => Ready(w, t) \/ row[t].status = "active"
         /\ Ending(w, t) => \/ Ending(w, t)' \/ UpdateAfterExecution(w) \/ DbError(w) \/ Crash(w)
<1>1. CASE StartTick(w)
  BY <1>1 DEF StartTick, ListDue, Goto, Ready, Ending, TypeOK
<1>2. CASE TryAcquire(w)
  <2>1. PICK s \in NextDue(w) :
          /\ due' = [due EXCEPT ![w] = @ \ {s}]
          /\ \/ cur' = [cur EXCEPT ![w] = s] /\ Goto(w, "acquire", "count")
             \/ UNCHANGED cur /\ Goto(w, "acquire", AfterItem(due[w] \ {s}))
    BY <1>2 DEF TryAcquire
  <2>2. s \in due[w] /\ due'[w] = due[w] \ {s} /\ pc[w] = "acquire"
    BY <2>1 DEF NextDue, TypeOK, Goto
  <2>3. \/ cur'[w] = s /\ pc'[w] = "count"
        \/ pc'[w] \in {"idle", "acquire"}
    BY <2>1 DEF TypeOK, Goto, AfterItem
  <2> QED BY <2>2, <2>3 DEF Ready, Ending
<1>3. CASE CountExecutions(w) \/ ValidateRelay(w) \/ TrackNonce(w) \/ Submit(w)
            \/ AppendExecution(w) \/ Notify(w)
  BY <1>3 DEF CountExecutions, ValidateRelay, TrackNonce, Submit, AppendExecution, Notify,
       Goto, Ready, Ending, TypeOK, tickVars
<1>4. CASE UpdateAfterExecution(w)
  BY <1>4 DEF UpdateAfterExecution, Goto, Ready, TypeOK, tickVars
<1>5. CASE Release(w)
  BY <1>5 DEF Release, Goto, AfterItem, Ready, Ending, TypeOK
<1>6. CASE DbError(w)
  BY <1>6, DbErrorShape DEF AbandonTick, SkipToRelease, Ready, TypeOK, tickVars
<1>7. CASE Crash(w) \/ Restart(w)
  BY <1>7 DEF Crash, Restart, Goto, Ready, Ending, TypeOK, tickVars
<1>8. CASE pc'[w] = pc[w] /\ due'[w] = due[w] /\ cur'[w] = cur[w]
  BY <1>8 DEF Ready, Ending
<1> QED BY <1>1, <1>2, <1>3, <1>4, <1>5, <1>6, <1>7, <1>8, LocalsChange DEF WorkerStep


LEMMA NextKeepsOnce == BaseInv /\ Recorded /\ OnceInv /\ [Next]_vars => OnceInv'
<1> SUFFICES ASSUME BaseInv, Recorded, OnceInv, [Next]_vars, OneProcess',
                    NEW t \in Transfers, row'[t].frequency = Once
             PROVE  /\ Len(submitted'[t]) <= 1 + Faults'
                    /\ Open(t)' /\ ~Pending(t)' => Len(submitted'[t]) <= Faults'
  BY DEF OnceInv
<1> DEFINE n == Len(submitted[t])
           n1 == Len(submitted'[t])
           F == Faults
           F1 == Faults'
<1>0. TypeOK /\ OneProcess
  BY ConditionsShrink DEF BaseInv
<1>1. /\ F \in Nat /\ F1 \in Nat /\ F <= F1 /\ n \in Nat
      /\ \A w \in Workers : DbError(w) \/ Crash(w) => F1 = F + 1
  BY <1>0, FaultsGrow DEF TypeOK
<1>2. ASSUME \A w \in Workers : Submit(w) => cur[w].id # t PROVE submitted'[t] = submitted[t]
  <2>1. ASSUME NEW w \in Workers, Submit(w) PROVE submitted'[t] = submitted[t]
    BY <1>0, <1>2, <2>1, LocalsType DEF Submit, TypeOK
  <2> QED BY <2>1, NonceSteps
<1>3. CASE ~Created(t)
  <2>1. \A w \in Workers : Submit(w) => cur[w].id # t
    BY <1>3, CurKey DEF Submit, Goto, Holding
  <2>2. n1 = 0
    BY <1>2, <1>3, <2>1 DEF Recorded
  <2> HIDE DEF n, n1, F, F1
  <2>3. n1 <= 1 + F1 /\ n1 <= F1
    BY <1>1, <2>2
  <2> QED BY <2>3 DEF n1, F1
<1>4. CASE Created(t)
  <2>0. row[t].frequency = Once
    BY <1>0, <1>4, RowsPersist
  <2>1. n <= 1 + F /\ (Open(t) /\ ~Pending(t) => n <= F)
    BY <1>0, <2>0 DEF OnceInv
  <2>2. ASSUME NEW w \in Workers, RowWritten(w) \/ UpdateAfterExecution(w), cur[w].id = t
        PROVE  row'[t].status = "completed"
    <3>1. PICK p \in Patch(cur[w], outcome[w], tickNow[w]) :
            IF p.status \in CheckedStatuses
              THEN row' = [row EXCEPT ![cur[w].id].status = p.status,
                                      ![cur[w].id].nextRunAt = p.nextRunAt,
                                      ![cur[w].id].failures = p.failures]
              ELSE UNCHANGED row
      BY <2>2 DEF UpdateAfterExecution, RowWritten
    <3>2. cur[w].row.frequency = Once
      BY <2>0, <2>2 DEF BaseInv, TickInv, Faithful, UpdateAfterExecution, RowWritten, Holding
    <3>3. p.status = "completed"
      BY <1>0, <3>2, PatchShape, LocalsType
    <3>4. row' = [row EXCEPT ![t].status = p.status, ![t].nextRunAt = p.nextRunAt,
                             ![t].failures = p.failures]
      BY <2>2, <3>1, <3>3 DEF CheckedStatuses
    <3>5. row'[t] = [row[t] EXCEPT !.status = p.status, !.nextRunAt = p.nextRunAt,
                                   !.failures = p.failures] /\ row[t] \in Row
      BY <1>0, <3>4 DEF TypeOK
    <3> QED BY <3>3, <3>5 DEF Row
  <2>3. row'[t].status = "active" => row[t].status = "active"
    <3>1. ASSUME NEW u \in Transfers, Create(u) PROVE row'[t].status = row[t].status
      BY <1>0, <1>4, <3>1 DEF Create, Created, TypeOK
    <3>2. ASSUME NEW r \in requests, UpdateStatus(r), row'[t].status = "active"
          PROVE row[t].status = "active"
      <4>1. row' = [row EXCEPT ![r.id].status = r.op] /\ r.op # "active" /\ r.id \in Transfers
        BY <1>0, <3>2 DEF UpdateStatus, TypeOK
      <4>2. row[t] \in Row
        BY <1>0 DEF TypeOK
      <4> QED BY <1>0, <3>2, <4>1, <4>2 DEF TypeOK, Row
    <3>3. ASSUME NEW w \in Workers, Updates(w), row'[t].status = "active"
          PROVE row[t].status = "active"
      <4>1. cur[w].id # t /\ cur[w].id \in Transfers
        BY <1>0, <2>2, <3>3, LocalsType DEF Updates
      <4>2. PICK p : row' = [row EXCEPT ![cur[w].id].status = p.status,
                                        ![cur[w].id].nextRunAt = p.nextRunAt,
                                        ![cur[w].id].failures = p.failures]
        BY <3>3 DEF Updates, RowWritten
      <4> QED BY <1>0, <3>3, <4>1, <4>2 DEF TypeOK
    <3>4. CASE UNCHANGED row
      BY <3>4
    <3> QED BY <3>1, <3>2, <3>3, <3>4, RowSteps
  <2>4. Open(t)' => Open(t)
    BY <1>0, <2>3, OnceSteps DEF Open
  <2>5. CASE \E w \in Workers : Submit(w) /\ cur[w].id = t
    <3>1. PICK w \in Workers : Submit(w) /\ cur[w].id = t
      BY <2>5
    <3>2. pc[w] = "submit" /\ pc'[w] = "append" /\ cur' = cur
      BY <1>0, <3>1 DEF Submit, Goto, TypeOK
    <3>3. Open(t) /\ Pending(t)'
      BY <3>1, <3>2 DEF Open, Ready, Pending, Ending
    <3>4. ~Pending(t)
      BY <1>0, <3>1, <3>2, OneHolder DEF Pending, Ending, Holding
    <3>5. n1 = n + 1
      BY <1>0, <3>1, LocalsType DEF Submit, TypeOK
    <3> HIDE DEF n, n1, F, F1
    <3>6. n1 <= 1 + F1
      BY <1>1, <2>1, <3>3, <3>4, <3>5
    <3> QED BY <3>3, <3>6 DEF n1, F1
  <2>6. CASE \A w \in Workers : Submit(w) => cur[w].id # t
    <3>1. n1 = n
      BY <1>2, <2>6
    <3>2. CASE \E w \in Workers : UpdateAfterExecution(w) /\ cur[w].id = t
      <4>1. PICK w \in Workers : UpdateAfterExecution(w) /\ cur[w].id = t
        BY <3>2
      <4>2. pc[w] = "update" /\ pc'[w] \in {"release", "notify"} /\ due' = due
        BY <1>0, <4>1 DEF UpdateAfterExecution, Goto, TypeOK, tickVars
      <4>3. ~Ready(w, t)'
        BY <4>1, <4>2 DEF Ready, BaseInv, TickInv, Holding
      <4>4. ASSUME NEW v \in Workers, v # w PROVE ~Ready(v, t)'
        <5>1. tickNow[v] = -1
          BY <1>0, <4>2, <4>4 DEF OneProcess, BaseInv, TickInv
        <5>2. pc[v] \in {"idle", "down"} /\ due[v] = {}
          BY <5>1 DEF BaseInv, TickInv
        <5>3. pc'[v] = pc[v]
          BY <1>0, <4>1, <4>4, OthersKeepLocals DEF WorkerStep
        <5> QED BY <4>2, <5>2, <5>3 DEF Ready
      <4>5. ~Open(t)'
        BY <2>2, <4>1, <4>3, <4>4 DEF Open
      <4> HIDE DEF n, n1, F, F1
      <4>6. n1 <= 1 + F1
        BY <1>1, <2>1, <3>1
      <4> QED BY <4>5, <4>6 DEF n1, F1
    <3>3. CASE \E w \in Workers : DbError(w) \/ Crash(w)
      <4>1. F1 = F + 1
        BY <1>1, <3>3
      <4> HIDE DEF n, n1, F, F1
      <4>2. n1 <= 1 + F1 /\ n1 <= F1
        BY <1>1, <2>1, <3>1, <4>1
      <4> QED BY <4>2 DEF n1, F1
    <3>4. CASE \A w \in Workers : /\ ~DbError(w) /\ ~Crash(w)
                                  /\ UpdateAfterExecution(w) => cur[w].id # t
      <4>1. Pending(t) => Pending(t)'
        BY <1>0, <3>4, OnceSteps DEF Pending, Ending
      <4> HIDE DEF n, n1, F, F1
      <4>2. n1 <= 1 + F1 /\ (Open(t)' /\ ~Pending(t)' => n1 <= F1)
        BY <1>1, <2>1, <2>4, <3>1, <4>1
      <4> QED BY <4>2 DEF n1, F1
    <3> QED BY <3>2, <3>3, <3>4
  <2> QED BY <2>5, <2>6
<1> QED BY <1>3, <1>4

\* A single process relays a one-time transfer once, and again only after a crash
\* or a failing query, for any transfers, users' requests and lengths of executions
\* (executeTransfer appends, then updateAfterExecution completes the row).
THEOREM OnceRelayed == Spec => [](OneProcess => OnceRelayedOnce)
<1>1. Init => OnceInv
  <2> SUFFICES ASSUME Init, NEW t \in Transfers
               PROVE  Len(submitted[t]) <= 1 + Faults /\ Len(submitted[t]) <= Faults
    BY DEF OnceInv
  <2>1. Len(submitted[t]) = 0 /\ Faults = 0
    BY DEF Init, Faults
  <2> QED BY <2>1
<1>2. BaseInv /\ Recorded /\ OnceInv /\ [Next]_vars => OnceInv'
  BY NextKeepsOnce
<1>3. TypeOK /\ OnceInv => (OneProcess => OnceRelayedOnce)
  <2> SUFFICES ASSUME TypeOK, OnceInv, OneProcess, NEW t \in Transfers, row[t].frequency = Once
               PROVE  Len(submitted[t]) <= 1 + crashes + dbErrors
    BY DEF OnceRelayedOnce
  <2>1. Len(submitted[t]) \in Nat /\ crashes \in Nat /\ dbErrors \in Nat
    BY DEF TypeOK
  <2> QED BY <2>1 DEF OnceInv, Faults
<1> QED BY <1>1, <1>2, <1>3, TypeCorrect, BaseInvariant, RecordedInvariant, PTL DEF Spec


-----------------------------------------------------------------------------
\* The log L ends with n failures and no more.
IsStreak(L, n) ==
  /\ n \in 0..Len(L)
  /\ \A i \in DOMAIN L : i > Len(L) - n => L[i] = "failed"
  /\ n = Len(L) \/ L[Len(L) - n] = "success"

\* What Streak chooses is that number.
LEMMA StreakIs ==
  ASSUME TypeOK, NEW t \in Transfers, NEW n, IsStreak(executions[t], n)
  PROVE  Streak(t) = n /\ n \in Nat
<1> DEFINE L == executions[t]
           tails == {m \in 0..Len(L) : \A i \in DOMAIN L : i > Len(L) - m => L[i] = "failed"}
<1>1. L \in Seq({"success", "failed"}) /\ Len(L) \in Nat /\ DOMAIN L = 1..Len(L)
  BY DEF TypeOK
<1>2. n \in tails /\ n \in Nat
  BY <1>1 DEF IsStreak
<1>3. ASSUME NEW m \in tails PROVE m <= n
  <2> SUFFICES ASSUME m > n PROVE FALSE
    BY <1>1, <1>2
  <2>1. n # Len(L) /\ L[Len(L) - n] = "success"
    BY <1>1, <1>2 DEF IsStreak
  <2>2. Len(L) - n \in DOMAIN L /\ Len(L) - n > Len(L) - m
    BY <1>1, <1>2, <2>1
  <2> QED BY <2>1, <2>2
<1>4. \A m \in tails : (\A k \in tails : k <= m) => m = n
  BY <1>1, <1>2, <1>3
<1>5. (CHOOSE m \in tails : \A k \in tails : k <= m) = n
  <2> HIDE DEF tails
  <2> QED BY <1>2, <1>3, <1>4
<1> QED BY <1>2, <1>5 DEF Streak

\* How an outcome that is appended changes it.
LEMMA AppendStreak ==
  ASSUME NEW L \in Seq({"success", "failed"}), NEW o \in {"success", "failed"}, NEW n,
         IsStreak(L, n)
  PROVE  IsStreak(Append(L, o), IF o = "success" THEN 0 ELSE n + 1)
<1> DEFINE M == Append(L, o)
           l == Len(L)
<1>1. /\ Len(M) = l + 1 /\ l \in Nat /\ DOMAIN M = 1..(l + 1) /\ DOMAIN L = 1..l
      /\ M[l + 1] = o /\ \A i \in 1..l : M[i] = L[i]
  OBVIOUS
<1>2. /\ n \in 0..l /\ (n = l \/ L[l - n] = "success")
      /\ \A i \in 1..l : i > l - n => L[i] = "failed"
  BY <1>1 DEF IsStreak
<1> HIDE DEF M, l
<1>3. CASE o = "success"
  <2>1. 0 \in 0..Len(M) /\ M[Len(M) - 0] = "success" /\ \A i \in DOMAIN M : ~(i > Len(M) - 0)
    BY <1>1, <1>3
  <2>2. IsStreak(M, 0)
    BY <2>1 DEF IsStreak
  <2> QED BY <1>3, <2>2 DEF M
<1>4. CASE o = "failed"
  <2>1. n + 1 \in 0..Len(M) /\ Len(M) - (n + 1) = l - n
    BY <1>1, <1>2
  <2>2. ASSUME NEW i \in DOMAIN M, i > Len(M) - (n + 1) PROVE M[i] = "failed"
    BY <1>1, <1>2, <1>4, <2>1, <2>2
  <2>3. n + 1 = Len(M) \/ M[Len(M) - (n + 1)] = "success"
    BY <1>1, <1>2, <2>1
  <2>4. IsStreak(M, n + 1)
    BY <2>1, <2>2, <2>3 DEF IsStreak
  <2> QED BY <1>4, <2>4 DEF M
<1> QED BY <1>3, <1>4

\* There is one such number.
LEMMA OneStreak ==
  ASSUME NEW L \in Seq({"success", "failed"}), NEW m, NEW n, IsStreak(L, m), IsStreak(L, n)
  PROVE  m = n
<1> DEFINE l == Len(L)
<1>1. l \in Nat /\ DOMAIN L = 1..l
  OBVIOUS
<1>2. ASSUME NEW j, NEW k, IsStreak(L, j), IsStreak(L, k) PROVE ~(j < k)
  <2>1. /\ j \in 0..l /\ (j = l \/ L[l - j] = "success")
        /\ k \in 0..l /\ \A i \in DOMAIN L : i > l - k => L[i] = "failed"
    BY <1>2 DEF IsStreak
  <2> HIDE DEF l
  <2>2. j < k => l - j \in DOMAIN L /\ l - j > l - k /\ j # l
    BY <1>1, <2>1
  <2> QED BY <2>1, <2>2
<1>3. m \in 0..l /\ n \in 0..l
  BY DEF IsStreak
<1>4. ~(m < n) /\ ~(n < m)
  BY <1>2
<1> QED BY <1>1, <1>3, <1>4

\* Every log ends with some number of failures; a row that does not exist has none.
Logs ==
  /\ \A t \in Transfers : \E n \in Nat : IsStreak(executions[t], n)
  /\ \A t \in Transfers : ~Created(t) => executions[t] = << >>

\* The steps that append to a log.
LEMMA LogSteps ==
  ASSUME TypeOK, [Next]_vars, NEW t \in Transfers
  PROVE  \/ executions'[t] = executions[t]
         \/ \E w \in Workers : /\ pc[w] = "append" /\ cur[w].id = t
                               /\ AppendExecution(w) \/ DbError(w)
                               /\ executions'[t] = Append(executions[t], outcome[w])
<1>1. ASSUME NEW w \in Workers, AppendExecution(w) \/ DbError(w)
      PROVE  \/ executions'[t] = executions[t]
             \/ /\ pc[w] = "append" /\ cur[w].id = t
                /\ executions'[t] = Append(executions[t], outcome[w])
  <2>1. \/ UNCHANGED executions
        \/ /\ pc[w] = "append"
           /\ executions' = [executions EXCEPT ![cur[w].id] = Append(executions[cur[w].id], outcome[w])]
    BY <1>1, DbErrorWrites DEF AppendExecution, Logged, Goto
  <2> QED BY <2>1, LocalsType DEF TypeOK
<1>2. CASE \A w \in Workers : ~AppendExecution(w) /\ ~DbError(w)
  BY <1>2 DEF Next, WorkerStep, Create, PauseRead, CancelRead, UpdateStatus, StartTick,
       TryAcquire, CountExecutions, ValidateRelay, TrackNonce, Submit, UpdateAfterExecution,
       Notify, Release, Crash, Restart, Tick, vars, dbVars
<1> QED BY <1>1, <1>2

LEMMA NextKeepsLogs == BaseInv /\ Logs /\ [Next]_vars => Logs'
<1> SUFFICES ASSUME BaseInv, Logs, [Next]_vars, NEW t \in Transfers
             PROVE  /\ \E n \in Nat : IsStreak(executions'[t], n)
                    /\ ~Created(t)' => executions'[t] = << >>
  BY DEF Logs
<1>0. TypeOK /\ (Created(t) => Created(t)')
  BY RowsPersist DEF BaseInv
<1>1. CASE executions'[t] = executions[t]
  BY <1>0, <1>1 DEF Logs
<1>2. ASSUME NEW w \in Workers, pc[w] = "append", cur[w].id = t,
             executions'[t] = Append(executions[t], outcome[w])
      PROVE  /\ \E n \in Nat : IsStreak(executions'[t], n)
             /\ ~Created(t)' => executions'[t] = << >>
  <2>1. Created(t)
    BY <1>2, CurKey DEF Holding
  <2>2. PICK n \in Nat : IsStreak(executions[t], n)
    BY DEF Logs
  <2>3. executions[t] \in Seq({"success", "failed"}) /\ outcome[w] \in {"success", "failed"}
    BY <1>0 DEF TypeOK
  <2>4. IsStreak(executions'[t], IF outcome[w] = "success" THEN 0 ELSE n + 1)
    BY <1>2, <2>2, <2>3, AppendStreak
  <2> QED BY <1>0, <2>1, <2>4
<1> QED BY <1>0, <1>1, <1>2, LogSteps


\* While one process runs undisturbed, its snapshots have the rows' failure counts.
Executing == {"count", "fresh", "track", "submit", "append", "update"}
SnapshotsFresh ==
  OneProcess => \A w \in Workers :
    /\ \A s \in due[w] : s.row.failures = row[s.id].failures
    /\ pc[w] \in Executing => cur[w].row.failures = row[cur[w].id].failures

\* The steps that write a failure count.
LEMMA FailureSteps ==
  ASSUME TypeOK, [Next]_vars, NEW t \in Transfers
  PROVE  \/ row'[t].failures = row[t].failures
         \/ ~Created(t) /\ row'[t].failures = 0
         \/ \E w \in Workers : Updates(w) /\ cur[w].id = t
<1>0. row[t] \in Row
  BY DEF TypeOK
<1>1. ASSUME NEW u \in Transfers, Create(u)
      PROVE  row'[t].failures = row[t].failures \/ (~Created(t) /\ row'[t].failures = 0)
  BY <1>1 DEF Create, Created, TypeOK
<1>2. ASSUME NEW r \in requests, UpdateStatus(r) PROVE row'[t].failures = row[t].failures
  BY <1>0, <1>2 DEF UpdateStatus, TypeOK, Row
<1>3. ASSUME NEW w \in Workers, Updates(w), cur[w].id # t
      PROVE  row'[t].failures = row[t].failures
  <2>1. PICK p : row' = [row EXCEPT ![cur[w].id].status = p.status,
                                    ![cur[w].id].nextRunAt = p.nextRunAt,
                                    ![cur[w].id].failures = p.failures]
    BY <1>3 DEF Updates, RowWritten
  <2> QED BY <1>3, <2>1, LocalsType DEF TypeOK
<1> QED BY <1>1, <1>2, <1>3, RowSteps

\* A single process is the one that has something listed or in execution.
LEMMA OneBusy ==
  ASSUME BaseInv, OneProcess, NEW v \in Workers, NEW w \in Workers,
         pc[v] \notin {"idle", "down"}, pc[w] \notin {"idle", "down"} \/ due[w] # {}
  PROVE  v = w
BY DEF BaseInv, TickInv, OneProcess

LEMMA NextKeepsSnapshots == BaseInv /\ SnapshotsFresh /\ [Next]_vars => SnapshotsFresh'
<1> SUFFICES ASSUME BaseInv, SnapshotsFresh, [Next]_vars, OneProcess', NEW w \in Workers
             PROVE  /\ \A s \in due'[w] : s.row.failures = row'[s.id].failures
                    /\ pc'[w] \in Executing => cur'[w].row.failures = row'[cur'[w].id].failures
  BY DEF SnapshotsFresh
<1>0. TypeOK /\ OneProcess
  BY ConditionsShrink DEF BaseInv
<1>1. ASSUME NEW t \in Transfers, Created(t),
             ~\E v \in Workers : Updates(v) /\ cur[v].id = t
      PROVE  row'[t].failures = row[t].failures
  BY <1>0, <1>1, FailureSteps
<1>2. \A s \in due[w] : s.id \in Transfers /\ Created(s.id)
  BY <1>0 DEF BaseInv, TickInv, Faithful, TypeOK, Snapshot
<1>3. ASSUME NEW s \in due[w] PROVE s.row.failures = row'[s.id].failures
  <2>1. ASSUME NEW v \in Workers, Updates(v) PROVE cur[v].id # s.id
    <3>1. pc[v] = "update"
      BY <2>1 DEF Updates, RowWritten
    <3>2. v = w
      BY <1>0, <3>1, OneBusy
    <3> QED BY <3>1, <3>2 DEF BaseInv, TickInv, Holding
  <2> QED BY <1>0, <1>1, <1>2, <2>1 DEF SnapshotsFresh
<1>4. ASSUME pc[w] \in Executing, ~Updates(w)
      PROVE  cur[w].row.failures = row'[cur[w].id].failures
  <2>1. ASSUME NEW v \in Workers, Updates(v) PROVE FALSE
    <3>1. pc[v] = "update"
      BY <2>1 DEF Updates, RowWritten
    <3> QED BY <1>0, <1>4, <2>1, <3>1, OneBusy DEF Executing
  <2>2. cur[w].id \in Transfers /\ Created(cur[w].id)
    BY <1>4, CurKey DEF Executing, Holding
  <2> QED BY <1>0, <1>1, <1>4, <2>1, <2>2 DEF SnapshotsFresh
<1>5. CASE StartTick(w)
  <2>1. due'[w] = ListDue(clock) /\ UNCHANGED row /\ pc'[w] \in {"idle", "acquire"}
    BY <1>0, <1>5 DEF StartTick, Goto, TypeOK, dbVars
  <2> QED BY <2>1 DEF ListDue, Executing
<1>6. CASE TryAcquire(w)
  <2>1. PICK s \in NextDue(w) :
          /\ due' = [due EXCEPT ![w] = @ \ {s}]
          /\ \/ cur' = [cur EXCEPT ![w] = s]
             \/ Goto(w, "acquire", AfterItem(due[w] \ {s}))
    BY <1>6 DEF TryAcquire
  <2>2. s \in due[w] /\ due'[w] = due[w] \ {s}
    BY <1>0, <2>1 DEF NextDue, TypeOK
  <2>3. cur'[w] = s \/ pc'[w] \in {"idle", "acquire"}
    BY <1>0, <2>1 DEF TypeOK, Goto, AfterItem
  <2> QED BY <1>3, <2>2, <2>3 DEF Executing
<1>7. CASE ~StartTick(w) /\ ~TryAcquire(w)
  <2>1. due'[w] \subseteq due[w]
    <3>1. CASE WorkerStep(w)
      BY <1>0, <1>7, <3>1 DEF WorkerStep, CountExecutions, ValidateRelay, TrackNonce, Submit,
           AppendExecution, UpdateAfterExecution, Notify, Release, tickVars
    <3>2. CASE DbError(w) \/ Crash(w) \/ Restart(w)
      BY <1>0, <3>2, DbErrorShape DEF AbandonTick, SkipToRelease, Crash, Restart, tickVars, TypeOK
    <3> QED BY <1>0, <3>1, <3>2, LocalsChange
  <2>2. pc'[w] \in Executing =>
          pc[w] \in Executing /\ cur'[w] = cur[w] /\ ~Updates(w)
    <3>0. Updates(w) => pc'[w] \notin Executing
      <4>1. ASSUME UpdateAfterExecution(w) PROVE pc'[w] \notin Executing
        BY <1>0, <4>1 DEF UpdateAfterExecution, Goto, TypeOK, Executing
      <4>2. ASSUME DbError(w), RowWritten(w) PROVE pc'[w] \notin Executing
        BY <1>0, <4>2, DbErrorShape DEF RowWritten, AbandonTick, SkipToRelease, TypeOK, Executing
      <4> QED BY <4>1, <4>2 DEF Updates
    <3>1. CASE WorkerStep(w)
      <4>1. CASE UpdateAfterExecution(w)
        BY <1>0, <4>1 DEF UpdateAfterExecution, Goto, TypeOK, Executing
      <4> QED BY <1>0, <1>7, <3>0, <3>1, <4>1 DEF WorkerStep, CountExecutions, ValidateRelay,
             TrackNonce, Submit, AppendExecution, Notify, Release, Goto, AfterItem,
             Executing, TypeOK, tickVars
    <3>2. CASE DbError(w) \/ Crash(w) \/ Restart(w)
      BY <1>0, <3>2, DbErrorShape DEF AbandonTick, SkipToRelease, Crash, Restart, Goto, Executing, TypeOK
    <3> QED BY <1>0, <3>1, <3>2, LocalsChange DEF Updates, WorkerStep
  <2> QED BY <1>3, <1>4, <2>1, <2>2
<1> QED BY <1>5, <1>6, <1>7

\* An instance that has logged an execution of t but not yet written the row.
Updating(w, t) == pc[w] = "update" /\ cur[w].id = t

\* The failure count, kept or about to be written, is the streak of failures.
FailuresFollow ==
  OneProcess /\ Undisturbed =>
    \A t \in Transfers : \A n \in Nat :
      IsStreak(executions[t], n) /\ n < MaxFailures =>
        /\ \A w \in Workers : Updating(w, t) => n = FailuresAfter(cur[w], outcome[w])
        /\ (\A w \in Workers : ~Updating(w, t)) => row[t].failures = n

LEMMA NextKeepsFailures ==
  BaseInv /\ Logs /\ SnapshotsFresh /\ FailuresFollow /\ [Next]_vars => FailuresFollow'
<1> SUFFICES ASSUME BaseInv, Logs, SnapshotsFresh, FailuresFollow, [Next]_vars,
                    OneProcess', Undisturbed', NEW t \in Transfers, NEW n \in Nat,
                    IsStreak(executions'[t], n), n < MaxFailures
             PROVE  /\ \A w \in Workers : Updating(w, t)' => n = FailuresAfter(cur[w], outcome[w])'
                    /\ (\A w \in Workers : ~Updating(w, t)') => row'[t].failures = n
  BY DEF FailuresFollow
<1>0. TypeOK /\ OneProcess /\ Undisturbed
  BY ConditionsShrink DEF BaseInv
<1>1. CASE \E w \in Workers : AppendExecution(w) /\ cur[w].id = t
  <2>1. PICK w \in Workers : AppendExecution(w) /\ cur[w].id = t
    BY <1>1
  <2>2. /\ pc[w] = "append" /\ pc'[w] = "update" /\ UNCHANGED <<cur, outcome>>
        /\ executions'[t] = Append(executions[t], outcome[w])
    BY <1>0, <2>1 DEF AppendExecution, Goto, Logged, TypeOK, tickVars
  <2>3. PICK m \in Nat : IsStreak(executions[t], m)
    BY DEF Logs
  <2>4. executions[t] \in Seq({"success", "failed"}) /\ outcome[w] \in {"success", "failed"}
    BY <1>0 DEF TypeOK
  <2>5. IsStreak(executions'[t], IF outcome[w] = "success" THEN 0 ELSE m + 1)
    BY <2>2, <2>3, <2>4, AppendStreak
  <2>6. n = IF outcome[w] = "success" THEN 0 ELSE m + 1
    <3>1. executions'[t] \in Seq({"success", "failed"})
      BY <2>2, <2>4
    <3> QED BY <2>5, <3>1, OneStreak
  <2>7. ASSUME NEW v \in Workers, pc[v] \in Holding PROVE v = w
    BY <1>0, <2>2, <2>7, OneBusy DEF Holding
  <2>8. m < MaxFailures => cur[w].row.failures = m
    <3>1. \A v \in Workers : ~Updating(v, t)
      BY <2>2, <2>7 DEF Updating, Holding
    <3>2. cur[w].row.failures = row[t].failures
      BY <1>0, <2>1, <2>2 DEF SnapshotsFresh, Executing
    <3> QED BY <1>0, <2>3, <3>1, <3>2 DEF FailuresFollow
  <2>9. n = FailuresAfter(cur[w], outcome[w])
    BY <2>6, <2>8, SchedulerAssumption DEF FailuresAfter
  <2>10. \A v \in Workers : v # w => ~Updating(v, t)'
    BY <1>0, <2>1, <2>2, <2>7, OthersKeepLocals DEF WorkerStep, Updating, Holding
  <2>11. Updating(w, t)'
    BY <2>1, <2>2 DEF Updating
  <2>12. FailuresAfter(cur[w], outcome[w])' = FailuresAfter(cur[w], outcome[w])
    BY <2>2 DEF FailuresAfter
  <2> QED BY <2>9, <2>10, <2>11, <2>12
<1>2. CASE \A w \in Workers : AppendExecution(w) => cur[w].id # t
  <2>1. executions'[t] = executions[t]
    <3>1. \A w \in Workers : ~DbError(w)
      BY <1>0 DEF DbError, Undisturbed, TypeOK
    <3> QED BY <1>0, <1>2, <3>1, LogSteps
  <2>2. /\ \A w \in Workers : Updating(w, t) => n = FailuresAfter(cur[w], outcome[w])
        /\ (\A w \in Workers : ~Updating(w, t)) => row[t].failures = n
    BY <1>0, <2>1 DEF FailuresFollow
  <2>3. ASSUME NEW w \in Workers, Updating(w, t)'
        PROVE  Updating(w, t) /\ FailuresAfter(cur[w], outcome[w])' = FailuresAfter(cur[w], outcome[w])
    <3>1. pc[w] = "update"
      <4>1. AppendExecution(w) => cur'[w] = cur[w]
        BY DEF AppendExecution, tickVars
      <4> QED BY <1>0, <1>2, <2>3, <4>1, Arrivals DEF Updating
    <3>2. cur'[w] = cur[w] /\ outcome'[w] = outcome[w]
      BY <1>0, <2>3, <3>1, Arrivals DEF Updating, Holding
    <3> QED BY <2>3, <3>1, <3>2 DEF Updating, FailuresAfter
  <2>4. ASSUME \A w \in Workers : ~Updating(w, t)' PROVE row'[t].failures = n
    <3>1. ASSUME NEW w \in Workers, UpdateAfterExecution(w), cur[w].id = t PROVE row'[t].failures = n
      <4>1. PICK p \in Patch(cur[w], outcome[w], tickNow[w]) :
              IF p.status \in CheckedStatuses
                THEN row' = [row EXCEPT ![cur[w].id].status = p.status,
                                        ![cur[w].id].nextRunAt = p.nextRunAt,
                                        ![cur[w].id].failures = p.failures]
                ELSE UNCHANGED row
        BY <3>1 DEF UpdateAfterExecution
      <4>2. n = FailuresAfter(cur[w], outcome[w])
        BY <2>2, <3>1 DEF UpdateAfterExecution, Updating
      <4>3. /\ p.failures = FailuresAfter(cur[w], outcome[w])
            /\ p.status \in {"active", "completed", "failed"}
            /\ p.status = "failed" => FailuresAfter(cur[w], outcome[w]) >= MaxFailures
        BY <1>0, LocalsType, PatchShape
      <4>4. p.status \in CheckedStatuses
        BY <4>2, <4>3, SchedulerAssumption DEF CheckedStatuses
      <4>5. row' = [row EXCEPT ![t].status = p.status, ![t].nextRunAt = p.nextRunAt,
                               ![t].failures = p.failures]
        BY <3>1, <4>1, <4>4
      <4>6. row'[t] = [row[t] EXCEPT !.status = p.status, !.nextRunAt = p.nextRunAt,
                                     !.failures = p.failures] /\ row[t] \in Row
        BY <1>0, <4>5 DEF TypeOK
      <4> QED BY <4>2, <4>3, <4>6 DEF Row
    <3>2. CASE \A w \in Workers : UpdateAfterExecution(w) => cur[w].id # t
      <4>1. \A w \in Workers : ~Updating(w, t)
        <5> SUFFICES ASSUME NEW w \in Workers, Updating(w, t) PROVE FALSE
          OBVIOUS
        <5>1. ~DbError(w) /\ ~Crash(w)
          BY <1>0 DEF DbError, Crash, Undisturbed, TypeOK
        <5>2. ~WorkerStep(w) /\ ~Restart(w)
          BY <3>2 DEF Updating, WorkerStep, StartTick, TryAcquire, CountExecutions,
               ValidateRelay, TrackNonce, Submit, AppendExecution, Notify, Release, Restart, Goto
        <5>3. pc'[w] = pc[w] /\ cur'[w] = cur[w]
          BY <1>0, <5>1, <5>2, LocalsChange
        <5> QED BY <2>4, <5>3 DEF Updating
      <4>2. row[t].failures = n
        BY <2>2, <4>1
      <4>3. ~Created(t) => n = 0
        BY <2>1 DEF Logs, IsStreak
      <4>4. \A w \in Workers : Updates(w) => UpdateAfterExecution(w)
        BY <1>0 DEF Updates, DbError, Undisturbed, TypeOK
      <4> QED BY <1>0, <3>2, <4>2, <4>3, <4>4, FailureSteps
    <3> QED BY <3>1, <3>2
  <2> QED BY <2>2, <2>3, <2>4
<1> QED BY <1>1, <1>2


\* An instance that has used the nonce it derived and not yet logged the execution.
Spending(w, t) == pc[w] \in {"submit", "append"} /\ cur[w].id = t

\* The nonces used of a key that one transfer has are those below the next one it
\* derives, and that one once it is being spent.
NoncesDerived ==
  (OneProcess \/ ~overran) /\ Undisturbed =>
    \A t \in Transfers :
      Created(t) /\ SoleUser(t) /\ Len(executions[t]) <= ExecLimit =>
        /\ \A w \in Workers : pc[w] \in {"fresh", "track"} /\ cur[w].id = t =>
             nonce[w] = Approved[t] + Len(executions[t])
        /\ \A n \in usedNonces[row[t].key] :
             \/ n < Approved[t] + Len(executions[t])
             \/ n = Approved[t] + Len(executions[t]) /\ \E w \in Workers : Spending(w, t)

LEMMA NextKeepsDerived ==
  BaseInv /\ Recorded /\ NoncesDerived /\ [Next]_vars => NoncesDerived'
<1> SUFFICES ASSUME BaseInv, Recorded, NoncesDerived, [Next]_vars,
                    OneProcess' \/ ~overran', Undisturbed', NEW t \in Transfers,
                    Created(t)', SoleUser(t)', Len(executions'[t]) <= ExecLimit
             PROVE  /\ \A w \in Workers : pc'[w] \in {"fresh", "track"} /\ cur'[w].id = t =>
                         nonce'[w] = Approved[t] + Len(executions'[t])
                    /\ \A n \in usedNonces'[row'[t].key] :
                         \/ n < Approved[t] + Len(executions'[t])
                         \/ /\ n = Approved[t] + Len(executions'[t])
                            /\ \E w \in Workers : Spending(w, t)'
  BY DEF NoncesDerived
<1>0. TypeOK /\ (OneProcess \/ ~overran) /\ Undisturbed
  BY ConditionsShrink DEF BaseInv
<1> DEFINE l == Len(executions[t])
           l1 == Len(executions'[t])
<1>1. /\ l \in Nat /\ Approved[t] \in Nat /\ ExecLimit \in Nat /\ executions[t] \in Seq({"success", "failed"})
      /\ \A n \in usedNonces[row[t].key] : n \in Nat
  <2>1. executions[t] \in Seq({"success", "failed"}) /\ Approved[t] \in Nat /\ ExecLimit \in Nat
    BY <1>0, SchedulerAssumption DEF TypeOK
  <2>2. row[t].key \in SessionKeys
    BY <1>0 DEF TypeOK, Row
  <2>3. usedNonces[row[t].key] \subseteq Nat
    BY <1>0, <2>2 DEF TypeOK
  <2> QED BY <2>1, <2>3
\* An instance at the check of a nonce was there before or has just derived it.
<1>2. ASSUME NEW w \in Workers, pc'[w] \in {"fresh", "track"}
      PROVE  /\ pc[w] \in {"count", "fresh", "track"} /\ cur'[w] = cur[w]
             /\ \/ pc[w] = "count" /\ nonce'[w] = DerivedNonce(cur[w].id) /\ UNCHANGED executions
                \/ pc[w] # "count" /\ nonce'[w] = nonce[w]
  <2>1. CASE CountExecutions(w)
    BY <1>0, <2>1 DEF CountExecutions, Goto, TypeOK, dbVars
  <2>2. CASE ValidateRelay(w)
    BY <1>0, <1>2, <2>2 DEF ValidateRelay, Goto, TypeOK
  <2>3. CASE pc'[w] = pc[w]
    BY <1>0, <1>2, <2>3, Arrivals DEF Holding
  <2> QED BY <1>0, <1>2, <2>1, <2>2, <2>3, Arrivals
<1>3. CASE ~Created(t)
  <2>1. \A w \in Workers : ~(pc'[w] \in {"fresh", "track"} /\ cur'[w].id = t)
    BY <1>2, <1>3, CurKey DEF Holding
  <2>2. \A w \in Workers : ~Tracks(w)
    BY <1>3 DEF Tracks, Created
  <2>3. usedNonces'[row'[t].key] = {}
    <3>1. row'[t].key \in SessionKeys
      BY <1>0, NextType DEF TypeOK, Row
    <3> SUFFICES ASSUME usedNonces[row'[t].key] # {} PROVE FALSE
      BY <2>2, NonceSteps
    <3>2. PICK x \in Transfers : Created(x) /\ row[x].key = row'[t].key
      BY <3>1 DEF Recorded
    <3>3. Created(x)' /\ row'[x].key = row[x].key
      BY <1>0, <3>2, RowsPersist
    <3> QED BY <1>3, <3>2, <3>3 DEF SoleUser
  <2> QED BY <2>1, <2>3
<1>4. CASE Created(t)
  <2>1. SoleUser(t) /\ row'[t].key = row[t].key /\ row[t].key \in SessionKeys
    BY <1>0, <1>4, ConditionsShrink, RowsPersist DEF TypeOK, Row
  <2>2. CASE \E w \in Workers : AppendExecution(w) /\ cur[w].id = t
    <3>1. PICK w \in Workers : AppendExecution(w) /\ cur[w].id = t
      BY <2>2
    <3>2. pc[w] = "append" /\ pc'[w] = "update" /\ UNCHANGED usedNonces
      BY <1>0, <3>1 DEF AppendExecution, Goto, TypeOK
    <3>3. l1 = l + 1
      <4>1. executions'[t] = Append(executions[t], outcome[w]) /\ outcome[w] \in {"success", "failed"}
        BY <1>0, <3>1, LocalsType DEF AppendExecution, Logged, TypeOK
      <4> QED BY <1>1, <4>1
    <3>4. \A v \in Workers : ~(pc'[v] \in {"fresh", "track"} /\ cur'[v].id = t)
      <4> SUFFICES ASSUME NEW v \in Workers, pc'[v] \in {"fresh", "track"}, cur'[v].id = t PROVE FALSE
        OBVIOUS
      <4>1. pc[v] \in Holding /\ cur[v].id = t
        BY <1>2 DEF Holding
      <4>2. v = w
        BY <1>0, <3>1, <3>2, <4>1, OneHolder DEF Holding
      <4> QED BY <3>2, <4>2
    <3>5. l <= ExecLimit
      <4> HIDE DEF l
      <4> QED BY <1>1, <3>3
    <3>6. \A n \in usedNonces[row[t].key] : n \in Nat /\ (n < Approved[t] + l \/ n = Approved[t] + l)
      BY <1>0, <1>1, <1>4, <2>1, <3>5 DEF NoncesDerived
    <3>7. \A n \in usedNonces'[row'[t].key] : n < Approved[t] + l1
      <4> HIDE DEF l, l1
      <4> QED BY <1>1, <2>1, <3>2, <3>3, <3>6
    <3> QED BY <3>4, <3>7
  <2>3. CASE \A w \in Workers : AppendExecution(w) => cur[w].id # t
    <3>1. executions'[t] = executions[t]
      <4>1. \A w \in Workers : ~DbError(w)
        BY <1>0 DEF DbError, Undisturbed, TypeOK
      <4> QED BY <1>0, <2>3, <4>1, LogSteps
    <3>2. /\ \A w \in Workers : pc[w] \in {"fresh", "track"} /\ cur[w].id = t =>
               nonce[w] = Approved[t] + l
          /\ \A n \in usedNonces[row[t].key] :
               \/ n < Approved[t] + l
               \/ n = Approved[t] + l /\ \E w \in Workers : Spending(w, t)
      BY <1>0, <1>4, <2>1, <3>1 DEF NoncesDerived
    <3>3. ASSUME NEW w \in Workers, pc'[w] \in {"fresh", "track"}, cur'[w].id = t
          PROVE  nonce'[w] = Approved[t] + l
      <4>1. CASE pc[w] = "count"
        BY <1>2, <3>1, <3>3, <4>1 DEF DerivedNonce
      <4>2. CASE pc[w] # "count"
        BY <1>2, <3>2, <3>3, <4>2
      <4> QED BY <4>1, <4>2
    <3>4. ASSUME NEW n \in usedNonces'[row'[t].key]
          PROVE  n < Approved[t] + l \/ (n = Approved[t] + l /\ \E w \in Workers : Spending(w, t)')
      <4>0. \A v \in Workers : Tracks(v) => TrackNonce(v)
        BY <1>0 DEF Tracks, DbError, Undisturbed, TypeOK
      <4>1. CASE \E v \in Workers : TrackNonce(v) /\ cur[v].row.key = row[t].key
        <5>1. PICK v \in Workers : TrackNonce(v) /\ cur[v].row.key = row[t].key
          BY <4>1
        <5>2. /\ pc[v] = "track" /\ pc'[v] = "submit" /\ cur' = cur
              /\ usedNonces'[row[t].key] = usedNonces[row[t].key] \union {nonce[v]}
          BY <1>0, <2>1, <5>1 DEF TrackNonce, Goto, TypeOK, tickVars
        <5>3. cur[v].id = t
          BY <2>1, <5>1, <5>2, CurKey DEF SoleUser, Holding
        <5>4. Spending(v, t)'
          BY <5>2, <5>3 DEF Spending
        <5>5. nonce[v] = Approved[t] + l
          BY <3>2, <5>2, <5>3
        <5> QED BY <2>1, <3>2, <3>4, <5>2, <5>4, <5>5
      <4>2. CASE \A v \in Workers : TrackNonce(v) => cur[v].row.key # row[t].key
        <5>1. usedNonces'[row[t].key] = usedNonces[row[t].key]
          <6>1. ASSUME NEW v \in Workers, TrackNonce(v)
                PROVE  usedNonces'[row[t].key] = usedNonces[row[t].key]
            <7>1. cur[v].row.key # row[t].key
              BY <4>2, <6>1
            <7> QED BY <1>0, <2>1, <6>1, <7>1 DEF TrackNonce, TypeOK
          <6> QED BY <4>0, <6>1, NonceSteps
        <5>2. ASSUME NEW w \in Workers, Spending(w, t) PROVE Spending(w, t)'
          <6>1. ~DbError(w) /\ ~Crash(w)
            BY <1>0 DEF DbError, Crash, Undisturbed, TypeOK
          <6>2. CASE Submit(w)
            BY <1>0, <5>2, <6>2 DEF Submit, Goto, TypeOK, Spending
          <6>3. CASE ~Submit(w)
            <7>1. ~WorkerStep(w) /\ ~Restart(w)
              BY <2>3, <5>2, <6>3 DEF Spending, WorkerStep, StartTick, TryAcquire, CountExecutions,
                 ValidateRelay, TrackNonce, UpdateAfterExecution, Notify, Release, Restart, Goto
            <7> QED BY <1>0, <5>2, <6>1, <7>1, LocalsChange DEF Spending
          <6> QED BY <6>2, <6>3
        <5> QED BY <2>1, <3>2, <3>4, <5>1, <5>2
      <4> QED BY <4>1, <4>2
    <3> QED BY <3>1, <3>3, <3>4
  <2> QED BY <2>2, <2>3
<1> QED BY <1>3, <1>4


\* The execution log can be trusted, for any transfers, failure cap, limits, crashes
\* and failing queries: the failure count of a row is the streak of failures its log
\* ends with, and the nonce derived from its length is new (executeTransfer).
THEOREM LogTrusted == Spec => []LogIsTrusted
<1> DEFINE I == Logs /\ SnapshotsFresh /\ FailuresFollow /\ NoncesDerived
<1>1. Init => I
  <2> SUFFICES ASSUME Init PROVE I
    OBVIOUS
  <2>1. \A t \in Transfers : executions[t] = << >> /\ row[t].failures = 0 /\ ~Created(t)
    BY DEF Init, Absent, Created
  <2>2. IsStreak(<< >>, 0) /\ \A n \in Nat : IsStreak(<< >>, n) => n = 0
    BY DEF IsStreak
  <2>3. Logs
    BY <2>1, <2>2 DEF Logs
  <2>4. SnapshotsFresh
    BY DEF Init, SnapshotsFresh, Executing
  <2>5. \A w \in Workers, t \in Transfers : ~Updating(w, t)
    BY DEF Init, Updating
  <2>6. FailuresFollow
    BY <2>1, <2>2, <2>5 DEF FailuresFollow
  <2>7. NoncesDerived
    BY <2>1 DEF NoncesDerived
  <2> QED BY <2>3, <2>4, <2>6, <2>7
<1>2. BaseInv /\ Recorded /\ I /\ [Next]_vars => I'
  BY NextKeepsLogs, NextKeepsSnapshots, NextKeepsFailures, NextKeepsDerived
<1>3. BaseInv /\ Recorded /\ I => LogIsTrusted
  <2> SUFFICES ASSUME BaseInv, Recorded, I PROVE LogIsTrusted
    OBVIOUS
  <2>0. TypeOK
    BY DEF BaseInv
  <2>1. ASSUME OneProcess, Undisturbed, NEW t \in Transfers, \A w \in Workers : ~Holds(w, t),
               Streak(t) < MaxFailures
        PROVE  row[t].failures = Streak(t)
    <3>1. PICK n \in Nat : IsStreak(executions[t], n)
      BY DEF Logs
    <3>2. Streak(t) = n
      BY <2>0, <3>1, StreakIs
    <3>3. \A w \in Workers : ~Updating(w, t)
      BY <2>1 DEF Updating, Holds, Holding
    <3> QED BY <2>1, <3>1, <3>2, <3>3 DEF FailuresFollow
  <2>2. ASSUME OneProcess \/ ~overran, Undisturbed, NEW w \in Workers, pc[w] = "fresh",
               SoleUser(cur[w].id), Len(executions[cur[w].id]) <= ExecLimit
        PROVE  NonceFresh(w)
    <3> DEFINE t == cur[w].id
               A == Approved[t] + Len(executions[t])
    <3>1. t \in Transfers /\ Created(t) /\ cur[w].row.key = row[t].key
      BY <2>2, CurKey DEF Holding
    <3>2. A \in Nat
      BY <2>0, <3>1, SchedulerAssumption DEF TypeOK
    <3>3. \A v \in Workers : ~Spending(v, t)
      BY <2>2, OneHolder DEF Spending, Holding
    <3>4. nonce[w] = A /\ \A n \in usedNonces[row[t].key] : n < A
      BY <2>2, <3>1, <3>3 DEF NoncesDerived
    <3> HIDE DEF A
    <3>5. nonce[w] \notin usedNonces[row[t].key]
      BY <3>2, <3>4
    <3> QED BY <3>1, <3>5 DEF NonceFresh
  <2> QED BY <2>1, <2>2 DEF LogIsTrusted, FailuresMatchLog, DerivedNonceFresh
<1> QED BY <1>1, <1>2, <1>3, BaseInvariant, RecordedInvariant, PTL DEF Spec


=============================================================================
