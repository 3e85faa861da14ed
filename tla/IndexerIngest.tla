--------------------------- MODULE IndexerIngest ---------------------------
(***************************************************************************)
(* Ingestion of contract events by the indexer: the workers that poll the  *)
(* Soroban RPC node behind a checkpoint, and the two commands an operator  *)
(* runs beside them, backfill and reprocess-dead-letters.                  *)
(*                                                                         *)
(* An event is its position in the network's event stream.  Every awaited  *)
(* query is a step; what a process holds between two steps is in its job.  *)
(***************************************************************************)
EXTENDS Integers, FiniteSets, Sequences

CONSTANTS
  Events,       \* positions in the event stream
  Ledger,       \* ledger of each event
  Row,          \* unique key (tx_hash, type, ledger_seq) of each event's rows
  Letter,       \* unique key (stream, ledger_seq, tx_hash) of its dead letter
  Quality,      \* "fine", "fixable" by the next release, "broken", or
                \* "garbled": not even a RawEvent can be made of it
  Workers,      \* instances that run the ingest worker
  Operators,    \* processes that run one-shot commands
  Batch,        \* batch_size
  Limit,        \* --limit of reprocess-dead-letters
  MaxLedger,    \* bound on the chain
  MaxFailures   \* bound on failing queries and dying processes

ASSUME IngestAssumption ==
  /\ Events \subseteq Nat /\ IsFiniteSet(Events)
  /\ Ledger \in [Events -> 1..MaxLedger]
  /\ \A e, f \in Events : e < f => Ledger[e] <= Ledger[f]
  /\ Quality \in [Events -> {"fine", "fixable", "broken", "garbled"}]
  /\ Workers \intersect Operators = {}
  /\ Batch \in Nat \ {0} /\ Limit \in Nat /\ MaxLedger \in Nat /\ MaxFailures \in Nat

VARIABLES
  tip,          \* last ledger the RPC node serves
  fixed,        \* the release that normalises the fixable events is deployed
  checkpoint,   \* ingest_checkpoints, 0 without a row
  events,       \* contract_events: the events whose rows these are
  activity,     \* account_activity
  dead,         \* ingest_dead_letters in the order of created_at
  reprocessed,  \* the dead letters with a reprocessed_at
  job,          \* what each process is doing
  failures

tables == <<checkpoint, events, activity, dead, reprocessed>>
vars == <<tip, fixed, checkpoint, events, activity, dead, reprocessed, job, failures>>

-----------------------------------------------------------------------------
Processes == Workers \union Operators

\* last is the cursor (last_seq, current_ledger), high max_ledger; from and to
\* are a backfill's range, letters the rows a reprocessing will mark.
Job == [cmd : {"none", "ingest", "backfill", "reprocess"},
        at : {"boot", "reseed", "idle", "fetch", "write", "activity"},
        last : Nat, high : Nat, from : Nat, to : Nat,
        todo : SUBSET Events, failed : SUBSET Events, letters : SUBSET Nat]

Idle == [cmd |-> "none", at |-> "idle", last |-> 0, high |-> 0, from |-> 0, to |-> 0,
         todo |-> {}, failed |-> {}, letters |-> {}]

\* A process that is started: a worker bootstraps, a command waits to be run.
Started == [p \in Processes |-> IF p \in Workers THEN [Idle EXCEPT !.at = "boot"] ELSE Idle]

TypeOK ==
  /\ tip \in Nat /\ fixed \in BOOLEAN /\ checkpoint \in Nat
  /\ events \subseteq Events /\ activity \subseteq Events
  /\ dead \in Seq(Events) /\ reprocessed \subseteq DOMAIN dead
  /\ job \in [Processes -> Job]
  /\ failures \in Nat

Init ==
  /\ tip = 0 /\ fixed = FALSE /\ checkpoint = 0
  /\ events = {} /\ activity = {} /\ dead = << >> /\ reprocessed = {}
  /\ job = Started
  /\ failures = 0

-----------------------------------------------------------------------------
(***************************************************************************)
(* The RPC node and normalisation.                                         *)
(***************************************************************************)

\* The first Batch events after a ledger: getEvents with startLedger and limit.
Page ==
  [after \in 0..MaxLedger |->
     {e \in Events : Ledger[e] > after
                     /\ Cardinality({f \in Events : Ledger[f] > after /\ f < e}) < Batch}]

\* What fetch returns: convert_event drops what it cannot parse.
Fetched(after) == {e \in Page[after] : Ledger[e] <= tip /\ Quality[e] # "garbled"}

Normalises(e) == Quality[e] = "fine" \/ (Quality[e] = "fixable" /\ fixed)

IsFirst(e, S) == e \in S /\ \A f \in S : e <= f
IsLast(e, S) == e \in S /\ \A f \in S : f <= e

-----------------------------------------------------------------------------
(***************************************************************************)
(* IngestWorker: bootstrap_from_store and run_once.                        *)
(***************************************************************************)

\* The start loads the checkpoint and, if there is one, saves it again.
BootLoad(w) ==
  /\ job[w].at = "boot"
  /\ job' = [job EXCEPT ![w] = IF checkpoint = 0 THEN Idle
                               ELSE [Idle EXCEPT !.at = "reseed", !.last = checkpoint]]
  /\ UNCHANGED <<tip, fixed, tables, failures>>

BootSave(w) ==
  /\ job[w].at = "reseed"
  /\ checkpoint' = job[w].last
  /\ job' = [job EXCEPT ![w] = Idle]
  /\ UNCHANGED <<tip, fixed, events, activity, dead, reprocessed, failures>>

Load(w) ==
  /\ job[w].at = "idle"
  /\ job' = [job EXCEPT ![w] = [Idle EXCEPT !.cmd = "ingest", !.at = "fetch", !.last = checkpoint]]
  /\ UNCHANGED <<tip, fixed, tables, failures>>

FailedNone(batch) == {} \* mutant: failures are logged and forgotten
Failed(batch) == {e \in batch : ~ Normalises(e)}

FetchBatch(w) ==
  LET batch == Fetched(job[w].last) IN
  /\ job[w].cmd = "ingest" /\ job[w].at = "fetch"
  /\ \/ batch = {} /\ job' = [job EXCEPT ![w] = Idle]
     \/ \E h \in batch :
          /\ IsLast(h, batch)
          /\ job' = [job EXCEPT ![w] =
               [@ EXCEPT !.at = "write", !.high = Ledger[h], !.failed = Failed(batch),
                         !.todo = {e \in batch : Normalises(e)}]]
  /\ UNCHANGED <<tip, fixed, tables, failures>>

-----------------------------------------------------------------------------
(***************************************************************************)
(* BackfillCommand.run and reprocess_dead_letters.                         *)
(***************************************************************************)
CursorAtFrom(from) == from \* mutant: the first ledger is skipped
Cursor(from) == from - 1

StartBackfill(o, from, to) ==
  /\ job[o].at = "idle"
  /\ from <= to
  /\ job' = [job EXCEPT ![o] = [Idle EXCEPT !.cmd = "backfill", !.at = "fetch",
                                            !.last = Cursor(from), !.from = from, !.to = to]]
  /\ UNCHANGED <<tip, fixed, tables, failures>>

\* An event that fails to normalise is skipped with a warning.
FetchRange(o) ==
  LET batch == Fetched(job[o].last) IN
  /\ job[o].cmd = "backfill" /\ job[o].at = "fetch"
  /\ \/ batch = {} /\ job' = [job EXCEPT ![o] = Idle]
     \/ \E h \in batch :
          /\ IsLast(h, batch)
          /\ job' = [job EXCEPT ![o] =
               [@ EXCEPT !.at = "write", !.last = Ledger[h],
                         !.todo = {e \in batch : Normalises(e)
                                                 /\ Ledger[e] \in job[o].from..job[o].to}]]
  /\ UNCHANGED <<tip, fixed, tables, failures>>

\* list_unprocessed: the oldest pending rows, up to the limit.
Pending == DOMAIN dead \ reprocessed
Listed == {i \in Pending : Cardinality({j \in Pending : j < i}) < Limit}
ResolvedFromZero == {i - 1 : i \in {j \in Listed : Normalises(dead[j])}} \* mutant: rows off by one
ResolvedAll == Listed \* mutant: every candidate is marked
Resolved == {i \in Listed : Normalises(dead[i])}

StartReprocess(o) ==
  /\ job[o].at = "idle"
  /\ \E i \in Listed : Normalises(dead[i])
  /\ job' = [job EXCEPT ![o] = [Idle EXCEPT !.cmd = "reprocess", !.at = "write",
                                  !.todo = {dead[i] : i \in {j \in Listed : Normalises(dead[j])}},
                                  !.letters = Resolved]]
  /\ UNCHANGED <<tip, fixed, tables, failures>>

-----------------------------------------------------------------------------
(***************************************************************************)
(* The writes that end all three, one statement at a time.                 *)
(***************************************************************************)

\* Each table holds one row per transaction, type and ledger.
HasRow(rows, e) == \E f \in rows : Row[f] = Row[e]
\* INSERT ... ON CONFLICT (key) DO NOTHING.
Inserted(rows, e) == IF HasRow(rows, e) THEN rows ELSE rows \union {e}
HasLetter(e) == \E i \in DOMAIN dead : Letter[dead[i]] = Letter[e]

\* persist_failures comes before the sink.
WriteDeadLetter(p) ==
  /\ job[p].at = "write"
  /\ \E e \in job[p].failed :
       /\ IsFirst(e, job[p].failed)
       /\ dead' = IF HasLetter(e) THEN dead ELSE Append(dead, e)
       /\ job' = [job EXCEPT ![p].failed = @ \ {e}]
  /\ UNCHANGED <<tip, fixed, checkpoint, events, activity, reprocessed, failures>>

WriteEvent(p) ==
  /\ job[p].at = "write" /\ job[p].failed = {}
  /\ \E e \in job[p].todo : IsFirst(e, job[p].todo) /\ events' = Inserted(events, e)
  /\ job' = [job EXCEPT ![p].at = "activity"]
  /\ UNCHANGED <<tip, fixed, checkpoint, activity, dead, reprocessed, failures>>

WriteActivity(p) ==
  /\ job[p].at = "activity"
  /\ \E e \in job[p].todo :
       /\ IsFirst(e, job[p].todo)
       /\ activity' = Inserted(activity, e)
       /\ job' = [job EXCEPT ![p].at = "write", ![p].todo = @ \ {e}]
  /\ UNCHANGED <<tip, fixed, checkpoint, events, dead, reprocessed, failures>>

Written(p) == job[p].at = "write" /\ job[p].failed = {} /\ job[p].todo = {}

SavedCursor(w) == job[w].last \* mutant: last_seq is saved again
Saved(w) == job[w].high

\* checkpoint.save is an upsert: the last writer wins.
Save(w) ==
  /\ Written(w) /\ job[w].cmd = "ingest"
  /\ checkpoint' = Saved(w)
  /\ job' = [job EXCEPT ![w] = Idle]
  /\ UNCHANGED <<tip, fixed, events, activity, dead, reprocessed, failures>>

NextPage(o) ==
  /\ Written(o) /\ job[o].cmd = "backfill"
  /\ job' = [job EXCEPT ![o] = IF @.last >= @.to THEN Idle ELSE [@ EXCEPT !.at = "fetch"]]
  /\ UNCHANGED <<tip, fixed, tables, failures>>

MarkReprocessed(o) ==
  /\ Written(o) /\ job[o].cmd = "reprocess"
  /\ reprocessed' = reprocessed \union job[o].letters
  /\ job' = [job EXCEPT ![o] = Idle]
  /\ UNCHANGED <<tip, fixed, checkpoint, events, activity, dead, failures>>

Write(p) == WriteDeadLetter(p) \/ WriteEvent(p) \/ WriteActivity(p)
WorkerStep(w) == BootLoad(w) \/ BootSave(w) \/ Load(w) \/ FetchBatch(w) \/ Write(w) \/ Save(w)
OperatorStep(o) == FetchRange(o) \/ Write(o) \/ NextPage(o) \/ MarkReprocessed(o)

-----------------------------------------------------------------------------
(***************************************************************************)
(* The environment.                                                        *)
(***************************************************************************)
CloseLedger ==
  /\ tip < MaxLedger
  /\ tip' = tip + 1
  /\ UNCHANGED <<fixed, tables, job, failures>>

\* The processes are replaced by ones of the next release.
Deploy ==
  /\ ~ fixed
  /\ fixed' = TRUE
  /\ job' = Started
  /\ UNCHANGED <<tip, tables, failures>>

\* An await fails: the batch is dropped, a worker goes on with its next tick and
\* a command ends.  A failing bootstrap ends the process, as its death does at
\* any point; it is started again.
Fail(p) ==
  /\ failures < MaxFailures
  /\ failures' = failures + 1
  /\ job[p].at # "idle"
  /\ \/ job' = [job EXCEPT ![p] = Started[p]]
     \/ job[p].at \notin {"boot", "reseed"} /\ job' = [job EXCEPT ![p] = Idle]
  /\ UNCHANGED <<tip, fixed, tables>>

Next ==
  \/ CloseLedger \/ Deploy
  \/ \E w \in Workers : WorkerStep(w)
  \/ \E o \in Operators :
       OperatorStep(o) \/ StartReprocess(o)
       \/ \E from, to \in 1..MaxLedger : StartBackfill(o, from, to)
  \/ \E p \in Processes : Fail(p)

Spec == Init /\ [][Next]_vars

\* The poll loop of main.rs goes on after an error.
FairSpec == Spec /\ \A w \in Workers : WF_vars(WorkerStep(w))

-----------------------------------------------------------------------------
(***************************************************************************)
(* Properties.                                                             *)
(***************************************************************************)
HasRows(e) == (\E f \in events : Row[f] = Row[e]) /\ (\E f \in activity : Row[f] = Row[e])
Kept(e) == HasRows(e) \/ HasLetter(e)

\* The ledgers that a page can end inside, depending on where it starts.
Cuts ==
  {Ledger[e] : e \in {x \in Events : \E after \in 0..(Ledger[x] - 1) : \E y \in Events :
     Ledger[y] = Ledger[x] /\ x \in Page[after] /\ y \notin Page[after]}}

\* Nothing behind the checkpoint is lost, whatever failed and whichever worker
\* wrote it: each parseable event of a ledger no page can cut has its rows in
\* both tables or its dead letter (run_once saves the checkpoint last).
CheckpointComplete ==
  \A e \in Events :
    Ledger[e] <= checkpoint /\ Quality[e] # "garbled" /\ Ledger[e] \notin Cuts => Kept(e)

\* The checkpoint is the "last ledger sequence that was fully processed"
\* (Checkpoint.last_ledger_seq): the same of every ledger.
LedgersComplete ==
  \A e \in Events : Ledger[e] <= checkpoint /\ Quality[e] # "garbled" => Kept(e)

\* A backfill has stored the whole of its range up to its cursor whenever it
\* asks for the next page (BackfillCommand.run).
BackfillCovers ==
  \A o \in Operators : job[o].cmd = "backfill" /\ job[o].at = "fetch" =>
    \A e \in Events :
      /\ Ledger[e] \in job[o].from..job[o].to /\ Ledger[e] <= job[o].last
      /\ Normalises(e) /\ Ledger[e] \notin Cuts
      => HasRows(e)

\* A dead letter is marked only once its event is in both tables
\* (reprocess_dead_letters marks after the sink has answered).
ReprocessedIsStored == \A i \in reprocessed : HasRows(dead[i])

\* In the end the checkpoint is past every ledger with an event that the node
\* serves, and stays there in spite of blind saves of other workers (run_once
\* and its loop).
CatchesUp ==
  <>[](\A e \in Events : Ledger[e] <= tip /\ Quality[e] # "garbled" => checkpoint >= Ledger[e])
=============================================================================
