------------------------- MODULE IndexerIngestProofs -------------------------
(***************************************************************************)
(* Nothing behind the checkpoint is lost, for any event stream, any number *)
(* of workers and operators, any page size and any failures.               *)
(***************************************************************************)
EXTENDS IndexerIngest, SequenceTheorems, FiniteSetTheorems, TLAPS

\* The events a cursor at ledger l vouches for.
Due(l) == {e \in Events : Ledger[e] <= l /\ Quality[e] # "garbled" /\ Ledger[e] \notin Cuts}

Rowed == {e \in Events : HasRows(e)}
KeptEvents == {e \in Events : Kept(e)}

\* What holds of one job, over the rows of contract_events, the events with
\* both rows, the kept events, the dead letters and the release.
Good(j, rows, rowed, kept, letters, release) ==
  /\ j \in Job /\ j.last \in 0..MaxLedger /\ j.high \in 0..MaxLedger
  /\ j.cmd = "ingest" \/ j.at = "reseed" => Due(j.last) \subseteq kept
  /\ j.cmd = "ingest" /\ j.at \in {"write", "activity"} =>
       Due(j.high) \subseteq kept \union j.todo \union j.failed
  /\ j.cmd = "reprocess" =>
       \A i \in j.letters : i \in DOMAIN letters /\ letters[i] \in rowed \union j.todo
  /\ j.at = "activity" =>
       \E e \in j.todo : IsFirst(e, j.todo) /\ \E f \in rows : Row[f] = Row[e]
  /\ j.at = "fetch" => j.todo = {}
  /\ j.cmd = "backfill" =>
       \A e \in Due(j.last) :
         Ledger[e] \in j.from..j.to /\ (Quality[e] = "fine" \/ (Quality[e] = "fixable" /\ release))
           => e \in rowed \union j.todo

GoodJob(p) == Good(job[p], events, Rowed, KeptEvents, dead, fixed)

Inv ==
  /\ TypeOK
  /\ checkpoint \in 0..MaxLedger /\ Due(checkpoint) \subseteq KeptEvents
  /\ \A i \in reprocessed : dead[i] \in Rowed
  /\ \A p \in Processes : GoodJob(p)

\* Rows and dead letters are only added.
Grows ==
  /\ events \subseteq events' /\ activity \subseteq activity'
  /\ DOMAIN dead \subseteq DOMAIN dead' /\ \A i \in DOMAIN dead : dead'[i] = dead[i]

LEMMA GrowsKeeps ==
  ASSUME Grows
  PROVE  Rowed \subseteq Rowed' /\ KeptEvents \subseteq KeptEvents'
<1>1. \A e \in Events : HasRows(e) => HasRows(e)'
  BY DEF Grows, HasRows
<1>2. \A e \in Events : HasLetter(e) => HasLetter(e)'
  BY DEF Grows, HasLetter
<1> QED BY <1>1, <1>2 DEF Rowed, KeptEvents, Kept

\* A job stays good while the tables grow and the release stays.
LEMMA GoodStays ==
  ASSUME NEW j, NEW rows, NEW rowed, NEW kept, NEW letters, NEW release,
         NEW rows2, NEW rowed2, NEW kept2, NEW letters2,
         Good(j, rows, rowed, kept, letters, release),
         rows \subseteq rows2, rowed \subseteq rowed2, kept \subseteq kept2,
         DOMAIN letters \subseteq DOMAIN letters2,
         \A i \in DOMAIN letters : letters2[i] = letters[i]
  PROVE  Good(j, rows2, rowed2, kept2, letters2, release)
<1>1. j \in Job /\ j.last \in 0..MaxLedger /\ j.high \in 0..MaxLedger
  BY DEF Good
<1>2. j.cmd = "ingest" \/ j.at = "reseed" => Due(j.last) \subseteq kept2
  BY DEF Good
<1>3. j.cmd = "ingest" /\ j.at \in {"write", "activity"} =>
        Due(j.high) \subseteq kept2 \union j.todo \union j.failed
  BY DEF Good
<1>4. j.cmd = "reprocess" =>
        \A i \in j.letters : i \in DOMAIN letters2 /\ letters2[i] \in rowed2 \union j.todo
  BY DEF Good
<1>5. j.at = "activity" =>
        \E e \in j.todo : IsFirst(e, j.todo) /\ \E f \in rows2 : Row[f] = Row[e]
  BY DEF Good
<1>6. j.at = "fetch" => j.todo = {}
  BY DEF Good
<1>7. j.cmd = "backfill" =>
       \A e \in Due(j.last) :
         Ledger[e] \in j.from..j.to /\ (Quality[e] = "fine" \/ (Quality[e] = "fixable" /\ release))
           => e \in rowed2 \union j.todo
  BY DEF Good
<1> QED BY <1>1, <1>2, <1>3, <1>4, <1>5, <1>6, <1>7 DEF Good

\* A process that waits or is started has nothing to answer for.
LEMMA IdleGood ==
  ASSUME NEW rows, NEW rowed, NEW kept, NEW letters, NEW release, NEW p \in Processes
  PROVE  /\ Good(Idle, rows, rowed, kept, letters, release)
         /\ Good(Started[p], rows, rowed, kept, letters, release)
<1>1. Idle \in Job /\ [Idle EXCEPT !.at = "boot"] \in Job
  BY DEF Idle, Job
<1>2. Started[p] = Idle \/ Started[p] = [Idle EXCEPT !.at = "boot"]
  BY DEF Started
<1>3. 0 \in 0..MaxLedger
  BY IngestAssumption
<1> QED BY <1>1, <1>2, <1>3 DEF Good, Idle

LEMMA OneJob ==
  ASSUME Inv, Grows, fixed' = fixed, NEW p \in Processes, NEW b,
         job' = [job EXCEPT ![p] = b],
         Good(b, events', Rowed', KeptEvents', dead', fixed')
  PROVE  job' \in [Processes -> Job] /\ \A q \in Processes : GoodJob(q)'
<1>1. job \in [Processes -> Job] /\ b \in Job
  BY DEF Inv, TypeOK, Good
<1>2. ASSUME NEW q \in Processes
      PROVE  Good(job'[q], events', Rowed', KeptEvents', dead', fixed')
  <2>1. CASE q = p
    BY <1>1, <2>1
  <2>2. CASE q # p
    <3>1. job'[q] = job[q] /\ Good(job[q], events, Rowed, KeptEvents, dead, fixed)
      BY <1>1, <2>2 DEF Inv, GoodJob
    <3>2. Good(job[q], events', Rowed', KeptEvents', dead', fixed)
      BY <3>1, GrowsKeeps, GoodStays DEF Grows
    <3> QED BY <3>1, <3>2
  <2> QED BY <2>1, <2>2
<1> QED BY <1>1, <1>2 DEF GoodJob

\* A step of one process that only adds rows and dead letters.
LEMMA JobStep ==
  ASSUME Inv, Grows, fixed' = fixed, NEW p \in Processes, NEW b,
         job' = [job EXCEPT ![p] = b],
         Good(b, events', Rowed', KeptEvents', dead', fixed'),
         tip' \in Nat, failures' \in Nat, events' \subseteq Events, activity' \subseteq Events,
         dead' \in Seq(Events),
         checkpoint' = checkpoint \/ (checkpoint' \in 0..MaxLedger /\ Due(checkpoint') \subseteq KeptEvents'),
         \A i \in reprocessed' :
           i \in reprocessed \/ (i \in DOMAIN dead' /\ dead'[i] \in Rowed')
  PROVE  Inv'
<1>1. checkpoint' \in 0..MaxLedger /\ Due(checkpoint') \subseteq KeptEvents'
  BY GrowsKeeps DEF Inv
<1>2. reprocessed' \subseteq DOMAIN dead' /\ \A i \in reprocessed' : dead'[i] \in Rowed'
  BY GrowsKeeps DEF Inv, TypeOK, Grows
<1>3. job' \in [Processes -> Job] /\ \A q \in Processes : GoodJob(q)'
  BY OneJob
<1>4. checkpoint' \in Nat /\ fixed' \in BOOLEAN
  BY <1>1, IngestAssumption DEF Inv, TypeOK
<1>5. TypeOK'
  BY <1>2, <1>3, <1>4 DEF TypeOK
<1>6. Due(checkpoint)' \subseteq KeptEvents'
  BY <1>1 DEF Due, Cuts
<1> QED BY <1>1, <1>2, <1>3, <1>5, <1>6 DEF Inv

\* A step that changes nothing but one job and the count of failures.
LEMMA JobOnly ==
  ASSUME Inv, UNCHANGED <<tip, fixed, tables>>, failures' \in Nat, NEW p \in Processes, NEW b,
         job' = [job EXCEPT ![p] = b],
         Good(b, events, Rowed, KeptEvents, dead, fixed)
  PROVE  Inv'
<1>1. Grows
  BY DEF Grows, tables
<1>2. Rowed' = Rowed /\ KeptEvents' = KeptEvents
  BY DEF tables, Rowed, KeptEvents, Kept, HasRows, HasLetter
<1>3. Good(b, events', Rowed', KeptEvents', dead', fixed')
  BY <1>2 DEF tables
<1>4. /\ tip' \in Nat /\ events' \subseteq Events /\ activity' \subseteq Events
      /\ dead' \in Seq(Events) /\ fixed' = fixed
  BY DEF Inv, TypeOK, tables
<1>5. checkpoint' = checkpoint \/ (checkpoint' \in 0..MaxLedger /\ Due(checkpoint') \subseteq KeptEvents')
  BY DEF tables
<1>6. \A i \in reprocessed' :
        i \in reprocessed \/ (i \in DOMAIN dead' /\ dead'[i] \in Rowed')
  BY DEF tables
<1> QED BY ONLY <1>1, <1>3, <1>4, <1>5, <1>6, JobStep, Inv, failures' \in Nat, p \in Processes,
           job' = [job EXCEPT ![p] = b]

-----------------------------------------------------------------------------
\* A page reaches every event behind its last one, except in a ledger that
\* it cuts.
LEMMA PageClosed ==
  ASSUME NEW after \in 0..MaxLedger, NEW h \in Page[after], NEW e \in Events,
         Ledger[e] > after, Ledger[e] <= Ledger[h], Ledger[e] \notin Cuts
  PROVE  e \in Page[after]
<1>1. h \in Events /\ Ledger[h] > after /\ Ledger[h] \in Nat /\ Ledger[e] \in Nat
  BY IngestAssumption DEF Page
<1>2. CASE Ledger[e] = Ledger[h]
  <2>1. after \in 0..(Ledger[h] - 1)
    BY <1>1, IngestAssumption
  <2> QED BY <1>1, <1>2, <2>1 DEF Cuts
<1>3. CASE Ledger[e] < Ledger[h]
  <2>1. e < h /\ e \in Nat /\ h \in Nat
    BY <1>1, <1>3, IngestAssumption
  <2> DEFINE Below(x) == {f \in Events : Ledger[f] > after /\ f < x}
  <2>2. Below(e) \subseteq Below(h) /\ Below(h) \subseteq Events
    <3>1. \A f \in Events : f < e => f < h
      BY <2>1, IngestAssumption
    <3> QED BY <3>1
  <2>3. IsFiniteSet(Below(h)) /\ IsFiniteSet(Below(e))
    BY <2>2, FS_Subset, IngestAssumption
  <2>4. Cardinality(Below(e)) <= Cardinality(Below(h))
    BY <2>2, <2>3, FS_Subset
  <2>5. Cardinality(Below(h)) < Batch
    BY DEF Page
  <2>6. Cardinality(Below(e)) \in Nat /\ Cardinality(Below(h)) \in Nat
    BY <2>3, FS_CardinalityType
  <2>7. Cardinality(Below(e)) < Batch
    BY <2>4, <2>5, <2>6, IngestAssumption
  <2> QED BY <2>7 DEF Page
<1> QED BY <1>1, <1>2, <1>3

\* What a fetch brings the cursor from a ledger to that of its last event.
LEMMA FetchedClosed ==
  ASSUME NEW after \in 0..MaxLedger, tip \in Nat, NEW h, IsLast(h, Fetched(after))
  PROVE  /\ h \in Events /\ Ledger[h] \in 0..MaxLedger /\ Fetched(after) \subseteq Events
         /\ \A e \in Due(Ledger[h]) : e \in Due(after) \/ e \in Fetched(after)
<1>1. h \in Page[after] /\ Ledger[h] <= tip /\ h \in Events
  BY DEF IsLast, Fetched, Page
<1>2. Ledger[h] \in 0..MaxLedger /\ Fetched(after) \subseteq Events
  BY <1>1, IngestAssumption DEF Fetched, Page
<1>3. ASSUME NEW e \in Due(Ledger[h]), e \notin Due(after)
      PROVE  e \in Fetched(after)
  <2>1. /\ e \in Events /\ Ledger[e] \in Nat /\ Ledger[e] > after
        /\ Ledger[e] <= Ledger[h] /\ Ledger[e] \notin Cuts /\ Quality[e] # "garbled"
    BY <1>3, <1>2, IngestAssumption DEF Due
  <2>2. e \in Page[after]
    BY <1>1, <2>1, PageClosed
  <2> QED BY <1>1, <1>2, <2>1, <2>2 DEF Fetched
<1> QED BY <1>1, <1>2, <1>3

-----------------------------------------------------------------------------
LEMMA InitInv == Init => Inv
<1> SUFFICES ASSUME Init PROVE Inv
  OBVIOUS
<1>1. \A p \in Processes : GoodJob(p)
  BY IdleGood DEF Init, GoodJob
<1>2. \A p \in Processes : Started[p] \in Job
  BY IdleGood DEF Good
<1>3. Started \in [Processes -> Job]
  BY <1>2 DEF Started
<1>4. dead \in Seq(Events) /\ DOMAIN dead = {}
  BY EmptySeq DEF Init
<1>5. TypeOK
  BY <1>3, <1>4 DEF Init, TypeOK
<1>6. checkpoint \in 0..MaxLedger /\ Due(checkpoint) = {}
  <2>1. \A e \in Events : Ledger[e] \in 1..MaxLedger
    BY IngestAssumption
  <2>2. \A e \in Events : ~ (Ledger[e] <= 0)
    BY <2>1
  <2>3. checkpoint = 0 /\ 0 \in 0..MaxLedger
    BY IngestAssumption DEF Init
  <2> QED BY <2>2, <2>3 DEF Due
<1> QED BY <1>1, <1>5, <1>6 DEF Init, Inv

\* The steps of a worker before its writes.
LEMMA BootStep ==
  ASSUME Inv, NEW w \in Workers, BootLoad(w) \/ BootSave(w) \/ Load(w)
  PROVE  Inv'
<1>1. w \in Processes /\ job \in [Processes -> Job] /\ GoodJob(w)
  BY DEF Processes, Inv, TypeOK
<1>2. checkpoint \in 0..MaxLedger /\ checkpoint \in Nat /\ Due(checkpoint) \subseteq KeptEvents
  BY IngestAssumption DEF Inv
<1>3. failures \in Nat /\ 0 \in 0..MaxLedger
  BY IngestAssumption DEF Inv, TypeOK
<1>4. CASE BootLoad(w)
  <2> DEFINE b == IF checkpoint = 0 THEN Idle
                  ELSE [Idle EXCEPT !.at = "reseed", !.last = checkpoint]
  <2>1. Good(b, events, Rowed, KeptEvents, dead, fixed)
    BY <1>1, <1>2, <1>3, IdleGood DEF Good, Idle, Job
  <2>2. job' = [job EXCEPT ![w] = b] /\ UNCHANGED <<tip, fixed, tables>> /\ failures' \in Nat
    BY <1>3, <1>4 DEF BootLoad
  <2> HIDE DEF b
  <2> QED BY <1>1, <2>1, <2>2, JobOnly
<1>5. CASE BootSave(w)
  <2>1. Grows /\ checkpoint' = job[w].last /\ UNCHANGED <<tip, fixed, events, activity, dead, reprocessed, failures>>
    BY <1>5 DEF BootSave, Grows
  <2>2. checkpoint' \in 0..MaxLedger /\ Due(checkpoint') \subseteq KeptEvents
    BY <1>1, <1>5, <2>1 DEF BootSave, GoodJob, Good
  <2>3. KeptEvents' = KeptEvents /\ Rowed' = Rowed
    BY <2>1 DEF KeptEvents, Kept, Rowed, HasRows, HasLetter
  <2>4. job' = [job EXCEPT ![w] = Idle] /\ Good(Idle, events', Rowed', KeptEvents', dead', fixed')
    BY <1>1, <1>5, IdleGood DEF BootSave
  <2>5. /\ tip' \in Nat /\ failures' \in Nat /\ events' \subseteq Events /\ activity' \subseteq Events
        /\ dead' \in Seq(Events) /\ \A i \in reprocessed' : i \in reprocessed
    BY <2>1 DEF Inv, TypeOK
  <2> QED BY <1>1, <2>1, <2>2, <2>3, <2>4, <2>5, JobStep
<1>6. CASE Load(w)
  <2> DEFINE b == [Idle EXCEPT !.cmd = "ingest", !.at = "fetch", !.last = checkpoint]
  <2>1. Good(b, events, Rowed, KeptEvents, dead, fixed)
    BY <1>2, <1>3 DEF Good, Idle, Job
  <2>2. job' = [job EXCEPT ![w] = b] /\ UNCHANGED <<tip, fixed, tables>> /\ failures' \in Nat
    BY <1>3, <1>6 DEF Load
  <2> HIDE DEF b
  <2> QED BY <1>1, <2>1, <2>2, JobOnly
<1> QED BY <1>4, <1>5, <1>6

\* The two fetches: the new cursor vouches for what the old one did and for
\* the page.
LEMMA FetchBatchStep ==
  ASSUME Inv, NEW w \in Workers, FetchBatch(w)
  PROVE  Inv'
<1>1. /\ w \in Processes /\ job \in [Processes -> Job] /\ job[w] \in Job /\ GoodJob(w)
      /\ tip \in Nat /\ failures \in Nat
  BY DEF Processes, Inv, TypeOK
<1>2. /\ job[w].cmd = "ingest" /\ job[w].at = "fetch"
      /\ UNCHANGED <<tip, fixed, tables>> /\ failures' \in Nat
  BY <1>1 DEF FetchBatch
<1>3. /\ job[w].last \in 0..MaxLedger /\ job[w].todo = {}
      /\ Due(job[w].last) \subseteq KeptEvents
  BY <1>1, <1>2 DEF GoodJob, Good
<1>4. CASE job' = [job EXCEPT ![w] = Idle]
  BY <1>1, <1>2, <1>4, IdleGood, JobOnly
<1> DEFINE batch == Fetched(job[w].last)
<1>5. ASSUME NEW h \in batch, IsLast(h, batch),
             job' = [job EXCEPT ![w] =
               [@ EXCEPT !.at = "write", !.high = Ledger[h], !.failed = Failed(batch),
                         !.todo = {e \in batch : Normalises(e)}]]
      PROVE  Inv'
  <2>1. /\ h \in Events /\ Ledger[h] \in 0..MaxLedger /\ batch \subseteq Events
        /\ \A e \in Due(Ledger[h]) : e \in Due(job[w].last) \/ e \in batch
    BY <1>1, <1>3, <1>5, FetchedClosed
  <2> DEFINE good == {e \in batch : Normalises(e)}
             b == [job[w] EXCEPT !.at = "write", !.high = Ledger[h], !.failed = Failed(batch),
                                 !.todo = good]
  <2>2. Failed(batch) \union good = batch /\ Failed(batch) \subseteq batch /\ good \subseteq batch
    BY DEF Failed
  <2> HIDE DEF good, batch
  <2>3. Ledger[h] \in Nat
    BY <2>1, IngestAssumption
  <2>4. b \in Job /\ b.cmd = "ingest" /\ b.at = "write" /\ b.last = job[w].last
        /\ b.high = Ledger[h] /\ b.failed = Failed(batch) /\ b.todo = good
    BY <1>1, <1>2, <2>1, <2>2, <2>3 DEF Job
  <2>5. job' = [job EXCEPT ![w] = b]
    BY <1>1, <1>5 DEF good, batch
  <2> HIDE DEF b
  <2>6. Due(b.high) \subseteq KeptEvents \union b.todo \union b.failed
    BY <1>3, <2>1, <2>2, <2>4
  <2>7. Good(b, events, Rowed, KeptEvents, dead, fixed)
    BY <1>3, <2>1, <2>4, <2>6 DEF Good
  <2> QED BY <1>1, <1>2, <2>5, <2>7, JobOnly
<1> QED BY <1>4, <1>5 DEF FetchBatch

LEMMA StartBackfillStep ==
  ASSUME Inv, NEW o \in Operators, NEW from \in 1..MaxLedger, NEW to \in 1..MaxLedger,
         StartBackfill(o, from, to)
  PROVE  Inv'
<1> DEFINE b == [Idle EXCEPT !.cmd = "backfill", !.at = "fetch",
                             !.last = Cursor(from), !.from = from, !.to = to]
<1>1. o \in Processes /\ failures \in Nat
  BY DEF Processes, Inv, TypeOK
<1>2. /\ job' = [job EXCEPT ![o] = b] /\ UNCHANGED <<tip, fixed, tables>> /\ failures' \in Nat
  BY <1>1 DEF StartBackfill
<1>3. from \in Nat /\ to \in Nat /\ Cursor(from) = from - 1 /\ Cursor(from) \in 0..MaxLedger
      /\ Cursor(from) \in Nat /\ 0 \in 0..MaxLedger
  BY IngestAssumption DEF Cursor
<1>4. b \in Job /\ b.cmd = "backfill" /\ b.at = "fetch" /\ b.last = Cursor(from)
      /\ b.from = from /\ b.to = to /\ b.todo = {} /\ b.high = 0
  BY <1>3 DEF Idle, Job
<1>5. \A e \in Due(b.last) : Ledger[e] \notin b.from..b.to
  <2>1. \A e \in Due(b.last) : Ledger[e] <= from - 1 /\ Ledger[e] \in Nat
    BY <1>3, <1>4, IngestAssumption DEF Due
  <2> QED BY <1>3, <1>4, <2>1
<1> HIDE DEF b
<1>6. Good(b, events, Rowed, KeptEvents, dead, fixed)
  BY <1>3, <1>4, <1>5 DEF Good
<1> QED BY <1>1, <1>2, <1>6, JobOnly

LEMMA FetchRangeStep ==
  ASSUME Inv, NEW o \in Operators, FetchRange(o)
  PROVE  Inv'
<1>1. /\ o \in Processes /\ job \in [Processes -> Job] /\ job[o] \in Job /\ GoodJob(o)
      /\ tip \in Nat /\ failures \in Nat
  BY DEF Processes, Inv, TypeOK
<1>2. /\ job[o].cmd = "backfill" /\ job[o].at = "fetch"
      /\ UNCHANGED <<tip, fixed, tables>> /\ failures' \in Nat
  BY <1>1 DEF FetchRange
<1>3. /\ job[o].last \in 0..MaxLedger /\ job[o].high \in 0..MaxLedger
      /\ \A e \in Due(job[o].last) :
           Ledger[e] \in job[o].from..job[o].to /\ Normalises(e) => e \in Rowed
  BY <1>1, <1>2 DEF GoodJob, Good, Normalises
<1>4. CASE job' = [job EXCEPT ![o] = Idle]
  BY <1>1, <1>2, <1>4, IdleGood, JobOnly
<1> DEFINE batch == Fetched(job[o].last)
<1>5. ASSUME NEW h \in batch, IsLast(h, batch),
             job' = [job EXCEPT ![o] =
               [@ EXCEPT !.at = "write", !.last = Ledger[h],
                         !.todo = {e \in batch : Normalises(e)
                                                 /\ Ledger[e] \in job[o].from..job[o].to}]]
      PROVE  Inv'
  <2>1. /\ h \in Events /\ Ledger[h] \in 0..MaxLedger /\ batch \subseteq Events
        /\ \A e \in Due(Ledger[h]) : e \in Due(job[o].last) \/ e \in batch
    BY <1>1, <1>3, <1>5, FetchedClosed
  <2> DEFINE good == {e \in batch : Normalises(e) /\ Ledger[e] \in job[o].from..job[o].to}
             b == [job[o] EXCEPT !.at = "write", !.last = Ledger[h], !.todo = good]
  <2>2. good \subseteq Events /\ Ledger[h] \in Nat
    BY <2>1, IngestAssumption
  <2>3. /\ b \in Job /\ b.cmd = "backfill" /\ b.at = "write" /\ b.last = Ledger[h]
        /\ b.high = job[o].high /\ b.from = job[o].from /\ b.to = job[o].to /\ b.todo = good
    BY <1>1, <1>2, <2>2 DEF Job
  <2>4. job' = [job EXCEPT ![o] = b]
    BY <1>1, <1>5
  <2> HIDE DEF b
  <2>5. \A e \in Due(b.last) :
          Ledger[e] \in b.from..b.to /\ Normalises(e) => e \in Rowed \union b.todo
    BY <1>3, <2>1, <2>3
  <2>6. Good(b, events, Rowed, KeptEvents, dead, fixed)
    BY <1>3, <2>1, <2>3, <2>5 DEF Good, Normalises
  <2> QED BY <1>1, <1>2, <2>4, <2>6, JobOnly
<1> QED BY <1>4, <1>5 DEF FetchRange

LEMMA StartReprocessStep ==
  ASSUME Inv, NEW o \in Operators, StartReprocess(o)
  PROVE  Inv'
<1> DEFINE norm == {j \in Listed : Normalises(dead[j])}
           b == [Idle EXCEPT !.cmd = "reprocess", !.at = "write",
                             !.todo = {dead[i] : i \in norm}, !.letters = norm]
<1>1. o \in Processes /\ failures \in Nat /\ dead \in Seq(Events) /\ 0 \in 0..MaxLedger
  BY IngestAssumption DEF Processes, Inv, TypeOK
<1>2. /\ job' = [job EXCEPT ![o] = b] /\ UNCHANGED <<tip, fixed, tables>> /\ failures' \in Nat
  BY <1>1 DEF StartReprocess, Resolved
<1>3. norm \subseteq DOMAIN dead /\ DOMAIN dead \subseteq Nat
  BY <1>1, LenProperties DEF Listed, Pending
<1>4. \A i \in norm : dead[i] \in Events
  BY <1>1, <1>3, ElementOfSeq, LenProperties
<1> HIDE DEF norm
<1>5. /\ b \in Job /\ b.cmd = "reprocess" /\ b.at = "write" /\ b.last = 0 /\ b.high = 0
      /\ b.todo = {dead[i] : i \in norm} /\ b.letters = norm
  BY <1>3, <1>4 DEF Idle, Job
<1> HIDE DEF b
<1>6. \A i \in b.letters : i \in DOMAIN dead /\ dead[i] \in Rowed \union b.todo
  BY <1>3, <1>5
<1>7. Good(b, events, Rowed, KeptEvents, dead, fixed)
  BY <1>1, <1>5, <1>6 DEF Good
<1> QED BY <1>1, <1>2, <1>7, JobOnly

-----------------------------------------------------------------------------
\* The writes: what leaves a job is in the tables.
LEMMA WriteDeadLetterStep ==
  ASSUME Inv, NEW p \in Processes, WriteDeadLetter(p)
  PROVE  Inv'
<1>1. job \in [Processes -> Job] /\ job[p] \in Job /\ GoodJob(p) /\ job[p].at = "write"
  BY DEF Inv, TypeOK, WriteDeadLetter
<1>2. PICK e \in job[p].failed :
        /\ dead' = IF HasLetter(e) THEN dead ELSE Append(dead, e)
        /\ job' = [job EXCEPT ![p].failed = @ \ {e}]
  BY DEF WriteDeadLetter
<1>3. UNCHANGED <<tip, fixed, checkpoint, events, activity, reprocessed, failures>>
  BY DEF WriteDeadLetter
<1>4. e \in Events /\ dead \in Seq(Events)
  BY <1>1 DEF Job, Inv, TypeOK
<1>5. dead' \in Seq(Events) /\ Grows /\ HasLetter(e)'
  <2>1. CASE HasLetter(e)
    BY <1>2, <1>3, <1>4, <2>1 DEF Grows, HasLetter
  <2>2. CASE ~ HasLetter(e)
    <3>1. dead' = Append(dead, e)
      BY <1>2, <2>2
    <3>2. /\ dead' \in Seq(Events) /\ Len(dead') = Len(dead) + 1
          /\ \A i \in 1..Len(dead) : dead'[i] = dead[i]
          /\ dead'[Len(dead) + 1] = e
      BY <1>4, <3>1, AppendProperties
    <3>3. /\ Len(dead) \in Nat /\ DOMAIN dead = 1..Len(dead)
          /\ DOMAIN dead' = 1..(Len(dead) + 1)
      BY <1>4, <3>2, LenProperties
    <3>4. Grows
      BY <1>3, <3>2, <3>3 DEF Grows
    <3>5. Len(dead) + 1 \in DOMAIN dead'
      BY <3>3
    <3> QED BY <3>2, <3>4, <3>5 DEF HasLetter
  <2> QED BY <2>1, <2>2
<1> DEFINE b == [job[p] EXCEPT !.failed = @ \ {e}]
<1>6. /\ b \in Job /\ b.cmd = job[p].cmd /\ b.at = "write" /\ b.last = job[p].last
      /\ b.high = job[p].high /\ b.from = job[p].from /\ b.to = job[p].to
      /\ b.todo = job[p].todo /\ b.letters = job[p].letters /\ b.failed = job[p].failed \ {e}
  BY <1>1 DEF Job
<1>7. job' = [job EXCEPT ![p] = b]
  BY <1>1, <1>2
<1> HIDE DEF b
<1>8. e \in KeptEvents'
  BY <1>4, <1>5 DEF KeptEvents, Kept
<1>9. Good(job[p], events', Rowed', KeptEvents', dead', fixed')
  BY <1>1, <1>3, <1>5, GrowsKeeps, GoodStays DEF GoodJob, Grows
<1>10. Good(b, events', Rowed', KeptEvents', dead', fixed')
  BY <1>1, <1>6, <1>8, <1>9 DEF Good
<1>11. /\ tip' \in Nat /\ failures' \in Nat /\ events' \subseteq Events /\ activity' \subseteq Events
       /\ fixed' = fixed /\ checkpoint' = checkpoint /\ \A i \in reprocessed' : i \in reprocessed
  BY <1>3 DEF Inv, TypeOK
<1> QED BY <1>5, <1>7, <1>10, <1>11, JobStep

\* An insert leaves a row with the event's key.
LEMMA InsertedHas ==
  ASSUME NEW rows \in SUBSET Events, NEW e \in Events
  PROVE  /\ Inserted(rows, e) \in SUBSET Events /\ rows \subseteq Inserted(rows, e)
         /\ \E f \in Inserted(rows, e) : Row[f] = Row[e]
BY DEF Inserted, HasRow

LEMMA WriteEventStep ==
  ASSUME Inv, NEW p \in Processes, WriteEvent(p)
  PROVE  Inv'
<1>1. job \in [Processes -> Job] /\ job[p] \in Job /\ GoodJob(p) /\ job[p].at = "write"
  BY DEF Inv, TypeOK, WriteEvent
<1>2. PICK e \in job[p].todo : IsFirst(e, job[p].todo) /\ events' = Inserted(events, e)
  BY DEF WriteEvent
<1>3. /\ job' = [job EXCEPT ![p].at = "activity"]
      /\ UNCHANGED <<tip, fixed, checkpoint, activity, dead, reprocessed, failures>>
  BY DEF WriteEvent
<1>4. e \in Events /\ events \in SUBSET Events
  BY <1>1 DEF Job, Inv, TypeOK
<1>5. events' \subseteq Events /\ Grows /\ \E f \in events' : Row[f] = Row[e]
  BY <1>2, <1>3, <1>4, InsertedHas DEF Grows
<1> DEFINE b == [job[p] EXCEPT !.at = "activity"]
<1>6. /\ b \in Job /\ b.cmd = job[p].cmd /\ b.at = "activity" /\ b.last = job[p].last
      /\ b.high = job[p].high /\ b.from = job[p].from /\ b.to = job[p].to
      /\ b.todo = job[p].todo /\ b.letters = job[p].letters /\ b.failed = job[p].failed
  BY <1>1 DEF Job
<1>7. job' = [job EXCEPT ![p] = b]
  BY <1>1, <1>3
<1> HIDE DEF b
<1>8. Good(job[p], events', Rowed', KeptEvents', dead', fixed')
  BY <1>1, <1>3, <1>5, GrowsKeeps, GoodStays DEF GoodJob, Grows
<1>9. \E d \in b.todo : IsFirst(d, b.todo) /\ \E f \in events' : Row[f] = Row[d]
  BY <1>2, <1>5, <1>6
<1>10. Good(b, events', Rowed', KeptEvents', dead', fixed')
  BY <1>1, <1>6, <1>8, <1>9 DEF Good
<1>11. /\ tip' \in Nat /\ failures' \in Nat /\ activity' \subseteq Events /\ dead' \in Seq(Events)
       /\ fixed' = fixed /\ checkpoint' = checkpoint /\ \A i \in reprocessed' : i \in reprocessed
  BY <1>3 DEF Inv, TypeOK
<1> QED BY <1>5, <1>7, <1>10, <1>11, JobStep

LEMMA WriteActivityStep ==
  ASSUME Inv, NEW p \in Processes, WriteActivity(p)
  PROVE  Inv'
<1>1. job \in [Processes -> Job] /\ job[p] \in Job /\ GoodJob(p) /\ job[p].at = "activity"
  BY DEF Inv, TypeOK, WriteActivity
<1>2. PICK e \in job[p].todo :
        /\ IsFirst(e, job[p].todo) /\ activity' = Inserted(activity, e)
        /\ job' = [job EXCEPT ![p].at = "write", ![p].todo = @ \ {e}]
  BY DEF WriteActivity
<1>3. UNCHANGED <<tip, fixed, checkpoint, events, dead, reprocessed, failures>>
  BY DEF WriteActivity
<1>4. e \in Events /\ activity \in SUBSET Events /\ job[p].todo \subseteq Nat
  BY <1>1, IngestAssumption DEF Job, Inv, TypeOK
<1>5. activity' \subseteq Events /\ Grows /\ \E f \in activity' : Row[f] = Row[e]
  BY <1>2, <1>3, <1>4, InsertedHas DEF Grows
<1>6. e \in Rowed' /\ e \in KeptEvents'
  <2>1. PICK d \in job[p].todo : IsFirst(d, job[p].todo) /\ \E f \in events : Row[f] = Row[d]
    BY <1>1 DEF GoodJob, Good
  <2>2. d = e
    BY <1>2, <1>4, <2>1 DEF IsFirst
  <2> QED BY <1>3, <1>4, <1>5, <2>1, <2>2 DEF Rowed, KeptEvents, Kept, HasRows
<1> DEFINE b == [job[p] EXCEPT !.at = "write", !.todo = @ \ {e}]
<1>7. /\ b \in Job /\ b.cmd = job[p].cmd /\ b.at = "write" /\ b.last = job[p].last
      /\ b.high = job[p].high /\ b.from = job[p].from /\ b.to = job[p].to
      /\ b.todo = job[p].todo \ {e} /\ b.letters = job[p].letters /\ b.failed = job[p].failed
  BY <1>1 DEF Job
<1>8. job' = [job EXCEPT ![p] = b]
  BY <1>1, <1>2
<1> HIDE DEF b
<1>9. Good(job[p], events', Rowed', KeptEvents', dead', fixed')
  BY <1>1, <1>3, <1>5, GrowsKeeps, GoodStays DEF GoodJob, Grows
<1>10. Good(b, events', Rowed', KeptEvents', dead', fixed')
  BY <1>1, <1>6, <1>7, <1>9 DEF Good
<1>11. /\ tip' \in Nat /\ failures' \in Nat /\ events' \subseteq Events /\ dead' \in Seq(Events)
       /\ fixed' = fixed /\ checkpoint' = checkpoint /\ \A i \in reprocessed' : i \in reprocessed
  BY <1>3 DEF Inv, TypeOK
<1> QED BY <1>5, <1>8, <1>10, <1>11, JobStep

-----------------------------------------------------------------------------
\* The ends: the checkpoint, the next page and the marks.
LEMMA SaveStep ==
  ASSUME Inv, NEW w \in Workers, Save(w)
  PROVE  Inv'
<1>1. w \in Processes /\ job[w] \in Job /\ GoodJob(w)
  BY DEF Processes, Inv, TypeOK
<1>2. /\ job[w].cmd = "ingest" /\ job[w].at = "write" /\ job[w].failed = {} /\ job[w].todo = {}
      /\ checkpoint' = job[w].high /\ job' = [job EXCEPT ![w] = Idle]
      /\ UNCHANGED <<tip, fixed, events, activity, dead, reprocessed, failures>>
  BY DEF Save, Written, Saved
<1>3. job[w].high \in 0..MaxLedger /\ Due(job[w].high) \subseteq KeptEvents
  BY <1>1, <1>2 DEF GoodJob, Good
<1>4. Grows /\ KeptEvents' = KeptEvents
  BY <1>2 DEF Grows, KeptEvents, Kept, HasRows, HasLetter
<1>5. checkpoint' \in 0..MaxLedger /\ Due(checkpoint') \subseteq KeptEvents'
  BY <1>2, <1>3, <1>4
<1>6. /\ tip' \in Nat /\ failures' \in Nat /\ events' \subseteq Events /\ activity' \subseteq Events
      /\ dead' \in Seq(Events) /\ fixed' = fixed /\ \A i \in reprocessed' : i \in reprocessed
  BY <1>2 DEF Inv, TypeOK
<1> QED BY <1>1, <1>2, <1>4, <1>5, <1>6, IdleGood, JobStep

LEMMA NextPageStep ==
  ASSUME Inv, NEW o \in Operators, NextPage(o)
  PROVE  Inv'
<1>1. o \in Processes /\ job \in [Processes -> Job] /\ job[o] \in Job /\ GoodJob(o)
      /\ failures \in Nat
  BY DEF Processes, Inv, TypeOK
<1>2. /\ job[o].cmd = "backfill" /\ job[o].at = "write" /\ job[o].todo = {}
      /\ UNCHANGED <<tip, fixed, tables>> /\ failures' \in Nat
  BY <1>1 DEF NextPage, Written
<1>3. CASE job' = [job EXCEPT ![o] = Idle]
  BY <1>1, <1>2, <1>3, IdleGood, JobOnly
<1>4. CASE job' = [job EXCEPT ![o] = [@ EXCEPT !.at = "fetch"]]
  <2> DEFINE b == [job[o] EXCEPT !.at = "fetch"]
  <2>1. /\ b \in Job /\ b.cmd = job[o].cmd /\ b.at = "fetch" /\ b.last = job[o].last
        /\ b.high = job[o].high /\ b.from = job[o].from /\ b.to = job[o].to
        /\ b.todo = {} /\ b.letters = job[o].letters /\ b.failed = job[o].failed
    BY <1>1, <1>2 DEF Job
  <2>2. job' = [job EXCEPT ![o] = b]
    BY <1>1, <1>4
  <2> HIDE DEF b
  <2>3. Good(b, events, Rowed, KeptEvents, dead, fixed)
    BY <1>1, <1>2, <2>1 DEF GoodJob, Good
  <2> QED BY <1>1, <1>2, <2>2, <2>3, JobOnly
<1>5. job' = [job EXCEPT ![o] = Idle] \/ job' = [job EXCEPT ![o] = [@ EXCEPT !.at = "fetch"]]
  BY <1>1 DEF NextPage
<1> QED BY <1>3, <1>4, <1>5

LEMMA MarkReprocessedStep ==
  ASSUME Inv, NEW o \in Operators, MarkReprocessed(o)
  PROVE  Inv'
<1>1. o \in Processes /\ job[o] \in Job /\ GoodJob(o)
  BY DEF Processes, Inv, TypeOK
<1>2. /\ job[o].cmd = "reprocess" /\ job[o].todo = {}
      /\ reprocessed' = reprocessed \union job[o].letters /\ job' = [job EXCEPT ![o] = Idle]
      /\ UNCHANGED <<tip, fixed, checkpoint, events, activity, dead, failures>>
  BY DEF MarkReprocessed, Written
<1>3. \A i \in job[o].letters : i \in DOMAIN dead /\ dead[i] \in Rowed
  BY <1>1, <1>2 DEF GoodJob, Good
<1>4. Grows /\ Rowed' = Rowed
  BY <1>2 DEF Grows, Rowed, HasRows
<1>5. \A i \in reprocessed' : i \in reprocessed \/ (i \in DOMAIN dead' /\ dead'[i] \in Rowed')
  BY <1>2, <1>3, <1>4
<1>6. /\ tip' \in Nat /\ failures' \in Nat /\ events' \subseteq Events /\ activity' \subseteq Events
      /\ dead' \in Seq(Events) /\ fixed' = fixed /\ checkpoint' = checkpoint
  BY <1>2 DEF Inv, TypeOK
<1> QED BY <1>1, <1>2, <1>4, <1>5, <1>6, IdleGood, JobStep

\* A failure drops a job and leaves the tables.
LEMMA FailStep ==
  ASSUME Inv, NEW p \in Processes, Fail(p)
  PROVE  Inv'
<1>1. UNCHANGED <<tip, fixed, tables>> /\ failures' \in Nat
  BY DEF Fail, Inv, TypeOK
<1>2. \/ job' = [job EXCEPT ![p] = Idle]
      \/ job' = [job EXCEPT ![p] = Started[p]]
  BY DEF Fail
<1> QED BY <1>1, <1>2, IdleGood, JobOnly

\* A new ledger, a deployment of the next release, or nothing.
LEMMA EnvironmentStep ==
  ASSUME Inv, CloseLedger \/ Deploy \/ UNCHANGED vars
  PROVE  Inv'
<1>1. UNCHANGED tables
  BY DEF CloseLedger, Deploy, vars, tables
<1>2. /\ Rowed' = Rowed /\ KeptEvents' = KeptEvents
      /\ checkpoint' = checkpoint /\ dead' = dead /\ reprocessed' = reprocessed
      /\ events' = events /\ activity' = activity
  BY <1>1 DEF tables, Rowed, KeptEvents, Kept, HasRows, HasLetter
<1>3. tip' \in Nat /\ fixed' \in BOOLEAN /\ failures' \in Nat
  <2>1. CASE CloseLedger
    BY <2>1 DEF CloseLedger, Inv, TypeOK
  <2>2. CASE Deploy
    BY <2>2 DEF Deploy, Inv, TypeOK
  <2>3. CASE UNCHANGED vars
    BY <2>3 DEF vars, Inv, TypeOK
  <2> QED BY <2>1, <2>2, <2>3
<1>4. \A p \in Processes : Good(job'[p], events', Rowed', KeptEvents', dead', fixed')
  <2>1. CASE Deploy
    BY <2>1, IdleGood DEF Deploy
  <2>2. CASE ~ Deploy
    BY <1>2, <2>2 DEF CloseLedger, vars, Inv, GoodJob
  <2> QED BY <2>1, <2>2
<1>5. job' \in [Processes -> Job]
  <2>1. \A p \in Processes : Started[p] \in Job
    BY IdleGood DEF Good
  <2>2. Started \in [Processes -> Job]
    BY <2>1 DEF Started
  <2>3. job' = job \/ job' = Started
    BY DEF CloseLedger, Deploy, vars
  <2>4. job \in [Processes -> Job]
    BY DEF Inv, TypeOK
  <2> QED BY ONLY <2>2, <2>3, <2>4
<1>6. TypeOK'
  BY <1>2, <1>3, <1>5 DEF Inv, TypeOK
<1>7. Due(checkpoint)' \subseteq KeptEvents'
  BY <1>2 DEF Due, Cuts, Inv
<1> QED BY <1>2, <1>4, <1>6, <1>7 DEF Inv, GoodJob

LEMMA InvInductive == Inv /\ [Next]_vars => Inv'
<1> SUFFICES ASSUME Inv, [Next]_vars PROVE Inv'
  OBVIOUS
<1>1. CASE CloseLedger \/ Deploy \/ UNCHANGED vars
  BY <1>1, EnvironmentStep
<1>2. ASSUME NEW w \in Workers, WorkerStep(w) PROVE Inv'
  <2>1. w \in Processes
    BY DEF Processes
  <2> QED BY <1>2, <2>1, BootStep, FetchBatchStep, WriteDeadLetterStep, WriteEventStep,
             WriteActivityStep, SaveStep DEF WorkerStep, Write
<1>3. ASSUME NEW o \in Operators, OperatorStep(o) PROVE Inv'
  <2>1. o \in Processes
    BY DEF Processes
  <2> QED BY <1>3, <2>1, FetchRangeStep, WriteDeadLetterStep, WriteEventStep, WriteActivityStep,
             NextPageStep, MarkReprocessedStep DEF OperatorStep, Write
<1>4. ASSUME NEW o \in Operators, StartReprocess(o) PROVE Inv'
  BY <1>4, StartReprocessStep
<1>5. ASSUME NEW o \in Operators, NEW from \in 1..MaxLedger, NEW to \in 1..MaxLedger,
             StartBackfill(o, from, to)
      PROVE  Inv'
  BY <1>5, StartBackfillStep
<1>6. ASSUME NEW p \in Processes, Fail(p) PROVE Inv'
  BY <1>6, FailStep
<1> QED BY <1>1, <1>2, <1>3, <1>4, <1>5, <1>6 DEF Next

LEMMA InvAlways == Spec => []Inv
BY InitInv, InvInductive, PTL DEF Spec

-----------------------------------------------------------------------------
\* The tables and the jobs stay well typed: in particular every marked dead
\* letter is a row of the table.
THEOREM TypeCorrect == Spec => []TypeOK
<1>1. Inv => TypeOK
  BY DEF Inv
<1> QED BY <1>1, InvAlways, PTL

\* Whatever fails and whichever worker saves, no event behind the checkpoint is
\* lost, except in ledgers a page cuts (run_once).
THEOREM NothingLost == Spec => []CheckpointComplete
<1>1. Inv => CheckpointComplete
  BY DEF Inv, CheckpointComplete, Due, KeptEvents
<1> QED BY <1>1, InvAlways, PTL

\* A dead letter with a reprocessed_at has rows in both tables
\* (reprocess_dead_letters).
THEOREM MarkedAreStored == Spec => []ReprocessedIsStored
<1>1. Inv => ReprocessedIsStored
  BY DEF Inv, ReprocessedIsStored, Rowed
<1> QED BY <1>1, InvAlways, PTL

\* A backfill leaves no gap behind its cursor (BackfillCommand.run).
THEOREM BackfillsCover == Spec => []BackfillCovers
<1>1. ASSUME Inv, NEW o \in Operators, job[o].cmd = "backfill", job[o].at = "fetch",
             NEW e \in Events, Ledger[e] \in job[o].from..job[o].to, Ledger[e] <= job[o].last,
             Normalises(e), Ledger[e] \notin Cuts
      PROVE  HasRows(e)
  <2>1. GoodJob(o) /\ job[o].todo = {}
    BY <1>1 DEF Processes, Inv, GoodJob, Good
  <2>2. e \in Due(job[o].last)
    BY <1>1 DEF Due, Normalises
  <2>3. e \in Rowed \union job[o].todo
    BY <1>1, <2>1, <2>2 DEF GoodJob, Good, Normalises
  <2> QED BY <2>1, <2>3 DEF Rowed
<1>2. Inv => BackfillCovers
  BY <1>1 DEF BackfillCovers
<1> QED BY <1>2, InvAlways, PTL
=============================================================================
