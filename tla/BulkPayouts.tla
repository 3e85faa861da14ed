------------------------------ MODULE BulkPayouts ------------------------------
(***************************************************************************)
(* A batch of payouts from the dashboard (bulk-payouts.ts,                 *)
(* pages/BulkPayouts.tsx): a pool of workers posts the rows to the         *)
(* relayer, every settled row is checkpointed, the tab may close, and the  *)
(* same or another file is executed afterwards.                            *)
(*                                                                         *)
(* A row is its id (line, recipient and amount), which also makes its      *)
(* idempotency key; a batch is the set of its rows.  What the network does *)
(* with a transaction that is handed to it again is not followed.          *)
(***************************************************************************)
EXTENDS Integers, FiniteSets

CONSTANTS
  Rows, Batches,
  Slots,        \* BULK_PAYOUT_CONCURRENCY
  Free,         \* a slot that has no row
  MaxRuns       \* bound on executions

ASSUME PayoutAssumption ==
  /\ Batches \subseteq SUBSET Rows /\ {} \notin Batches
  /\ Free \notin Rows /\ MaxRuns \in Nat

VARIABLES
  batch,        \* rows of the selected file
  running, job, \* a run, and its rows
  todo,         \* rows no worker has taken
  slot,         \* the row each worker submits
  posted,       \* the workers that wait for the relayer's answer
  entries,      \* outcomes of this run, with the adopted ones
  checkpoint,   \* localStorage: a batch and its outcomes
  summary,      \* what a run has returned
  run, first,   \* number of this run, and of the first run of each file's campaign
  request,      \* the request of a row in a run, as the relayer has it
  cached,       \* keys of idempotency_keys
  cutOff,       \* history: the batch whose last run was cut off
  sent, cut     \* history: requests for each row in its file's campaign, and those of
                \* them without a recorded outcome when the tab closed

pageVars == <<batch, running, job, todo, slot, posted, entries, summary, run, first>>
relayVars == <<request, cached>>
campaignVars == <<sent, cut, cutOff>>
payoutVars == <<pageVars, checkpoint, relayVars, campaignVars>>

Unsettled == [r \in Rows |-> "none"]
NoRows == [r \in Rows |-> 0]
NoCheckpoint == [of |-> {}, entries |-> Unsettled]
Outcome == [Rows -> {"none", "success", "failed"}]
Runs == 1..MaxRuns
\* "handed" gave the transaction to the network, "unsure" too, but answers with an error.
Stages == {"none", "sent", "running", "replayed", "handed", "unsure", "refused"}

PayoutTypeOK ==
  /\ batch \in Batches \union {{}} /\ running \in BOOLEAN
  /\ job \in Batches \union {{}} /\ todo \subseteq job
  /\ slot \in [Slots -> job \union {Free}] /\ posted \subseteq {w \in Slots : slot[w] # Free}
  /\ entries \in Outcome /\ summary \in Outcome
  /\ checkpoint \in [of : Batches \union {{}}, entries : Outcome]
  /\ run \in 0..MaxRuns /\ first \in [Batches -> 0..MaxRuns]
  /\ request \in [Rows \X Runs -> Stages] /\ cached \subseteq Rows
  /\ sent \in [Batches -> [Rows -> Nat]] /\ cut \in [Batches -> [Rows -> Nat]] /\ cutOff \in Batches \union {{}}

PayoutInit ==
  /\ batch = {} /\ running = FALSE /\ job = {} /\ todo = {}
  /\ slot = [w \in Slots |-> Free] /\ posted = {}
  /\ entries = Unsettled /\ summary = Unsettled /\ checkpoint = NoCheckpoint
  /\ run = 0 /\ first = [b \in Batches |-> 0]
  /\ request = [x \in Rows \X Runs |-> "none"] /\ cached = {}
  /\ sent = [b \in Batches |-> NoRows] /\ cut = sent /\ cutOff = {}

-----------------------------------------------------------------------------
\* mutant: a run reads the rows of the page again
SelectFileTaken(b) ==
  /\ batch' = b /\ b # batch
  /\ job' = IF running THEN b ELSE job
  /\ UNCHANGED <<running, todo, slot, posted, entries, summary, run, first, checkpoint,
                 relayVars, campaignVars>>
\* Also during a run, which keeps its rows.
SelectFile(b) ==
  /\ batch' = b /\ b # batch
  /\ UNCHANGED <<running, job, todo, slot, posted, entries, summary, run, first, checkpoint,
                 relayVars, campaignVars>>

ReadAnyCheckpoint == checkpoint.entries \* mutant: whichever batch it is of
ReadCheckpoint == IF checkpoint.of = batch THEN checkpoint.entries ELSE Unsettled

\* A run goes on with the campaign of its file when the run before was one of it that was
\* cut off, or when it finds its checkpoint.
Resumes(b) == cutOff = b \/ checkpoint.of = b

\* The button.
Execute ==
  /\ ~running /\ batch # {} /\ run < MaxRuns
  /\ running' = TRUE /\ job' = batch /\ run' = run + 1 /\ summary' = Unsettled
  /\ entries' = ReadCheckpoint
  /\ todo' = {r \in batch : ReadCheckpoint[r] = "none"}
  /\ IF Resumes(batch)
     THEN UNCHANGED <<first, sent, cut>>
     ELSE /\ first' = [first EXCEPT ![batch] = run + 1]
          /\ sent' = [sent EXCEPT ![batch] = NoRows] /\ cut' = [cut EXCEPT ![batch] = NoRows]
  /\ UNCHANGED <<batch, slot, posted, checkpoint, relayVars, cutOff>>

LeftThere(r) == todo \* mutant: the cursor moves when the row has settled
Without(r) == todo \ {r}

Take(w, r) ==
  /\ running /\ slot[w] = Free /\ r \in todo
  /\ slot' = [slot EXCEPT ![w] = r] /\ todo' = Without(r)
  /\ UNCHANGED <<batch, running, job, posted, entries, summary, run, first, checkpoint,
                 relayVars, campaignVars>>

Post(w) ==
  LET r == slot[w] IN
  /\ r # Free /\ w \notin posted /\ posted' = posted \union {w}
  /\ request' = [request EXCEPT ![<<r, run>>] = "sent"]
  /\ sent' = [sent EXCEPT ![job][r] = @ + 1]
  /\ UNCHANGED <<batch, running, job, todo, slot, entries, summary, run, first, checkpoint,
                 cached, cut, cutOff>>

\* writeCheckpoint; a full storage keeps what it had.
Settle(w, result) ==
  LET r == slot[w] IN
  /\ slot' = [slot EXCEPT ![w] = Free] /\ posted' = posted \ {w}
  /\ entries' = [entries EXCEPT ![r] = result]
  /\ checkpoint' \in {checkpoint, [of |-> job, entries |-> entries']}
  /\ UNCHANGED <<batch, running, job, todo, summary, run, first, relayVars, campaignVars>>

OkUnread(stage) == stage \in {"replayed", "handed", "unsure", "refused"} \* mutant: any answer will do
Ok(stage) == stage \in {"replayed", "handed"}

\* The relayer's answer; no token or no signature; a connection that breaks.
Answer(w) ==
  /\ slot[w] # Free
  /\ \/ Ok(request[<<slot[w], run>>]) /\ Settle(w, "success")
     \/ Settle(w, "failed")

DoneAtLastRow == todo = {} \* mutant: the first worker that finds no row ends the run
Done == todo = {} /\ \A w \in Slots : slot[w] = Free

\* Promise.all: the run returns its summary, and the checkpoint is removed.
Finish ==
  /\ running /\ Done
  /\ running' = FALSE /\ checkpoint' = NoCheckpoint /\ cutOff' = {}
  /\ summary' = [r \in Rows |-> IF r \in job THEN entries[r] ELSE "none"]
  /\ UNCHANGED <<batch, job, todo, slot, posted, entries, run, first, relayVars, sent, cut>>

\* The tab closes.
Unrecorded(r) == sent[job][r] > cut[job][r] /\ (checkpoint.of # job \/ checkpoint.entries[r] = "none")
CloseTab ==
  /\ running
  /\ running' = FALSE /\ batch' = {} /\ job' = {} /\ todo' = {} /\ posted' = {}
  /\ slot' = [w \in Slots |-> Free] /\ entries' = Unsettled /\ summary' = Unsettled
  /\ cutOff' = job
  /\ cut' = [cut EXCEPT ![job] = [r \in Rows |-> @[r] + IF Unrecorded(r) THEN 1 ELSE 0]]
  /\ UNCHANGED <<run, first, checkpoint, relayVars, sent>>

-----------------------------------------------------------------------------
\* The relayer, as RelayExecution has it: a cached answer is repeated; of requests
\* with one key that run at once each is executed.

Passes(r, i, from, to) ==
  /\ request[<<r, i>>] = from /\ request' = [request EXCEPT ![<<r, i>>] = to]
  /\ UNCHANGED <<pageVars, checkpoint, campaignVars>>

Arrive(r, i) ==
  /\ Passes(r, i, "sent", IF r \in cached THEN "replayed" ELSE "running")
  /\ UNCHANGED cached
Hand(r, i) == Passes(r, i, "running", "handed") /\ cached' = cached \union {r}
Refuse(r, i) ==
  /\ Passes(r, i, "running", "refused") \/ Passes(r, i, "running", "unsure")
  /\ UNCHANGED cached
Expire(r) ==
  /\ r \in cached /\ cached' = cached \ {r}
  /\ UNCHANGED <<pageVars, checkpoint, request, campaignVars>>

PayoutNext ==
  \/ \E b \in Batches : SelectFile(b)
  \/ Execute \/ Finish \/ CloseTab
  \/ \E w \in Slots : Post(w) \/ Answer(w) \/ \E r \in Rows : Take(w, r)
  \/ \E r \in Rows : Expire(r) \/ \E i \in Runs : Arrive(r, i) \/ Hand(r, i) \/ Refuse(r, i)

PayoutSpec == PayoutInit /\ [][PayoutNext]_payoutVars
-----------------------------------------------------------------------------
(***************************************************************************)
(* Properties.                                                             *)
(***************************************************************************)

\* A row is posted once in a campaign, and once more for each time its request was in
\* hand, or its outcome could not be stored, when the tab closed (the workers' shared
\* cursor, and "a resumed run skips them").
PostedOnce == \A b \in Batches, r \in Rows : sent[b][r] <= 1 + cut[b][r]

\* A row that is reported paid has been answered with success in this campaign ("a
\* checkpoint from a different batch ... would report payouts that never happened").
SuccessWasAnswered ==
  \A r \in Rows : entries[r] = "success" =>
    \E i \in first[job]..run : i > 0 /\ request[<<r, i>>] \in {"replayed", "handed"}

\* The summary of a run has an outcome for every row ("one failure never sinks its
\* neighbours"), whichever of them were adopted.
SummaryIsComplete == summary # Unsettled => \A r \in job : summary[r] # "none"

\* What a batch reports is what the relayer did.
PayoutsTrue == PostedOnce /\ SuccessWasAnswered /\ SummaryIsComplete
================================================================================
