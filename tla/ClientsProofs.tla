----------------------------- MODULE ClientsProofs -----------------------------
(* Theorems about the bulk payouts of the dashboard, for any files, workers and *)
(* runs, about the requests of dApps to the mobile wallet, for any requests,   *)
(* topics and taps, and about the vault of the wallets, for any calls,         *)
(* passwords, items and deaths of the process; and the three side by side.     *)
EXTENDS MCClients, FiniteSetTheorems, TLAPS

-----------------------------------------------------------------------------
(* Bulk payouts: rows are posted once, and the summary says what became of them. *)

\* Rows that this run has not posted yet.
Unposted(r) == r \in todo \/ \E w \in Slots : slot[w] = r /\ w \notin posted

\* The workers share the rows of a run: a row is waiting, or with one worker, or settled.
RowsShared ==
  /\ running => job \in Batches /\ run > 0 /\ summary = Unsettled
  /\ ~running => todo = {} /\ \A w \in Slots : slot[w] = Free
  /\ \A v, w \in Slots : slot[v] = slot[w] /\ slot[w] # Free => v = w
  /\ \A w \in Slots : slot[w] \notin todo
  /\ running => \A r \in job : entries[r] # "none" \/ r \in todo \/ \E w \in Slots : slot[w] = r

\* What may be posted again was not posted, or was cut off without a record.
Covered(b) ==
  \A r \in Rows : sent[b][r] <= cut[b][r] \/ (checkpoint.of = b /\ checkpoint.entries[r] # "none")

CampaignCounted ==
  /\ running => \A r \in Rows : Unposted(r) => sent[job][r] <= cut[job][r]
  /\ checkpoint.of \in Batches /\ ~(running /\ checkpoint.of = job) => Covered(checkpoint.of)
  /\ ~running /\ cutOff \in Batches => Covered(cutOff)

\* A success was answered in a run of the campaign.
Answered(b, told) ==
  \A r \in Rows : told[r] = "success" =>
    \E i \in Runs : first[b] <= i /\ i <= run /\ request[<<r, i>>] \in {"replayed", "handed"}

AnswersKept ==
  /\ \A b \in Batches : first[b] <= run
  /\ \A r \in Rows, i \in Runs : i > run => request[<<r, i>>] = "none"
  /\ running => \A r \in Rows : Unposted(r) => request[<<r, run>>] = "none"
  /\ job \notin Batches => entries = Unsettled
  /\ job \in Batches => Answered(job, entries)
  /\ checkpoint.of \in Batches => Answered(checkpoint.of, checkpoint.entries)

PayoutInv ==
  PayoutTypeOK /\ RowsShared /\ PostedOnce /\ SummaryIsComplete /\ CampaignCounted /\ AnswersKept

LEMMA PayoutInitInv == PayoutInit => PayoutInv
<1> SUFFICES ASSUME PayoutInit PROVE PayoutInv
  OBVIOUS
<1> USE PayoutAssumption
<1>1. PayoutTypeOK
  <2>1. 0 \in 0..MaxRuns /\ 0 \in Nat
    OBVIOUS
  <2>2. Unsettled \in Outcome /\ NoRows \in [Rows -> Nat]
    BY DEF Unsettled, Outcome, NoRows
  <2>3. checkpoint \in [of : Batches \union {{}}, entries : Outcome]
    BY <2>2 DEF PayoutInit, NoCheckpoint
  <2>4. /\ first \in [Batches -> 0..MaxRuns] /\ sent \in [Batches -> [Rows -> Nat]]
        /\ cut \in [Batches -> [Rows -> Nat]] /\ request \in [Rows \X Runs -> Stages]
    BY <2>1, <2>2 DEF PayoutInit, Stages
  <2> QED BY <2>1, <2>2, <2>3, <2>4 DEF PayoutInit, PayoutTypeOK
<1>2. RowsShared
  BY DEF PayoutInit, RowsShared
<1>3. PostedOnce
  BY DEF PayoutInit, PostedOnce, NoRows
<1>4. SummaryIsComplete
  BY DEF PayoutInit, SummaryIsComplete
<1>5. CampaignCounted
  BY DEF PayoutInit, CampaignCounted, NoCheckpoint
<1>6. AnswersKept
  BY DEF PayoutInit, AnswersKept, NoCheckpoint
<1> QED BY <1>1, <1>2, <1>3, <1>4, <1>5, <1>6 DEF PayoutInv

LEMMA SelectFileKeepsInv ==
  ASSUME PayoutInv, NEW b \in Batches, SelectFile(b) PROVE PayoutInv'
<1> USE DEF SelectFile, relayVars, campaignVars
<1>1. PayoutTypeOK'
  BY DEF PayoutInv, PayoutTypeOK
<1>2. RowsShared' /\ PostedOnce' /\ SummaryIsComplete'
  BY DEF PayoutInv, RowsShared, PostedOnce, SummaryIsComplete
<1>3. CampaignCounted'
  BY DEF PayoutInv, CampaignCounted, Unposted, Covered
<1>4. AnswersKept'
  BY DEF PayoutInv, AnswersKept, Unposted, Answered
<1> QED BY <1>1, <1>2, <1>3, <1>4 DEF PayoutInv

\* What an outcome says stays true while the answers of earlier runs do.
LEMMA AnsweredStays ==
  ASSUME NEW b, NEW o, Answered(b, o), first'[b] = first[b], NEW m \in Nat, NEW n \in Nat,
         run = m, run' = n, m <= n, first[b] \in Nat,
         \A r \in Rows, i \in Runs : request[<<r, i>>] \in {"replayed", "handed"} => request'[<<r, i>>] = request[<<r, i>>]
  PROVE  \A r \in Rows : o[r] = "success" =>
           \E i \in Runs : first'[b] <= i /\ i <= run' /\ request'[<<r, i>>] \in {"replayed", "handed"}
<1> SUFFICES ASSUME NEW r \in Rows, o[r] = "success"
             PROVE  \E i \in Runs : first[b] <= i /\ i <= n /\ request'[<<r, i>>] \in {"replayed", "handed"}
  OBVIOUS
<1>1. PICK i \in Runs : first[b] <= i /\ i <= m /\ request[<<r, i>>] \in {"replayed", "handed"}
  BY DEF Answered
<1>2. i \in Nat
  BY PayoutAssumption DEF Runs
<1> QED BY <1>1, <1>2

\* Posting, answering and settling do not choose the rows of a run.
LEMMA RowFacts ==
  ASSUME PayoutInv
  PROVE  /\ job \subseteq Rows /\ todo \subseteq Rows
         /\ \A w \in Slots : slot[w] # Free => slot[w] \in job /\ slot[w] \in Rows /\ running
         /\ running => job \in Batches /\ job # {} /\ run \in Runs /\ first[job] \in Nat
         /\ run \in Nat /\ Free \notin job
         /\ \A b \in Batches : first[b] \in Nat /\ first[b] <= run
<1>1. job \subseteq Rows /\ todo \subseteq Rows
  BY PayoutAssumption DEF PayoutInv, PayoutTypeOK
<1>2. run \in Nat /\ run <= MaxRuns /\ \A b \in Batches : first[b] \in Nat /\ first[b] <= run
  BY PayoutAssumption DEF PayoutInv, PayoutTypeOK, AnswersKept
<1>3. running => job \in Batches /\ job # {} /\ run > 0
  BY PayoutAssumption DEF PayoutInv, RowsShared
<1>4. run > 0 => run \in Runs
  BY <1>2, PayoutAssumption DEF Runs
<1>5. \A w \in Slots : slot[w] # Free => slot[w] \in job /\ running
  BY DEF PayoutInv, PayoutTypeOK, RowsShared
<1> QED BY <1>1, <1>2, <1>3, <1>4, <1>5, PayoutAssumption

LEMMA TakeKeepsInv ==
  ASSUME PayoutInv, NEW w \in Slots, NEW r \in Rows, Take(w, r) PROVE PayoutInv'
<1> USE DEF Take, Without, relayVars, campaignVars
<1>0. r \in todo /\ slot[w] = Free /\ w \notin posted /\ r # Free /\ todo \subseteq job
  BY PayoutAssumption DEF PayoutInv, PayoutTypeOK
<1>1. \A v \in Slots : slot'[v] = IF v = w THEN r ELSE slot[v]
  BY DEF PayoutInv, PayoutTypeOK
<1>2. PayoutTypeOK'
  <2>1. slot' \in [Slots -> job \union {Free}]
    BY <1>0 DEF PayoutInv, PayoutTypeOK
  <2>2. posted' \subseteq {v \in Slots : slot'[v] # Free}
    BY <1>0, <1>1 DEF PayoutInv, PayoutTypeOK
  <2> QED BY <2>1, <2>2 DEF PayoutInv, PayoutTypeOK
<1>3. RowsShared'
  <2>1. running /\ UNCHANGED <<running, job, run, summary, entries>> /\ todo' = todo \ {r}
    OBVIOUS
  <2>2. \A v \in Slots : slot[v] # r
    BY <1>0 DEF PayoutInv, RowsShared
  <2>3. \A u, v \in Slots : slot'[u] = slot'[v] /\ slot'[u] # Free => u = v
    BY <1>0, <1>1, <2>2 DEF PayoutInv, RowsShared
  <2>4. \A v \in Slots : slot'[v] \notin todo'
    BY <1>1, <2>1 DEF PayoutInv, RowsShared
  <2>5. \A x \in job : entries[x] # "none" \/ x \in todo' \/ \E v \in Slots : slot'[v] = x
    <3> SUFFICES ASSUME NEW x \in job, entries[x] = "none", x \notin todo'
                 PROVE  \E v \in Slots : slot'[v] = x
      OBVIOUS
    <3>1. CASE x = r
      BY <1>1, <3>1
    <3>2. CASE x # r
      <4>1. PICK v \in Slots : slot[v] = x
        BY <2>1, <3>2 DEF PayoutInv, RowsShared
      <4>2. v # w
        BY <1>0, <4>1, PayoutAssumption DEF PayoutInv, PayoutTypeOK
      <4> QED BY <1>1, <4>1, <4>2
    <3> QED BY <3>1, <3>2
  <2> QED BY <2>1, <2>3, <2>4, <2>5 DEF PayoutInv, RowsShared
<1>4. \A x \in Rows : Unposted(x)' => Unposted(x)
  BY <1>0, <1>1 DEF Unposted
<1>5. PostedOnce' /\ SummaryIsComplete'
  BY DEF PayoutInv, PostedOnce, SummaryIsComplete
<1>6. CampaignCounted'
  BY <1>4 DEF PayoutInv, CampaignCounted, Covered
<1>7. AnswersKept'
  BY <1>4 DEF PayoutInv, AnswersKept, Answered
<1> QED BY <1>2, <1>3, <1>5, <1>6, <1>7 DEF PayoutInv

\* A row that is posted was not: no other worker has it, and no request of this run
\* is overwritten.
LEMMA PostKeepsInv ==
  ASSUME PayoutInv, NEW w \in Slots, Post(w) PROVE PayoutInv'
<1> DEFINE r == slot[w]
<1>1. r \in Rows /\ r \in job /\ r # Free /\ running /\ job \in Batches /\ run \in Runs
      /\ w \notin posted /\ first[job] \in Nat /\ run \in Nat
  BY RowFacts DEF Post
<1>2. /\ posted' = posted \union {w}
      /\ request' = [request EXCEPT ![<<r, run>>] = "sent"]
      /\ sent' = [sent EXCEPT ![job][r] = @ + 1]
      /\ UNCHANGED <<batch, running, job, todo, slot, entries, summary, run, first, checkpoint,
                     cached, cut, cutOff>>
  BY DEF Post
<1>3. Unposted(r)
  BY <1>1 DEF Unposted
<1> HIDE DEF r
<1>4. sent[job][r] <= cut[job][r] /\ request[<<r, run>>] = "none"
  BY <1>1, <1>3 DEF PayoutInv, CampaignCounted, AnswersKept
<1>5. sent \in [Batches -> [Rows -> Nat]] /\ cut \in [Batches -> [Rows -> Nat]]
      /\ request \in [Rows \X Runs -> Stages]
  BY DEF PayoutInv, PayoutTypeOK
<1>6. /\ sent' \in [Batches -> [Rows -> Nat]] /\ sent'[job][r] = sent[job][r] + 1
      /\ \A b \in Batches, x \in Rows : b # job \/ x # r => sent'[b][x] = sent[b][x]
  <2> DEFINE n == sent[job][r] + 1
  <2>1. n \in Nat
    BY <1>1, <1>5
  <2>2. sent' = [sent EXCEPT ![job] = [sent[job] EXCEPT ![r] = n]]
    BY <1>2
  <2>3. [sent[job] EXCEPT ![r] = n] \in [Rows -> Nat]
    BY <1>1, <1>5, <2>1
  <2> HIDE DEF n
  <2>4. sent' \in [Batches -> [Rows -> Nat]] /\ sent'[job][r] = n
        /\ \A b \in Batches, x \in Rows : b # job \/ x # r => sent'[b][x] = sent[b][x]
    BY <1>1, <1>5, <2>1, <2>2, <2>3
  <2> QED BY <2>4 DEF n
<1>7. /\ request' \in [Rows \X Runs -> Stages] /\ request'[<<r, run>>] = "sent"
      /\ \A x \in Rows, i \in Runs : x # r \/ i # run => request'[<<x, i>>] = request[<<x, i>>]
  <2>1. <<r, run>> \in Rows \X Runs /\ "sent" \in Stages
    BY <1>1 DEF Stages
  <2>2. \A y \in Rows \X Runs : request'[y] = IF y = <<r, run>> THEN "sent" ELSE request[y]
    BY <1>2, <1>5, <2>1
  <2> QED BY <1>2, <1>5, <2>1, <2>2
<1>8. PayoutTypeOK'
  <2>1. posted' \subseteq {v \in Slots : slot'[v] # Free}
    BY <1>1, <1>2 DEF PayoutInv, PayoutTypeOK, r
  <2> QED BY <1>2, <1>6, <1>7, <2>1 DEF PayoutInv, PayoutTypeOK
<1>9. RowsShared' /\ SummaryIsComplete'
  BY <1>2 DEF PayoutInv, RowsShared, SummaryIsComplete
<1>10. ASSUME NEW b \in Batches, NEW x \in Rows PROVE sent'[b][x] <= 1 + cut'[b][x]
  <2> DEFINE n == sent[job][r]
             m == cut[job][r]
             n1 == sent'[job][r]
  <2>1. CASE b = job /\ x = r
    <3>1. n \in Nat /\ m \in Nat /\ n <= m /\ n1 = n + 1
      BY <1>1, <1>4, <1>5, <1>6
    <3> HIDE DEF n, m, n1
    <3>2. n1 <= 1 + m
      BY <3>1
    <3> QED BY <3>2, <2>1, <1>2 DEF n1, m
  <2>2. CASE b # job \/ x # r
    BY <2>2, <1>2, <1>6 DEF PayoutInv, PostedOnce
  <2> QED BY <2>1, <2>2
<1>11. \A x \in Rows : Unposted(x)' => Unposted(x) /\ x # r
  <2> SUFFICES ASSUME NEW x \in Rows, Unposted(x)' PROVE Unposted(x) /\ x # r
    OBVIOUS
  <2>1. CASE x \in todo
    BY <1>1, <2>1 DEF PayoutInv, RowsShared, Unposted, r
  <2>2. CASE \E v \in Slots : slot'[v] = x /\ v \notin posted'
    <3>1. PICK v \in Slots : slot[v] = x /\ v \notin posted /\ v # w
      BY <1>2, <2>2
    <3> QED BY <1>1, <3>1 DEF PayoutInv, RowsShared, Unposted, r
  <2> QED BY <2>1, <2>2, <1>2 DEF Unposted
<1>12. CampaignCounted'
  <2>1. \A x \in Rows : Unposted(x)' => sent'[job][x] <= cut[job][x]
    BY <1>1, <1>6, <1>11 DEF PayoutInv, CampaignCounted
  <2>2. ASSUME checkpoint.of \in Batches, checkpoint.of # job PROVE Covered(checkpoint.of)'
    <3>1. Covered(checkpoint.of)
      BY <2>2 DEF PayoutInv, CampaignCounted
    <3> QED BY <1>2, <1>6, <2>2, <3>1 DEF Covered
  <2> QED BY <1>1, <1>2, <2>1, <2>2 DEF CampaignCounted
<1>13. AnswersKept'
  <2>1. \A x \in Rows, i \in Runs : request[<<x, i>>] \in {"replayed", "handed"} => request'[<<x, i>>] = request[<<x, i>>]
    BY <1>4, <1>7
  <2>2. Answered(job, entries)'
    <3>1. Answered(job, entries)
      BY <1>1 DEF PayoutInv, AnswersKept
    <3>2. \A x \in Rows : entries[x] = "success" =>
            \E i \in Runs : first'[job] <= i /\ i <= run' /\ request'[<<x, i>>] \in {"replayed", "handed"}
      BY <1>1, <1>2, <2>1, <3>1, AnsweredStays
    <3> QED BY <1>2, <3>2 DEF Answered
  <2>3. ASSUME checkpoint.of \in Batches PROVE Answered(checkpoint.of, checkpoint.entries)'
    <3> DEFINE c == checkpoint.of
               o == checkpoint.entries
    <3>1. Answered(c, o) /\ first[c] \in Nat
      BY <2>3, RowFacts DEF PayoutInv, AnswersKept
    <3>2. first'[c] = first[c] /\ run' = run /\ run <= run
      BY <1>1, <1>2
    <3> HIDE DEF c, o
    <3>3. \A x \in Rows : o[x] = "success" =>
            \E i \in Runs : first'[c] <= i /\ i <= run' /\ request'[<<x, i>>] \in {"replayed", "handed"}
      BY <1>1, <2>1, <3>1, <3>2, AnsweredStays
    <3> QED BY <1>2, <3>3 DEF Answered, c, o
  <2>4. \A x \in Rows, i \in Runs : i > run => request'[<<x, i>>] = "none"
    <3> SUFFICES ASSUME NEW x \in Rows, NEW i \in Runs, i > run PROVE request'[<<x, i>>] = "none"
      OBVIOUS
    <3>1. i # run
      BY <1>1
    <3> QED BY <1>7, <3>1 DEF PayoutInv, AnswersKept
  <2>5. \A x \in Rows : Unposted(x)' => request'[<<x, run>>] = "none"
    BY <1>1, <1>7, <1>11 DEF PayoutInv, AnswersKept
  <2>6. \A b \in Batches : first[b] <= run
    BY DEF PayoutInv, AnswersKept
  <2> QED BY <1>1, <1>2, <2>2, <2>3, <2>4, <2>5, <2>6 DEF AnswersKept
<1> QED BY <1>8, <1>9, <1>10, <1>12, <1>13 DEF PayoutInv, PostedOnce

\* The outcome of a row is what the relayer answered, and the checkpoint is the old one
\* or holds the outcomes of this run.
LEMMA SettleKeepsInv ==
  ASSUME PayoutInv, NEW w \in Slots, slot[w] # Free, NEW result \in {"success", "failed"}, Settle(w, result),
         result = "success" => request[<<slot[w], run>>] \in {"replayed", "handed"}
  PROVE  PayoutInv'
<1> DEFINE r == slot[w]
<1>1. r \in Rows /\ r \in job /\ r # Free /\ running /\ job \in Batches /\ run \in Runs /\ run \in Nat
      /\ first[job] \in Nat /\ first[job] <= run
  BY RowFacts
<1>2. /\ slot' = [slot EXCEPT ![w] = Free] /\ posted' = posted \ {w}
      /\ entries' = [entries EXCEPT ![r] = result]
      /\ \/ checkpoint' = checkpoint
         \/ checkpoint' = [of |-> job, entries |-> entries']
      /\ UNCHANGED <<batch, running, job, todo, summary, run, first, request, cached, sent, cut, cutOff>>
  BY DEF Settle, relayVars, campaignVars
<1>3. \A v \in Slots : slot'[v] = IF v = w THEN Free ELSE slot[v]
  BY <1>2 DEF PayoutInv, PayoutTypeOK
<1>4. result = "success" => request[<<r, run>>] \in {"replayed", "handed"}
  OBVIOUS
<1>5. \A v \in Slots : slot[v] = r => v = w
  BY <1>1 DEF PayoutInv, RowsShared
<1>6. r \notin todo
  BY <1>1 DEF PayoutInv, RowsShared
<1>7. slot[w] = r
  OBVIOUS
<1> HIDE DEF r
<1>8. entries' \in Outcome /\ \A x \in Rows : entries'[x] = IF x = r THEN result ELSE entries[x]
  BY <1>1, <1>2 DEF PayoutInv, PayoutTypeOK, Outcome
<1>9. PayoutTypeOK'
  <2>1. slot' \in [Slots -> job \union {Free}]
    BY <1>2 DEF PayoutInv, PayoutTypeOK
  <2>2. posted' \subseteq {v \in Slots : slot'[v] # Free}
    BY <1>2, <1>3 DEF PayoutInv, PayoutTypeOK
  <2>3. checkpoint' \in [of : Batches \union {{}}, entries : Outcome]
    <3>1. CASE checkpoint' = checkpoint
      BY <3>1 DEF PayoutInv, PayoutTypeOK
    <3>2. CASE checkpoint' = [of |-> job, entries |-> entries']
      BY <1>1, <1>8, <3>2
    <3> QED BY <1>2, <3>1, <3>2
  <2> QED BY <1>2, <1>8, <2>1, <2>2, <2>3 DEF PayoutInv, PayoutTypeOK
<1>10. RowsShared'
  <2>1. \A u, v \in Slots : slot'[u] = slot'[v] /\ slot'[u] # Free => u = v
    BY <1>3 DEF PayoutInv, RowsShared
  <2>2. \A v \in Slots : slot'[v] \notin todo
    BY <1>3, RowFacts, PayoutAssumption DEF PayoutInv, RowsShared
  <2>3. ASSUME NEW x \in job PROVE entries'[x] # "none" \/ x \in todo \/ \E v \in Slots : slot'[v] = x
    <3>0. x \in Rows
      BY RowFacts
    <3>1. CASE x = r
      BY <1>8, <3>0, <3>1
    <3>2. CASE x # r
      <4>1. entries[x] # "none" \/ x \in todo \/ \E v \in Slots : slot[v] = x
        BY <1>1 DEF PayoutInv, RowsShared
      <4>2. ASSUME NEW v \in Slots, slot[v] = x PROVE slot'[v] = x
        BY <1>3, <1>7, <3>2, <4>2
      <4> QED BY <1>8, <3>0, <3>2, <4>1, <4>2
    <3> QED BY <3>1, <3>2
  <2> QED BY <1>1, <1>2, <2>1, <2>2, <2>3 DEF PayoutInv, RowsShared
<1>11. PostedOnce' /\ SummaryIsComplete'
  BY <1>2 DEF PayoutInv, PostedOnce, SummaryIsComplete
<1>12. \A x \in Rows : Unposted(x)' => Unposted(x)
  <2> SUFFICES ASSUME NEW x \in Rows, Unposted(x)' PROVE Unposted(x)
    OBVIOUS
  <2>1. ASSUME NEW v \in Slots, slot'[v] = x, v \notin posted' PROVE Unposted(x)
    <3>1. x # Free
      BY PayoutAssumption
    <3> QED BY <1>2, <1>3, <2>1, <3>1 DEF Unposted
  <2> QED BY <1>2, <2>1 DEF Unposted
<1>13. CampaignCounted'
  <2>1. \A x \in Rows : Unposted(x)' => sent'[job][x] <= cut'[job][x]
    BY <1>1, <1>2, <1>12 DEF PayoutInv, CampaignCounted
  <2>2. ASSUME checkpoint'.of \in Batches, checkpoint'.of # job PROVE Covered(checkpoint.of)' /\ checkpoint' = checkpoint
    <3>1. checkpoint' = checkpoint
      BY <1>2, <2>2
    <3>2. Covered(checkpoint.of)
      BY <2>2, <3>1 DEF PayoutInv, CampaignCounted
    <3> QED BY <1>2, <3>1, <3>2 DEF Covered
  <2> QED BY <1>1, <1>2, <2>1, <2>2 DEF CampaignCounted
<1>14. \A x \in Rows : entries'[x] = "success" =>
         \E i \in Runs : first[job] <= i /\ i <= run /\ request[<<x, i>>] \in {"replayed", "handed"}
  <2> SUFFICES ASSUME NEW x \in Rows, entries'[x] = "success"
               PROVE  \E i \in Runs : first[job] <= i /\ i <= run /\ request[<<x, i>>] \in {"replayed", "handed"}
    OBVIOUS
  <2>1. CASE x = r
    <3>1. request[<<x, run>>] \in {"replayed", "handed"}
      BY <1>4, <1>8, <2>1
    <3>2. run <= run
      BY <1>1
    <3> QED BY <1>1, <3>1, <3>2
  <2>2. CASE x # r
    BY <1>1, <1>8, <2>2 DEF PayoutInv, AnswersKept, Answered
  <2> QED BY <2>1, <2>2
<1>15. AnswersKept'
  <2>1. Answered(job, entries)'
    BY <1>2, <1>14 DEF Answered
  <2>2. ASSUME checkpoint'.of \in Batches PROVE Answered(checkpoint.of, checkpoint.entries)'
    <3>1. CASE checkpoint' = checkpoint
      BY <1>2, <2>2, <3>1 DEF PayoutInv, AnswersKept, Answered
    <3>2. CASE checkpoint' = [of |-> job, entries |-> entries']
      <4>1. checkpoint'.of = job /\ checkpoint'.entries = entries'
        BY <3>2
      <4> QED BY <1>2, <1>14, <4>1 DEF Answered
    <3> QED BY <1>2, <3>1, <3>2
  <2>3. \A x \in Rows : Unposted(x)' => request'[<<x, run>>] = "none"
    BY <1>1, <1>2, <1>12 DEF PayoutInv, AnswersKept
  <2>4. /\ \A b \in Batches : first[b] <= run
        /\ \A x \in Rows, i \in Runs : i > run => request[<<x, i>>] = "none"
    BY DEF PayoutInv, AnswersKept
  <2> QED BY <1>1, <1>2, <2>1, <2>2, <2>3, <2>4 DEF AnswersKept
<1> QED BY <1>9, <1>10, <1>11, <1>13, <1>15 DEF PayoutInv

\* A run adopts the outcomes of its own checkpoint only, and posts the rest.
LEMMA ExecuteKeepsInv ==
  ASSUME PayoutInv, Execute PROVE PayoutInv'
<1> DEFINE e == ReadCheckpoint
<1>1. /\ ~running /\ batch # {} /\ run < MaxRuns
      /\ running' = TRUE /\ job' = batch /\ run' = run + 1 /\ summary' = Unsettled
      /\ entries' = e /\ todo' = {r \in batch : e[r] = "none"}
      /\ UNCHANGED <<batch, slot, posted, checkpoint, request, cached, cutOff>>
  BY DEF Execute, relayVars
<1>2. /\ batch \in Batches /\ batch \subseteq Rows /\ checkpoint.entries \in Outcome
      /\ run \in Nat /\ run + 1 \in Runs /\ run + 1 \in 0..MaxRuns /\ run + 1 > 0
      /\ first \in [Batches -> 0..MaxRuns] /\ sent \in [Batches -> [Rows -> Nat]]
      /\ cut \in [Batches -> [Rows -> Nat]]
  BY <1>1, PayoutAssumption DEF PayoutInv, PayoutTypeOK, Runs
<1>3. e \in Outcome /\ (checkpoint.of # batch => e = Unsettled) /\ (checkpoint.of = batch => e = checkpoint.entries)
  BY <1>2 DEF ReadCheckpoint, Unsettled, Outcome
<1> HIDE DEF e
<1> DEFINE FreshRows ==
             /\ first' = [first EXCEPT ![batch] = run + 1]
             /\ sent' = [sent EXCEPT ![batch] = NoRows] /\ cut' = [cut EXCEPT ![batch] = NoRows]
<1>5. \/ Resumes(batch) /\ UNCHANGED <<first, sent, cut>>
      \/ ~Resumes(batch) /\ FreshRows
  BY DEF Execute
<1>6. /\ first' \in [Batches -> 0..MaxRuns] /\ sent' \in [Batches -> [Rows -> Nat]]
      /\ cut' \in [Batches -> [Rows -> Nat]]
      /\ \A b \in Batches : b # batch \/ Resumes(batch) =>
           first'[b] = first[b] /\ sent'[b] = sent[b] /\ cut'[b] = cut[b]
      /\ ~Resumes(batch) => first'[batch] = run + 1 /\ sent'[batch] = NoRows /\ cut'[batch] = NoRows
  <2>1. NoRows \in [Rows -> Nat]
    BY DEF NoRows
  <2> QED BY <1>2, <1>5, <2>1
<1>7. \A b \in Batches : first'[b] \in Nat /\ first'[b] <= run + 1
  <2> SUFFICES ASSUME NEW b \in Batches PROVE first'[b] \in Nat /\ first'[b] <= run + 1
    OBVIOUS
  <2>1. first[b] \in Nat /\ first[b] <= run
    BY RowFacts
  <2>2. first'[b] = first[b] \/ first'[b] = run + 1
    BY <1>6
  <2> DEFINE k == first'[b]
  <2> HIDE DEF k
  <2>3. k = first[b] \/ k = run + 1
    BY <2>2 DEF k
  <2>4. k \in Nat /\ k <= run + 1
    BY <1>2, <2>1, <2>3
  <2> QED BY <2>4 DEF k
<1>8. \A x \in batch : e[x] = "none" => sent'[batch][x] <= cut'[batch][x]
  <2> SUFFICES ASSUME NEW x \in batch, e[x] = "none" PROVE sent'[batch][x] <= cut'[batch][x]
    OBVIOUS
  <2>1. CASE Resumes(batch)
    <3>1. Covered(batch)
      BY <1>1, <1>2, <2>1 DEF Resumes, PayoutInv, CampaignCounted
    <3>2. sent[batch][x] <= cut[batch][x]
      BY <1>2, <1>3, <3>1 DEF Covered
    <3> QED BY <1>2, <1>6, <2>1, <3>2
  <2>2. CASE ~Resumes(batch)
    BY <1>2, <1>6, <2>2 DEF NoRows
  <2> QED BY <2>1, <2>2
<1>9. PayoutTypeOK'
  <2>1. /\ job' \in Batches /\ todo' \subseteq job' /\ posted' = {}
        /\ slot' \in [Slots -> job' \union {Free}] /\ running' \in BOOLEAN
    BY <1>1, <1>2 DEF PayoutInv, PayoutTypeOK, RowsShared
  <2>2. summary' \in Outcome /\ entries' \in Outcome /\ run' \in 0..MaxRuns
    BY <1>1, <1>2, <1>3 DEF Unsettled, Outcome
  <2> QED BY <1>1, <1>6, <2>1, <2>2 DEF PayoutInv, PayoutTypeOK
<1>10. \A w \in Slots : slot'[w] = Free
  BY <1>1 DEF PayoutInv, RowsShared
<1>11. RowsShared'
  <2>1. Free \notin todo'
    BY <1>1, <1>2, PayoutAssumption
  <2>2. run' > 0
    BY <1>1, <1>2
  <2> QED BY <1>1, <1>2, <1>10, <2>1, <2>2 DEF RowsShared
<1>12. PostedOnce'
  <2> SUFFICES ASSUME NEW b \in Batches, NEW x \in Rows PROVE sent'[b][x] <= 1 + cut'[b][x]
    BY DEF PostedOnce
  <2>1. CASE b # batch \/ Resumes(batch)
    BY <1>6, <2>1 DEF PayoutInv, PostedOnce
  <2>2. CASE b = batch /\ ~Resumes(batch)
    BY <1>6, <2>2 DEF NoRows
  <2> QED BY <2>1, <2>2
<1>13. SummaryIsComplete'
  BY <1>1 DEF SummaryIsComplete, Unsettled
<1>14. \A x \in Rows : Unposted(x)' => x \in todo'
  BY <1>10, PayoutAssumption DEF Unposted
<1>15. CampaignCounted'
  <2>1. \A x \in Rows : Unposted(x)' => sent'[job'][x] <= cut'[job'][x]
    BY <1>1, <1>8, <1>14
  <2>2. ASSUME checkpoint.of \in Batches, checkpoint.of # batch PROVE Covered(checkpoint.of)'
    <3>1. Covered(checkpoint.of)
      BY <1>1, <2>2 DEF PayoutInv, CampaignCounted
    <3>2. sent'[checkpoint.of] = sent[checkpoint.of] /\ cut'[checkpoint.of] = cut[checkpoint.of]
      BY <1>6, <2>2
    <3> QED BY <1>1, <3>1, <3>2 DEF Covered
  <2> QED BY <1>1, <2>1, <2>2 DEF CampaignCounted
<1>16. ASSUME checkpoint.of \in Batches
       PROVE  \A x \in Rows : checkpoint.entries[x] = "success" =>
                \E i \in Runs : first'[checkpoint.of] <= i /\ i <= run' /\ request'[<<x, i>>] \in {"replayed", "handed"}
  <2> DEFINE c == checkpoint.of
             o == checkpoint.entries
             n == run + 1
  <2>1. Answered(c, o) /\ first[c] \in Nat
    BY <1>16, RowFacts DEF PayoutInv, AnswersKept
  <2>2. first'[c] = first[c]
    BY <1>6, <1>16 DEF Resumes
  <2>3. run' = n /\ n \in Nat /\ run <= n /\ run \in Nat
    BY <1>1, <1>2
  <2>4. \A x \in Rows, i \in Runs : request[<<x, i>>] \in {"replayed", "handed"} => request'[<<x, i>>] = request[<<x, i>>]
    BY <1>1
  <2> HIDE DEF c, o, n
  <2>5. \A x \in Rows : o[x] = "success" =>
          \E i \in Runs : first'[c] <= i /\ i <= run' /\ request'[<<x, i>>] \in {"replayed", "handed"}
    BY <2>1, <2>2, <2>3, <2>4, AnsweredStays
  <2> QED BY <2>5 DEF c, o
<1>17. AnswersKept'
  <2>1. Answered(job, entries)'
    <3>1. CASE checkpoint.of = batch
      BY <1>1, <1>2, <1>3, <1>16, <3>1 DEF Answered
    <3>2. CASE checkpoint.of # batch
      BY <1>1, <1>3, <3>2 DEF Answered, Unsettled
    <3> QED BY <3>1, <3>2
  <2>2. checkpoint.of \in Batches => Answered(checkpoint.of, checkpoint.entries)'
    BY <1>1, <1>16 DEF Answered
  <2>3. \A x \in Rows, i \in Runs : i > run' => request'[<<x, i>>] = "none"
    <3> SUFFICES ASSUME NEW x \in Rows, NEW i \in Runs, i > run + 1 PROVE request[<<x, i>>] = "none"
      BY <1>1
    <3>1. i > run
      BY <1>2 DEF Runs
    <3> QED BY <3>1 DEF PayoutInv, AnswersKept
  <2>4. \A x \in Rows : request'[<<x, run'>>] = "none"
    <3>1. run + 1 > run
      BY <1>2
    <3> QED BY <1>1, <1>2, <3>1 DEF PayoutInv, AnswersKept
  <2>5. \A b \in Batches : first'[b] <= run'
    BY <1>1, <1>7
  <2> QED BY <1>1, <1>2, <2>1, <2>2, <2>3, <2>4, <2>5 DEF AnswersKept
<1> QED BY <1>9, <1>11, <1>12, <1>13, <1>15, <1>17 DEF PayoutInv

\* A run that has ended has an outcome for each of its rows.
LEMMA FinishKeepsInv ==
  ASSUME PayoutInv, Finish PROVE PayoutInv'
<1>1. /\ running /\ todo = {} /\ (\A w \in Slots : slot[w] = Free)
      /\ running' = FALSE /\ checkpoint' = NoCheckpoint /\ cutOff' = {}
      /\ summary' = [r \in Rows |-> IF r \in job THEN entries[r] ELSE "none"]
      /\ UNCHANGED <<batch, job, todo, slot, posted, entries, run, first, request, cached, sent, cut>>
  BY DEF Finish, Done, relayVars
<1>2. job \in Batches /\ job \subseteq Rows
  BY <1>1, RowFacts
<1>3. PayoutTypeOK'
  <2>1. summary' \in Outcome
    BY <1>1 DEF PayoutInv, PayoutTypeOK, Outcome
  <2>2. checkpoint' \in [of : Batches \union {{}}, entries : Outcome]
    BY <1>1 DEF NoCheckpoint, Unsettled, Outcome
  <2> QED BY <1>1, <2>1, <2>2 DEF PayoutInv, PayoutTypeOK
<1>4. RowsShared'
  BY <1>1 DEF PayoutInv, RowsShared
<1>5. PostedOnce'
  BY <1>1 DEF PayoutInv, PostedOnce
<1>6. \A r \in job : entries[r] # "none"
  <2>1. \A r \in job : \A w \in Slots : slot[w] # r
    BY <1>1, RowFacts
  <2> QED BY <1>1, <2>1 DEF PayoutInv, RowsShared
<1>7. SummaryIsComplete'
  BY <1>1, <1>2, <1>6 DEF SummaryIsComplete
<1>8. checkpoint'.of \notin Batches /\ cutOff' \notin Batches
  BY <1>1, PayoutAssumption DEF NoCheckpoint
<1>9. CampaignCounted'
  BY <1>1, <1>8 DEF CampaignCounted
<1>10. AnswersKept'
  BY <1>1, <1>8 DEF PayoutInv, AnswersKept, Answered
<1> QED BY <1>3, <1>4, <1>5, <1>7, <1>9, <1>10 DEF PayoutInv

\* What the closed tab has not recorded is counted, and may be posted once more.
LEMMA CloseTabKeepsInv ==
  ASSUME PayoutInv, CloseTab PROVE PayoutInv'
<1> DEFINE c == [r \in Rows |-> cut[job][r] + IF Unrecorded(r) THEN 1 ELSE 0]
<1>1. /\ running /\ running' = FALSE /\ batch' = {} /\ job' = {} /\ todo' = {} /\ posted' = {}
      /\ slot' = [w \in Slots |-> Free] /\ entries' = Unsettled /\ summary' = Unsettled
      /\ cutOff' = job /\ cut' = [cut EXCEPT ![job] = c]
      /\ UNCHANGED <<run, first, checkpoint, request, cached, sent>>
  BY DEF CloseTab, relayVars
<1>2. job \in Batches /\ sent \in [Batches -> [Rows -> Nat]] /\ cut \in [Batches -> [Rows -> Nat]]
      /\ {} \notin Batches
  BY <1>1, RowFacts, PayoutAssumption DEF PayoutInv, PayoutTypeOK
<1>3. \A r \in Rows : /\ c[r] \in Nat /\ cut[job][r] <= c[r]
                      /\ Unrecorded(r) => c[r] = cut[job][r] + 1
                      /\ ~Unrecorded(r) => c[r] = cut[job][r]
  BY <1>2
<1>4. c \in [Rows -> Nat]
  BY <1>3
<1> HIDE DEF c
<1>5. /\ cut' \in [Batches -> [Rows -> Nat]] /\ cut'[job] = c
      /\ \A b \in Batches : b # job => cut'[b] = cut[b]
  BY <1>1, <1>2, <1>4
<1>6. PayoutTypeOK'
  <2>1. Unsettled \in Outcome
    BY DEF Unsettled, Outcome
  <2>2. job' = {} /\ slot' \in [Slots -> job' \union {Free}] /\ posted' = {}
    BY <1>1
  <2> QED BY <1>1, <1>2, <1>5, <2>1, <2>2 DEF PayoutInv, PayoutTypeOK
<1>7. RowsShared'
  BY <1>1 DEF RowsShared
<1>8. PostedOnce'
  <2> SUFFICES ASSUME NEW b \in Batches, NEW r \in Rows PROVE sent[b][r] <= 1 + cut'[b][r]
    BY <1>1 DEF PostedOnce
  <2>1. sent[b][r] <= 1 + cut[b][r]
    BY DEF PayoutInv, PostedOnce
  <2>2. CASE b # job
    BY <1>5, <2>1, <2>2
  <2>3. CASE b = job
    <3>1. sent[job][r] \in Nat /\ cut[job][r] \in Nat /\ c[r] \in Nat /\ cut[job][r] <= c[r]
      BY <1>2, <1>3
    <3>2. sent[job][r] <= 1 + c[r]
      BY <2>1, <2>3, <3>1
    <3> QED BY <1>5, <2>3, <3>2
  <2> QED BY <2>2, <2>3
<1>9. SummaryIsComplete'
  BY <1>1 DEF SummaryIsComplete, Unsettled
<1>10. \A r \in Rows : sent[job][r] <= c[r] \/ (checkpoint.of = job /\ checkpoint.entries[r] # "none")
  <2> SUFFICES ASSUME NEW r \in Rows, checkpoint.of # job \/ checkpoint.entries[r] = "none"
               PROVE  sent[job][r] <= c[r]
    OBVIOUS
  <2>1. sent[job][r] \in Nat /\ cut[job][r] \in Nat /\ sent[job][r] <= 1 + cut[job][r]
    BY <1>2 DEF PayoutInv, PostedOnce
  <2>2. Unrecorded(r) <=> sent[job][r] > cut[job][r]
    BY DEF Unrecorded
  <2> QED BY <1>3, <2>1, <2>2
<1>11. CampaignCounted'
  <2>1. \A r \in Rows : sent'[job][r] <= cut'[job][r] \/ (checkpoint'.of = job /\ checkpoint'.entries[r] # "none")
    BY <1>1, <1>5, <1>10
  <2>2. ASSUME checkpoint.of \in Batches, checkpoint.of # job
        PROVE  \A r \in Rows : sent'[checkpoint.of][r] <= cut'[checkpoint.of][r] \/ checkpoint'.entries[r] # "none"
    <3>1. Covered(checkpoint.of)
      BY <2>2 DEF PayoutInv, CampaignCounted
    <3>2. cut'[checkpoint.of] = cut[checkpoint.of]
      BY <1>5, <2>2
    <3> QED BY <1>1, <3>1, <3>2 DEF Covered
  <2> QED BY <1>1, <2>1, <2>2 DEF CampaignCounted, Covered
<1>12. AnswersKept'
  <2>1. checkpoint.of \in Batches => Answered(checkpoint.of, checkpoint.entries)'
    BY <1>1 DEF PayoutInv, AnswersKept, Answered
  <2>2. /\ \A b \in Batches : first[b] <= run
        /\ \A r \in Rows, i \in Runs : i > run => request[<<r, i>>] = "none"
    BY DEF PayoutInv, AnswersKept
  <2> QED BY <1>1, <1>2, <2>1, <2>2 DEF AnswersKept
<1> QED BY <1>6, <1>7, <1>8, <1>9, <1>11, <1>12 DEF PayoutInv

\* The relayer works on requests that were posted, in whichever run, and what it has
\* answered stays answered.
LEMMA RelayKeepsInv ==
  ASSUME PayoutInv, NEW q \in Rows, NEW i \in Runs, NEW from \in {"sent", "running"}, NEW to \in Stages,
         Passes(q, i, from, to), cached' \subseteq Rows
  PROVE  PayoutInv'
<1>1. /\ request[<<q, i>>] = from /\ request' = [request EXCEPT ![<<q, i>>] = to]
      /\ UNCHANGED <<batch, running, job, todo, slot, posted, entries, summary, run, first>>
      /\ UNCHANGED <<checkpoint, sent, cut, cutOff>>
  BY DEF Passes, pageVars, campaignVars
<1>2. /\ request' \in [Rows \X Runs -> Stages]
      /\ \A r \in Rows, j \in Runs : request[<<r, j>>] # from => request'[<<r, j>>] = request[<<r, j>>]
  <2>1. <<q, i>> \in Rows \X Runs /\ request \in [Rows \X Runs -> Stages]
    BY DEF PayoutInv, PayoutTypeOK
  <2>2. \A y \in Rows \X Runs : request'[y] = IF y = <<q, i>> THEN to ELSE request[y]
    BY <1>1, <2>1
  <2>3. request' \in [Rows \X Runs -> Stages]
    BY <1>1, <2>1
  <2>4. \A y \in Rows \X Runs : request[y] # from => request'[y] = request[y]
    BY <1>1, <2>2
  <2> QED BY <2>3, <2>4
<1>3. \A r \in Rows, j \in Runs : request[<<r, j>>] \in {"none", "replayed", "handed"} =>
        request'[<<r, j>>] = request[<<r, j>>]
  BY <1>2
<1>4. PayoutTypeOK'
  BY <1>1, <1>2 DEF PayoutInv, PayoutTypeOK
<1>5. RowsShared' /\ PostedOnce' /\ SummaryIsComplete'
  BY <1>1 DEF PayoutInv, RowsShared, PostedOnce, SummaryIsComplete
<1>6. CampaignCounted'
  BY <1>1 DEF PayoutInv, CampaignCounted, Unposted, Covered
<1>7. \A b, o : Answered(b, o) =>
        \A r \in Rows : o[r] = "success" =>
          \E j \in Runs : first[b] <= j /\ j <= run /\ request'[<<r, j>>] \in {"replayed", "handed"}
  BY <1>3 DEF Answered
<1>8. AnswersKept'
  <2>1. job \in Batches => Answered(job, entries)'
    <3>1. job \in Batches => Answered(job, entries)
      BY DEF PayoutInv, AnswersKept
    <3>2. job \in Batches => \A r \in Rows : entries[r] = "success" =>
            \E j \in Runs : first[job] <= j /\ j <= run /\ request'[<<r, j>>] \in {"replayed", "handed"}
      BY <1>7, <3>1
    <3> QED BY <1>1, <3>2 DEF Answered
  <2>2. checkpoint.of \in Batches => Answered(checkpoint.of, checkpoint.entries)'
    <3> DEFINE c == checkpoint.of
               o == checkpoint.entries
    <3>1. c \in Batches => Answered(c, o)
      BY DEF PayoutInv, AnswersKept
    <3> HIDE DEF c, o
    <3>2. c \in Batches => \A r \in Rows : o[r] = "success" =>
            \E j \in Runs : first[c] <= j /\ j <= run /\ request'[<<r, j>>] \in {"replayed", "handed"}
      BY <1>7, <3>1
    <3> QED BY <1>1, <3>2 DEF Answered, c, o
  <2>3. running => \A r \in Rows : Unposted(r)' => request'[<<r, run>>] = "none"
    BY <1>1, <1>3, RowFacts DEF PayoutInv, AnswersKept, Unposted
  <2>4. /\ \A b \in Batches : first[b] <= run
        /\ \A r \in Rows, j \in Runs : j > run => request'[<<r, j>>] = "none"
    BY <1>3 DEF PayoutInv, AnswersKept
  <2>5. job \notin Batches => entries = Unsettled
    BY DEF PayoutInv, AnswersKept
  <2> QED BY <1>1, <2>1, <2>2, <2>3, <2>4, <2>5 DEF AnswersKept
<1> QED BY <1>4, <1>5, <1>6, <1>8 DEF PayoutInv

\* A step that leaves all but the relayer's cache keeps everything.
LEMMA CacheKeepsInv ==
  ASSUME PayoutInv, UNCHANGED <<pageVars, checkpoint, request, campaignVars>>, cached' \subseteq Rows
  PROVE  PayoutInv'
<1> USE DEF pageVars, campaignVars
<1>1. PayoutTypeOK'
  BY DEF PayoutInv, PayoutTypeOK
<1>2. RowsShared' /\ PostedOnce' /\ SummaryIsComplete'
  BY DEF PayoutInv, RowsShared, PostedOnce, SummaryIsComplete
<1>3. CampaignCounted'
  BY DEF PayoutInv, CampaignCounted, Unposted, Covered
<1>4. AnswersKept'
  BY DEF PayoutInv, AnswersKept, Unposted, Answered
<1> QED BY <1>1, <1>2, <1>3, <1>4 DEF PayoutInv

LEMMA PayoutStepInv == PayoutInv /\ [PayoutNext]_payoutVars => PayoutInv'
<1> SUFFICES ASSUME PayoutInv, [PayoutNext]_payoutVars PROVE PayoutInv'
  OBVIOUS
<1>1. ASSUME NEW b \in Batches, SelectFile(b) PROVE PayoutInv'
  BY <1>1, SelectFileKeepsInv
<1>2. ASSUME NEW w \in Slots, Answer(w) PROVE PayoutInv'
  <2>1. CASE Ok(request[<<slot[w], run>>]) /\ Settle(w, "success")
    BY <1>2, <2>1, SettleKeepsInv DEF Answer, Ok
  <2>2. CASE Settle(w, "failed")
    BY <1>2, <2>2, SettleKeepsInv DEF Answer
  <2> QED BY <1>2, <2>1, <2>2 DEF Answer
<1>3. ASSUME NEW w \in Slots, NEW r \in Rows, Take(w, r) PROVE PayoutInv'
  BY <1>3, TakeKeepsInv
<1>4. cached \subseteq Rows
  BY DEF PayoutInv, PayoutTypeOK
<1>5. ASSUME NEW r \in Rows, NEW i \in Runs, Arrive(r, i) PROVE PayoutInv'
  <2> DEFINE to == IF r \in cached THEN "replayed" ELSE "running"
  <2>1. Passes(r, i, "sent", to) /\ cached' = cached /\ to \in Stages
    BY <1>5 DEF Arrive, Stages
  <2> HIDE DEF to
  <2> QED BY <1>4, <2>1, RelayKeepsInv
<1>6. ASSUME NEW r \in Rows, NEW i \in Runs, Hand(r, i) PROVE PayoutInv'
  BY <1>4, <1>6, RelayKeepsInv DEF Hand, Stages
<1>7. ASSUME NEW r \in Rows, NEW i \in Runs, Refuse(r, i) PROVE PayoutInv'
  BY <1>4, <1>7, RelayKeepsInv DEF Refuse, Stages
<1>8. ASSUME NEW r \in Rows, Expire(r) PROVE PayoutInv'
  BY <1>4, <1>8, CacheKeepsInv DEF Expire
<1>9. CASE UNCHANGED payoutVars
  BY <1>4, <1>9, CacheKeepsInv DEF payoutVars, relayVars
<1> QED BY <1>1, <1>2, <1>3, <1>5, <1>6, <1>7, <1>8, <1>9, ExecuteKeepsInv, FinishKeepsInv, CloseTabKeepsInv,
           PostKeepsInv DEF PayoutNext

LEMMA PayoutInvMeans == PayoutInv => PayoutTypeOK /\ PayoutsTrue
<1> SUFFICES ASSUME PayoutInv PROVE PayoutTypeOK /\ PayoutsTrue
  OBVIOUS
<1>1. ASSUME NEW r \in Rows, entries[r] = "success"
      PROVE  \E i \in first[job]..run : i > 0 /\ request[<<r, i>>] \in {"replayed", "handed"}
  <2>1. job \in Batches
    BY <1>1 DEF PayoutInv, AnswersKept, Unsettled
  <2>2. PICK i \in Runs : first[job] <= i /\ i <= run /\ request[<<r, i>>] \in {"replayed", "handed"}
    BY <1>1, <2>1 DEF PayoutInv, AnswersKept, Answered
  <2>3. i \in Nat /\ i > 0 /\ first[job] \in Nat /\ run \in Nat
    BY <2>1, RowFacts, PayoutAssumption DEF Runs
  <2> QED BY <2>2, <2>3
<1> QED BY <1>1 DEF PayoutInv, PayoutsTrue, SuccessWasAnswered

\* The inductive invariant holds in every reachable state of the payouts.
THEOREM PayoutsInvariant == PayoutSpec => []PayoutInv
<1> QED BY PayoutInitInv, PayoutStepInv, PTL DEF PayoutSpec

\* The variables of a payout have their types.
THEOREM PayoutsTyped == PayoutSpec => []PayoutTypeOK
<1> QED BY PayoutsInvariant, PayoutInvMeans, PTL

\* For any files, workers and number of runs, with tabs closed and checkpoints lost at
\* any moment: no row is posted twice in a campaign unless a closed tab had it
\* in hand or unrecorded, a row that is reported paid has been answered with success, and
\* a summary has an outcome for every row of its file.
THEOREM PayoutsAreTrue == PayoutSpec => []PayoutsTrue
<1> QED BY PayoutsInvariant, PayoutInvMeans, PTL

-----------------------------------------------------------------------------
(* Requests of dApps: each is answered as the user decided.                    *)

Handler == [of : DappRequests \union Topics \union {Blank}, says : Answers, mount : 0..NoMount,
            at : {"idle", "sign", "answer", "connect", "leave", "used"}]

\* Each sheet shows requests of its kind.
SheetsMatch ==
  /\ xdrSheet # Blank => xdrSheet \in DappRequests /\ asks[xdrSheet] = "xdr"
  /\ authSheet # Blank => authSheet \in DappRequests /\ asks[authSheet] = "auth"

\* What a handler may do next has been allowed by what came before it.
Entitled(h) ==
  /\ h.at = "idle" => h.of = Blank
  /\ h.at \in {"connect", "leave"} => h.of \in Topics
  /\ h.at \in {"sign", "answer"} => h.of \in DappRequests
  /\ h.at = "sign" => asks[h.of] = "message" \/ h.of \in agreed
  /\ h.at = "answer" /\ h.says = "result" => h.of \in signed
  /\ h.at = "answer" /\ h.says = "refused" => h.of \in declined \/ (asks[h.of] = "auth" /\ h.of \in agreed)
HandlersEntitled == \A t \in Taps : Entitled(tap[t])

\* Each timer was started by a handler of its own, which is over.
TimersCounted == closing <= Cardinality({t \in Taps : tap[t].at = "used"})

WalletInv ==
  WalletTypeOK /\ SheetsMatch /\ HandlersEntitled /\ TimersCounted /\ ResultWasApproved /\ DecidedIsAnswered

LEMMA WalletInitInv == WalletInit => WalletInv
<1> SUFFICES ASSUME WalletInit PROVE WalletInv
  OBVIOUS
<1> USE WalletAssumption
<1>0. Cardinality({t \in Taps : tap[t].at = "used"}) \in Nat /\ Cardinality(Taps) \in Nat
  <2>1. IsFiniteSet({t \in Taps : tap[t].at = "used"})
    BY FS_Subset
  <2> QED BY <2>1, FS_CardinalityType
<1>1. tap \in [Taps -> Handler]
  BY DEF WalletInit, Unused, Handler, Answers, NoMount
<1>2. WalletTypeOK
  <2>1. {xdrSheet, authSheet} \subseteq DappRequests \union {Blank} /\ proposal \in Topics \union {Blank}
    BY DEF WalletInit
  <2>2. closing \in 0..Cardinality(Taps) /\ locks \in 0..MaxLocks /\ undelivered \in 0..MaxUndelivered
    BY <1>0 DEF WalletInit
  <2>3. answers \in [DappRequests -> SUBSET Answers] /\ sessions \subseteq Topics
    BY DEF WalletInit
  <2>4. mounted \in BOOLEAN /\ done \in BOOLEAN
    BY DEF WalletInit
  <2> QED BY <1>1, <2>1, <2>2, <2>3, <2>4 DEF WalletInit, WalletTypeOK, Handler
<1>3. SheetsMatch
  BY DEF WalletInit, SheetsMatch
<1>4. HandlersEntitled
  BY DEF WalletInit, HandlersEntitled, Entitled, Unused
<1>5. TimersCounted
  BY <1>0 DEF WalletInit, TimersCounted
<1>6. ResultWasApproved /\ DecidedIsAnswered
  BY DEF WalletInit, ResultWasApproved, DecidedIsAnswered
<1> QED BY <1>2, <1>3, <1>4, <1>5, <1>6 DEF WalletInv

\* A handler that moves on leaves the others alone.
LEMMA BeginsFacts ==
  ASSUME WalletTypeOK, NEW t \in Taps, NEW of \in DappRequests \union Topics \union {Blank}, NEW at, NEW says \in Answers,
         at \in {"idle", "sign", "answer", "connect", "leave", "used"}, NEW mount \in 0..NoMount,
         Begins(t, of, at, says, mount)
  PROVE  /\ tap' \in [Taps -> Handler]
         /\ tap'[t].of = of /\ tap'[t].at = at /\ tap'[t].says = says
         /\ \A u \in Taps : u # t => tap'[u] = tap[u]
<1>1. [of |-> of, at |-> at, says |-> says, mount |-> mount] \in Handler
  BY DEF Handler
<1> QED BY <1>1 DEF Begins, WalletTypeOK, Handler

\* A handler that is over stays over, and its timer is one at most.
LEMMA TimersStayCounted ==
  ASSUME WalletTypeOK, TimersCounted, \A t \in Taps : tap[t].at = "used" => tap'[t].at = "used",
         closing' \in 0..closing
  PROVE  TimersCounted' /\ closing' \in 0..Cardinality(Taps)
<1> DEFINE old == {t \in Taps : tap[t].at = "used"}
           new == {t \in Taps : tap'[t].at = "used"}
<1>1. old \subseteq new /\ new \subseteq Taps
  OBVIOUS
<1>2. closing <= Cardinality(old) /\ closing \in Nat
  BY WalletAssumption, FS_CardinalityType DEF TimersCounted, WalletTypeOK
<1>3. TimersCounted' <=> closing' <= Cardinality(new)
  BY DEF TimersCounted
<1> HIDE DEF old, new
<1>4. IsFiniteSet(new) /\ IsFiniteSet(old) /\ IsFiniteSet(Taps)
  BY <1>1, FS_Subset, WalletAssumption
<1>5. /\ Cardinality(old) \in Nat /\ Cardinality(new) \in Nat /\ Cardinality(Taps) \in Nat
      /\ Cardinality(old) <= Cardinality(new) /\ Cardinality(new) <= Cardinality(Taps)
  BY <1>1, <1>4, FS_Subset, FS_CardinalityType
<1> DEFINE k == closing'
<1>6. k \in 0..closing
  OBVIOUS
<1> HIDE DEF k
<1>7. k <= Cardinality(new) /\ k \in 0..Cardinality(Taps)
  BY <1>2, <1>5, <1>6
<1> QED BY <1>3, <1>7 DEF k

LEMMA OneMoreTimer ==
  ASSUME WalletTypeOK, TimersCounted, NEW u \in Taps, tap[u].at # "used", tap'[u].at = "used",
         \A t \in Taps : t # u => tap'[t] = tap[t], closing' \in 0..closing + 1
  PROVE  TimersCounted' /\ closing' \in 0..Cardinality(Taps)
<1> DEFINE old == {t \in Taps : tap[t].at = "used"}
           new == {t \in Taps : tap'[t].at = "used"}
<1>1. new = old \union {u} /\ u \notin old /\ new \subseteq Taps
  OBVIOUS
<1>2. closing <= Cardinality(old) /\ closing \in Nat
  BY WalletAssumption, FS_CardinalityType DEF TimersCounted, WalletTypeOK
<1>3. TimersCounted' <=> closing' <= Cardinality(new)
  BY DEF TimersCounted
<1> HIDE DEF old, new
<1>4. IsFiniteSet(new) /\ IsFiniteSet(old) /\ IsFiniteSet(Taps)
  BY <1>1, FS_Subset, WalletAssumption
<1>5. Cardinality(new) = Cardinality(old) + 1
  BY <1>1, <1>4, FS_AddElement
<1>6. Cardinality(old) \in Nat /\ Cardinality(Taps) \in Nat /\ Cardinality(new) <= Cardinality(Taps)
  BY <1>1, <1>4, FS_Subset, FS_CardinalityType
<1> DEFINE k == closing'
<1>7. k \in 0..closing + 1
  OBVIOUS
<1> HIDE DEF k
<1>8. k <= Cardinality(new) /\ k \in 0..Cardinality(Taps)
  BY <1>2, <1>5, <1>6, <1>7
<1> QED BY <1>3, <1>8 DEF k

\* Proposals and sessions come and go without touching a request.
LEMMA SessionStepsKeepInv ==
  ASSUME WalletInv,
         UNCHANGED <<askVars, xdrSheet, authSheet, tap, tapHistory>>,
         sessions' \subseteq Topics, proposal' \in Topics \union {Blank}, closing' \in 0..closing,
         done' \in BOOLEAN, mounted' \in BOOLEAN, locks' \in 0..MaxLocks
  PROVE  WalletInv'
<1> USE DEF askVars, tapHistory
<1>1. TimersCounted' /\ closing' \in 0..Cardinality(Taps)
  BY TimersStayCounted DEF WalletInv
<1>2. WalletTypeOK'
  BY <1>1 DEF WalletInv, WalletTypeOK
<1>3. SheetsMatch' /\ HandlersEntitled'
  BY DEF WalletInv, SheetsMatch, HandlersEntitled, Entitled
<1>4. ResultWasApproved' /\ DecidedIsAnswered'
  BY DEF WalletInv, ResultWasApproved, DecidedIsAnswered
<1> QED BY <1>1, <1>2, <1>3, <1>4 DEF WalletInv

\* A request that arrives takes its sheet, or starts a handler that needs no approval.
LEMMA RequestArrivesKeepsInv ==
  ASSUME WalletInv, NEW r \in DappRequests, NEW t \in Taps, RequestArrives(r, t) PROVE WalletInv'
<1>1. /\ Fresh(t) /\ arrived' = arrived \union {r}
      /\ UNCHANGED <<asks, topicOf, sessions, proposal, closing, mounted, locks>>
      /\ UNCHANGED <<answers, agreed, declined, signed, undelivered>>
  BY DEF RequestArrives, lockVars, tapHistory
<1>2. /\ tap' \in [Taps -> Handler] /\ \A u \in Taps : u # t => tap'[u] = tap[u]
      /\ (tap'[t] = tap[t] \/ (tap'[t].of = r /\ tap'[t].at \in {"answer", "sign"}))
      /\ tap'[t].at = "sign" => asks[r] = "message" \/ tap'[t] = tap[t]
      /\ tap'[t].at = "answer" => tap'[t].says = "error" \/ tap'[t] = tap[t]
  <2>1. CASE tap' = tap
    BY <2>1 DEF WalletInv, WalletTypeOK, Handler
  <2>2. CASE asks[r] = "auth" /\ Begins(t, r, "answer", "error", NoMount)
    BY <2>2, BeginsFacts, WalletAssumption DEF WalletInv, Answers, NoMount
  <2>3. CASE asks[r] = "message" /\ Begins(t, r, "sign", "result", NoMount)
    BY <2>3, BeginsFacts, WalletAssumption DEF WalletInv, Answers, NoMount
  <2> QED BY <2>1, <2>2, <2>3 DEF RequestArrives
<1>3. /\ (xdrSheet' = xdrSheet \/ (xdrSheet' = r /\ asks[r] = "xdr"))
      /\ (authSheet' = authSheet \/ (authSheet' = r /\ asks[r] = "auth"))
      /\ done' \in BOOLEAN
  BY DEF RequestArrives, WalletInv, WalletTypeOK
<1>4. tap[t].at = "idle" /\ tap[t].of = Blank
  BY <1>1 DEF Fresh, WalletInv, HandlersEntitled, Entitled
<1>5. TimersCounted' /\ closing' \in 0..Cardinality(Taps)
  <2>1. \A u \in Taps : tap[u].at = "used" => tap'[u].at = "used"
    BY <1>2, <1>4
  <2>2. closing' \in 0..closing
    BY <1>1, WalletAssumption, FS_CardinalityType DEF WalletInv, WalletTypeOK
  <2> QED BY <2>1, <2>2, TimersStayCounted DEF WalletInv
<1>6. WalletTypeOK'
  <2>1. {xdrSheet, authSheet}' \subseteq DappRequests \union {Blank} /\ arrived' \subseteq DappRequests
    BY <1>1, <1>3 DEF WalletInv, WalletTypeOK
  <2> QED BY <1>1, <1>2, <1>3, <1>5, <2>1 DEF WalletInv, WalletTypeOK, Handler
<1>7. SheetsMatch'
  BY <1>1, <1>3 DEF WalletInv, SheetsMatch
<1>8. HandlersEntitled'
  <2> SUFFICES ASSUME NEW u \in Taps PROVE Entitled(tap[u])'
    BY DEF HandlersEntitled
  <2>1. CASE tap'[u] = tap[u]
    BY <1>1, <2>1 DEF WalletInv, HandlersEntitled, Entitled
  <2>2. CASE tap'[u] # tap[u]
    BY <1>1, <1>2, <2>2 DEF Entitled
  <2> QED BY <2>1, <2>2
<1>9. ResultWasApproved'
  BY <1>1 DEF WalletInv, ResultWasApproved
<1>10. DecidedIsAnswered'
  <2> SUFFICES ASSUME NEW q \in agreed \union declined, answers[q] = {}, ~(undelivered > 0)
               PROVE  \E u \in Taps : tap'[u].of = q
    BY <1>1 DEF DecidedIsAnswered
  <2>1. PICK u \in Taps : tap[u].of = q
    BY DEF WalletInv, DecidedIsAnswered
  <2>2. q # Blank
    BY WalletAssumption DEF WalletInv, WalletTypeOK
  <2> QED BY <1>2, <1>4, <2>1, <2>2
<1> QED BY <1>5, <1>6, <1>7, <1>8, <1>9, <1>10 DEF WalletInv

\* A tap on the sheet of a request decides that request.
LEMMA DecisionKeepsInv ==
  ASSUME WalletInv, NEW r \in DappRequests, NEW t \in Taps, Fresh(t), Shows(r),
         NEW at \in {"sign", "answer"}, NEW says \in {"result", "refused", "noSession"}, Begins(t, r, at, says, locks),
         agreed' \subseteq agreed \union {r}, declined' \subseteq declined \union {r},
         agreed \subseteq agreed', declined \subseteq declined',
         at = "sign" => r \in agreed',
         at = "answer" => says # "result",
         at = "answer" /\ says = "refused" => r \in declined' \/ (asks[r] = "auth" /\ r \in agreed'),
         UNCHANGED <<askVars, sessions, slotVars, lockVars, answers, signed, undelivered>>
  PROVE  WalletInv'
<1> USE DEF askVars, slotVars, lockVars
<1>1. /\ tap' \in [Taps -> Handler] /\ tap'[t].of = r /\ tap'[t].at = at /\ tap'[t].says = says
      /\ \A u \in Taps : u # t => tap'[u] = tap[u]
  <2>1. locks \in 0..NoMount /\ says \in Answers
    BY WalletAssumption DEF WalletInv, WalletTypeOK, NoMount, Answers
  <2> QED BY <2>1, BeginsFacts DEF WalletInv
<1>2. tap[t].at = "idle" /\ tap[t].of = Blank
  BY DEF Fresh, WalletInv, HandlersEntitled, Entitled
<1>3. TimersCounted' /\ closing' \in 0..Cardinality(Taps)
  <2>1. \A u \in Taps : tap[u].at = "used" => tap'[u].at = "used"
    BY <1>1, <1>2
  <2>2. closing' \in 0..closing
    BY WalletAssumption, FS_CardinalityType DEF WalletInv, WalletTypeOK
  <2> QED BY <2>1, <2>2, TimersStayCounted DEF WalletInv
<1>4. WalletTypeOK'
  BY <1>1, <1>3 DEF WalletInv, WalletTypeOK, Handler
<1>5. SheetsMatch'
  BY DEF WalletInv, SheetsMatch
<1>6. HandlersEntitled'
  <2> SUFFICES ASSUME NEW u \in Taps PROVE Entitled(tap[u])'
    BY DEF HandlersEntitled
  <2>1. CASE u = t
    BY <1>1, <2>1 DEF Entitled
  <2>2. CASE u # t
    BY <1>1, <2>2 DEF WalletInv, HandlersEntitled, Entitled
  <2> QED BY <2>1, <2>2
<1>7. ResultWasApproved'
  BY DEF WalletInv, ResultWasApproved
<1>8. DecidedIsAnswered'
  <2> SUFFICES ASSUME NEW q \in agreed' \union declined', answers[q] = {}, ~(undelivered > 0)
               PROVE  \E u \in Taps : tap'[u].of = q
    BY DEF DecidedIsAnswered
  <2>1. CASE q = r
    BY <1>1, <2>1
  <2>2. CASE q # r
    <3>1. PICK u \in Taps : tap[u].of = q
      BY <2>2 DEF WalletInv, DecidedIsAnswered
    <3>2. q # Blank
      BY <2>2, WalletAssumption DEF WalletInv, WalletTypeOK
    <3> QED BY <1>1, <1>2, <3>1, <3>2
  <2> QED BY <2>1, <2>2
<1> QED BY <1>3, <1>4, <1>5, <1>6, <1>7, <1>8 DEF WalletInv

\* What the sheet of an auth entry shows is no transaction.
LEMMA ShownAsks ==
  ASSUME WalletInv, NEW r \in DappRequests, Shows(r) PROVE asks[r] \in {"xdr", "auth"}
BY WalletAssumption DEF WalletInv, SheetsMatch, Shows

LEMMA ApprovesKeepsInv ==
  ASSUME WalletInv, NEW r \in DappRequests, NEW t \in Taps, Approves(t, r) PROVE WalletInv'
<1>1. /\ Fresh(t) /\ Shows(r) /\ agreed' = agreed \union {r} /\ declined' = declined
      /\ UNCHANGED <<askVars, sessions, slotVars, lockVars, answers, signed, undelivered>>
  BY DEF Approves
<1>2. CASE Begins(t, r, "sign", "result", locks)
  BY <1>1, <1>2, DecisionKeepsInv
<1>3. CASE Begins(t, r, "answer", IF asks[r] = "xdr" THEN "noSession" ELSE "refused", locks)
  <2>1. CASE asks[r] = "xdr" /\ Begins(t, r, "answer", "noSession", locks)
    BY <1>1, <2>1, DecisionKeepsInv
  <2>2. CASE asks[r] = "auth" /\ Begins(t, r, "answer", "refused", locks)
    BY <1>1, <2>2, DecisionKeepsInv
  <2> QED BY <1>1, <1>3, <2>1, <2>2, ShownAsks
<1> QED BY <1>2, <1>3 DEF Approves

LEMMA DeclinesKeepsInv ==
  ASSUME WalletInv, NEW r \in DappRequests, NEW t \in Taps, Declines(t, r) PROVE WalletInv'
<1>1. /\ Fresh(t) /\ Shows(r) /\ declined' = declined \union {r} /\ agreed' = agreed
      /\ Begins(t, r, "answer", "refused", locks)
      /\ UNCHANGED <<askVars, sessions, slotVars, lockVars, answers, signed, undelivered>>
  BY DEF Declines
<1> QED BY <1>1, DecisionKeepsInv

\* A signature is of the request the handler works for.
LEMMA SignRequestKeepsInv ==
  ASSUME WalletInv, NEW t \in Taps, SignRequest(t) PROVE WalletInv'
<1> DEFINE r == tap[t].of
<1>1. /\ tap[t].at = "sign" /\ r \in DappRequests /\ (asks[r] = "message" \/ r \in agreed)
      /\ tap[t].mount \in 0..NoMount
  BY DEF SignRequest, WalletInv, HandlersEntitled, Entitled, WalletTypeOK
<1>2. /\ UNCHANGED <<askVars, sessions, slotVars, lockVars, answers, agreed, declined, undelivered>>
      /\ signed' = signed \/ signed' = signed \union {r}
  BY DEF SignRequest, Subject
<1>3. /\ tap' \in [Taps -> Handler] /\ \A u \in Taps : u # t => tap'[u] = tap[u]
      /\ tap'[t].of = r /\ tap'[t].at = "answer" /\ tap'[t].says \in {"result", "error"}
      /\ tap'[t].says = "result" => r \in signed'
  <2> DEFINE m == tap[t].mount
  <2>0. WalletTypeOK /\ {"result", "error"} \subseteq Answers
    BY DEF WalletInv, Answers
  <2>1. CASE GoesOn(t, r, "answer", "result") /\ signed' = signed \union {r}
    <3>1. Begins(t, r, "answer", "result", m)
      BY <2>1 DEF GoesOn
    <3> HIDE DEF r, m
    <3>2. m \in 0..NoMount
      BY <1>1 DEF m
    <3> QED BY <1>1, <2>0, <2>1, <3>1, <3>2, BeginsFacts
  <2>2. CASE GoesOn(t, r, "answer", "error")
    <3>1. Begins(t, r, "answer", "error", m)
      BY <2>2 DEF GoesOn
    <3> HIDE DEF r, m
    <3>2. m \in 0..NoMount
      BY <1>1 DEF m
    <3>3. /\ tap' \in [Taps -> Handler] /\ \A u \in Taps : u # t => tap'[u] = tap[u]
          /\ tap'[t].of = r /\ tap'[t].at = "answer" /\ tap'[t].says = "error"
      BY <1>1, <2>0, <3>1, <3>2, BeginsFacts
    <3> QED BY <3>3
  <2> QED BY <2>1, <2>2 DEF SignRequest, Subject
<1> HIDE DEF r
<1> USE DEF askVars, slotVars, lockVars
<1>4. TimersCounted' /\ closing' \in 0..Cardinality(Taps)
  <2>1. \A u \in Taps : tap[u].at = "used" => tap'[u].at = "used"
    BY <1>1, <1>3
  <2>2. closing' \in 0..closing
    BY <1>2, WalletAssumption, FS_CardinalityType DEF WalletInv, WalletTypeOK
  <2> QED BY <2>1, <2>2, TimersStayCounted DEF WalletInv
<1>5. WalletTypeOK'
  BY <1>1, <1>2, <1>3, <1>4 DEF WalletInv, WalletTypeOK, Handler
<1>6. SheetsMatch'
  BY <1>2 DEF WalletInv, SheetsMatch
<1>7. HandlersEntitled'
  <2> SUFFICES ASSUME NEW u \in Taps PROVE Entitled(tap[u])'
    BY DEF HandlersEntitled
  <2>1. CASE u = t
    BY <1>1, <1>3, <2>1 DEF Entitled
  <2>2. CASE u # t
    BY <1>2, <1>3, <2>2 DEF WalletInv, HandlersEntitled, Entitled
  <2> QED BY <2>1, <2>2
<1>8. ResultWasApproved'
  BY <1>1, <1>2 DEF WalletInv, ResultWasApproved
<1>9. DecidedIsAnswered'
  BY <1>2, <1>3 DEF WalletInv, DecidedIsAnswered, r
<1> QED BY <1>4, <1>5, <1>6, <1>7, <1>8, <1>9 DEF WalletInv

\* A handler that is over has answered its request, or has failed to.
LEMMA RespondKeepsInv ==
  ASSUME WalletInv, NEW t \in Taps, Respond(t) PROVE WalletInv'
<1> DEFINE r == tap[t].of
           s == tap[t].says
<1>1. /\ tap[t].at = "answer" /\ r \in DappRequests /\ s \in Answers /\ tap[t].mount \in 0..NoMount
      /\ s = "result" => r \in signed
      /\ s = "refused" => r \in declined \/ (asks[r] = "auth" /\ r \in agreed)
  BY DEF Respond, WalletInv, HandlersEntitled, Entitled, WalletTypeOK
<1>2. UNCHANGED <<asks, topicOf, arrived, sessions, proposal, mounted, locks, agreed, declined, signed>>
  BY DEF Respond, askVars, lockVars
<1> DEFINE said == [answers EXCEPT ![r] = @ \union {s}]
<1>3. /\ (answers' = answers \/ answers' = said)
      /\ \/ undelivered' = undelivered /\ answers' = said
         \/ undelivered < MaxUndelivered /\ undelivered' = undelivered + 1
  <2>1. \/ answers' = said /\ UNCHANGED undelivered
        \/ undelivered < MaxUndelivered /\ undelivered' = undelivered + 1 /\ answers' \in {answers, said}
    BY DEF Respond, Subject
  <2> QED BY <2>1
<1>4. /\ xdrSheet' \in {xdrSheet, Blank} /\ authSheet' \in {authSheet, Blank} /\ done' \in BOOLEAN
      /\ (closing' = closing \/ (closing' = closing + 1 /\ Stops(t)))
  BY DEF Respond, Cleared, WalletInv, WalletTypeOK
<1>5. Stops(t) \/ GoesOn(t, r, "answer", "error")
  BY DEF Respond
<1>6. /\ tap' \in [Taps -> Handler] /\ \A u \in Taps : u # t => tap'[u] = tap[u]
      /\ \/ tap'[t].at = "used"
         \/ tap'[t].at = "answer" /\ tap'[t].says = "error" /\ tap'[t].of = r
      /\ Stops(t) => tap'[t].at = "used"
  <2> DEFINE m == tap[t].mount
  <2>0. WalletTypeOK /\ {"result", "error"} \subseteq Answers /\ m \in 0..NoMount /\ NoMount \in 0..NoMount
    BY <1>1, WalletAssumption DEF WalletInv, Answers, NoMount
  <2>1. CASE Stops(t)
    <3>1. Begins(t, Blank, "used", "result", NoMount)
      BY <2>1 DEF Stops
    <3> HIDE DEF r, m
    <3> QED BY <2>0, <3>1, BeginsFacts
  <2>2. CASE ~Stops(t) /\ GoesOn(t, r, "answer", "error")
    <3>1. Begins(t, r, "answer", "error", m)
      BY <2>2 DEF GoesOn
    <3> HIDE DEF r, m
    <3> QED BY <1>1, <2>0, <2>2, <3>1, BeginsFacts
  <2> QED BY <1>5, <2>1, <2>2
<1>7. said \in [DappRequests -> SUBSET Answers] /\ s \in said[r]
      /\ \A q \in DappRequests : answers[q] \subseteq said[q] /\ said[q] \subseteq answers[q] \union (IF q = r THEN {s} ELSE {})
  BY <1>1 DEF WalletInv, WalletTypeOK
<1> HIDE DEF r, s, said
<1>8. closing \in Nat
  BY WalletAssumption, FS_CardinalityType DEF WalletInv, WalletTypeOK
<1>9. TimersCounted' /\ closing' \in 0..Cardinality(Taps)
  <2>1. CASE Stops(t)
    <3>1. closing' \in 0..closing + 1
      BY <1>4, <1>8
    <3> QED BY <1>1, <1>6, <2>1, <3>1, OneMoreTimer DEF WalletInv
  <2>2. CASE ~Stops(t)
    <3>1. closing' \in 0..closing
      BY <1>4, <1>8, <2>2
    <3>2. \A u \in Taps : tap[u].at = "used" => tap'[u].at = "used"
      BY <1>1, <1>6
    <3> QED BY <3>1, <3>2, TimersStayCounted DEF WalletInv
  <2> QED BY <2>1, <2>2
<1>10. answers' \in [DappRequests -> SUBSET Answers] /\ undelivered' \in 0..MaxUndelivered
  <2>1. undelivered \in 0..MaxUndelivered /\ answers \in [DappRequests -> SUBSET Answers]
    BY DEF WalletInv, WalletTypeOK
  <2> QED BY <1>3, <1>7, <2>1, WalletAssumption
<1>11. WalletTypeOK'
  <2>1. {xdrSheet', authSheet'} \subseteq DappRequests \union {Blank}
    BY <1>4 DEF WalletInv, WalletTypeOK
  <2> QED BY <1>2, <1>4, <1>6, <1>9, <1>10, <2>1 DEF WalletInv, WalletTypeOK, Handler
<1>12. SheetsMatch'
  BY <1>2, <1>4 DEF WalletInv, SheetsMatch
<1>13. HandlersEntitled'
  <2> SUFFICES ASSUME NEW u \in Taps PROVE Entitled(tap[u])'
    BY DEF HandlersEntitled
  <2>1. CASE u = t
    BY <1>1, <1>6, <2>1 DEF Entitled
  <2>2. CASE u # t
    BY <1>2, <1>6, <2>2 DEF WalletInv, HandlersEntitled, Entitled
  <2> QED BY <2>1, <2>2
<1>14. ResultWasApproved'
  <2> SUFFICES ASSUME NEW q \in DappRequests
               PROVE  /\ asks[q] # "message" /\ q \in signed => q \in agreed
                      /\ "result" \in answers'[q] => q \in signed
                      /\ "refused" \in answers'[q] => q \in declined \/ (asks[q] = "auth" /\ q \in agreed)
    BY <1>2 DEF ResultWasApproved
  <2>1. \A a \in answers'[q] : a \in answers[q] \/ (q = r /\ a = s)
    BY <1>3, <1>7
  <2> QED BY <1>1, <2>1 DEF WalletInv, ResultWasApproved
<1>15. DecidedIsAnswered'
  <2> SUFFICES ASSUME NEW q \in agreed \union declined, answers'[q] = {}, ~(undelivered' > 0)
               PROVE  \E u \in Taps : tap'[u].of = q
    BY <1>2 DEF DecidedIsAnswered
  <2>1. q \in DappRequests /\ undelivered \in Nat
    BY WalletAssumption DEF WalletInv, WalletTypeOK
  <2>2. undelivered' = undelivered /\ answers' = said
    BY <1>3, <2>1
  <2>3. answers[q] = {} /\ q # r
    BY <1>7, <2>1, <2>2
  <2>4. PICK u \in Taps : tap[u].of = q
    BY <2>2, <2>3 DEF WalletInv, DecidedIsAnswered
  <2> QED BY <1>6, <2>3, <2>4 DEF r
<1> QED BY <1>9, <1>11, <1>12, <1>13, <1>14, <1>15 DEF WalletInv

\* A proposal that is decided becomes a session, or not.
LEMMA DecideProposalKeepsInv ==
  ASSUME WalletInv, NEW t \in Taps, DecideProposal(t) PROVE WalletInv'
<1>1. /\ tap[t].at = "idle" /\ tap[t].of = Blank /\ proposal \in Topics
      /\ UNCHANGED <<askVars, sessions, slotVars, lockVars, tapHistory>>
  BY DEF DecideProposal, Fresh, WalletInv, HandlersEntitled, Entitled, WalletTypeOK
<1>2. PICK at \in {"connect", "leave"} : Begins(t, proposal, at, "result", locks)
  BY DEF DecideProposal
<1>3. /\ tap' \in [Taps -> Handler] /\ tap'[t].of = proposal /\ tap'[t].at = at
      /\ \A u \in Taps : u # t => tap'[u] = tap[u]
  <2>1. locks \in 0..NoMount /\ "result" \in Answers /\ WalletTypeOK
    BY WalletAssumption DEF WalletInv, WalletTypeOK, NoMount, Answers
  <2> QED BY <1>1, <1>2, <2>1, BeginsFacts
<1> USE DEF askVars, slotVars, lockVars, tapHistory
<1>4. TimersCounted' /\ closing' \in 0..Cardinality(Taps)
  <2>1. \A u \in Taps : tap[u].at = "used" => tap'[u].at = "used"
    BY <1>1, <1>3
  <2>2. closing' \in 0..closing
    BY <1>1, WalletAssumption, FS_CardinalityType DEF WalletInv, WalletTypeOK
  <2> QED BY <2>1, <2>2, TimersStayCounted DEF WalletInv
<1>5. WalletTypeOK'
  BY <1>1, <1>3, <1>4 DEF WalletInv, WalletTypeOK, Handler
<1>6. SheetsMatch' /\ ResultWasApproved'
  BY <1>1 DEF WalletInv, SheetsMatch, ResultWasApproved
<1>7. HandlersEntitled'
  <2> SUFFICES ASSUME NEW u \in Taps PROVE Entitled(tap[u])'
    BY DEF HandlersEntitled
  <2>1. CASE u = t
    BY <1>1, <1>3, <2>1 DEF Entitled
  <2>2. CASE u # t
    BY <1>1, <1>3, <2>2 DEF WalletInv, HandlersEntitled, Entitled
  <2> QED BY <2>1, <2>2
<1>8. DecidedIsAnswered'
  <2> SUFFICES ASSUME NEW q \in agreed \union declined, answers[q] = {}, ~(undelivered > 0)
               PROVE  \E u \in Taps : tap'[u].of = q
    BY <1>1 DEF DecidedIsAnswered
  <2>1. PICK u \in Taps : tap[u].of = q
    BY DEF WalletInv, DecidedIsAnswered
  <2>2. q # Blank
    BY WalletAssumption DEF WalletInv, WalletTypeOK
  <2> QED BY <1>1, <1>3, <2>1, <2>2
<1> QED BY <1>4, <1>5, <1>6, <1>7, <1>8 DEF WalletInv

LEMMA ProposalDecidedKeepsInv ==
  ASSUME WalletInv, NEW t \in Taps, ProposalDecided(t) PROVE WalletInv'
<1>1. /\ tap[t].at \in {"connect", "leave"} /\ tap[t].of \in Topics /\ Stops(t)
      /\ UNCHANGED <<askVars, xdrSheet, authSheet, done, closing, lockVars, answers, agreed, declined, signed>>
      /\ proposal' \in {Blank, proposal} /\ sessions' \subseteq sessions \union {tap[t].of}
  BY DEF ProposalDecided, WalletInv, HandlersEntitled, Entitled
<1>2. undelivered' = undelivered \/ (undelivered < MaxUndelivered /\ undelivered' = undelivered + 1)
  BY DEF ProposalDecided
<1>3. /\ tap' \in [Taps -> Handler] /\ tap'[t].at = "used"
      /\ \A u \in Taps : u # t => tap'[u] = tap[u]
  <2>1. NoMount \in 0..NoMount /\ "result" \in Answers /\ WalletTypeOK
    BY WalletAssumption DEF WalletInv, NoMount, Answers
  <2>2. Begins(t, Blank, "used", "result", NoMount)
    BY <1>1 DEF Stops
  <2> QED BY <2>1, <2>2, BeginsFacts
<1> USE DEF askVars, lockVars
<1>4. TimersCounted' /\ closing' \in 0..Cardinality(Taps)
  <2>1. \A u \in Taps : tap[u].at = "used" => tap'[u].at = "used"
    BY <1>1, <1>3
  <2>2. closing' \in 0..closing
    BY <1>1, WalletAssumption, FS_CardinalityType DEF WalletInv, WalletTypeOK
  <2> QED BY <2>1, <2>2, TimersStayCounted DEF WalletInv
<1>5. WalletTypeOK'
  <2>1. proposal' \in Topics \union {Blank} /\ sessions' \subseteq Topics
    BY <1>1 DEF WalletInv, WalletTypeOK
  <2>2. undelivered' \in 0..MaxUndelivered
    BY <1>2, WalletAssumption DEF WalletInv, WalletTypeOK
  <2> QED BY <1>1, <1>3, <1>4, <2>1, <2>2 DEF WalletInv, WalletTypeOK, Handler
<1>6. SheetsMatch' /\ ResultWasApproved'
  BY <1>1 DEF WalletInv, SheetsMatch, ResultWasApproved
<1>7. HandlersEntitled'
  <2> SUFFICES ASSUME NEW u \in Taps PROVE Entitled(tap[u])'
    BY DEF HandlersEntitled
  <2>1. CASE u = t
    BY <1>3, <2>1 DEF Entitled
  <2>2. CASE u # t
    BY <1>1, <1>3, <2>2 DEF WalletInv, HandlersEntitled, Entitled
  <2> QED BY <2>1, <2>2
<1>8. DecidedIsAnswered'
  <2> SUFFICES ASSUME NEW q \in agreed \union declined, answers[q] = {}, ~(undelivered' > 0)
               PROVE  \E u \in Taps : tap'[u].of = q
    BY <1>1 DEF DecidedIsAnswered
  <2>1. q \in DappRequests /\ undelivered \in Nat
    BY WalletAssumption DEF WalletInv, WalletTypeOK
  <2>2. ~(undelivered > 0)
    BY <1>2, <2>1
  <2>3. PICK u \in Taps : tap[u].of = q
    BY <2>2 DEF WalletInv, DecidedIsAnswered
  <2> QED BY <1>1, <1>3, <2>1, <2>3, WalletAssumption
<1> QED BY <1>4, <1>5, <1>6, <1>7, <1>8 DEF WalletInv

\* The provider goes, and its sheets with it; the handlers stay.
LEMMA LockWalletKeepsInv ==
  ASSUME WalletInv, LockWallet PROVE WalletInv'
<1> USE DEF LockWallet, askVars, tapHistory
<1>1. TimersCounted' /\ closing' \in 0..Cardinality(Taps)
  <2>1. closing' \in 0..closing
    BY WalletAssumption, FS_CardinalityType DEF WalletInv, WalletTypeOK
  <2> QED BY <2>1, TimersStayCounted DEF WalletInv
<1>2. WalletTypeOK'
  <2>1. locks' \in 0..MaxLocks
    BY WalletAssumption DEF WalletInv, WalletTypeOK
  <2> QED BY <1>1, <2>1 DEF WalletInv, WalletTypeOK
<1>3. SheetsMatch' /\ HandlersEntitled'
  BY DEF WalletInv, SheetsMatch, HandlersEntitled, Entitled
<1>4. ResultWasApproved' /\ DecidedIsAnswered'
  BY DEF WalletInv, ResultWasApproved, DecidedIsAnswered
<1> QED BY <1>1, <1>2, <1>3, <1>4 DEF WalletInv

\* The timer of a success page takes whatever the sheet shows.
LEMMA CloseSheetKeepsInv ==
  ASSUME WalletInv, CloseSheet PROVE WalletInv'
<1> USE DEF CloseSheet, askVars, lockVars, tapHistory
<1>1. TimersCounted' /\ closing' \in 0..Cardinality(Taps)
  <2>1. closing' \in 0..closing
    BY WalletAssumption, FS_CardinalityType DEF WalletInv, WalletTypeOK
  <2> QED BY <2>1, TimersStayCounted DEF WalletInv
<1>2. WalletTypeOK'
  BY <1>1 DEF WalletInv, WalletTypeOK
<1>3. SheetsMatch' /\ HandlersEntitled'
  BY DEF WalletInv, SheetsMatch, HandlersEntitled, Entitled
<1>4. ResultWasApproved' /\ DecidedIsAnswered'
  BY DEF WalletInv, ResultWasApproved, DecidedIsAnswered
<1> QED BY <1>1, <1>2, <1>3, <1>4 DEF WalletInv

LEMMA WalletStepInv == WalletInv /\ [WalletNext]_walletVars => WalletInv'
<1> SUFFICES ASSUME WalletInv, [WalletNext]_walletVars PROVE WalletInv'
  OBVIOUS
<1>0. closing \in 0..closing /\ WalletTypeOK
  BY WalletAssumption, FS_CardinalityType DEF WalletInv, WalletTypeOK
<1>1. ASSUME NEW p \in Topics, Propose(p) \/ Disconnect(p) PROVE WalletInv'
  BY <1>0, <1>1, SessionStepsKeepInv DEF Propose, Disconnect, slotVars, lockVars, WalletTypeOK
<1>2. CASE ProposalTimesOut
  BY <1>0, <1>2, SessionStepsKeepInv DEF ProposalTimesOut, lockVars, WalletTypeOK
<1>3. CASE UnlockAgain
  BY <1>0, <1>3, SessionStepsKeepInv DEF UnlockAgain, slotVars, WalletTypeOK
<1>4. CASE UNCHANGED walletVars
  BY <1>0, <1>4, SessionStepsKeepInv DEF walletVars, slotVars, lockVars, WalletTypeOK
<1>5. ASSUME NEW t \in Taps, DecideProposal(t) \/ ProposalDecided(t) \/ SignRequest(t) \/ Respond(t)
      PROVE  WalletInv'
  BY <1>5, DecideProposalKeepsInv, ProposalDecidedKeepsInv, SignRequestKeepsInv, RespondKeepsInv
<1>6. ASSUME NEW t \in Taps, NEW r \in DappRequests, RequestArrives(r, t) \/ Approves(t, r) \/ Declines(t, r)
      PROVE  WalletInv'
  BY <1>6, RequestArrivesKeepsInv, ApprovesKeepsInv, DeclinesKeepsInv
<1> QED BY <1>1, <1>2, <1>3, <1>4, <1>5, <1>6, CloseSheetKeepsInv, LockWalletKeepsInv DEF WalletNext

\* The inductive invariant holds in every reachable state of the mobile wallet.
THEOREM WalletInvariant == WalletSpec => []WalletInv
<1> QED BY WalletInitInv, WalletStepInv, PTL DEF WalletSpec

\* The variables of the mobile wallet's requests have their types; there are never more
\* timers on the success page than taps.
THEOREM WalletTyped == WalletSpec => []WalletTypeOK
<1>1. WalletInv => WalletTypeOK
  BY DEF WalletInv
<1> QED BY <1>1, WalletInvariant, PTL

\* For any requests, sessions and taps, however newer requests, timers, locks and lost
\* answers interleave: a dApp gets a signature only for a request whose own sheet was
\* approved, and a request the user has decided on is answered.
THEOREM DappsAreAnswered == WalletSpec => []DappsAnswered
<1>1. WalletInv => DappsAnswered
  BY DEF WalletInv, DappsAnswered
<1> QED BY <1>1, WalletInvariant, PTL

-----------------------------------------------------------------------------
(* The vault: what was stored stays, and opens with the password last set. *)

\* The other calls are idle.
Alone(c) == \A d \in Calls \ {c} : At(d, "idle")

\* What the step of a call says about its locals.
Fits(d) ==
  /\ d.at \in {"salt", "derived", "verify", "verified"} => d.op \in {"unlock", "change"} /\ d.pw \in Passwords
  /\ d.at \in {"rederived", "check", "master"} => d.op \in {"unlock", "change"}
  /\ d.at = "read" => d.op = "change" /\ d.left \subseteq Items
  /\ d.at = "item" => d.op \in {"change", "save", "persist", "remove"} /\ d.under # Nothing
  /\ d.at = "load" => d.op \in {"persist", "remove"}
  /\ d.at = "delete" => d.op = "reset" /\ (d.wrote \/ d.left = Entries)
  /\ d.at # "idle" /\ d.op = "change" => d.new \in Passwords
  /\ d.at \in {"rederived", "check", "master"} => d.new \in Passwords
  /\ d.at \in {"derived", "rederived", "check", "master"} => d.salt # 0
  /\ d.at = "check" \/ (d.at = "item" /\ d.op = "change") => d.under = <<d.new, d.salt>> /\ d.salt # 0
  /\ d.at = "check" => d.left = {}
  /\ d.at = "item" /\ d.op = "change" => \A i \in d.left : i \in Items /\ d.plain[i] # Nothing
  /\ d.at = "item" /\ d.op # "change" => d.plain[d.key] # Nothing
  /\ d.at = "item" /\ d.op = "save" => d.plain[d.key] = d.arg
  /\ d.op \in {"persist", "remove"} => d.key = AccountKey
  /\ d.at \in {"salt", "derived", "verify", "verified", "read", "rederived", "load"} => ~d.wrote
  /\ d.at = "read" => \A i \in d.left : d.plain[i] = Nothing
  /\ d.at \in {"salt", "derived", "verify", "verified"} \/ (d.at = "rederived" /\ d.op = "unlock") =>
       \A i \in Items : d.plain[i] = Nothing

\* Only unlocks and saves overlap, over a vault that exists.
Apart ==
  \A c, d \in Calls : c # d /\ ~At(c, "idle") /\ ~At(d, "idle") =>
    call[c].op \in {"unlock", "save"} /\ salt # 0 /\ check # Nothing

\* A writer is at work on a key of its own.
Rewrites(c) == call[c].at \in {"item", "check"} /\ call[c].op \in {"unlock", "change"}

\* What a call knows of the store.
Ordered(c) ==
  /\ call[c].op = "unlock" /\ call[c].at \in {"rederived", "check", "master"} => salt = 0
  /\ call[c].at \in {"derived", "verify", "verified", "read"} => salt # 0
  /\ call[c].op = "change" /\ call[c].at \in {"rederived", "item", "check", "master"} => salt # 0
  /\ Rewrites(c) => key \in {Nothing, call[c].under}
  /\ At(c, "master") => check = <<call[c].new, call[c].salt>>
  /\ At(c, "delete") =>
       /\ "master_salt" \in call[c].left \/ salt = 0
       /\ "verification_payload" \in call[c].left \/ check = Nothing
       /\ \A i \in Items : i \in call[c].left \/ (item[i] = Nothing /\ kept[i] = Nothing)

\* A key that may be wrong is about to be judged, or to be stored.
Unsure(c) == At(c, "verify") \/ (At(c, "verified") /\ call[c].under = Nothing) \/ Rewrites(c)
First(c) == call[c].at \in {"check", "master"} /\ call[c].op = "unlock"
Saving(c) == At(c, "item") /\ call[c].op # "change"

KeyIsSure == key \in {Nothing, check} \/ \E c \in Calls : Unsure(c)
KeyHasSalt == salt = 0 => key = Nothing \/ \E c \in Calls : First(c)

\* Unless a reset was cut short, a published key opens the vault.
KeyRight ==
  ~Torn("reset") =>
    /\ salt # 0 => check # Nothing
    /\ KeyIsSure /\ KeyHasSalt
    /\ salt = 0 => \A i \in Items : kept[i] = Nothing
    /\ \A c \in Calls : Saving(c) => salt # 0 /\ call[c].under = check

Stored(i, k) == item[i] = IF kept[i] = Nothing THEN Nothing ELSE [under |-> k, records |-> kept[i]]

\* Where a change of the password is.
Stage(c) ==
  /\ At(c, "read") => \A i \in Items : call[c].plain[i] = IF i \in call[c].left THEN Nothing ELSE kept[i]
  /\ call[c].at \in {"rederived", "item", "check"} => \A i \in Items : call[c].plain[i] = kept[i]
  /\ call[c].at \in {"item", "check"} =>
       \A i \in Items : Stored(i, IF i \in call[c].left THEN check ELSE call[c].under)
  /\ At(c, "master") => \A i \in Items : Stored(i, check)

Clean == ~Torn("change") /\ ~Torn("reset")

RecordsRight ==
  /\ Clean => (\A i \in Items : Stored(i, check)) /\ (salt # 0 => check = <<password, salt>>)
  /\ Clean => \A c \in Calls :
       Saving(c) /\ call[c].op # "save" =>
         call[c].plain[AccountKey] = Changed(call[c], kept[AccountKey])
  /\ torn = {} => \A c \in Calls : call[c].op = "change" => Stage(c)

Refused ==
  /\ RefusedChangeWroteNothing
  /\ \A c \in Calls : ~At(c, "idle") => outcome[c] = "none"

VaultTyped ==
  /\ salt \in 0..MaxSalt /\ salts \in 0..MaxSalt
  /\ check \in Keys \union {Nothing} /\ key \in Keys \union {Nothing}
  /\ item \in [Items -> Payloads \union {Nothing}] /\ kept \in [Items -> Records]
  /\ outcome \in [Calls -> Outcomes] /\ password \in Passwords \union {Nothing}
  /\ torn \subseteq {"change", "reset"} /\ deaths \in 0..MaxFaults
  /\ call \in [Calls -> Call]

VaultInv ==
  /\ VaultTyped /\ (\A c \in Calls : Fits(call[c])) /\ Apart /\ (\A c \in Calls : Ordered(c))
  /\ KeyRight /\ RecordsRight /\ Refused

LEMMA KeyFacts ==
  \A pw \in Passwords, n \in 0..MaxSalt : n # 0 => <<pw, n>> \in Keys /\ <<pw, n>> # Nothing
<1> SUFFICES ASSUME NEW pw \in Passwords, NEW n \in 0..MaxSalt, n # 0
             PROVE  <<pw, n>> \in Keys /\ <<pw, n>> # Nothing
  OBVIOUS
<1>1. n \in 1..MaxSalt
  BY VaultAssumption
<1>2. <<pw, n>> \in Keys
  BY <1>1 DEF Keys
<1> QED BY <1>2, VaultAssumption

LEMMA ValueFacts ==
  /\ \A r \in SUBSET Accounts : r # Nothing
  /\ \A p \in Payloads : p # Nothing
  /\ \A k \in Keys : k # Nothing
BY VaultAssumption

LEMMA CallFacts ==
  ASSUME VaultTyped, NEW c \in Calls
  PROVE  /\ call[c] \in Call /\ call[c].at \in Steps /\ call[c].op \in Ops
         /\ call[c].pw \in Passwords \union {Nothing} /\ call[c].new \in Passwords \union {Nothing}
         /\ call[c].key \in Items /\ call[c].arg \in SUBSET Accounts /\ call[c].salt \in 0..MaxSalt
         /\ call[c].under \in Keys \union {Nothing} /\ call[c].plain \in [Items -> Records]
         /\ call[c].left \in SUBSET Entries /\ call[c].wrote \in BOOLEAN
<1>1. call[c] \in Call
  BY DEF VaultTyped
<1> QED BY <1>1 DEF Call

LEMMA IdleFacts ==
  /\ Idle \in Call /\ Idle.at = "idle" /\ Idle.op = "unlock" /\ Idle.wrote = FALSE /\ Idle.left = {}
  /\ Idle.key = AccountKey /\ Idle.plain = NoRecords /\ NoRecords \in [Items -> Records]
<1>1. AccountKey \in Items /\ NoRecords \in [Items -> Records]
  BY DEF Items, NoRecords, Records
<1> QED BY <1>1, VaultAssumption DEF Idle, Call, Steps, Ops, Entries

\* A call that goes on, and one that returns.
LEMMA GoFacts ==
  ASSUME VaultTyped, NEW c \in Calls, NEW d \in Call, Go(c, d)
  PROVE  /\ call' \in [Calls -> Call] /\ call'[c] = d /\ outcome' = outcome
         /\ \A o \in Calls \ {c} : call'[o] = call[o]
BY DEF VaultTyped, Go

LEMMA ReturnsFacts ==
  ASSUME VaultTyped, NEW c \in Calls, NEW result \in Outcomes, Returns(c, result)
  PROVE  /\ call' \in [Calls -> Call] /\ call'[c].at = "idle" /\ call'[c].op = call[c].op
         /\ call'[c].wrote = call[c].wrote /\ call'[c].key = AccountKey
         /\ outcome' \in [Calls -> Outcomes] /\ outcome'[c] = result
         /\ \A o \in Calls \ {c} : call'[o] = call[o] /\ outcome'[o] = outcome[o]
<1> DEFINE d == [Idle EXCEPT !.op = call[c].op, !.wrote = call[c].wrote]
<1>1. d \in Call /\ d.at = "idle" /\ d.op = call[c].op /\ d.wrote = call[c].wrote /\ d.key = AccountKey
  BY IdleFacts, CallFacts DEF Call
<1>2. call' = [call EXCEPT ![c] = d] /\ outcome' = [outcome EXCEPT ![c] = result]
  BY DEF Returns
<1> HIDE DEF d
<1>3. call' \in [Calls -> Call] /\ call'[c] = d /\ \A o \in Calls \ {c} : call'[o] = call[o]
  BY <1>1, <1>2 DEF VaultTyped
<1>4. /\ outcome' \in [Calls -> Outcomes] /\ outcome'[c] = result
      /\ \A o \in Calls \ {c} : outcome'[o] = outcome[o]
  BY <1>2 DEF VaultTyped
<1> QED BY <1>1, <1>3, <1>4

\* Whoever is not an unlock or a save over a vault that exists is alone.
LEMMA AloneWhen ==
  ASSUME Apart, NEW c \in Calls, ~At(c, "idle"),
         call[c].op \notin {"unlock", "save"} \/ salt = 0 \/ check = Nothing
  PROVE  Alone(c)
BY DEF Apart, Alone

LEMMA ApartStays ==
  ASSUME Apart, NEW c \in Calls, ~At(c, "idle"), \A o \in Calls \ {c} : call'[o] = call[o],
         call'[c].op = call[c].op, Alone(c) \/ (salt' = salt /\ check' = check)
  PROVE  Apart'
<1> SUFFICES ASSUME NEW a \in Calls, NEW b \in Calls, a # b, ~At(a, "idle")', ~At(b, "idle")'
             PROVE  call'[a].op \in {"unlock", "save"} /\ salt' # 0 /\ check' # Nothing
  BY DEF Apart
<1>1. ~At(a, "idle") /\ ~At(b, "idle") /\ call'[a].op = call[a].op
  BY DEF At
<1>2. ~Alone(c)
  BY <1>1 DEF Alone
<1> QED BY <1>1, <1>2 DEF Apart

\* The calls beside one that takes a step keep what they know.
LEMMA OthersStay ==
  ASSUME VaultInv, NEW c \in Calls, ~At(c, "idle"), NEW o \in Calls \ {c}, call'[o] = call[o],
         Alone(c) \/ (salt' = salt /\ check' = check)
  PROVE  Fits(call'[o]) /\ Ordered(o)'
<1>1. Fits(call[o])
  BY DEF VaultInv
<1>2. CASE At(o, "idle")
  BY <1>1, <1>2 DEF Ordered, At, Rewrites
<1>3. CASE ~At(o, "idle")
  <2>1. ~Alone(c) /\ salt' = salt /\ check' = check
    BY <1>3 DEF Alone
  <2>2. call[o].op \in {"unlock", "save"} /\ salt # 0
    BY <1>3 DEF VaultInv, Apart
  <2>3. Ordered(o)
    BY DEF VaultInv
  <2>4. call[o].at \notin {"rederived", "check", "master", "delete", "read"} /\ ~Rewrites(o)
    BY <1>1, <2>2, <2>3 DEF Ordered, Fits, Rewrites
  <2> QED BY <1>1, <2>1, <2>2, <2>4 DEF Ordered, At, Rewrites
<1> QED BY <1>2, <1>3

LEMMA VaultInitInv == VaultInit => VaultInv
<1> SUFFICES ASSUME VaultInit PROVE VaultInv
  OBVIOUS
<1>1. VaultTyped
  BY IdleFacts, VaultAssumption DEF VaultInit, VaultTyped, Outcomes, NoRecords, Records
<1>2. \A c \in Calls : call[c] = Idle /\ At(c, "idle") /\ outcome[c] = "none"
  BY IdleFacts DEF VaultInit, At
<1>3. \A c \in Calls : Fits(call[c]) /\ Ordered(c)
  BY <1>2, IdleFacts DEF Fits, Ordered, At, Rewrites
<1>4. Apart
  BY <1>2 DEF Apart
<1>5. KeyRight
  BY <1>2 DEF VaultInit, KeyRight, KeyIsSure, KeyHasSalt, Saving, At, NoRecords
<1>6. RecordsRight
  BY <1>2, IdleFacts DEF VaultInit, RecordsRight, Stored, NoRecords, Saving, At
<1>7. Refused
  BY <1>2 DEF Refused, RefusedChangeWroteNothing
<1> QED BY <1>1, <1>3, <1>4, <1>5, <1>6, <1>7 DEF VaultInv

\* A step of a call that has not written and writes nothing.
LEMMA QuietKeepsInv ==
  ASSUME VaultInv, NEW c \in Calls, ~At(c, "idle"), ~call[c].wrote,
         call' \in [Calls -> Call], \A o \in Calls \ {c} : call'[o] = call[o],
         call'[c].op = call[c].op, ~call'[c].wrote, Fits(call'[c]), Ordered(c)',
         UNCHANGED <<disk, history, deaths>>,
         salts' \in 0..MaxSalt, key' \in Keys \union {Nothing},
         outcome' \in [Calls -> Outcomes], \A o \in Calls \ {c} : outcome'[o] = outcome[o],
         call'[c].at = "idle" \/ outcome'[c] = outcome[c],
         ~Torn("reset") => KeyIsSure' /\ KeyHasSalt',
         ~Torn("reset") /\ call'[c].at = "item" /\ call[c].op # "change" =>
           salt # 0 /\ call'[c].under = check,
         Clean /\ call'[c].at = "item" /\ call[c].op \notin {"save", "change"} =>
           call'[c].plain[AccountKey] = Changed(call'[c], kept[AccountKey]),
         torn = {} /\ call[c].op = "change" => Stage(c)'
  PROVE  VaultInv'
<1>1. /\ salt' = salt /\ check' = check /\ item' = item /\ kept' = kept /\ password' = password
      /\ torn' = torn /\ deaths' = deaths
  BY DEF disk, history
<1>2. VaultTyped'
  BY <1>1 DEF VaultInv, VaultTyped
<1>3. \A o \in Calls : Fits(call'[o]) /\ Ordered(o)'
  BY <1>1, OthersStay
<1>4. Apart'
  BY <1>1, ApartStays DEF VaultInv
<1>5. \A o \in Calls : \A op \in {"change", "reset"} : Writes(o, op)' <=> Writes(o, op)
  BY DEF Writes, At
<1>6. (Torn("reset")' <=> Torn("reset")) /\ (Clean' <=> Clean)
  BY <1>1, <1>5 DEF Torn, UnderWay, Clean
<1>7. KeyRight'
  <2> SUFFICES ASSUME ~Torn("reset")
               PROVE  /\ salt # 0 => check # Nothing
                      /\ KeyIsSure' /\ KeyHasSalt'
                      /\ salt = 0 => \A i \in Items : kept[i] = Nothing
                      /\ \A o \in Calls : Saving(o)' => salt # 0 /\ call'[o].under = check
    BY <1>1, <1>6 DEF KeyRight
  <2>1. /\ salt # 0 => check # Nothing
        /\ salt = 0 => \A i \in Items : kept[i] = Nothing
        /\ \A o \in Calls : Saving(o) => salt # 0 /\ call[o].under = check
    BY DEF VaultInv, KeyRight
  <2>2. ASSUME NEW o \in Calls, Saving(o)' PROVE salt # 0 /\ call'[o].under = check
    BY <2>1, <2>2 DEF Saving, At
  <2> QED BY <2>1, <2>2
<1>8. RecordsRight'
  <2>1. Clean => /\ \A i \in Items : Stored(i, check)'
                 /\ salt # 0 => check = <<password, salt>>
    BY <1>1 DEF VaultInv, RecordsRight, Stored
  <2>2. ASSUME Clean, NEW o \in Calls, Saving(o)', call'[o].op # "save"
        PROVE  call'[o].plain[AccountKey] = Changed(call'[o], kept[AccountKey])
    BY <2>2 DEF VaultInv, RecordsRight, Saving, At
  <2>3. ASSUME torn = {}, NEW o \in Calls, call'[o].op = "change" PROVE Stage(o)'
    <3>1. o = c \/ Stage(o)
      BY <2>3 DEF VaultInv, RecordsRight
    <3> QED BY <1>1, <2>3, <3>1 DEF Stage, At, Stored
  <2> QED BY <1>1, <1>6, <2>1, <2>2, <2>3 DEF RecordsRight
<1>9. Refused'
  <2>1. ASSUME NEW o \in Calls
        PROVE  /\ call'[o].op = "change" /\ outcome'[o] \in {"false", "unreadable"} => ~call'[o].wrote
               /\ ~At(o, "idle")' => outcome'[o] = "none"
    BY DEF VaultInv, Refused, RefusedChangeWroteNothing, At
  <2> QED BY <2>1 DEF Refused, RefusedChangeWroteNothing
<1> QED BY <1>2, <1>3, <1>4, <1>7, <1>8, <1>9 DEF VaultInv

\* What a call that acts knows of the key.
LEMMA KeyKnown ==
  ASSUME VaultInv, ~Torn("reset"), NEW c \in Calls
  PROVE  /\ KeyIsSure /\ KeyHasSalt /\ (salt # 0 => check # Nothing)
         /\ ~At(c, "idle") /\ salt = 0 => key = Nothing \/ First(c)
         /\ ~At(c, "idle") /\ Alone(c) => key \in {Nothing, check} \/ Unsure(c)
<1>1. KeyIsSure /\ KeyHasSalt /\ (salt # 0 => check # Nothing)
  BY DEF VaultInv, KeyRight
<1>2. ASSUME ~At(c, "idle"), salt = 0 PROVE key = Nothing \/ First(c)
  <2>1. \A o \in Calls \ {c} : ~First(o)
    BY <1>2, AloneWhen DEF VaultInv, Alone, First, At
  <2> QED BY <1>1, <1>2, <2>1 DEF KeyHasSalt
<1>3. ASSUME Alone(c) PROVE key \in {Nothing, check} \/ Unsure(c)
  BY <1>1, <1>3 DEF KeyIsSure, Alone, Unsure, Rewrites, At
<1> QED BY <1>1, <1>2, <1>3

\* A call that is not a witness of KeyRight leaves its witnesses alone.
LEMMA WitnessesStay ==
  ASSUME VaultInv, ~Torn("reset"), NEW c \in Calls, ~Unsure(c), ~First(c),
         \A o \in Calls \ {c} : call'[o] = call[o],
         key' = key, check' = check, salt' = salt
  PROVE  KeyIsSure' /\ KeyHasSalt'
<1>1. \A o \in Calls \ {c} : (Unsure(o) => Unsure(o)') /\ (First(o) => First(o)')
  BY DEF Unsure, First, Rewrites, At
<1>2. KeyIsSure /\ KeyHasSalt
  BY DEF VaultInv, KeyRight
<1> QED BY <1>1, <1>2 DEF KeyIsSure, KeyHasSalt

LEMMA LoadSaltKeepsInv == ASSUME VaultInv, NEW c \in Calls, LoadSalt(c) PROVE VaultInv'
<1>1. /\ At(c, "salt") /\ ~At(c, "idle") /\ call[c].op \in {"unlock", "change"} /\ ~call[c].wrote
      /\ Fits(call[c]) /\ VaultTyped /\ UNCHANGED <<disk, history, deaths>>
      /\ ~Unsure(c) /\ ~First(c)
  BY DEF LoadSalt, VaultInv, Fits, At, Unsure, First, Rewrites
<1>2. salt' = salt /\ check' = check
  BY <1>1 DEF disk
<1>3. CASE salt = 0 /\ call[c].op = "unlock"
  <2> DEFINE d == [call[c] EXCEPT !.at = "rederived", !.new = call[c].pw, !.salt = salts + 1]
  <2>1. salts < MaxSalt /\ salts' = salts + 1 /\ Go(c, d) /\ key' = key
    BY <1>1, <1>3 DEF LoadSalt
  <2>2. salts + 1 \in 0..MaxSalt /\ salts + 1 # 0
    BY <1>1, <2>1, VaultAssumption DEF VaultTyped
  <2>3. /\ d \in Call /\ d.at = "rederived" /\ d.op = "unlock" /\ ~d.wrote /\ d.salt = salts + 1
        /\ d.new = call[c].pw /\ d.plain = call[c].plain
    <3>1. call[c] \in Call /\ call[c].pw \in Passwords \union {Nothing} /\ ~call[c].wrote
      BY <1>1, CallFacts
    <3> QED BY <1>3, <2>2, <3>1 DEF Call, Steps
  <2>4. Fits(d)
    BY <1>1, <2>2, <2>3 DEF Fits, At
  <2> HIDE DEF d
  <2>5. /\ call' \in [Calls -> Call] /\ call'[c] = d /\ outcome' = outcome
        /\ \A o \in Calls \ {c} : call'[o] = call[o]
    BY <1>1, <2>1, <2>3, GoFacts
  <2>6. Ordered(c)'
    BY <1>2, <1>3, <2>3, <2>5 DEF Ordered, At, Rewrites
  <2>7. ~Torn("reset") => KeyIsSure' /\ KeyHasSalt'
    BY <1>1, <1>2, <2>1, <2>5, WitnessesStay
  <2> QED BY <1>1, <1>3, <2>1, <2>2, <2>3, <2>4, <2>5, <2>6, <2>7, QuietKeepsInv DEF VaultTyped
<1>4. CASE salt = 0 /\ call[c].op = "change"
  <2>1. Returns(c, "false") /\ salts' = salts /\ key' = key
    BY <1>1, <1>4 DEF LoadSalt
  <2>2. /\ call' \in [Calls -> Call] /\ call'[c].at = "idle" /\ call'[c].op = call[c].op
        /\ call'[c].wrote = call[c].wrote /\ call'[c].key = AccountKey
        /\ outcome' \in [Calls -> Outcomes] /\ outcome'[c] = "false"
        /\ \A o \in Calls \ {c} : call'[o] = call[o] /\ outcome'[o] = outcome[o]
    BY <1>1, <2>1, ReturnsFacts DEF Outcomes
  <2>3. Fits(call'[c]) /\ Ordered(c)' /\ Stage(c)'
    BY <1>1, <2>2 DEF Fits, Ordered, At, Rewrites, Stage
  <2>4. ~Torn("reset") => KeyIsSure' /\ KeyHasSalt'
    BY <1>1, <1>2, <2>1, <2>2, WitnessesStay
  <2> QED BY <1>1, <2>1, <2>2, <2>3, <2>4, QuietKeepsInv DEF VaultTyped
<1>5. CASE salt # 0
  <2> DEFINE d == [call[c] EXCEPT !.at = "derived", !.salt = salt]
  <2>1. Go(c, d) /\ salts' = salts /\ key' \in {key, Nothing}
    BY <1>1, <1>5 DEF LoadSalt
  <2>2. /\ d \in Call /\ d.at = "derived" /\ d.op = call[c].op /\ ~d.wrote /\ d.salt = salt
        /\ d.new = call[c].new /\ d.plain = call[c].plain /\ d.pw = call[c].pw /\ d.key = call[c].key
    <3>1. call[c] \in Call /\ salt \in 0..MaxSalt /\ ~call[c].wrote
      BY <1>1, CallFacts DEF VaultTyped
    <3> QED BY <3>1 DEF Call, Steps
  <2>3. Fits(d)
    BY <1>1, <1>5, <2>2 DEF Fits, At
  <2> HIDE DEF d
  <2>4. /\ call' \in [Calls -> Call] /\ call'[c] = d /\ outcome' = outcome
        /\ \A o \in Calls \ {c} : call'[o] = call[o]
    BY <1>1, <2>1, <2>2, GoFacts
  <2>5. Ordered(c)' /\ Stage(c)'
    BY <1>2, <1>5, <2>2, <2>4 DEF Ordered, At, Rewrites, Stage
  <2>6. ~Torn("reset") => KeyIsSure' /\ KeyHasSalt'
    <3>1. CASE key' = key
      BY <1>1, <1>2, <2>4, <3>1, WitnessesStay
    <3>2. CASE key' = Nothing
      BY <3>2 DEF KeyIsSure, KeyHasSalt
    <3> QED BY <2>1, <3>1, <3>2
  <2> QED BY <1>1, <2>1, <2>2, <2>3, <2>4, <2>5, <2>6, QuietKeepsInv DEF VaultTyped
<1> QED BY <1>1, <1>3, <1>4, <1>5 DEF LoadSalt

LEMMA DerivedKeepsInv == ASSUME VaultInv, NEW c \in Calls, Derived(c) PROVE VaultInv'
<1>1. /\ At(c, "derived") /\ ~At(c, "idle") /\ call[c].op \in {"unlock", "change"} /\ ~call[c].wrote
      /\ Fits(call[c]) /\ VaultTyped /\ UNCHANGED <<disk, history, deaths>> /\ salts' = salts
      /\ salt # 0 /\ salt' = salt
  BY DEF Derived, VaultInv, Fits, At, Ordered, disk
<1> DEFINE d == [call[c] EXCEPT !.at = "verify"]
<1>2. Go(c, d) /\ key' = <<call[c].pw, call[c].salt>>
  BY DEF Derived
<1>3. key' \in Keys
  <2>1. call[c].pw \in Passwords /\ call[c].salt \in 0..MaxSalt /\ call[c].salt # 0
    BY <1>1, CallFacts DEF Fits, At
  <2> QED BY <1>2, <2>1, KeyFacts
<1>4. /\ d \in Call /\ d.at = "verify" /\ d.op = call[c].op /\ ~d.wrote /\ d.pw = call[c].pw
      /\ d.new = call[c].new /\ d.plain = call[c].plain /\ d.key = call[c].key
  BY <1>1, CallFacts DEF Call, Steps
<1>5. Fits(d)
  BY <1>1, <1>4 DEF Fits, At
<1> HIDE DEF d
<1>6. /\ call' \in [Calls -> Call] /\ call'[c] = d /\ outcome' = outcome
      /\ \A o \in Calls \ {c} : call'[o] = call[o]
  BY <1>1, <1>2, <1>4, GoFacts
<1>7. Ordered(c)' /\ Stage(c)'
  BY <1>1, <1>4, <1>6 DEF Ordered, At, Rewrites, Stage
<1>8. KeyIsSure' /\ KeyHasSalt'
  <2>1. Unsure(c)'
    BY <1>4, <1>6 DEF Unsure, At
  <2> QED BY <1>1, <2>1 DEF KeyIsSure, KeyHasSalt
<1> QED BY <1>1, <1>3, <1>4, <1>5, <1>6, <1>7, <1>8, QuietKeepsInv DEF VaultTyped

\* A call that ends without having written.
LEMMA ReturnKeepsInv ==
  ASSUME VaultInv, NEW c \in Calls, NEW result \in Outcomes, Returns(c, result),
         ~At(c, "idle"), ~call[c].wrote, UNCHANGED <<disk, history, deaths>>, salts' = salts,
         ~Torn("reset") => key' = Nothing \/ (key' = key /\ ~Unsure(c) /\ ~First(c)),
         key' \in {key, Nothing}
  PROVE  VaultInv'
<1>0. VaultTyped /\ Fits(call[c]) /\ salt' = salt /\ check' = check
  BY DEF VaultInv, disk
<1>1. /\ call' \in [Calls -> Call] /\ call'[c].at = "idle" /\ call'[c].op = call[c].op
      /\ call'[c].wrote = call[c].wrote /\ call'[c].key = AccountKey
      /\ outcome' \in [Calls -> Outcomes] /\ outcome'[c] = result
      /\ \A o \in Calls \ {c} : call'[o] = call[o] /\ outcome'[o] = outcome[o]
  BY <1>0, ReturnsFacts
<1>2. Fits(call'[c]) /\ Ordered(c)' /\ Stage(c)'
  BY <1>1 DEF Fits, Ordered, At, Rewrites, Stage
<1>3. ~Torn("reset") => KeyIsSure' /\ KeyHasSalt'
  <2> SUFFICES ASSUME ~Torn("reset") PROVE KeyIsSure' /\ KeyHasSalt'
    OBVIOUS
  <2>1. CASE key' = Nothing
    BY <2>1 DEF KeyIsSure, KeyHasSalt
  <2>2. CASE key' = key /\ ~Unsure(c) /\ ~First(c)
    BY <1>0, <1>1, <2>2, WitnessesStay
  <2> QED BY <2>1, <2>2
<1> QED BY <1>0, <1>1, <1>2, <1>3, QuietKeepsInv DEF VaultTyped

LEMMA VerifyKeepsInv == ASSUME VaultInv, NEW c \in Calls, Verify(c) PROVE VaultInv'
<1>1. /\ At(c, "verify") /\ ~At(c, "idle") /\ call[c].op \in {"unlock", "change"} /\ ~call[c].wrote
      /\ Fits(call[c]) /\ VaultTyped /\ UNCHANGED <<disk, history, deaths>> /\ salts' = salts
      /\ salt # 0 /\ salt' = salt /\ check' = check
  BY DEF Verify, VaultInv, Fits, At, Ordered, disk
<1>2. CASE check # Nothing /\ key # Nothing
  <2> DEFINE k == IF key = check THEN key ELSE Nothing
             d == [call[c] EXCEPT !.at = "verified", !.under = k]
  <2>1. Go(c, d) /\ key' = key
    BY <1>2 DEF Verify
  <2>2. k \in Keys \union {Nothing} /\ (key = check \/ k = Nothing)
    BY <1>1 DEF VaultTyped
  <2> HIDE DEF k
  <2>3. /\ d \in Call /\ d.at = "verified" /\ d.op = call[c].op /\ ~d.wrote /\ d.pw = call[c].pw
        /\ d.new = call[c].new /\ d.plain = call[c].plain /\ d.under = k /\ d.key = call[c].key
    BY <1>1, <2>2, CallFacts DEF Call, Steps
  <2>4. Fits(d)
    BY <1>1, <2>3 DEF Fits, At
  <2> HIDE DEF d
  <2>5. /\ call' \in [Calls -> Call] /\ call'[c] = d /\ outcome' = outcome
        /\ \A o \in Calls \ {c} : call'[o] = call[o]
    BY <1>1, <2>1, <2>3, GoFacts
  <2>6. Ordered(c)' /\ Stage(c)'
    BY <1>1, <2>3, <2>5 DEF Ordered, At, Rewrites, Stage
  <2>7. KeyIsSure' /\ KeyHasSalt'
    <3>1. key = check \/ Unsure(c)'
      BY <2>2, <2>3, <2>5 DEF Unsure, At
    <3> QED BY <1>1, <2>1, <3>1 DEF KeyIsSure, KeyHasSalt
  <2> QED BY <1>1, <2>1, <2>3, <2>4, <2>5, <2>6, <2>7, QuietKeepsInv DEF VaultTyped
<1>3. CASE check = Nothing \/ key = Nothing
  <2>1. Returns(c, "false") /\ key' \in {key, Nothing} /\ (check = Nothing \/ key' = Nothing)
    BY <1>3 DEF Verify
  <2>2. ~Torn("reset") => key' = Nothing
    BY <1>1, <2>1, KeyKnown
  <2> QED BY <1>1, <2>1, <2>2, ReturnKeepsInv DEF Outcomes
<1> QED BY <1>2, <1>3

LEMMA VerifiedKeepsInv == ASSUME VaultInv, NEW c \in Calls, Verified(c) PROVE VaultInv'
<1>1. /\ At(c, "verified") /\ ~At(c, "idle") /\ call[c].op \in {"unlock", "change"} /\ ~call[c].wrote
      /\ Fits(call[c]) /\ VaultTyped /\ UNCHANGED <<disk, history, deaths>> /\ salts' = salts
      /\ salt # 0 /\ salt' = salt /\ check' = check
  BY DEF Verified, VaultInv, Fits, At, Ordered, disk
<1>2. CASE call[c].under = Nothing
  BY <1>1, <1>2, ReturnKeepsInv DEF Verified, Outcomes
<1>3. CASE call[c].under # Nothing /\ call[c].op = "unlock"
  <2>1. Returns(c, "true") /\ key' = key
    BY <1>1, <1>3 DEF Verified
  <2>2. ~Unsure(c) /\ ~First(c)
    BY <1>1, <1>3 DEF Unsure, First, Rewrites, At
  <2> QED BY <1>1, <2>1, <2>2, ReturnKeepsInv DEF Outcomes
<1>4. CASE call[c].under # Nothing /\ call[c].op = "change"
  <2> DEFINE d == [call[c] EXCEPT !.at = "read", !.left = Reencrypted]
  <2>1. Go(c, d) /\ key' = key
    BY <1>4 DEF Verified
  <2>2. Reencrypted = Items
    BY DEF Reencrypted, Items
  <2>3. /\ d \in Call /\ d.at = "read" /\ d.op = "change" /\ ~d.wrote /\ d.left = Items
        /\ d.new = call[c].new /\ d.plain = call[c].plain /\ d.key = call[c].key
    <3>1. call[c] \in Call /\ Reencrypted \subseteq Entries /\ ~call[c].wrote
      BY <1>1, <2>2, CallFacts DEF Entries
    <3> QED BY <1>4, <2>2, <3>1 DEF Call, Steps
  <2>4. Fits(d)
    BY <1>1, <1>4, <2>3 DEF Fits, At
  <2>5. ~Unsure(c) /\ ~First(c)
    BY <1>1, <1>4 DEF Unsure, First, Rewrites, At
  <2> HIDE DEF d
  <2>6. /\ call' \in [Calls -> Call] /\ call'[c] = d /\ outcome' = outcome
        /\ \A o \in Calls \ {c} : call'[o] = call[o]
    BY <1>1, <2>1, <2>3, GoFacts
  <2>7. Ordered(c)'
    BY <1>1, <2>3, <2>6 DEF Ordered, At, Rewrites
  <2>8. Stage(c)'
    BY <2>3, <2>4, <2>6 DEF Stage, At, Fits
  <2>9. ~Torn("reset") => KeyIsSure' /\ KeyHasSalt'
    BY <1>1, <2>1, <2>5, <2>6, WitnessesStay
  <2> QED BY <1>1, <1>4, <2>1, <2>3, <2>4, <2>6, <2>7, <2>8, <2>9, QuietKeepsInv DEF VaultTyped
<1> QED BY <1>1, <1>2, <1>3, <1>4

\* A change that reads is alone, and has written nothing.
LEMMA ReaderFacts ==
  ASSUME VaultInv, NEW c \in Calls, At(c, "read") \/ (At(c, "rederived") /\ call[c].op = "change")
  PROVE  /\ call[c].op = "change" /\ ~call[c].wrote /\ ~At(c, "idle") /\ Alone(c) /\ salt # 0
         /\ ~Unsure(c) /\ ~First(c) /\ (torn = {} => Clean)
         /\ Clean => \A i \in Items : Stored(i, check)
<1>1. /\ call[c].op = "change" /\ ~call[c].wrote /\ ~At(c, "idle") /\ salt # 0
      /\ ~Unsure(c) /\ ~First(c)
  BY DEF VaultInv, Fits, Ordered, At, Unsure, First, Rewrites
<1>2. Alone(c)
  BY <1>1, AloneWhen DEF VaultInv
<1>3. torn = {} => Clean
  BY <1>1, <1>2 DEF Clean, Torn, UnderWay, Writes, Alone
<1> QED BY <1>1, <1>2, <1>3 DEF VaultInv, RecordsRight

LEMMA ReadKeepsInv ==
  ASSUME VaultInv, NEW c \in Calls, NEW i \in Items, Read(c, i) PROVE VaultInv'
<1>1. /\ At(c, "read") /\ call[c].op = "change" /\ ~call[c].wrote /\ ~At(c, "idle") /\ salt # 0
      /\ ~Unsure(c) /\ ~First(c) /\ Fits(call[c]) /\ VaultTyped /\ i \in call[c].left
      /\ UNCHANGED <<disk, history, deaths>> /\ salts' = salts /\ salt' = salt /\ check' = check
      /\ item' = item /\ kept' = kept
  BY ReaderFacts DEF Read, VaultInv, disk, history
<1>2. torn = {} => Clean /\ (\A j \in Items : Stored(j, check)) /\ Stage(c) /\ check # Nothing
  BY <1>1, ReaderFacts, KeyKnown DEF VaultInv, RecordsRight, Clean
<1>3. ASSUME NEW found \in Records,
             Go(c, [call[c] EXCEPT !.left = @ \ {i}, !.plain[i] = found]), key' = key,
             torn = {} => found = kept[i]
      PROVE  VaultInv'
  <2> DEFINE d == [call[c] EXCEPT !.left = @ \ {i}, !.plain[i] = found]
  <2>1. /\ d \in Call /\ d.at = "read" /\ d.op = "change" /\ ~d.wrote /\ d.left = call[c].left \ {i}
        /\ d.new = call[c].new /\ d.key = call[c].key
        /\ d.plain = [call[c].plain EXCEPT ![i] = found]
    <3>1. [call[c].plain EXCEPT ![i] = found] \in [Items -> Records]
      BY <1>1, CallFacts
    <3> QED BY <1>1, <3>1, CallFacts DEF Call, At
  <2>2. \A j \in Items : d.plain[j] = IF j = i THEN found ELSE call[c].plain[j]
    BY <1>1, <2>1, CallFacts
  <2>3. Fits(d)
    BY <1>1, <2>1, <2>2 DEF Fits, At
  <2> HIDE DEF d
  <2>4. /\ call' \in [Calls -> Call] /\ call'[c] = d /\ outcome' = outcome
        /\ \A o \in Calls \ {c} : call'[o] = call[o]
    BY <1>1, <1>3, <2>1, GoFacts DEF d
  <2>5. Ordered(c)'
    BY <1>1, <2>1, <2>4 DEF Ordered, At, Rewrites
  <2>6. torn = {} => Stage(c)'
    BY <1>1, <1>2, <1>3, <2>1, <2>2, <2>4 DEF Stage, At
  <2>7. ~Torn("reset") => KeyIsSure' /\ KeyHasSalt'
    BY <1>1, <1>3, <2>4, WitnessesStay
  <2> QED BY <1>1, <1>3, <2>1, <2>3, <2>4, <2>5, <2>6, <2>7, QuietKeepsInv DEF VaultTyped
<1>4. CASE item[i] = Nothing
  <2>1. Go(c, [call[c] EXCEPT !.left = @ \ {i}]) /\ key' = key
    BY <1>1, <1>4 DEF Read
  <2>2. call[c].plain[i] = Nothing /\ call[c].plain \in [Items -> Records]
    BY <1>1, CallFacts DEF Fits, At
  <2>3. [call[c] EXCEPT !.left = @ \ {i}] = [call[c] EXCEPT !.left = @ \ {i}, !.plain[i] = Nothing]
    <3>1. [call[c].plain EXCEPT ![i] = Nothing] = call[c].plain
      BY <2>2
    <3> QED BY <1>1, <3>1, CallFacts DEF Call
  <2>4. torn = {} => kept[i] = Nothing
    <3>1. check \in Keys => [under |-> check, records |-> kept[i]] # Nothing \/ kept[i] = Nothing
      BY <1>1, ValueFacts DEF VaultTyped, Records, Payloads
    <3> QED BY <1>1, <1>2, <1>4, <3>1 DEF Stored, VaultTyped
  <2> QED BY <1>3, <2>1, <2>3, <2>4 DEF Records
<1>5. CASE item[i] # Nothing /\ key = item[i].under
  <2>1. Go(c, [call[c] EXCEPT !.left = @ \ {i}, !.plain[i] = item[i].records]) /\ key' = key
    BY <1>1, <1>5 DEF Read
  <2>2. item[i].records \in Records
    BY <1>1, <1>5 DEF VaultTyped, Payloads, Records
  <2>3. torn = {} => item[i].records = kept[i]
    <3>1. torn = {} => item[i] = [under |-> check, records |-> kept[i]]
      BY <1>2, <1>5 DEF Stored
    <3> QED BY <3>1
  <2> QED BY <1>3, <2>1, <2>2, <2>3
<1>6. CASE item[i] # Nothing /\ key # item[i].under
  BY <1>1, <1>6, ReturnKeepsInv DEF Read, Outcomes
<1> QED BY <1>4, <1>5, <1>6

LEMMA ReadAllKeepsInv == ASSUME VaultInv, NEW c \in Calls, ReadAll(c) PROVE VaultInv'
<1>1. /\ At(c, "read") /\ call[c].op = "change" /\ ~call[c].wrote /\ ~At(c, "idle") /\ salt # 0
      /\ ~Unsure(c) /\ ~First(c) /\ Fits(call[c]) /\ VaultTyped /\ call[c].left = {}
      /\ UNCHANGED <<disk, history, deaths>> /\ salt' = salt /\ check' = check
      /\ item' = item /\ kept' = kept /\ key' = key /\ salts < MaxSalt /\ salts' = salts + 1
  BY ReaderFacts DEF ReadAll, VaultInv, disk, history
<1> DEFINE d == [call[c] EXCEPT !.at = "rederived", !.salt = salts + 1]
<1>2. salts + 1 \in 0..MaxSalt /\ salts + 1 # 0
  BY <1>1, VaultAssumption DEF VaultTyped
<1>3. /\ d \in Call /\ d.at = "rederived" /\ d.op = "change" /\ ~d.wrote /\ d.salt = salts + 1
      /\ d.new = call[c].new /\ d.plain = call[c].plain /\ d.key = call[c].key
  <2>1. call[c] \in Call /\ call[c].op = "change" /\ ~call[c].wrote
    BY <1>1, CallFacts
  <2> QED BY <1>2, <2>1 DEF Call, Steps
<1>4. Fits(d)
  BY <1>1, <1>2, <1>3 DEF Fits, At
<1>5. Go(c, d)
  BY DEF ReadAll
<1> HIDE DEF d
<1>6. /\ call' \in [Calls -> Call] /\ call'[c] = d /\ outcome' = outcome
      /\ \A o \in Calls \ {c} : call'[o] = call[o]
  BY <1>1, <1>3, <1>5, GoFacts
<1>7. Ordered(c)'
  BY <1>1, <1>3, <1>6 DEF Ordered, At, Rewrites
<1>8. torn = {} => Stage(c)'
  BY <1>1, <1>3, <1>6 DEF VaultInv, RecordsRight, Stage, At
<1>9. ~Torn("reset") => KeyIsSure' /\ KeyHasSalt'
  BY <1>1, <1>6, WitnessesStay
<1> QED BY <1>1, <1>2, <1>3, <1>4, <1>6, <1>7, <1>8, <1>9, QuietKeepsInv DEF VaultTyped

LEMMA RederivedKeepsInv == ASSUME VaultInv, NEW c \in Calls, Rederived(c) PROVE VaultInv'
<1> DEFINE k == <<call[c].new, call[c].salt>>
           rest == {i \in Items : call[c].plain[i] # Nothing}
           d == Encrypting([call[c] EXCEPT !.left = rest], k)
<1>1. /\ At(c, "rederived") /\ ~At(c, "idle") /\ call[c].op \in {"unlock", "change"} /\ ~call[c].wrote
      /\ Fits(call[c]) /\ VaultTyped /\ UNCHANGED <<disk, history, deaths>> /\ salts' = salts
      /\ salt' = salt /\ check' = check /\ item' = item /\ kept' = kept /\ key' = k
      /\ (call[c].op = "unlock" => salt = 0) /\ (call[c].op = "change" => salt # 0)
      /\ Encrypts(c, [call[c] EXCEPT !.left = rest], k)
  BY DEF Rederived, VaultInv, Fits, At, Ordered, disk, history
<1>2. k \in Keys /\ k # Nothing
  BY <1>1, KeyFacts, CallFacts DEF Fits, At
<1>3. Go(c, d)
  BY <1>1, <1>2 DEF Encrypts
<1>4. /\ d \in Call /\ d.at = (IF rest = {} THEN "check" ELSE "item") /\ d.op = call[c].op /\ ~d.wrote
      /\ d.left = rest /\ d.under = k /\ d.salt = call[c].salt
      /\ d.new = call[c].new /\ d.plain = call[c].plain /\ d.key = call[c].key
  <2>1. call[c] \in Call /\ rest \subseteq Entries /\ ~call[c].wrote
    BY <1>1, CallFacts DEF Entries
  <2> QED BY <1>2, <2>1 DEF Encrypting, Call, Steps
<1>5. call[c].op = "unlock" => rest = {}
  BY <1>1 DEF Fits, At
<1>6. Fits(d)
  <2>1. rest \subseteq Items /\ \A i \in rest : call[c].plain[i] # Nothing
    OBVIOUS
  <2>2. d.new \in Passwords /\ d.salt # 0 /\ d.under = <<d.new, d.salt>>
    BY <1>1, <1>4 DEF Fits, At
  <2> HIDE DEF k, rest, d
  <2> QED BY <1>1, <1>2, <1>4, <1>5, <2>1, <2>2 DEF Fits, At
<1> HIDE DEF d, k
<1>7. /\ call' \in [Calls -> Call] /\ call'[c] = d /\ outcome' = outcome
      /\ \A o \in Calls \ {c} : call'[o] = call[o]
  BY <1>1, <1>3, <1>4, GoFacts
<1>8. Ordered(c)'
  BY <1>1, <1>4, <1>5, <1>7 DEF Ordered, At, Rewrites
<1>9. KeyIsSure' /\ KeyHasSalt'
  <2>1. Unsure(c)' /\ (salt = 0 => First(c)')
    BY <1>1, <1>4, <1>5, <1>7 DEF Unsure, First, Rewrites, At
  <2> QED BY <1>1, <2>1 DEF KeyIsSure, KeyHasSalt
<1>10. torn = {} /\ call[c].op = "change" => Stage(c)'
  <2> SUFFICES ASSUME torn = {}, call[c].op = "change" PROVE Stage(c)'
    OBVIOUS
  <2>1. \A i \in Items : Stored(i, check) /\ call[c].plain[i] = kept[i]
    BY <1>1, ReaderFacts DEF VaultInv, RecordsRight, Stage, At
  <2>2. \A i \in Items : Stored(i, IF i \in rest THEN check ELSE k)
    BY <2>1 DEF Stored
  <2>3. \A i \in Items : (Stored(i, IF i \in call[c].left THEN check ELSE call[c].under))'
    BY <1>1, <1>4, <1>7, <2>2 DEF Stored
  <2> QED BY <1>1, <1>4, <1>7, <2>1, <2>3 DEF Stage, At
<1> QED BY <1>1, <1>2, <1>4, <1>5, <1>6, <1>7, <1>8, <1>9, <1>10, QuietKeepsInv DEF VaultTyped

LEMMA LoadKeepsInv == ASSUME VaultInv, NEW c \in Calls, Load(c) PROVE VaultInv'
<1>1. /\ At(c, "load") /\ ~At(c, "idle") /\ call[c].op \in {"persist", "remove"} /\ ~call[c].wrote
      /\ Fits(call[c]) /\ VaultTyped /\ UNCHANGED <<disk, history, deaths>> /\ salts' = salts
      /\ salt' = salt /\ check' = check /\ item' = item /\ kept' = kept /\ key' = key
      /\ ~Unsure(c) /\ ~First(c) /\ call[c].key = AccountKey
  BY DEF Load, VaultInv, Fits, At, disk, history, Unsure, First, Rewrites
<1>2. Alone(c)
  BY <1>1, AloneWhen DEF VaultInv
<1>3. CASE key = Nothing
  BY <1>1, <1>3, ReturnKeepsInv DEF Load, Outcomes
<1>4. CASE key # Nothing
  <2> DEFINE payload == item[AccountKey]
             records == IF payload # Nothing /\ payload.under = key THEN payload.records ELSE {}
             after == Changed(call[c], records)
             d == [call[c] EXCEPT !.at = "item", !.under = key, !.plain[AccountKey] = after]
  <2>1. Go(c, d)
    BY <1>4 DEF Load
  <2>2. AccountKey \in Items
    BY DEF Items
  <2>3. records \in SUBSET Accounts
    BY <1>1, <2>2 DEF VaultTyped, Payloads
  <2>4. after \in SUBSET Accounts /\ after \in Records /\ after # Nothing
    BY <1>1, <2>3, CallFacts, ValueFacts DEF Changed, Records
  <2>5. Clean => after = Changed(call[c], kept[AccountKey])
    <3> SUFFICES ASSUME Clean PROVE after = Changed(call[c], kept[AccountKey])
      OBVIOUS
    <3>1. key = check
      BY <1>1, <1>2, <1>4, KeyKnown DEF Clean
    <3>2. Stored(AccountKey, check)
      BY <2>2 DEF VaultInv, RecordsRight
    <3>3. CASE kept[AccountKey] = Nothing
      BY <3>2, <3>3 DEF Stored, Changed
    <3>4. CASE kept[AccountKey] # Nothing
      <4>1. kept[AccountKey] \in SUBSET Accounts /\ payload = [under |-> check, records |-> kept[AccountKey]]
        BY <1>1, <2>2, <3>2, <3>4 DEF Stored, VaultTyped, Records
      <4>2. payload \in Payloads
        BY <1>1, <1>4, <3>1, <4>1 DEF Payloads, VaultTyped
      <4>3. records = kept[AccountKey]
        BY <3>1, <4>1, <4>2, ValueFacts
      <4> QED BY <4>3
    <3> QED BY <3>3, <3>4
  <2> HIDE DEF after, records, payload
  <2>6. /\ d \in Call /\ d.at = "item" /\ d.op = call[c].op /\ ~d.wrote /\ d.under = key
        /\ d.key = AccountKey /\ d.arg = call[c].arg /\ d.plain = [call[c].plain EXCEPT ![AccountKey] = after]
    <3>1. [call[c].plain EXCEPT ![AccountKey] = after] \in [Items -> Records]
      BY <1>1, <2>4, CallFacts
    <3>2. d = [call[c] EXCEPT !.at = "item", !.under = key, !.plain = [@ EXCEPT ![AccountKey] = after]]
      OBVIOUS
    <3>3. call[c] \in Call /\ key \in Keys \union {Nothing}
      BY <1>1, CallFacts DEF VaultTyped
    <3> HIDE DEF d
    <3> QED BY <1>1, <3>1, <3>2, <3>3 DEF Call, Steps
  <2>7. d.plain[AccountKey] = after
    BY <1>1, <2>2, <2>6, CallFacts
  <2>8. Fits(d)
    BY <1>1, <1>4, <2>4, <2>6, <2>7 DEF Fits, At
  <2> HIDE DEF d
  <2>9. /\ call' \in [Calls -> Call] /\ call'[c] = d /\ outcome' = outcome
        /\ \A o \in Calls \ {c} : call'[o] = call[o]
    BY <1>1, <2>1, <2>6, GoFacts
  <2>10. Ordered(c)'
    BY <1>1, <2>6, <2>9 DEF Ordered, At, Rewrites
  <2>11. ~Torn("reset") => KeyIsSure' /\ KeyHasSalt'
    BY <1>1, <2>9, WitnessesStay
  <2>12. ~Torn("reset") => salt # 0 /\ d.under = check
    BY <1>1, <1>2, <1>4, <2>6, KeyKnown
  <2>13. Clean => d.plain[AccountKey] = Changed(d, kept[AccountKey])
    BY <2>5, <2>6, <2>7 DEF Changed
  <2> QED BY <1>1, <2>6, <2>8, <2>9, <2>10, <2>11, <2>12, <2>13, QuietKeepsInv DEF VaultTyped
<1> QED BY <1>3, <1>4

\* A call that starts.
LEMMA StartKeepsInv ==
  ASSUME VaultInv, NEW c \in Calls, NEW d \in Call, Starts(c, d), Fits(d), ~d.wrote,
         d.at \in {"salt", "item", "load", "delete"},
         d.at = "item" => d.op = "save" /\ d.under = key,
         d.at = "delete" => d.left = Entries
  PROVE  VaultInv'
<1>1. /\ At(c, "idle") /\ VaultTyped /\ Apart /\ Refused /\ UNCHANGED <<disk, key, salts, history, deaths>>
      /\ \A o \in Calls \ {c} : At(o, "idle") \/ Together(d.op, o)
      /\ call' = [call EXCEPT ![c] = d] /\ outcome' = [outcome EXCEPT ![c] = "none"]
      /\ ~Unsure(c) /\ ~First(c)
  BY DEF Starts, VaultInv, Unsure, First, Rewrites, At
<1>2. /\ salt' = salt /\ check' = check /\ item' = item /\ kept' = kept /\ password' = password
      /\ torn' = torn /\ deaths' = deaths /\ key' = key /\ salts' = salts
  BY <1>1 DEF disk, history
<1>3. /\ call' \in [Calls -> Call] /\ call'[c] = d /\ outcome' \in [Calls -> Outcomes]
      /\ outcome'[c] = "none"
      /\ \A o \in Calls \ {c} : call'[o] = call[o] /\ outcome'[o] = outcome[o]
  BY <1>1 DEF VaultTyped, Outcomes
<1>4. VaultTyped'
  BY <1>1, <1>2, <1>3 DEF VaultTyped
<1>5. \A o \in Calls : Fits(call'[o])
  BY <1>3 DEF VaultInv
<1>6. \A o \in Calls : Ordered(o)'
  <2>1. \A o \in Calls \ {c} : Ordered(o)'
    BY <1>2, <1>3 DEF VaultInv, Ordered, At, Rewrites
  <2>2. Ordered(c)'
    BY <1>3 DEF Ordered, At, Rewrites, Entries, Items
  <2> QED BY <2>1, <2>2
<1>7. Apart'
  <2> SUFFICES ASSUME NEW a \in Calls, NEW b \in Calls, a # b, ~At(a, "idle")', ~At(b, "idle")'
               PROVE  call'[a].op \in {"unlock", "save"} /\ salt' # 0 /\ check' # Nothing
    BY DEF Apart
  <2>1. CASE a # c /\ b # c
    BY <1>1, <1>2, <1>3, <2>1 DEF Apart, At
  <2>2. CASE a = c
    BY <1>1, <1>2, <1>3, <2>2 DEF Together, At
  <2>3. CASE b = c
    BY <1>1, <1>2, <1>3, <2>3 DEF Together, At
  <2> QED BY <2>1, <2>2, <2>3
<1>8. \A o \in Calls : \A op \in {"change", "reset"} : Writes(o, op)' <=> Writes(o, op)
  BY <1>1, <1>3 DEF Writes, At
<1>9. (Torn("reset")' <=> Torn("reset")) /\ (Clean' <=> Clean)
  BY <1>2, <1>8 DEF Torn, UnderWay, Clean
<1>10. KeyRight'
  <2> SUFFICES ASSUME ~Torn("reset")
               PROVE  /\ salt # 0 => check # Nothing
                      /\ KeyIsSure' /\ KeyHasSalt'
                      /\ salt = 0 => \A i \in Items : kept[i] = Nothing
                      /\ \A o \in Calls : Saving(o)' => salt # 0 /\ call'[o].under = check
    BY <1>2, <1>9 DEF KeyRight
  <2>1. /\ salt # 0 => check # Nothing
        /\ salt = 0 => \A i \in Items : kept[i] = Nothing
        /\ KeyIsSure /\ KeyHasSalt
        /\ \A o \in Calls : Saving(o) => salt # 0 /\ call[o].under = check
    BY DEF VaultInv, KeyRight
  <2>2. KeyIsSure' /\ KeyHasSalt'
    BY <1>1, <1>2, <1>3, WitnessesStay
  <2>3. ASSUME NEW o \in Calls, Saving(o)' PROVE salt # 0 /\ call'[o].under = check
    <3>1. CASE o # c
      BY <1>3, <2>1, <2>3, <3>1 DEF Saving, At
    <3>2. CASE o = c
      <4>1. d.at = "item" /\ d.op = "save" /\ d.under = key /\ key # Nothing
        BY <1>3, <2>3, <3>2 DEF Saving, At, Fits
      <4>2. ASSUME NEW a \in Calls PROVE ~Unsure(a) /\ ~First(a)
        <5>1. a = c \/ At(a, "idle") \/ call[a].op = "save"
          BY <1>1, <4>1 DEF Together
        <5>2. Fits(call[a])
          BY DEF VaultInv
        <5> QED BY <1>1, <5>1, <5>2 DEF Unsure, First, Rewrites, At, Fits
      <4>3. salt # 0 /\ key = check
        BY <2>1, <4>1, <4>2 DEF KeyIsSure, KeyHasSalt
      <4> QED BY <1>3, <3>2, <4>1, <4>3
    <3> QED BY <3>1, <3>2
  <2> QED BY <2>1, <2>2, <2>3
<1>11. RecordsRight'
  <2>1. Clean => /\ \A i \in Items : Stored(i, check)'
                 /\ salt # 0 => check = <<password, salt>>
    BY <1>2 DEF VaultInv, RecordsRight, Stored
  <2>2. ASSUME Clean, NEW o \in Calls, Saving(o)', call'[o].op # "save"
        PROVE  call'[o].plain[AccountKey] = Changed(call'[o], kept[AccountKey])
    BY <1>3, <2>2 DEF VaultInv, RecordsRight, Saving, At
  <2>3. ASSUME torn = {}, NEW o \in Calls, call'[o].op = "change" PROVE Stage(o)'
    <3>1. CASE o = c
      BY <1>3, <2>3, <3>1 DEF Stage, At
    <3>2. CASE o # c
      BY <1>2, <1>3, <2>3, <3>2 DEF VaultInv, RecordsRight, Stage, At, Stored
    <3> QED BY <3>1, <3>2
  <2> QED BY <1>2, <1>9, <2>1, <2>2, <2>3 DEF RecordsRight
<1>12. Refused'
  BY <1>1, <1>3 DEF Refused, RefusedChangeWroteNothing, At
<1> QED BY <1>4, <1>5, <1>6, <1>7, <1>10, <1>11, <1>12 DEF VaultInv

\* An unlock of a vault that is open changes only what its caller is told.
LEMMA UnlockKeepsInv ==
  ASSUME VaultInv, NEW c \in Calls, NEW pw \in Passwords, Unlock(c, pw) PROVE VaultInv'
<1>1. CASE key = Nothing
  <2> DEFINE d == [Idle EXCEPT !.at = "salt", !.pw = pw]
  <2>1. Starts(c, d)
    BY <1>1 DEF Unlock
  <2>2. /\ d \in Call /\ d.at = "salt" /\ d.op = "unlock" /\ ~d.wrote /\ d.pw = pw /\ d.plain = NoRecords
        /\ d.key = AccountKey
    BY IdleFacts DEF Call, Steps
  <2>3. Fits(d)
    BY <2>2 DEF Fits, NoRecords
  <2> HIDE DEF d
  <2> QED BY <2>1, <2>2, <2>3, StartKeepsInv
<1>2. CASE key # Nothing
  <2>1. /\ At(c, "idle") /\ outcome' = [outcome EXCEPT ![c] = "true"]
        /\ UNCHANGED <<disk, key, salts, call, history, deaths>>
    BY <1>2 DEF Unlock
  <2>2. /\ salt' = salt /\ check' = check /\ item' = item /\ kept' = kept /\ password' = password
        /\ torn' = torn /\ deaths' = deaths /\ key' = key /\ salts' = salts /\ call' = call
    BY <2>1 DEF disk, history
  <2>3. VaultTyped'
    BY <2>1, <2>2 DEF VaultInv, VaultTyped, Outcomes
  <2>4. Refused'
    BY <2>1, <2>2 DEF VaultInv, VaultTyped, Refused, RefusedChangeWroteNothing, At
  <2>5. Apart' /\ (\A o \in Calls : Ordered(o)' /\ Fits(call'[o]))
    BY <2>2 DEF VaultInv, Apart, Ordered, At, Rewrites
  <2>6. KeyRight'
    BY <2>2 DEF VaultInv, KeyRight, Torn, UnderWay, Writes, KeyIsSure, KeyHasSalt, Unsure, First, Saving, Rewrites, At
  <2>7. RecordsRight'
    BY <2>2 DEF VaultInv, RecordsRight, Clean, Torn, UnderWay, Writes, Saving, Stage, Stored, At
  <2> QED BY <2>3, <2>4, <2>5, <2>6, <2>7 DEF VaultInv
<1> QED BY <1>1, <1>2

LEMMA ChangeKeepsInv ==
  ASSUME VaultInv, NEW c \in Calls, NEW pw \in Passwords, NEW new \in Passwords, ChangePassword(c, pw, new)
  PROVE  VaultInv'
<1> DEFINE d == [Idle EXCEPT !.op = "change", !.at = "salt", !.pw = pw, !.new = new]
<1>1. Starts(c, d)
  BY DEF ChangePassword
<1>2. /\ d \in Call /\ d.at = "salt" /\ d.op = "change" /\ ~d.wrote /\ d.pw = pw /\ d.new = new
      /\ d.plain = NoRecords /\ d.key = AccountKey
  BY IdleFacts DEF Call, Steps, Ops
<1>3. Fits(d)
  BY <1>2 DEF Fits, NoRecords
<1> HIDE DEF d
<1> QED BY <1>1, <1>2, <1>3, StartKeepsInv

LEMMA SaveKeepsInv ==
  ASSUME VaultInv, NEW c \in Calls, NEW i \in OtherKeys, NEW records \in SUBSET Accounts, SaveItem(c, i, records)
  PROVE  VaultInv'
<1> DEFINE d == [Idle EXCEPT !.op = "save", !.at = "item", !.key = i, !.arg = records,
                             !.under = key, !.plain = [NoRecords EXCEPT ![i] = records]]
<1>1. Starts(c, d) /\ key # Nothing /\ i \in Items /\ key \in Keys \union {Nothing}
  BY DEF SaveItem, Items, VaultInv, VaultTyped
<1>2. [NoRecords EXCEPT ![i] = records] \in [Items -> Records] /\ [NoRecords EXCEPT ![i] = records][i] = records
  BY <1>1 DEF NoRecords, Records
<1>3. /\ d \in Call /\ d.at = "item" /\ d.op = "save" /\ ~d.wrote /\ d.key = i /\ d.under = key
      /\ d.arg = records /\ d.plain = [NoRecords EXCEPT ![i] = records]
  BY <1>1, <1>2, IdleFacts DEF Call, Steps, Ops
<1>4. Fits(d)
  BY <1>1, <1>2, <1>3, ValueFacts DEF Fits
<1> HIDE DEF d
<1> QED BY <1>1, <1>3, <1>4, StartKeepsInv

LEMMA PersistKeepsInv ==
  ASSUME VaultInv, NEW c \in Calls, NEW op \in {"persist", "remove"}, NEW account \in Accounts, Persist(c, op, account)
  PROVE  VaultInv'
<1> DEFINE d == [Idle EXCEPT !.op = op, !.at = "load", !.arg = {account}]
<1>1. Starts(c, d)
  BY DEF Persist
<1>2. d \in Call /\ d.at = "load" /\ d.op = op /\ ~d.wrote /\ d.key = AccountKey
  BY IdleFacts DEF Call, Steps, Ops
<1>3. Fits(d)
  BY <1>2 DEF Fits
<1> HIDE DEF d
<1> QED BY <1>1, <1>2, <1>3, StartKeepsInv

LEMMA ResetKeepsInv == ASSUME VaultInv, NEW c \in Calls, Reset(c) PROVE VaultInv'
<1> DEFINE d == [Idle EXCEPT !.op = "reset", !.at = "delete", !.left = Entries]
<1>1. Starts(c, d)
  BY DEF Reset
<1>2. d \in Call /\ d.at = "delete" /\ d.op = "reset" /\ ~d.wrote /\ d.left = Entries /\ d.key = AccountKey
  BY IdleFacts DEF Call, Steps, Ops
<1>3. Fits(d)
  BY <1>2 DEF Fits
<1> HIDE DEF d
<1> QED BY <1>1, <1>2, <1>3, StartKeepsInv

LEMMA LockKeepsInv == ASSUME VaultInv, Lock PROVE VaultInv'
<1>1. /\ salt' = salt /\ check' = check /\ item' = item /\ kept' = kept /\ password' = password
      /\ torn' = torn /\ deaths' = deaths /\ key' = Nothing /\ salts' = salts /\ call' = call
      /\ outcome' = outcome
  BY DEF Lock, disk, history
<1>2. VaultTyped' /\ Refused'
  BY <1>1 DEF VaultInv, VaultTyped, Refused, RefusedChangeWroteNothing, At
<1>3. Apart' /\ (\A o \in Calls : Ordered(o)' /\ Fits(call'[o]))
  BY <1>1 DEF VaultInv, Apart, Ordered, At, Rewrites
<1>4. KeyRight'
  BY <1>1 DEF VaultInv, KeyRight, Torn, UnderWay, Writes, KeyIsSure, KeyHasSalt, Saving, At
<1>5. RecordsRight'
  BY <1>1 DEF VaultInv, RecordsRight, Clean, Torn, UnderWay, Writes, Saving, Stage, Stored, At
<1> QED BY <1>2, <1>3, <1>4, <1>5 DEF VaultInv

LEMMA DiesKeepsInv == ASSUME VaultInv, Dies PROVE VaultInv'
<1>1. /\ deaths < MaxFaults /\ deaths' = deaths + 1 /\ key' = Nothing
      /\ call' = [c \in Calls |-> Idle] /\ outcome' = [c \in Calls |-> "none"]
      /\ torn' = torn \union {op \in {"change", "reset"} : UnderWay(op)}
      /\ salt' = salt /\ check' = check /\ item' = item /\ salts' = salts /\ kept' = kept
      /\ password' = password
  BY DEF Dies, disk
<1>2. \A c \in Calls : call'[c] = Idle /\ At(c, "idle")' /\ outcome'[c] = "none"
  BY <1>1, IdleFacts DEF At
<1>3. VaultTyped'
  <2>1. deaths' \in 0..MaxFaults
    BY <1>1, VaultAssumption DEF VaultInv, VaultTyped
  <2>2. torn' \subseteq {"change", "reset"}
    BY <1>1 DEF VaultInv, VaultTyped
  <2>3. call' \in [Calls -> Call] /\ outcome' \in [Calls -> Outcomes]
    BY <1>1, IdleFacts DEF Outcomes
  <2> QED BY <1>1, <2>1, <2>2, <2>3 DEF VaultInv, VaultTyped
<1>4. \A c \in Calls : Fits(call'[c]) /\ Ordered(c)'
  BY <1>2, IdleFacts DEF Fits, Ordered, At, Rewrites
<1>5. Apart' /\ Refused'
  BY <1>2 DEF Apart, Refused, RefusedChangeWroteNothing
<1>6. \A op \in {"change", "reset"} : Torn(op)' <=> Torn(op)
  BY <1>1, <1>2 DEF Torn, UnderWay, Writes
<1>7. KeyRight'
  BY <1>1, <1>2, <1>6 DEF VaultInv, KeyRight, KeyIsSure, KeyHasSalt, Saving, At
<1>8. RecordsRight'
  <2>1. \A c \in Calls : ~Saving(c)' /\ Stage(c)'
    BY <1>2 DEF Saving, Stage, At
  <2> QED BY <1>1, <1>6, <2>1 DEF VaultInv, RecordsRight, Clean, Stored
<1> QED BY <1>3, <1>4, <1>5, <1>7, <1>8 DEF VaultInv

\* A step of a call that is alone and no save.
LEMMA LoneKeepsInv ==
  ASSUME VaultInv, NEW c \in Calls, ~At(c, "idle"), Alone(c), VaultTyped',
         \A o \in Calls \ {c} : call'[o] = call[o] /\ outcome'[o] = outcome[o],
         Fits(call'[c]), Ordered(c)', call'[c].op = call[c].op, ~Saving(c)',
         ~At(c, "idle")' => outcome'[c] = "none",
         outcome'[c] \notin {"false", "unreadable"},
         ~Torn("reset")' => /\ salt' # 0 => check' # Nothing
                            /\ KeyIsSure' /\ KeyHasSalt'
                            /\ salt' = 0 => \A i \in Items : kept'[i] = Nothing,
         Clean' => (\A i \in Items : Stored(i, check)') /\ (salt' # 0 => check' = <<password', salt'>>),
         torn' = {} /\ call[c].op = "change" => Stage(c)'
  PROVE  VaultInv'
<1>1. \A o \in Calls : Fits(call'[o]) /\ Ordered(o)'
  BY OthersStay
<1>2. Apart'
  BY ApartStays DEF VaultInv
<1>3. \A o \in Calls \ {c} : At(o, "idle") /\ At(o, "idle")'
  BY DEF Alone, At
<1>4. KeyRight'
  <2>1. \A o \in Calls : ~Saving(o)'
    BY <1>3 DEF Saving, At
  <2> QED BY <2>1 DEF KeyRight
<1>5. RecordsRight'
  <2>1. \A o \in Calls : ~Saving(o)'
    BY <1>3 DEF Saving, At
  <2>2. ASSUME torn' = {}, NEW o \in Calls, call'[o].op = "change" PROVE Stage(o)'
    BY <1>3, <2>2 DEF Stage, At
  <2> QED BY <2>1, <2>2 DEF RecordsRight
<1>6. Refused'
  <2>1. ASSUME NEW o \in Calls
        PROVE  /\ call'[o].op = "change" /\ outcome'[o] \in {"false", "unreadable"} => ~call'[o].wrote
               /\ ~At(o, "idle")' => outcome'[o] = "none"
    BY DEF VaultInv, Refused, RefusedChangeWroteNothing, At
  <2> QED BY <2>1 DEF Refused, RefusedChangeWroteNothing
<1> QED BY <1>1, <1>2, <1>4, <1>5, <1>6 DEF VaultInv

\* What is under way when a call is alone.
LEMMA LoneTorn ==
  ASSUME NEW c \in Calls, Alone(c), \A o \in Calls \ {c} : call'[o] = call[o], NEW op
  PROVE  (UnderWay(op) <=> Writes(c, op)) /\ (UnderWay(op)' <=> Writes(c, op)')
BY DEF UnderWay, Writes, Alone, At

LEMMA PutChangedKeepsInv ==
  ASSUME VaultInv, NEW c \in Calls, NEW i \in Items, PutChanged(c, i) PROVE VaultInv'
<1> DEFINE put == [call[c] EXCEPT !.left = @ \ {i}, !.wrote = TRUE]
<1>1. /\ At(c, "item") /\ call[c].op = "change" /\ ~At(c, "idle") /\ i \in call[c].left /\ salt # 0
      /\ Fits(call[c]) /\ Ordered(c) /\ VaultTyped /\ salt' = salt /\ check' = check /\ key' = key
      /\ salts' = salts /\ kept' = kept /\ password' = password /\ deaths' = deaths
      /\ item' = [item EXCEPT ![i] = [under |-> call[c].under, records |-> call[c].plain[i]]]
      /\ torn' = (IF key = Nothing THEN torn \union {"change"} ELSE torn)
      /\ Encrypts(c, put, key)
  BY DEF PutChanged, VaultInv, Ordered, At
<1>2. Alone(c)
  BY <1>1, AloneWhen DEF VaultInv
<1>3. /\ call[c].under \in Keys /\ call[c].plain[i] \in SUBSET Accounts
      /\ [under |-> call[c].under, records |-> call[c].plain[i]] \in Payloads
  <2>1. call[c].under \in Keys /\ call[c].plain[i] \in SUBSET Accounts
    BY <1>1, CallFacts DEF Fits, At, Records
  <2> QED BY <2>1 DEF Payloads
<1>4. item' \in [Items -> Payloads \union {Nothing}] /\ torn' \subseteq {"change", "reset"}
  BY <1>1, <1>3 DEF VaultTyped
<1>5. salt # 0 /\ ~Torn("reset") => check # Nothing
  BY KeyKnown
<1>6. CASE key = Nothing
  <2>1. Returns(c, "threw")
    BY <1>1, <1>6 DEF Encrypts
  <2>2. /\ call' \in [Calls -> Call] /\ call'[c].at = "idle" /\ call'[c].op = call[c].op
        /\ call'[c].wrote = call[c].wrote /\ call'[c].key = AccountKey
        /\ outcome' \in [Calls -> Outcomes] /\ outcome'[c] = "threw"
        /\ \A o \in Calls \ {c} : call'[o] = call[o] /\ outcome'[o] = outcome[o]
    BY <1>1, <2>1, ReturnsFacts DEF Outcomes
  <2>3. VaultTyped'
    BY <1>1, <1>4, <2>2 DEF VaultTyped
  <2>4. Fits(call'[c]) /\ Ordered(c)' /\ ~Saving(c)' /\ Stage(c)' /\ At(c, "idle")'
    BY <1>1, <2>2 DEF Fits, Ordered, Saving, Stage, At, Rewrites
  <2>5. Torn("reset")' => Torn("reset")
    BY <1>1, <1>2, <1>6, <2>2, <2>4, LoneTorn DEF Torn, Writes
  <2>6. Torn("reset") => Torn("reset")'
    BY <1>1, <1>2, <1>6, <2>2, LoneTorn DEF Torn, Writes
  <2>7. KeyIsSure' /\ KeyHasSalt'
    BY <1>1, <1>6 DEF KeyIsSure, KeyHasSalt
  <2>8. ~Clean'
    BY <1>1, <1>6 DEF Clean, Torn
  <2> QED BY <1>1, <1>2, <1>5, <2>2, <2>3, <2>4, <2>5, <2>6, <2>7, <2>8, LoneKeepsInv
<1>7. CASE key # Nothing
  <2> DEFINE d == Encrypting(put, key)
  <2>1. Go(c, d)
    BY <1>1, <1>7 DEF Encrypts
  <2>2. key = call[c].under
    BY <1>1, <1>7 DEF Ordered, Rewrites, At
  <2>3. /\ d \in Call /\ d.at = (IF call[c].left \ {i} = {} THEN "check" ELSE "item") /\ d.op = "change"
        /\ d.wrote /\ d.left = call[c].left \ {i} /\ d.under = call[c].under /\ d.salt = call[c].salt
        /\ d.new = call[c].new /\ d.plain = call[c].plain /\ d.key = call[c].key
    <3>1. call[c] \in Call /\ call[c].left \ {i} \subseteq Entries /\ key \in Keys /\ call[c].op = "change"
      BY <1>1, <1>3, <2>2, CallFacts
    <3>2. call[c].at = "item"
      BY <1>1 DEF At
    <3> QED BY <2>2, <3>1, <3>2 DEF Encrypting, Call, Steps
  <2>4. Fits(d)
    BY <1>1, <1>3, <2>3 DEF Fits, At
  <2> HIDE DEF d
  <2>5. /\ call' \in [Calls -> Call] /\ call'[c] = d /\ outcome' = outcome
        /\ \A o \in Calls \ {c} : call'[o] = call[o]
    BY <1>1, <2>1, <2>3, GoFacts
  <2>6. VaultTyped'
    BY <1>1, <1>4, <2>5 DEF VaultTyped
  <2>7. Ordered(c)' /\ ~Saving(c)'
    BY <1>1, <2>2, <2>3, <2>5 DEF Ordered, At, Rewrites, Saving
  <2>8. Torn("reset")' <=> Torn("reset")
    BY <1>1, <1>2, <1>7, <2>3, <2>5, LoneTorn DEF Torn, Writes
  <2>9. ~Clean'
    <3>1. Writes(c, "change")'
      BY <2>3, <2>5 DEF Writes, At
    <3> QED BY <3>1 DEF Clean, Torn, UnderWay
  <2>10. KeyIsSure' /\ KeyHasSalt'
    <3>1. Unsure(c)'
      BY <2>3, <2>5 DEF Unsure, Rewrites
    <3> QED BY <1>1, <3>1 DEF KeyIsSure, KeyHasSalt
  <2>11. torn' = {} => Stage(c)'
    <3> SUFFICES ASSUME torn = {} PROVE Stage(c)'
      BY <1>1, <1>7
    <3>1. \A j \in Items : /\ call[c].plain[j] = kept[j]
                           /\ Stored(j, IF j \in call[c].left THEN check ELSE call[c].under)
      BY <1>1 DEF VaultInv, RecordsRight, Stage, At
    <3>2. call[c].plain[i] # Nothing
      BY <1>1 DEF Fits, At
    <3>3. ASSUME NEW j \in Items
          PROVE  (Stored(j, IF j \in call[c].left THEN check ELSE call[c].under))'
      <4>1. CASE j = i
        <5>1. item'[i] = [under |-> call[c].under, records |-> kept[i]] /\ kept[i] # Nothing
          BY <1>1, <3>1, <3>2 DEF VaultTyped
        <5>2. i \notin call'[c].left /\ call'[c].under = call[c].under
          BY <2>3, <2>5
        <5> QED BY <1>1, <4>1, <5>1, <5>2 DEF Stored
      <4>2. CASE j # i
        <5>1. item'[j] = item[j]
          BY <1>1, <4>2 DEF VaultTyped
        <5>2. (j \in call'[c].left <=> j \in call[c].left) /\ call'[c].under = call[c].under
          BY <2>3, <2>5, <4>2
        <5> QED BY <1>1, <3>1, <5>1, <5>2 DEF Stored
      <4> QED BY <4>1, <4>2
    <3> QED BY <1>1, <2>3, <2>5, <3>1, <3>3 DEF Stage, At
  <2>12. outcome'[c] = "none"
    BY <1>1, <2>5 DEF VaultInv, Refused
  <2> QED BY <1>1, <1>2, <1>5, <2>3, <2>4, <2>5, <2>6, <2>7, <2>8, <2>9, <2>10, <2>11, <2>12, LoneKeepsInv
<1> QED BY <1>6, <1>7

\* The writer of the verification payload or of the salt.
LEMMA WriterFacts ==
  ASSUME VaultInv, NEW c \in Calls, At(c, "check") \/ At(c, "master")
  PROVE  /\ call[c].op \in {"unlock", "change"} /\ ~At(c, "idle") /\ Alone(c)
         /\ (call[c].op = "unlock" => salt = 0) /\ (call[c].op = "change" => salt # 0)
         /\ call[c].new \in Passwords /\ call[c].salt # 0
         /\ <<call[c].new, call[c].salt>> \in Keys /\ <<call[c].new, call[c].salt>> # Nothing
         /\ call[c].op = "unlock" => (Clean <=> torn = {})
<1>1. /\ call[c].op \in {"unlock", "change"} /\ ~At(c, "idle") /\ VaultTyped
      /\ (call[c].op = "unlock" => salt = 0) /\ (call[c].op = "change" => salt # 0)
      /\ call[c].new \in Passwords /\ call[c].salt # 0 /\ call[c].salt \in 0..MaxSalt
  BY CallFacts DEF VaultInv, Fits, Ordered, At
<1>2. Alone(c)
  BY <1>1, AloneWhen DEF VaultInv
<1>3. call[c].op = "unlock" => ~UnderWay("change") /\ ~UnderWay("reset")
  BY <1>2 DEF UnderWay, Writes, Alone
<1>4. call[c].op = "unlock" => (Clean <=> torn = {})
  BY <1>1, <1>3 DEF Clean, Torn, VaultTyped
<1> QED BY <1>1, <1>2, <1>4, KeyFacts

LEMMA PutCheckKeepsInv == ASSUME VaultInv, NEW c \in Calls, PutCheck(c) PROVE VaultInv'
<1>1. /\ At(c, "check") /\ VaultTyped /\ Fits(call[c]) /\ Ordered(c) /\ check' = call[c].under
      /\ call[c].under = <<call[c].new, call[c].salt>> /\ call[c].left = {} /\ salt' = salt /\ item' = item
      /\ key' = key /\ salts' = salts /\ kept' = kept /\ password' = password /\ torn' = torn
      /\ deaths' = deaths
  BY DEF PutCheck, VaultInv, Fits, At, history
<1>2. /\ call[c].op \in {"unlock", "change"} /\ ~At(c, "idle") /\ Alone(c)
      /\ (call[c].op = "unlock" => salt = 0) /\ (call[c].op = "change" => salt # 0)
      /\ check' \in Keys /\ check' # Nothing
      /\ call[c].op = "unlock" => (Clean <=> torn = {})
  BY <1>1, WriterFacts
<1> DEFINE d == [call[c] EXCEPT !.at = "master", !.wrote = TRUE]
<1>3. Go(c, d)
  BY DEF PutCheck
<1>4. /\ d \in Call /\ d.at = "master" /\ d.op = call[c].op /\ d.wrote /\ d.new = call[c].new
      /\ d.salt = call[c].salt /\ d.plain = call[c].plain /\ d.key = call[c].key
  BY <1>1, CallFacts DEF Call, Steps
<1>5. Fits(d)
  BY <1>1, <1>2, <1>4 DEF Fits, At
<1> HIDE DEF d
<1>6. /\ call' \in [Calls -> Call] /\ call'[c] = d /\ outcome' = outcome
      /\ \A o \in Calls \ {c} : call'[o] = call[o]
  BY <1>1, <1>3, <1>4, GoFacts
<1>7. VaultTyped'
  BY <1>1, <1>2, <1>6 DEF VaultTyped
<1>8. Ordered(c)' /\ ~Saving(c)'
  BY <1>1, <1>2, <1>4, <1>6 DEF Ordered, At, Rewrites, Saving
<1>9. Torn("reset")' <=> Torn("reset")
  BY <1>1, <1>2, <1>4, <1>6, LoneTorn DEF Torn, Writes
<1>10. KeyIsSure' /\ KeyHasSalt'
  <2>1. key' \in {Nothing, check'} /\ (salt' = 0 => First(c)')
    BY <1>1, <1>2, <1>4, <1>6 DEF Ordered, Rewrites, At, First
  <2> QED BY <2>1 DEF KeyIsSure, KeyHasSalt
<1>11. Clean' => call[c].op = "unlock" /\ \A i \in Items : Stored(i, check)'
  <2> SUFFICES ASSUME Clean' PROVE call[c].op = "unlock" /\ \A i \in Items : Stored(i, check)'
    OBVIOUS
  <2>1. call[c].op = "unlock"
    BY <1>2, <1>4, <1>6 DEF Clean, Torn, UnderWay, Writes, At
  <2>2. Clean
    BY <1>1, <1>2, <1>7, <2>1 DEF Clean, Torn, VaultTyped
  <2>3. \A i \in Items : kept[i] = Nothing /\ Stored(i, check)
    BY <1>2, <2>1, <2>2 DEF VaultInv, KeyRight, RecordsRight, Clean
  <2> QED BY <1>1, <2>1, <2>3 DEF Stored
<1>12. torn' = {} /\ call[c].op = "change" => Stage(c)'
  <2> SUFFICES ASSUME torn = {}, call[c].op = "change" PROVE Stage(c)'
    BY <1>1
  <2>1. \A i \in Items : Stored(i, call[c].under)
    BY <1>1 DEF VaultInv, RecordsRight, Stage, At
  <2> QED BY <1>1, <1>4, <1>6, <2>1 DEF Stage, At, Stored
<1>13. outcome'[c] = "none"
  BY <1>2, <1>6 DEF VaultInv, Refused
<1>14. ~Torn("reset") /\ salt = 0 => \A i \in Items : kept[i] = Nothing
  BY DEF VaultInv, KeyRight
<1> QED BY <1>1, <1>2, <1>4, <1>5, <1>6, <1>7, <1>8, <1>9, <1>10, <1>11, <1>12, <1>13, <1>14, LoneKeepsInv

LEMMA PutSaltKeepsInv == ASSUME VaultInv, NEW c \in Calls, PutSalt(c) PROVE VaultInv'
<1>1. /\ At(c, "master") /\ VaultTyped /\ Fits(call[c]) /\ Ordered(c) /\ salt' = call[c].salt
      /\ password' = call[c].new /\ Returns(c, "true") /\ check' = check /\ item' = item /\ key' = key
      /\ salts' = salts /\ kept' = kept /\ torn' = torn /\ deaths' = deaths
      /\ check = <<call[c].new, call[c].salt>>
  BY DEF PutSalt, VaultInv, Ordered
<1>2. /\ call[c].op \in {"unlock", "change"} /\ ~At(c, "idle") /\ Alone(c) /\ salt' # 0
      /\ (call[c].op = "unlock" => salt = 0) /\ call[c].new \in Passwords /\ check # Nothing
      /\ call[c].salt \in 0..MaxSalt
      /\ call[c].op = "unlock" => (Clean <=> torn = {})
  BY <1>1, WriterFacts, CallFacts
<1>3. /\ call' \in [Calls -> Call] /\ call'[c].at = "idle" /\ call'[c].op = call[c].op
      /\ call'[c].wrote = call[c].wrote /\ call'[c].key = AccountKey
      /\ outcome' \in [Calls -> Outcomes] /\ outcome'[c] = "true"
      /\ \A o \in Calls \ {c} : call'[o] = call[o] /\ outcome'[o] = outcome[o]
  BY <1>1, ReturnsFacts DEF Outcomes
<1>4. VaultTyped'
  BY <1>1, <1>2, <1>3 DEF VaultTyped
<1>5. Fits(call'[c]) /\ Ordered(c)' /\ ~Saving(c)' /\ Stage(c)' /\ At(c, "idle")'
  BY <1>1, <1>2, <1>3 DEF Fits, Ordered, Saving, Stage, At, Rewrites
<1>6. Torn("reset")' <=> Torn("reset")
  BY <1>1, <1>2, <1>3, LoneTorn DEF Torn, Writes
<1>7. ~Torn("reset") => KeyIsSure' /\ KeyHasSalt'
  <2>1. ~Unsure(c)
    BY <1>1 DEF Unsure, Rewrites, At
  <2>2. ~Torn("reset") => key \in {Nothing, check}
    BY <1>2, <2>1, KeyKnown
  <2> QED BY <1>1, <1>2, <2>2 DEF KeyIsSure, KeyHasSalt
<1>8. Clean' => \A i \in Items : Stored(i, check)'
  <2> SUFFICES ASSUME Clean' PROVE \A i \in Items : Stored(i, check)
    BY <1>1 DEF Stored
  <2>1. torn = {}
    BY <1>1 DEF Clean, Torn, VaultTyped
  <2>2. CASE call[c].op = "unlock"
    BY <1>2, <2>1, <2>2 DEF VaultInv, RecordsRight
  <2>3. CASE call[c].op = "change"
    BY <1>1, <2>1, <2>3 DEF VaultInv, RecordsRight, Stage
  <2> QED BY <1>2, <2>2, <2>3
<1> QED BY <1>1, <1>2, <1>3, <1>4, <1>5, <1>6, <1>7, <1>8, LoneKeepsInv

LEMMA DeleteKeepsInv ==
  ASSUME VaultInv, NEW c \in Calls, NEW e \in call[c].left, Delete(c, e) PROVE VaultInv'
<1>1. /\ At(c, "delete") /\ call[c].op = "reset" /\ ~At(c, "idle") /\ Alone(c)
      /\ VaultTyped /\ Fits(call[c]) /\ Ordered(c) /\ salts' = salts /\ password' = password /\ deaths' = deaths
      /\ salt' = (IF e = "master_salt" THEN 0 ELSE salt)
      /\ check' = (IF e = "verification_payload" THEN Nothing ELSE check)
      /\ item' = [i \in Items |-> IF i = e THEN Nothing ELSE item[i]]
      /\ kept' = [i \in Items |-> IF i = e THEN Nothing ELSE kept[i]]
      /\ torn' = (IF call[c].left = {e} THEN {} ELSE torn)
  BY AloneWhen DEF Delete, VaultInv, Fits, At
<1>2. /\ salt' \in 0..MaxSalt /\ check' \in Keys \union {Nothing} /\ torn' \subseteq {"change", "reset"}
      /\ item' \in [Items -> Payloads \union {Nothing}] /\ kept' \in [Items -> Records]
  <2>1. salt' \in 0..MaxSalt /\ check' \in Keys \union {Nothing}
    BY <1>1, VaultAssumption DEF VaultTyped
  <2>2. torn' \subseteq {"change", "reset"}
    BY <1>1 DEF VaultTyped
  <2>3. item' \in [Items -> Payloads \union {Nothing}]
    BY <1>1 DEF VaultTyped
  <2>4. kept' \in [Items -> Records]
    BY <1>1 DEF VaultTyped, Records
  <2> QED BY <2>1, <2>2, <2>3, <2>4
<1>3. CASE call[c].left = {e}
  <2>1. Returns(c, "true") /\ key' = Nothing /\ torn' = {}
    BY <1>1, <1>3 DEF Delete
  <2>2. /\ call' \in [Calls -> Call] /\ call'[c].at = "idle" /\ call'[c].op = call[c].op
        /\ call'[c].wrote = call[c].wrote /\ call'[c].key = AccountKey
        /\ outcome' \in [Calls -> Outcomes] /\ outcome'[c] = "true"
        /\ \A o \in Calls \ {c} : call'[o] = call[o] /\ outcome'[o] = outcome[o]
    BY <1>1, <2>1, ReturnsFacts DEF Outcomes
  <2>3. VaultTyped'
    BY <1>1, <1>2, <2>1, <2>2 DEF VaultTyped
  <2>4. Fits(call'[c]) /\ Ordered(c)' /\ ~Saving(c)' /\ At(c, "idle")'
    BY <1>1, <2>2 DEF Fits, Ordered, Saving, At, Rewrites
  <2>5. salt' = 0 /\ \A i \in Items : item'[i] = Nothing /\ kept'[i] = Nothing
    BY <1>1, <1>3 DEF Ordered
  <2>6. KeyIsSure' /\ KeyHasSalt' /\ \A i \in Items : Stored(i, check)'
    BY <2>1, <2>5 DEF KeyIsSure, KeyHasSalt, Stored
  <2> QED BY <1>1, <2>1, <2>2, <2>3, <2>4, <2>5, <2>6, LoneKeepsInv
<1>4. CASE call[c].left # {e}
  <2> DEFINE d == [call[c] EXCEPT !.left = @ \ {e}, !.wrote = TRUE]
  <2>1. Go(c, d) /\ key' = key
    BY <1>4 DEF Delete
  <2>2. /\ d \in Call /\ d.at = "delete" /\ d.op = "reset" /\ d.wrote /\ d.left = call[c].left \ {e}
        /\ d.key = call[c].key
    BY <1>1, CallFacts DEF Call, At
  <2>3. Fits(d)
    BY <1>1, <2>2 DEF Fits
  <2> HIDE DEF d
  <2>4. /\ call' \in [Calls -> Call] /\ call'[c] = d /\ outcome' = outcome
        /\ \A o \in Calls \ {c} : call'[o] = call[o]
    BY <1>1, <2>1, <2>2, GoFacts
  <2>5. VaultTyped'
    BY <1>1, <1>2, <2>1, <2>4 DEF VaultTyped
  <2>6. Ordered(c)' /\ ~Saving(c)'
    BY <1>1, <2>2, <2>4 DEF Ordered, At, Rewrites, Saving
  <2>7. Torn("reset")' /\ ~Clean'
    <3>1. Writes(c, "reset")'
      BY <2>2, <2>4 DEF Writes, At
    <3> QED BY <3>1 DEF Clean, Torn, UnderWay
  <2>8. outcome'[c] = "none"
    BY <1>1, <2>4 DEF VaultInv, Refused
  <2> QED BY <1>1, <2>2, <2>3, <2>4, <2>5, <2>6, <2>7, <2>8, LoneKeepsInv
<1> QED BY <1>3, <1>4

LEMMA PutSavedKeepsInv == ASSUME VaultInv, NEW c \in Calls, PutSaved(c) PROVE VaultInv'
<1> DEFINE i == call[c].key
           after == Changed(call[c], kept[i])
<1>1. /\ At(c, "item") /\ call[c].op \in {"save", "persist", "remove"} /\ ~At(c, "idle") /\ Saving(c)
      /\ Fits(call[c]) /\ Ordered(c) /\ VaultTyped /\ salt' = salt /\ check' = check /\ key' = key
      /\ salts' = salts /\ password' = password /\ torn' = torn /\ deaths' = deaths
      /\ item' = [item EXCEPT ![i] = [under |-> call[c].under, records |-> call[c].plain[i]]]
      /\ kept' = [kept EXCEPT ![i] = after]
      /\ Returns(c, "true") /\ ~Unsure(c) /\ ~First(c) /\ i \in Items
  <2>1. /\ At(c, "item") /\ call[c].op # "change" /\ Fits(call[c]) /\ Ordered(c) /\ VaultTyped
        /\ Returns(c, "true")
    BY DEF PutSaved, VaultInv
  <2>2. call[c].op \in {"save", "persist", "remove"} /\ ~At(c, "idle") /\ Saving(c) /\ ~Unsure(c) /\ ~First(c)
    BY <2>1 DEF Fits, At, Saving, Unsure, First, Rewrites
  <2> QED BY <2>1, <2>2, CallFacts DEF PutSaved
<1>2. /\ call[c].under \in Keys /\ call[c].plain[i] \in SUBSET Accounts
      /\ [under |-> call[c].under, records |-> call[c].plain[i]] \in Payloads
  <2>1. call[c].under \in Keys /\ call[c].plain[i] \in SUBSET Accounts
    BY <1>1, CallFacts DEF Fits, At, Records
  <2> QED BY <2>1 DEF Payloads
<1>3. after \in SUBSET Accounts /\ after # Nothing
  <2>1. kept[i] \in Records /\ call[c].arg \in SUBSET Accounts
    BY <1>1, CallFacts DEF VaultTyped
  <2>2. after \in SUBSET Accounts
    BY <1>1, <2>1 DEF Changed, Records
  <2> QED BY <2>2, ValueFacts
<1> HIDE DEF after, i
<1>4. item' \in [Items -> Payloads \union {Nothing}] /\ kept' \in [Items -> Records]
  BY <1>1, <1>2, <1>3 DEF VaultTyped, Records
<1>5. /\ call' \in [Calls -> Call] /\ call'[c].at = "idle" /\ call'[c].op = call[c].op
      /\ call'[c].wrote = call[c].wrote /\ call'[c].key = AccountKey
      /\ outcome' \in [Calls -> Outcomes] /\ outcome'[c] = "true"
      /\ \A o \in Calls \ {c} : call'[o] = call[o] /\ outcome'[o] = outcome[o]
  BY <1>1, ReturnsFacts DEF Outcomes
<1>6. VaultTyped'
  BY <1>1, <1>4, <1>5 DEF VaultTyped
<1>7. \A o \in Calls : Fits(call'[o]) /\ Ordered(o)'
  <2>1. Fits(call'[c]) /\ Ordered(c)'
    BY <1>1, <1>5 DEF Fits, Ordered, At, Rewrites
  <2> QED BY <1>1, <1>5, <2>1, OthersStay
<1>8. Apart'
  BY <1>1, <1>5, ApartStays DEF VaultInv
<1>9. \A o \in Calls : \A op \in {"change", "reset"} : Writes(o, op)' <=> Writes(o, op)
  BY <1>1, <1>5 DEF Writes, At
<1>10. (Torn("reset")' <=> Torn("reset")) /\ (Clean' <=> Clean)
  BY <1>1, <1>9 DEF Torn, UnderWay, Clean
<1>11. ~Torn("reset") => salt # 0 /\ call[c].under = check
  BY <1>1 DEF VaultInv, KeyRight
<1>12. KeyRight'
  <2> SUFFICES ASSUME ~Torn("reset")
               PROVE  /\ salt # 0 => check # Nothing
                      /\ KeyIsSure' /\ KeyHasSalt'
                      /\ \A o \in Calls : Saving(o)' => salt # 0 /\ call'[o].under = check
    BY <1>1, <1>10, <1>11 DEF KeyRight
  <2>1. KeyIsSure' /\ KeyHasSalt'
    BY <1>1, <1>5, WitnessesStay
  <2>2. ASSUME NEW o \in Calls, Saving(o)' PROVE salt # 0 /\ call'[o].under = check
    BY <1>5, <2>2 DEF VaultInv, KeyRight, Saving, At
  <2> QED BY <2>1, <2>2 DEF VaultInv, KeyRight
<1>13. ASSUME Clean, NEW j \in Items PROVE Stored(j, check)'
  <2>1. Stored(j, check)
    BY <1>13 DEF VaultInv, RecordsRight
  <2>2. CASE j # i
    <3>1. item'[j] = item[j] /\ kept'[j] = kept[j]
      BY <1>1, <2>2 DEF VaultTyped
    <3> QED BY <1>1, <2>1, <3>1 DEF Stored
  <2>3. CASE j = i
    <3>1. call[c].plain[i] = after
      <4>1. CASE call[c].op = "save"
        BY <1>1, <4>1 DEF Fits, At, Changed, after, i
      <4>2. CASE call[c].op # "save"
        <5>1. i = AccountKey
          BY <1>1, <4>2 DEF Fits, i
        <5> QED BY <1>1, <1>13, <4>2, <5>1 DEF VaultInv, RecordsRight, after
      <4> QED BY <4>1, <4>2
    <3>2. kept'[i] = after /\ item'[i] = [under |-> check, records |-> after]
      BY <1>1, <1>11, <1>13, <3>1 DEF VaultTyped, Clean
    <3> QED BY <1>1, <1>3, <2>3, <3>2 DEF Stored
  <2> QED BY <2>2, <2>3
<1>14. \A o \in Calls \ {c} : call[o].at = "idle" \/ call[o].op \in {"unlock", "save"}
  BY <1>1 DEF VaultInv, Apart, At
<1>15. RecordsRight'
  <2>1. \A o \in Calls : Saving(o)' => call'[o].op = "save"
    BY <1>5, <1>7, <1>14 DEF Saving, At, Fits
  <2>2. ASSUME NEW o \in Calls, call'[o].op = "change" PROVE Stage(o)'
    BY <1>1, <1>5, <1>14, <2>2 DEF Stage, At
  <2>3. Clean /\ salt # 0 => check = <<password, salt>>
    BY DEF VaultInv, RecordsRight
  <2> QED BY <1>1, <1>10, <1>13, <2>1, <2>2, <2>3 DEF RecordsRight
<1>16. Refused'
  <2>1. ASSUME NEW o \in Calls
        PROVE  /\ call'[o].op = "change" /\ outcome'[o] \in {"false", "unreadable"} => ~call'[o].wrote
               /\ ~At(o, "idle")' => outcome'[o] = "none"
    BY <1>5 DEF VaultInv, Refused, RefusedChangeWroteNothing, At
  <2> QED BY <2>1 DEF Refused, RefusedChangeWroteNothing
<1> QED BY <1>6, <1>7, <1>8, <1>12, <1>15, <1>16 DEF VaultInv

LEMMA VaultStepInv == VaultInv /\ [VaultNext]_vaultVars => VaultInv'
<1> SUFFICES ASSUME VaultInv, [VaultNext]_vaultVars PROVE VaultInv'
  OBVIOUS
<1>1. ASSUME NEW c \in Calls, CallStarts(c) PROVE VaultInv'
  BY <1>1, UnlockKeepsInv, ChangeKeepsInv, SaveKeepsInv, PersistKeepsInv, ResetKeepsInv DEF CallStarts
<1>2. ASSUME NEW c \in Calls, CallStep(c) PROVE VaultInv'
  BY <1>2, LoadSaltKeepsInv, DerivedKeepsInv, VerifyKeepsInv, VerifiedKeepsInv, ReadKeepsInv,
     PutChangedKeepsInv, ReadAllKeepsInv, RederivedKeepsInv, PutCheckKeepsInv, PutSaltKeepsInv,
     PutSavedKeepsInv, LoadKeepsInv, DeleteKeepsInv DEF CallStep
<1>3. CASE UNCHANGED vaultVars
  <2>1. /\ salt' = salt /\ check' = check /\ item' = item /\ kept' = kept /\ password' = password
        /\ torn' = torn /\ deaths' = deaths /\ key' = key /\ salts' = salts /\ call' = call
        /\ outcome' = outcome
    BY <1>3 DEF vaultVars, disk, history
  <2>2. VaultTyped' /\ Refused'
    BY <2>1 DEF VaultInv, VaultTyped, Refused, RefusedChangeWroteNothing, At
  <2>3. Apart' /\ (\A o \in Calls : Ordered(o)' /\ Fits(call'[o]))
    BY <2>1 DEF VaultInv, Apart, Ordered, At, Rewrites
  <2>4. KeyRight'
    BY <2>1 DEF VaultInv, KeyRight, Torn, UnderWay, Writes, KeyIsSure, KeyHasSalt, Unsure, First, Saving, Rewrites, At
  <2>5. RecordsRight'
    BY <2>1 DEF VaultInv, RecordsRight, Clean, Torn, UnderWay, Writes, Saving, Stage, Stored, At
  <2> QED BY <2>2, <2>3, <2>4, <2>5 DEF VaultInv
<1> QED BY <1>1, <1>2, <1>3, LockKeepsInv, DiesKeepsInv DEF VaultNext

\* For any calls, passwords, items, salts and deaths: every state is in the invariant.
THEOREM VaultInvariant == VaultSpec => []VaultInv
BY VaultInitInv, VaultStepInv, PTL DEF VaultSpec

LEMMA VaultInvKeeps == VaultInv => VaultTypeOK /\ VaultKeeps
<1> SUFFICES ASSUME VaultInv PROVE VaultTypeOK /\ VaultKeeps
  OBVIOUS
<1>1. VaultTypeOK
  <2>1. \A c \in Calls : /\ call[c].at \in Steps /\ call[c].op \in Ops
                         /\ call[c].under \in Keys \union {Nothing} /\ call[c].left \subseteq Entries
    BY CallFacts DEF VaultInv
  <2> QED BY <2>1 DEF VaultInv, VaultTyped, VaultTypeOK
<1>2. VaultKeepsRecords
  BY DEF VaultInv, RecordsRight, Clean, Stored, VaultKeepsRecords
<1> QED BY <1>1, <1>2 DEF VaultInv, Refused, VaultKeeps

\* The store, the key and the calls in flight have their types.
THEOREM VaultTypeCorrect == VaultSpec => []VaultTypeOK
BY VaultInvariant, VaultInvKeeps, PTL

\* A vault no change or reset of which was cut short opens with the password last
\* set and holds every record stored in it, however calls overlap, fail and die; and
\* a refused password change has written nothing.
THEOREM VaultIsKept == VaultSpec => []VaultKeeps
BY VaultInvariant, VaultInvKeeps, PTL

-----------------------------------------------------------------------------
(* The composition.                                                            *)

\* Side by side, the parts leave each other alone: what one of them does on its own is
\* all that it does in their company.
THEOREM ClientsCompose == ClientsSpec => VaultSpec /\ PayoutSpec /\ WalletSpec
<1>1. ClientsInit => VaultInit /\ PayoutInit /\ WalletInit
  BY DEF ClientsInit
<1>2. [ClientsNext]_clientVars => [VaultNext]_vaultVars /\ [PayoutNext]_payoutVars /\ [WalletNext]_walletVars
  BY DEF ClientsNext, clientVars
<1> QED BY <1>1, <1>2, PTL DEF ClientsSpec, VaultSpec, PayoutSpec, WalletSpec

\* What the clients store and show has its types in every part.
THEOREM ClientsTyped == ClientsSpec => []TypesOK
<1>1. VaultTypeOK /\ PayoutTypeOK /\ WalletTypeOK => TypesOK
  BY DEF TypesOK
<1> QED BY <1>1, ClientsCompose, VaultTypeCorrect, PayoutsTyped, WalletTyped, PTL

\* What the parts promise holds of the clients as a whole.
THEOREM ClientsAreTrue == ClientsSpec => [](VaultKeeps /\ PayoutsTrue /\ DappsAnswered)
BY ClientsCompose, VaultIsKept, PayoutsAreTrue, DappsAreAnswered, PTL
================================================================================
