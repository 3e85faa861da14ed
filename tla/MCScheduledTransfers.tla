------------------------- MODULE MCScheduledTransfers -------------------------
(* Small instances of ScheduledTransfers, one per behaviour: one process with  *)
(* two transfers, of a key each or of one key; two processes with executions  *)
(* of any length, one of which may die or have a query fail; and two with     *)
(* executions that end within their lease, one of which may die, while users  *)
(* pause and cancel.                                                          *)
EXTENDS ScheduledTransfers

CONSTANTS w1, w2, t1, t2, k1, k2

VARIABLE part

\* One-time, and recurring every unit.
MCBoth == {0, 1}
MCOnce == {0}
MCEnds == {1}
MCNoEnd == {NoEnd}
MCApproved == [t \in Transfers |-> IF t = t2 THEN 1 ELSE 0]

Solo == INSTANCE ScheduledTransfers WITH
  Workers <- {w1}, UserOps <- {}, MaxFailures <- 3, MaxDbErrors <- 0

\* Transfers of one session key: the second run of one derives the nonce that was
\* approved for the other.
Shared == INSTANCE ScheduledTransfers WITH
  Workers <- {w1}, UserOps <- {}, EndTimes <- {NoEnd}, SessionKeys <- {k1}

\* One recurring transfer, a lease of one unit.
Late == INSTANCE ScheduledTransfers WITH
  SessionKeys <- {k1}, Frequencies <- {1}, EndTimes <- {NoEnd}, UserOps <- {},
  TimelyRelay <- FALSE

Pair == INSTANCE ScheduledTransfers WITH
  SessionKeys <- {k1}, Frequencies <- {1}, EndTimes <- {NoEnd}, MaxDbErrors <- 0

\* Each transfer has a key of its own.
OwnKeys == \A t \in Transfers : row'[t].status = "absent" \/ row'[t].key = IF t = t2 THEN k2 ELSE k1

\* Bounds on the transfers, the requests and the faults of two processes.
OneTransfer == row'[t2] = row[t2]
OneRequest == Cardinality(requests') <= 1
OneFault == crashes' + dbErrors' <= 1

SoloPart(A) == part = "solo" /\ A /\ OwnKeys /\ UNCHANGED part

SchedulerInit == part \in {"solo", "shared", "late", "pair"} /\ Init
SchedulerNext ==
  \/ SoloPart(Solo!Next)
  \/ part = "shared" /\ Shared!Next /\ OneFault /\ UNCHANGED part
  \/ part = "late" /\ Late!Next /\ OneTransfer /\ OneFault /\ UNCHANGED part
  \/ part = "pair" /\ Pair!Next /\ OneTransfer /\ OneRequest /\ OneFault /\ UNCHANGED part

\* FairSpec's fairness.
SchedulerFairness ==
  /\ WF_vars(SoloPart(Solo!WorkerStep(w1)))
  /\ WF_vars(SoloPart(Solo!Restart(w1)))
  /\ WF_vars(SoloPart(Solo!Tick))

SchedulerSpec == SchedulerInit /\ [][SchedulerNext]_<<part, vars>> /\ SchedulerFairness

\* Two processes as the constants have them.
DoubleSpec == part = "pair" /\ Init /\ [][Next /\ UNCHANGED part]_<<part, vars>>

\* Of one process: a due transfer is attempted (see DueIsAttempted).
DueIsTaken == part = "solo" => DueIsAttempted
=============================================================================
