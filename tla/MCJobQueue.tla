------------------------------ MODULE MCJobQueue ------------------------------
(* Small instances of JobQueue, one per behaviour: deliveries that end before  *)
(* their job goes stale, and deliveries of any length.                         *)
EXTENDS JobQueue

CONSTANTS w1, w2, r1, r2, k1

VARIABLE part

Late == INSTANCE JobQueue WITH
  StaleAfter <- 1, BackoffCap <- 1, Timely <- FALSE, MaxCrashes <- 0, MaxDbErrors <- 0

TimelyPart(A) == part = "timely" /\ A /\ UNCHANGED part

QueueInit == part \in {"timely", "late"} /\ Init
QueueNext == TimelyPart(Next) \/ (part = "late" /\ Late!Next /\ UNCHANGED part)

\* FairSpec's fairness.
QueueFairness ==
  /\ \A r \in Requests : WF_vars(TimelyPart(EnqueueStep(r)))
  /\ \A w \in Workers :
       /\ WF_vars(TimelyPart(PollStep(w))) /\ WF_vars(TimelyPart(DeliveryStep(w)))
       /\ WF_vars(TimelyPart(StopResolves(w))) /\ WF_vars(TimelyPart(Exit(w)))
       /\ WF_vars(TimelyPart(Start(w)))
  /\ WF_vars(TimelyPart(Tick))

QueueSpec == QueueInit /\ [][QueueNext]_<<part, vars>> /\ QueueFairness

\* Of timely deliveries: every enqueued job is settled (see EnqueuedIsSettled).
JobsSettle == part = "timely" => EnqueuedIsSettled
=============================================================================
