SPECIFICATION QueueSpec
CONSTANTS
  w1 = w1
  w2 = w2
  r1 = r1
  r2 = r2
  k1 = k1
  Workers = {w1, w2}
  Concurrency = 1
  Requests = {r1, r2}
  Keys = {k1}
  MaxAttempts = 2
  StaleAfter = 2
  BackoffCap = 2
  Timely = TRUE
  MaxCrashes = 1
  MaxDbErrors = 1
INVARIANT TypeOK
INVARIANT ActiveUnique
INVARIANT DeliveriesCounted
PROPERTY LifecycleKept
PROPERTY JobsSettle
