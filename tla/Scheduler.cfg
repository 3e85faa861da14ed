SPECIFICATION SchedulerSpec
CONSTANTS
  w1 = w1
  w2 = w2
  t1 = t1
  t2 = t2
  k1 = k1
  k2 = k2
  SessionKeys = {k1, k2}
  Approved <- MCApproved
  Workers = {w1, w2}
  Transfers = {t1, t2}
  Frequencies <- MCBoth
  EndTimes <- MCEnds
  StartDelays = {0}
  UserOps = {"paused", "cancelled"}
  MaxFailures = 2
  LeaseTTL = 1
  ExecLimit = 2
  BackoffCap = 1
  TimelyRelay = TRUE
  MaxTime = 2
  MaxCrashes = 1
  MaxDbErrors = 1
INVARIANT OnceRelayedOnce
INVARIANT LeaseMutex
INVARIANT SubmissionsAccounted
INVARIANT CancelledIdleIsFinal
INVARIANT LogIsTrusted
PROPERTY DueIsTaken
CHECK_DEADLOCK FALSE
