SPECIFICATION DoubleSpec
CONSTANTS
  w1 = w1
  w2 = w2
  t1 = t1
  t2 = t2
  k1 = k1
  k2 = k2
  SessionKeys = {k1, k2}
  Approved <- MCApproved
  Workers = {w1, w2}
  Transfers = {t1}
  Frequencies <- MCOnce
  EndTimes <- MCNoEnd
  StartDelays = {0}
  UserOps = {}
  MaxFailures = 5
  LeaseTTL = 30
  ExecLimit = 50
  BackoffCap = 60
  TimelyRelay = TRUE
  MaxTime = 2
  MaxCrashes = 0
  MaxDbErrors = 0
INVARIANT OnceRelayedOnce
CHECK_DEADLOCK FALSE
