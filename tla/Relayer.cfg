SPECIFICATION RelayerSpec
CONSTANTS
  c1 = c1
  c2 = c2
  c3 = c3
  k1 = k1
  h1 = h1
  h2 = h2
  Calls = {c1, c2, c3}
  Nonce <- MCNonce
  Key <- MCKey
  Keys = {k1}
  NoKey = NoKey
  Hosts = {h1, h2}
  TTL = 0
  MaxAttempts = 3
  MaxTime = 1
  MaxCrashes = 1
  MaxDbErrors = 1
  Procs = {h1, h2}
  Nobody = Nobody
  Migrations = 2
  Budget = 1
  MaxConns = 1
  MaxFaults = 1
INVARIANT SuccessIsTrue
PROPERTY PassesOnlyUnhanded
INVARIANT ProcessTypeOK
INVARIANT ShutdownOrderly
INVARIANT MigratedOnce
PROPERTY ProcessSettles
CHECK_DEADLOCK FALSE
