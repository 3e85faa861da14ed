SPECIFICATION DeploySpec
CONSTANTS
  Screens = {v1}
  Passwords = {p1, p2}
  MaxAttempts = 2
  MaxFaults = 0
INVARIANT RetrySkipsInstance
CHECK_DEADLOCK FALSE
