SPECIFICATION ExtensionSpec
CONSTANTS
  r1 = r1
  o1 = o1
  Handlers = {h1, h2}
  MaxFailures = 1
  MaxRestarts = 1
  MaxCalls = 4
  Requests = {r1}
  Kinds <- MCKinds
  Origins = {o1}
  Origin <- MCOrigin
  Confirmations = {s1, s2}
  MaxRetries = 1
  MaxSeq = 2
  MaxPolls = 1
  Screens = {v1}
  Passwords = {p1, p2}
  MaxAttempts = 3
  MaxFaults = 1
INVARIANT TypesOK
INVARIANT SessionSafe
INVARIANT SigningConsented
INVARIANT PaymentsTrue
INVARIANT DeploymentTrue
PROPERTY ExtensionSettles
PROPERTY DeploymentEnds
CHECK_DEADLOCK FALSE
