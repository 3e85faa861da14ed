SPECIFICATION ClientsSpec
CONSTANTS
  c1 = c1
  c2 = c2
  p1 = p1
  p2 = p2
  a1 = a1
  x1 = x1
  x2 = x2
  w1 = w1
  w2 = w2
  q1 = q1
  q2 = q2
  Calls = {c1, c2}
  Passwords = {p1, p2}
  Accounts = {a1}
  AccountKey = "vault_accounts"
  OtherKeys = {"account"}
  MaxSalt = 2
  MaxFaults = 1
  Nothing = Nothing
  Rows = {x1, x2}
  Batches <- MCBatches
  Slots = {w1, w2}
  Free = Free
  MaxRuns = 2
  DappRequests = {q1, q2}
  Topics = {o1}
  Taps = {t1, t2}
  Blank = Blank
  MaxUndelivered = 1
  MaxLocks = 1
SYMMETRY MCSymmetry
INVARIANT TypesOK
INVARIANT VaultKeeps
INVARIANT PayoutsTrue
INVARIANT DappsAnswered
CHECK_DEADLOCK FALSE
