SPECIFICATION Spec
CONSTANTS
  a1 = a1
  a2 = a2
  a3 = a3
  c1 = c1
  Addresses = {a1, a2, a3}
  Keys = {}
  Contracts = {c1}
  Args <- MCOneArg
  Modules = {}
  Rejects = {}
  Policies = {}
  PermissionSets <- MCExecute
  Expiries = {0, 9}
  MillisFrom = 20
  MillisPerSec = 2
  MaxNonce = 1
  MaxVersion = 1
  MaxTime = 0
  MaxSigned = 2
PROPERTY MultiOwnerNeedsQuorum
CHECK_DEADLOCK FALSE
