SPECIFICATION ContractsSpec
CONSTANTS
  a1 = a1
  a2 = a2
  a3 = a3
  k1 = k1
  c1 = c1
  c2 = c2
  m1 = m1
  p1 = p1
  p2 = p2
  s1 = s1
  s2 = s2
  Addresses = {a1, a2, a3}
  Keys = {k1}
  Contracts = {c1, c2}
  Args <- MCArgs
  Modules = {m1}
  Rejects <- MCRejects
  Policies <- MCPolicies
  PermissionSets <- MCEither
  Expiries = {1, 40}
  MillisFrom = 20
  MillisPerSec = 2
  MaxNonce = 3
  MaxVersion = 2
  MaxTime = 4
  MaxSigned = 3
  Parties = {p1, p2}
  Amounts = {0, 1, 2}
  DueDates <- MCDueDates
  Funds = 2
  MaxInvoices = 2
  MaxLedger = 2
  Signers = {s1, s2}
  SignerLists <- MCSignerLists
  Attestations <- MCAttestations
  WasmPolicies <- MCWasmPolicies
  Delays = {0, 1}
  MaxSigners = 2
  MaxProposals = 2
  MaxClock = 2
SYMMETRY MCSymmetry
INVARIANT NoReplay
INVARIANT SlidingSpend
INVARIANT ThresholdMeetable
INVARIANT PaidExactlyOnce
INVARIANT DueDateKept
INVARIANT BooksAgree
INVARIANT GovernorTypeOK
INVARIANT UpgradesOnceInTime
PROPERTY MultisigQuorum
CHECK_DEADLOCK FALSE
