SPECIFICATION Spec
CONSTANTS
  w1 = w1
  w2 = w2
  o1 = o1
  Events <- MCSplitEvents
  Ledger <- MCSplitLedger
  Row <- MCSplitIdentity
  Letter <- MCSplitIdentity
  Quality <- MCSplitQuality
  Workers = {w1}
  Operators = {}
  Batch = 2
  Limit = 1
  MaxLedger = 2
  MaxFailures = 0
INVARIANT LedgersComplete
