SPECIFICATION FairSpec
CONSTANTS
  w1 = w1
  w2 = w2
  o1 = o1
  Events <- MCEvents
  Ledger <- MCLedger
  Row <- MCIdentity
  Letter <- MCIdentity
  Quality <- MCQuality
  Workers = {w1, w2}
  Operators = {o1}
  Batch = 2
  Limit = 2
  MaxLedger = 3
  MaxFailures = 1
INVARIANT CheckpointComplete
INVARIANT BackfillCovers
PROPERTY CatchesUp
