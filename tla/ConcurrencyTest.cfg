SPECIFICATION FairSpec
CONSTANTS
  Calls = {c1, c2}
  Workers = {w1, w2}
  NoCall = NoCall
  MaxCount = 3
  Counts <- SomeCounts
INVARIANTS TypeOK LockOwned SentTogether BatchesIntact
PROPERTY CallsFinish
CHECK_DEADLOCK FALSE
