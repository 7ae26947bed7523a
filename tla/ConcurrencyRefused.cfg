SPECIFICATION Spec
CONSTANTS
  Calls = {c1, c2}
  Workers = {w1, w2}
  NoCall = NoCall
  MaxCount = 1
  Counts <- FewCounts
INVARIANT RefusedIsTold
CHECK_DEADLOCK FALSE
