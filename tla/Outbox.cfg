\* Two pods compete for one row.
CONSTANTS
  NumRows = 1
  Pods = {p1, p2}
  BatchSize = 2
  MaxAttempts = 2
  MaxZombies = 1
SPECIFICATION FairSpec
CHECK_DEADLOCK FALSE
INVARIANTS
  OutboxSound
PROPERTIES
  RowsSettleForGood
