CONSTANTS
  Reviews = {rv1}
  Runs = {r1}
  None = None
  Jobs = {j1}
  Tokens = {t1, t2}
  Workers = {w1, w2}
  MaxAttempts = 2
SPECIFICATION FairSpec
CHECK_DEADLOCK FALSE
INVARIANTS
  JobsSound
PROPERTIES
  EndingsStay
  LeaseEndsUnlessPoisoned
