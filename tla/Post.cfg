\* Three calls for two pushes, overlapping and crashing as they may.
CONSTANTS
  Attempts = {a1, a2, a3}
  Runs = {r1, r2}
  ReviewIds = {1, 2}
  MaxSends = 2
  None = None
SPECIFICATION Spec
SYMMETRY Symmetry
CHECK_DEADLOCK FALSE
INVARIANTS
  PostsSound
PROPERTIES
  WritesFenced
