\* Two pushes of one PR: an orphan of the superseded run and the new run compete
\* for the mutex.
CONSTANTS
  Reviews = {rv1}
  Runs = {r1, r2}
  None = None
  Jobs = {j1, j2}
  Tokens = {t1, t2}
  Workers = {w1}
  Mutexes = {m1, m2}
  MaxAttempts = 1
SPECIFICATION ShellSpec
SYMMETRY Symmetry
CHECK_DEADLOCK FALSE
INVARIANTS
  PushesSound
PROPERTIES
  ValidMutexReleasedByOwnRun
