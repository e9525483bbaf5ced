\* One run whose job is stolen back from a hung worker.
CONSTANTS
  Reviews = {rv1}
  Runs = {r1}
  None = None
  Jobs = {j1}
  Tokens = {t1, t2}
  Workers = {w1}
  Mutexes = {m1, m2}
  MaxAttempts = 2
SPECIFICATION ShellFairSpec
CHECK_DEADLOCK FALSE
INVARIANTS
  MutexSound
PROPERTIES
  ShellImplementsJobs
  MutexEventuallyFree
