CONSTANTS
  r1 = r1
  v1 = v1
  v2 = v2
  none = none
  w1 = w1
  w2 = w2
  e1 = e1
  e2 = e2
  t1 = t1
  t2 = t2
  Tenants = {t1, t2}
  MaxLeases = 2
  MaxTries = 2
  Repos = {r1}
  MaxEvents = 2
  MaxRuns = 2
  MaxExpired = 1
  FileVersions = {v1, v2}
  NoFile = none
  MaxPushes = 4
  Writers = {w1, w2}
  AuditRuns = {e1, e2}
  LockKey <- MCLockKey
  MaxNo = 3
SPECIFICATION IntakeSpec
CHECK_DEADLOCK FALSE
INVARIANTS
  OneRunPerDelivery
  OwnersCurrentUnlessStale
  NumbersHaveNoGap
  WorkspaceStays
PROPERTIES
  DriftRepaired
  LeasesSettle
