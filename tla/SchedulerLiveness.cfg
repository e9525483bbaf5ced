\* One pod that crashes, is replaced and competes with nobody.
CONSTANTS
  Pods = {new}
  OldPods = {}
  NoPod = none
  SinkKeys = {}
  CronKeys = {nightly}
  PoisonKeys = {}
  BadSchedules = {}
  MaxAttempts = 2
  NumJobs = 1
SPECIFICATION FairSpec
CHECK_DEADLOCK FALSE
PROPERTIES
  DueAdvances
