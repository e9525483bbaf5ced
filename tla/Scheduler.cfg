\* A pod of each build, a schedule, and a workflow id whose jobs are poison.
CONSTANTS
  Pods = {old, new}
  OldPods = {old}
  NoPod = none
  SinkKeys = {wf}
  CronKeys = {nightly, typo}
  PoisonKeys = {wf}
  BadSchedules = {typo}
  MaxAttempts = 2
  NumJobs = 1
SPECIFICATION Spec
CHECK_DEADLOCK FALSE
INVARIANTS
  OneJobPerTick
PROPERTIES
  SchedulesKeepTicks
