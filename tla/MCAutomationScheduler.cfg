\* A deleted automation does nothing any more.
CHECK_DEADLOCK FALSE
SPECIFICATION FairSpec
CONSTANTS
  Never = Never
  m1 = m1
  Schedules <- EveryKind
  ClockSkew = 1
  Horizon = 2
  ManualRuns <- OneManualRun
  ManualAlone = TRUE
  MaxFaults = 2
  MaxRecoveryAttempts = 2
INVARIANTS
  RunsMatchJobs
  LaunchedOnce
PROPERTIES
  NoBackfill
  SchedulerServes
