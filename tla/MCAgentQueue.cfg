SPECIFICATION FairSpec
CONSTANTS
  t1 = t1
  t2 = t2
  Tasks <- TwoTasks
  ResearchTasks <- SecondTask
  UnlimitedTasks <- NoTasks
  InitialCredits <- OneFree
  GrantSizes <- NoGrants
  MaxFunded = 2
  MaxAttempts = 2
  Concurrency = 2
  MaxBoots = 2
INVARIANTS
  JobAgreesWithTask
  NothingLeftBehind
  UnsuccessfulTaskRefunded
  RefundedIsNotDelivered
PROPERTIES
  JobRowsFollowLifecycle
  SettledStaysSettled
  TasksSettle
