SPECIFICATION Spec
CONSTANTS
  t1 = t1
  t2 = t2
  Tasks <- OneTask
  ResearchTasks <- OneTask
  UnlimitedTasks <- NoTasks
  InitialCredits <- OneFree
  GrantSizes <- NoGrants
  MaxFunded = 2
  MaxAttempts = 2
  Concurrency = 1
  MaxBoots = 1
PROPERTIES
  TerminalTaskFinal
