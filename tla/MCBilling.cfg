SPECIFICATION Spec
CONSTANTS
  t1 = t1
  i1 = i1
  i2 = i2
  e1 = e1
  Tasks <- MCTasks
  InitialCredits <- MCCredits
  GrantSizes <- MCGrants
  MaxFunded = 4
  Invoices <- MCInvoices
  Events <- MCEvents
  MaxCrashes = 1
INVARIANTS
  GrantedOnce
  SettledWhole
  LivePlanIsPaidFor
CHECK_DEADLOCK FALSE
