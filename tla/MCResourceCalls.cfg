SPECIFICATION CallsSpec
CHECK_DEADLOCK FALSE
CONSTANTS
  j1 = j1
  j2 = j2
  None = None
  Jobs <- MCJobs
  w1 = w1
  w2 = w2
  Workers <- MCWorkers
  Units <- MCUnits
  CallCost <- MCCost
  Outcomes <- MCOutcomes
  Costs = {1, 2}
  Readings = {0, 1}
  Limit = 3
  DayLimit = 3
  Funds = 2
  Budget = 2
  MaxEvents = 1
  MaxPeriods = 2
SYMMETRY Symmetry
INVARIANTS
  SentOnceAndKept
  UsageCoversCalls
  HoldFollowsCall
PROPERTIES
  CapsHold
