SPECIFICATION FairSpec
CHECK_DEADLOCK FALSE
CONSTANTS
  o1 = o1
  economy = economy
  workforce = workforce
  owner = owner
  a1 = a1
  a2 = a2
  Opportunities <- MCOpportunities
  Schedulers <- MCSchedulers
  Owners <- MCOwners
  Agents <- MCAgents
  MaxRounds = 1
  MaxAttempts = 2
  MaxActive = 1
  Costs = {1}
  MaxEvents = 2
INVARIANTS
  WorkedOnce
  CostIsBooked
  CompletedIsDelivered
PROPERTIES
  WorkSettles
