SPECIFICATION FairSpec
CONSTANTS
  a1 = a1
  treasury = treasury
  x1 = x1
  x2 = x2
  w1 = w1
  e1 = e1
  e2 = e2
  server = server
  worker = worker
  NoOp = NoOp
  Agents <- MCAgents
  Treasury = treasury
  SpendLimit <- MCLimit
  AutoAllocation <- MCAuto
  DailyLimit = 2
  Earnings <- MCEarnings
  Worth <- MCWorth
  Worker <- MCWorker
  Ops <- Withdrawal
  AccountOf <- WAccount
  Amount <- WAmount
  MaxCost <- WMaxCost
  NeedsApproval <- Withdrawal
  Callers <- MCCallers
  MaxDays = 1
  MaxCrashes = 1
  MaxRestrictions = 1
INVARIANTS
  SentOnce
PROPERTIES
  DecidedIsSettled
CHECK_DEADLOCK FALSE
