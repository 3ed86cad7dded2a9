SPECIFICATION Spec
CONSTANTS
  a1 = a1
  treasury = treasury
  x1 = x1
  x2 = x2
  w1 = w1
  e1 = e1
  e2 = e2
  server = server
  worker = worker
  NoOp = NoOp
  Agents <- MCAgents
  Treasury = treasury
  SpendLimit <- MCLimit
  AutoAllocation <- MCAuto
  DailyLimit = 2
  Earnings <- TwoEarnings
  Worth <- TwoWorth
  Worker <- MCWorker
  Ops <- Contending
  AccountOf <- MCAccount
  Amount <- MCAmount
  MaxCost <- MCMaxCost
  NeedsApproval <- Approval
  Callers <- OneCaller
  MaxDays = 2
  MaxCrashes = 1
  MaxRestrictions = 0
INVARIANTS
  AlwaysReconciled
  BooksAgreeWithProvider
  WithinLimits
CHECK_DEADLOCK FALSE
