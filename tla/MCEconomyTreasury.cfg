SPECIFICATION TreasurySpec
CHECK_DEADLOCK FALSE
CONSTANTS
  p1 = p1
  p2 = p2
  a1 = a1
  r1 = r1
  r2 = r2
  t1 = t1
  v1 = v1
  x1 = x1
  u1 = u1
  u2 = u2
  s1 = s1
  w1 = w1
  Nobody = Nobody
  Processes <- MCProcesses
  Earners = {a1}
  Receipts = {r1, r2}
  Transfers = {t1}
  Reinvestments = {v1}
  Resources = {x1}
  Upgrades = {u1, u2}
  Settlements = {s1}
  Work = {w1}
  Sound = {u1}
  AgentOf <- MCAgentOf
  CentsOf <- MCCentsOf
  SameAs <- MCSameAs
  Quota <- MCQuota
  Threshold = 0
  Reserves = {0, 1}
  MaxFaults = 1
SYMMETRY Symmetry
INVARIANTS
  DecidedFromEarnings
  SettledFromRevenue
  BooksMatchRows
PROPERTIES
  DecisionsAreFinal
