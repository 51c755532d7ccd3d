SPECIFICATION Spec
CONSTANTS
  f1 = f1
  f2 = f2
  j1 = j1
  j2 = j2
  Followers = {f1, f2}
  Jobs = {j1, j2}
  Clients <- MCClients
  MaxFaults = 1
  Spreads <- MCSpreads
  Midpoints <- MCMidpoints
  Strikes <- MCStrikes
  MaxRequests = 2
CHECK_DEADLOCK FALSE
INVARIANTS SessionInv BookInv AccountInv RiskStaysVisible
SYMMETRY Symmetric
