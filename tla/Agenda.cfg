CONSTANTS
  s1 = s1
  s2 = s2
  s3 = s3
  States = {s1, s2, s3}
  Estimates <- MCEstimates
  Orders <- MCOrders
  Unordered = unordered
  Limits <- SomeLimits
  NoLimit = noLimit
  Penalties <- MCPenalties
  MaxProposals = 2
  MaxSerial = 4
  Reorder = TRUE
SPECIFICATION Spec
INVARIANTS IndexesServeAll OnlyTooDeepIsParked
PROPERTIES NothingLost
CHECK_DEADLOCK FALSE
