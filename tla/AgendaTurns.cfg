CONSTANTS
  s1 = s1
  s2 = s2
  s3 = s3
  States = {s1, s2, s3}
  Estimates <- MCEstimates
  Orders <- MCOrders
  Unordered = unordered
  Limits <- OneLimit
  NoLimit = noLimit
  Penalties <- MCPenalties
  MaxProposals = 2
  MaxSerial = 5
  Reorder = FALSE
SPECIFICATION FairSpec
INVARIANTS ScopesAgree
PROPERTIES EveryEntryGetsATurn
CHECK_DEADLOCK FALSE
