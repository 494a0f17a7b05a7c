SPECIFICATION LiveSpec
CONSTANTS
  l1 = l1
  b1 = b1
  b2 = b2
  NumThreads = 1
  Tenants <- MCTenants
  Home <- ChurnHome
  LC <- MCLC
  Costs = {2}
  Size = 1
  Deltas = {0, 1}
  Rate2 <- MCRate2
  BeRate2 = 2
  Limit = 1
  InitList <- TurnList
  Churn = FALSE
  MaxBucket = 2
PROPERTIES
  EveryoneFirst
