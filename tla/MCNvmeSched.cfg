SPECIFICATION Spec
CONSTANTS
  l1 = l1
  b1 = b1
  b2 = b2
  NumThreads = 2
  Tenants <- MCTenants
  Home <- MCHome
  LC <- MCLC
  Costs = {1, 2}
  Size = 1
  Deltas = {0, 1}
  Rate2 <- MCRate2
  BeRate2 = 2
  Limit = 1
  InitList <- MCList
  Churn = FALSE
  MaxBucket = 1
INVARIANTS
  TypeOK
  SavedWithinDemand
  SavedIsUnaffordable
  DeficitBounded
  LcBeforeBe
PROPERTIES
  TokensConserved
