SPECIFICATION LiveSpec
CONSTANTS
  l1 = l1
  b1 = b1
  b2 = b2
  NumThreads = 2
  Tenants <- LiveTenants
  Home <- LiveHome
  LC <- MCLC
  Costs = {2}
  Size = 1
  Deltas = {0, 1}
  Rate2 <- LiveRate2
  BeRate2 = 2
  Limit = 1
  InitList <- LiveList
  Churn = FALSE
  MaxBucket = 2
PROPERTIES
  
  BucketEmptiedAgain
