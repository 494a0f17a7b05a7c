SPECIFICATION Spec
CONSTANTS
  c1 = c1
  c2 = c2
  c3 = c3
  NumThreads = 1
  Home <- OneThread
  FlowOf <- PairFlows
  Conns = {c1, c2}
  Slos <- SmallAndLarge
  DevModel <- Flat
  MaxFg = 4
  Swqs = 2
  MaxRegs = 2
  MaxBatch = 1
  EarlyClients = FALSE
  Micro = 1
  ReadCost = 1
  WriteCost = 2
  UintMax = 127
  UlongMax = 1023
CHECK_DEADLOCK FALSE
INVARIANTS
  RegisteredIsMarked
