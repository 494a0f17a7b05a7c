SPECIFICATION Spec
CONSTANTS
  c1 = c1
  c2 = c2
  c3 = c3
  NumThreads = 2
  Home <- TwoThreads
  FlowOf <- OwnFlows
  Conns = {c1, c2, c3}
  Slos <- AllSlos
  DevModel <- Flat
  MaxFg = 5
  Swqs = 3
  MaxRegs = 1
  MaxBatch = 2
  EarlyClients = FALSE
  Micro = 1
  ReadCost = 1
  WriteCost = 2
  UintMax = 127
  UlongMax = 1023
CHECK_DEADLOCK FALSE
INVARIANTS
  TypeOK
  ReservationsExact
  OneOwner
  BeCounted
  

  
