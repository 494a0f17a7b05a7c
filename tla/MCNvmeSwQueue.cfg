SPECIFICATION Spec
CONSTANTS
  c0 = c0
  c1 = c1
  c3 = c3
  Ctx <- MCCtx
  Cost <- MCCost
  Offers <- MCOffers
  Size = 3
  MaxSaved = 6
INVARIANTS
  TypeOK
  RingShape
  DemandIsBacklog
PROPERTIES
  ImplementsTokenQueue
