SPECIFICATION MCSpec
CONSTANTS
  Parts = {"pool", "aggregator"}
  Jobs = {j1, j2, j3}
  Capacity = 2
  Drained = TRUE
  r1 = r1
  r2 = r2
  e1 = e1
  Items <- MCItems
  Blocking <- MCBlocking
  Workers = {w1, w2}
  BatchSize = 2
  ChannelBufferSize = 0
  MaxRetries = 2
INVARIANTS
  PoolTypeOK
  BoundedWork
  TokensAddUp
  TypeOK
  Conserved
PROPERTIES
  PoolServes
  ImplementsBuffer
  OffersReturn
  AcceptedIsHanded
  StopEnds
CHECK_DEADLOCK FALSE
