SPECIFICATION MCSpec
CONSTANTS
  Parts = {"aggregator"}
  Jobs = {j1, j2, j3}
  Capacity = 2
  Drained = TRUE
  r1 = r1
  r2 = r2
  e1 = e1
  Items <- MCItems
  Blocking <- MCBlocking
  Workers = {w1, w2}
  BatchSize = 2
  ChannelBufferSize = 0
  MaxRetries = 2
PROPERTIES
  StopIsSafe
CHECK_DEADLOCK FALSE
