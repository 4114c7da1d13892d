SPECIFICATION MCSpec
CONSTANTS
  Parts = {"pool"}
  Jobs = {j1, j2, j3}
  Capacity = 1
  Drained = FALSE
  r1 = r1
  r2 = r2
  e1 = e1
  Items <- MCItems
  Blocking <- MCBlocking
  Workers = {w1, w2}
  BatchSize = 2
  ChannelBufferSize = 0
  MaxRetries = 2
PROPERTIES
  JobsGetThrough
CHECK_DEADLOCK FALSE
