\* As many batches at once as the pool has connections.
CONSTANTS
  a = a  b = b  c = c  d = d  r1 = r1  r2 = r2  Nil = Nil
  Node = {a, b, c, d}
  Request = {r1, r2}
  Batches <- TwoPlans
  Single = {}
  PoolSize = 2
  MaxOps = 2
SPECIFICATION FairSpec
PROPERTIES RequestEnds
CHECK_DEADLOCK FALSE
