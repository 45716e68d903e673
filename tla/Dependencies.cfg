\* Single edges and batches, two requests at a time, and one connection more
\* than there are requests.
CONSTANTS
  a = a  b = b  c = c  d = d  r1 = r1  r2 = r2  Nil = Nil
  Node = {a, b, c}
  Request = {r1, r2}
  Batches <- SomeBatches
  Single <- Edge
  PoolSize = 3
  MaxOps = 3
SPECIFICATION FairSpec
INVARIANTS TypeOK CheckStillHolds AcyclicUnlessRaced
PROPERTIES RequestEnds
CHECK_DEADLOCK FALSE
