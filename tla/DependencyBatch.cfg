\* One request creates the edges of a new plan.
CONSTANTS
  a = a  b = b  c = c  d = d  r1 = r1  r2 = r2  Nil = Nil
  Node = {a, b, c}
  Request = {r1}
  Batches <- SomeBatches
  Single = {}
  PoolSize = 2
  MaxOps = 1
SPECIFICATION Spec
INVARIANTS NoCycle
CHECK_DEADLOCK FALSE
