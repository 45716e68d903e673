\* Tasks are completed, reopened and deleted; two callbacks run at once.
CONSTANTS
  g = g  ph = ph  t1 = t1  t2 = t2  t3 = t3  t4 = t4
  r1 = r1  r2 = r2  h1 = h1  h2 = h2  Nil = Nil  Root = g
  Request = {r1}
  Handler = {h1, h2}
  Node = {g, ph, t1, t2, t3}
  Parent <- ForkParent
  Type <- ForkType
  Edge <- ForkEdge
  Start <- LockStart
  Spare = {}
  PlanStart = {"active"}
  Mortal = {}
  Worked = {t1, t2}
  Wanted = {"completed", "in_progress"}
  Allowed = {"delete"}
  MaxOps = 3
SPECIFICATION FairSpec
PROPERTIES WakesTarget CompletesParent
CHECK_DEADLOCK FALSE
