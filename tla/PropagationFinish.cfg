\* Blockers may be completed by finishing a work session.
CONSTANTS
  g = g  ph = ph  t1 = t1  t2 = t2  t3 = t3  t4 = t4
  r1 = r1  r2 = r2  h1 = h1  h2 = h2  Nil = Nil  Root = g
  Request = {r1}
  Handler = {h1}
  Node = {g, ph, t1, t2, t3}
  Parent <- ForkParent
  Type <- ForkType
  Edge <- ForkEdge
  Start <- LockStart
  Spare = {}
  PlanStart = {"active"}
  Mortal = {}
  Worked = {t1, t2}
  Wanted = {"completed"}
  Allowed = {"session"}
  MaxOps = 2
SPECIFICATION FairSpec
PROPERTIES CompletionUnblocks
CHECK_DEADLOCK FALSE
