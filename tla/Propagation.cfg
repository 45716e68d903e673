\* Everything may happen, failures included.
CONSTANTS
  g = g  ph = ph  t1 = t1  t2 = t2  t3 = t3  t4 = t4
  r1 = r1  r2 = r2  h1 = h1  h2 = h2  Nil = Nil  Root = g
  Request = {r1, r2}
  Handler = {h1, h2}
  Node = {g, ph, t1, t2, t3, t4}
  Parent <- GrowParent
  Type <- GrowType
  Edge <- ForkEdge
  Start <- GrowStart
  Spare = {t4}
  PlanStart = {"draft", "active"}
  Mortal = {r1, r2, h1, h2}
  Worked = {t1, t2, t3}
  Wanted = {"completed", "in_progress"}
  Allowed = {"create", "delete", "session", "restart"}
  MaxOps = 3
SPECIFICATION Spec
SYMMETRY SlotSymmetry
INVARIANTS TypeOK Settled
PROPERTIES UnblockJustified CompletionJustified
CHECK_DEADLOCK FALSE
