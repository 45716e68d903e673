\* A plan of three tasks in three trees, and one task of another plan; and every
\* plan of five nodes whose work nodes have no sub-tasks; and a goal with up to
\* three plans, in which three things are changed.
CONSTANTS
  g = g  ph = ph  t1 = t1  t2 = t2  t3 = t3  x = x  Nil = Nil
  Node = {g, ph, t1, t2, t3, x}
  Extra <- MoreDeps
  MaxDeps = 3
  here = here  there = there  bare = bare
  MaxChanges = 3
  OutcomeLag = 30
  PlansSeen = 2
  MaxDepth = 2
  Size = 5
  Inner = {"root", "phase"}
  Statuses = {"not_started", "completed", "archived"}
SPECIFICATION Spec
INVARIANTS DepthFirst ScheduleLayered WorkToOffer WalksExact CriticalExact RollupTruthful VerdictsAgree
