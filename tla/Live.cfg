\* Two tasks of a plan, contexts of two depths, a cache of two entries; two sockets of one user, two plans.
CONSTANTS
  r1 = r1  r2 = r2  Nil = Nil  Request = {r1, r2}
  w1 = w1  w2 = w2  t1 = t1  t2 = t2  p1 = p1  p2 = p2
  Worker = {w1, w2}  Task = {t1, t2}  PlanOf <- Plans  Research = {t1}
  Statuses = {"in_progress", "completed"}
  full = full  focus = focus  Variant = {full, focus}  TaskFocus = {focus}
  MaxNotes = 2  MaxEntries = 2  Ttl = 1  MaxCalls = 3  MaxClock = 2
  s1 = s1  s2 = s2  u1 = u1  n1 = n1
  Socket = {s1, s2}  SocketUser <- Users  ViewedPlan = {p1, p2}  ViewedNode = {n1}
  MaxMessages = 3
  Session = {1, 2, 3, 4, 5}  MaxForgotten = 2  MaxLosses = 1
SPECIFICATION Spec
INVARIANTS CachedStatusCurrent
PROPERTIES NotesLostOnlyByRaces ResearchCompacted PresenceSound BridgeSound
CHECK_DEADLOCK FALSE
