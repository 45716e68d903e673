\* Two requests at once in every store (one fork: forks share nothing).
CONSTANTS
  r1 = r1  r2 = r2  Nil = Nil  Request = {r1, r2}
  Node = {0, 1, 2, 3, 4, 5}  Root = 0  Label <- Labels  Planted <- StartTrees
  Index = {1}  MaxEdits = 3
  Decision = {d1, d2}  Answer = {yes, no}  MaxDecisionOps = 5
  Connection = {c1, c2}  MaxGrants = 3
  k1 = k1  k2 = k2  k3 = k3  pa = pa  pb = pb
  Goal = {g1, g2}  Work = {k1, k2, k3}  WorkPlan <- Plans  PlanWithout = pb  MaxTies = 3
  Criterion = {m1, m2}  MaxReviews = 3
  ann = ann  bob = bob  eve = eve
  User = {ann, bob, eve}  PlanOwner = ann  OrgOwner = ann  Guest = {eve}
  Offered = {"admin"}  MaxShares = 3  MaxInvites = 1
  o1 = o1  o2 = o2  o3 = o3  o4 = o4
  Original = {o1, o2, o3, o4}  Caption <- Captions  Layouts <- StartLayouts
  Copier = {f1}  MaxAlters = 2
  Planner = {i1}  Outlines <- StartOutlines  MaxMeddles = 2
  Window = 2  MaxIterations = 3  MaxRuns = 2  MaxLoopCalls = 5
  h1 = h1  h2 = h2
  la = la  lb = lb  fact = fact
  Lesson = {la, lb}  LessonName <- Titles  LessonPlan <- Lessons  Subject = {fact}  About <- Subjects
  SyncLimit = 1  AsyncLimit = 2  MaxLessons = 2  MaxChecked = 1  MaxAtOnce = 1
  Account = {h1, h2}  Team = {acme}  Space = {sa, sb}  Doc = {doc}  MaxMoves = 4
SPECIFICATION Spec
SYMMETRY SlotSymmetry
INVARIANTS ServicesTypeOK ToldTheOutcome SpentOnce DisconnectEndsAccess
  TasksContribute AchievedWhenMet PlansWhole LoopSound HomesSound LearningSound
PROPERTIES TreeSound AccessSound
CHECK_DEADLOCK FALSE
