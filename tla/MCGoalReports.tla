--------------------------- MODULE MCGoalReports ---------------------------
(***************************************************************************)
(* What the surfaces of GoalReports say of one goal while the tasks of three  *)
(* plans change: one with three tasks, one with a single task, one that is    *)
(* still without tasks.                                                       *)
(***************************************************************************)
EXTENDS GoalReports

CONSTANTS
  t1, t2, t3,          \* the tasks of the plan "here"
  ph,                  \* its phase
  x,                   \* the task of the plan "there"
  here, there, bare,   \* the plans
  MaxChanges           \* bound: number of things changed

VARIABLE world  \* the rows around the goal, see GoalReports

Board == {t1, t2, t3, x, ph}

(* What is linked, archived, open to the viewer and alive, and how far the     *)
(* goal's own measure has come                                                 *)
WorldInit ==
  \E linked \in SUBSET {here, there, bare}, archived \in SUBSET {here, there},
        hidden \in SUBSET {there}, touched \in {{}, {here, bare}}, attained \in {Nil, 0} :
    /\ archived \subseteq linked /\ hidden \subseteq linked
    /\ world = [tasks |-> <<t1, x, t2, t3>>,
                   plan |-> [n \in Board |-> IF n = x THEN there ELSE here],
                   phases |-> {ph},
                   status |-> [n \in Node |-> "not_started"], deps |-> {},
                   achieves |-> {}, asked |-> {}, due |-> {},
                   linked |-> linked, archived |-> archived, hidden |-> hidden,
                   touched |-> touched, attained |-> attained]

(* what is not as at first *)
Changes(w) ==
  Cardinality({n \in Node : w.status[n] # "not_started"}) + Cardinality(w.deps)
    + Cardinality(w.achieves) + Cardinality(w.asked) + (IF w.due = {} THEN 0 ELSE 1)

Become(w) == Changes(w) <= MaxChanges /\ world' = w

StatusesIn(n) == CASE n = t1 -> {"not_started", "in_progress", "blocked", "plan_ready", "completed"}
                   [] n = t2 -> {"not_started", "blocked", "completed"}
                   [] n = ph -> {"not_started", "plan_ready"}
                   [] OTHER  -> {"not_started", "completed"}

SetStatus == \E n \in Board : \E s \in StatusesIn(n) : Become([world EXCEPT !.status[n] = s])

Edges == {[source |-> e[1], target |-> e[2], type |-> "blocks", weight |-> 1] :
            e \in {<<t1, t2>>, <<t2, t3>>, <<x, t1>>}}

AddOrDeleteEdge ==
  \E d \in Edges : \E D \in {world.deps \cup {d}, world.deps \ {d}} : Become([world EXCEPT !.deps = D])

AddOrRemoveAchiever == \E A \in SUBSET {t1, x} : Become([world EXCEPT !.achieves = A])

(* An agent is asked for, or the request is withdrawn; what is pending waits    *)
(* for over a day.                                                             *)
Ask     == \E A \in SUBSET {t2, ph} : Become([world EXCEPT !.asked = A])
FallDue == \E D \in {{}, {t1, t2}} : Become([world EXCEPT !.due = D])

WorldNext == SetStatus \/ AddOrDeleteEdge \/ AddOrRemoveAchiever \/ Ask \/ FallDue

-----------------------------------------------------------------------------
(* One goal, one verdict: the dashboard, the agent's briefing, the goal's page *)
(* and its briefing give the same health and the same numbers, although the    *)
(* second computes them itself; the page's progress, which is that of the      *)
(* achievers, is the dashboard's when the goal has none and all its plans can  *)
(* be opened and are live.  The dashboard counts the pending decisions of      *)
(* tasks only, the briefing and the coherence those of phases too: the         *)
(* dashboard shows none exactly if the briefing lists nothing but phases, and  *)
(* an empty list with no blocked task means full coherence, and the other way  *)
(* round.                                                                      *)
SurfacesAgree ==
  LET r == Rollup(world)
      m == MissionGoal(world)
      s == GoalState(world)
      b == RouteBriefing(world)
  IN  /\ {m.health, s.health, b.health} = {r.health}
      /\ \A f \in {"execution_pct", "percent_blocked", "linked_plan_count", "pending"} :
           m[f] = r[f]
      /\ b.completion_pct = r.execution_pct /\ b.plan_pct = PortfolioPct(world)
      /\ r.linked_plan_count = Cardinality(s.linked_plans) + s.hidden_count
      /\ r.linked_plan_count = 0 <=> Actionability(world) = 0
      /\ s.tasks = {} /\ VisiblePlans(world) = world.linked => s.progress = r.execution_pct
      /\ s.progress = 100 => s.bottlenecks = {}
      /\ r.pending = 0 <=> b.pending \subseteq world.phases
      /\ Coherence(world, 0) = 1000 <=> b.pending = {} /\ r.percent_blocked = 0

(* A goal whose plans are all live is on track only if a plan has tasks,        *)
(* somebody has logged work, no open task blocks another (unless there are more *)
(* plans than are searched), nothing pending has been left lying, and the       *)
(* goal's own measure keeps up with its tasks.  What an agent is told to        *)
(* unblock does hold up something in a live plan.                               *)
HealthHonest ==
  LET T    == TasksOf(world, world.linked)
      r    == Rollup(world)
      told == Briefing(world, Nil).recommended
  IN  /\ r.health = "on_track" /\ world.archived = {} =>
           /\ T # {} /\ world.touched # {}
           /\ Cardinality(world.linked) <= PlansSeen =>
                \A d \in world.deps : d.source \in T => world.status[d.source] = "completed"
           /\ \A t \in T \cap world.due :
                world.status[t] # "plan_ready" /\ t \notin world.asked
           /\ world.attained = Nil \/ r.execution_pct < world.attained + OutcomeLag
              \/ r.execution_pct < 50
      /\ told # Nil => /\ Briefing(world, world.plan[told]).listed
                       /\ world.status[told] # "completed"
                       /\ \E d \in world.deps : d.source = told

(* One verdict, and an honest one *)
VerdictsAgree == world # Nil => SurfacesAgree /\ HealthHonest
=============================================================================
