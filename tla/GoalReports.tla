---------------------------- MODULE GoalReports ----------------------------
(***************************************************************************)
(* How a goal stands, as five surfaces tell it: the goals dashboard            *)
(* (goalRollup.service), the agent's briefing (goalDashboard in                *)
(* agentLoop.service), the goal's page (goalState.service), its briefing and    *)
(* its coherence (goals.routes).  Pure operators over the rows of one active    *)
(* goal and of the plans and tasks around it:                                  *)
(*   w.tasks, w.plan, w.status, w.deps    the tasks of all plans               *)
(*   w.phases     the nodes of the plans that are no tasks, with a plan and a  *)
(*                status too                                                   *)
(*   w.achieves   the tasks with an achieves edge to the goal                  *)
(*   w.asked      the nodes with agent_requested set                           *)
(*   w.due        the tasks whose plan_ready or request is over a day old      *)
(*   w.linked     the plans linked to the goal                                 *)
(*   w.archived, w.hidden   the plans archived; those the viewer may not open  *)
(*   w.touched    the plans with a log in the last three days                  *)
(*   w.attained   attainment_pct of the goal's criteria, Nil if none is        *)
(*                measurable                                                   *)
(***************************************************************************)
EXTENDS PlanQueries, PlanRollup

CONSTANTS
  OutcomeLag,  \* points execution may be ahead of attainment (30 in the code)
  PlansSeen    \* how many plans are searched for bottlenecks (5 in the code)

ASSUME GRAssumption == OutcomeLag \in Nat \ {0} /\ PlansSeen \in Nat \ {0}

TasksOf(w, P)     == {t \in ToSet(w.tasks) : w.plan[t] \in P}
With(w, S, s)     == {t \in S : w.status[t] = s}
(* what listByPlanIds gives without a node type: the phases as well *)
NodesOf(w, P)     == TasksOf(w, P) \cup {n \in w.phases : w.plan[n] \in P}
Share(w, S, s)    == Percent(Cardinality(With(w, S, s)), Cardinality(S))
LivePlans(w)      == w.linked \ w.archived
PlanRows(w, pl)   == [rows   |-> Keep(w.tasks, TasksOf(w, {pl})),
                      type   |-> [n \in Node |-> "task"],
                      status |-> w.status, deps |-> w.deps]

-----------------------------------------------------------------------------
(* getDashboardData: the plans are the live ones, the tasks and the last log   *)
(* those of all linked plans.                                                  *)
DashboardRow(w) ==
  LET T == TasksOf(w, w.linked)
  IN  [plan_ids    |-> LivePlans(w),
       plan_count  |-> Cardinality(LivePlans(w)),
       tasks       |-> T,
       plan_ready  |-> With(w, T, "plan_ready"),
       requested   |-> T \cap w.asked,
       touched     |-> w.touched \cap w.linked # {}]

(* classifyGoalHealth *)
ClassifyHealth(h) ==
  IF ~h.planned \/ h.total = 0 \/ ~h.touched THEN "stale"
  ELSE IF \/ h.bottlenecks > 0 \/ h.blocked > 30 \/ h.overdue > 0
          \/ /\ h.attained # Nil /\ h.attained < 100
             /\ h.executed >= 50 /\ h.executed - h.attained >= OutcomeLag
       THEN "at_risk" ELSE "on_track"

(* the plans in the order of their ids, the first ones only *)
FirstPlans(P) == SubSeq(SetToSeq(P), 1, Min({PlansSeen, Cardinality(P)}))

(* The three worst bottlenecks of those; their order settles ties.             *)
WorstBottlenecks(w, P) ==
  LET plans  == FirstPlans(P)
      all    == FlattenSeq([i \in DOMAIN plans |-> Bottlenecks(PlanRows(w, plans[i]), 3)])
      sorted == Ranked(all, [b \in ToSet(all) |-> b.downstream])
  IN  SubSeq(sorted, 1, Min({3, Len(sorted)}))

(* rollupFromRow *)
Rollup(w) ==
  LET row == DashboardRow(w)
      late == Cardinality(row.plan_ready \cap w.due) + Cardinality(row.requested \cap w.due)
      executed == Share(w, row.tasks, "completed")
      blocked  == Share(w, row.tasks, "blocked")
  IN  [health |-> ClassifyHealth(
         [planned |-> row.plan_count > 0, total |-> Cardinality(row.tasks),
          touched |-> row.touched, blocked |-> blocked, overdue |-> late,
          bottlenecks |-> Len(WorstBottlenecks(w, row.plan_ids)),
          attained |-> w.attained, executed |-> executed]),
       execution_pct |-> executed, percent_blocked |-> blocked,
       total_nodes |-> Cardinality(row.tasks), linked_plan_count |-> row.plan_count,
       attainment_pct |-> w.attained,
       pending |-> Cardinality(row.plan_ready) + Cardinality(row.requested)]

(* goalDashboard: the same row, put together once more *)
MissionGoal(w) ==
  LET row == DashboardRow(w)
      worst    == WorstBottlenecks(w, row.plan_ids)
      executed == Share(w, row.tasks, "completed")
      blocked  == Share(w, row.tasks, "blocked")
  IN  [health |-> ClassifyHealth(
         [planned |-> row.plan_ids # {}, total |-> Cardinality(row.tasks),
          touched |-> row.touched, blocked |-> blocked,
          overdue |-> Cardinality(row.plan_ready \cap w.due)
                        + Cardinality(row.requested \cap w.due),
          bottlenecks |-> Len(worst), attained |-> w.attained, executed |-> executed]),
       execution_pct |-> executed, percent_blocked |-> blocked,
       linked_plan_count |-> IF row.plan_count # 0 THEN row.plan_count
                             ELSE Cardinality(row.plan_ids),
       plan_ids |-> row.plan_ids, worst |-> worst,
       pending |-> Cardinality(row.plan_ready) + Cardinality(row.requested)]

(* getBriefing: the goal is listed under its live plans only, and recommended   *)
(* is the worst bottleneck of a goal that is not on track.                     *)
Briefing(w, pl) ==
  LET m == MissionGoal(w)
  IN  [listed |-> pl = Nil \/ pl \in m.plan_ids,
       recommended |-> IF m.health # "on_track" /\ m.worst # <<>>
                       THEN Head(m.worst).node ELSE Nil]

-----------------------------------------------------------------------------
(* getGoalState: the path without the tasks of plans the viewer may not open *)
VisiblePath(w) ==
  {r \in GoalPath(w, w.achieves) : w.plan[r.node] \notin w.hidden}

VisiblePlans(w) == LivePlans(w) \ w.hidden

(* Mutant: the fallback counts the direct achievers instead. *)
Progress_Direct(w) ==
  Share(w, {r.node : r \in {q \in VisiblePath(w) : q.depth = 1}}, "completed")

(* getGoalProgress: that of the path; if it is empty, that of the plans        *)
Progress(w) ==
  LET path == {r.node : r \in VisiblePath(w)}
  IN  IF path # {} THEN Share(w, path, "completed")
      ELSE IF VisiblePlans(w) # {} THEN Share(w, TasksOf(w, VisiblePlans(w)), "completed")
      ELSE 0

(* getGoalState *)
GoalState(w) ==
  LET path == {r.node : r \in VisiblePath(w)}
      done == With(w, path, "completed")
      blocked == With(w, path, "blocked")
      begun == With(w, path, "in_progress")
  IN  [health |-> Rollup(w).health,
       linked_plans |-> VisiblePlans(w),
       hidden_count |-> Cardinality(LivePlans(w)) - Cardinality(VisiblePlans(w)),
       progress |-> Progress(w),
       tasks |-> path, completed |-> done, blocked |-> blocked, in_progress |-> begun,
       not_started |-> path \ (done \cup blocked \cup begun),
       bottlenecks |-> path \ done,
       rollup |-> Rollup(w)]

(* assessGoalQuality: actionability, in percent *)
Actionability(w) == Min({100, 50 * Cardinality(LivePlans(w))})

-----------------------------------------------------------------------------
(* The pending decisions as the briefing and the coherence read them (at most   *)
(* 20 and 100 rows of a kind): nodes of every type, each once.                 *)
PendingNodes(w) ==
  LET N == NodesOf(w, w.linked) IN With(w, N, "plan_ready") \cup (N \cap w.asked)

(* GET /:goalId/briefing: over all linked plans, the archived ones included *)
RouteBriefing(w) ==
  LET T == TasksOf(w, w.linked)
  IN  [health |-> Rollup(w).health,
       completion_pct |-> Share(w, T, "completed"),
       pending |-> PendingNodes(w),
       chains |-> BriefedChains([rows   |-> Keep(w.tasks, T),
                                 type   |-> [n \in Node |-> "task"],
                                 status |-> w.status, deps |-> w.deps]),
       plan_pct |-> [pl \in w.linked |-> Share(w, TasksOf(w, {pl}), "completed")]]

(* GET /:id/portfolio: the progress of each linked plan *)
PortfolioPct(w) == [pl \in w.linked |-> Share(w, TasksOf(w, {pl}), "completed")]

(* GET /:id/coherence, in thousandths, with a number of contradictions from    *)
(* the knowledge graph                                                         *)
Coherence(w, contradictions) ==
  LET T == TasksOf(w, w.linked)
      ratio == IF T = {} THEN 0
               ELSE (600 * Cardinality(With(w, T, "blocked"))) \div Cardinality(T)
  IN  IF w.linked = {} THEN 1000
      ELSE Max({0, 1000 - Min({300, 100 * Cardinality(PendingNodes(w))}) - Min({400, ratio})
                        - Min({300, 30 * contradictions})})
=============================================================================
