--------------------------- MODULE MCPlanQueries ---------------------------
(***************************************************************************)
(* What is computed from the rows of a plan.  Three views: the queries of     *)
(* PlanQueries on a plan of three tasks while statuses, dependencies and      *)
(* claims change in any order; the rollup of every plan of Size nodes; and    *)
(* the reports on a goal.                                                     *)
(***************************************************************************)
EXTENDS MCGoalReports, MCPlanRollup

CONSTANTS
  g       \* the root of a plan with the phase ph and the tasks t1, t2, t3; x is
          \* in another plan

CONSTANTS
  Extra,       \* further edges that may be created
  MaxDeps      \* bound: number of edges, a claim counting as one

(* Six nodes; the edges weigh the same, and none leaves the root.            *)
ASSUME QueriesAssumption ==
  /\ Node = {g, ph, t1, t2, t3, x}
  /\ x \notin {g, ph, t1, t2, t3} /\ g \notin {ph, t1, t2, t3} /\ ph \notin {t1, t2, t3}
  /\ t1 # t2 /\ t1 # t3 /\ t2 # t3
  /\ Extra \subseteq [source : Node \ {g}, target : Node,
                      type : {"blocks", "requires", "relates_to"}, weight : {1}]

VARIABLES
  view,  \* what is computed: "queries", "rollup" or "goal"
  plan   \* the plan that the queries are about

Type   == [n \in Node |-> IF n = g THEN "root" ELSE IF n = ph THEN "phase"
                          ELSE IF n = t3 THEN "milestone" ELSE "task"]
InPlan == Node \ {x}

(* Trees and the order of the rows: a phase with tasks, a sub-task, and a    *)
(* task whose parent was deleted.                                            *)
Trees == {
  [rows   |-> <<g, t3, t2, ph, t1>>,
   parent |-> [n \in Node |-> CASE n = g -> Nil [] n \in {ph, t3} -> g
                                [] n \in {t1, t2} -> ph [] n = x -> Nil]],
  [rows   |-> <<t3, g, t1, ph, t2>>,
   parent |-> [n \in Node |-> CASE n = g -> Nil [] n \in {ph, t2} -> g
                                [] n = t3 -> ph [] n = t1 -> t2 [] n = x -> Nil]],
  [rows   |-> <<t1, g, ph, t2, t3>>,
   parent |-> [n \in Node |-> CASE n = g -> Nil [] n = ph -> g [] n = t1 -> x
                                [] n \in {t2, t3} -> ph [] n = x -> Nil]]}

Dep(s, t, k) == [source |-> s, target |-> t, type |-> k, weight |-> 1]

Tasks == {t1, t2, t3}
Deps  == {Dep(s, t, "blocks") : s \in Tasks, t \in Tasks} \cup Extra

MoreDeps == {Dep(t1, t2, "requires"), Dep(t2, t3, "relates_to"), Dep(ph, t3, "blocks"),
             Dep(t3, x, "blocks"), Dep(x, t1, "blocks")}

PlanInit ==
  \E t \in Trees :
    plan = [rows |-> t.rows, parent |-> t.parent, type |-> Type,
            status |-> [n \in Node |-> "not_started"], deps |-> {}, claimed |-> {}]

StatusesOf(n) == CASE n = t1 -> {"not_started", "in_progress", "blocked", "completed"}
                 [] n = t2 -> {"not_started", "plan_ready", "completed"}
                 [] n = t3 -> {"not_started", "in_progress", "completed"}

UpdateStatus ==
  \E n \in Tasks : \E s \in StatusesOf(n) : plan' = [plan EXCEPT !.status[n] = s]

(* The table refuses self-references and doubles. *)
CreateDependency ==
  \E d \in Deps \ plan.deps :
    /\ d.source # d.target /\ Cardinality(plan.deps) + Cardinality(plan.claimed) < MaxDeps
    /\ plan' = [plan EXCEPT !.deps = @ \cup {d}]

DeleteDependency == \E d \in plan.deps : plan' = [plan EXCEPT !.deps = @ \ {d}]

ClaimOrRelease ==
  \E c \in SUBSET {t1} : /\ Cardinality(plan.deps) + Cardinality(c) <= MaxDeps
                         /\ plan' = [plan EXCEPT !.claimed = c]

PlanNext == UpdateStatus \/ CreateDependency \/ DeleteDependency \/ ClaimOrRelease

(* The rows that a view is not about are fixed. *)
Init ==
  /\ view \in {"queries", "rollup", "goal"}
  /\ IF view = "queries" THEN PlanInit ELSE plan = Nil
  /\ IF view = "goal" THEN WorldInit ELSE world = Nil
  /\ RollupInit
  /\ view # "rollup" => \A n \in Nodes \ {1} : type[n] = "phase" /\ parent[n] = 1

Next ==
  /\ UNCHANGED view
  /\ IF view = "queries" THEN PlanNext ELSE UNCHANGED plan
  /\ IF view = "goal" THEN WorldNext ELSE UNCHANGED world
  /\ IF view = "rollup" THEN RollupNext ELSE UNCHANGED rollupVars

vars == <<view, plan, world, rollupVars>>
Spec == Init /\ [][Next]_vars

-----------------------------------------------------------------------------
ParentEdges == {<<plan.parent[n], n>> : n \in {m \in InPlan : plan.parent[m] \in InPlan}}

(* the nodes at or below n *)
Subtree(n) == {m \in InPlan : Reach(ParentEdges, n, m)}

(* The document order lists every node of the plan once, a node before what *)
(* is below it, and of two siblings the whole subtree of the earlier first;  *)
(* no task of a broken tree is lost.                                         *)
DepthFirst ==
  plan # Nil =>
    LET order   == DocumentOrder(plan)
        rank    == [n \in InPlan |-> CHOOSE i \in DOMAIN order : order[i] = n]
        subtree == [n \in InPlan |-> Subtree(n)]
    IN  /\ ToSet(order) = InPlan
        /\ Len(order) = Cardinality(InPlan)
        /\ \A n \in InPlan : \A m \in subtree[n] \ {n} : rank[n] < rank[m]
        /\ \A i, j \in DOMAIN plan.rows :
             LET n == plan.rows[i]
                 m == plan.rows[j]
             IN  i < j /\ plan.parent[n] = plan.parent[m] =>
                   \A a \in subtree[n], b \in subtree[m] : rank[a] < rank[b]

OpenWork == Open(plan, Work(plan))

(* what blocks what among the open tasks of the plan *)
BlocksIn == {e \in Pairs({d \in plan.deps : d.type # "relates_to"}) :
               e[1] \in OpenWork /\ e[2] \in OpenWork}

(* The schedule lists a task exactly once, one layer after the last of its   *)
(* open blockers, and leaves out exactly the tasks on or behind a cycle.     *)
LayersExact ==
  LET layers == Layers(plan)
      E      == BlocksIn
      listed == UNION {layers[k] : k \in DOMAIN layers}
      layer  == [t \in listed |-> CHOOSE k \in DOMAIN layers : t \in layers[k]]
      cyclic == {e \in E : Reach(E, e[2], e[1])}
  IN  /\ listed = {t \in OpenWork : \A e \in cyclic : ~Reach(E, e[1], t)}
      /\ \A k, l \in DOMAIN layers : k # l => layers[k] \cap layers[l] = {}
      /\ \A t \in listed :
           LET before == {e[1] : e \in {f \in E : f[2] = t}}
           IN  /\ \A b \in before : layer[b] < layer[t]
               /\ layer[t] > 0 => \E b \in before : layer[b] = layer[t] - 1

(* Suggestions, which compute readiness in another way, agree with it: what  *)
(* is suggested is what the schedule has in its first layer, is not begun and *)
(* is not claimed.  (A phase that blocks a task counts for suggestions only.) *)
SuggestionsAgree ==
  (\A d \in plan.deps : d.source # ph) =>
    ToSet(NextTasks(plan)) =
      {t \in Layers(plan)[0] \ plan.claimed : plan.status[t] \in {"not_started", "plan_ready"}}

(* The schedule is what it says, and suggestions agree with it.              *)
ScheduleLayered == plan # Nil => LayersExact /\ SuggestionsAgree

(* what can be resumed, and what no suggestion names whatever it waits for:  *)
(* work that is blocked, begun or set aside, and work somebody has claimed   *)
Started == {n \in OpenWork : plan.type[n] = "task" /\ plan.status[n] = "in_progress"}
Idle    == {n \in OpenWork : \/ plan.status[n] \notin {"not_started", "plan_ready"}
                             \/ n \in plan.claimed}

(* Who is sent away: if the dependencies have no cycle and only tasks block  *)
(* tasks, chooseTask finds nothing exactly if there is nothing to resume (or *)
(* that is not asked for) and all open work is idle itself or waits, over    *)
(* any number of edges, for work that is.  In particular an agent is not     *)
(* sent away while work is left of which nothing is idle.                    *)
WorkToOffer ==
  plan # Nil /\ Acyclic(BlocksIn) /\ (\A d \in plan.deps : d.source # ph) =>
    \A fresh \in BOOLEAN :
      ChooseTask(plan, fresh).node = Nil <=>
        /\ fresh \/ Started = {}
        /\ \A t \in OpenWork : \E u \in Idle : Reach(BlocksIn, u, t)

(* The recursive query behind the cycle check finds a path exactly if there  *)
(* is one, although it enters no node twice.                                 *)
CycleCheckExact ==
  LET E == Pairs({d \in plan.deps : d.type = "blocks"})
  IN  \A s \in Node \ {g} : \A t \in Node \ {g, s} :
        WouldCreateCycle(plan, s, t, {"blocks"}) <=> Reach(E, t, s)

(* the nodes that at most k edges of E lead to from n *)
Within(E, n, k) ==
  LET near[i \in 0 .. k] == IF i = 0 THEN {n}
                            ELSE near[i - 1] \cup {e[2] : e \in {f \in E : f[1] \in near[i - 1]}}
  IN  near[k]

(* Impact lists the open nodes that a walk of at most MaxDepth edges reaches *)
(* (through completed ones too), with the length of the shortest walk,       *)
(* although the query only follows paths without repetition.                 *)
ImpactExact ==
  \A n \in Node \ {g}, scenario \in {"block", "remove"} :
    LET E    == Pairs({d \in plan.deps : d.type # "relates_to" \/ scenario = "remove"})
        near == [k \in 0 .. MaxDepth |-> Within(E, n, k)]
    IN  Impact(plan, n, scenario) =
          UNION {{[node |-> m, depth |-> k] : m \in Open(plan, near[k] \ near[k - 1])} :
                   k \in 1 .. MaxDepth}

(* The path to a goal holds its achievers and whatever blocks them, directly *)
(* or not and in other plans too, each with its least depth; and it is what  *)
(* getUpstream finds from the achievers, which keeps no path and counts every *)
(* length.                                                                   *)
GoalPathExact ==
  \A achievers \in {{t1}, {t2, t3}} :
    LET E    == Against(Pairs({d \in plan.deps : d.type \in Blocking}))
        near == [k \in 0 .. MaxDepth |->
                   IF k = 0 THEN {} ELSE UNION {Within(E, a, k - 1) : a \in achievers}]
        path == GoalPath(plan, achievers)
    IN  /\ path = UNION {{[node |-> m, depth |-> k] : m \in near[k] \ near[k - 1]} :
                            k \in 1 .. MaxDepth}
        /\ {r.node : r \in path} = achievers \cup
             UNION {{u.node : u \in Upstream(plan, a, Blocking, MaxDepth - 1)} : a \in achievers}

(* What the impact of a blocked node lists is what is open downstream of it. *)
ImpactIsDownstream ==
  \A n \in Node \ {g} :
    {r.node : r \in Impact(plan, n, "block")} =
      Open(plan, {r.node : r \in Downstream(plan, n, Blocking, MaxDepth)} \ {n})

(* The recursive queries neither miss nor invent a node, although they cut   *)
(* their paths where these meet themselves and at a depth, and they agree    *)
(* with those that keep no path.                                             *)
WalksExact ==
  plan # Nil => CycleCheckExact /\ ImpactExact /\ GoalPathExact /\ ImpactIsDownstream

(* all chains of edges of E *)
AllChains(E) == {<<n>> : n \in {e[1] : e \in E}} \cup UNION {Trails(E, e[1]) : e \in E}

(* With equal weights and without cycles the critical path is a longest      *)
(* chain of blocking edges that leave open nodes of the plan, even though    *)
(* the search only starts at nodes that nothing open blocks.                 *)
CriticalLongest ==
    LET E == {<<d.source, d.target>> :
                d \in {f \in plan.deps : /\ f.type = "blocks"
                                         /\ f.source \in Open(plan, InPlan)}}
        paths  == CriticalPaths(plan)
        chains == AllChains(E)
    IN  Acyclic(E) =>
          /\ E # {} <=> paths # {}
          /\ \A c \in paths : c.path \in chains /\ \A o \in chains : Len(o) <= Len(c.path)

(* The critical path of a goal's briefing, found by counting edges down, is a *)
(* chain of open tasks without repetition whatever cycles there are; without  *)
(* cycles it is a longest one.                                               *)
BriefedChainTrue ==
  LET T == OpenWork
      E == {<<d.source, d.target>> :
              d \in {f \in plan.deps : f.type = "blocks" /\ f.source \in T /\ f.target \in T}}
  IN  \A c \in BriefedChains(plan) :
        /\ IsInjective(c)
        /\ \A i \in 1 .. Len(c) - 1 : <<c[i], c[i + 1]>> \in E
        /\ Acyclic(E) => /\ E # {} => c # <<>>
                         /\ \A o \in AllChains(E) : Len(o) <= Len(c)

(* Both answers to what holds the work up are right: a plan's and a goal's.  *)
CriticalExact == plan # Nil => CriticalLongest /\ BriefedChainTrue
=============================================================================
