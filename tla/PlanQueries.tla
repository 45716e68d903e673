---------------------------- MODULE PlanQueries ----------------------------
(***************************************************************************)
(* What agents are told to do next, and what depends on what: the queries   *)
(* of contextEngine.js, agentLoop.service.js, reasoning.js and              *)
(* dependencies.dal.mjs.  Pure operators over the rows of one plan:         *)
(*   p.rows     the plan's nodes as listByPlan returns them                 *)
(*   p.parent   parent_id (Nil: none; it may name a node that is gone)      *)
(*   p.type, p.status                                                       *)
(*   p.deps     node_dependencies: [source, target, type, weight]           *)
(*   p.claimed  the nodes with an active claim                              *)
(* Nodes of other plans have a status and edges but are not in p.rows.      *)
(***************************************************************************)
EXTENDS Integers, Sequences, FiniteSets, SequencesExt, Reachability

CONSTANTS
  Nil,
  MaxDepth   \* how deep getImpact looks (20 in the code)

ASSUME PQAssumption == Nil \notin Node /\ MaxDepth \in Nat \ {0}

Blocking  == {"blocks", "requires"}
TaskTypes == {"task", "milestone"}

Work(p)    == {n \in ToSet(p.rows) : p.type[n] \in TaskTypes}
Open(p, N) == {n \in N : p.status[n] # "completed"}

(* dependenciesDal.listByPlan: the edges whose source is in the plan *)
PlanDeps(p) == {d \in p.deps : d.source \in ToSet(p.rows)}

(* what of the sequence s is in T *)
Keep(s, T) == FlattenSeq([i \in DOMAIN s |-> IF s[i] \in T THEN <<s[i]>> ELSE <<>>])

(* s with the elements of which f is largest first; ties stay as they were *)
Ranked(s, f) ==
  LET upTo(i) == {j \in DOMAIN s : f[s[j]] > f[s[i]] \/ (f[s[j]] = f[s[i]] /\ j <= i)}
  IN  [k \in DOMAIN s |-> s[CHOOSE i \in DOMAIN s : Cardinality(upTo(i)) = k]]

-----------------------------------------------------------------------------
(* Mutant: order_index is compared across parents. *)
DocumentOrder_Flat(p) == p.rows

(* buildDocumentOrder: depth first; what is not below a root comes last. *)
DocumentOrder(p) ==
  LET visit[k \in Node \cup {Nil}] ==
        FlattenSeq([i \in DOMAIN p.rows |->
          IF p.parent[p.rows[i]] = k THEN <<p.rows[i]>> \o visit[p.rows[i]] ELSE <<>>])
  IN  visit[Nil] \o Keep(p.rows, ToSet(p.rows) \ ToSet(visit[Nil]))

-----------------------------------------------------------------------------
IsReady(p, n) ==
  \A d \in PlanDeps(p) :
    d.type \in Blocking /\ d.target = n => p.status[d.source] = "completed"

(* Mutant: plan_ready tasks wait for ever. *)
NextTasks_NotStartedOnly(p) ==
  Keep(DocumentOrder(p), {n \in Work(p) \ p.claimed :
    p.status[n] = "not_started" /\ IsReady(p, n)})

(* suggestNextTasks: the ready, unclaimed tasks in document order.  (The    *)
(* other keys of its sort never decide, ranks being unique.)                *)
NextTasks(p) ==
  Keep(DocumentOrder(p), {n \in Work(p) \ p.claimed :
    p.status[n] \in {"not_started", "plan_ready"} /\ IsReady(p, n)})

(* chooseTask: resume, else the first suggestion, else an error that says   *)
(* whether any task is left.                                                *)
ChooseTask(p, fresh) ==
  LET started == Keep(DocumentOrder(p), {n \in Work(p) :
                   p.type[n] = "task" /\ p.status[n] = "in_progress"})
      next    == NextTasks(p)
      waiting == {n \in ToSet(p.rows) : p.type[n] = "task" /\ p.status[n] = "not_started"}
  IN  CASE ~fresh /\ started # <<>> -> [node |-> Head(started), why |-> "resume_in_progress"]
        [] (fresh \/ started = <<>>) /\ next # <<>> ->
             [node |-> Head(next), why |-> "suggest_next_tasks"]
        [] (fresh \/ started = <<>>) /\ next = <<>> ->
             [node |-> Nil, why |-> IF waiting # {} THEN "blocked_on_dep" ELSE "no_work_in_scope"]

-----------------------------------------------------------------------------
(* Mutant: completed tasks still count as blockers. *)
ScheduleDeps_All(p) ==
  {d \in PlanDeps(p) : /\ d.type \in Blocking
                       /\ d.source \in Work(p)
                       /\ d.target \in Open(p, Work(p))}

ScheduleDeps(p) ==
  {d \in PlanDeps(p) : /\ d.type \in Blocking
                       /\ d.source \in Open(p, Work(p))
                       /\ d.target \in Open(p, Work(p))}

(* topologicalSort: Kahn's algorithm, the queue of each round being a layer. *)
Layers(p) ==
  LET T == Open(p, Work(p))
      into(S, t) == Cardinality({d \in ScheduleDeps(p) : d.source \in S /\ d.target = t})
      round[k \in Nat] ==
        IF k = 0
        THEN LET deg == [t \in T |-> into(Node, t)]
             IN  [queue |-> {t \in T : deg[t] = 0}, degree |-> deg]
        ELSE LET r   == round[k - 1]
                 deg == [t \in T |-> r.degree[t] - into(r.queue, t)]
             IN  [queue |-> {t \in T : deg[t] = 0 /\ r.degree[t] # 0}, degree |-> deg]
  IN  [k \in 0 .. Cardinality(T) |-> round[k].queue]

-----------------------------------------------------------------------------
Pairs(D) == {<<d.source, d.target>> : d \in D}

(* The recursive queries grow paths that enter no node twice. *)
Trails(E, a) ==
  LET grow[k \in Nat \ {0}] ==
        IF k = 1 THEN {<<a, e[2]>> : e \in {f \in E : f[1] = a}}
        ELSE UNION {{Append(t, e[2]) :
               e \in {f \in E : f[1] = Last(t) /\ f[2] \notin ToSet(t)}} : t \in grow[k - 1]}
  IN  UNION {grow[k] : k \in 1 .. Cardinality(Node)}

(* wouldCreateCycle(source, target, types) *)
WouldCreateCycle(p, source, target, types) ==
  \E t \in Trails(Pairs({d \in p.deps : d.type \in types}), target) : Last(t) = source

(* Mutant: the walk stops at completed nodes. *)
Impact_OpenOnly(p, n, scenario) ==
  LET types  == IF scenario = "remove" THEN Blocking \cup {"relates_to"} ELSE Blocking
      trails == {t \in Trails(Pairs({d \in p.deps : d.type \in types
                                                   /\ p.status[d.target] # "completed"}), n) :
                   Len(t) - 1 <= MaxDepth}
      depths(m) == {Len(t) - 1 : t \in {u \in trails : Last(u) = m}}
  IN  {[node |-> m, depth |-> Min(depths(m))] :
         m \in {Last(t) : t \in trails}}

(* getImpact: the open nodes downstream, each with its least depth. *)
Impact(p, n, scenario) ==
  LET types  == IF scenario = "remove" THEN Blocking \cup {"relates_to"} ELSE Blocking
      trails == {t \in Trails(Pairs({d \in p.deps : d.type \in types}), n) :
                   Len(t) - 1 <= MaxDepth}
      depths(m) == {Len(t) - 1 : t \in {u \in trails : Last(u) = m}}
  IN  {[node |-> m, depth |-> Min(depths(m))] :
         m \in Open(p, {Last(t) : t \in trails})}

-----------------------------------------------------------------------------
(* getUpstream, getDownstream: the walk keeps no path and goes on for max      *)
(* edges, along the edges E; a node comes once for each length.               *)
Walks(E, n, max) ==
  LET level[k \in 1 .. max] ==
        {e[2] : e \in {f \in E : IF k = 1 THEN f[1] = n ELSE f[1] \in level[k - 1]}}
  IN  UNION {{[node |-> m, depth |-> k] : m \in level[k]} : k \in 1 .. max}

Against(E) == {<<e[2], e[1]>> : e \in E}

Downstream(p, n, types, max) == Walks(Pairs({d \in p.deps : d.type \in types}), n, max)
Upstream(p, n, types, max)   == Walks(Against(Pairs({d \in p.deps : d.type \in types})), n, max)

(* getGoalPath: the achievers of a goal and what blocks them, each node with   *)
(* its least depth                                                            *)
GoalPath(p, achievers) ==
  LET back == Against(Pairs({d \in p.deps : d.type \in Blocking}))
      trails == {<<a>> : a \in achievers} \cup
                {t \in UNION {Trails(back, a) : a \in achievers} : Len(t) <= MaxDepth}
      depths(m) == {Len(t) : t \in {u \in trails : Last(u) = m}}
  IN  {[node |-> m, depth |-> Min(depths(m))] :
         m \in {Last(t) : t \in trails}}

-----------------------------------------------------------------------------
(* detectBottlenecks: the open tasks with blocking edges, those with most      *)
(* edges first, at most limit                                                 *)
Bottlenecks(p, limit) ==
  LET fan == [n \in ToSet(p.rows) |->
               Cardinality({d \in PlanDeps(p) : d.type \in Blocking /\ d.source = n})]
      some   == Keep(p.rows, {n \in Open(p, Work(p)) : fan[n] > 0})
      sorted == Ranked(some, fan)
  IN  [i \in 1 .. Min({limit, Len(some)}) |->
         [node |-> sorted[i], downstream |-> fan[sorted[i]]]]

(* computeCriticalPath (goals.routes.js): Kahn's algorithm over the open tasks *)
(* of p, with the length of the longest chain that ends in each; what is on or *)
(* behind a cycle leaves no queue, and counts from its settled blockers only.  *)
(* Which of several chains comes out is a matter of the order of the rows.     *)
BriefedChains(p) ==
  LET T == Open(p, Work(p))
      D == {d \in PlanDeps(p) : d.type = "blocks" /\ d.source \in T /\ d.target \in T}
      into(n)  == {d.source : d \in {e \in D : e.target = n}}
      done[k \in Nat] == IF k = 0 THEN {} ELSE {n \in T : into(n) \subseteq done[k - 1]}
      settled  == done[Cardinality(T)]
      dist[n \in T] == 1 + Max({0} \cup {dist[s] : s \in into(n) \cap settled})
      ending[n \in T] ==
        IF dist[n] = 1 THEN {<<n>>}
        ELSE UNION {{Append(c, n) : c \in ending[s]} :
                      s \in {m \in into(n) \cap settled : dist[m] + 1 = dist[n]}}
      longest  == {n \in T : \A m \in T : dist[m] <= dist[n]}
  IN  IF \A n \in T : dist[n] = 1 THEN {<<>>} ELSE UNION {ending[n] : n \in longest}

-----------------------------------------------------------------------------
(* Mutant: edges that leave completed nodes count. *)
ChainDeps_All(p) == {d \in PlanDeps(p) : d.type = "blocks"}

ChainDeps(p) == {d \in PlanDeps(p) : d.type = "blocks" /\ p.status[d.source] # "completed"}

(* getCriticalPath: chains from the nodes that nothing blocks; the first    *)
(* edge of a chain is counted twice once the chain goes on.                 *)
Chains(p) ==
  LET D == ChainDeps(p)
      roots == {n \in Open(p, ToSet(p.rows)) :
                  /\ p.type[n] # "root"
                  /\ \A d \in D : d.target # n
                  /\ \E d \in D : d.source = n}
      grow[k \in Nat] ==
        IF k = 0 THEN UNION {{[path |-> <<r>>, weight |-> d.weight] :
                                d \in {e \in D : e.source = r}} : r \in roots}
        ELSE UNION {{[path |-> Append(c.path, d.target), weight |-> c.weight + d.weight] :
               d \in {e \in D : e.source = Last(c.path) /\ e.target \notin ToSet(c.path)}} :
               c \in grow[k - 1]}
  IN  UNION {grow[k] : k \in 0 .. Cardinality(Node)}

(* ORDER BY total_weight DESC, chain_length DESC LIMIT 1: any of these *)
CriticalPaths(p) ==
  LET chains == Chains(p)
  IN  {c \in chains : \A o \in chains :
         c.weight > o.weight \/ (c.weight = o.weight /\ Len(c.path) >= Len(o.path))}
=============================================================================
