----------------------------- MODULE PlanRollup -----------------------------
(***************************************************************************)
(* planRollup.service.js: the one place where a plan's derived numbers are  *)
(* computed.  Pure operators; StatusPropagation uses them, and the MC       *)
(* module compares them with what the service's comments promise.          *)
(***************************************************************************)
EXTENDS Integers, FiniteSets

WorkTypes      == {"task", "milestone"}
ContainerTypes == {"phase", "root"}

(* Math.round(k / total * 100): halves go up. *)
Percent(k, total) == IF total > 0 THEN (200 * k + total) \div (2 * total) ELSE 0

(* The work nodes of a plan: root and phases are structure. *)
WorkNodes(nodes, type) == {n \in nodes : type[n] \in WorkTypes}

Completed(nodes, type, status) ==
  {n \in WorkNodes(nodes, type) : status[n] = "completed"}

ProgressPct(nodes, type, status) ==
  Percent(Cardinality(Completed(nodes, type, status)),
          Cardinality(WorkNodes(nodes, type)))

CountedStatuses == {"not_started", "in_progress", "completed", "blocked", "plan_ready"}

(* rollupFromNodes: a status it does not know counts as not_started. *)
StatusCounts(nodes, type, status) ==
  [s \in CountedStatuses |->
     Cardinality({n \in WorkNodes(nodes, type) :
       status[n] = s \/ (s = "not_started" /\ status[n] \notin CountedStatuses)})]

(* workNodeStatusCountsByPlanIds: one filtered count per status *)
ListedCounts(nodes, type, status) ==
  [s \in CountedStatuses |->
     Cardinality({n \in WorkNodes(nodes, type) : status[n] = s})]

(* computePlanRollups: the progress shown in the index of plans *)
ListedProgressPct(nodes, type, status) ==
  Percent(ListedCounts(nodes, type, status)["completed"],
          Cardinality(WorkNodes(nodes, type)))

(* Mutant: only direct children are looked at. *)
Summary_Shallow(nodes, type, parent, status) ==
  LET work(n) == {c \in nodes : parent[c] = n /\ type[c] \in WorkTypes}
  IN  [n \in nodes |->
         [hasWork |-> work(n) # {},
          allDone |-> \A c \in work(n) : status[c] = "completed"]]

(* summarize: containers are descended into, work nodes are leaves. *)
Summary(nodes, type, parent, status) ==
  LET kids(n, T) == {c \in nodes : parent[c] = n /\ type[c] \in T}
      summarize[n \in nodes] ==
        LET inner == {c \in kids(n, ContainerTypes) : summarize[c].hasWork}
        IN  [hasWork |-> kids(n, WorkTypes) # {} \/ inner # {},
             allDone |-> /\ \A c \in kids(n, WorkTypes) : status[c] = "completed"
                         /\ \A c \in inner : summarize[c].allDone]
  IN  summarize

(* effectiveContainerStatus: the containers shown as completed *)
DoneContainers(nodes, type, parent, status) ==
  LET s == Summary(nodes, type, parent, status)
  IN  {n \in nodes : type[n] \in ContainerTypes /\ s[n].hasWork /\ s[n].allDone}

(* Mutant: progress over all nodes, root and phases included. *)
IsComplete_AllNodes(nodes, type, status) ==
  nodes # {} /\ \A n \in nodes : status[n] = "completed"

(* maintainPlanStatus: rollup.total_work > 0 && rollup.progress_pct === 100 *)
IsComplete(nodes, type, status) ==
  WorkNodes(nodes, type) # {} /\ ProgressPct(nodes, type, status) = 100
=============================================================================
