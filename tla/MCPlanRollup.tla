---------------------------- MODULE MCPlanRollup ----------------------------
(***************************************************************************)
(* The rollup of planRollup.service.js over every small plan: the nodes     *)
(* 1 .. Size, 1 being the root, a parent created before its children, and   *)
(* work done in any order.                                                  *)
(***************************************************************************)
EXTENDS PlanRollup

CONSTANTS
  Size,       \* nodes of the plan
  Inner,      \* the types of the nodes that may have children
  Statuses    \* the statuses nodes take

ASSUME RollupAssumption == Size \in Nat \ {0}

VARIABLES
  parent, type, status

rollupVars == <<parent, type, status>>
Nodes == 1 .. Size

(* createNode takes any node of the plan as the parent. *)
RollupInit ==
  /\ type \in [Nodes -> WorkTypes \cup ContainerTypes]
  /\ \A n \in Nodes : type[n] = "root" <=> n = 1
  /\ parent \in [Nodes -> 0 .. Size]
  /\ \A n \in Nodes : IF n = 1 THEN parent[n] = 0
                      ELSE parent[n] \in 1 .. n - 1 /\ type[parent[n]] \in Inner
  /\ status = [n \in Nodes |-> "not_started"]

RollupNext ==
  /\ \E n \in Nodes, s \in Statuses : status' = [status EXCEPT ![n] = s]
  /\ UNCHANGED <<parent, type>>

-----------------------------------------------------------------------------
(* the nodes strictly below n *)
Below(n) ==
  {m \in Nodes \ {n} : \A S \in SUBSET Nodes :
     n \in S /\ (\A c \in Nodes : parent[c] \in S => c \in S) => m \in S}

WorkBelow(n) == WorkNodes(Below(n), type)

(* A container is shown as completed exactly if it has a work descendant and *)
(* all its work descendants are completed.                                   *)
ContainersTruthful ==
  DoneContainers(Nodes, type, parent, status) =
    {n \in Nodes : /\ type[n] \in ContainerTypes
                   /\ WorkBelow(n) # {}
                   /\ \A m \in WorkBelow(n) : status[m] = "completed"}

(* One plan, one answer: the root is shown as completed on the tree exactly  *)
(* when the plan's progress reads 100%.                                      *)
RootMatchesProgress ==
  1 \in DoneContainers(Nodes, type, parent, status)
    <=> ProgressPct(Nodes, type, status) = 100

(* The list of plans and the plan's own page show the same progress and the *)
(* same counts, although one counts in SQL and the other in memory.          *)
(* (not_started is left out: a node in a status that neither counts is       *)
(* not_started for the page and nothing for the list, see the findings.)     *)
ListMatchesDetail ==
  /\ ListedProgressPct(Nodes, type, status) = ProgressPct(Nodes, type, status)
  /\ \A s \in CountedStatuses \ {"not_started"} :
       ListedCounts(Nodes, type, status)[s] = StatusCounts(Nodes, type, status)[s]

(* One story of a plan: on its tree, on its page and in the list of plans. *)
RollupTruthful == ContainersTruthful /\ RootMatchesProgress /\ ListMatchesDetail
=============================================================================
