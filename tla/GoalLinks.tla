----------------------------- MODULE GoalLinks -----------------------------
(***************************************************************************)
(* Plans linked to goals, and the achieves edges from their tasks on which    *)
(* the progress of a goal rests.                                             *)
(*                                                                         *)
(* Linking a plan and creating a task each write one row and then cascade:    *)
(* they read what the other kind of request writes, and insert the edges one  *)
(* by one, without a transaction.                                            *)
(***************************************************************************)
EXTENDS Slots, Integers

CONSTANTS
  Goal,
  Work,        \* the task nodes, those created later included
  WorkPlan,    \* WorkPlan[t]: plan_id
  PlanWithout, \* a plan in which no work exists at first
  MaxTies      \* bound: number of requests

VARIABLES
  linked,    \* goal_links of type plan: pairs of a goal and a plan
  works,     \* the task nodes that exist
  achieves,  \* the achieves edges: pairs of a task and a goal
  tie,       \* the request in each slot
  ties,      \* requests so far (bounded by MaxTies)
  gone,      \* the task nodes that were deleted
  lapsed     \* history: the pairs for which no edge is to be expected any more

goalLinkVars == <<linked, works, achieves, tie, ties, gone, lapsed>>

(* goal, plan, or task: what the request is about; seen: the tasks that were    *)
(* read; todo: the edges left to insert                                        *)
NoTie == [pc |-> "idle", goal |-> Nil, plan |-> Nil, task |-> Nil, seen |-> {}, todo |-> {}]
TieAt(r, p) == tie[r].pc = p
TieDone(r)  == [tie EXCEPT ![r] = NoTie]

GoalPlans == {WorkPlan[t] : t \in Work} \cup {PlanWithout}
Tasks(p)  == {t \in works : WorkPlan[t] = p}

GoalLinksTypeOK ==
  /\ linked \subseteq Goal \X GoalPlans
  /\ works \subseteq Work /\ gone \subseteq Work
  /\ achieves \subseteq works \X Goal /\ lapsed \subseteq Work \X Goal
  /\ \A r \in Request :
       /\ tie[r].pc \in {"idle", "tasks", "achievers", "goals", "insert"}
       /\ tie[r].seen \subseteq Work /\ tie[r].todo \subseteq Work \X Goal
       /\ TieAt(r, "insert") <=> tie[r].todo # {}

GoalLinksInit ==
  /\ linked = {} /\ achieves = {} /\ lapsed = {} /\ gone = {}
  /\ works = {t \in Work : WorkPlan[t] # PlanWithout}
  /\ tie = [r \in Request |-> NoTie] /\ ties = 0

-----------------------------------------------------------------------------
MayTie(r) == TieAt(r, "idle") /\ ties < MaxTies

(* POST /goals/:id/links: a link that is there already returns no row, and     *)
(* reading its id breaks the cascade off before it begins.                      *)
AddLink(r) ==
  /\ MayTie(r) /\ ties' = ties + 1
  /\ \E g \in Goal, p \in GoalPlans :
       /\ linked' = linked \cup {<<g, p>>}
       /\ tie' = IF <<g, p>> \in linked THEN tie
                 ELSE [tie EXCEPT ![r] = [NoTie EXCEPT !.pc = "tasks", !.goal = g, !.plan = p]]
  /\ UNCHANGED <<works, achieves, gone, lapsed>>

(* cascadePlanAchievers: listByPlan *)
ListPlanTasks(r) ==
  /\ TieAt(r, "tasks")
  /\ tie' = [tie EXCEPT ![r].pc = "achievers", ![r].seen = Tasks(tie[r].plan)]
  /\ UNCHANGED <<linked, works, achieves, ties, gone, lapsed>>

Inserting(r, todo) ==
  tie' = IF todo = {} THEN TieDone(r)
         ELSE [tie EXCEPT ![r].pc = "insert", ![r].seen = {}, ![r].todo = todo]

(* Mutant: a goal that has achievers already gets no more of them. *)
ListAchievers_Any(r) ==
  LET g == tie[r].goal
  IN  /\ TieAt(r, "achievers")
      /\ Inserting(r, IF achieves \cap (Work \X {g}) # {} THEN {} ELSE tie[r].seen \X {g})
      /\ UNCHANGED <<linked, works, achieves, ties, gone, lapsed>>

(* cascadePlanAchievers: listByGoal, the edges that are there are skipped *)
ListAchievers(r) ==
  /\ TieAt(r, "achievers")
  /\ Inserting(r, (tie[r].seen \X {tie[r].goal}) \ achieves)
  /\ UNCHANGED <<linked, works, achieves, ties, gone, lapsed>>

(* createNode, for a task *)
CreateWork(r) ==
  /\ MayTie(r) /\ ties' = ties + 1
  /\ \E t \in Work \ (works \cup gone) :
       /\ works' = works \cup {t}
       /\ tie' = [tie EXCEPT ![r] = [NoTie EXCEPT !.pc = "goals", !.task = t]]
  /\ UNCHANGED <<linked, achieves, gone, lapsed>>

(* createNode: listGoalsLinkedToPlan *)
ListLinkedGoals(r) ==
  LET t == tie[r].task
  IN  /\ TieAt(r, "goals")
      /\ Inserting(r, {e \in {t} \X Goal : <<e[2], WorkPlan[t]>> \in linked})
      /\ UNCHANGED <<linked, works, achieves, ties, gone, lapsed>>

(* createRpiChain and the forks create tasks and look for no goal. *)
CreateAside ==
  /\ ties < MaxTies /\ ties' = ties + 1
  /\ \E t \in Work \ (works \cup gone) :
       /\ works' = works \cup {t}
       /\ lapsed' = lapsed \cup {e \in {t} \X Goal : <<e[2], WorkPlan[t]>> \in linked}
  /\ UNCHANGED <<linked, achieves, tie, gone>>

(* One INSERT after the other: the first that fails, because the edge is there  *)
(* by now or the task is gone, ends both kinds of cascade.                      *)
InsertEdge(r) ==
  /\ TieAt(r, "insert")
  /\ \E e \in tie[r].todo :
       IF e \in achieves \/ e[1] \notin works
       THEN /\ lapsed' = lapsed \cup tie[r].todo
            /\ tie' = TieDone(r)
            /\ UNCHANGED achieves
       ELSE /\ achieves' = achieves \cup {e}
            /\ Inserting(r, tie[r].todo \ {e})
            /\ UNCHANGED lapsed
  /\ UNCHANGED <<linked, works, ties, gone>>

-----------------------------------------------------------------------------
(* POST /goals/:id/achievers; an edge that is there is a conflict *)
AddAchiever ==
  /\ ties < MaxTies /\ ties' = ties + 1
  /\ \E e \in works \X Goal : e \notin achieves /\ achieves' = achieves \cup {e}
  /\ UNCHANGED <<linked, works, tie, gone, lapsed>>

(* DELETE /goals/:id/achievers/:depId *)
RemoveAchiever ==
  /\ ties < MaxTies /\ ties' = ties + 1
  /\ \E e \in achieves : achieves' = achieves \ {e} /\ lapsed' = lapsed \cup {e}
  /\ UNCHANGED <<linked, works, tie, gone>>

(* DELETE /goals/:id/links/:linkId: the edges of the cascade stay *)
RemoveLink ==
  /\ ties < MaxTies /\ ties' = ties + 1
  /\ \E l \in linked : linked' = linked \ {l}
  /\ UNCHANGED <<works, achieves, tie, gone, lapsed>>

(* deleteNode: its edges go by the foreign key *)
DeleteWork ==
  /\ ties < MaxTies /\ ties' = ties + 1
  /\ \E t \in works :
       /\ works' = works \ {t} /\ gone' = gone \cup {t}
       /\ achieves' = {e \in achieves : e[1] # t}
  /\ UNCHANGED <<linked, tie, lapsed>>

(* The edges that r is still going to see to *)
Owed(r) ==
  CASE TieAt(r, "tasks")     -> Tasks(tie[r].plan) \X {tie[r].goal}
    [] TieAt(r, "achievers") -> tie[r].seen \X {tie[r].goal}
    [] TieAt(r, "goals")     -> {tie[r].task} \X Goal
    [] TieAt(r, "insert")    -> tie[r].todo
    [] OTHER                 -> {}

(* The process stops: no cascade is taken up again. *)
CrashGoalLinks ==
  /\ \E r \in Request : ~TieAt(r, "idle")
  /\ tie' = [r \in Request |-> NoTie]
  /\ lapsed' = lapsed \cup UNION {Owed(r) : r \in Request}
  /\ UNCHANGED <<linked, works, achieves, ties, gone>>

TieStep(r) == ListPlanTasks(r) \/ ListAchievers(r) \/ ListLinkedGoals(r) \/ InsertEdge(r)

GoalLinksNext ==
  \/ \E r \in Request : AddLink(r) \/ CreateWork(r) \/ TieStep(r)
  \/ CreateAside \/ AddAchiever \/ RemoveAchiever \/ RemoveLink \/ DeleteWork
  \/ CrashGoalLinks

GoalLinksSpec == GoalLinksInit /\ [][GoalLinksNext]_goalLinkVars

-----------------------------------------------------------------------------
(* Every task of a linked plan counts towards the goal, or is about to,          *)
(* whichever of the link and the task came first and however the two cascades    *)
(* interleave; except where an edge was removed by hand, a cascade broke off, or *)
(* the task was created aside.                                                  *)
TasksContribute ==
  \A l \in linked : \A t \in Tasks(l[2]) :
    \/ <<t, l[1]>> \in achieves \cup lapsed
    \/ \E r \in Request : <<t, l[1]>> \in Owed(r)
=============================================================================
