---------------------------- MODULE GoalCriteria ----------------------------
(***************************************************************************)
(* A goal and its measurable success criteria: recording progress, editing,   *)
(* and the goal that achieves itself.                                        *)
(*                                                                         *)
(* Every request reads the row of the goal, computes new criteria and perhaps *)
(* a status from it, and writes the fields it has back in one UPDATE.         *)
(***************************************************************************)
EXTENDS Slots, PlanRollup

CONSTANTS
  Criterion,  \* the measurable criteria of the goal
  MaxReviews  \* bound: number of requests

GoalStatus == {"active", "achieved", "abandoned"}

ASSUME CriteriaAssumption ==
  /\ IsFiniteSet(Criterion) /\ Criterion # {}
  /\ Nil \notin GoalStatus /\ \A m \in SUBSET Criterion : m # Nil

VARIABLES
  aim,      \* the row: its status and the criteria whose target is reached
  review,   \* the request in each slot
  reviews,  \* requests so far (bounded by MaxReviews)
  loose     \* history: was the status last set by hand, or from an outdated row?

criteriaVars == <<aim, review, reviews, loose>>

Terminal   == {"achieved", "abandoned"}
Aim        == [status : GoalStatus, met : SUBSET Criterion]

(* row: what was read; met: the criteria wanted, status: the status asked for,   *)
(* Nil if left alone; late: history, did somebody write since the row was read? *)
NoReview == [pc |-> "idle", row |-> Nil, met |-> Nil, status |-> Nil, late |-> FALSE]

GoalCriteriaTypeOK ==
  /\ aim \in Aim /\ loose \in BOOLEAN
  /\ review \in [Request -> {NoReview} \cup
       [pc : {"write"}, row : Aim, met : {Nil} \cup SUBSET Criterion,
        status : GoalStatus \cup {Nil}, late : BOOLEAN]]

CriteriaInit ==
  /\ aim = [status |-> "active", met |-> {}] /\ loose = FALSE
  /\ review = [r \in Request |-> NoReview] /\ reviews = 0

-----------------------------------------------------------------------------
AttainmentPct(met) == Percent(Cardinality(met), Cardinality(Criterion))

(* Mutant: the criteria are not looked at. *)
AutoAchieveStatus_Kept(met, status) == status

(* A terminal status is never touched; full attainment achieves the goal. *)
AutoAchieveStatus(met, status) ==
  IF status \notin Terminal /\ AttainmentPct(met) = 100 THEN "achieved" ELSE status

StartReview(r, met, status) ==
  /\ review[r].pc = "idle" /\ reviews < MaxReviews
  /\ reviews' = reviews + 1
  /\ review' = [review EXCEPT ![r] = [pc |-> "write", row |-> aim, met |-> met,
                                      status |-> status, late |-> FALSE]]
  /\ UNCHANGED <<aim, loose>>

(* POST /goals/:id/criteria/progress: one criterion gets a value, which may     *)
(* also fall short of its target again                                         *)
RecordProgress(r) ==
  \E c \in Criterion : \/ StartReview(r, aim.met \cup {c}, Nil)
                       \/ StartReview(r, aim.met \ {c}, Nil)

(* PUT /goals/:id: new criteria, a new status, or both *)
UpdateGoal(r) ==
  \E m \in {Nil} \cup SUBSET Criterion, s \in GoalStatus \cup {Nil} :
    ~(m = Nil /\ s = Nil) /\ StartReview(r, m, s)

(* DELETE /goals/:id *)
SoftDelete(r) == StartReview(r, Nil, "abandoned")

(* The UPDATE: a status that was not asked for is written only if the criteria *)
(* change it, judged by the status that was read.                              *)
WriteGoal(r) ==
  LET q == review[r]
      auto == AutoAchieveStatus(q.met, q.row.status)
      status == CASE q.status # Nil -> q.status
                  [] q.status = Nil /\ auto # q.row.status -> auto
                  [] OTHER -> aim.status
  IN  /\ q.pc = "write"
      /\ aim' = [status |-> status, met |-> IF q.met = Nil THEN aim.met ELSE q.met]
      /\ loose' = (q.status # Nil \/ q.late)
      /\ review' = [p \in Request |->
           IF p = r THEN NoReview
           ELSE IF review[p].pc = "write" THEN [review[p] EXCEPT !.late = TRUE]
           ELSE review[p]]
      /\ UNCHANGED reviews

CriteriaNext ==
  \E r \in Request : RecordProgress(r) \/ UpdateGoal(r) \/ SoftDelete(r) \/ WriteGoal(r)

CriteriaSpec == CriteriaInit /\ [][CriteriaNext]_criteriaVars

-----------------------------------------------------------------------------
(* A goal whose criteria are all met is not left open, unless somebody set its *)
(* status by hand, or a request judged by a row that others had changed.       *)
AchievedWhenMet ==
  aim.met = Criterion /\ ~loose => aim.status \in Terminal
=============================================================================
