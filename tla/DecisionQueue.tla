--------------------------- MODULE DecisionQueue ---------------------------
(***************************************************************************)
(* Decision requests: an agent asks, a human answers.                        *)
(*                                                                         *)
(* Every change of a request reads the row, checks that it is pending and     *)
(* then updates it by id in a second statement; the one who asked is told     *)
(* the outcome afterwards.                                                   *)
(***************************************************************************)
EXTENDS Slots, Integers

CONSTANTS
  Decision,      \* the ids of decision requests
  Answer,        \* what may be decided
  MaxDecisionOps \* bound: number of requests

VARIABLES
  asked,       \* the rows: [ids -> [status, answer, context, expires]]
  spent,       \* the ids given out so far
  resolving,   \* the request in each slot
  told,        \* the last outcome the requester of a decision was told, or Nil
  due,         \* has the time come at which requests with a deadline expire?
  decisionOps, \* requests so far (bounded by MaxDecisionOps)
  contested    \* history: the decisions that two requests changed at once

decisionVars == <<asked, spent, resolving, told, due, decisionOps, contested>>

DecisionStatus == {"pending", "decided", "cancelled"}
NoResolving    == [pc |-> "idle", id |-> Nil, answer |-> Nil, row |-> Nil]
ResolvingAt(r, p) == resolving[r].pc = p
ResolvingDone(r)  == resolving' = [resolving EXCEPT ![r] = NoResolving]

DecisionTypeOK ==
  /\ DOMAIN asked \subseteq spent /\ spent \subseteq Decision
  /\ \A d \in DOMAIN asked :
       /\ asked[d].status \in DecisionStatus
       /\ asked[d].answer \in Answer \cup {Nil}
       /\ asked[d].status = "pending" => asked[d].answer = Nil
  /\ \A r \in Request : resolving[r].pc \in {"idle", "update", "resolve", "cancel", "notify"}

DecisionInit ==
  /\ asked = <<>> /\ spent = {} /\ contested = {}
  /\ resolving = [r \in Request |-> NoResolving]
  /\ told = [d \in Decision |-> Nil]
  /\ due = FALSE /\ decisionOps = 0

MayAsk(r) == ResolvingAt(r, "idle") /\ decisionOps < MaxDecisionOps

(* createDecisionRequest, and finishWorkSession for a blocked task *)
CreateDecisionRequest(r) ==
  /\ MayAsk(r)
  /\ \E d \in Decision \ spent, deadline \in BOOLEAN :
       /\ asked' = Updated(asked, [x \in {d} |-> [status |-> "pending", answer |-> Nil,
                                      context |-> 0, expires |-> deadline]])
       /\ spent' = spent \cup {d}
  /\ decisionOps' = decisionOps + 1
  /\ UNCHANGED <<resolving, told, due, contested>>

(* Mutant: cancelling does not ask whether the request is still open. *)
CheckPending_NotForCancel(r) ==
  /\ MayAsk(r)
  /\ \E d \in DOMAIN asked, verb \in {"update", "resolve", "cancel"}, a \in Answer :
       /\ asked[d].status = "pending" \/ verb = "cancel"
       /\ verb = "resolve" => ~(asked[d].expires /\ due)
       /\ resolving' = [resolving EXCEPT ![r] =
            [pc |-> verb, id |-> d, answer |-> a, row |-> asked[d]]]
  /\ decisionOps' = decisionOps + 1
  /\ UNCHANGED <<asked, spent, told, due, contested>>

(* The first half of updating, resolving and cancelling: a request that is    *)
(* not pending, or to be resolved after its deadline, is turned down.          *)
CheckPending(r) ==
  /\ MayAsk(r)
  /\ \E d \in DOMAIN asked, verb \in {"update", "resolve", "cancel"}, a \in Answer :
       /\ asked[d].status = "pending"
       /\ verb = "resolve" => ~(asked[d].expires /\ due)
       /\ resolving' = [resolving EXCEPT ![r] =
            [pc |-> verb, id |-> d, answer |-> a, row |-> asked[d]]]
  /\ decisionOps' = decisionOps + 1
  /\ UNCHANGED <<asked, spent, told, due, contested>>

(* UPDATE ... WHERE id: the status is not asked again, only the row must exist. *)
Changes(r, row) ==
  LET d == resolving[r].id
  IN  /\ asked' = IF d \in DOMAIN asked THEN [asked EXCEPT ![d] = row] ELSE asked
      /\ contested' = IF d \in DOMAIN asked /\ asked[d] # resolving[r].row
                      THEN contested \cup {d} ELSE contested

(* updateDecisionRequest: more context, the status is left alone *)
UpdateDecisionRequest(r) ==
  /\ ResolvingAt(r, "update")
  /\ LET d == resolving[r].id
     IN  Changes(r, [asked[d] EXCEPT !.context = 1])
  /\ ResolvingDone(r)
  /\ UNCHANGED <<spent, told, due, decisionOps>>

(* Mutant: the answer is stored, and the status left alone. *)
ResolveDecisionRequest_Open(r) ==
  LET d == resolving[r].id
  IN  /\ ResolvingAt(r, "resolve")
      /\ Changes(r, [asked[d] EXCEPT !.answer = resolving[r].answer])
      /\ IF d \in DOMAIN asked
         THEN resolving' = [resolving EXCEPT ![r].pc = "notify"]
         ELSE ResolvingDone(r)
      /\ UNCHANGED <<spent, told, due, decisionOps>>

ResolveDecisionRequest(r) ==
  LET d == resolving[r].id
  IN  /\ ResolvingAt(r, "resolve")
      /\ Changes(r, [asked[d] EXCEPT !.status = "decided", !.answer = resolving[r].answer])
      /\ IF d \in DOMAIN asked
         THEN resolving' = [resolving EXCEPT ![r].pc = "notify"]
         ELSE ResolvingDone(r)
      /\ UNCHANGED <<spent, told, due, decisionOps>>

(* Cancelling keeps an answer that came in between, under the new status. *)
CancelDecisionRequest(r) ==
  /\ ResolvingAt(r, "cancel")
  /\ LET d == resolving[r].id
     IN  Changes(r, [asked[d] EXCEPT !.status = "cancelled"])
  /\ ResolvingDone(r)
  /\ UNCHANGED <<spent, told, due, decisionOps>>

(* the broadcast and the notification carry the row this request wrote *)
NotifyDecisionResolved(r) ==
  /\ ResolvingAt(r, "notify")
  /\ told' = [told EXCEPT ![resolving[r].id] = resolving[r].answer]
  /\ ResolvingDone(r)
  /\ UNCHANGED <<asked, spent, due, decisionOps, contested>>

DeleteDecisionRequest(r) ==
  /\ MayAsk(r)
  /\ \E d \in DOMAIN asked : asked' = Without(asked, {d})
  /\ decisionOps' = decisionOps + 1
  /\ UNCHANGED <<spent, resolving, told, due, contested>>

(* Nothing marks an expired request: its deadline counts when it is resolved. *)
DeadlinePasses ==
  /\ ~due /\ due' = TRUE
  /\ UNCHANGED <<asked, spent, resolving, told, decisionOps, contested>>

DecisionNext ==
  \/ \E r \in Request :
       \/ CreateDecisionRequest(r) \/ CheckPending(r) \/ DeleteDecisionRequest(r)
       \/ UpdateDecisionRequest(r) \/ ResolveDecisionRequest(r)
       \/ CancelDecisionRequest(r) \/ NotifyDecisionResolved(r)
  \/ DeadlinePasses

DecisionSpec == DecisionInit /\ [][DecisionNext]_decisionVars

-----------------------------------------------------------------------------
(* An outcome is final: what the one who asked was told is and stays on record, *)
(* unless two requests changed the decision at once (then the answers may        *)
(* contradict).                                                               *)
ToldTheOutcome ==
  \A d \in DOMAIN asked :
    told[d] # Nil /\ d \notin contested =>
      asked[d].status = "decided" /\ asked[d].answer = told[d]
=============================================================================
