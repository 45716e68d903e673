------------------------- MODULE StatusPropagation -------------------------
(***************************************************************************)
(* Status propagation: what happens after a node's status changes.         *)
(*                                                                         *)
(* A request of the node service writes plan_nodes.status and publishes     *)
(* node.status.changed.  PostgreSQL delivers the events in order, but the   *)
(* message bus does not await its callbacks, so the handlers of successive  *)
(* events run concurrently with each other and with the requests.  Every    *)
(* await on the database is a step.  A handler unblocks dependants,         *)
(* completes parents and then reconciles the status of the plan.            *)
(***************************************************************************)
EXTENDS PlanRollup, Sequences

CONSTANTS
  Node,        \* the nodes of one plan, those created later included
  Root,        \* its root
  Parent,      \* parent_id: [Node -> Node \cup {Nil}]
  Type,        \* node_type
  Edge,        \* <<b, t>>: a blocks or requires edge from b to t
  Spare,       \* the nodes that do not exist yet
  Start,       \* Start[n]: the statuses n may have at first
  PlanStart,   \* the statuses the plan may have at first
  Request,     \* request slots
  Handler,     \* handler slots: at most this many callbacks run at once
  Mortal,      \* the requests and handlers in which an await may reject
  Worked,      \* the nodes that requests ask to change
  Wanted,      \* the statuses they ask for
  Allowed,     \* what else happens: subset of Extras
  MaxOps,      \* bound: number of requests
  Nil

Status     == {"not_started", "in_progress", "completed", "blocked", "plan_ready",
               "archived"}
PlanStatus == {"draft", "active", "completed", "archived"}
Promoting  == {"in_progress", "completed", "blocked", "plan_ready"}
Extras     == {"create", "delete", "session", "restart"}

ASSUME SPAssumption ==
  /\ Nil \notin Node \cup Handler
  /\ Root \in Node /\ Root \notin Spare
  /\ Parent \in [Node -> Node \cup {Nil}]
  /\ \A n \in Node : Parent[n] = Nil <=> n = Root
  /\ Type \in [Node -> WorkTypes \cup ContainerTypes]
  /\ \A n \in Node : Type[n] = "root" <=> n = Root
  /\ Edge \subseteq Node \X Node
  /\ Spare \subseteq Node
  /\ Start \in [Node -> SUBSET Status]
  /\ PlanStart \subseteq PlanStatus
  /\ Mortal \subseteq Request \cup Handler
  /\ Worked \subseteq Node
  /\ Wanted \subseteq Status
  /\ Allowed \subseteq Extras
  /\ MaxOps \in Nat

VARIABLES
  nodes,   \* the nodes that exist
  gone,    \* the nodes that were deleted: no id is given out twice
  status,  \* plan_nodes.status
  plan,    \* plans.status
  queue,   \* notifications sent and not yet delivered
  req,     \* the request in each request slot
  job,     \* the callback in each handler slot
  ops,     \* requests so far (bounded by MaxOps)
  dirty    \* history: did anything happen that no callback makes up for?

vars == <<nodes, gone, status, plan, queue, req, job, ops, dirty>>

-----------------------------------------------------------------------------
Event == [node : Node, new : Status]

ReqPc == {"idle", "write", "readplan", "promote", "publish"}

(* old: the status requireNode read; loud: does the path publish?  The work *)
(* session endpoints write the status without publishing.                  *)
ReqState == [pc : ReqPc, node : Node \cup {Nil}, old : Status, new : Status,
             loud : BOOLEAN]

JobPc == {"idle", "downstream", "targets", "upstream", "blockers", "node",
          "siblings", "parent", "complete", "readplan", "rollup", "setplan"}

(* node: the node of the current call of propagateStatus; targets, blockers: *)
(* what the two loops have left; planSeen: the plan status last read;        *)
(* touched: the nodes others wrote while the callback judges whether to       *)
(* unblock the target or to complete the parent (history).                   *)
Judging == {"upstream", "blockers", "siblings", "parent", "complete"}

JobState == [pc : JobPc, node : Node \cup {Nil}, targets : SUBSET Node,
             target : Node \cup {Nil}, blockers : SUBSET Node,
             planSeen : PlanStatus, touched : SUBSET Node]

NoReq == [pc |-> "idle", node |-> Nil, old |-> "not_started",
          new |-> "not_started", loud |-> TRUE]
NoJob == [pc |-> "idle", node |-> Nil, targets |-> {}, target |-> Nil,
          blockers |-> {}, planSeen |-> "draft", touched |-> {}]

TypeOK ==
  /\ nodes \subseteq Node /\ gone \subseteq Node \ nodes
  /\ status \in [Node -> Status]
  /\ plan \in PlanStatus
  /\ queue \in Seq(Event)
  /\ req \in [Request -> ReqState]
  /\ job \in [Handler -> JobState]
  /\ ops \in 0 .. MaxOps
  /\ dirty \in BOOLEAN
  /\ \A r \in Request : req[r].pc # "idle" => req[r].node \in Node
  /\ \A h \in Handler :
       /\ job[h].pc # "idle" => job[h].node \in Node
       /\ job[h].pc \in {"upstream", "blockers"} => job[h].target \in Node
       /\ job[h].pc \in {"siblings", "parent", "complete"} => job[h].node # Root

Init ==
  /\ nodes = Node \ Spare
  /\ gone = {}
  /\ status \in [Node -> Status] /\ \A n \in Node : status[n] \in Start[n]
  /\ plan \in PlanStart
  /\ queue = <<>>
  /\ req = [r \in Request |-> NoReq]
  /\ job = [h \in Handler |-> NoJob]
  /\ ops = 0
  /\ dirty = FALSE

-----------------------------------------------------------------------------
Children(p) == {c \in nodes : Parent[c] = p}
Targets(b)  == {t \in nodes : <<b, t>> \in Edge /\ b \in nodes}
Blockers(t) == {b \in nodes : <<b, t>> \in Edge /\ t \in nodes}

(* The histories of the callbacks other than h learn that N changed. *)
Touch(j, h, N) ==
  [i \in Handler |-> IF i = h \/ j[i].pc \notin Judging THEN j[i]
                     ELSE [j[i] EXCEPT !.touched = @ \cup N]]

(* UPDATE plan_nodes SET status = s: no row, no effect. *)
SetStatus(n, s) ==
  status' = IF n \in nodes THEN [status EXCEPT ![n] = s] ELSE status

ReqGoto(r, p) == req' = [req EXCEPT ![r].pc = p]
ReqDone(r)    == req' = [req EXCEPT ![r] = NoReq]
ReqAt(r, p)   == req[r].pc = p
JobAt(h, p)   == job[h].pc = p
JobGoto(h, p) ==
  job' = [job EXCEPT ![h].pc = p, ![h].touched = IF p \in Judging THEN @ ELSE {}]
JobDone(h)    == job' = [job EXCEPT ![h] = NoJob]

-----------------------------------------------------------------------------
(* updateNode / updateNodeStatus (loud), startWorkSession and                *)
(* finishWorkSession (silent): the node is read, then written; what was read *)
(* decides whether to publish.                                              *)
UpdateNodeStatus(r) ==
  /\ ReqAt(r, "idle") /\ ops < MaxOps
  /\ \E n \in nodes \cap Worked, s \in Wanted, loud \in BOOLEAN :
       /\ loud \/ ("session" \in Allowed /\ s \in {"in_progress", "completed", "blocked"})
       /\ req' = [req EXCEPT ![r] = [pc |-> "write", node |-> n, old |-> status[n],
                                     new |-> s, loud |-> loud]]
  /\ ops' = ops + 1
  /\ UNCHANGED <<nodes, gone, status, plan, queue, job, dirty>>

WriteStatus(r) ==
  LET n == req[r].node
      changed == req[r].old # req[r].new
  IN  /\ ReqAt(r, "write")
      /\ SetStatus(n, req[r].new)
      /\ job' = Touch(job, Nil, {n})
      /\ IF n \notin nodes \/ ~req[r].loud \/ ~changed THEN ReqDone(r)
         ELSE IF req[r].new \in Promoting THEN ReqGoto(r, "readplan")
         ELSE ReqGoto(r, "publish")
      /\ dirty' = (dirty \/ (status' # status /\ ~(req[r].loud /\ changed)))
      /\ UNCHANGED <<nodes, gone, plan, queue, ops>>

(* draft plans become active once work begins *)
ReadDraft(r) ==
  /\ ReqAt(r, "readplan")
  /\ ReqGoto(r, IF plan = "draft" THEN "promote" ELSE "publish")
  /\ UNCHANGED <<nodes, gone, status, plan, queue, job, ops, dirty>>

Promote(r) ==
  /\ ReqAt(r, "promote")
  /\ plan' = "active"
  /\ ReqGoto(r, "publish")
  /\ UNCHANGED <<nodes, gone, status, queue, job, ops, dirty>>

Publish(r) ==
  /\ ReqAt(r, "publish")
  /\ queue' = Append(queue, [node |-> req[r].node, new |-> req[r].new])
  /\ ReqDone(r)
  /\ UNCHANGED <<nodes, gone, status, plan, job, ops, dirty>>

(* createNode publishes nothing, and neither does deleteNode. *)
CreateNode ==
  /\ "create" \in Allowed /\ ops < MaxOps
  /\ \E n \in Spare \ (nodes \cup gone), s \in Wanted \cup {"not_started"} :
       /\ Parent[n] \in nodes
       /\ nodes' = nodes \cup {n}
       /\ status' = [status EXCEPT ![n] = s]
       /\ job' = Touch(job, Nil, {n})
  /\ ops' = ops + 1 /\ dirty' = TRUE
  /\ UNCHANGED <<gone, plan, queue, req>>

(* No foreign key covers parent_id: the children stay, without a parent. *)
DeleteNode ==
  /\ "delete" \in Allowed /\ ops < MaxOps
  /\ \E n \in nodes \ {Root} :
       /\ nodes' = nodes \ {n}
       /\ gone' = gone \cup {n}
       /\ job' = Touch(job, Nil, {n})
  /\ ops' = ops + 1 /\ dirty' = TRUE
  /\ UNCHANGED <<status, plan, queue, req>>

-----------------------------------------------------------------------------
(* Mutant: an event is ignored while another callback runs. *)
Deliver_Debounced(h) ==
  /\ JobAt(h, "idle") /\ queue # <<>>
  /\ IF \E i \in Handler : ~JobAt(i, "idle") THEN UNCHANGED job
     ELSE job' = [job EXCEPT ![h] = [NoJob EXCEPT !.node = Head(queue).node,
            !.pc = IF Head(queue).new = "completed" THEN "downstream" ELSE "readplan"]]
  /\ queue' = Tail(queue)
  /\ UNCHANGED <<nodes, gone, status, plan, req, ops, dirty>>

(* The bus hands the oldest notification to the callback and does not wait. *)
Deliver(h) ==
  /\ JobAt(h, "idle") /\ queue # <<>>
  /\ job' = [job EXCEPT ![h] = [NoJob EXCEPT !.node = Head(queue).node,
               !.pc = IF Head(queue).new = "completed" THEN "downstream" ELSE "readplan"]]
  /\ queue' = Tail(queue)
  /\ UNCHANGED <<nodes, gone, status, plan, req, ops, dirty>>

(* propagateStatus(node, 'completed'), first part: unblock the dependants. *)
ListDownstream(h) ==
  /\ JobAt(h, "downstream")
  /\ job' = [job EXCEPT ![h].pc = "targets", ![h].targets = Targets(job[h].node)]
  /\ UNCHANGED <<nodes, gone, status, plan, queue, req, ops, dirty>>

(* Mutant: the loop variable is not advanced. *)
CheckTarget_NoTarget(h) ==
  /\ JobAt(h, "targets")
  /\ \/ \E t \in job[h].targets :
          IF t \in nodes /\ status[t] = "blocked"
          THEN job' = [job EXCEPT ![h].pc = "upstream", ![h].targets = @ \ {t}]
          ELSE job' = [job EXCEPT ![h].targets = @ \ {t}]
     \/ job[h].targets = {} /\ JobGoto(h, "node")
  /\ UNCHANGED <<nodes, gone, status, plan, queue, req, ops, dirty>>

(* SQL returns the edges in no particular order. *)
CheckTarget(h) ==
  /\ JobAt(h, "targets")
  /\ \/ \E t \in job[h].targets :
          IF t \in nodes /\ status[t] = "blocked"
          THEN job' = [job EXCEPT ![h].pc = "upstream", ![h].target = t,
                                  ![h].targets = @ \ {t}]
          ELSE job' = [job EXCEPT ![h].targets = @ \ {t}]
     \/ job[h].targets = {} /\ JobGoto(h, "node")
  /\ UNCHANGED <<nodes, gone, status, plan, queue, req, ops, dirty>>

ListUpstream(h) ==
  /\ JobAt(h, "upstream")
  /\ job' = [job EXCEPT ![h].pc = "blockers", ![h].blockers = Blockers(job[h].target)]
  /\ UNCHANGED <<nodes, gone, status, plan, queue, req, ops, dirty>>

(* Mutant: one completed blocker is enough. *)
CheckBlocker_Any(h) ==
  /\ JobAt(h, "blockers")
  /\ \E b \in job[h].blockers :
       IF b \in nodes /\ status[b] # "completed"
       THEN job' = [job EXCEPT ![h].pc = "targets", ![h].blockers = {},
                                 ![h].touched = {}]
       ELSE job' = [job EXCEPT ![h].blockers = {}]
  /\ UNCHANGED <<nodes, gone, status, plan, queue, req, ops, dirty>>

(* one read per blocker; the first incomplete one ends the loop *)
CheckBlocker(h) ==
  /\ JobAt(h, "blockers")
  /\ \E b \in job[h].blockers :
       IF b \in nodes /\ status[b] # "completed"
       THEN job' = [job EXCEPT ![h].pc = "targets", ![h].blockers = {},
                                 ![h].touched = {}]
       ELSE job' = [job EXCEPT ![h].blockers = @ \ {b}]
  /\ UNCHANGED <<nodes, gone, status, plan, queue, req, ops, dirty>>

Unblock(h) ==
  LET t == job[h].target
  IN  /\ JobAt(h, "blockers") /\ job[h].blockers = {}
      /\ SetStatus(t, "not_started")
      /\ dirty' = (dirty \/ (t \in nodes /\ status[t] # "blocked"))
      /\ job' = Touch([job EXCEPT ![h].pc = "targets", ![h].touched = {}], h, {t})
      /\ UNCHANGED <<nodes, gone, plan, queue, req, ops>>

(* second part: complete the parent when all its children are completed *)
ReadNode(h) ==
  /\ JobAt(h, "node")
  /\ JobGoto(h, IF job[h].node \in nodes /\ job[h].node # Root
                THEN "siblings" ELSE "readplan")
  /\ UNCHANGED <<nodes, gone, status, plan, queue, req, ops, dirty>>

(* Mutant: one completed child is enough. *)
CheckSiblings_Any(h) ==
  /\ JobAt(h, "siblings")
  /\ JobGoto(h, IF \E c \in Children(Parent[job[h].node]) : status[c] = "completed"
                THEN "parent" ELSE "readplan")
  /\ UNCHANGED <<nodes, gone, status, plan, queue, req, ops, dirty>>

CheckSiblings(h) ==
  /\ JobAt(h, "siblings")
  /\ JobGoto(h, IF \A c \in Children(Parent[job[h].node]) : status[c] = "completed"
                THEN "parent" ELSE "readplan")
  /\ UNCHANGED <<nodes, gone, status, plan, queue, req, ops, dirty>>

(* Mutant: only a phase that was started gets completed. *)
ReadParent_OnlyStarted(h) ==
  LET p == Parent[job[h].node]
  IN  /\ JobAt(h, "parent")
      /\ JobGoto(h, IF p \in nodes /\ status[p] = "in_progress" /\ p # Root
                    THEN "complete" ELSE "readplan")
      /\ UNCHANGED <<nodes, gone, status, plan, queue, req, ops, dirty>>

ReadParent(h) ==
  LET p == Parent[job[h].node]
  IN  /\ JobAt(h, "parent")
      /\ JobGoto(h, IF p \in nodes /\ status[p] # "completed" /\ p # Root
                    THEN "complete" ELSE "readplan")
      /\ UNCHANGED <<nodes, gone, status, plan, queue, req, ops, dirty>>

(* the recursive call propagateStatus(parent, 'completed') comes next *)
CompleteParent(h) ==
  LET p == Parent[job[h].node]
  IN  /\ JobAt(h, "complete")
      /\ SetStatus(p, "completed")
      /\ job' = Touch([job EXCEPT ![h].pc = "downstream", ![h].node = p,
                                  ![h].touched = {}], h, {p})
      /\ UNCHANGED <<nodes, gone, plan, queue, req, ops, dirty>>

(* maintainPlanStatus *)
ReadPlanStatus(h) ==
  /\ JobAt(h, "readplan")
  /\ IF plan \in {"active", "completed"}
     THEN job' = [job EXCEPT ![h].pc = "rollup", ![h].planSeen = plan]
     ELSE JobDone(h)
  /\ UNCHANGED <<nodes, gone, status, plan, queue, req, ops, dirty>>

Rollup(h) ==
  /\ JobAt(h, "rollup")
  /\ IF IsComplete(nodes, Type, status) <=> job[h].planSeen = "completed"
     THEN JobDone(h) ELSE JobGoto(h, "setplan")
  /\ UNCHANGED <<nodes, gone, status, plan, queue, req, ops, dirty>>

SetPlan(h) ==
  /\ JobAt(h, "setplan")
  /\ plan' = IF job[h].planSeen = "active" THEN "completed" ELSE "active"
  /\ dirty' = (dirty \/ (plan' = "completed" <=> ~IsComplete(nodes, Type, status)))
  /\ JobDone(h)
  /\ UNCHANGED <<nodes, gone, status, queue, req, ops>>

-----------------------------------------------------------------------------
Quiescent ==
  /\ queue = <<>>
  /\ \A r \in Request : ReqAt(r, "idle")
  /\ \A h \in Handler : JobAt(h, "idle")

(* An await rejects: the request or the callback ends there, except that a  *)
(* failed promotion is logged and forgotten.                                *)
Fail ==
  /\ \/ \E r \in Request \cap Mortal :
          /\ ~ReqAt(r, "idle")
          /\ IF ReqAt(r, "promote") THEN ReqGoto(r, "publish") ELSE ReqDone(r)
          /\ UNCHANGED job
     \/ \E h \in Handler \cap Mortal : ~JobAt(h, "idle") /\ JobDone(h) /\ UNCHANGED req
  /\ dirty' = TRUE
  /\ UNCHANGED <<nodes, gone, status, plan, queue, ops>>

(* The process dies: NOTIFY keeps nothing for a listener that is gone. *)
Restart ==
  /\ "restart" \in Allowed /\ ops < MaxOps
  /\ queue' = <<>>
  /\ req' = [r \in Request |-> NoReq]
  /\ job' = [h \in Handler |-> NoJob]
  /\ dirty' = (dirty \/ ~Quiescent)
  /\ ops' = ops + 1
  /\ UNCHANGED <<nodes, gone, status, plan>>

ReqStep(r) == WriteStatus(r) \/ ReadDraft(r) \/ Promote(r) \/ Publish(r)

Propagate(h) ==
  \/ ListDownstream(h) \/ CheckTarget(h) \/ ListUpstream(h) \/ CheckBlocker(h)
  \/ Unblock(h) \/ ReadNode(h) \/ CheckSiblings(h) \/ ReadParent(h)
  \/ CompleteParent(h)

MaintainPlan(h) == ReadPlanStatus(h) \/ Rollup(h) \/ SetPlan(h)

JobStep(h) == Propagate(h) \/ MaintainPlan(h)

Next ==
  \/ \E r \in Request : UpdateNodeStatus(r) \/ ReqStep(r)
  \/ \E h \in Handler : Deliver(h) \/ JobStep(h)
  \/ CreateNode \/ DeleteNode \/ Fail \/ Restart

Spec == Init /\ [][Next]_vars

(* The event loop resumes every awaited call and PostgreSQL delivers. *)
FairSpec ==
  /\ Spec
  /\ \A r \in Request : WF_vars(ReqStep(r))
  /\ \A h \in Handler : WF_vars(JobStep(h))
  /\ WF_vars(\E h \in Handler : Deliver(h))

-----------------------------------------------------------------------------
(* Propagation acts on facts: when a callback unblocks a task, every blocker *)
(* is completed, except those that somebody else wrote or deleted while the  *)
(* callback judged them; the task itself was blocked, but for a like race.   *)
UnblockJustified ==
  [][\A h \in Handler :
       Unblock(h) =>
         LET t == job[h].target
         IN  /\ \A b \in Blockers(t) : status[b] = "completed" \/ b \in job[h].touched
             /\ status[t] = "blocked" \/ t \in job[h].touched]_vars

(* When a callback completes a parent, all its children are completed and it *)
(* has at least one, except for children that others wrote, added or deleted *)
(* while the callback judged them.                                           *)
CompletionJustified ==
  [][\A h \in Handler :
       CompleteParent(h) =>
         LET p == Parent[job[h].node]
         IN  /\ p # Root
             /\ \A c \in Children(p) : status[c] = "completed" \/ c \in job[h].touched
             /\ \E c \in Node : Parent[c] = p /\ (c \in nodes \/ c \in job[h].touched)]_vars

(* Is the completion of n still to be processed?  (Queued, or its callback   *)
(* is about to list what n blocks.)                                          *)
Pending(n) ==
  \/ \E i \in DOMAIN queue : queue[i] = [node |-> n, new |-> "completed"]
  \/ \E h \in Handler : JobAt(h, "downstream") /\ job[h].node = n

Ready(t) == t \in nodes /\ status[t] = "blocked" /\ Blockers(t) # {}
            /\ \A b \in Blockers(t) : status[b] = "completed"

(* No lost wake-up: when the completion of a blocker is announced and all    *)
(* blockers of a blocked task are completed, the task is unblocked, although *)
(* the callbacks of several blockers run at once and each one reads the      *)
(* blockers one by one.  (Unless the blocker itself is deleted first.)       *)
WakesTarget ==
  \A e \in Edge :
    (e[1] \in nodes /\ Pending(e[1]) /\ Ready(e[2]))
      ~> (~Ready(e[2]) \/ e[1] \notin nodes)

AllDone(p) == p \in nodes /\ status[p] # "completed" /\ Children(p) # {}
              /\ \A c \in Children(p) : status[c] = "completed"

(* The phase whose last child is completed gets completed, and so do the     *)
(* containers above it, whichever callback comes last.  (Unless the child is *)
(* deleted first: deleteNode announces nothing.)                             *)
CompletesParent ==
  \A c \in {n \in Node : Parent[n] \notin {Root, Nil}} :
    (c \in nodes /\ Pending(c) /\ AllDone(Parent[c]))
      ~> (~AllDone(Parent[c]) \/ c \notin nodes)

(* Once nothing is in flight the plan is completed exactly if all its work   *)
(* is, and its progress was brought up to date by callbacks that ran         *)
(* concurrently and in no particular order; unless something happened that   *)
(* no callback makes up for: a change that was not announced (a stale read   *)
(* before the write, a work session, a node added or deleted), a status or a *)
(* plan written after what justified it had changed, a failure.              *)
PlanSettled ==
  Quiescent /\ ~dirty /\ plan \in {"active", "completed"} =>
    (plan = "completed" <=>
       /\ WorkNodes(nodes, Type) # {}
       /\ \A n \in WorkNodes(nodes, Type) : status[n] = "completed")

(* Once nothing is in flight, no task waits for completed blockers and no    *)
(* container for completed children, with the same exceptions.               *)
TreeSettled ==
  Quiescent /\ ~dirty =>
    /\ \A t \in nodes : ~Ready(t)
    /\ \A p \in nodes \ {Root} : ~AllDone(p)

(* A plan at rest is settled: its own status and the statuses in its tree say *)
(* what the propagation was to make them say.                                 *)
Settled == PlanSettled /\ TreeSettled

-----------------------------------------------------------------------------
(* What the documentation says and the code does not do (see the findings). *)

(* Completing the last blocker of a blocked task unblocks the task. *)
CompletionUnblocks ==
  \A t \in Node : Ready(t) ~> ~Ready(t)
=============================================================================
