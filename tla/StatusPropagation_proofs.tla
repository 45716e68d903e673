---------------------- MODULE StatusPropagation_proofs ----------------------
(***************************************************************************)
(* What holds of StatusPropagation for any tree, edges, requests and        *)
(* callbacks: a callback unblocks a task or completes a parent only on      *)
(* facts, but for what others wrote while it judged them; and a plan that   *)
(* is settled at first is settled whenever nothing is in flight.            *)
(*                                                                         *)
(* For the first, what a callback has found out stays true of the nodes     *)
(* that it has not seen touched (Judged).  For the second, whatever is not  *)
(* settled is watched: a request, an event or a callback that will make up  *)
(* for it is underway (Watched), and none of the steps loses one that is    *)
(* still needed.                                                           *)
(***************************************************************************)
EXTENDS StatusPropagation, SequenceTheorems, FiniteSetTheorems, TLAPS

-----------------------------------------------------------------------------
(* The invariant, callback by callback. *)

JobOK(j) ==
  /\ j \in JobState
  /\ j.pc # "idle" => j.node \in Node
  /\ j.pc \in {"upstream", "blockers"} => j.target \in Node
  /\ j.pc \in {"siblings", "parent", "complete"} => j.node # Root

ReqOK(q) == q \in ReqState /\ (q.pc # "idle" => q.node \in Node)

(* What the callback j has found out still holds of the nodes N, without   *)
(* the deleted nodes G, with the statuses S, except for the nodes others   *)
(* touched.                                                                *)
StillTrue(N, G, S, j) ==
  /\ j.pc \in {"upstream", "blockers"} => j.target \in N \cup G
  /\ j.pc \in {"upstream", "blockers"} =>
       S[j.target] = "blocked" \/ j.target \in j.touched
  /\ j.pc = "blockers" =>
       \A b \in N : <<b, j.target>> \in Edge /\ j.target \in N =>
         b \in j.blockers \/ S[b] = "completed" \/ b \in j.touched
  /\ j.pc \in {"siblings", "parent", "complete"} => j.node \in N \cup j.touched
  /\ j.pc \in {"parent", "complete"} =>
       \A c \in N : Parent[c] = Parent[j.node] => S[c] = "completed" \/ c \in j.touched
  /\ j.pc = "complete" => Parent[j.node] # Root

Judged == \A h \in Handler : StillTrue(nodes, gone, status, job[h])

(* Everything of TypeOK but the callbacks. *)
RestOK ==
  /\ nodes \subseteq Node /\ gone \subseteq Node \ nodes
  /\ status \in [Node -> Status]
  /\ plan \in PlanStatus
  /\ queue \in Seq(Event)
  /\ req = [r \in Request |-> req[r]]
  /\ \A r \in Request : ReqOK(req[r])
  /\ ops \in 0 .. MaxOps
  /\ dirty \in BOOLEAN

JobsOK ==
  /\ job = [h \in Handler |-> job[h]]
  /\ \A h \in Handler : JobOK(job[h])

(* TypeOK, slot by slot. *)
LEMMA TypeBySlot ==
  (TypeOK <=> RestOK /\ JobsOK) /\ (TypeOK' <=> RestOK' /\ JobsOK')
  BY DEF TypeOK, RestOK, JobsOK, JobOK, ReqOK

(* Free slots are well typed, and a free callback claims nothing. *)
LEMMA FreeOK == JobOK(NoJob) /\ ReqOK(NoReq) /\ \A N, G, S : StillTrue(N, G, S, NoJob)
  BY DEF JobOK, ReqOK, NoJob, NoReq, JobState, ReqState, JobPc, ReqPc, Status,
         PlanStatus, StillTrue

(* The first state is well typed. *)
LEMMA InitOK == Init => TypeOK /\ Judged
<1> SUFFICES ASSUME Init PROVE TypeOK /\ Judged
  OBVIOUS
<1>1. JobsOK /\ Judged
  BY FreeOK DEF Init, JobsOK, Judged
<1>2. \A r \in Request : ReqOK(req[r])
  BY FreeOK DEF Init
<1>3. queue \in Seq(Event)
  BY DEF Init
<1>4. ops \in 0 .. MaxOps
  BY SPAssumption DEF Init
<1> QED
  BY <1>1, <1>2, <1>3, <1>4, TypeBySlot, SPAssumption DEF Init, RestOK

-----------------------------------------------------------------------------
(* How a step changes the callbacks. *)

(* What others see of a write to the nodes of N. *)
Touched(j, N) ==
  IF j.pc \notin Judging THEN j ELSE [j EXCEPT !.touched = @ \cup N]

(* Only the nodes of N are added, deleted or written. *)
Writes(N) ==
  /\ \A n \in Node \ N : (n \in nodes' <=> n \in nodes) /\ status'[n] = status[n]
  /\ nodes \subseteq nodes' \cup gone' /\ gone \subseteq gone'

(* A callback that learns which nodes were written still knows the truth. *)
LEMMA TouchedOK ==
  ASSUME TypeOK, NEW N \in SUBSET Node, Writes(N), RestOK',
         NEW h \in Handler, StillTrue(nodes, gone, status, job[h])
  PROVE  /\ JobOK(Touched(job[h], N))
         /\ StillTrue(nodes', gone', status', Touched(job[h], N))
<1> DEFINE j == job[h]
           k == [j EXCEPT !.touched = @ \cup N]
<1>1. JobOK(j)
  BY TypeBySlot DEF JobsOK
<1>2. CASE j.pc \notin Judging
  <2>1. Touched(j, N) = j
    BY <1>2 DEF Touched
  <2>2. StillTrue(nodes', gone', status', j)
    BY <1>2 DEF StillTrue, Judging
  <2> QED
    BY <1>1, <2>1, <2>2
<1>3. CASE j.pc \in Judging
  <2>1. Touched(j, N) = k
    BY <1>3 DEF Touched
  <2>2. /\ j.pc \in JobPc /\ j.targets \in SUBSET Node /\ j.blockers \in SUBSET Node
        /\ j.planSeen \in PlanStatus /\ j.touched \in SUBSET Node
        /\ j.node \in Node \cup {Nil} /\ j.target \in Node \cup {Nil} /\ j \in JobState
    BY <1>1 DEF JobOK, JobState
  <2>3. /\ k.pc = j.pc /\ k.node = j.node /\ k.target = j.target
        /\ k.targets = j.targets /\ k.blockers = j.blockers
        /\ k.planSeen = j.planSeen /\ k.touched = j.touched \cup N
        /\ k \in JobState
    BY <2>2 DEF JobState
  <2> HIDE DEF k
  <2>4. JobOK(k)
    BY <1>1, <2>3 DEF JobOK
  <2>5. StillTrue(nodes', gone', status', k)
    <3>1. j.pc \in {"upstream", "blockers"} =>
            status'[j.target] = "blocked" \/ j.target \in k.touched
      BY <1>1, <2>3 DEF StillTrue, Writes, JobOK, RestOK
    <3>2. j.pc = "blockers" =>
            \A b \in nodes' : <<b, j.target>> \in Edge /\ j.target \in nodes' =>
              b \in j.blockers \/ status'[b] = "completed" \/ b \in k.touched
      <4> SUFFICES ASSUME j.pc = "blockers", NEW b \in nodes',
                          <<b, j.target>> \in Edge, j.target \in nodes', b \notin N
                   PROVE  b \in j.blockers \/ status'[b] = "completed" \/ b \in k.touched
        BY <2>3
      <4>1. CASE j.target \in nodes
        <5>1. b \in nodes /\ status'[b] = status[b]
          BY DEF Writes, RestOK
        <5> QED
          BY <5>1, <4>1, <2>3 DEF StillTrue
      <4>2. j.target \in nodes
        BY <2>3 DEF StillTrue, Writes, RestOK
      <4> QED
        BY <4>1, <4>2
    <3>3. j.pc \in {"siblings", "parent", "complete"} => j.node \in nodes' \cup k.touched
      BY <1>1, <2>3 DEF StillTrue, Writes, JobOK, RestOK
    <3>4. j.pc \in {"parent", "complete"} =>
            \A c \in nodes' : Parent[c] = Parent[j.node] =>
              status'[c] = "completed" \/ c \in k.touched
      BY <1>1, <2>3 DEF StillTrue, Writes, JobOK, RestOK
    <3>5. j.pc \in {"upstream", "blockers"} => j.target \in nodes' \cup gone'
      BY DEF StillTrue, Writes
    <3> QED
      BY <2>3, <3>1, <3>2, <3>3, <3>4, <3>5 DEF StillTrue
  <2> QED
    BY <2>1, <2>4, <2>5
<1> QED
  BY <1>2, <1>3

(* A step that writes the nodes of N, moves the callbacks of M correctly   *)
(* and tells the others keeps the invariant.                               *)
LEMMA StepOK ==
  ASSUME TypeOK, Judged, RestOK', NEW N \in SUBSET Node, Writes(N), NEW M,
         job' = [h \in Handler |-> job'[h]],
         \A h \in Handler \ M : job'[h] = Touched(job[h], N),
         \A h \in Handler \cap M : JobOK(job'[h]) /\ StillTrue(nodes', gone', status', job'[h])
  PROVE  (TypeOK /\ Judged)'
<1>1. ASSUME NEW h \in Handler
      PROVE  JobOK(job'[h]) /\ StillTrue(nodes', gone', status', job'[h])
  <2>1. CASE h \in M
    BY <2>1
  <2>2. CASE h \notin M
    <3>1. job'[h] = Touched(job[h], N) 
      BY <2>2
    <3> QED
      BY <3>1, TouchedOK DEF Judged
  <2> QED
    BY <2>1, <2>2
<1>2. JobsOK'
  BY <1>1 DEF JobsOK
<1>3. Judged'
  BY <1>1 DEF Judged
<1> QED
  BY <1>2, <1>3, TypeBySlot

(* The special case of a callback that writes nothing others judge. *)
LEMMA QuietStep ==
  ASSUME TypeOK, Judged, RestOK', UNCHANGED <<nodes, gone, status>>,
         NEW h \in Handler, NEW j, JobOK(j), StillTrue(nodes, gone, status, j),
         job' = [job EXCEPT ![h] = j]
  PROVE  (TypeOK /\ Judged)'
<1>1. JobsOK
  BY TypeBySlot
<1>2. job' = [i \in Handler |-> job'[i]] /\ job'[h] = j
      /\ \A i \in Handler \ {h} : job'[i] = job[i]
  BY <1>1 DEF JobsOK
<1>3. \A i \in Handler : JobOK(job'[i]) /\ StillTrue(nodes', gone', status', job'[i])
  BY <1>1, <1>2 DEF JobsOK, Judged
<1>4. JobsOK' /\ Judged'
  BY <1>2, <1>3 DEF JobsOK, Judged
<1> QED
  BY <1>4, TypeBySlot

(* Going on to a step that judges nothing, or with what is known. *)
LEMMA GotoOK ==
  ASSUME TypeOK, NEW h \in Handler, NEW p \in JobPc, JobGoto(h, p),
         job[h].pc # "idle"
  PROVE  \E j \in JobState :
            /\ job' = [job EXCEPT ![h] = j]
            /\ j.pc = p /\ j.node = job[h].node /\ j.node \in Node
            /\ p \in Judging => j.touched = job[h].touched
<1> DEFINE j == [job[h] EXCEPT !.pc = p, !.touched = IF p \in Judging THEN @ ELSE {}]
<1>1. JobsOK
  BY TypeBySlot
<1>2. job[h] \in JobState /\ job[h].node \in Node
  BY <1>1 DEF JobsOK, JobOK
<1>3. job' = [job EXCEPT ![h] = j]
  BY <1>1, <1>2 DEF JobGoto, JobState, JobsOK
<1>4. /\ j \in JobState /\ j.pc = p /\ j.node = job[h].node
      /\ p \in Judging => j.touched = job[h].touched
  BY <1>2 DEF JobState
<1> QED
  BY <1>2, <1>3, <1>4

(* A step of the callbacks that writes nothing but their own state. *)
LEMMA RestSame ==
  ASSUME RestOK, UNCHANGED <<nodes, gone, status, plan, queue, req, ops, dirty>>
  PROVE  RestOK'
  BY DEF RestOK, ReqOK

-----------------------------------------------------------------------------
(* The steps of a callback that only read. *)

(* The dependants are listed: nothing is claimed of them yet. *)
LEMMA ListDownstreamOK ==
  ASSUME TypeOK, Judged, NEW h \in Handler, ListDownstream(h)
  PROVE  (TypeOK /\ Judged)'
<1> DEFINE j == [job[h] EXCEPT !.pc = "targets", !.targets = Targets(job[h].node)]
<1>1. RestOK' /\ UNCHANGED <<nodes, gone, status>>
  BY TypeBySlot, RestSame DEF ListDownstream
<1>2. JobsOK /\ RestOK
  BY TypeBySlot
<1>3. JobOK(job[h]) /\ job[h].pc = "downstream" /\ Targets(job[h].node) \subseteq Node
  BY <1>2 DEF JobsOK, RestOK, ListDownstream, JobAt, Targets
<1>4. j \in JobState /\ j.pc = "targets" /\ j.node = job[h].node
  BY <1>3 DEF JobOK, JobState, JobPc
<1>5. job' = [job EXCEPT ![h] = j]
  BY <1>2, <1>3 DEF ListDownstream, JobsOK, JobOK, JobState
<1> HIDE DEF j
<1>6. JobOK(j) /\ StillTrue(nodes, gone, status, j)
  BY <1>3, <1>4 DEF JobOK, StillTrue
<1> QED
  BY <1>1, <1>5, <1>6, QuietStep

(* The callback goes on to a target that is blocked, or past it. *)
LEMMA CheckTargetOK ==
  ASSUME TypeOK, Judged, NEW h \in Handler, CheckTarget(h)
  PROVE  (TypeOK /\ Judged)'
<1>1. RestOK' /\ UNCHANGED <<nodes, gone, status>>
  BY TypeBySlot, RestSame DEF CheckTarget
<1>2. JobsOK /\ RestOK
  BY TypeBySlot
<1>3. JobOK(job[h]) /\ job[h].pc = "targets" /\ job[h].targets \subseteq Node
  BY <1>2 DEF JobsOK, JobOK, JobState, CheckTarget, JobAt
<1>4. ASSUME NEW t \in job[h].targets, t \in nodes, status[t] = "blocked",
             job' = [job EXCEPT ![h].pc = "upstream", ![h].target = t,
                                ![h].targets = @ \ {t}]
      PROVE  (TypeOK /\ Judged)'
  <2> DEFINE j == [job[h] EXCEPT !.pc = "upstream", !.target = t, !.targets = @ \ {t}]
  <2>1. j \in JobState /\ j.pc = "upstream" /\ j.node = job[h].node /\ j.target = t
    BY <1>3 DEF JobOK, JobState, JobPc
  <2>2. job' = [job EXCEPT ![h] = j]
    BY <1>2, <1>3, <1>4 DEF JobsOK, JobOK, JobState
  <2> HIDE DEF j
  <2>3. JobOK(j) /\ StillTrue(nodes, gone, status, j)
    BY <1>3, <1>4, <2>1 DEF JobOK, StillTrue
  <2> QED
    BY <1>1, <2>2, <2>3, QuietStep
<1>5. ASSUME NEW t \in job[h].targets, job' = [job EXCEPT ![h].targets = @ \ {t}]
      PROVE  (TypeOK /\ Judged)'
  <2> DEFINE j == [job[h] EXCEPT !.targets = @ \ {t}]
  <2>1. j \in JobState /\ j.pc = "targets" /\ j.node = job[h].node
    BY <1>3 DEF JobOK, JobState
  <2>2. job' = [job EXCEPT ![h] = j]
    BY <1>2, <1>3, <1>5 DEF JobsOK, JobOK, JobState
  <2> HIDE DEF j
  <2>3. JobOK(j) /\ StillTrue(nodes, gone, status, j)
    BY <1>3, <2>1 DEF JobOK, StillTrue
  <2> QED
    BY <1>1, <2>2, <2>3, QuietStep
<1>6. ASSUME JobGoto(h, "node") PROVE (TypeOK /\ Judged)'
  <2>1. PICK j : /\ job' = [job EXCEPT ![h] = j] /\ j \in JobState
                 /\ j.pc = "node" /\ j.node \in Node
    <3>1. "node" \in JobPc
      BY DEF JobPc
    <3> QED
      BY <3>1, <1>3, <1>6, GotoOK
  <2>2. JobOK(j) /\ StillTrue(nodes, gone, status, j)
    BY <2>1 DEF JobOK, StillTrue
  <2> QED
    BY <1>1, <2>1, <2>2, QuietStep
<1> QED
  BY <1>4, <1>5, <1>6 DEF CheckTarget

(* The blockers that exist are listed: none is claimed to be completed     *)
(* yet.                                                                    *)
LEMMA ListUpstreamOK ==
  ASSUME TypeOK, Judged, NEW h \in Handler, ListUpstream(h)
  PROVE  (TypeOK /\ Judged)'
<1> DEFINE j == [job[h] EXCEPT !.pc = "blockers", !.blockers = Blockers(job[h].target)]
<1>1. RestOK' /\ UNCHANGED <<nodes, gone, status>>
  BY TypeBySlot, RestSame DEF ListUpstream
<1>2. JobsOK /\ RestOK
  BY TypeBySlot
<1>3. /\ JobOK(job[h]) /\ job[h].pc = "upstream" /\ Blockers(job[h].target) \subseteq Node
      /\ StillTrue(nodes, gone, status, job[h])
  BY <1>2 DEF JobsOK, RestOK, ListUpstream, JobAt, Blockers, Judged
<1>4. /\ j \in JobState /\ j.pc = "blockers" /\ j.node = job[h].node
      /\ j.target = job[h].target /\ j.blockers = Blockers(job[h].target)
      /\ j.touched = job[h].touched
  BY <1>3 DEF JobOK, JobState, JobPc
<1>5. job' = [job EXCEPT ![h] = j]
  BY <1>2, <1>3 DEF ListUpstream, JobsOK, JobOK, JobState
<1> HIDE DEF j
<1>6. JobOK(j) /\ StillTrue(nodes, gone, status, j)
  BY <1>3, <1>4 DEF JobOK, StillTrue, Blockers
<1> QED
  BY <1>1, <1>5, <1>6, QuietStep

(* A blocker is ticked off only when it is completed or has been deleted. *)
LEMMA CheckBlockerOK ==
  ASSUME TypeOK, Judged, NEW h \in Handler, CheckBlocker(h)
  PROVE  (TypeOK /\ Judged)'
<1>1. RestOK' /\ UNCHANGED <<nodes, gone, status>>
  BY TypeBySlot, RestSame DEF CheckBlocker
<1>2. JobsOK /\ RestOK
  BY TypeBySlot
<1>3. /\ JobOK(job[h]) /\ job[h].pc = "blockers" /\ job[h].blockers \subseteq Node
      /\ StillTrue(nodes, gone, status, job[h])
  BY <1>2 DEF JobsOK, JobOK, JobState, CheckBlocker, JobAt, Judged
<1>4. ASSUME job' = [job EXCEPT ![h].pc = "targets", ![h].blockers = {}, ![h].touched = {}]
      PROVE  (TypeOK /\ Judged)'
  <2> DEFINE j == [job[h] EXCEPT !.pc = "targets", !.blockers = {}, !.touched = {}]
  <2>1. j \in JobState /\ j.pc = "targets" /\ j.node = job[h].node
    BY <1>3 DEF JobOK, JobState, JobPc
  <2>2. job' = [job EXCEPT ![h] = j]
    BY <1>2, <1>3, <1>4 DEF JobsOK, JobOK, JobState
  <2> HIDE DEF j
  <2>3. JobOK(j) /\ StillTrue(nodes, gone, status, j)
    BY <1>3, <2>1 DEF JobOK, StillTrue
  <2> QED
    BY <1>1, <2>2, <2>3, QuietStep
<1>5. ASSUME NEW b \in job[h].blockers, ~(b \in nodes /\ status[b] # "completed"),
             job' = [job EXCEPT ![h].blockers = @ \ {b}]
      PROVE  (TypeOK /\ Judged)'
  <2> DEFINE j == [job[h] EXCEPT !.blockers = @ \ {b}]
  <2>1. /\ j \in JobState /\ j.pc = "blockers" /\ j.node = job[h].node
        /\ j.target = job[h].target /\ j.blockers = job[h].blockers \ {b}
        /\ j.touched = job[h].touched
    BY <1>3 DEF JobOK, JobState
  <2>2. job' = [job EXCEPT ![h] = j]
    BY <1>2, <1>3, <1>5 DEF JobsOK, JobOK, JobState
  <2> HIDE DEF j
  <2>3. JobOK(j) /\ StillTrue(nodes, gone, status, j)
    BY <1>3, <1>5, <2>1 DEF JobOK, StillTrue
  <2> QED
    BY <1>1, <2>2, <2>3, QuietStep
<1> QED
  BY <1>4, <1>5 DEF CheckBlocker

(* A node that is deleted meanwhile is not judged by its siblings. *)
LEMMA ReadNodeOK ==
  ASSUME TypeOK, Judged, NEW h \in Handler, ReadNode(h)
  PROVE  (TypeOK /\ Judged)'
<1> DEFINE p == IF job[h].node \in nodes /\ job[h].node # Root
                THEN "siblings" ELSE "readplan"
<1>1. RestOK' /\ UNCHANGED <<nodes, gone, status>>
  BY TypeBySlot, RestSame DEF ReadNode
<1>2. p \in JobPc /\ JobGoto(h, p) /\ job[h].pc # "idle"
  BY DEF ReadNode, JobPc, JobAt
<1>3. PICK j \in JobState :
         job' = [job EXCEPT ![h] = j] /\ j.pc = p /\ j.node = job[h].node /\ j.node \in Node
  BY <1>2, GotoOK
<1>4. JobOK(j) /\ StillTrue(nodes, gone, status, j)
  BY <1>3 DEF JobOK, StillTrue
<1> QED
  BY <1>1, <1>3, <1>4, QuietStep

(* All children are read at once. *)
LEMMA CheckSiblingsOK ==
  ASSUME TypeOK, Judged, NEW h \in Handler, CheckSiblings(h)
  PROVE  (TypeOK /\ Judged)'
<1> DEFINE p == IF \A c \in Children(Parent[job[h].node]) : status[c] = "completed"
                THEN "parent" ELSE "readplan"
<1>1. RestOK' /\ UNCHANGED <<nodes, gone, status>>
  BY TypeBySlot, RestSame DEF CheckSiblings
<1>2. p \in JobPc /\ JobGoto(h, p) /\ job[h].pc = "siblings"
  BY DEF CheckSiblings, JobPc, JobAt
<1>3. PICK j \in JobState :
         /\ job' = [job EXCEPT ![h] = j] /\ j.pc = p /\ j.node = job[h].node
         /\ j.node \in Node /\ (p \in Judging => j.touched = job[h].touched)
  BY <1>2, GotoOK
<1>4. JobOK(job[h]) /\ StillTrue(nodes, gone, status, job[h])
  BY TypeBySlot DEF JobsOK, Judged
<1>5. JobOK(j) /\ StillTrue(nodes, gone, status, j)
  BY <1>2, <1>3, <1>4 DEF JobOK, StillTrue, Children, Judging
<1> QED
  BY <1>1, <1>3, <1>5, QuietStep

(* The root of the plan is never completed this way. *)
LEMMA ReadParentOK ==
  ASSUME TypeOK, Judged, NEW h \in Handler, ReadParent(h)
  PROVE  (TypeOK /\ Judged)'
<1> DEFINE q == Parent[job[h].node]
           p == IF q \in nodes /\ status[q] # "completed" /\ q # Root
                THEN "complete" ELSE "readplan"
<1>1. RestOK' /\ UNCHANGED <<nodes, gone, status>>
  BY TypeBySlot, RestSame DEF ReadParent
<1>2. p \in JobPc /\ JobGoto(h, p) /\ job[h].pc = "parent"
  BY DEF ReadParent, JobPc, JobAt
<1>3. PICK j \in JobState :
         /\ job' = [job EXCEPT ![h] = j] /\ j.pc = p /\ j.node = job[h].node
         /\ j.node \in Node /\ (p \in Judging => j.touched = job[h].touched)
  BY <1>2, GotoOK
<1>4. JobOK(job[h]) /\ StillTrue(nodes, gone, status, job[h])
  BY TypeBySlot DEF JobsOK, Judged
<1>5. JobOK(j) /\ StillTrue(nodes, gone, status, j)
  BY <1>2, <1>3, <1>4 DEF JobOK, StillTrue, Judging
<1> QED
  BY <1>1, <1>3, <1>5, QuietStep

(* A callback that ends claims nothing. *)
LEMMA JobDoneOK ==
  ASSUME TypeOK, Judged, NEW h \in Handler, JobDone(h), RestOK',
         UNCHANGED <<nodes, gone, status>>
  PROVE  (TypeOK /\ Judged)'
  BY FreeOK, QuietStep DEF JobDone

(* maintainPlanStatus judges no node. *)
LEMMA MaintainPlanOK ==
  ASSUME TypeOK, Judged, NEW h \in Handler, MaintainPlan(h)
  PROVE  (TypeOK /\ Judged)'
<1>1. RestOK /\ JobsOK
  BY TypeBySlot
<1>2. CASE ReadPlanStatus(h)
  <2>1. RestOK' /\ UNCHANGED <<nodes, gone, status>>
    BY <1>1, <1>2, RestSame DEF ReadPlanStatus
  <2>2. CASE JobDone(h)
    BY <2>1, <2>2, JobDoneOK
  <2>3. CASE job' = [job EXCEPT ![h].pc = "rollup", ![h].planSeen = plan]
    <3> DEFINE j == [job[h] EXCEPT !.pc = "rollup", !.planSeen = plan]
    <3>1. JobOK(job[h]) /\ job[h].pc = "readplan" /\ plan \in PlanStatus
      BY <1>1, <1>2 DEF JobsOK, RestOK, ReadPlanStatus, JobAt
    <3>2. j \in JobState /\ j.pc = "rollup" /\ j.node = job[h].node
      BY <3>1 DEF JobOK, JobState, JobPc
    <3>3. job' = [job EXCEPT ![h] = j]
      BY <1>1, <2>3, <3>1 DEF JobsOK, JobOK, JobState
    <3> HIDE DEF j
    <3>4. JobOK(j) /\ StillTrue(nodes, gone, status, j)
      BY <3>1, <3>2 DEF JobOK, StillTrue
    <3> QED
      BY <2>1, <3>3, <3>4, QuietStep
  <2> QED
    BY <1>2, <2>2, <2>3 DEF ReadPlanStatus
<1>3. CASE Rollup(h)
  <2>1. RestOK' /\ UNCHANGED <<nodes, gone, status>>
    BY <1>1, <1>3, RestSame DEF Rollup
  <2>2. CASE JobDone(h)
    BY <2>1, <2>2, JobDoneOK
  <2>3. CASE JobGoto(h, "setplan")
    <3>1. "setplan" \in JobPc /\ job[h].pc # "idle"
      BY <1>3 DEF JobPc, Rollup, JobAt
    <3>2. PICK j \in JobState :
             job' = [job EXCEPT ![h] = j] /\ j.pc = "setplan" /\ j.node \in Node
      BY <2>3, <3>1, GotoOK
    <3>3. JobOK(j) /\ StillTrue(nodes, gone, status, j)
      BY <3>2 DEF JobOK, StillTrue
    <3> QED
      BY <2>1, <3>2, <3>3, QuietStep
  <2> QED
    BY <1>3, <2>2, <2>3 DEF Rollup
<1>4. CASE SetPlan(h)
  <2>1. /\ UNCHANGED <<nodes, gone, status, queue, req, ops>> /\ JobDone(h)
        /\ plan' \in PlanStatus /\ dirty' \in BOOLEAN
    BY <1>1, <1>4 DEF SetPlan, RestOK, PlanStatus
  <2>2. RestOK'
    BY <1>1, <2>1 DEF RestOK, ReqOK
  <2> QED
    BY <2>1, <2>2, JobDoneOK
<1> QED
  BY <1>2, <1>3, <1>4 DEF MaintainPlan

-----------------------------------------------------------------------------
(* The steps that write or that others start. *)

(* UPDATE touches one row at most, which is there before and after. *)
LEMMA SetStatusOK ==
  ASSUME RestOK, NEW n \in Node, NEW s \in Status, SetStatus(n, s), UNCHANGED <<nodes, gone>>
  PROVE  Writes({n}) /\ status' \in [Node -> Status]
  BY DEF RestOK, SetStatus, Writes

(* Touch tells every callback but h. *)
LEMMA TouchOK ==
  ASSUME NEW j, NEW h, NEW N, job' = Touch(j, h, N)
  PROVE  /\ job' = [i \in Handler |-> job'[i]]
         /\ \A i \in Handler : job'[i] = IF i = h THEN j[i] ELSE Touched(j[i], N)
  BY DEF Touch, Touched

(* A write outside the callbacks is seen by all of them. *)
LEMMA OutsideOK ==
  ASSUME TypeOK, Judged, RestOK', NEW N \in SUBSET Node, Writes(N), job' = Touch(job, Nil, N)
  PROVE  (TypeOK /\ Judged)'
<1>1. Nil \notin Handler
  BY SPAssumption
<1>2. /\ job' = [i \in Handler |-> job'[i]]
      /\ \A i \in Handler \ {} : job'[i] = Touched(job[i], N)
  BY <1>1, TouchOK
<1>3. \A i \in Handler \cap {} : JobOK(job'[i]) /\ StillTrue(nodes', gone', status', job'[i])
  OBVIOUS
<1> QED
  BY <1>2, <1>3, StepOK, Zenon

(* A callback that writes nodes, and moves on without a claim. *)
LEMMA WriteStepOK ==
  ASSUME TypeOK, Judged, RestOK', NEW h \in Handler, NEW N \in SUBSET Node, Writes(N),
         NEW k, JobOK(k), k.pc \notin Judging, job' = Touch([job EXCEPT ![h] = k], h, N)
  PROVE  (TypeOK /\ Judged)'
<1>1. JobsOK
  BY TypeBySlot
<1>2. /\ job' = [i \in Handler |-> job'[i]] /\ job'[h] = k
      /\ \A i \in Handler \ {h} : job'[i] = Touched(job[i], N)
  BY <1>1, TouchOK DEF JobsOK
<1>3. StillTrue(nodes', gone', status', k)
  BY DEF StillTrue, Judging
<1>4. \A i \in Handler \cap {h} : JobOK(job'[i]) /\ StillTrue(nodes', gone', status', job'[i])
  BY <1>2, <1>3
<1> QED
  BY <1>2, <1>4, StepOK, Zenon

(* The dependant becomes not_started. *)
LEMMA UnblockOK ==
  ASSUME TypeOK, Judged, NEW h \in Handler, Unblock(h)
  PROVE  (TypeOK /\ Judged)'
<1> DEFINE t == job[h].target
           k == [job[h] EXCEPT !.pc = "targets", !.touched = {}]
<1>1. RestOK /\ JobsOK
  BY TypeBySlot
<1>2. JobOK(job[h]) /\ t \in Node
  BY <1>1 DEF JobsOK, JobOK, Unblock, JobAt
<1>3. Writes({t}) /\ status' \in [Node -> Status]
  BY <1>1, <1>2, SetStatusOK DEF Unblock, Status
<1>4. RestOK'
  BY <1>1, <1>3 DEF RestOK, ReqOK, Unblock
<1>5. k \in JobState /\ k.pc = "targets" /\ k.node = job[h].node
  BY <1>2 DEF JobOK, JobState, JobPc
<1>6. job' = Touch([job EXCEPT ![h] = k], h, {t})
  BY <1>1, <1>2 DEF Unblock, JobsOK, JobOK, JobState
<1>7. job[h].pc = "blockers"
  BY DEF Unblock, JobAt
<1> HIDE DEF k
<1>8. JobOK(k) /\ k.pc \notin Judging
  BY <1>2, <1>5, <1>7 DEF JobOK, Judging
<1> QED
  BY <1>2, <1>3, <1>4, <1>6, <1>8, WriteStepOK

(* The parent is completed, and is the next node to propagate. *)
LEMMA CompleteParentOK ==
  ASSUME TypeOK, Judged, NEW h \in Handler, CompleteParent(h)
  PROVE  (TypeOK /\ Judged)'
<1> DEFINE p == Parent[job[h].node]
           k == [job[h] EXCEPT !.pc = "downstream", !.node = p, !.touched = {}]
<1>1. RestOK /\ JobsOK
  BY TypeBySlot
<1>2. JobOK(job[h]) /\ job[h].node \in Node /\ p \in Node
  BY <1>1, SPAssumption DEF JobsOK, JobOK, CompleteParent, JobAt
<1>3. Writes({p}) /\ status' \in [Node -> Status]
  BY <1>1, <1>2, SetStatusOK DEF CompleteParent, Status
<1>4. RestOK'
  BY <1>1, <1>3 DEF RestOK, ReqOK, CompleteParent
<1>5. k \in JobState /\ k.pc = "downstream" /\ k.node = p
  BY <1>2 DEF JobOK, JobState, JobPc
<1>6. job' = Touch([job EXCEPT ![h] = k], h, {p})
  BY <1>1, <1>2 DEF CompleteParent, JobsOK, JobOK, JobState
<1> HIDE DEF k
<1>7. JobOK(k) /\ k.pc \notin Judging
  BY <1>2, <1>5 DEF JobOK, Judging
<1> QED
  BY <1>2, <1>3, <1>4, <1>6, <1>7, WriteStepOK

(* One step of propagateStatus. *)
LEMMA PropagateOK ==
  ASSUME TypeOK, Judged, NEW h \in Handler, Propagate(h)
  PROVE  (TypeOK /\ Judged)'
  BY ListDownstreamOK, CheckTargetOK, ListUpstreamOK, CheckBlockerOK, UnblockOK,
     ReadNodeOK, CheckSiblingsOK, ReadParentOK, CompleteParentOK DEF Propagate

(* A callback starts with the node of the oldest notification. *)
LEMMA DeliverOK ==
  ASSUME TypeOK, Judged, NEW h \in Handler, Deliver(h)
  PROVE  (TypeOK /\ Judged)'
<1> DEFINE p == IF Head(queue).new = "completed" THEN "downstream" ELSE "readplan"
           j == [NoJob EXCEPT !.node = Head(queue).node, !.pc = p]
<1>1. RestOK /\ JobsOK
  BY TypeBySlot
<1>2. Head(queue) \in Event /\ Tail(queue) \in Seq(Event)
  BY <1>1, HeadTailProperties DEF RestOK, Deliver
<1>3. RestOK' /\ UNCHANGED <<nodes, gone, status>>
  BY <1>1, <1>2 DEF RestOK, ReqOK, Deliver
<1>4. j \in JobState /\ j.pc = p /\ j.node \in Node
  BY <1>2, FreeOK DEF JobOK, NoJob, JobState, JobPc, Event, PlanStatus
<1>5. job' = [job EXCEPT ![h] = j]
  BY DEF Deliver
<1> HIDE DEF j
<1>6. JobOK(j) /\ StillTrue(nodes, gone, status, j)
  BY <1>4 DEF JobOK, StillTrue
<1> QED
  BY <1>3, <1>5, <1>6, QuietStep

-----------------------------------------------------------------------------
(* The requests. *)

(* A request that changes nothing the callbacks judge. *)
LEMMA SameJobsOK ==
  ASSUME TypeOK, Judged, RestOK', UNCHANGED <<nodes, gone, status, job>>
  PROVE  (TypeOK /\ Judged)'
<1>1. JobsOK'
  BY TypeBySlot DEF JobsOK, JobOK
<1>2. Judged'
  BY DEF Judged, StillTrue
<1> QED
  BY <1>1, <1>2, TypeBySlot

(* What a request is after its next statement. *)
LEMMA ReqWritten ==
  ASSUME RestOK, NEW r \in Request,
         \/ ReqDone(r)
         \/ req[r].pc # "idle" /\ \E p \in ReqPc : ReqGoto(r, p)
         \/ \E q : ReqOK(q) /\ req' = [req EXCEPT ![r] = q]
  PROVE  req' = [i \in Request |-> req'[i]] /\ \A i \in Request : ReqOK(req'[i])
<1>1. req = [i \in Request |-> req[i]] /\ \A i \in Request : ReqOK(req[i])
  BY DEF RestOK
<1>2. CASE ReqDone(r)
  BY <1>1, <1>2, FreeOK DEF ReqDone
<1>3. ASSUME req[r].pc # "idle", NEW p \in ReqPc, ReqGoto(r, p)
      PROVE  req' = [i \in Request |-> req'[i]] /\ \A i \in Request : ReqOK(req'[i])
  <2> DEFINE q == [req[r] EXCEPT !.pc = p]
  <2>1. ReqOK(q)
    BY <1>1, <1>3 DEF ReqOK, ReqState
  <2>2. req' = [req EXCEPT ![r] = q]
    BY <1>1, <1>3 DEF ReqGoto
  <2> HIDE DEF q
  <2> QED
    BY <1>1, <2>1, <2>2
<1>4. ASSUME NEW q, ReqOK(q), req' = [req EXCEPT ![r] = q]
      PROVE  req' = [i \in Request |-> req'[i]] /\ \A i \in Request : ReqOK(req'[i])
  BY <1>1, <1>4
<1> QED
  BY <1>2, <1>3, <1>4

(* A request reads a node that exists. *)
LEMMA UpdateOK ==
  ASSUME TypeOK, Judged, NEW r \in Request, UpdateNodeStatus(r)
  PROVE  (TypeOK /\ Judged)'
<1>1. RestOK
  BY TypeBySlot
<1>2. PICK n \in nodes \cap Worked, s \in Wanted, loud \in BOOLEAN :
         req' = [req EXCEPT ![r] = [pc |-> "write", node |-> n, old |-> status[n],
                                    new |-> s, loud |-> loud]]
  BY DEF UpdateNodeStatus
<1>3. ReqOK([pc |-> "write", node |-> n, old |-> status[n], new |-> s, loud |-> loud])
  BY <1>1, SPAssumption DEF RestOK, ReqOK, ReqState, ReqPc
<1>4. req' = [i \in Request |-> req'[i]] /\ \A i \in Request : ReqOK(req'[i])
  BY <1>1, <1>2, <1>3, ReqWritten
<1>5. ops' \in 0 .. MaxOps
  BY <1>1, SPAssumption DEF RestOK, UpdateNodeStatus
<1>6. RestOK'
  BY <1>1, <1>4, <1>5 DEF RestOK, UpdateNodeStatus
<1> QED
  BY <1>6, SameJobsOK DEF UpdateNodeStatus

(* The write of a request is seen by every callback. *)
LEMMA WriteStatusOK ==
  ASSUME TypeOK, Judged, NEW r \in Request, WriteStatus(r)
  PROVE  (TypeOK /\ Judged)'
<1> DEFINE n == req[r].node
<1>1. RestOK
  BY TypeBySlot
<1>2. n \in Node /\ req[r].new \in Status /\ req[r].pc # "idle"
  BY <1>1 DEF RestOK, ReqOK, ReqState, WriteStatus, ReqAt
<1>3. Writes({n}) /\ status' \in [Node -> Status]
  BY <1>1, <1>2, SetStatusOK DEF WriteStatus
<1>4. \/ ReqDone(r)
      \/ \E p \in ReqPc : ReqGoto(r, p)
  BY DEF WriteStatus, ReqPc
<1>5. req' = [i \in Request |-> req'[i]] /\ \A i \in Request : ReqOK(req'[i])
  BY <1>1, <1>2, <1>4, ReqWritten
<1>6. dirty' \in BOOLEAN
  BY <1>1 DEF RestOK, WriteStatus
<1>7. RestOK'
  BY <1>1, <1>3, <1>5, <1>6 DEF RestOK, WriteStatus
<1> QED
  BY <1>2, <1>3, <1>7, OutsideOK DEF WriteStatus

(* The rest of a request: the promotion of a draft and the notification. *)
LEMMA PublishOK ==
  ASSUME TypeOK, Judged, NEW r \in Request, ReadDraft(r) \/ Promote(r) \/ Publish(r)
  PROVE  (TypeOK /\ Judged)'
<1>1. RestOK
  BY TypeBySlot
<1>2. \/ ReqDone(r)
      \/ \E p \in ReqPc : ReqGoto(r, p)
  BY DEF ReadDraft, Promote, Publish, ReqPc
<1>3. req[r].pc # "idle"
  BY DEF ReadDraft, Promote, Publish, ReqAt
<1>4. req' = [i \in Request |-> req'[i]] /\ \A i \in Request : ReqOK(req'[i])
  BY <1>1, <1>2, <1>3, ReqWritten
<1>5. [node |-> req[r].node, new |-> req[r].new] \in Event
  BY <1>1, <1>3 DEF RestOK, ReqOK, ReqState, Event
<1>6. queue' \in Seq(Event)
  BY <1>1, <1>5, AppendProperties DEF RestOK, ReadDraft, Promote, Publish
<1>7. plan' \in PlanStatus
  BY <1>1 DEF RestOK, ReadDraft, Promote, Publish, PlanStatus
<1>8. UNCHANGED <<nodes, gone, status, job, ops, dirty>>
  BY DEF ReadDraft, Promote, Publish
<1>9. RestOK'
  BY <1>1, <1>4, <1>6, <1>7, <1>8 DEF RestOK
<1> QED
  BY <1>8, <1>9, SameJobsOK

-----------------------------------------------------------------------------
(* The rest of what may happen. *)

(* A node is added under an id nobody has ever seen. *)
LEMMA CreateOK ==
  ASSUME TypeOK, Judged, CreateNode
  PROVE  (TypeOK /\ Judged)'
<1>1. RestOK
  BY TypeBySlot
<1>2. PICK n \in Spare \ (nodes \cup gone), s \in Wanted \cup {"not_started"} :
         /\ nodes' = nodes \cup {n} /\ status' = [status EXCEPT ![n] = s]
         /\ job' = Touch(job, Nil, {n})
  BY DEF CreateNode
<1>3. n \in Node /\ s \in Status
  BY SPAssumption DEF Status
<1>4. UNCHANGED <<gone, plan, queue, req>> /\ ops' \in 0 .. MaxOps /\ dirty' \in BOOLEAN
  BY <1>1, SPAssumption DEF RestOK, CreateNode
<1>5. status' \in [Node -> Status] /\ nodes' \subseteq Node /\ gone' \subseteq Node \ nodes'
  BY <1>1, <1>2, <1>3, <1>4 DEF RestOK
<1>6. Writes({n})
  BY <1>1, <1>2, <1>3, <1>4 DEF RestOK, Writes
<1>7. RestOK'
  BY <1>1, <1>4, <1>5 DEF RestOK, ReqOK
<1> QED
  BY <1>2, <1>3, <1>6, <1>7, OutsideOK

(* A node is deleted, and its id with it. *)
LEMMA DeleteOK ==
  ASSUME TypeOK, Judged, DeleteNode
  PROVE  (TypeOK /\ Judged)'
<1>1. RestOK
  BY TypeBySlot
<1>2. PICK n \in nodes \ {Root} :
         nodes' = nodes \ {n} /\ gone' = gone \cup {n} /\ job' = Touch(job, Nil, {n})
  BY DEF DeleteNode
<1>3. UNCHANGED <<status, plan, queue, req>> /\ ops' \in 0 .. MaxOps /\ dirty' \in BOOLEAN
  BY <1>1, SPAssumption DEF RestOK, DeleteNode
<1>4. n \in Node /\ nodes' \subseteq Node /\ gone' \subseteq Node \ nodes'
  BY <1>1, <1>2 DEF RestOK
<1>5. Writes({n})
  BY <1>1, <1>2, <1>3 DEF RestOK, Writes
<1>6. RestOK'
  BY <1>1, <1>3, <1>4 DEF RestOK, ReqOK
<1> QED
  BY <1>2, <1>4, <1>5, <1>6, OutsideOK

(* A request or a callback fails. *)
LEMMA FailOK ==
  ASSUME TypeOK, Judged, Fail
  PROVE  (TypeOK /\ Judged)'
<1>1. RestOK
  BY TypeBySlot
<1>2. /\ UNCHANGED <<nodes, gone, status, plan, queue, ops>> /\ dirty' \in BOOLEAN
  BY DEF Fail
<1>3. ASSUME NEW r \in Request, ~ReqAt(r, "idle"), UNCHANGED job,
             IF ReqAt(r, "promote") THEN ReqGoto(r, "publish") ELSE ReqDone(r)
      PROVE  (TypeOK /\ Judged)'
  <2>1. ReqDone(r) \/ (req[r].pc # "idle" /\ \E p \in ReqPc : ReqGoto(r, p))
    BY <1>3 DEF ReqPc, ReqAt
  <2>2. req' = [i \in Request |-> req'[i]] /\ \A i \in Request : ReqOK(req'[i])
    BY <1>1, <2>1, ReqWritten
  <2>3. RestOK'
    BY <1>1, <1>2, <2>2 DEF RestOK
  <2> QED
    BY <1>2, <1>3, <2>3, SameJobsOK
<1>4. ASSUME NEW h \in Handler, JobDone(h), UNCHANGED req PROVE (TypeOK /\ Judged)'
  <2>1. RestOK'
    BY <1>1, <1>2, <1>4 DEF RestOK, ReqOK
  <2> QED
    BY <1>2, <1>4, <2>1, JobDoneOK
<1> QED
  BY <1>3, <1>4 DEF Fail

(* The process restarts with free slots. *)
LEMMA RestartOK ==
  ASSUME TypeOK, Judged, Restart
  PROVE  (TypeOK /\ Judged)'
<1>1. RestOK
  BY TypeBySlot
<1>2. /\ UNCHANGED <<nodes, gone, status, plan>> /\ queue' \in Seq(Event)
      /\ dirty' \in BOOLEAN /\ ops' \in 0 .. MaxOps
  BY <1>1, SPAssumption DEF RestOK, Restart
<1>3. req' = [r \in Request |-> req'[r]] /\ \A r \in Request : ReqOK(req'[r])
  BY FreeOK DEF Restart
<1>4. RestOK'
  BY <1>1, <1>2, <1>3 DEF RestOK
<1>5. JobsOK' /\ Judged'
  BY FreeOK DEF Restart, JobsOK, Judged
<1> QED
  BY <1>4, <1>5, TypeBySlot

-----------------------------------------------------------------------------
(* Whatever happens, the state is well typed and what each callback has    *)
(* found out so far is true, except of the nodes that others have touched. *)
THEOREM JudgedInvariant == Spec => [](TypeOK /\ Judged)
<1>1. TypeOK /\ Judged /\ [Next]_vars => (TypeOK /\ Judged)'
  <2> SUFFICES ASSUME TypeOK, Judged, [Next]_vars PROVE (TypeOK /\ Judged)'
    OBVIOUS
  <2>1. ASSUME NEW r \in Request, UpdateNodeStatus(r) \/ ReqStep(r) PROVE (TypeOK /\ Judged)'
    BY <2>1, UpdateOK, WriteStatusOK, PublishOK DEF ReqStep
  <2>2. ASSUME NEW h \in Handler, Deliver(h) \/ JobStep(h) PROVE (TypeOK /\ Judged)'
    BY <2>2, DeliverOK, PropagateOK, MaintainPlanOK DEF JobStep
  <2>3. CASE CreateNode
    BY <2>3, CreateOK
  <2>4. CASE DeleteNode
    BY <2>4, DeleteOK
  <2>5. CASE Fail
    BY <2>5, FailOK
  <2>6. CASE Restart
    BY <2>6, RestartOK
  <2>7. CASE UNCHANGED vars
    <3>1. RestOK'
      BY <2>7, TypeBySlot, RestSame DEF vars
    <3> QED
      BY <2>7, <3>1, SameJobsOK DEF vars
  <2> QED
    BY <2>1, <2>2, <2>3, <2>4, <2>5, <2>6, <2>7 DEF Next
<1> QED
  BY <1>1, InitOK, PTL DEF Spec

(* Every variable keeps its type: the slots of requests and callbacks too. *)
THEOREM TypeCorrect == Spec => []TypeOK
  BY JudgedInvariant, PTL

(* propagateStatus unblocks a task only when all blockers are completed,   *)
(* but for those that others wrote or deleted while it read them one by    *)
(* one.                                                                    *)
THEOREM UnblocksOnFacts == Spec => UnblockJustified
<1>1. TypeOK /\ Judged =>
        \A h \in Handler : Unblock(h) =>
          LET t == job[h].target
          IN  /\ \A b \in Blockers(t) : status[b] = "completed" \/ b \in job[h].touched
              /\ status[t] = "blocked" \/ t \in job[h].touched
  BY DEF Judged, StillTrue, Unblock, JobAt, Blockers
<1> QED
  BY <1>1, JudgedInvariant, PTL DEF UnblockJustified

(* propagateStatus completes a parent only when it has children and all    *)
(* are completed, but for those that others wrote, added or deleted        *)
(* meanwhile.                                                              *)
THEOREM CompletesOnFacts == Spec => CompletionJustified
<1>1. TypeOK /\ Judged =>
        \A h \in Handler : CompleteParent(h) =>
          LET p == Parent[job[h].node]
          IN  /\ p # Root
              /\ \A c \in Children(p) : status[c] = "completed" \/ c \in job[h].touched
              /\ \E c \in Node : Parent[c] = p /\ (c \in nodes \/ c \in job[h].touched)
  BY DEF TypeOK, Judged, StillTrue, CompleteParent, JobAt, Children
<1> QED
  BY <1>1, JudgedInvariant, PTL DEF CompletionJustified

-----------------------------------------------------------------------------
(* What the rollup of a plan says. A quotient lies between two multiples   *)
(* of the divisor.                                                         *)
LEMMA DivBounds ==
  ASSUME NEW a \in Nat, NEW b \in Nat \ {0}
  PROVE  /\ a \div b \in Nat
         /\ (a \div b) * b <= a
         /\ a < (a \div b) * b + b
  OBVIOUS

(* Multiplying keeps the order. *)
LEMMA TimesMono ==
  ASSUME NEW x \in Nat, NEW y \in Nat, NEW m \in Nat, x <= y
  PROVE  x * m <= y * m
<1>1. PICK d \in Nat : y = x + d
  <2>1. y - x \in Nat /\ y = x + (y - x)
    OBVIOUS
  <2> QED
    BY <2>1
<1>2. y * m = x * m + d * m /\ d * m \in Nat /\ x * m \in Nat
  BY <1>1
<1> QED
  BY <1>2

(* All of it is 100%, however much there is. *)
LEMMA AllIsHundred ==
  ASSUME NEW n \in Nat \ {0}
  PROVE  Percent(n, n) = 100
<1> DEFINE q == (200 * n + n) \div (2 * n)
<1>1. Percent(n, n) = q
  BY DEF Percent
<1>2. 200 * n + n \in Nat /\ 2 * n \in Nat \ {0}
  OBVIOUS
<1>3. /\ q \in Nat
      /\ q * (2 * n) <= 200 * n + n
      /\ 200 * n + n < q * (2 * n) + 2 * n
  BY <1>2, DivBounds
<1> HIDE DEF q
<1>4. q * (2 * n) <= 201 * n /\ 201 * n < q * (2 * n) + 2 * n
  BY <1>3
<1>5. CASE q <= 99
  <2>1. q * (2 * n) <= 99 * (2 * n)
    BY <1>3, <1>5, TimesMono
  <2>2. PICK p \in Nat : p = q * (2 * n)
    BY <1>3
  <2> QED
    BY <1>4, <2>1, <2>2
<1>6. CASE q >= 101
  <2>1. 101 * (2 * n) <= q * (2 * n)
    BY <1>3, <1>6, TimesMono
  <2>2. PICK p \in Nat : p = q * (2 * n)
    BY <1>3
  <2> QED
    BY <1>4, <2>1, <2>2
<1> QED
  BY <1>1, <1>3, <1>5, <1>6

(* As long as a plan has fewer than 200 work nodes its progress reads 100% *)
(* exactly when all of them are completed, which is what                   *)
(* maintainPlanStatus takes it for. (From 200 on one open task can round   *)
(* up to 100%.)                                                            *)
THEOREM HundredMeansDone ==
  ASSUME NEW n \in 1 .. 199, NEW k \in 0 .. n
  PROVE  Percent(k, n) = 100 <=> k = n
<1> DEFINE q == (200 * k + n) \div (2 * n)
<1>1. Percent(k, n) = q
  BY DEF Percent
<1>2. 200 * k + n \in Nat /\ 2 * n \in Nat \ {0}
  OBVIOUS
<1>3. /\ q \in Nat
      /\ q * (2 * n) <= 200 * k + n
      /\ 200 * k + n < q * (2 * n) + 2 * n
  BY <1>2, DivBounds
<1> HIDE DEF q
<1>4. ASSUME q = 100 PROVE k = n
  <2>1. 200 * n <= 200 * k + n
    BY <1>3, <1>4
  <2> QED
    BY <2>1
<1>5. ASSUME k = n PROVE q = 100
  BY <1>1, <1>5, AllIsHundred
<1> QED
  BY <1>1, <1>4, <1>5

(* So for such a plan maintainPlanStatus judges rightly whether the work   *)
(* is done, whatever its nodes are.                                        *)
THEOREM CompleteMeansDone ==
  ASSUME NEW rows, NEW type, NEW standing,
         IsFiniteSet(WorkNodes(rows, type)),
         Cardinality(WorkNodes(rows, type)) < 200
  PROVE  IsComplete(rows, type, standing) <=>
           /\ WorkNodes(rows, type) # {}
           /\ \A n \in WorkNodes(rows, type) : standing[n] = "completed"
<1> DEFINE W == WorkNodes(rows, type)
           C == Completed(rows, type, standing)
<1>1. C \subseteq W /\ (C = W <=> \A n \in W : standing[n] = "completed")
  BY DEF Completed
<1> HIDE DEF W, C
<1>2. IsComplete(rows, type, standing) <=>
        W # {} /\ Percent(Cardinality(C), Cardinality(W)) = 100
  BY DEF IsComplete, ProgressPct, W, C
<1>3. CASE W = {}
  BY <1>2, <1>3 DEF W
<1>4. CASE W # {}
  <2>1. IsFiniteSet(W) /\ Cardinality(W) < 200
    BY DEF W
  <2>2. /\ Cardinality(W) \in Nat /\ Cardinality(C) \in Nat
        /\ Cardinality(C) <= Cardinality(W)
        /\ Cardinality(C) = Cardinality(W) <=> C = W
    BY <1>1, <2>1, FS_Subset, FS_CardinalityType
  <2>3. Cardinality(W) # 0
    BY <1>4, <2>1, FS_EmptySet
  <2>4. Cardinality(W) \in 1 .. 199 /\ Cardinality(C) \in 0 .. Cardinality(W)
    BY <2>1, <2>2, <2>3
  <2>5. Percent(Cardinality(C), Cardinality(W)) = 100 <=> C = W
    BY <2>2, <2>4, HundredMeansDone
  <2> QED
    BY <1>1, <1>2, <1>4, <2>5 DEF W
<1> QED
  BY <1>3, <1>4

-----------------------------------------------------------------------------
(* Who will still make up for what is not settled. *)

(* A request that has written that c is completed and will announce it; an *)
(* event of the queue that announces it                                    *)
Telling  == {"readplan", "promote", "publish"}
Tells(q, c) == q.pc \in Telling /\ q.node = c /\ q.new = "completed"
Told(Q, c) == \E i \in DOMAIN Q : Q[i] = [node |-> c, new |-> "completed"]

(* A callback that will list what c blocks, look at task t, look at the    *)
(* parent of c, compare the plan's status P with the work                  *)
Lists(j, c)   == j.pc = "downstream" /\ j.node = c
Looking       == {"targets", "upstream", "blockers"}
LooksAt(j, t) == \/ j.pc \in Looking /\ t \in j.targets
                 \/ j.pc \in {"upstream", "blockers"} /\ j.target = t
Closing       == {"downstream", "targets", "upstream", "blockers", "node", "siblings",
                  "parent", "complete"}
Closes(j, c)  == j.pc \in Closing /\ j.node = c
Compares(j, P) == \/ j.pc \in Closing \cup {"readplan"}
                  \/ j.pc \in {"rollup", "setplan"} /\ j.planSeen = P

Announced(c) == Told(queue, c) \/ \E r \in Request : Tells(req[r], c)

Mismatch == plan \in {"active", "completed"}
              /\ ~(plan = "completed" <=> IsComplete(nodes, Type, status))

PlanWatched ==
  \/ queue # <<>>
  \/ \E r \in Request : req[r].pc \in Telling
  \/ \E h \in Handler : Compares(job[h], plan)

TaskWatched(t) ==
  \/ \E b \in Blockers(t) : Announced(b) \/ (\E h \in Handler : Lists(job[h], b))
  \/ \E h \in Handler : LooksAt(job[h], t)

ParentWatched(p) ==
  \E c \in Children(p) : Announced(c) \/ (\E h \in Handler : Closes(job[h], c))

(* What requests are asked to do, and what callbacks have listed *)
Orders ==
  /\ \A r \in Request : req[r].pc = "write" => req[r].node \in Worked /\ req[r].new \in Wanted
  /\ \A h \in Handler : job[h].pc = "blockers" =>
       \A b \in job[h].blockers : <<b, job[h].target>> \in Edge

Watched ==
  /\ Mismatch => PlanWatched
  /\ \A t \in Node : Ready(t) => TaskWatched(t)
  /\ \A p \in Node \ {Root} : AllDone(p) => ParentWatched(p)

Attended == Orders /\ (~dirty => Watched)

(* Requests leave to the propagation what it does: they block nothing, and *)
(* change no node that has children.                                       *)
Separate == "blocked" \notin Wanted /\ \A n \in Worked, c \in Node : Parent[c] # n

(* Callback k is after the same as callback j. *)
SameCourse(j, k) ==
  /\ k.pc = j.pc /\ k.node = j.node /\ k.targets = j.targets /\ k.target = j.target
  /\ k.blockers = j.blockers /\ k.planSeen = j.planSeen

LEMMA SameTokens ==
  ASSUME NEW j, NEW k, SameCourse(j, k)
  PROVE  /\ \A c : (Lists(j, c) <=> Lists(k, c)) /\ (Closes(j, c) <=> Closes(k, c))
         /\ \A t : LooksAt(j, t) <=> LooksAt(k, t)
         /\ \A P : Compares(j, P) <=> Compares(k, P)
  BY DEF SameCourse, Lists, Closes, LooksAt, Compares

LEMMA TouchedCourse ==
  ASSUME TypeOK, NEW h \in Handler, NEW N
  PROVE  SameCourse(job[h], Touched(job[h], N))
<1>1. job[h] \in JobState
  BY DEF TypeOK
<1> QED
  BY <1>1 DEF Touched, SameCourse, JobState

(* Callback h goes on as j and nothing else happens: j is after what h     *)
(* was, so far as it is still needed.                                      *)
Carries(h, j) ==
  /\ j.pc = "blockers" => \A b \in j.blockers : <<b, j.target>> \in Edge
  /\ Mismatch /\ Compares(job[h], plan) => Compares(j, plan)
  /\ \A t \in Node : Ready(t) =>
       /\ \A b \in Blockers(t) : Lists(job[h], b) => Lists(j, b) \/ LooksAt(j, t)
       /\ LooksAt(job[h], t) => LooksAt(j, t)
  /\ \A p \in Node \ {Root} : AllDone(p) =>
       \A c \in Children(p) : Closes(job[h], c) => Closes(j, c)

LEMMA CallbackStep ==
  ASSUME TypeOK, Attended, NEW h \in Handler, NEW j, job' = [job EXCEPT ![h] = j],
         UNCHANGED <<nodes, status, plan, queue, req, dirty>>, Carries(h, j)
  PROVE  Attended'
<1>1. job'[h] = j /\ \A i \in Handler \ {h} : job'[i] = job[i]
  BY DEF TypeOK
<1>2. Orders'
  BY <1>1 DEF Attended, Orders, Carries
<1> SUFFICES ASSUME Watched, ~dirty PROVE Watched'
  BY <1>2 DEF Attended
<1>4. Mismatch' => PlanWatched'
  <2> SUFFICES ASSUME Mismatch' PROVE PlanWatched'
    OBVIOUS
  <2>1. Mismatch
    BY DEF Mismatch
  <2>2. PlanWatched
    BY <2>1 DEF Watched
  <2>3. ASSUME NEW i \in Handler, Compares(job[i], plan) PROVE Compares(job'[i], plan)
    BY <1>1, <2>1, <2>3 DEF Carries
  <2> QED
    BY <2>2, <2>3 DEF PlanWatched
<1>5. ASSUME NEW t \in Node, Ready(t)' PROVE TaskWatched(t)'
  <2>1. Ready(t)
    BY <1>5 DEF Ready, Blockers
  <2>2. TaskWatched(t)
    BY <2>1 DEF Watched
  <2>3. CASE \E b \in Blockers(t) : Announced(b)
    BY <2>3 DEF TaskWatched, Announced, Blockers
  <2>4. CASE \E b \in Blockers(t), i \in Handler : Lists(job[i], b)
    <3>1. PICK b \in Blockers(t), i \in Handler : Lists(job[i], b)
      BY <2>4
    <3>2. Lists(job'[i], b) \/ LooksAt(job'[i], t)
      BY <1>1, <2>1, <3>1 DEF Carries
    <3> QED
      BY <3>1, <3>2 DEF TaskWatched, Blockers
  <2>5. CASE \E i \in Handler : LooksAt(job[i], t)
    <3>1. PICK i \in Handler : LooksAt(job[i], t)
      BY <2>5
    <3>2. LooksAt(job'[i], t)
      BY <1>1, <2>1, <3>1 DEF Carries
    <3> QED
      BY <3>2 DEF TaskWatched
  <2> QED
    BY <2>2, <2>3, <2>4, <2>5 DEF TaskWatched
<1>6. ASSUME NEW p \in Node \ {Root}, AllDone(p)' PROVE ParentWatched(p)'
  <2>1. AllDone(p)
    BY <1>6 DEF AllDone, Children
  <2>2. ParentWatched(p)
    BY <2>1 DEF Watched
  <2>3. CASE \E c \in Children(p) : Announced(c)
    BY <2>3 DEF ParentWatched, Announced, Children
  <2>4. CASE \E c \in Children(p), i \in Handler : Closes(job[i], c)
    <3>1. PICK c \in Children(p), i \in Handler : Closes(job[i], c)
      BY <2>4
    <3>2. Closes(job'[i], c)
      BY <1>1, <2>1, <3>1 DEF Carries
    <3> QED
      BY <3>1, <3>2 DEF ParentWatched, Children
  <2> QED
    BY <2>2, <2>3, <2>4 DEF ParentWatched
<1> QED
  BY <1>4, <1>5, <1>6 DEF Watched

(* The fields of a callback that is underway *)
LEMMA CallbackFields ==
  ASSUME TypeOK, NEW h \in Handler, job[h].pc # "idle"
  PROVE  /\ job[h] \in JobState /\ job[h].node \in Node
         /\ job[h].pc \in {"upstream", "blockers"} => job[h].target \in Node
         /\ job[h].pc \in {"siblings", "parent", "complete"} => job[h].node # Root
  BY DEF TypeOK

-----------------------------------------------------------------------------
(* The steps of a callback that only read *)

LEMMA ListDownstreamAttends ==
  ASSUME TypeOK, Attended, NEW h \in Handler, ListDownstream(h)
  PROVE  Attended'
<1> DEFINE j == [job[h] EXCEPT !.pc = "targets", !.targets = Targets(job[h].node)]
<1>1. /\ job[h].pc = "downstream" /\ job' = [job EXCEPT ![h] = j]
      /\ UNCHANGED <<nodes, status, plan, queue, req, dirty>>
  BY DEF ListDownstream, JobAt, TypeOK, JobState
<1>2. job[h] \in JobState
  BY <1>1, CallbackFields
<1>3. j.pc = "targets" /\ j.node = job[h].node /\ j.targets = Targets(job[h].node)
  BY <1>2 DEF JobState
<1> HIDE DEF j
<1>4. Mismatch /\ Compares(job[h], plan) => Compares(j, plan)
  BY <1>3 DEF Compares, Closing
<1>5. ASSUME NEW t \in Node, Ready(t)
      PROVE  /\ \A b \in Blockers(t) : Lists(job[h], b) => LooksAt(j, t)
             /\ ~LooksAt(job[h], t)
  BY <1>1, <1>3, <1>5 DEF Lists, LooksAt, Looking, Blockers, Targets
<1>6. \A c : Closes(job[h], c) => Closes(j, c)
  BY <1>3 DEF Closes, Closing
<1>7. Carries(h, j)
  BY <1>3, <1>4, <1>5, <1>6 DEF Carries
<1> QED
  BY <1>1, <1>7, CallbackStep

LEMMA CheckTargetAttends ==
  ASSUME TypeOK, Attended, NEW h \in Handler, CheckTarget(h)
  PROVE  Attended'
<1>1. /\ job[h].pc = "targets" /\ UNCHANGED <<nodes, status, plan, queue, req, dirty>>
  BY DEF CheckTarget, JobAt
<1>2. job[h] \in JobState
  BY <1>1, CallbackFields
<1>3. ASSUME NEW t \in job[h].targets, t \in nodes, status[t] = "blocked",
             job' = [job EXCEPT ![h].pc = "upstream", ![h].target = t, ![h].targets = @ \ {t}]
      PROVE  Attended'
  <2> DEFINE j == [job[h] EXCEPT !.pc = "upstream", !.target = t, !.targets = @ \ {t}]
  <2>1. job' = [job EXCEPT ![h] = j]
    BY <1>2, <1>3 DEF TypeOK, JobState
  <2>2. j.pc = "upstream" /\ j.node = job[h].node /\ j.target = t /\ j.targets = job[h].targets \ {t}
    BY <1>2 DEF JobState
  <2> HIDE DEF j
  <2>3. Carries(h, j)
    BY <1>1, <2>2 DEF Carries, Compares, Closes, Closing, Lists, LooksAt, Looking
  <2> QED
    BY <1>1, <2>1, <2>3, CallbackStep
<1>4. ASSUME NEW t \in job[h].targets, ~(t \in nodes /\ status[t] = "blocked"),
             job' = [job EXCEPT ![h].targets = @ \ {t}]
      PROVE  Attended'
  <2> DEFINE j == [job[h] EXCEPT !.targets = @ \ {t}]
  <2>1. job' = [job EXCEPT ![h] = j]
    BY <1>2, <1>4 DEF TypeOK, JobState
  <2>2. j.pc = "targets" /\ j.node = job[h].node /\ j.targets = job[h].targets \ {t}
    BY <1>1, <1>2 DEF JobState
  <2> HIDE DEF j
  <2>3. ~Ready(t)
    BY <1>4 DEF Ready
  <2>4. Carries(h, j)
    BY <1>1, <2>2, <2>3 DEF Carries, Compares, Closes, Closing, Lists, LooksAt, Looking
  <2> QED
    BY <1>1, <2>1, <2>4, CallbackStep
<1>5. CASE job[h].targets = {} /\ JobGoto(h, "node")
  <2>1. PICK j \in JobState : job' = [job EXCEPT ![h] = j] /\ j.pc = "node" /\ j.node = job[h].node
    BY <1>1, <1>5, GotoOK DEF JobPc
  <2>2. Carries(h, j)
    BY <1>1, <1>5, <2>1 DEF Carries, Compares, Closes, Closing, Lists, LooksAt, Looking
  <2> QED
    BY <1>1, <2>1, <2>2, CallbackStep
<1> QED
  BY <1>3, <1>4, <1>5 DEF CheckTarget

LEMMA ListUpstreamAttends ==
  ASSUME TypeOK, Attended, NEW h \in Handler, ListUpstream(h)
  PROVE  Attended'
<1> DEFINE j == [job[h] EXCEPT !.pc = "blockers", !.blockers = Blockers(job[h].target)]
<1>1. /\ job[h].pc = "upstream" /\ job' = [job EXCEPT ![h] = j]
      /\ UNCHANGED <<nodes, status, plan, queue, req, dirty>>
  BY DEF ListUpstream, JobAt, TypeOK, JobState
<1>2. job[h] \in JobState
  BY <1>1, CallbackFields
<1>3. /\ j.pc = "blockers" /\ j.node = job[h].node /\ j.target = job[h].target
      /\ j.targets = job[h].targets /\ j.blockers = Blockers(job[h].target)
  BY <1>2 DEF JobState
<1> HIDE DEF j
<1>4. \A b \in j.blockers : <<b, j.target>> \in Edge
  BY <1>3 DEF Blockers
<1>5. Carries(h, j)
  BY <1>1, <1>3, <1>4 DEF Carries, Compares, Closes, Closing, Lists, LooksAt, Looking
<1> QED
  BY <1>1, <1>5, CallbackStep

LEMMA CheckBlockerAttends ==
  ASSUME TypeOK, Attended, NEW h \in Handler, CheckBlocker(h)
  PROVE  Attended'
<1>1. /\ job[h].pc = "blockers" /\ UNCHANGED <<nodes, status, plan, queue, req, dirty>>
  BY DEF CheckBlocker, JobAt
<1>2. job[h] \in JobState
  BY <1>1, CallbackFields
<1>3. \A b \in job[h].blockers : <<b, job[h].target>> \in Edge
  BY <1>1 DEF Attended, Orders
<1>4. ASSUME NEW b \in job[h].blockers, b \in nodes, status[b] # "completed",
             job' = [job EXCEPT ![h].pc = "targets", ![h].blockers = {}, ![h].touched = {}]
      PROVE  Attended'
  <2> DEFINE j == [job[h] EXCEPT !.pc = "targets", !.blockers = {}, !.touched = {}]
  <2>1. job' = [job EXCEPT ![h] = j]
    BY <1>2, <1>4 DEF TypeOK, JobState
  <2>2. j.pc = "targets" /\ j.node = job[h].node /\ j.targets = job[h].targets
    BY <1>2 DEF JobState
  <2> HIDE DEF j
  <2>3. ~Ready(job[h].target)
    BY <1>3, <1>4 DEF Ready, Blockers
  <2>4. Carries(h, j)
    BY <1>1, <2>2, <2>3 DEF Carries, Compares, Closes, Closing, Lists, LooksAt, Looking
  <2> QED
    BY <1>1, <2>1, <2>4, CallbackStep
<1>5. ASSUME NEW b \in job[h].blockers, job' = [job EXCEPT ![h].blockers = @ \ {b}]
      PROVE  Attended'
  <2> DEFINE j == [job[h] EXCEPT !.blockers = @ \ {b}]
  <2>1. job' = [job EXCEPT ![h] = j]
    BY <1>2, <1>5 DEF TypeOK, JobState
  <2>2. /\ j.pc = "blockers" /\ j.node = job[h].node /\ j.targets = job[h].targets
        /\ j.target = job[h].target /\ j.blockers = job[h].blockers \ {b}
    BY <1>1, <1>2 DEF JobState
  <2> HIDE DEF j
  <2>3. Carries(h, j)
    BY <1>1, <1>3, <2>2 DEF Carries, Compares, Closes, Closing, Lists, LooksAt, Looking
  <2> QED
    BY <1>1, <2>1, <2>3, CallbackStep
<1> QED
  BY <1>4, <1>5 DEF CheckBlocker

(* A callback goes on to step p, and is still after what it was after. *)
LEMMA GotoAttends ==
  ASSUME TypeOK, Attended, NEW h \in Handler, NEW p \in JobPc, JobGoto(h, p),
         job[h].pc \in {"node", "siblings", "parent"}, p \in {"siblings", "parent", "complete", "readplan"},
         UNCHANGED <<nodes, status, plan, queue, req, dirty>>,
         p = "readplan" => \A q \in Node \ {Root} : AllDone(q) => job[h].node \notin Children(q)
  PROVE  Attended'
<1>1. PICK j \in JobState : job' = [job EXCEPT ![h] = j] /\ j.pc = p /\ j.node = job[h].node
  BY GotoOK
<1>2. Carries(h, j)
  BY <1>1 DEF Carries, Compares, Closes, Closing, Lists, LooksAt, Looking
<1> QED
  BY <1>1, <1>2, CallbackStep

LEMMA ClimbAttends ==
  ASSUME TypeOK, Attended, NEW h \in Handler, ReadNode(h) \/ CheckSiblings(h) \/ ReadParent(h)
  PROVE  Attended'
<1>0. UNCHANGED <<nodes, status, plan, queue, req, dirty>>
  BY DEF ReadNode, CheckSiblings, ReadParent
<1>1. ASSUME NEW q \in Node \ {Root}, NEW c \in Children(q)
      PROVE  c \in nodes /\ Parent[c] = q /\ c # Root
  BY SPAssumption DEF Children, TypeOK
<1>2. CASE ReadNode(h)
  BY <1>0, <1>1, <1>2, GotoAttends DEF ReadNode, JobAt, JobPc
<1>3. CASE CheckSiblings(h)
  <2>1. job[h].pc = "siblings"
    BY <1>3 DEF CheckSiblings, JobAt
  <2>2. CASE \A c \in Children(Parent[job[h].node]) : status[c] = "completed"
    BY <1>0, <1>3, <2>1, <2>2, GotoAttends DEF CheckSiblings, JobPc
  <2>3. CASE ~\A c \in Children(Parent[job[h].node]) : status[c] = "completed"
    <3>1. \A q \in Node \ {Root} : AllDone(q) => job[h].node \notin Children(q)
      BY <1>1, <2>3 DEF AllDone
    <3> QED
      BY <1>0, <1>3, <2>1, <2>3, <3>1, GotoAttends DEF CheckSiblings, JobPc
  <2> QED
    BY <2>2, <2>3
<1>4. CASE ReadParent(h)
  <2> DEFINE p == Parent[job[h].node]
  <2>1. job[h].pc = "parent"
    BY <1>4 DEF ReadParent, JobAt
  <2>2. CASE p \in nodes /\ status[p] # "completed" /\ p # Root
    BY <1>0, <1>4, <2>1, <2>2, GotoAttends DEF ReadParent, JobPc
  <2>3. CASE ~(p \in nodes /\ status[p] # "completed" /\ p # Root)
    <3>1. \A q \in Node \ {Root} : AllDone(q) => job[h].node \notin Children(q)
      BY <1>1, <2>3 DEF AllDone
    <3> QED
      BY <1>0, <1>4, <2>1, <2>3, <3>1, GotoAttends DEF ReadParent, JobPc
  <2> QED
    BY <2>2, <2>3
<1> QED
  BY <1>2, <1>3, <1>4

-----------------------------------------------------------------------------
(* The plan's own status *)

LEMMA ComparesPlan ==
  ASSUME TypeOK, Attended, NEW h \in Handler, ReadPlanStatus(h) \/ Rollup(h)
  PROVE  Attended'
<1>1. /\ job[h].pc \in {"readplan", "rollup"}
      /\ UNCHANGED <<nodes, status, plan, queue, req, dirty>>
  BY DEF ReadPlanStatus, Rollup, JobAt
<1>2. job[h] \in JobState
  BY <1>1, CallbackFields
<1>3. ASSUME JobDone(h), Mismatch => ~Compares(job[h], plan) PROVE Attended'
  <2>1. Carries(h, NoJob)
    BY <1>1, <1>3 DEF Carries, NoJob, Closes, Closing, Lists, LooksAt, Looking
  <2> QED
    BY <1>1, <1>3, <2>1, CallbackStep DEF JobDone
<1>4. CASE ReadPlanStatus(h) /\ plan \in {"active", "completed"}
  <2> DEFINE j == [job[h] EXCEPT !.pc = "rollup", !.planSeen = plan]
  <2>1. job' = [job EXCEPT ![h] = j]
    BY <1>2, <1>4 DEF ReadPlanStatus, TypeOK, JobState
  <2>2. j.pc = "rollup" /\ j.planSeen = plan
    BY <1>2 DEF JobState
  <2> HIDE DEF j
  <2>3. job[h].pc = "readplan"
    BY <1>4 DEF ReadPlanStatus, JobAt
  <2>4. Carries(h, j)
    BY <2>2, <2>3 DEF Carries, Compares, Closes, Closing, Lists, LooksAt, Looking
  <2> QED
    BY <1>1, <2>1, <2>4, CallbackStep
<1>5. CASE ReadPlanStatus(h) /\ plan \notin {"active", "completed"}
  BY <1>3, <1>5 DEF ReadPlanStatus, Mismatch
<1>6. CASE Rollup(h)
  <2>1. job[h].pc = "rollup"
    BY <1>6 DEF Rollup, JobAt
  <2>2. CASE IsComplete(nodes, Type, status) <=> job[h].planSeen = "completed"
    <3>1. Mismatch => ~Compares(job[h], plan)
      BY <2>1, <2>2 DEF Mismatch, Compares, Closing
    <3> QED
      BY <1>3, <1>6, <2>2, <3>1 DEF Rollup
  <2>3. CASE ~(IsComplete(nodes, Type, status) <=> job[h].planSeen = "completed")
    <3> DEFINE j == [job[h] EXCEPT !.pc = "setplan", !.touched = {}]
    <3>1. JobGoto(h, "setplan")
      BY <1>6, <2>3 DEF Rollup
    <3>2. job' = [job EXCEPT ![h] = j]
      BY <1>2, <3>1 DEF JobGoto, Judging, TypeOK, JobState
    <3>3. j.pc = "setplan" /\ j.planSeen = job[h].planSeen
      BY <1>2 DEF JobState
    <3> HIDE DEF j
    <3>4. Carries(h, j)
      BY <2>1, <3>3 DEF Carries, Compares, Closes, Closing, Lists, LooksAt, Looking
    <3> QED
      BY <1>1, <3>2, <3>4, CallbackStep
  <2> QED
    BY <2>2, <2>3
<1> QED
  BY <1>4, <1>5, <1>6

LEMMA ListsCloses == \A j, c : Lists(j, c) => Closes(j, c)
  BY DEF Lists, Closes, Closing

(* Of the tasks and parents only the slots, the queue, the nodes and their *)
(* statuses tell who watches them: this lemma is for steps that change     *)
(* none of what they say.                                                  *)
LEMMA TreeStillWatched ==
  ASSUME Watched, UNCHANGED <<nodes, status>>,
         \A c \in Node : Announced(c) => Announced(c)' \/ \E i \in Handler : Lists(job'[i], c),
         nodes \subseteq Node,
         \A i \in Handler, c \in nodes :
           /\ Lists(job[i], c) => Lists(job'[i], c)
           /\ LooksAt(job[i], c) => LooksAt(job'[i], c)
           /\ Closes(job[i], c) => Closes(job'[i], c) \/ Parent[c] \notin nodes
  PROVE  /\ \A t \in Node : Ready(t)' => TaskWatched(t)'
         /\ \A p \in Node \ {Root} : AllDone(p)' => ParentWatched(p)'
<1>1. ASSUME NEW t \in Node, Ready(t)' PROVE TaskWatched(t)'
  <2>1. Ready(t)
    BY <1>1 DEF Ready, Blockers
  <2>2. TaskWatched(t)
    BY <2>1 DEF Watched
  <2>3. CASE \E b \in Blockers(t) : Announced(b)
    <3>1. PICK b \in Blockers(t) : Announced(b)
      BY <2>3
    <3>2. b \in Node /\ b \in Blockers(t)'
      BY DEF Blockers
    <3>3. Announced(b)' \/ \E i \in Handler : Lists(job'[i], b)
      BY <3>1, <3>2
    <3> QED
      BY <3>2, <3>3 DEF TaskWatched
  <2>4. CASE \E b \in Blockers(t), i \in Handler : Lists(job[i], b)
    BY <2>4 DEF TaskWatched, Blockers
  <2>5. CASE \E i \in Handler : LooksAt(job[i], t)
    BY <2>1, <2>5 DEF TaskWatched, Ready
  <2> QED
    BY <2>2, <2>3, <2>4, <2>5 DEF TaskWatched
<1>2. ASSUME NEW p \in Node \ {Root}, AllDone(p)' PROVE ParentWatched(p)'
  <2>1. AllDone(p)
    BY <1>2 DEF AllDone, Children
  <2>2. ParentWatched(p)
    BY <2>1 DEF Watched
  <2>3. CASE \E c \in Children(p) : Announced(c)
    <3>1. PICK c \in Children(p) : Announced(c)
      BY <2>3
    <3>2. c \in Node /\ c \in Children(p)'
      BY DEF Children
    <3>3. Announced(c)' \/ \E i \in Handler : Lists(job'[i], c)
      BY <3>1, <3>2
    <3> QED
      BY <3>2, <3>3, ListsCloses DEF ParentWatched
  <2>4. CASE \E c \in Children(p), i \in Handler : Closes(job[i], c)
    <3>1. p \in nodes
      BY <2>1 DEF AllDone
    <3> QED
      BY <2>4, <3>1 DEF ParentWatched, Children
  <2> QED
    BY <2>2, <2>3, <2>4 DEF ParentWatched
<1> QED
  BY <1>1, <1>2

LEMMA SetPlanAttends ==
  ASSUME TypeOK, Attended, NEW h \in Handler, SetPlan(h)
  PROVE  Attended'
<1>1. /\ job[h].pc = "setplan" /\ job' = [job EXCEPT ![h] = NoJob]
      /\ UNCHANGED <<nodes, status, queue, req>> /\ plan' \in {"active", "completed"}
      /\ dirty' = (dirty \/ (plan' = "completed" <=> ~IsComplete(nodes, Type, status)))
  BY DEF SetPlan, JobAt, JobDone
<1>2. job'[h] = NoJob /\ \A i \in Handler \ {h} : job'[i] = job[i]
  BY <1>1 DEF TypeOK
<1>3. Orders'
  BY <1>1, <1>2 DEF Attended, Orders, NoJob
<1> SUFFICES ASSUME ~dirty' PROVE Watched'
  BY <1>3 DEF Attended
<1>4. ~Mismatch'
  BY <1>1 DEF Mismatch
<1>5. Watched
  BY <1>1 DEF Attended
<1>6. \A c \in Node : Announced(c) => Announced(c)'
  BY <1>1 DEF Announced
<1>7. \A i \in Handler, c \in Node : /\ Lists(job[i], c) => Lists(job'[i], c)
                                     /\ LooksAt(job[i], c) => LooksAt(job'[i], c)
                                     /\ Closes(job[i], c) => Closes(job'[i], c)
  BY <1>1, <1>2 DEF Lists, LooksAt, Looking, Closes, Closing
<1>8. nodes \subseteq Node
  BY DEF TypeOK
<1> QED
  BY <1>1, <1>4, <1>5, <1>6, <1>7, <1>8, TreeStillWatched DEF Watched

-----------------------------------------------------------------------------
(* The steps that write a status *)

(* The status of n becomes s: if it is completed that is announced, and    *)
(* what is opened again has no children.                                   *)
LEMMA TreeWatchedAfterWrite ==
  ASSUME TypeOK, Watched, NEW n \in Node, NEW s \in Status, SetStatus(n, s), UNCHANGED nodes,
         s # "blocked",
         s = "completed" => Announced(n)' \/ \E i \in Handler : Lists(job'[i], n),
         s # "completed" => status[n] # "completed" \/ Children(n) = {},
         \A c \in Node : Announced(c) => Announced(c)',
         \A i \in Handler, c \in Node :
           /\ Lists(job[i], c) => Lists(job'[i], c)
           /\ LooksAt(job[i], c) => LooksAt(job'[i], c) \/ c = n
           /\ Closes(job[i], c) => Closes(job'[i], c) \/ (s = "completed" /\ Parent[c] = n),
         n \in nodes
  PROVE  /\ \A t \in Node : Ready(t)' => TaskWatched(t)'
         /\ \A p \in Node \ {Root} : AllDone(p)' => ParentWatched(p)'
<1>1. /\ status'[n] = s /\ \A c \in Node \ {n} : status'[c] = status[c]
      /\ nodes \subseteq Node
  BY DEF SetStatus, TypeOK
<1>2. ASSUME NEW t \in Node, Ready(t)' PROVE TaskWatched(t)'
  <2>1. /\ t \in nodes /\ status'[t] = "blocked" /\ Blockers(t) # {}
        /\ \A b \in Blockers(t) : status'[b] = "completed" /\ b \in Node
    BY <1>1, <1>2 DEF Ready, Blockers
  <2>2. t # n
    BY <1>1, <2>1
  <2>3. CASE n \in Blockers(t)
    <3>1. s = "completed" /\ n \in Blockers(t)'
      BY <1>1, <2>1, <2>3 DEF Blockers
    <3> QED
      BY <3>1 DEF TaskWatched
  <2>4. CASE n \notin Blockers(t)
    <3>1. Ready(t)
      BY <1>1, <2>1, <2>2, <2>4 DEF Ready
    <3>2. TaskWatched(t)
      BY <3>1 DEF Watched
    <3>3. CASE \E b \in Blockers(t) : Announced(b)
      <4>1. PICK b \in Blockers(t) : Announced(b)
        BY <3>3
      <4>2. b \in Node /\ b \in Blockers(t)'
        BY <2>1 DEF Blockers
      <4>3. Announced(b)'
        BY <4>1, <4>2
      <4> QED
        BY <4>2, <4>3 DEF TaskWatched
    <3>4. CASE \E b \in Blockers(t), i \in Handler : Lists(job[i], b)
      BY <2>1, <3>4 DEF TaskWatched, Blockers
    <3>5. CASE \E i \in Handler : LooksAt(job[i], t)
      BY <2>2, <3>5 DEF TaskWatched
    <3> QED
      BY <3>2, <3>3, <3>4, <3>5 DEF TaskWatched
  <2> QED
    BY <2>3, <2>4
<1>3. ASSUME NEW p \in Node \ {Root}, AllDone(p)' PROVE ParentWatched(p)'
  <2>1. /\ p \in nodes /\ status'[p] # "completed" /\ Children(p) # {}
        /\ \A c \in Children(p) : status'[c] = "completed" /\ c \in Node
        /\ Children(p)' = Children(p)
    BY <1>1, <1>3 DEF AllDone, Children
  <2>2. CASE n \in Children(p)
    <3>1. s = "completed"
      BY <1>1, <2>1, <2>2
    <3>2. Announced(n)' \/ \E i \in Handler : Closes(job'[i], n)
      BY <3>1, ListsCloses
    <3> QED
      BY <2>1, <2>2, <3>2 DEF ParentWatched
  <2>3. CASE n \notin Children(p)
    <3>1. AllDone(p)
      BY <1>1, <2>1, <2>3 DEF AllDone
    <3>2. ParentWatched(p)
      BY <3>1 DEF Watched
    <3>3. \A c \in Children(p) : Parent[c] = p
      BY DEF Children
    <3>4. CASE \E c \in Children(p) : Announced(c)
      <4>1. PICK c \in Children(p) : Announced(c)
        BY <3>4
      <4>2. c \in Node /\ c \in Children(p)'
        BY <2>1
      <4>3. Announced(c)'
        BY <4>1, <4>2
      <4> QED
        BY <4>2, <4>3 DEF ParentWatched
    <3>5. CASE \E c \in Children(p), i \in Handler : Closes(job[i], c)
      <4>1. PICK c \in Children(p), i \in Handler : Closes(job[i], c)
        BY <3>5
      <4>2. ~(s = "completed" /\ Parent[c] = n)
        BY <1>1, <2>1, <3>3
      <4>3. Closes(job'[i], c)
        BY <2>1, <4>1, <4>2
      <4> QED
        BY <2>1, <4>1, <4>3 DEF ParentWatched
    <3> QED
      BY <3>2, <3>4, <3>5 DEF ParentWatched
  <2> QED
    BY <2>2, <2>3
<1> QED
  BY <1>2, <1>3

(* The callbacks that a write only touches go on as before. *)
LEMMA OthersGoOn ==
  ASSUME TypeOK, NEW h, NEW k, NEW N, job' = Touch(k, h, N),
         \A i \in Handler \ {h} : k[i] = job[i]
  PROVE  \A i \in Handler \ {h} : SameCourse(job[i], job'[i])
<1>1. \A i \in Handler \ {h} : job'[i] = Touched(job[i], N)
  BY TouchOK
<1> QED
  BY <1>1, TouchedCourse

LEMMA SameOrders ==
  ASSUME TypeOK, Orders, NEW h, UNCHANGED req,
         \A i \in Handler \ {h} : SameCourse(job[i], job'[i]),
         h \in Handler => job'[h].pc # "blockers"
  PROVE  Orders'
  BY DEF Orders, SameCourse

LEMMA UnblockAttends ==
  ASSUME TypeOK, Attended, NEW h \in Handler, Unblock(h)
  PROVE  Attended'
<1> DEFINE t == job[h].target
           k == [job[h] EXCEPT !.pc = "targets", !.touched = {}]
<1>1. /\ job[h].pc = "blockers" /\ SetStatus(t, "not_started") /\ UNCHANGED <<nodes, plan, queue, req>>
      /\ dirty' = (dirty \/ (t \in nodes /\ status[t] # "blocked"))
  BY DEF Unblock, JobAt
<1>2. job[h] \in JobState /\ t \in Node
  BY <1>1, CallbackFields
<1>3. job' = Touch([job EXCEPT ![h] = k], h, {t})
  BY <1>2 DEF Unblock, TypeOK, JobState
<1>4. k.pc = "targets" /\ k.node = job[h].node /\ k.targets = job[h].targets
  BY <1>2 DEF JobState
<1> HIDE DEF k
<1>5. job'[h] = k
  <2>1. [job EXCEPT ![h] = k][h] = k
    BY DEF TypeOK
  <2> QED
    BY <1>3, <2>1, TouchOK
<1>6. \A i \in Handler \ {h} : SameCourse(job[i], job'[i])
  <2>1. \A i \in Handler \ {h} : [job EXCEPT ![h] = k][i] = job[i]
    BY DEF TypeOK
  <2> QED
    BY <1>3, <2>1, OthersGoOn
<1>7. Orders'
  BY <1>1, <1>4, <1>5, <1>6, SameOrders DEF Attended
<1> SUFFICES ASSUME ~dirty' PROVE Watched'
  BY <1>7 DEF Attended
<1>8. Watched
  BY <1>1 DEF Attended
<1>9. PlanWatched'
  BY <1>4, <1>5 DEF PlanWatched, Compares, Closing
<1>10. \A c \in Node : Announced(c) => Announced(c)'
  BY <1>1 DEF Announced
<1>11. \A i \in Handler, c \in Node :
         /\ Lists(job[i], c) => Lists(job'[i], c)
         /\ LooksAt(job[i], c) => LooksAt(job'[i], c) \/ c = t
         /\ Closes(job[i], c) => Closes(job'[i], c)
  BY <1>1, <1>4, <1>5, <1>6 DEF SameCourse, Lists, LooksAt, Looking, Closes, Closing
<1>12. CASE t \in nodes
  <2>1. status[t] # "completed"
    BY <1>1, <1>12
  <2>2. "not_started" \in Status
    BY DEF Status
  <2>3. UNCHANGED nodes /\ SetStatus(t, "not_started")
    BY <1>1
  <2>4. /\ \A i \in Node : Ready(i)' => TaskWatched(i)'
        /\ \A p \in Node \ {Root} : AllDone(p)' => ParentWatched(p)'
    BY <1>2, <1>8, <1>10, <1>11, <1>12, <2>1, <2>2, <2>3, TreeWatchedAfterWrite
  <2> QED
    BY <1>9, <2>4 DEF Watched
<1>13. CASE t \notin nodes
  <2>1. UNCHANGED <<nodes, status>> /\ nodes \subseteq Node
    BY <1>1, <1>13 DEF SetStatus, TypeOK
  <2>2. \A i \in Handler, c \in nodes : LooksAt(job[i], c) => LooksAt(job'[i], c)
    BY <1>11, <1>13, <2>1
  <2> QED
    BY <1>8, <1>9, <1>10, <1>11, <2>1, <2>2, TreeStillWatched DEF Watched
<1> QED
  BY <1>12, <1>13

LEMMA CompleteParentAttends ==
  ASSUME TypeOK, Attended, NEW h \in Handler, CompleteParent(h)
  PROVE  Attended'
<1> DEFINE p == Parent[job[h].node]
           k == [job[h] EXCEPT !.pc = "downstream", !.node = p, !.touched = {}]
<1>1. /\ job[h].pc = "complete" /\ SetStatus(p, "completed")
      /\ UNCHANGED <<nodes, plan, queue, req, dirty>>
  BY DEF CompleteParent, JobAt
<1>2. job[h] \in JobState /\ p \in Node
  BY <1>1, CallbackFields, SPAssumption
<1>3. job' = Touch([job EXCEPT ![h] = k], h, {p})
  BY <1>2 DEF CompleteParent, TypeOK, JobState
<1>4. k.pc = "downstream" /\ k.node = p
  BY <1>2 DEF JobState
<1> HIDE DEF k
<1>5. job'[h] = k
  <2>1. [job EXCEPT ![h] = k][h] = k
    BY DEF TypeOK
  <2> QED
    BY <1>3, <2>1, TouchOK
<1>6. \A i \in Handler \ {h} : SameCourse(job[i], job'[i])
  <2>1. \A i \in Handler \ {h} : [job EXCEPT ![h] = k][i] = job[i]
    BY DEF TypeOK
  <2> QED
    BY <1>3, <2>1, OthersGoOn
<1>7. Orders'
  BY <1>1, <1>4, <1>5, <1>6, SameOrders DEF Attended
<1> SUFFICES ASSUME ~dirty' PROVE Watched'
  BY <1>7 DEF Attended
<1>8. Watched
  BY <1>1 DEF Attended
<1>9. PlanWatched'
  BY <1>4, <1>5 DEF PlanWatched, Compares, Closing
<1>10. \A c \in Node : Announced(c) => Announced(c)'
  BY <1>1 DEF Announced
<1>11. \A i \in Handler, c \in Node :
         /\ Lists(job[i], c) => Lists(job'[i], c)
         /\ LooksAt(job[i], c) => LooksAt(job'[i], c)
         /\ Closes(job[i], c) => Closes(job'[i], c) \/ Parent[c] = p
  BY <1>1, <1>4, <1>5, <1>6 DEF SameCourse, Lists, LooksAt, Looking, Closes, Closing
<1>12. \E i \in Handler : Lists(job'[i], p)
  BY <1>4, <1>5 DEF Lists
<1>13. CASE p \in nodes
  <2>1. "completed" \in Status
    BY DEF Status
  <2>2. UNCHANGED nodes /\ SetStatus(p, "completed")
    BY <1>1
  <2>3. /\ \A i \in Node : Ready(i)' => TaskWatched(i)'
        /\ \A i \in Node \ {Root} : AllDone(i)' => ParentWatched(i)'
    BY <1>2, <1>8, <1>10, <1>11, <1>12, <1>13, <2>1, <2>2, TreeWatchedAfterWrite
  <2> QED
    BY <1>9, <2>3 DEF Watched
<1>14. CASE p \notin nodes
  <2>1. UNCHANGED <<nodes, status>> /\ nodes \subseteq Node
    BY <1>1, <1>14 DEF SetStatus, TypeOK
  <2>2. \A i \in Handler, c \in Node : Closes(job[i], c) => Closes(job'[i], c) \/ Parent[c] \notin nodes
    BY <1>11, <1>14
  <2> QED
    BY <1>8, <1>9, <1>10, <1>11, <2>1, <2>2, TreeStillWatched DEF Watched
<1> QED
  BY <1>13, <1>14

-----------------------------------------------------------------------------
(* The steps of a request *)

LEMMA WriteStatusAttends ==
  ASSUME TypeOK, Attended, Separate, NEW r \in Request, WriteStatus(r)
  PROVE  Attended'
<1> DEFINE n == req[r].node
           s == req[r].new
           q == req'[r]
<1>1. /\ req[r].pc = "write" /\ SetStatus(n, s) /\ job' = Touch(job, Nil, {n})
      /\ UNCHANGED <<nodes, plan, queue>>
      /\ dirty' = (dirty \/ (status' # status /\ ~(req[r].loud /\ req[r].old # s)))
  BY DEF WriteStatus, ReqAt
<1>2. /\ n \in Node /\ s \in Status /\ req[r] \in ReqState
      /\ n \in Worked /\ s \in Wanted
  BY <1>1 DEF Attended, Orders, TypeOK, ReqState
<1>3. /\ \A i \in Request \ {r} : req'[i] = req[i]
      /\ q.pc \in {"idle", "readplan", "publish"}
      /\ n \in nodes /\ req[r].loud /\ req[r].old # s => q.pc \in Telling /\ q.node = n /\ q.new = s
  <2>1. /\ \A p : ReqGoto(r, p) => /\ \A i \in Request \ {r} : req'[i] = req[i]
                                   /\ q.pc = p /\ q.node = n /\ q.new = s
        /\ ReqDone(r) => (\A i \in Request \ {r} : req'[i] = req[i]) /\ q.pc = "idle"
    BY <1>2 DEF ReqGoto, ReqDone, NoReq, TypeOK, ReqState
  <2> QED
    BY <2>1, <1>1, <1>2 DEF WriteStatus, Telling, TypeOK, ReqState
<1>4. \A i \in Handler : SameCourse(job[i], job'[i])
  <2>1. Nil \notin Handler /\ \A i \in Handler \ {Nil} : job[i] = job[i]
    BY SPAssumption
  <2>2. \A i \in Handler \ {Nil} : SameCourse(job[i], job'[i])
    BY <1>1, <2>1, OthersGoOn
  <2> QED
    BY <2>1, <2>2
<1> HIDE DEF q
<1>5. Orders'
  BY <1>3, <1>4 DEF q, Attended, Orders, SameCourse
<1> SUFFICES ASSUME ~dirty' PROVE Watched'
  BY <1>5 DEF Attended
<1>6. Watched
  BY <1>1 DEF Attended
<1>7. \A c \in Node : Announced(c) => Announced(c)'
  <2> SUFFICES ASSUME NEW c \in Node, Announced(c) PROVE Announced(c)'
    OBVIOUS
  <2>1. ~Tells(req[r], c)
    BY <1>1 DEF Tells, Telling
  <2> QED
    BY <1>1, <1>3, <2>1 DEF Announced
<1>8. \A i \in Handler, c \in Node : /\ Lists(job[i], c) => Lists(job'[i], c)
                                     /\ LooksAt(job[i], c) => LooksAt(job'[i], c)
                                     /\ Closes(job[i], c) => Closes(job'[i], c)
  BY <1>4, SameTokens
<1>9. nodes \subseteq Node
  BY DEF TypeOK
<1>10. CASE status' = status
  <2>1. \A i \in Handler : Compares(job[i], plan) => Compares(job'[i], plan)
    BY <1>4, SameTokens
  <2>2. \A i \in Request : req[i].pc \in Telling => req'[i].pc \in Telling
    BY <1>1, <1>3 DEF Telling
  <2>3. Mismatch' => PlanWatched'
    <3> SUFFICES ASSUME Mismatch' PROVE PlanWatched'
      OBVIOUS
    <3>1. Mismatch
      BY <1>1, <1>10 DEF Mismatch
    <3>2. PlanWatched
      BY <1>6, <3>1 DEF Watched
    <3> QED
      BY <1>1, <2>1, <2>2, <3>2 DEF PlanWatched
  <2> QED
    BY <1>1, <1>6, <1>7, <1>8, <1>9, <1>10, <2>3, TreeStillWatched DEF Watched
<1>11. CASE status' # status
  <2>1. n \in nodes /\ q.pc \in Telling /\ q.node = n /\ q.new = s
    BY <1>1, <1>3, <1>11 DEF SetStatus
  <2>2. PlanWatched'
    BY <2>1 DEF q, PlanWatched
  <2>4. s # "blocked" /\ Children(n) = {}
    BY <1>2, <1>9 DEF Separate, Children
  <2>5. UNCHANGED nodes /\ SetStatus(n, s)
    BY <1>1
  <2>6. PICK m \in Node, z \in Status :
           /\ m = n /\ z = s /\ (z = "completed" => Announced(m)') /\ m \in nodes
           /\ z # "blocked" /\ Children(m) = {} /\ SetStatus(m, z)
    <3>1. ASSUME NEW m, m = n, s = "completed" PROVE Announced(m)'
      BY <2>1, <3>1 DEF q, Announced, Tells
    <3> QED
      BY <1>2, <2>1, <2>4, <2>5, <3>1
  <2>7. /\ \A i \in Node : Ready(i)' => TaskWatched(i)'
        /\ \A i \in Node \ {Root} : AllDone(i)' => ParentWatched(i)'
    BY <1>6, <1>7, <1>8, <2>5, <2>6, TreeWatchedAfterWrite
  <2> QED
    BY <2>2, <2>7 DEF Watched
<1> QED
  BY <1>10, <1>11

(* What is announced stays announced, or is being listed: nothing else is  *)
(* written.                                                                *)
LEMMA AnnouncementsAttend ==
  ASSUME TypeOK, Watched, UNCHANGED <<nodes, status>>,
         Mismatch' /\ PlanWatched => PlanWatched',
         Mismatch' => Mismatch \/ PlanWatched',
         \A c \in Node : Announced(c) => Announced(c)' \/ \E i \in Handler : Lists(job'[i], c),
         \A i \in Handler, c \in Node : /\ Lists(job[i], c) => Lists(job'[i], c)
                                        /\ LooksAt(job[i], c) => LooksAt(job'[i], c)
                                        /\ Closes(job[i], c) => Closes(job'[i], c)
  PROVE  Watched'
<1>1. nodes \subseteq Node
  BY DEF TypeOK
<1>2. Mismatch' => PlanWatched'
  BY DEF Watched
<1>3. /\ \A t \in Node : Ready(t)' => TaskWatched(t)'
      /\ \A p \in Node \ {Root} : AllDone(p)' => ParentWatched(p)'
  BY <1>1, TreeStillWatched
<1> QED
  BY <1>2, <1>3 DEF Watched

LEMMA RequestAttends ==
  ASSUME TypeOK, Attended, NEW r \in Request,
         UpdateNodeStatus(r) \/ ReadDraft(r) \/ Promote(r) \/ Publish(r)
  PROVE  Attended'
<1>1. UNCHANGED <<nodes, status, job, dirty>>
  BY DEF UpdateNodeStatus, ReadDraft, Promote, Publish
<1>2. \A i \in Request \ {r} : req'[i] = req[i]
  BY DEF UpdateNodeStatus, ReadDraft, Promote, Publish, ReqGoto, ReqDone, TypeOK
<1>3. CASE UpdateNodeStatus(r)
  <2>1. PICK n \in nodes \cap Worked, s \in Wanted, loud \in BOOLEAN :
           req' = [req EXCEPT ![r] = [pc |-> "write", node |-> n, old |-> status[n],
                                      new |-> s, loud |-> loud]]
    BY <1>3 DEF UpdateNodeStatus
  <2>2. req[r].pc = "idle" /\ UNCHANGED <<plan, queue>>
    BY <1>3 DEF UpdateNodeStatus, ReqAt
  <2>3. req'[r].pc = "write" /\ req'[r].node = n /\ req'[r].new = s
    BY <2>1 DEF TypeOK
  <2>4. Orders'
    BY <1>1, <1>2, <2>3 DEF Attended, Orders
  <2> SUFFICES ASSUME Watched PROVE Watched'
    BY <1>1, <2>4 DEF Attended
  <2>5. \A c \in Node : Announced(c) => Announced(c)'
    <3> SUFFICES ASSUME NEW c \in Node, Announced(c) PROVE Announced(c)'
      OBVIOUS
    <3>1. ~Tells(req[r], c)
      BY <2>2 DEF Tells, Telling
    <3> QED
      BY <1>2, <2>2, <3>1 DEF Announced
  <2>6. PlanWatched => PlanWatched'
    BY <1>1, <1>2, <2>2 DEF PlanWatched, Telling
  <2>7. Mismatch' => Mismatch
    BY <1>1, <2>2 DEF Mismatch
  <2> QED
    BY <1>1, <2>5, <2>6, <2>7, AnnouncementsAttend
<1>4. CASE ReadDraft(r) \/ Promote(r)
  <2>1. PICK p \in {"promote", "publish"} : ReqGoto(r, p)
    BY <1>4 DEF ReadDraft, Promote
  <2>2. req[r].pc \in Telling /\ UNCHANGED queue
    BY <1>4 DEF ReadDraft, Promote, ReqAt, Telling
  <2>3. req'[r].pc \in Telling /\ req'[r].node = req[r].node /\ req'[r].new = req[r].new
    BY <2>1 DEF ReqGoto, TypeOK, ReqState, Telling
  <2>4. Orders'
    BY <1>1, <1>2, <2>3 DEF Attended, Orders, Telling
  <2> SUFFICES ASSUME Watched PROVE Watched'
    BY <1>1, <2>4 DEF Attended
  <2>5. \A c \in Node : Announced(c) => Announced(c)'
    BY <1>2, <2>2, <2>3 DEF Announced, Tells
  <2>6. PlanWatched'
    BY <2>3 DEF PlanWatched
  <2> QED
    BY <1>1, <2>5, <2>6, AnnouncementsAttend
<1>5. CASE Publish(r)
  <2> DEFINE e == [node |-> req[r].node, new |-> req[r].new]
  <2>1. req[r].pc = "publish" /\ queue' = Append(queue, e) /\ req' = [req EXCEPT ![r] = NoReq]
    BY <1>5 DEF Publish, ReqAt, ReqDone
  <2>2. req'[r].pc = "idle"
    BY <2>1 DEF TypeOK, NoReq
  <2>3. Orders'
    BY <1>1, <1>2, <2>2 DEF Attended, Orders
  <2> SUFFICES ASSUME Watched PROVE Watched'
    BY <1>1, <2>3 DEF Attended
  <2>4. e \in Event
    BY <2>1 DEF TypeOK, ReqState, Event
  <2>5. /\ queue' \in Seq(Event) /\ Len(queue') = Len(queue) + 1 /\ Len(queue) \in Nat
        /\ DOMAIN queue = 1 .. Len(queue) /\ DOMAIN queue' = 1 .. Len(queue')
        /\ \A i \in 1 .. Len(queue) : queue'[i] = queue[i]
        /\ queue'[Len(queue) + 1] = e
    BY <2>1, <2>4, AppendProperties, LenProperties DEF TypeOK
  <2> HIDE DEF e
  <2>6. \A c \in Node : Announced(c) => Announced(c)'
    <3> SUFFICES ASSUME NEW c \in Node, Announced(c) PROVE Announced(c)'
      OBVIOUS
    <3>1. CASE Told(queue, c)
      BY <2>5, <3>1 DEF Told, Announced
    <3>2. CASE Tells(req[r], c)
      <4>1. queue'[Len(queue) + 1] = [node |-> c, new |-> "completed"]
        BY <2>5, <3>2 DEF Tells, e
      <4>2. Len(queue) + 1 \in DOMAIN queue'
        BY <2>5
      <4> QED
        BY <4>1, <4>2 DEF Told, Announced
    <3>3. CASE \E i \in Request \ {r} : Tells(req[i], c)
      BY <1>2, <3>3 DEF Announced
    <3> QED
      BY <3>1, <3>2, <3>3 DEF Announced
  <2>7. PlanWatched'
    <3>1. queue' # <<>>
      BY <2>5
    <3> QED
      BY <3>1 DEF PlanWatched
  <2> QED
    BY <1>1, <2>6, <2>7, AnnouncementsAttend
<1> QED
  BY <1>3, <1>4, <1>5

-----------------------------------------------------------------------------
(* The bus, failures and the rest *)

LEMMA DeliverAttends ==
  ASSUME TypeOK, Attended, NEW h \in Handler, Deliver(h)
  PROVE  Attended'
<1> DEFINE e == Head(queue)
           k == [NoJob EXCEPT !.node = e.node,
                              !.pc = IF e.new = "completed" THEN "downstream" ELSE "readplan"]
<1>1. /\ job[h].pc = "idle" /\ queue # <<>> /\ queue' = Tail(queue)
      /\ job' = [job EXCEPT ![h] = k] /\ UNCHANGED <<nodes, status, plan, req, dirty>>
  BY DEF Deliver, JobAt
<1>2. /\ k.pc = IF e.new = "completed" THEN "downstream" ELSE "readplan"
      /\ k.node = e.node
  BY DEF NoJob
<1> HIDE DEF k
<1>3. job'[h] = k /\ \A i \in Handler \ {h} : job'[i] = job[i]
  BY <1>1 DEF TypeOK
<1>4. Orders'
  BY <1>1, <1>2, <1>3 DEF Attended, Orders
<1> SUFFICES ASSUME Watched PROVE Watched'
  BY <1>1, <1>4 DEF Attended
<1>5. /\ Len(queue) \in Nat /\ Len(queue) > 0 /\ DOMAIN queue = 1 .. Len(queue)
      /\ DOMAIN queue' = 1 .. (Len(queue) - 1) /\ queue[1] = e
      /\ \A i \in 1 .. (Len(queue) - 1) : queue'[i] = queue[i + 1]
  <2>1. queue \in Seq(Event)
    BY DEF TypeOK
  <2>2. /\ Tail(queue) \in Seq(Event) /\ Len(Tail(queue)) = Len(queue) - 1
        /\ \A i \in 1 .. Len(Tail(queue)) : Tail(queue)[i] = queue[i + 1]
    BY <1>1, <2>1, HeadTailProperties
  <2>3. /\ Len(queue) \in Nat /\ Len(queue) # 0 /\ DOMAIN queue = 1 .. Len(queue)
        /\ DOMAIN Tail(queue) = 1 .. Len(Tail(queue))
    BY <1>1, <2>1, <2>2, LenProperties, EmptySeq
  <2> QED
    BY <1>1, <2>1, <2>2, <2>3
<1> HIDE DEF e
<1>6. \A c \in Node : Announced(c) => Announced(c)' \/ \E i \in Handler : Lists(job'[i], c)
  <2> SUFFICES ASSUME NEW c \in Node, Announced(c)
               PROVE  Announced(c)' \/ \E i \in Handler : Lists(job'[i], c)
    OBVIOUS
  <2>1. CASE \E r \in Request : Tells(req[r], c)
    BY <1>1, <2>1 DEF Announced
  <2>2. CASE Told(queue, c)
    <3>1. PICK i \in 1 .. Len(queue) : queue[i] = [node |-> c, new |-> "completed"]
      BY <1>5, <2>2 DEF Told
    <3>2. CASE i = 1
      BY <1>2, <1>3, <1>5, <3>1, <3>2 DEF Lists
    <3>3. CASE i # 1
      <4>1. i - 1 \in 1 .. (Len(queue) - 1) /\ (i - 1) + 1 = i
        BY <1>5, <3>3
      <4>2. queue'[i - 1] = [node |-> c, new |-> "completed"] /\ i - 1 \in DOMAIN queue'
        BY <1>5, <3>1, <4>1
      <4> QED
        BY <4>2 DEF Told, Announced
    <3> QED
      BY <3>2, <3>3
  <2> QED
    BY <2>1, <2>2 DEF Announced
<1>7. \A i \in Handler, c \in Node : /\ Lists(job[i], c) => Lists(job'[i], c)
                                     /\ LooksAt(job[i], c) => LooksAt(job'[i], c)
                                     /\ Closes(job[i], c) => Closes(job'[i], c)
  BY <1>1, <1>3 DEF Lists, LooksAt, Looking, Closes, Closing
<1>8. PlanWatched'
  BY <1>2, <1>3 DEF PlanWatched, Compares, Closing
<1> QED
  BY <1>1, <1>6, <1>7, <1>8, AnnouncementsAttend

LEMMA RestAttends ==
  ASSUME TypeOK, Attended, CreateNode \/ DeleteNode \/ Fail \/ Restart
  PROVE  Attended'
<1>1. CASE CreateNode \/ DeleteNode
  <2>1. dirty' = TRUE /\ UNCHANGED req /\ \E n \in Node : job' = Touch(job, Nil, {n})
    BY <1>1, SPAssumption DEF CreateNode, DeleteNode, TypeOK
  <2>2. Nil \notin Handler
    BY SPAssumption
  <2>3. \A i \in Handler \ {Nil} : SameCourse(job[i], job'[i])
    BY <2>1, OthersGoOn
  <2>4. Orders'
    BY <2>1, <2>2, <2>3, SameOrders DEF Attended
  <2> QED
    BY <2>1, <2>4 DEF Attended
<1>2. CASE Fail
  <2>1. dirty' = TRUE
    BY <1>2 DEF Fail
  <2>2. CASE UNCHANGED req /\ \E h \in Handler : JobDone(h)
    <3>1. PICK h \in Handler : job' = [job EXCEPT ![h] = NoJob]
      BY <2>2 DEF JobDone
    <3>2. \A i \in Handler : job'[i] = job[i] \/ job'[i].pc = "idle"
      BY <3>1 DEF TypeOK, NoJob
    <3>3. Orders'
      BY <2>2, <3>2 DEF Attended, Orders
    <3> QED
      BY <2>1, <3>3 DEF Attended
  <2>3. CASE UNCHANGED job /\ \E r \in Request : ReqGoto(r, "publish") \/ ReqDone(r)
    <3>1. PICK r \in Request : ReqGoto(r, "publish") \/ ReqDone(r)
      BY <2>3
    <3>2. \A i \in Request : req'[i] = req[i] \/ req'[i].pc # "write"
      BY <3>1 DEF ReqGoto, ReqDone, NoReq, TypeOK, ReqState
    <3>3. Orders'
      BY <2>3, <3>2 DEF Attended, Orders
    <3> QED
      BY <2>1, <3>3 DEF Attended
  <2> QED
    BY <1>2, <2>2, <2>3 DEF Fail
<1>3. CASE Restart
  <2>1. /\ UNCHANGED <<nodes, status, plan>> /\ dirty' = (dirty \/ ~Quiescent)
        /\ \A r \in Request : req'[r].pc = "idle" /\ \A h \in Handler : job'[h].pc = "idle"
    BY <1>3 DEF Restart, NoReq, NoJob
  <2>2. Orders'
    BY <1>3 DEF Restart, NoReq, NoJob, Orders
  <2> SUFFICES ASSUME ~dirty' PROVE Watched'
    BY <2>2 DEF Attended
  <2>3. Watched /\ Quiescent
    BY <2>1 DEF Attended
  <2>4. ~PlanWatched /\ \A c : ~Announced(c)
    BY <2>3 DEF Quiescent, ReqAt, JobAt, PlanWatched, Announced, Told, Tells, Telling, Compares, Closing
  <2>5. \A i \in Handler, c \in Node : ~Lists(job[i], c) /\ ~LooksAt(job[i], c) /\ ~Closes(job[i], c)
    BY <2>3 DEF Quiescent, JobAt, Lists, LooksAt, Looking, Closes, Closing
  <2>6. ~Mismatch
    BY <2>3, <2>4 DEF Watched
  <2>7. Mismatch' => Mismatch
    BY <2>1 DEF Mismatch
  <2> QED
    BY <2>1, <2>3, <2>4, <2>5, <2>6, <2>7, AnnouncementsAttend
<1> QED
  BY <1>1, <1>2, <1>3

LEMMA AttendedStep ==
  ASSUME Separate, TypeOK, Attended, [Next]_vars
  PROVE  Attended'
<1>1. ASSUME NEW r \in Request, UpdateNodeStatus(r) \/ ReqStep(r) PROVE Attended'
  BY <1>1, RequestAttends, WriteStatusAttends DEF ReqStep
<1>2. ASSUME NEW h \in Handler, Deliver(h) \/ JobStep(h) PROVE Attended'
  BY <1>2, DeliverAttends, ListDownstreamAttends, CheckTargetAttends, ListUpstreamAttends,
     CheckBlockerAttends, UnblockAttends, ClimbAttends, CompleteParentAttends, ComparesPlan,
     SetPlanAttends DEF JobStep, Propagate, MaintainPlan
<1>3. CASE UNCHANGED vars
  <2>1. UNCHANGED <<nodes, status, plan, queue, req, job, dirty>>
    BY <1>3 DEF vars
  <2>2. Orders'
    BY <2>1 DEF Attended, Orders
  <2> SUFFICES ASSUME Watched PROVE Watched'
    BY <2>1, <2>2 DEF Attended
  <2>3. Mismatch' => Mismatch
    BY <2>1 DEF Mismatch
  <2>4. PlanWatched => PlanWatched'
    BY <2>1 DEF PlanWatched
  <2>5. \A c \in Node : Announced(c) => Announced(c)'
    BY <2>1 DEF Announced
  <2> QED
    BY <2>1, <2>3, <2>4, <2>5, AnnouncementsAttend
<1> QED
  BY <1>1, <1>2, <1>3, RestAttends DEF Next

-----------------------------------------------------------------------------
(* IsComplete rounds: it tells completed work exactly for a plan of fewer  *)
(* than 200 tasks (CompleteMeansDone).                                     *)
SmallPlan == /\ IsFiniteSet(WorkNodes(Node, Type))
             /\ Cardinality(WorkNodes(Node, Type)) < 200

LEMMA SmallIsExact ==
  ASSUME TypeOK, SmallPlan
  PROVE  IsComplete(nodes, Type, status) <=>
           /\ WorkNodes(nodes, Type) # {}
           /\ \A n \in WorkNodes(nodes, Type) : status[n] = "completed"
<1>1. WorkNodes(nodes, Type) \subseteq WorkNodes(Node, Type)
  BY DEF WorkNodes, TypeOK
<1>2. /\ IsFiniteSet(WorkNodes(nodes, Type))
      /\ Cardinality(WorkNodes(nodes, Type)) <= Cardinality(WorkNodes(Node, Type))
  BY <1>1, FS_Subset DEF SmallPlan
<1>3. /\ Cardinality(WorkNodes(nodes, Type)) \in Nat /\ Cardinality(WorkNodes(Node, Type)) \in Nat
  BY <1>2, FS_CardinalityType DEF SmallPlan
<1>4. Cardinality(WorkNodes(nodes, Type)) < 200
  BY <1>2, <1>3 DEF SmallPlan
<1> QED
  BY <1>2, <1>4, CompleteMeansDone

(* At rest nobody watches anything. *)
LEMMA NobodyWatches ==
  ASSUME Quiescent
  PROVE  ~PlanWatched /\ (\A t : ~TaskWatched(t)) /\ (\A p : ~ParentWatched(p))
<1>1. queue = <<>> /\ \A r \in Request : req[r].pc = "idle"
  BY DEF Quiescent, ReqAt
<1>2. \A h \in Handler : job[h].pc = "idle"
  BY DEF Quiescent, JobAt
<1>3. \A c : ~Announced(c)
  BY <1>1 DEF Announced, Told, Tells, Telling
<1>4. ASSUME NEW h \in Handler
      PROVE  /\ ~Compares(job[h], plan)
             /\ \A c : ~Lists(job[h], c) /\ ~LooksAt(job[h], c) /\ ~Closes(job[h], c)
  BY <1>2 DEF Compares, Lists, LooksAt, Looking, Closes, Closing
<1> QED
  BY <1>1, <1>3, <1>4 DEF PlanWatched, TaskWatched, ParentWatched, Telling

LEMMA AttendedIsSettled ==
  ASSUME TypeOK, Attended, SmallPlan
  PROVE  Settled
<1> SUFFICES ASSUME Quiescent, ~dirty PROVE Settled
  BY DEF Settled, PlanSettled, TreeSettled
<1>1. Watched
  BY DEF Attended
<1>2. ~Mismatch
  BY <1>1, NobodyWatches DEF Watched
<1>3. \A t \in nodes : ~Ready(t)
  BY <1>1, NobodyWatches DEF Watched, TypeOK
<1>4. \A p \in nodes \ {Root} : ~AllDone(p)
  BY <1>1, NobodyWatches DEF Watched, TypeOK
<1>5. PlanSettled
  BY <1>2, SmallIsExact DEF PlanSettled, Mismatch
<1>6. TreeSettled
  BY <1>3, <1>4 DEF TreeSettled
<1> QED
  BY <1>5, <1>6 DEF Settled

LEMMA SettledIsAttended ==
  ASSUME Init, Settled, SmallPlan
  PROVE  Attended
<1>1. TypeOK
  BY InitOK
<1>2. Quiescent /\ ~dirty
  BY DEF Init, Quiescent, ReqAt, JobAt, NoReq, NoJob
<1>3. Orders
  BY DEF Init, Orders, NoReq, NoJob
<1>4. ~Mismatch
  BY <1>1, <1>2, SmallIsExact DEF Settled, PlanSettled, Mismatch
<1>5. \A t : ~Ready(t)
  BY <1>2 DEF Settled, TreeSettled, Ready
<1>6. \A p \in Node \ {Root} : ~AllDone(p)
  BY <1>2 DEF Settled, TreeSettled, AllDone
<1> QED
  BY <1>3, <1>4, <1>5, <1>6 DEF Attended, Watched

(* A plan that is settled at first is settled whenever nothing is in       *)
(* flight: however the callbacks of any number of events interleave with   *)
(* requests, none is lost that anything still depends on (propagateStatus, *)
(* maintainPlanStatus); where requests leave to the propagation what it    *)
(* does, and rounding does not matter.                                     *)
THEOREM ComesToRest ==
  ASSUME Separate, SmallPlan
  PROVE  Spec /\ Settled => []Settled
<1>1. Init /\ Settled => Attended
  BY SettledIsAttended
<1>2. TypeOK /\ Attended /\ [Next]_vars => Attended'
  BY AttendedStep
<1>3. TypeOK /\ Attended => Settled
  BY AttendedIsSettled
<1> QED
  BY <1>1, <1>2, <1>3, TypeCorrect, PTL DEF Spec
=============================================================================
