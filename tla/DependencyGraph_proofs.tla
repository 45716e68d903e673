----------------------- MODULE DependencyGraph_proofs -----------------------
(***************************************************************************)
(* What holds of DependencyGraph for any nodes, requests, batches and pool:  *)
(* the graph stays free of cycles unless an edge is committed that its       *)
(* check did not cover.                                                      *)
(***************************************************************************)
EXTENDS DependencyGraph, TLAPS

-----------------------------------------------------------------------------
(* Facts about reachability.                                                 *)

(* A path of a graph is a path of every larger graph. *)
LEMMA ReachMono ==
  ASSUME NEW E, NEW F, E \subseteq F, NEW x, NEW y, Reach(E, x, y)
  PROVE  Reach(F, x, y)
  BY DEF Reach, Closed

(* The nodes reachable from x are a closed set that holds x. *)
LEMMA ReachClosed ==
  ASSUME NEW E \in SUBSET (Node \X Node), NEW x \in Node
  PROVE  LET S == {y \in Node : Reach(E, x, y)} IN x \in S /\ Closed(E, S)
<1> DEFINE S == {y \in Node : Reach(E, x, y)}
<1>1. x \in S
  BY DEF Reach
<1>2. ASSUME NEW e \in E, e[1] \in S PROVE e[2] \in S
  <2>1. e[1] \in Node /\ e[2] \in Node
    OBVIOUS
  <2>2. SUFFICES ASSUME NEW T \in SUBSET Node, x \in T, Closed(E, T) PROVE e[2] \in T
    BY <2>1 DEF Reach
  <2>3. e[1] \in T
    BY <1>2, <2>2 DEF Reach
  <2> QED
    BY <2>2, <2>3 DEF Closed
<1> QED
  BY <1>1, <1>2 DEF Closed

(* Paths can be joined. *)
LEMMA ReachTrans ==
  ASSUME NEW E, NEW x, NEW y, NEW z, Reach(E, x, y), Reach(E, y, z)
  PROVE  Reach(E, x, z)
  BY DEF Reach

(* An edge is a path. *)
LEMMA ReachStep ==
  ASSUME NEW E, NEW e \in E
  PROVE  Reach(E, e[1], e[2])
  BY DEF Reach, Closed

(* A part of a graph without cycles has none. *)
LEMMA AcyclicSubset ==
  ASSUME NEW E, NEW F, E \subseteq F, Acyclic(F)
  PROVE  Acyclic(E)
  BY ReachMono DEF Acyclic

(* The heart of wouldCreateCycle: if the source of a new edge cannot be      *)
(* reached from its target, the edge closes no cycle.                        *)
LEMMA AddEdgeAcyclic ==
  ASSUME NEW E \in SUBSET (Node \X Node), NEW s \in Node, NEW t \in Node,
         Acyclic(E), s # t, ~Reach(E, t, s)
  PROVE  Acyclic(E \cup {<<s, t>>})
<1> DEFINE F == E \cup {<<s, t>>}
<1>1. SUFFICES ASSUME NEW e \in F, Reach(F, e[2], e[1]) PROVE FALSE
  BY DEF Acyclic
<1>2. PICK m \in Node, n \in Node : e = <<n, m>>
  OBVIOUS
<1>3. Reach(F, m, n)
  BY <1>1, <1>2
<1> DEFINE S == {y \in Node : Reach(E, m, y)}
           T == {y \in Node : Reach(E, t, y)}
<1>4. m \in S /\ Closed(E, S)
  BY ReachClosed
<1>5. t \in T /\ Closed(E, T)
  BY ReachClosed
<1>6. CASE s \notin S
  <2>1. Closed(F, S)
    BY <1>4, <1>6 DEF Closed
  <2>2. n \in S
    BY <1>3, <1>4, <2>1 DEF Reach
  <2>3. CASE e \in E
    BY <1>2, <2>2, <2>3 DEF Acyclic
  <2>4. CASE e = <<s, t>>
    BY <1>2, <1>6, <2>2, <2>4
  <2> QED
    BY <1>1, <2>3, <2>4
<1>7. CASE s \in S
  <2>1. Closed(F, S \cup T)
    BY <1>4, <1>5 DEF Closed
  <2>2. n \in S \cup T
    BY <1>3, <1>4, <2>1 DEF Reach
  <2>3. Reach(E, m, s)
    BY <1>7
  <2>4. CASE e = <<s, t>>
    BY <1>2, <2>3, <2>4
  <2>5. CASE e \in E /\ n \in S
    BY <1>2, <2>5 DEF Acyclic
  <2>6. CASE e \in E /\ n \in T
    <3>1. Reach(E, n, m)
      BY <1>2, <2>6, ReachStep
    <3>2. Reach(E, t, n)
      BY <2>6
    <3> QED
      BY <3>1, <3>2, <2>3, ReachTrans
  <2> QED
    BY <1>1, <2>2, <2>4, <2>5, <2>6
<1> QED
  BY <1>6, <1>7

-----------------------------------------------------------------------------
(* Types.                                                                    *)

(* What TypeOK says of one request. *)
JobOK(j) ==
  /\ j \in Job
  /\ j.pc \in {"check", "insert", "locked"} => j.edge \in Edge
  /\ j.pc \in {"begin", "bulkcheck", "bulkinsert"} => j.todo # <<>>

(* TypeOK, request by request. *)
LEMMA TypeByJob ==
  TypeOK <=> /\ edges \subseteq Link
             /\ planned \subseteq Node
             /\ req = [r \in Request |-> req[r]]
             /\ \A r \in Request : JobOK(req[r])
             /\ ops \in 0 .. MaxOps
             /\ raced \in BOOLEAN
  BY DEF TypeOK, JobOK

(* An idle slot is well typed. *)
LEMMA IdleOK == JobOK(Idle)
  BY DEF JobOK, Idle, Job, Pc

(* The first state is well typed. *)
LEMMA InitTypeOK == Init => TypeOK
<1> SUFFICES ASSUME Init PROVE TypeOK
  OBVIOUS
<1>1. \A r \in Request : JobOK(req[r])
  BY IdleOK DEF Init
<1>2. /\ req = [r \in Request |-> req[r]]
      /\ edges \subseteq Link /\ planned \subseteq Node /\ raced \in BOOLEAN
  BY DEF Init
<1>3. ops \in 0 .. MaxOps
  BY DGAssumption DEF Init
<1> QED
  BY <1>1, <1>2, <1>3, TypeByJob

(* Replacing one request by a well-typed one keeps the requests well typed.  *)
LEMMA SetJob ==
  ASSUME TypeOK, NEW r \in Request, NEW j, JobOK(j), req' = [req EXCEPT ![r] = j],
         edges' \subseteq Link, planned' \subseteq Node, ops' \in 0 .. MaxOps,
         raced' \in BOOLEAN
  PROVE  TypeOK'
  BY DEF TypeOK, JobOK

(* Committing well-typed edges keeps the state well typed. *)
LEMMA CommitOK ==
  ASSUME TypeOK, NEW r \in Request, NEW D \in SUBSET Link, Commit(r, D),
         UNCHANGED <<planned, ops>>, raced' \in BOOLEAN
  PROVE  TypeOK'
<1>1. ASSUME NEW i \in Request PROVE JobOK(req'[i])
  <2>1. CASE i = r
    BY <2>1, IdleOK DEF Commit, TypeOK
  <2>2. CASE i # r
    <3>1. req'[i] = [req[i] EXCEPT !.fresh = @ \cup D]
      BY <2>2 DEF Commit, TypeOK
    <3>2. req[i] \in Job /\ JobOK(req[i])
      BY DEF TypeOK, JobOK
    <3> QED
      BY <3>1, <3>2 DEF JobOK, Job
  <2> QED
    BY <2>1, <2>2
<1> QED
  BY <1>1 DEF TypeOK, JobOK, Commit

(* Every step keeps the state well typed. *)
LEMMA NextTypeOK == TypeOK /\ [Next]_vars => TypeOK'
<1> SUFFICES ASSUME TypeOK, [Next]_vars PROVE TypeOK'
  OBVIOUS
<1>0. \A r \in Request : ops < MaxOps => ops + 1 \in 0 .. MaxOps
  BY DGAssumption DEF TypeOK
<1>1. ASSUME NEW r \in Request, CreateDependency(r) PROVE TypeOK'
  <2>1. PICK e \in Single : req' = [req EXCEPT ![r] = [Idle EXCEPT !.pc = "check", !.edge = e]]
    BY <1>1 DEF CreateDependency
  <2>2. e \in Edge
    BY DGAssumption
  <2>3. JobOK([Idle EXCEPT !.pc = "check", !.edge = e])
    BY <2>2, IdleOK DEF JobOK, Idle, Job, Pc
  <2>4. /\ edges' \subseteq Link /\ planned' \subseteq Node
        /\ ops' \in 0 .. MaxOps /\ raced' \in BOOLEAN
    BY <1>0, <1>1 DEF CreateDependency, TypeOK
  <2> QED
    BY <2>1, <2>3, <2>4, SetJob
<1>2. ASSUME NEW r \in Request, BulkCreate(r) PROVE TypeOK'
  <2>1. PICK l \in Batches :
          /\ planned' = planned \cup NodesOf(l)
          /\ req' = [req EXCEPT ![r] = [Idle EXCEPT !.pc = "begin", !.todo = l]]
    BY <1>2 DEF BulkCreate
  <2>2. l \in Seq(Link) /\ l # <<>>
    BY DGAssumption
  <2>3. JobOK([Idle EXCEPT !.pc = "begin", !.todo = l])
    BY <2>2, IdleOK DEF JobOK, Idle, Job, Pc
  <2>4. /\ edges' \subseteq Link /\ ops' \in 0 .. MaxOps /\ raced' \in BOOLEAN
    BY <1>0, <1>2 DEF BulkCreate, TypeOK
  <2>5. planned' = planned \cup NodesOf(l)
    BY <2>1
  <2>6. \A i \in DOMAIN l : l[i] \in Edge
    BY <2>2 DEF Link
  <2>7. NodesOf(l) \subseteq Node
    BY <2>6 DEF NodesOf, Edge
  <2>8. planned' \subseteq Node
    BY <2>5, <2>7 DEF TypeOK
  <2> QED
    BY <2>1, <2>3, <2>4, <2>8, SetJob
<1>3. ASSUME NEW r \in Request, Answer(r), UNCHANGED <<edges, planned, ops, raced>> PROVE TypeOK'
  BY <1>3, IdleOK, SetJob DEF Answer, TypeOK
<1>4. ASSUME NEW r \in Request, Check(r) PROVE TypeOK'
  <2>1. CASE Answer(r)
    BY <1>3, <1>4, <2>1 DEF Check
  <2>2. CASE req' = [req EXCEPT ![r].pc = "insert", ![r].fresh = {}]
    <3> DEFINE j == [req[r] EXCEPT !.pc = "insert", !.fresh = {}]
    <3>1. JobOK(j)
      BY <1>4 DEF JobOK, Job, Pc, Check, At, TypeOK
    <3>2. req' = [req EXCEPT ![r] = j]
      BY <2>2 DEF TypeOK
    <3> HIDE DEF j
    <3> QED
      BY <1>4, <3>1, <3>2, SetJob DEF Check, TypeOK
  <2> QED
    BY <1>4, <2>1, <2>2 DEF Check
<1>5. ASSUME NEW r \in Request, Insert(r) PROVE TypeOK'
  <2>2. CASE req[r].edge \in Link /\ Commit(r, {req[r].edge}) /\ raced' \in BOOLEAN
    BY <1>5, <2>2, CommitOK DEF Insert
  <2>3. CASE Answer(r) /\ UNCHANGED <<edges, raced>>
    BY <1>3, <1>5, <2>3 DEF Insert
  <2> QED
    BY <1>5, <2>2, <2>3 DEF Insert, TypeOK
<1>6. ASSUME NEW r \in Request, Begin(r) PROVE TypeOK'
  <2> DEFINE j == [req[r] EXCEPT !.pc = "bulkcheck", !.fresh = {}]
  <2>1. JobOK(j)
    BY <1>6 DEF JobOK, Job, Pc, Begin, At, TypeOK
  <2>2. req' = [req EXCEPT ![r] = j]
    BY <1>6 DEF Begin, TypeOK
  <2> HIDE DEF j
  <2> QED
    BY <1>6, <2>1, <2>2, SetJob DEF Begin, TypeOK
<1>7. ASSUME NEW r \in Request, BulkCheck(r) PROVE TypeOK'
  <2>1. CASE Answer(r)
    BY <1>3, <1>7, <2>1 DEF BulkCheck
  <2>2. CASE req' = [req EXCEPT ![r].pc = "bulkinsert"]
    <3> DEFINE j == [req[r] EXCEPT !.pc = "bulkinsert"]
    <3>1. JobOK(j)
      BY <1>7 DEF JobOK, Job, Pc, BulkCheck, At, TypeOK
    <3>2. req' = [req EXCEPT ![r] = j]
      BY <2>2 DEF TypeOK
    <3> HIDE DEF j
    <3> QED
      BY <1>7, <3>1, <3>2, SetJob DEF BulkCheck, TypeOK
  <2> QED
    BY <1>7, <2>1, <2>2 DEF BulkCheck
<1>8. ASSUME NEW r \in Request, BulkInsert(r) PROVE TypeOK'
  <2> DEFINE e == Head(req[r].todo)
             rest == Tail(req[r].todo)
             j == [req[r] EXCEPT !.pc = IF rest = <<>> THEN "commit" ELSE "bulkcheck",
                                 !.todo = rest, !.done = @ \cup {e}]
  <2>0. req[r].todo \in Seq(Link) /\ req[r].todo # <<>>
    BY <1>8 DEF BulkInsert, At, TypeOK, Job
  <2>1. e \in Link /\ rest \in Seq(Link)
    BY <2>0
  <2>2. CASE Answer(r)
    BY <1>3, <1>8, <2>2 DEF BulkInsert
  <2>3. CASE req' = [req EXCEPT ![r].pc = IF rest = <<>> THEN "commit" ELSE "bulkcheck",
                                ![r].todo = rest, ![r].done = @ \cup {e}]
    <3>1. JobOK(j)
      <4> HIDE DEF e, rest
      <4> QED
        BY <2>1 DEF JobOK, Job, Pc, TypeOK
    <3>2. req' = [req EXCEPT ![r] = j]
      BY <2>3 DEF TypeOK
    <3> HIDE DEF j
    <3> QED
      BY <1>8, <3>1, <3>2, SetJob DEF BulkInsert, TypeOK
  <2> QED
    BY <1>8, <2>2, <2>3 DEF BulkInsert
<1>9. ASSUME NEW r \in Request, CommitBulk(r) PROVE TypeOK'
  <2>1. req[r].done \in SUBSET Link
    BY DEF TypeOK, Job
  <2> QED
    BY <1>9, <2>1, CommitOK DEF CommitBulk, TypeOK
<1>12. ASSUME NEW r \in Request, WaitForLock(r) PROVE TypeOK'
  <2> DEFINE j == [req[r] EXCEPT !.pc = "locked"]
  <2>1. JobOK(j)
    BY <1>12 DEF JobOK, Job, Pc, WaitForLock, At, TypeOK
  <2>2. req' = [req EXCEPT ![r] = j]
    BY <1>12 DEF WaitForLock, TypeOK
  <2> HIDE DEF j
  <2> QED
    BY <1>12, <2>1, <2>2, SetJob DEF WaitForLock, TypeOK
<1>10. ASSUME DeleteDependency PROVE TypeOK'
  BY <1>10 DEF DeleteDependency, TypeOK
<1>11. CASE UNCHANGED vars
  BY <1>11 DEF vars, TypeOK
<1> QED
  BY <1>1, <1>2, <1>4, <1>5, <1>6, <1>7, <1>8, <1>9, <1>10, <1>11, <1>12 DEF Next, Step

(* The variables always have their types. *)
THEOREM TypeCorrect == Spec => []TypeOK
  BY InitTypeOK, NextTypeOK, PTL DEF Spec

-----------------------------------------------------------------------------
(* What the checks have found.                                               *)

(* Of the edges that were there at its check, none together with the edge or *)
(* edges of the request j close a cycle.                                     *)
JobCovered(E, j) ==
  /\ j.pc \in {"insert", "locked"} => ~Closes(E \ j.fresh, j.edge)
  /\ j.pc = "bulkinsert" => ~Closes(E \ j.fresh, Head(j.todo))
  /\ j.pc \notin {"bulkcheck", "bulkinsert", "commit"} => j.done = {}
  /\ \A d \in j.done : ~Closes(E \ j.fresh, d)

Covered == \A r \in Request : JobCovered(edges, req[r])

(* The inductive invariant: a check covers what it has to cover, and so the  *)
(* graph is free of cycles unless some edge raced with its check.            *)
IInv == TypeOK /\ AcyclicUnlessRaced /\ Covered

(* A smaller graph closes fewer cycles. *)
LEMMA ClosesMono ==
  ASSUME NEW E, NEW F, E \subseteq F, NEW e, ~Closes(F, e)
  PROVE  ~Closes(E, e)
  BY ReachMono DEF Closes

(* What covers a request still covers it when the edges that were there at   *)
(* its check become fewer.                                                   *)
LEMMA CoveredMono ==
  ASSUME NEW E, NEW F, NEW j, NEW k, JobCovered(E, j),
         F \ k.fresh \subseteq E \ j.fresh,
         k.pc = j.pc, k.edge = j.edge, k.todo = j.todo, k.done = j.done
  PROVE  JobCovered(F, k)
  BY ClosesMono DEF JobCovered

(* An idle slot needs no cover. *)
LEMMA IdleCovered == \A E : JobCovered(E, Idle)
  BY DEF JobCovered, Idle

(* A step of one request that leaves the table alone keeps the others covered. *)
LEMMA CoveredStep ==
  ASSUME TypeOK, Covered, edges' = edges, NEW r \in Request, NEW j,
         req' = [req EXCEPT ![r] = j], JobCovered(edges, j)
  PROVE  Covered'
<1>1. ASSUME NEW i \in Request PROVE JobCovered(edges, req'[i])
  <2>1. req'[i] = IF i = r THEN j ELSE req[i]
    BY DEF TypeOK
  <2> QED
    BY <2>1 DEF Covered
<1> QED
  BY <1>1 DEF Covered

(* A commit keeps the other requests covered: they learn of the new edges.   *)
LEMMA CoveredCommit ==
  ASSUME TypeOK, Covered, NEW r \in Request, NEW D, Commit(r, D)
  PROVE  Covered'
<1>1. ASSUME NEW i \in Request PROVE JobCovered(edges', req'[i])
  <2>1. CASE i = r
    BY <2>1, IdleCovered DEF Commit
  <2>2. CASE i # r
    <3> DEFINE k == [req[i] EXCEPT !.fresh = @ \cup D]
    <3>1. req'[i] = k
      BY <2>2 DEF Commit
    <3>2. req[i] \in Job
      BY DEF TypeOK
    <3>3. k.fresh = req[i].fresh \cup D /\ k.pc = req[i].pc /\ k.edge = req[i].edge
          /\ k.todo = req[i].todo /\ k.done = req[i].done
      BY <3>2 DEF Job
    <3>4. edges' \ k.fresh \subseteq edges \ req[i].fresh
      BY <3>3 DEF Commit
    <3>5. JobCovered(edges, req[i])
      BY DEF Covered
    <3> HIDE DEF k
    <3> QED
      BY <3>1, <3>3, <3>4, <3>5, CoveredMono
  <2> QED
    BY <2>1, <2>2
<1> QED
  BY <1>1 DEF Covered

(* Every step keeps the requests covered. *)
LEMMA NextCovered == IInv /\ [Next]_vars => Covered'
<1> SUFFICES ASSUME TypeOK, Covered, [Next]_vars PROVE Covered'
  BY DEF IInv
<1>0. ASSUME NEW r \in Request, Answer(r), edges' = edges PROVE Covered'
  BY <1>0, CoveredStep, IdleCovered DEF Answer
<1>1. ASSUME NEW r \in Request, CreateDependency(r) PROVE Covered'
  <2>1. PICK e \in Single : req' = [req EXCEPT ![r] = [Idle EXCEPT !.pc = "check", !.edge = e]]
    BY <1>1 DEF CreateDependency
  <2>2. JobCovered(edges, [Idle EXCEPT !.pc = "check", !.edge = e])
    BY DEF JobCovered, Idle
  <2> QED
    BY <1>1, <2>1, <2>2, CoveredStep DEF CreateDependency
<1>2. ASSUME NEW r \in Request, BulkCreate(r) PROVE Covered'
  <2>1. PICK l \in Batches : req' = [req EXCEPT ![r] = [Idle EXCEPT !.pc = "begin", !.todo = l]]
    BY <1>2 DEF BulkCreate
  <2>2. JobCovered(edges, [Idle EXCEPT !.pc = "begin", !.todo = l])
    BY DEF JobCovered, Idle
  <2> QED
    BY <1>2, <2>1, <2>2, CoveredStep DEF BulkCreate
<1>3. ASSUME NEW r \in Request, Check(r) PROVE Covered'
  <2>1. CASE Answer(r)
    BY <1>0, <1>3, <2>1 DEF Check
  <2>2. CASE ~WouldCreateCycle(req[r].edge)
             /\ req' = [req EXCEPT ![r].pc = "insert", ![r].fresh = {}]
    <3> DEFINE j == [req[r] EXCEPT !.pc = "insert", !.fresh = {}]
    <3>1. req' = [req EXCEPT ![r] = j]
      BY <2>2 DEF TypeOK
    <3>2. j.pc = "insert" /\ j.fresh = {} /\ j.edge = req[r].edge /\ j.done = req[r].done
      BY DEF TypeOK, Job
    <3>3. req[r].done = {}
      BY <1>3 DEF Check, At, Covered, JobCovered
    <3>4. edges \ {} = edges
      OBVIOUS
    <3> HIDE DEF j
    <3>5. JobCovered(edges, j)
      BY <2>2, <3>2, <3>3, <3>4 DEF JobCovered, WouldCreateCycle
    <3> QED
      BY <1>3, <3>1, <3>5, CoveredStep DEF Check
  <2> QED
    BY <1>3, <2>1, <2>2 DEF Check
<1>4. ASSUME NEW r \in Request, WaitForLock(r) PROVE Covered'
  <2> DEFINE j == [req[r] EXCEPT !.pc = "locked"]
  <2>1. req' = [req EXCEPT ![r] = j]
    BY <1>4 DEF WaitForLock, TypeOK
  <2>2. j.pc = "locked" /\ j.fresh = req[r].fresh /\ j.edge = req[r].edge
        /\ j.done = req[r].done
    BY DEF TypeOK, Job
  <2> HIDE DEF j
  <2>3. JobCovered(edges, j)
    BY <1>4, <2>2 DEF JobCovered, Covered, WaitForLock, At
  <2> QED
    BY <1>4, <2>1, <2>3, CoveredStep DEF WaitForLock
<1>5. ASSUME NEW r \in Request, Insert(r) PROVE Covered'
  <2>1. CASE Commit(r, {req[r].edge})
    BY <2>1, CoveredCommit
  <2>2. CASE Answer(r) /\ edges' = edges
    BY <1>0, <2>2
  <2> QED
    BY <1>5, <2>1, <2>2 DEF Insert
<1>6. ASSUME NEW r \in Request, Begin(r) PROVE Covered'
  <2> DEFINE j == [req[r] EXCEPT !.pc = "bulkcheck", !.fresh = {}]
  <2>1. req' = [req EXCEPT ![r] = j]
    BY <1>6 DEF Begin, TypeOK
  <2>2. j.pc = "bulkcheck" /\ j.done = req[r].done
    BY DEF TypeOK, Job
  <2>3. req[r].done = {}
    BY <1>6 DEF Begin, At, Covered, JobCovered
  <2> HIDE DEF j
  <2>4. JobCovered(edges, j)
    BY <2>2, <2>3 DEF JobCovered
  <2> QED
    BY <1>6, <2>1, <2>4, CoveredStep DEF Begin
<1>7. ASSUME NEW r \in Request, BulkCheck(r) PROVE Covered'
  <2>1. CASE Answer(r)
    BY <1>0, <1>7, <2>1 DEF BulkCheck
  <2>2. CASE ~WouldCreateCycle(Head(req[r].todo))
             /\ req' = [req EXCEPT ![r].pc = "bulkinsert"]
    <3> DEFINE j == [req[r] EXCEPT !.pc = "bulkinsert"]
    <3>1. req' = [req EXCEPT ![r] = j]
      BY <2>2 DEF TypeOK
    <3>2. j.pc = "bulkinsert" /\ j.fresh = req[r].fresh /\ j.todo = req[r].todo
          /\ j.done = req[r].done
      BY DEF TypeOK, Job
    <3>3. edges \ req[r].fresh \subseteq edges
      OBVIOUS
    <3>4. ~Closes(edges \ req[r].fresh, Head(req[r].todo))
      BY <2>2, <3>3, ClosesMono DEF WouldCreateCycle
    <3>5. JobCovered(edges, req[r])
      BY DEF Covered
    <3> HIDE DEF j
    <3>6. JobCovered(edges, j)
      BY <3>2, <3>4, <3>5 DEF JobCovered
    <3> QED
      BY <1>7, <3>1, <3>6, CoveredStep DEF BulkCheck
  <2> QED
    BY <1>7, <2>1, <2>2 DEF BulkCheck
<1>8. ASSUME NEW r \in Request, BulkInsert(r) PROVE Covered'
  <2> DEFINE e == Head(req[r].todo)
             rest == Tail(req[r].todo)
             j == [req[r] EXCEPT !.pc = IF rest = <<>> THEN "commit" ELSE "bulkcheck",
                                 !.todo = rest, !.done = @ \cup {e}]
  <2>1. CASE Answer(r)
    BY <1>0, <1>8, <2>1 DEF BulkInsert
  <2>2. CASE req' = [req EXCEPT ![r].pc = IF rest = <<>> THEN "commit" ELSE "bulkcheck",
                                ![r].todo = rest, ![r].done = @ \cup {e}]
    <3>1. req' = [req EXCEPT ![r] = j]
      BY <2>2 DEF TypeOK
    <3>2. j.pc \in {"commit", "bulkcheck"} /\ j.fresh = req[r].fresh
          /\ j.done = req[r].done \cup {e}
      BY DEF TypeOK, Job
    <3>3. JobCovered(edges, req[r]) /\ req[r].pc = "bulkinsert"
      BY <1>8 DEF Covered, BulkInsert, At
    <3>4. ~Closes(edges \ req[r].fresh, e)
      BY <3>3 DEF JobCovered
    <3> HIDE DEF j, rest, e
    <3>5. JobCovered(edges, j)
      BY <2>2, <3>2, <3>3, <3>4 DEF JobCovered
    <3> QED
      BY <1>8, <3>1, <3>5, CoveredStep DEF BulkInsert
  <2> QED
    BY <1>8, <2>1, <2>2 DEF BulkInsert
<1>9. ASSUME NEW r \in Request, CommitBulk(r) PROVE Covered'
  BY <1>9, CoveredCommit DEF CommitBulk
<1>11. ASSUME DeleteDependency PROVE Covered'
  <2>1. edges' \subseteq edges /\ req' = req
    BY <1>11 DEF DeleteDependency
  <2>2. ASSUME NEW i \in Request PROVE JobCovered(edges', req[i])
    <3>1. edges' \ req[i].fresh \subseteq edges \ req[i].fresh
      BY <2>1
    <3> QED
      BY <3>1, CoveredMono DEF Covered
  <2> QED
    BY <2>1, <2>2 DEF Covered
<1>12. CASE UNCHANGED vars
  BY <1>12 DEF vars, Covered
<1> QED
  BY <1>1, <1>2, <1>3, <1>4, <1>5, <1>6, <1>7, <1>8, <1>9, <1>11, <1>12
     DEF Next, Step

-----------------------------------------------------------------------------
(* The graph.                                                                *)

(* Adding an edge that closes no cycle adds no cycle. *)
LEMMA AddCovered ==
  ASSUME NEW E \in SUBSET Edge, NEW e \in Link, Acyclic(E), ~Closes(E, e)
  PROVE  Acyclic(E \cup {e})
<1>1. e[1] \in Node /\ e[2] \in Node /\ e = <<e[1], e[2]>>
  BY DEF Edge, Link
<1>2. e[1] # e[2] /\ ~Reach(E, e[2], e[1])
  BY DEF Closes, Link
<1>3. Acyclic(E \cup {<<e[1], e[2]>>})
  BY <1>1, <1>2, AddEdgeAcyclic DEF Edge
<1> QED
  BY <1>1, <1>3

(* Every step keeps the graph free of cycles unless an edge races.           *)
LEMMA NextAcyclic == IInv /\ [Next]_vars => AcyclicUnlessRaced'
<1> SUFFICES ASSUME TypeOK, AcyclicUnlessRaced, Covered, [Next]_vars, ~raced'
             PROVE  Acyclic(edges')
  BY DEF IInv, AcyclicUnlessRaced
<1>1. ASSUME edges' \subseteq edges, raced' = raced PROVE Acyclic(edges')
  BY <1>1, AcyclicSubset DEF AcyclicUnlessRaced
<1>2. ASSUME NEW r \in Request, Insert(r) PROVE Acyclic(edges')
  <2> DEFINE e == req[r].edge
  <2>1. CASE edges' = edges /\ raced' = raced
    BY <1>1, <2>1
  <2>2. CASE /\ e \in Link
             /\ Commit(r, {e})
             /\ raced' = (raced \/ req[r].fresh \cap edges # {})
    <3>1. ~raced /\ req[r].fresh \cap edges = {}
      BY <2>2
    <3>2. edges \ req[r].fresh = edges
      BY <3>1
    <3>3. ~Closes(edges \ req[r].fresh, e)
      BY <1>2 DEF Insert, At, Covered, JobCovered
    <3>4. e \in Link /\ edges \in SUBSET Edge
      BY <2>2 DEF TypeOK, Link
    <3>5. Acyclic(edges)
      BY <3>1 DEF AcyclicUnlessRaced
    <3>6. Acyclic(edges \cup {e})
      BY <2>2, <3>2, <3>3, <3>4, <3>5, AddCovered
    <3> QED
      BY <2>2, <3>6 DEF Commit
  <2> QED
    BY <1>2, <2>1, <2>2 DEF Insert
<1>3. ASSUME NEW r \in Request, CommitBulk(r) PROVE Acyclic(edges')
  <2> DEFINE D == req[r].done
  <2>1. /\ edges' = edges \cup D
        /\ ~raced /\ req[r].fresh \cap edges = {}
        /\ \A d, e \in D : d = e
    BY <1>3 DEF CommitBulk, Commit
  <2>2. Acyclic(edges) /\ edges \ req[r].fresh = edges
    BY <2>1 DEF AcyclicUnlessRaced
  <2>3. CASE D = {}
    BY <2>1, <2>2, <2>3
  <2>4. ASSUME NEW d \in D PROVE Acyclic(edges')
    <3>1. D = {d}
      BY <2>1
    <3>2. ~Closes(edges \ req[r].fresh, d)
      BY DEF Covered, JobCovered
    <3>3. d \in Link /\ edges \in SUBSET Edge
      BY DEF TypeOK, Job, Link
    <3> HIDE DEF D
    <3> QED
      BY <2>1, <2>2, <3>1, <3>2, <3>3, AddCovered
  <2> QED
    BY <2>3, <2>4
<1>4. ASSUME DeleteDependency PROVE Acyclic(edges')
  BY <1>1, <1>4 DEF DeleteDependency
<1>5. ASSUME NEW r \in Request, CreateDependency(r) \/ BulkCreate(r) PROVE Acyclic(edges')
  BY <1>1, <1>5 DEF CreateDependency, BulkCreate
<1>6. ASSUME NEW r \in Request, Check(r) \/ WaitForLock(r) \/ Begin(r) \/ BulkCheck(r)
                                \/ BulkInsert(r)
      PROVE  Acyclic(edges')
  <2>1. edges' = edges /\ raced' = raced
    BY <1>6 DEF Check, WaitForLock, Begin, BulkCheck, BulkInsert
  <2> QED
    BY <1>1, <2>1
<1>7. CASE UNCHANGED vars
  BY <1>1, <1>7 DEF vars
<1> QED
  BY <1>2, <1>3, <1>4, <1>5, <1>6, <1>7 DEF Next, Step

(* The empty graph is acyclic and nothing needs cover. *)
LEMMA InitIInv == Init => IInv
<1> SUFFICES ASSUME Init PROVE IInv
  OBVIOUS
<1>1. AcyclicUnlessRaced
  BY DEF Init, AcyclicUnlessRaced, Acyclic
<1>2. Covered
  BY IdleCovered DEF Init, Covered
<1> QED
  BY <1>1, <1>2, InitTypeOK DEF IInv

(* The invariant holds throughout. *)
THEOREM Invariance == Spec => []IInv
<1>1. IInv /\ [Next]_vars => IInv'
  BY NextTypeOK, NextCovered, NextAcyclic DEF IInv
<1> QED
  BY <1>1, InitIInv, PTL DEF Spec

(* However requests interleave, what wouldCreateCycle found about an edge is *)
(* still true of the edges it saw when the edge is inserted.                 *)
THEOREM ChecksHold == Spec => []CheckStillHolds
<1>1. IInv => CheckStillHolds
  BY DEF IInv, Covered, JobCovered, CheckStillHolds, At
<1> QED
  BY <1>1, Invariance, PTL

(* createDependency and bulkCreate keep the graph free of cycles as long as  *)
(* no edge is committed that its check could not see.                        *)
THEOREM CycleFreedom == Spec => []AcyclicUnlessRaced
  BY Invariance, PTL DEF IInv
=============================================================================
