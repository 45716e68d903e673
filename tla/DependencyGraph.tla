-------------------------- MODULE DependencyGraph --------------------------
(***************************************************************************)
(* Blocking edges between nodes, which must stay free of cycles.            *)
(*                                                                         *)
(* createDependency checks for a cycle and inserts the edge in a second     *)
(* statement.  bulkCreate inserts many edges in one transaction; the cycle  *)
(* check of each edge runs on another connection of the pool, so it sees    *)
(* neither the edges the transaction has inserted nor a connection when the *)
(* pool is exhausted.  Every statement is a step.                           *)
(***************************************************************************)
EXTENDS Integers, Sequences, FiniteSets, Reachability

CONSTANTS
  Request,    \* request slots
  Batches,    \* the edge lists that createIntention submits, each for a new plan
  Single,     \* the edges that createDependency is asked to create
  PoolSize,   \* connections of the pool
  MaxOps,     \* bound: number of requests
  Nil

Edge == Node \X Node

(* The table refuses an edge from a node to itself. *)
Link == {e \in Edge : e[1] # e[2]}

ASSUME DGAssumption ==
  /\ Batches \subseteq Seq(Link) /\ <<>> \notin Batches
  /\ Single \subseteq Edge
  /\ PoolSize \in Nat \ {0}
  /\ MaxOps \in Nat
  /\ Nil \notin Edge

VARIABLES
  edges,    \* the committed blocks edges of node_dependencies
  planned,  \* the nodes of the plans whose edges have been submitted
  req,      \* the request in each slot
  ops,      \* requests so far (bounded by MaxOps)
  raced     \* history: was an edge ever committed that its check did not cover?

vars == <<edges, planned, req, ops, raced>>

-----------------------------------------------------------------------------
Pc == {"idle", "check", "insert", "locked", "begin", "bulkcheck", "bulkinsert", "commit"}

(* edge: of createDependency; todo, done: the edges bulkCreate has before   *)
(* and behind it; fresh: what others committed since the (first) check of   *)
(* this request (history).                                                  *)
Job == [pc : Pc, edge : Edge \cup {Nil}, todo : Seq(Link), done : SUBSET Link,
        fresh : SUBSET Link]

Idle == [pc |-> "idle", edge |-> Nil, todo |-> <<>>, done |-> {}, fresh |-> {}]

TypeOK ==
  /\ edges \subseteq Link
  /\ planned \subseteq Node
  /\ req \in [Request -> Job]
  /\ ops \in 0 .. MaxOps
  /\ raced \in BOOLEAN
  /\ \A r \in Request :
       /\ req[r].pc \in {"check", "insert", "locked"} => req[r].edge \in Edge
       /\ req[r].pc \in {"begin", "bulkcheck", "bulkinsert"} => req[r].todo # <<>>

Init ==
  /\ edges = {}
  /\ planned = {}
  /\ req = [r \in Request |-> Idle]
  /\ ops = 0
  /\ raced = FALSE

-----------------------------------------------------------------------------
At(r, p)  == req[r].pc = p
Answer(r) == req' = [req EXCEPT ![r] = Idle]

(* A transaction keeps its connection from begin to commit, and so does an  *)
(* insert that waits for a lock; any other statement returns it at once.     *)
InTransaction ==
  {r \in Request : req[r].pc \in {"locked", "bulkcheck", "bulkinsert", "commit"}}
FreeConnection == Cardinality(InTransaction) < PoolSize

(* The unique index makes an insert wait for a transaction that has inserted *)
(* the same edge.                                                            *)
Held(r, e) == \E i \in Request \ {r} : e \in req[i].done

(* Mutants: only the reverse edge is looked for; the direction is swapped. *)
WouldCreateCycle_Direct(e)  == <<e[2], e[1]>> \in edges
WouldCreateCycle_Swapped(e) == Reach(edges, e[1], e[2])

(* wouldCreateCycle(source, target): can the source be reached from the     *)
(* target?  (A path never returns to its first node.)                       *)
Closes(E, e) == e[1] # e[2] /\ Reach(E, e[2], e[1])
WouldCreateCycle(e) == Closes(edges, e)

(* r commits the edges of D: the other requests learn of it (history). *)
Commit(r, D) ==
  /\ edges' = edges \cup D
  /\ req' = [i \in Request |-> IF i = r THEN Idle
                               ELSE [req[i] EXCEPT !.fresh = @ \cup D]]

-----------------------------------------------------------------------------
(* createDependency and createCrossPlanDependency, type blocks *)
CreateDependency(r) ==
  /\ At(r, "idle") /\ ops < MaxOps
  /\ \E e \in Single : req' = [req EXCEPT ![r] = [Idle EXCEPT !.pc = "check", !.edge = e]]
  /\ ops' = ops + 1
  /\ UNCHANGED <<edges, planned, raced>>

Check(r) ==
  /\ At(r, "check") /\ FreeConnection
  /\ IF WouldCreateCycle(req[r].edge) THEN Answer(r)
     ELSE req' = [req EXCEPT ![r].pc = "insert", ![r].fresh = {}]
  /\ UNCHANGED <<edges, planned, ops, raced>>

WaitForLock(r) ==
  /\ At(r, "insert") /\ FreeConnection
  /\ Held(r, req[r].edge)
  /\ req' = [req EXCEPT ![r].pc = "locked"]
  /\ UNCHANGED <<edges, planned, ops, raced>>

(* The unique index refuses a duplicate. *)
Insert(r) ==
  LET e == req[r].edge
  IN  /\ (At(r, "insert") /\ FreeConnection) \/ At(r, "locked")
      /\ ~Held(r, e)
      /\ \/ /\ e \in Link \ edges
            /\ Commit(r, {e})
            /\ raced' = (raced \/ req[r].fresh \cap edges # {})
         \/ /\ e \notin Link \ edges
            /\ Answer(r)
            /\ UNCHANGED <<edges, raced>>
      /\ UNCHANGED <<planned, ops>>

DeleteDependency ==
  /\ \E e \in edges : edges' = edges \ {e}
  /\ UNCHANGED <<planned, req, ops, raced>>

-----------------------------------------------------------------------------
NodesOf(b) == UNION {{b[i][1], b[i][2]} : i \in DOMAIN b}

(* createIntention creates a plan, its nodes and then, once, the depends_on *)
(* edges between them, self-dependencies left out.  (createDependency may    *)
(* have found the nodes before.)                                             *)
BulkCreate(r) ==
  /\ At(r, "idle") /\ ops < MaxOps
  /\ \E b \in Batches :
       /\ NodesOf(b) \cap planned = {}
       /\ planned' = planned \cup NodesOf(b)
       /\ req' = [req EXCEPT ![r] = [Idle EXCEPT !.pc = "begin", !.todo = b]]
  /\ ops' = ops + 1
  /\ UNCHANGED <<edges, raced>>

Begin(r) ==
  /\ At(r, "begin") /\ FreeConnection
  /\ req' = [req EXCEPT ![r].pc = "bulkcheck", ![r].fresh = {}]
  /\ UNCHANGED <<edges, planned, ops, raced>>

(* Mutant: an edge that closes a cycle is tried again. *)
BulkCheck_Again(r) ==
  /\ At(r, "bulkcheck") /\ FreeConnection
  /\ IF WouldCreateCycle(Head(req[r].todo)) THEN UNCHANGED req
     ELSE req' = [req EXCEPT ![r].pc = "bulkinsert"]
  /\ UNCHANGED <<edges, planned, ops, raced>>

(* this.wouldCreateCycle uses db, not tx: one more connection, and only the *)
(* committed edges.  A cycle throws, which rolls the transaction back.      *)
BulkCheck(r) ==
  /\ At(r, "bulkcheck") /\ FreeConnection
  /\ IF WouldCreateCycle(Head(req[r].todo)) THEN Answer(r)
     ELSE req' = [req EXCEPT ![r].pc = "bulkinsert"]
  /\ UNCHANGED <<edges, planned, ops, raced>>

(* Mutant: the loop runs past the last edge. *)
BulkInsert_NoEnd(r) ==
  LET e == Head(req[r].todo)
  IN  /\ At(r, "bulkinsert")
      /\ e \notin edges \cup req[r].done
      /\ req' = [req EXCEPT ![r].pc = "bulkcheck",
                            ![r].todo = Tail(@), ![r].done = @ \cup {e}]
      /\ UNCHANGED <<edges, planned, ops, raced>>

(* A second edge between the same nodes violates the unique index, which    *)
(* rolls the transaction back.                                              *)
BulkInsert(r) ==
  LET e == Head(req[r].todo)
      rest == Tail(req[r].todo)
  IN  /\ At(r, "bulkinsert")
      /\ \/ /\ e \notin edges \cup req[r].done
            /\ req' = [req EXCEPT ![r].pc = IF rest = <<>> THEN "commit" ELSE "bulkcheck",
                                  ![r].todo = rest, ![r].done = @ \cup {e}]
         \/ /\ e \in edges \cup req[r].done
            /\ Answer(r)
      /\ UNCHANGED <<edges, planned, ops, raced>>

CommitBulk(r) ==
  /\ At(r, "commit")
  /\ Commit(r, req[r].done)
  /\ raced' = (raced \/ req[r].fresh \cap edges # {}
                     \/ \E d, e \in req[r].done : d # e)
  /\ UNCHANGED <<planned, ops>>

-----------------------------------------------------------------------------
Step(r) ==
  \/ Check(r) \/ WaitForLock(r) \/ Insert(r)
  \/ Begin(r) \/ BulkCheck(r) \/ BulkInsert(r) \/ CommitBulk(r)

Next ==
  \/ \E r \in Request : CreateDependency(r) \/ BulkCreate(r) \/ Step(r)
  \/ DeleteDependency

Spec == Init /\ [][Next]_vars

(* The pool serves its waiting queries in turn and PostgreSQL answers. *)
FairSpec == Spec /\ \A r \in Request : SF_vars(Step(r))

-----------------------------------------------------------------------------
(* What a check found still holds when the edge is inserted, as long as only *)
(* the edges that were there at the check count: deletions cannot hurt it.   *)
CheckStillHolds ==
  \A r \in Request :
    At(r, "insert") \/ At(r, "locked") =>
      ~Closes(edges \ req[r].fresh, req[r].edge)

(* The graph has a cycle only if an edge was committed that its check did    *)
(* not cover: the check misses no path, however edges come and go.           *)
AcyclicUnlessRaced == ~raced => Acyclic(edges)

(* Every request gets its answer.                                            *)
RequestEnds == \A r \in Request : ~At(r, "idle") ~> At(r, "idle")

-----------------------------------------------------------------------------
(* What the documentation says and the code does not do (see the findings).  *)

(* The system rejects any dependency that would create a circular chain.     *)
NoCycle == Acyclic(edges)
=============================================================================
