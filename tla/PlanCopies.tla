----------------------------- MODULE PlanCopies -----------------------------
(***************************************************************************)
(* Copies of a plan: blueprints taken from it, plans forked from a blueprint, *)
(* and direct forks.  No transaction holds the reads of a snapshot or the     *)
(* inserts of a fork together.                                               *)
(***************************************************************************)
EXTENDS Slots, Integers

CONSTANTS
  Original,  \* the nodes of the plan that is copied
  Caption,   \* Caption[n]: its title and node_type
  Layouts,   \* the trees the plan may have at first: [nodes -> parent or Nil]
  Copier,    \* the forks: they share nothing but what they read
  MaxAlters  \* bound: number of changes of the plan

ASSUME CopiesAssumption ==
  \A t \in Layouts :
    /\ DOMAIN t \subseteq Original /\ t \in [DOMAIN t -> DOMAIN t \cup {Nil}]
    /\ \A m, n \in DOMAIN t : t[m] = t[n] /\ Caption[m] = Caption[n] => m = n

VARIABLES
  layout,    \* the plan: [its nodes -> parent or Nil]
  needs,     \* its dependency edges
  blueprint, \* the payload of the blueprint, or Nil
  snapshot,  \* the snapshot being taken: the nodes that were read, or Nil
  copy,      \* the forks, new plans
  alters     \* changes so far (bounded by MaxAlters)

copyVars == <<layout, needs, blueprint, snapshot, copy, alters>>

(* of: what is copied, [tree, needs]; rows, edges: the new plan; todo: what the     *)
(* pass has left.                                                             *)
NoCopy == [pc |-> "none", of |-> Nil, rows |-> <<>>, edges |-> {}, todo |-> {}]
CopyPc == {"none", "nodes", "parents", "edges", "done", "failed", "stopped"}
CopyAt(r, p) == copy[r].pc = p

PlanCopiesTypeOK ==
  /\ DOMAIN layout \subseteq Original /\ needs \subseteq (DOMAIN layout) \X (DOMAIN layout)
  /\ \A r \in Copier :
       /\ copy[r].pc \in CopyPc
       /\ copy[r].edges \subseteq (DOMAIN copy[r].rows) \X (DOMAIN copy[r].rows)

CopiesInit ==
  /\ layout \in Layouts /\ needs = {}
  /\ blueprint = Nil /\ snapshot = Nil
  /\ copy = [r \in Copier |-> NoCopy] /\ alters = 0

-----------------------------------------------------------------------------
(* Meanwhile the plan changes: edges appear, and nodes go with their edges,    *)
(* but without the nodes below them.                                          *)
LinkOriginal ==
  /\ alters < MaxAlters /\ alters' = alters + 1
  /\ \E m, n \in DOMAIN layout : m # n /\ <<n, m>> \notin needs
                                 /\ needs' = needs \cup {<<m, n>>}
  /\ needs' # needs
  /\ UNCHANGED <<layout, blueprint, snapshot, copy>>

DeleteOriginal ==
  /\ alters < MaxAlters /\ alters' = alters + 1
  /\ \E n \in DOMAIN layout :
       /\ layout[n] # Nil
       /\ layout' = Without(layout, {n})
       /\ needs' = {e \in needs : n \notin {e[1], e[2]}}
  /\ UNCHANGED <<blueprint, snapshot, copy>>

(* a node whose parent was not read becomes a root *)
Rooted(t) == [n \in DOMAIN t |-> IF t[n] \in DOMAIN t THEN t[n] ELSE Nil]

(* snapshotPlan: the nodes *)
SnapshotNodes ==
  /\ snapshot = Nil /\ blueprint = Nil
  /\ snapshot' = Rooted(layout)
  /\ UNCHANGED <<layout, needs, blueprint, copy, alters>>

(* snapshotPlan: the edges between nodes that were read *)
SnapshotEdges ==
  LET N == DOMAIN snapshot
  IN  /\ snapshot # Nil
      /\ blueprint' = [tree |-> snapshot, needs |-> needs \cap (N \X N)]
      /\ snapshot' = Nil
      /\ UNCHANGED <<layout, needs, copy, alters>>

NewCopy(r, what) ==
  copy' = [copy EXCEPT ![r] = [NoCopy EXCEPT !.of = what, !.todo = DOMAIN what.tree,
                         !.pc = IF what.tree = <<>> THEN "done" ELSE "nodes"]]

(* forkPlanScope, fork: the plan row, and what is to be copied; the edges of a  *)
(* plan are asked for by a column that does not exist                           *)
StartFork(r) ==
  /\ CopyAt(r, "none")
  /\ \/ blueprint # Nil /\ NewCopy(r, blueprint)
     \/ NewCopy(r, [tree |-> Rooted(layout),
                      needs |-> IF layout = <<>> THEN {} ELSE Nil])
  /\ UNCHANGED <<layout, needs, blueprint, snapshot, alters>>

(* The next statement of r's fork; when a pass is through, the next one begins. *)
Pass(r, q, next, todo) ==
  copy' = [copy EXCEPT ![r] = IF q.todo = {} THEN [q EXCEPT !.pc = next, !.todo = todo] ELSE q]

(* Pass 1: without parents all nodes lie side by side, and two with the same    *)
(* title and type collide.                                                     *)
InsertCopies(r) ==
  LET q == copy[r]
  IN  /\ CopyAt(r, "nodes")
      /\ \E n \in q.todo :
           IF \E m \in DOMAIN q.rows : Caption[m] = Caption[n]
           THEN copy' = [copy EXCEPT ![r].pc = "failed"]
           ELSE Pass(r, [q EXCEPT !.rows = Updated(@, [x \in {n} |-> Nil]),
                                  !.todo = @ \ {n}], "parents", DOMAIN q.of.tree)
      /\ UNCHANGED <<layout, needs, blueprint, snapshot, alters>>

(* Pass 2: the parents *)
SetParents(r) ==
  LET q == copy[r]
  IN  /\ CopyAt(r, "parents")
      /\ \E n \in q.todo :
           Pass(r, [q EXCEPT !.rows[n] = q.of.tree[n], !.todo = @ \ {n}],
                "edges", IF q.of.needs = Nil THEN {} ELSE q.of.needs)
      /\ UNCHANGED <<layout, needs, blueprint, snapshot, alters>>

(* The edges; a direct fork fails here, when it asks for them. *)
InsertEdges(r) ==
  LET q == copy[r]
  IN  /\ CopyAt(r, "edges")
      /\ \/ q.of.needs = Nil /\ copy' = [copy EXCEPT ![r].pc = "failed"]
         \/ q.of.needs = {} /\ copy' = [copy EXCEPT ![r].pc = "done"]
         \/ q.of.needs \notin {Nil, {}} /\ \E e \in q.todo :
              Pass(r, [q EXCEPT !.edges = @ \cup {e}, !.todo = @ \ {e}], "done", {})
      /\ UNCHANGED <<layout, needs, blueprint, snapshot, alters>>

(* The process stops: what was inserted stays. *)
CrashCopies ==
  /\ copy' = [r \in Copier |-> IF copy[r].pc \in {"nodes", "parents", "edges"}
                                THEN [copy[r] EXCEPT !.pc = "stopped"] ELSE copy[r]]
  /\ snapshot' = Nil
  /\ <<copy', snapshot'>> # <<copy, snapshot>>
  /\ UNCHANGED <<layout, needs, blueprint, alters>>

CopiesNext ==
  \/ \E r \in Copier : StartFork(r) \/ InsertCopies(r) \/ SetParents(r) \/ InsertEdges(r)
  \/ LinkOriginal \/ DeleteOriginal \/ SnapshotNodes \/ SnapshotEdges \/ CrashCopies

CopiesSpec == CopiesInit /\ [][CopiesNext]_copyVars

-----------------------------------------------------------------------------
(* A fork that succeeds has every node of what it copies, under the same parent, *)
(* and every edge, however the plan was edited while the snapshot was taken; one *)
(* that fails had two equal nodes, or copied a plan directly.                    *)
CopyWhole ==
  \A r \in Copier :
    /\ CopyAt(r, "done") =>
         copy[r].rows = copy[r].of.tree /\ copy[r].edges = copy[r].of.needs
    /\ CopyAt(r, "failed") =>
         \/ copy[r].of.needs = Nil
         \/ \E m, n \in DOMAIN copy[r].of.tree : m # n /\ Caption[m] = Caption[n]
=============================================================================
