------------------------------ MODULE NodeTree ------------------------------
(***************************************************************************)
(* The tree of a plan: plan_nodes.parent_id and order_index under           *)
(* concurrent requests of the node service.                                 *)
(*                                                                         *)
(* Creating, moving and reordering read the siblings, compute positions and *)
(* write them back in separate statements, without a transaction.  A        *)
(* request carries what it has read.                                        *)
(***************************************************************************)
EXTENDS Slots, Integers, FiniteSets, SequencesExt

CONSTANTS
  Node,       \* the nodes of one plan, those created later included; ids are
              \* numbers here, given out in order
  Root,       \* its root
  Label,      \* Label[n]: its title and node_type
  Planted,    \* the trees there may be at first: [ids -> [parent, pos]]
  Index,      \* the positions that requests ask for
  MaxEdits    \* bound: number of requests, a chain counted twice

ASSUME NTAssumption ==
  /\ IsFiniteSet(Node) /\ Node = 0 .. Cardinality(Node) - 1
  /\ Nil \notin Nat
  /\ \A t \in Planted :
       /\ DOMAIN t \subseteq Node /\ DOMAIN t = 0 .. Cardinality(DOMAIN t) - 1
       /\ t \in [DOMAIN t -> [parent : DOMAIN t \cup {Nil}, pos : Nat]]
       /\ Root \in DOMAIN t /\ \A n \in DOMAIN t : t[n].parent = Nil <=> n = Root
       /\ \A S \in SUBSET DOMAIN t : S # {} => \E n \in S : t[n].parent \notin S
  /\ Index \subseteq Nat /\ MaxEdits \in Nat

VARIABLES
  tree,    \* the rows: [existing nodes -> [parent, pos]]
  chain,   \* the blocks edges that createRpiChain added
  edit,    \* the request in each slot
  edits,   \* requests so far (bounded by MaxEdits)
  used,    \* the ids given out so far
  knotted  \* history: was there a move that may have closed a loop?

treeVars == <<tree, chain, edit, edits, used, knotted>>

(* node: what is created, moved or reordered; todo: the nodes a createRpiChain *)
(* has left to create; parent: the (new) parent; at: the wanted position or     *)
(* Nil, then the computed one; row, order: what reorder read and wants; next:   *)
(* the first element it has not looked at; seen: the positions it *)
(* has read.  touched, raced: history, whether others changed the children of    *)
(* parent since, and whether a loop is to be expected of a move: it was asked     *)
(* for, or another move came between.                                             *)
EditPc   == {"idle", "siblings", "insert", "link", "target", "children", "move",
             "reorder", "list", "write"}
NoEdit   == [pc |-> "idle", node |-> Nil, todo |-> <<>>, parent |-> Nil, at |-> Nil,
             pos |-> 0, row |-> Nil, order |-> <<>>, next |-> 1, seen |-> <<>>,
             touched |-> FALSE, raced |-> FALSE]
EditAt(r, p)   == edit[r].pc = p
EditGoto(r, p) == [edit EXCEPT ![r].pc = p]
EditDone(r)    == [edit EXCEPT ![r] = NoEdit]

NodeTreeTypeOK ==
  /\ Root \in DOMAIN tree /\ DOMAIN tree \subseteq used /\ used \subseteq Node
  /\ \A n \in DOMAIN tree :
       tree[n].pos \in Nat /\ (tree[n].parent = Nil <=> n = Root)
  /\ \A r \in Request : edit[r].pc \in EditPc /\ edit[r].at \in Nat \cup {Nil}

TreeInit ==
  /\ tree \in Planted /\ used = DOMAIN tree
  /\ chain = {} /\ edits = 0 /\ knotted = FALSE
  /\ edit = [r \in Request |-> NoEdit]

-----------------------------------------------------------------------------
Offspring(p) == {c \in DOMAIN tree : tree[c].parent = p}

(* Mutant: the new node shares the position of the last sibling. *)
NextPos_Shared(p) ==
  IF Offspring(p) = {} THEN 0 ELSE Max({tree[c].pos : c \in Offspring(p)})

(* Math.max(...siblings.map(s => s.orderIndex)) + 1 *)
NextPos(p) ==
  IF Offspring(p) = {} THEN 0 ELSE Max({tree[c].pos : c \in Offspring(p)}) + 1

(* plan_nodes_unique_title_per_parent: would n under p collide? *)
Collides(n, p) == \E c \in Offspring(p) \ {n} : Label[c] = Label[n]

(* The requests other than r learn that the children of p changed. *)
Disturb(e, r, P) ==
  [q \in Request |-> IF q # r /\ e[q].parent \in P THEN [e[q] EXCEPT !.touched = TRUE]
                     ELSE e[q]]

(* The moves underway in other slots learn that a parent changed. *)
Overtaken(e, r) ==
  [q \in Request |-> IF q # r /\ e[q].pc \in {"target", "children", "move"}
                     THEN [e[q] EXCEPT !.raced = TRUE] ELSE e[q]]

(* For the bound, a chain counts as two requests. *)
Begin(r, rec) ==
  /\ edits' = edits + (IF Len(rec.todo) > 1 THEN 2 ELSE 1)
  /\ edits' <= MaxEdits
  /\ edit' = [edit EXCEPT ![r] = rec]

(* the next k ids, if there are so many *)
Fresh(k) ==
  LET m == Cardinality(used)
  IN  {s \in {[i \in 1 .. k |-> m + i - 1]} : m + k - 1 \in Node}

(* the ids of rows that the database is yet to insert *)
Awaited == UNION {Range(edit[q].todo) : q \in {q \in Request : edit[q].pc \in {"siblings", "insert"}}}

(* n is p, or parent_id leads from p up to n: no set without n that holds p is    *)
(* closed under it.                                                           *)
Above(p, n) ==
  \A S \in SUBSET (Node \ {n}) : p \in S =>
    \E c \in S \cap DOMAIN tree : tree[c].parent \notin S \cup {Nil}

(* a circle: every node of S has its parent in S *)
Circle(S) == S # {} /\ \A n \in S : tree[n].parent \in S

(* ORDER BY order_index: rows with equal positions come in any order. *)
Listings(S) ==
  {s \in Bijection(1 .. Cardinality(S), S) :
     \A i, j \in DOMAIN s : i < j => tree[s[i]].pos <= tree[s[j]].pos}

(* splice(i, 0, n) into the others: an index past the end appends *)
Spliced(others, n, i) == InsertAt(others, Min({i, Len(others)}) + 1, n)

-----------------------------------------------------------------------------
(* createNode: the parent is looked up, the siblings only if no position is *)
(* given.                                                                   *)
StartCreate(r) ==
  /\ EditAt(r, "idle") /\ edits < MaxEdits
  /\ \E s \in Fresh(1), p \in DOMAIN tree, i \in Index \cup {Nil} :
    /\ Begin(r, [NoEdit EXCEPT !.todo = s, !.parent = p, !.at = i,
                   !.pos = IF i = Nil THEN 0 ELSE i,
                   !.pc = IF i = Nil THEN "siblings" ELSE "insert"])
    /\ used' = used \cup Range(s)
    /\ UNCHANGED <<tree, chain, knotted>>

(* createRpiChain does not look the parent up: it may be gone. *)
StartChain(r) ==
  /\ EditAt(r, "idle") /\ edits < MaxEdits
  /\ \E s \in Fresh(3), p \in used \ Awaited :
    /\ Begin(r, [NoEdit EXCEPT !.todo = s, !.parent = p, !.pc = "siblings"])
    /\ used' = used \cup Range(s)
    /\ UNCHANGED <<tree, chain, knotted>>

CountSiblings(r) ==
  /\ EditAt(r, "siblings")
  /\ edit' = [edit EXCEPT ![r].pc = "insert", ![r].pos = NextPos(edit[r].parent),
                          ![r].touched = FALSE]
  /\ UNCHANGED <<tree, chain, edits, used, knotted>>

(* One INSERT per node.  A duplicate title ends the request: drizzle wraps the *)
(* driver's error, so that its code is not recognised.                        *)
InsertNode(r) ==
  LET q == edit[r]
      n == Head(q.todo)
  IN  /\ EditAt(r, "insert")
      /\ IF Collides(n, q.parent) THEN tree' = tree /\ edit' = EditDone(r)
         ELSE /\ tree' = Updated(tree, [x \in {n} |-> [parent |-> q.parent, pos |-> q.pos]])
              /\ edit' = Disturb([edit EXCEPT
                   ![r] = IF Len(q.todo) > 1
                          THEN [q EXCEPT !.todo = Tail(@), !.pos = @ + 1,
                                         !.order = Append(@, n)]
                          ELSE IF q.order # <<>>
                          THEN [q EXCEPT !.order = Append(@, n), !.pc = "link"]
                          ELSE NoEdit], r, {q.parent})
      /\ UNCHANGED <<chain, edits, used, knotted>>

(* research blocks plan, plan blocks implement: a node that is gone by then   *)
(* fails the foreign key and ends the request.                                *)
LinkChain(r) ==
  LET q == edit[r]
      e == <<q.order[1], q.order[2]>>
  IN  /\ EditAt(r, "link")
      /\ IF {e[1], e[2]} \subseteq DOMAIN tree
         THEN /\ chain' = chain \cup {e}
              /\ edit' = IF Len(q.order) = 2 THEN EditDone(r)
                         ELSE [edit EXCEPT ![r].order = Tail(@)]
         ELSE chain' = chain /\ edit' = EditDone(r)
      /\ UNCHANGED <<tree, edits, used, knotted>>

-----------------------------------------------------------------------------
(* moveNode: the node is read; a parent that is not given, or not new, is not *)
(* changed.  Nothing asks whether the new parent lies below the node.         *)
StartMove(r) ==
  /\ EditAt(r, "idle") /\ edits < MaxEdits
  /\ \E n \in DOMAIN tree \ {Root}, p \in DOMAIN tree \cup {Nil}, i \in Index \cup {Nil} :
    LET moves == p \notin {Nil, tree[n].parent}
    IN  /\ moves \/ i # Nil
        /\ Begin(r, [NoEdit EXCEPT !.node = n, !.at = i,
                       !.parent = IF moves THEN p ELSE Nil,
                       !.raced = moves /\ Above(p, n),
                       !.pc = IF moves THEN "target" ELSE "reorder"])
        /\ UNCHANGED <<tree, chain, used, knotted>>

FindTarget(r) ==
  /\ EditAt(r, "target")
  /\ edit' = IF edit[r].parent \in DOMAIN tree THEN EditGoto(r, "children") ELSE EditDone(r)
  /\ UNCHANGED <<tree, chain, edits, used, knotted>>

(* move: getChildren of the new parent *)
ListTarget(r) ==
  /\ EditAt(r, "children")
  /\ edit' = [edit EXCEPT ![r].pc = "move", ![r].pos = NextPos(edit[r].parent),
                          ![r].touched = FALSE]
  /\ UNCHANGED <<tree, chain, edits, used, knotted>>

(* move: UPDATE parent_id, order_index; no row, no effect *)
WriteMove(r) ==
  LET q == edit[r]
      n == q.node
      exists == n \in DOMAIN tree
  IN  /\ EditAt(r, "move")
      /\ IF exists /\ Collides(n, q.parent) THEN tree' = tree /\ edit' = EditDone(r)
         ELSE /\ tree' = IF exists
                         THEN [tree EXCEPT ![n] = [parent |-> q.parent, pos |-> q.pos]]
                         ELSE tree
              /\ edit' = Disturb(Overtaken(IF q.at = Nil THEN EditDone(r)
                                            ELSE EditGoto(r, "reorder"), r),
                                 r, {q.parent} \cup IF exists THEN {tree[n].parent} ELSE {})
      /\ knotted' = (knotted \/ q.raced)
      /\ UNCHANGED <<chain, edits, used>>

(* reorder: findById *)
ReadReordered(r) ==
  LET n == edit[r].node
  IN  /\ EditAt(r, "reorder")
      /\ edit' = IF n \in DOMAIN tree
                 THEN [edit EXCEPT ![r].pc = "list", ![r].row = tree[n],
                                   ![r].parent = tree[n].parent, ![r].touched = FALSE]
                 ELSE EditDone(r)
      /\ UNCHANGED <<tree, chain, edits, used, knotted>>

(* reorder: getChildren, the node filtered out and put where it is wanted *)
ListSiblings(r) ==
  LET q == edit[r]
      kids == Offspring(q.parent)
  IN  /\ EditAt(r, "list")
      /\ \E s \in Listings(kids \ {q.node}) :
           edit' = [edit EXCEPT ![r].pc = "write", ![r].order = Spliced(s, q.node, q.at),
                      ![r].seen = [c \in kids \cup {q.node} |->
                                     IF c = q.node THEN q.row.pos ELSE tree[c].pos]]
      /\ UNCHANGED <<tree, chain, edits, used, knotted>>

(* reorder: one UPDATE for each sibling whose position, as it was read, differs *)
WriteOrder(r) ==
  LET q == edit[r]
      c == q.order[q.next]
  IN  /\ EditAt(r, "write")
      /\ tree' = IF c \in DOMAIN tree /\ q.seen[c] # q.next - 1
                 THEN [tree EXCEPT ![c].pos = q.next - 1] ELSE tree
      /\ edit' = Disturb(IF q.next = Len(q.order) THEN EditDone(r)
                         ELSE [edit EXCEPT ![r].next = @ + 1],
                         r, IF tree' = tree THEN {} ELSE {tree[c].parent})
      /\ UNCHANGED <<chain, edits, used, knotted>>

-----------------------------------------------------------------------------
(* updateNode with an order_index writes it as it is. *)
SetPosition(r) ==
  /\ EditAt(r, "idle") /\ edits < MaxEdits
  /\ \E n \in DOMAIN tree, i \in Index :
    /\ tree' = [tree EXCEPT ![n].pos = i]
    /\ edits' = edits + 1
    /\ edit' = Disturb(edit, r, {tree[n].parent})
    /\ UNCHANGED <<chain, used, knotted>>

(* deleteNode deletes one row: no foreign key covers parent_id, so the nodes  *)
(* below stay; the edges of the node go with it.                              *)
RemoveNode(r) ==
  /\ EditAt(r, "idle") /\ edits < MaxEdits
  /\ \E n \in DOMAIN tree \ {Root} :
    /\ tree' = Without(tree, {n})
    /\ chain' = {e \in chain : n \notin {e[1], e[2]}}
    /\ edits' = edits + 1
    /\ edit' = Disturb(edit, r, {tree[n].parent})
    /\ UNCHANGED <<used, knotted>>

TreeStep(r) ==
  \/ CountSiblings(r) \/ InsertNode(r) \/ LinkChain(r)
  \/ FindTarget(r) \/ ListTarget(r) \/ WriteMove(r)
  \/ ReadReordered(r) \/ ListSiblings(r) \/ WriteOrder(r)

TreeNext ==
  \E r \in Request :
    \/ StartCreate(r) \/ StartChain(r) \/ StartMove(r)
    \/ SetPosition(r) \/ RemoveNode(r) \/ TreeStep(r)

TreeSpec == TreeInit /\ [][TreeNext]_treeVars

-----------------------------------------------------------------------------
(* A node that is created without a position, or moved to another parent,    *)
(* comes after all its siblings there, unless others changed the children of  *)
(* the parent since they were listed.                                         *)
PlacedLast ==
  [][\A r \in Request :
       LET q == edit[r]
           n == IF q.pc = "move" THEN q.node ELSE Head(q.todo)
           written == /\ tree' # tree /\ q.pc \in {"insert", "move"}
                      /\ <<edit'[r].pc, edit'[r].todo>> # <<q.pc, q.todo>>
       IN  written /\ ~q.touched /\ (q.pc = "insert" => q.at = Nil) =>
             \A c \in Offspring(q.parent) \ {n} : tree[c].pos < tree'[n].pos]_treeVars

(* A reorder that nobody disturbed leaves the siblings numbered from 0, the  *)
(* node at the index asked for (or last, if there are fewer siblings) and the *)
(* others in the order they had.                                              *)
ReorderExact ==
  [][\A r \in Request :
       LET q == edit[r]
           kids == Offspring(q.parent)
       IN  q.pc = "write" /\ edit'[r].pc = "idle" /\ ~q.touched =>
             /\ {tree'[c].pos : c \in kids} = 0 .. Cardinality(kids) - 1
             /\ tree'[q.node].pos = Min({q.at, Cardinality(kids) - 1})
             /\ \A c, d \in kids \ {q.node} :
                  q.seen[c] < q.seen[d] => tree'[c].pos < tree'[d].pos]_treeVars

(* Following parent_id never runs in a circle, so that listings, rollups and  *)
(* ancestry paths end; unless somebody asked to move a node under itself, or  *)
(* two moves overlapped.  (Both are accepted: see the findings.)              *)
LoopsExplained == (\E S \in SUBSET DOMAIN tree : Circle(S)) => knotted

(* The tree is what the requests asked for, where nothing came in between: the *)
(* positions of siblings, and a tree at all.                                   *)
TreeSound == PlacedLast /\ ReorderExact /\ []LoopsExplained
=============================================================================
