----------------------------- MODULE Plans_proofs -----------------------------
(***************************************************************************)
(* Proofs about the plans: the tree of nodes under concurrent requests,    *)
(* copies of whole plans, the outlines of agents, the collaborators of a   *)
(* plan and the doors through which it is read.                            *)
(***************************************************************************)
EXTENDS NodeTree, PlanCopies, Intentions, PlanDoors, FiniteSetTheorems, WellFoundedInduction, TLAPS

-----------------------------------------------------------------------------
(***************************************************************************)
(* NodeTree. Proof that siblings stand where they were put and that        *)
(* parent_id runs in a circle only after a move below itself or two moves  *)
(* at once, for any trees and requests.                                    *)
(*                                                                         *)
(* The invariant says what a request knows of the table and what of it     *)
(* still holds unless others interfered; and, for a move, that some set of *)
(* nodes without the moved one holds the new parent and all above it.      *)
(***************************************************************************)
(* The predicates speak of any table T of nodes and any request q. *)
EditFields == {"pc", "node", "todo", "parent", "at", "pos", "row", "order", "next", "seen", "touched", "raced"}
Kids(T, p) == {c \in DOMAIN T : T[c].parent = p}
SameKids(T, T2, p) == Kids(T, p) = Kids(T2, p) /\ \A c \in Kids(T, p) : T2[c] = T[c]

TreeRows(T, U) ==
  /\ U \subseteq Node /\ \E m \in Nat : U = 0 .. m - 1
  /\ Root \in DOMAIN T /\ DOMAIN T \subseteq U
  /\ \A n \in DOMAIN T : /\ T[n] \in [parent : U \cup {Nil}, pos : Nat]
                         /\ T[n].parent = Nil <=> n = Root

Creates(q)  == q.pc \in {"siblings", "insert"}
Moves(q)    == q.pc \in {"target", "children", "move"}
Pending(q)  == IF Creates(q) THEN Range(q.todo) ELSE {}

(* What a request carries at each step *)
EditShape(q, T, U) ==
  /\ DOMAIN q = EditFields /\ q.pc \in EditPc /\ q.at \in Nat \cup {Nil} /\ q.pos \in Nat
  /\ q.touched \in BOOLEAN /\ q.raced \in BOOLEAN
  /\ Creates(q) => /\ q.todo \in Seq(Node) /\ q.todo # <<>> /\ q.order \in Seq(Node)
                   /\ \A i \in DOMAIN q.todo : q.todo[i] \in U \ DOMAIN T
                   /\ \A i, j \in DOMAIN q.todo : i # j => q.todo[i] # q.todo[j]
                   /\ q.parent \in U
  /\ Moves(q) => q.node \in U \ {Root} /\ q.parent \in U
  /\ q.pc = "link" => q.order \in Seq(Node) /\ Len(q.order) >= 2
  /\ q.pc \in {"reorder", "list", "write"} => q.at \in Nat /\ q.node \in U
  /\ IF q.pc = "write" THEN q.order \in Seq(Node) /\ q.next \in 1 .. Len(q.order) ELSE q.next = 1

(* No loop is to be expected of a move: its node is not above the new      *)
(* parent.                                                                 *)
UpFrom(T, V) == \A c \in V \cap DOMAIN T : T[c].parent \in V \cup {Nil}
Clear(q, T) ==
  Moves(q) /\ ~q.raced => \E V \in SUBSET Node : q.parent \in V /\ q.node \notin V /\ UpFrom(T, V)
Straight(T) == \A S \in SUBSET DOMAIN T : S # {} => \E n \in S : T[n].parent \notin S

(* The position to be written comes after all, unless others interfered. *)
Placed(q, T) ==
  q.pc \in {"insert", "move"} /\ ~q.touched /\ (q.pc = "insert" => q.at = Nil) =>
    \A c \in Kids(T, q.parent) : T[c].pos < q.pos

(* The order to be written enumerates the siblings; the first ones have    *)
(* their number, the others the position that was read.                    *)
Ordered(q, T) ==
  LET K == Kids(T, q.parent)
      C == Cardinality(K)
  IN  /\ q.node \in K /\ Len(q.order) = C
      /\ q.order \in [1 .. C -> K]
      /\ \A c \in K : \E i \in 1 .. C : q.order[i] = c
      /\ \A i, j \in 1 .. C : i # j => q.order[i] # q.order[j]
      /\ \A i \in 1 .. C : /\ i < q.next => T[q.order[i]].pos = i - 1
                           /\ i >= q.next => T[q.order[i]].pos = q.seen[q.order[i]]
                           /\ q.seen[q.order[i]] \in Nat
      /\ \A i, j \in 1 .. C : i < j /\ q.order[i] # q.node /\ q.order[j] # q.node =>
                                q.seen[q.order[i]] <= q.seen[q.order[j]]
      /\ q.order[Min({q.at, C - 1}) + 1] = q.node

Listed(q, T) ==
  /\ q.pc = "list" /\ ~q.touched =>
       q.node \in DOMAIN T /\ T[q.node] = q.row /\ q.row.parent = q.parent
  /\ q.pc = "write" /\ ~q.touched => Ordered(q, T)

Fit(q, T, U) == EditShape(q, T, U) /\ Clear(q, T) /\ Placed(q, T) /\ Listed(q, T)

(* Nobody speaks of a row before it is inserted, and nobody else inserts   *)
(* it.                                                                     *)
Free(p, e) == \A q \in Request : p \notin Pending(e[q])
Apart(e, T) ==
  /\ \A q, r \in Request : q # r => \A n \in Pending(e[r]) : n \notin Pending(e[q])
  /\ \A m \in DOMAIN T : Free(T[m].parent, e)
  /\ \A q \in Request : Creates(e[q]) \/ Moves(e[q]) => Free(e[q].parent, e)

NodeTreeInv ==
  /\ TreeRows(tree, used)
  /\ DOMAIN edit = Request /\ \A r \in Request : Fit(edit[r], tree, used)
  /\ Apart(edit, tree)
  /\ knotted \in BOOLEAN /\ (~knotted => Straight(tree))

(* The other requests only learn of what happened. *)
Learns(a, b) ==
  /\ DOMAIN b = EditFields /\ b.pc = a.pc /\ b.node = a.node /\ b.todo = a.todo /\ b.parent = a.parent
  /\ b.at = a.at /\ b.pos = a.pos /\ b.row = a.row /\ b.order = a.order /\ b.next = a.next
  /\ b.seen = a.seen /\ b.touched \in BOOLEAN /\ b.raced \in BOOLEAN
  /\ (a.touched => b.touched) /\ (a.raced => b.raced)

-----------------------------------------------------------------------------
LEMMA NodesAre ==
  /\ IsFiniteSet(Node) /\ Node \subseteq Nat /\ Nil \notin Nat /\ Nil \notin Node
  BY NTAssumption, FS_CardinalityType

LEMMA NoEditIs ==
  /\ DOMAIN NoEdit = EditFields /\ NoEdit.pc = "idle" /\ NoEdit.node = Nil /\ NoEdit.todo = <<>>
  /\ NoEdit.parent = Nil /\ NoEdit.at = Nil /\ NoEdit.pos = 0 /\ NoEdit.order = <<>> /\ NoEdit.next = 1
  /\ NoEdit.touched \in BOOLEAN /\ NoEdit.raced \in BOOLEAN /\ ~NoEdit.touched /\ ~NoEdit.raced
  BY DEF NoEdit, EditFields

LEMMA IdleFits ==
  ASSUME NEW T, NEW U
  PROVE  Fit(NoEdit, T, U) /\ Pending(NoEdit) = {} /\ ~Creates(NoEdit) /\ ~Moves(NoEdit)
<1>1. Pending(NoEdit) = {} /\ ~Creates(NoEdit) /\ ~Moves(NoEdit)
  <2>1. ~Creates(NoEdit)
    BY NoEditIs DEF Creates
  <2>2. ~Moves(NoEdit)
    BY NoEditIs DEF Moves
  <2>3. Pending(NoEdit) = {}
    BY NoEditIs DEF Pending, Creates
  <2> QED
    BY <2>1, <2>2, <2>3
<1>2. EditShape(NoEdit, T, U)
  BY NoEditIs DEF EditShape, EditPc, Creates, Moves
<1>3. Clear(NoEdit, T) /\ Placed(NoEdit, T) /\ Listed(NoEdit, T)
  BY NoEditIs DEF Clear, Placed, Listed, Moves
<1> QED
  BY <1>1, <1>2, <1>3 DEF Fit

(* What a request knows stays true where the children of its parent stay   *)
(* as they are.                                                            *)
LEMMA OthersFit ==
  ASSUME NEW q, NEW b, NEW T, NEW U, NEW T2, NEW U2,
         Fit(q, T, U), Learns(q, b), U \subseteq U2,
         b.touched \/ SameKids(T, T2, q.parent),
         \A n \in Pending(q) : n \notin DOMAIN T2, Clear(b, T2)
  PROVE  Fit(b, T2, U2)
<1> USE DEF Learns
<1>1. EditShape(b, T2, U2)
  <2>1. Creates(b) <=> Creates(q)
    BY DEF Creates
  <2>2. Moves(b) <=> Moves(q)
    BY DEF Moves
  <2>3. Creates(q) => \A i \in DOMAIN q.todo : q.todo[i] \in U2 \ DOMAIN T2
    BY DEF Fit, EditShape, Pending, Range
  <2>4. /\ DOMAIN b = EditFields /\ b.pc \in EditPc /\ b.at \in Nat \cup {Nil} /\ b.pos \in Nat
        /\ b.touched \in BOOLEAN /\ b.raced \in BOOLEAN
    BY DEF Fit, EditShape
  <2>5. Creates(b) => /\ b.todo \in Seq(Node) /\ b.todo # <<>> /\ b.order \in Seq(Node)
                      /\ \A i \in DOMAIN b.todo : b.todo[i] \in U2 \ DOMAIN T2
                      /\ \A i, j \in DOMAIN b.todo : i # j => b.todo[i] # b.todo[j]
                      /\ b.parent \in U2
    BY <2>1, <2>3 DEF Fit, EditShape
  <2>6. Moves(b) => b.node \in U2 \ {Root} /\ b.parent \in U2
    BY <2>2 DEF Fit, EditShape
  <2>7. /\ b.pc = "link" => b.order \in Seq(Node) /\ Len(b.order) >= 2
        /\ b.pc \in {"reorder", "list", "write"} => b.at \in Nat /\ b.node \in U2
        /\ IF b.pc = "write" THEN b.order \in Seq(Node) /\ b.next \in 1 .. Len(b.order) ELSE b.next = 1
    BY DEF Fit, EditShape
  <2> QED
    BY <2>4, <2>5, <2>6, <2>7 DEF EditShape
<1>2. CASE b.touched
  BY <1>1, <1>2 DEF Fit, Placed, Listed
<1>3. CASE ~b.touched
  <2>1. ~q.touched /\ SameKids(T, T2, b.parent)
    BY <1>3 DEF Fit, EditShape
  <2>2. Placed(b, T2)
    BY <1>3, <2>1 DEF Fit, Placed, SameKids
  <2>3. b.pc = "list" => b.node \in DOMAIN T2 /\ T2[b.node] = b.row /\ b.row.parent = b.parent
    BY <2>1 DEF Fit, Listed, SameKids, Kids
  <2>4. b.pc = "write" => Ordered(b, T2)
    <3> SUFFICES ASSUME b.pc = "write" PROVE Ordered(b, T2)
      OBVIOUS
    <3>1. Ordered(q, T)
      BY <2>1 DEF Fit, Listed
    <3>2. PICK K : K = Kids(T, q.parent) /\ K = Kids(T2, b.parent) /\ \A c \in K : T2[c] = T[c]
      BY <2>1 DEF SameKids
    <3>3. \A i \in 1 .. Cardinality(K) : q.order[i] \in K
      BY <3>1, <3>2 DEF Ordered
    <3>4. \A i \in 1 .. Cardinality(K) : T2[q.order[i]] = T[q.order[i]]
      BY <3>2, <3>3
    <3> QED
      BY <3>1, <3>2, <3>4 DEF Ordered
  <2> QED
    BY <1>1, <2>2, <2>3, <2>4 DEF Fit, Listed
<1> QED
  BY <1>2, <1>3

(* A request ends or goes on; who inserts which row stays apart. *)
Keeps(r, e, e2, T2) ==
  /\ \A q \in Request \ {r} : Learns(e[q], e2[q])
  /\ Pending(e2[r]) \subseteq Pending(e[r])
  /\ Creates(e2[r]) \/ Moves(e2[r]) => Free(e2[r].parent, e)
  /\ \A m \in DOMAIN T2 : Free(T2[m].parent, e)

LEMMA ApartStep ==
  ASSUME NEW e, NEW T, NEW e2, NEW T2, NEW r \in Request, Apart(e, T), Keeps(r, e, e2, T2)
  PROVE  Apart(e2, T2)
<1> USE DEF Keeps
<1>1. \A q \in Request \ {r} : /\ Pending(e2[q]) = Pending(e[q]) /\ e2[q].parent = e[q].parent
                               /\ Creates(e2[q]) <=> Creates(e[q])
                               /\ Moves(e2[q]) <=> Moves(e[q])
  BY DEF Learns, Pending, Creates, Moves
<1>2. \A q \in Request : Pending(e2[q]) \subseteq Pending(e[q])
  <2> TAKE q \in Request
  <2>1. CASE q = r
    BY <2>1
  <2>2. CASE q # r
    <3>1. Pending(e2[q]) = Pending(e[q])
      BY <1>1, <2>2
    <3> QED
      BY <3>1
  <2> QED
    BY <2>1, <2>2
<1>3. \A p : Free(p, e) => Free(p, e2)
  BY <1>2 DEF Free
<1>4. \A q, x \in Request : q # x => \A n \in Pending(e2[x]) : n \notin Pending(e2[q])
  BY <1>2 DEF Apart
<1>5. \A q \in Request : Creates(e2[q]) \/ Moves(e2[q]) => Free(e2[q].parent, e)
  BY <1>1 DEF Apart
<1> QED
  BY <1>3, <1>4, <1>5 DEF Apart

(* One request goes on, and others learn of the parents P whose children   *)
(* changed.                                                                *)
Onward(r, e2, T2, U2, K2, P) ==
  /\ DOMAIN e2 = Request /\ \A q \in Request \ {r} : Learns(edit[q], e2[q])
  /\ \A q \in Request \ {r} : edit[q].parent \in P => e2[q].touched
  /\ \A p : p \notin P => SameKids(tree, T2, p)
  /\ TreeRows(T2, U2) /\ used \subseteq U2
  /\ Fit(e2[r], T2, U2)
  /\ \A q \in Request \ {r} : \A n \in Pending(edit[q]) : n \notin DOMAIN T2
  /\ \A q \in Request \ {r} : Clear(e2[q], T2)
  /\ Apart(e2, T2)
  /\ K2 \in BOOLEAN /\ (~K2 => Straight(T2))

LEMMA OnwardInv ==
  ASSUME NodeTreeInv, NEW r \in Request, NEW e2, NEW T2, NEW U2, NEW K2, NEW P,
         Onward(r, e2, T2, U2, K2, P), edit' = e2, tree' = T2, used' = U2, knotted' = K2
  PROVE  NodeTreeInv'
<1>1. \A q \in Request : Fit(e2[q], T2, U2)
  <2> TAKE q \in Request
  <2>1. CASE q = r
    BY <2>1 DEF Onward
  <2>2. CASE q # r
    <3>1. Fit(edit[q], tree, used)
      BY DEF NodeTreeInv
    <3>2. e2[q].touched \/ SameKids(tree, T2, edit[q].parent)
      BY <2>2 DEF Onward
    <3>3. Learns(edit[q], e2[q]) /\ used \subseteq U2 /\ Clear(e2[q], T2)
          /\ \A n \in Pending(edit[q]) : n \notin DOMAIN T2
      BY <2>2 DEF Onward
    <3> QED
      BY <3>1, <3>2, <3>3, OthersFit
  <2> QED
    BY <2>1, <2>2
<1> QED
  BY <1>1 DEF Onward, NodeTreeInv

LEMMA LearnsSame ==
  ASSUME NodeTreeInv
  PROVE  \A q \in Request : Learns(edit[q], edit[q]) /\ DOMAIN edit[q] = EditFields
  BY DEF NodeTreeInv, Fit, EditShape, Learns

(* The table stays as it is. *)
LEMMA EditStep ==
  ASSUME NodeTreeInv, NEW r \in Request, NEW new, Fit(new, tree, used),
         Pending(new) \subseteq Pending(edit[r]),
         Creates(new) \/ Moves(new) => Free(new.parent, edit),
         edit' = [edit EXCEPT ![r] = new], tree' = tree, used' = used, knotted' = knotted
  PROVE  NodeTreeInv'
<1>1. PICK e2 : e2 = [edit EXCEPT ![r] = new]
  OBVIOUS
<1>2. DOMAIN e2 = Request /\ e2[r] = new /\ \A q \in Request \ {r} : e2[q] = edit[q]
  BY <1>1 DEF NodeTreeInv
<1>3. \A q \in Request \ {r} : Learns(edit[q], e2[q]) /\ Clear(e2[q], tree)
                                /\ \A n \in Pending(edit[q]) : n \notin DOMAIN tree
  BY <1>2, LearnsSame DEF NodeTreeInv, Fit, EditShape, Pending, Range
<1>4. \A p : SameKids(tree, tree, p)
  BY DEF SameKids
<1>5. Apart(e2, tree)
  <2>1. \A m \in DOMAIN tree : Free(tree[m].parent, edit)
    BY DEF NodeTreeInv, Apart
  <2>2. Apart(edit, tree)
    BY DEF NodeTreeInv
  <2> QED
    <3>1. Keeps(r, edit, e2, tree)
      BY <1>2, <1>3, <2>1 DEF Keeps
    <3> QED
      BY <2>2, <3>1, ApartStep
<1>6. Onward(r, e2, tree, used, knotted, {})
  BY <1>2, <1>3, <1>4, <1>5 DEF Onward, NodeTreeInv
<1> QED
  BY <1>1, <1>6, OnwardInv

-----------------------------------------------------------------------------
LEMMA SmallestNat ==
  ASSUME NEW T, T \subseteq Nat, T # {}
  PROVE  \E x \in T : \A y \in T : x <= y
<1> DEFINE R == {p \in Nat \X Nat : p[1] < p[2]}
<1>1. IsWellFoundedOn(R, Nat)
  BY NatLessThanWellFounded DEF OpToRel
<1> HIDE DEF R
<1>2. PICK x \in T : \A y \in T : <<y, x>> \notin R
  BY <1>1, WFMin
<1>3. \A y \in T : y \in Nat /\ x \in Nat /\ ~(y < x)
  BY <1>2 DEF R
<1> QED
  BY <1>3

(* Some element of a finite set has the greatest number: the one with the  *)
(* fewest above it.                                                        *)
LEMMA GreatestOf ==
  ASSUME NEW K, IsFiniteSet(K), K # {}, NEW f, \A c \in K : f[c] \in Nat
  PROVE  \E c \in K : \A d \in K : f[d] <= f[c]
<1> DEFINE Over(c) == {d \in K : f[d] > f[c]}
           N == {Cardinality(Over(c)) : c \in K}
<1>1. \A c \in K : Over(c) \subseteq K /\ IsFiniteSet(Over(c)) /\ Cardinality(Over(c)) \in Nat
  BY FS_Subset, FS_CardinalityType
<1>2. N \subseteq Nat /\ N # {}
  BY <1>1
<1>3. PICK n \in N : \A m \in N : n <= m
  BY <1>2, SmallestNat
<1>4. PICK c \in K : n = Cardinality(Over(c))
  OBVIOUS
<1>5. ASSUME NEW d \in K, f[d] > f[c] PROVE FALSE
  <2>1. Over(d) \subseteq Over(c) /\ d \in Over(c) /\ d \notin Over(d)
    BY <1>5
  <2>2. Over(d) \in SUBSET Over(c) /\ Over(d) # Over(c)
    BY <2>1
  <2>3. Cardinality(Over(d)) <= Cardinality(Over(c)) /\ Cardinality(Over(d)) # Cardinality(Over(c))
    <3> HIDE DEF Over
    <3> QED
      BY <1>1, <2>2, FS_Subset
  <2>4. Cardinality(Over(d)) \in N
    OBVIOUS
  <2>5. n <= Cardinality(Over(d))
    BY <1>3, <2>4
  <2> HIDE DEF Over, N
  <2>6. Cardinality(Over(d)) \in Nat /\ Cardinality(Over(c)) \in Nat
    BY <1>1
  <2> QED
    BY <1>4, <2>3, <2>5, <2>6
<1>6. \A d \in K : f[d] <= f[c]
  BY <1>5
<1> QED
  BY <1>6

LEMMA RowsFinite ==
  ASSUME NEW T, NEW U, TreeRows(T, U), NEW p
  PROVE  IsFiniteSet(Kids(T, p)) /\ IsFiniteSet(U)
<1>1. Kids(T, p) \in SUBSET Node /\ U \in SUBSET Node
  BY DEF TreeRows, Kids
<1> QED
  BY <1>1, NodesAre, FS_Subset

(* The next position comes after all those of the siblings. *)
LEMMA NextPosLast ==
  ASSUME TreeRows(tree, used), NEW p
  PROVE  NextPos(p) \in Nat /\ \A c \in Kids(tree, p) : tree[c].pos < NextPos(p)
<1>1. PICK K : K = Kids(tree, p) /\ K = Offspring(p)
  BY DEF Kids, Offspring
<1>2. \A c \in K : tree[c].pos \in Nat
  BY <1>1 DEF TreeRows, Kids
<1>3. CASE K = {}
  BY <1>1, <1>3 DEF NextPos
<1>4. CASE K # {}
  <2>1. PICK f : f = [c \in K |-> tree[c].pos]
    OBVIOUS
  <2>2. IsFiniteSet(K)
    BY <1>1, RowsFinite
  <2>3. PICK c \in K : \A d \in K : f[d] <= f[c]
    BY <1>2, <1>4, <2>1, <2>2, GreatestOf
  <2>4. PICK P : P = {tree[d].pos : d \in K}
    OBVIOUS
  <2>5. tree[c].pos \in P /\ \A x \in P : tree[c].pos >= x
    BY <1>2, <2>1, <2>3, <2>4
  <2>6. Max(P) \in P /\ \A x \in P : Max(P) >= x
    BY <2>5 DEF Max
  <2>7. NextPos(p) = Max(P) + 1
    BY <1>1, <1>4, <2>4 DEF NextPos
  <2>8. \A x \in P : x \in Nat
    BY <1>2, <2>4
  <2>9. Max(P) \in Nat /\ \A d \in K : tree[d].pos \in Nat /\ Max(P) >= tree[d].pos
    BY <1>2, <2>4, <2>6, <2>8
  <2> QED
    BY <1>1, <2>7, <2>9
<1> QED
  BY <1>3, <1>4

(* New ids are in a row, and nobody has them. *)
LEMMA FreshIs ==
  ASSUME TreeRows(tree, used), NEW k \in Nat \ {0}, NEW s \in Fresh(k)
  PROVE  /\ s \in Seq(Node) /\ Len(s) = k /\ DOMAIN s = 1 .. k
         /\ \A i \in 1 .. k : s[i] \notin used
         /\ \A i, j \in 1 .. k : i # j => s[i] # s[j]
         /\ Range(s) \cap used = {}
         /\ used \cup Range(s) \subseteq Node /\ \E m \in Nat : used \cup Range(s) = 0 .. m - 1
<1>1. PICK m \in Nat : used = 0 .. m - 1
  BY DEF TreeRows
<1>2. Cardinality(used) = m
  <2>1. 0 \in Int /\ m - 1 \in Int
    OBVIOUS
  <2>2. Cardinality(0 .. m - 1) = IF 0 > m - 1 THEN 0 ELSE m - 1 - 0 + 1
    BY <2>1, FS_Interval
  <2> QED
    BY <1>1, <2>2
<1>3. s = [i \in 1 .. k |-> m + i - 1] /\ m + k - 1 \in Node
  BY <1>2 DEF Fresh
<1>4. PICK c \in Nat : Node = 0 .. c - 1
  BY NTAssumption, FS_CardinalityType
<1>5. \A i \in 1 .. k : s[i] = m + i - 1 /\ s[i] \in Node
  BY <1>3, <1>4
<1>6. s \in Seq(Node) /\ Len(s) = k /\ DOMAIN s = 1 .. k
  BY <1>3, <1>5
<1>7. \A x : x \in Range(s) <=> x \in m .. m + k - 1
  <2>1. \A x \in m .. m + k - 1 : x - m + 1 \in 1 .. k /\ s[x - m + 1] = x
    BY <1>5
  <2>2. \A x : x \in Range(s) <=> \E i \in 1 .. k : s[i] = x
    BY <1>6 DEF Range
  <2> QED
    BY <1>5, <2>1, <2>2
<1>8. \A x : x \in used \cup Range(s) <=> x \in 0 .. m + k - 1
  BY <1>1, <1>7
<1>9. used \cup Range(s) = 0 .. (m + k) - 1 /\ m + k \in Nat
  BY <1>8
<1>10. used \cup Range(s) \subseteq Node
  <2> SUFFICES ASSUME NEW y \in used \cup Range(s) PROVE y \in Node
    OBVIOUS
  <2>1. y \in 0 .. m + k - 1
    BY <1>8
  <2>2. m + k - 1 \in 0 .. c - 1
    BY <1>3, <1>4
  <2>3. y \in 0 .. c - 1
    BY <2>1, <2>2
  <2> QED
    BY <1>4, <2>3
<1>11. \A i \in 1 .. k : s[i] \notin used
  BY <1>1, <1>5
<1>12. \A i, j \in 1 .. k : i # j => s[i] # s[j]
  BY <1>5
<1>13. Range(s) \cap used = {}
  BY <1>1, <1>7
<1> QED
  BY <1>6, <1>9, <1>10, <1>11, <1>12, <1>13

(* A request that creates rows begins. *)
LEMMA CreatorInv ==
  ASSUME NodeTreeInv, NEW r \in Request, NEW k \in Nat \ {0}, NEW s \in Fresh(k), NEW p \in used, NEW new,
         Free(p, edit), ~Creates(edit[r]) /\ ~Moves(edit[r]),
         DOMAIN new = EditFields, Creates(new), new.todo = s, new.parent = p, new.order = <<>>, new.next = 1,
         new.at \in Nat \cup {Nil}, new.pos \in Nat, new.touched \in BOOLEAN, new.raced \in BOOLEAN,
         new.pc = "insert" => new.at # Nil,
         edit' = [edit EXCEPT ![r] = new], used' = used \cup Range(s), tree' = tree, knotted' = knotted
  PROVE  NodeTreeInv'
<1>1. TreeRows(tree, used) /\ Apart(edit, tree) /\ DOMAIN edit = Request
  BY DEF NodeTreeInv
<1>2. PICK e2, U2 : e2 = [edit EXCEPT ![r] = new] /\ U2 = used \cup Range(s)
  OBVIOUS
<1>3. e2[r] = new /\ DOMAIN e2 = Request /\ \A q \in Request \ {r} : e2[q] = edit[q]
  BY <1>1, <1>2
<1>4. /\ s \in Seq(Node) /\ Len(s) = k /\ DOMAIN s = 1 .. k
      /\ \A i \in 1 .. k : s[i] \notin used
      /\ \A i, j \in 1 .. k : i # j => s[i] # s[j]
      /\ Range(s) \cap used = {}
      /\ U2 \subseteq Node /\ \E m \in Nat : U2 = 0 .. m - 1
  BY <1>1, <1>2, FreshIs
<1>5. TreeRows(tree, U2)
  <2>1. \A n \in DOMAIN tree : tree[n] \in [parent : U2 \cup {Nil}, pos : Nat] /\ (tree[n].parent = Nil <=> n = Root)
    BY <1>1, <1>2 DEF TreeRows
  <2> QED
    BY <1>1, <1>2, <1>4, <2>1 DEF TreeRows
<1>6. Pending(new) = Range(s) /\ new.pc \in {"siblings", "insert"} /\ ~Moves(new)
  BY DEF Pending, Creates, Moves
<1>7. Fit(new, tree, U2)
  <2>1. \A i \in DOMAIN s : s[i] \in U2 \ DOMAIN tree
    BY <1>1, <1>2, <1>4 DEF TreeRows, Range
  <2>2. EditShape(new, tree, U2)
    <3>1. s # <<>> /\ <<>> \in Seq(Node)
      BY <1>4
    <3> QED
      BY <1>2, <1>4, <1>6, <2>1, <3>1 DEF EditShape, EditPc, Creates, Moves
  <2>3. Clear(new, tree) /\ Placed(new, tree) /\ Listed(new, tree)
    BY <1>6 DEF Clear, Placed, Listed, Moves
  <2> QED
    BY <2>2, <2>3 DEF Fit
<1>8. Apart(e2, tree)
  <2>1. \A q \in Request \ {r} : Pending(e2[q]) \subseteq used
    BY <1>3 DEF NodeTreeInv, Fit, EditShape, Pending, Range
  <2>2. \A x \in used : Free(x, edit) => Free(x, e2)
    BY <1>3, <1>4, <1>6 DEF Free
  <2>3. Free(Nil, e2)
    <3>1. \A q \in Request : Pending(e2[q]) \subseteq Node
      <4>1. used \subseteq Node /\ Range(s) \subseteq Node
        BY <1>1, <1>2, <1>4 DEF TreeRows
      <4>2. Pending(e2[r]) \subseteq Node
        BY <1>3, <1>6, <4>1
      <4>3. \A q \in Request \ {r} : Pending(e2[q]) \subseteq Node
        BY <2>1, <4>1
      <4> QED
        BY <4>2, <4>3
    <3> QED
      BY <3>1, NodesAre DEF Free
  <2>4. \A m \in DOMAIN tree : Free(tree[m].parent, e2)
    BY <1>1, <2>2, <2>3 DEF TreeRows, Apart
  <2>5. \A q \in Request : Creates(e2[q]) \/ Moves(e2[q]) => Free(e2[q].parent, e2)
    <3> SUFFICES ASSUME NEW q \in Request, Creates(e2[q]) \/ Moves(e2[q]) PROVE Free(e2[q].parent, e2)
      OBVIOUS
    <3>1. CASE q = r
      BY <1>3, <2>2, <3>1
    <3>2. CASE q # r
      <4>1. edit[q].parent \in used /\ Free(edit[q].parent, edit)
        BY <1>1, <1>3, <3>2 DEF NodeTreeInv, Fit, EditShape, Apart
      <4> QED
        BY <1>3, <2>2, <3>2, <4>1
    <3> QED
      BY <3>1, <3>2
  <2>6. \A q, x \in Request : q # x => \A n \in Pending(e2[x]) : n \notin Pending(e2[q])
    <3> SUFFICES ASSUME NEW q \in Request, NEW x \in Request, q # x, NEW n \in Pending(e2[x]), n \in Pending(e2[q])
                 PROVE  FALSE
      OBVIOUS
    <3>1. CASE q # r /\ x # r
      BY <1>1, <1>3, <3>1 DEF Apart
    <3>2. CASE q = r \/ x = r
      BY <1>3, <1>4, <1>6, <2>1, <3>2
    <3> QED
      BY <3>1, <3>2
  <2> QED
    BY <2>4, <2>5, <2>6 DEF Apart
<1>9. Onward(r, e2, tree, U2, knotted, {})
  <2>1. \A q \in Request \ {r} : Learns(edit[q], e2[q]) /\ Clear(e2[q], tree)
                                /\ \A n \in Pending(edit[q]) : n \notin DOMAIN tree
    BY <1>3, LearnsSame DEF NodeTreeInv, Fit, EditShape, Pending, Range
  <2>2. \A x : SameKids(tree, tree, x)
    BY DEF SameKids
  <2> QED
    BY <1>2, <1>3, <1>5, <1>7, <1>8, <2>1, <2>2 DEF Onward, NodeTreeInv
<1> QED
  BY <1>2, <1>9, OnwardInv

USE DEF EditAt

LEMMA StartCreatesInv ==
  ASSUME NodeTreeInv, NEW r \in Request, StartCreate(r) \/ StartChain(r)
  PROVE  NodeTreeInv'
<1>1. TreeRows(tree, used) /\ Apart(edit, tree) /\ edit[r].pc = "idle" /\ tree' = tree /\ knotted' = knotted
  BY DEF NodeTreeInv, StartCreate, StartChain
<1>2. ~Creates(edit[r]) /\ ~Moves(edit[r])
  BY <1>1 DEF Creates, Moves
<1>3. CASE StartCreate(r)
  <2>1. PICK s \in Fresh(1), p \in DOMAIN tree, i \in Index \cup {Nil} :
          /\ edit' = [edit EXCEPT ![r] = [NoEdit EXCEPT !.todo = s, !.parent = p, !.at = i,
                        !.pos = IF i = Nil THEN 0 ELSE i, !.pc = IF i = Nil THEN "siblings" ELSE "insert"]]
          /\ used' = used \cup Range(s)
    BY <1>3 DEF StartCreate, Begin
  <2>2. PICK new : new = [NoEdit EXCEPT !.todo = s, !.parent = p, !.at = i,
                        !.pos = IF i = Nil THEN 0 ELSE i, !.pc = IF i = Nil THEN "siblings" ELSE "insert"]
    OBVIOUS
  <2>3. /\ DOMAIN new = EditFields /\ new.todo = s /\ new.parent = p /\ new.order = <<>> /\ new.next = 1 /\ new.at = i
        /\ new.pos = (IF i = Nil THEN 0 ELSE i) /\ new.touched \in BOOLEAN /\ new.raced \in BOOLEAN
        /\ new.pc = IF i = Nil THEN "siblings" ELSE "insert"
    BY <2>2, NoEditIs DEF EditFields
  <2>4. i \in Nat \cup {Nil}
    BY NTAssumption
  <2>5. Creates(new) /\ (new.pc = "insert" => new.at # Nil) /\ new.pos \in Nat /\ new.at \in Nat \cup {Nil}
    BY <2>3, <2>4 DEF Creates
  <2>6. p \in used /\ Free(p, edit)
    <3>1. ASSUME NEW q \in Request PROVE p \notin Pending(edit[q])
      BY DEF NodeTreeInv, Fit, EditShape, Pending, Range
    <3> QED
      BY <1>1, <3>1 DEF TreeRows, Free
  <2>7. 1 \in Nat \ {0} /\ edit' = [edit EXCEPT ![r] = new]
    BY <2>1, <2>2
  <2> QED
    BY <1>1, <1>2, <2>1, <2>3, <2>5, <2>6, <2>7, CreatorInv
<1>4. CASE StartChain(r)
  <2>1. PICK s \in Fresh(3), p \in used \ Awaited :
          /\ edit' = [edit EXCEPT ![r] = [NoEdit EXCEPT !.todo = s, !.parent = p, !.pc = "siblings"]]
          /\ used' = used \cup Range(s)
    BY <1>4 DEF StartChain, Begin
  <2>2. PICK new : new = [NoEdit EXCEPT !.todo = s, !.parent = p, !.pc = "siblings"]
    OBVIOUS
  <2>3. /\ DOMAIN new = EditFields /\ new.todo = s /\ new.parent = p /\ new.order = <<>> /\ new.next = 1 /\ new.at = Nil
        /\ new.pos = 0 /\ new.touched \in BOOLEAN /\ new.raced \in BOOLEAN /\ new.pc = "siblings"
    BY <2>2, NoEditIs DEF EditFields
  <2>4. Creates(new) /\ (new.pc = "insert" => new.at # Nil) /\ new.pos \in Nat /\ new.at \in Nat \cup {Nil}
    BY <2>3 DEF Creates
  <2>5. Free(p, edit)
    BY <2>1 DEF Free, Pending, Awaited, Creates
  <2>6. 3 \in Nat \ {0} /\ edit' = [edit EXCEPT ![r] = new]
    BY <2>1, <2>2
  <2> QED
    BY <1>1, <1>2, <2>1, <2>3, <2>4, <2>5, <2>6, CreatorInv
<1> QED
  BY <1>3, <1>4

(* An existing row is not one that is yet to be inserted. *)
LEMMA RowsAreFree ==
  ASSUME NodeTreeInv
  PROVE  /\ \A p \in DOMAIN tree : Free(p, edit)
         /\ \A q \in Request : Creates(edit[q]) \/ Moves(edit[q]) => Free(edit[q].parent, edit)
         /\ TreeRows(tree, used) /\ DOMAIN tree \subseteq used /\ DOMAIN edit = Request
         /\ \A q \in Request : Fit(edit[q], tree, used) /\ DOMAIN edit[q] = EditFields
<1>1. \A q \in Request : Fit(edit[q], tree, used) /\ DOMAIN edit[q] = EditFields
  BY DEF NodeTreeInv, Fit, EditShape
<1>2. \A q \in Request : \A p \in Pending(edit[q]) : p \notin DOMAIN tree
  BY <1>1 DEF Fit, EditShape, Pending, Range
<1> QED
  BY <1>1, <1>2 DEF NodeTreeInv, Apart, TreeRows, Free

LEMMA StartMoveInv ==
  ASSUME NodeTreeInv, NEW r \in Request, StartMove(r)
  PROVE  NodeTreeInv'
<1>1. edit[r].pc = "idle" /\ tree' = tree /\ used' = used /\ knotted' = knotted
  BY DEF StartMove
<1>2. PICK n \in DOMAIN tree \ {Root}, p \in DOMAIN tree \cup {Nil}, i \in Index \cup {Nil} :
        LET moves == p \notin {Nil, tree[n].parent}
        IN  /\ moves \/ i # Nil
            /\ Begin(r, [NoEdit EXCEPT !.node = n, !.at = i, !.parent = IF moves THEN p ELSE Nil,
                           !.raced = moves /\ Above(p, n), !.pc = IF moves THEN "target" ELSE "reorder"])
  BY DEF StartMove
<1>3. PICK moves : moves \in BOOLEAN /\ (moves <=> p \notin {Nil, tree[n].parent})
  OBVIOUS
<1>4. PICK new : new = [NoEdit EXCEPT !.node = n, !.at = i, !.parent = IF moves THEN p ELSE Nil,
                           !.raced = moves /\ Above(p, n), !.pc = IF moves THEN "target" ELSE "reorder"]
  OBVIOUS
<1>5. (moves \/ i # Nil) /\ edit' = [edit EXCEPT ![r] = new]
  BY <1>2, <1>3, <1>4 DEF Begin
<1>6. /\ DOMAIN new = EditFields /\ new.node = n /\ new.at = i /\ new.parent = (IF moves THEN p ELSE Nil)
      /\ new.pos = 0 /\ new.touched \in BOOLEAN /\ new.next = 1
      /\ new.pc = IF moves THEN "target" ELSE "reorder"
  BY <1>4, NoEditIs DEF EditFields
<1>7. new.raced = (moves /\ Above(p, n))
  BY <1>4, NoEditIs DEF EditFields
<1>8. new.raced \in BOOLEAN /\ (~new.raced /\ moves => ~Above(p, n))
  BY <1>3, <1>7
<1>9. i \in Nat \cup {Nil}
  BY NTAssumption
<1>10. ~Creates(new) /\ Pending(new) = {} /\ (Moves(new) => moves)
  BY <1>6 DEF Creates, Pending, Moves
<1>11. EditShape(new, tree, used)
  <2>1. new.node \in used /\ (Moves(new) => new.node \in used \ {Root} /\ new.parent \in used)
    BY <1>3, <1>6, <1>10, RowsAreFree
  <2> QED
    BY <1>3, <1>5, <1>6, <1>8, <1>9, <1>10, <2>1 DEF EditShape, EditPc
<1>12. Clear(new, tree)
  <2> SUFFICES ASSUME Moves(new), ~new.raced
               PROVE  \E V \in SUBSET Node : new.parent \in V /\ new.node \notin V /\ UpFrom(tree, V)
    BY DEF Clear
  <2>1. PICK S \in SUBSET (Node \ {n}) : p \in S /\ \A c \in S \cap DOMAIN tree : tree[c].parent \in S \cup {Nil}
    BY <1>8, <1>10 DEF Above
  <2>2. S \in SUBSET Node /\ new.parent \in S /\ new.node \notin S /\ UpFrom(tree, S)
    BY <1>6, <1>10, <2>1 DEF UpFrom
  <2> QED
    BY <2>2
<1>13. Placed(new, tree) /\ Listed(new, tree)
  BY <1>3, <1>6 DEF Placed, Listed
<1>14. Creates(new) \/ Moves(new) => Free(new.parent, edit)
  BY <1>3, <1>6, <1>10, RowsAreFree
<1> QED
  BY <1>1, <1>5, <1>10, <1>11, <1>12, <1>13, <1>14, EditStep DEF Fit

LEMMA CountInv ==
  ASSUME NodeTreeInv, NEW r \in Request, CountSiblings(r) \/ ListTarget(r)
  PROVE  NodeTreeInv'
<1>1. tree' = tree /\ used' = used /\ knotted' = knotted /\ edit[r].pc \in {"siblings", "children"}
  BY DEF CountSiblings, ListTarget
<1>2. PICK q, x : q = edit[r] /\ x = IF edit[r].pc = "siblings" THEN "insert" ELSE "move"
  OBVIOUS
<1>3. PICK new : new = [q EXCEPT !.pc = x, !.pos = NextPos(q.parent), !.touched = FALSE]
  OBVIOUS
<1>4. edit' = [edit EXCEPT ![r] = new]
  BY <1>1, <1>2, <1>3, RowsAreFree DEF CountSiblings, ListTarget
<1>5. Fit(q, tree, used) /\ DOMAIN q = EditFields /\ TreeRows(tree, used)
  BY <1>2, RowsAreFree
<1>6. /\ DOMAIN new = EditFields /\ new.pc = x /\ new.pos = NextPos(q.parent) /\ new.node = q.node
      /\ new.todo = q.todo /\ new.parent = q.parent /\ new.at = q.at /\ new.order = q.order
      /\ new.next = q.next /\ new.raced = q.raced /\ new.touched \in BOOLEAN
  BY <1>3, <1>5 DEF EditFields
<1>7. NextPos(q.parent) \in Nat /\ \A c \in Kids(tree, q.parent) : tree[c].pos < NextPos(q.parent)
  BY <1>5, NextPosLast
<1>8. (Creates(new) <=> Creates(q)) /\ (Moves(new) <=> Moves(q)) /\ x \in {"insert", "move"}
  BY <1>1, <1>2, <1>6 DEF Creates, Moves
<1>9. Pending(new) = Pending(q)
  BY <1>1, <1>2, <1>6 DEF Pending, Creates
<1>10. EditShape(new, tree, used)
  <2>1. q.next = 1 /\ q.at \in Nat \cup {Nil} /\ q.raced \in BOOLEAN /\ (Moves(q) => q.node \in used \ {Root} /\ q.parent \in used)
    BY <1>1, <1>2, <1>5 DEF Fit, EditShape
  <2>2. Creates(new) => /\ new.todo \in Seq(Node) /\ new.todo # <<>> /\ new.order \in Seq(Node)
                        /\ \A i \in DOMAIN new.todo : new.todo[i] \in used \ DOMAIN tree
                        /\ \A i, j \in DOMAIN new.todo : i # j => new.todo[i] # new.todo[j]
                        /\ new.parent \in used
    BY <1>5, <1>6, <1>8 DEF Fit, EditShape
  <2> QED
    BY <1>6, <1>7, <1>8, <2>1, <2>2 DEF EditShape, EditPc
<1>11. Clear(new, tree)
  BY <1>5, <1>6, <1>8 DEF Fit, Clear
<1>12. Placed(new, tree) /\ Listed(new, tree)
  BY <1>6, <1>7, <1>8 DEF Placed, Listed
<1>13. Creates(new) \/ Moves(new) => Free(new.parent, edit)
  BY <1>2, <1>6, <1>8, RowsAreFree
<1> QED
  BY <1>1, <1>2, <1>4, <1>9, <1>10, <1>11, <1>12, <1>13, EditStep DEF Fit

LEMMA EndInv ==
  ASSUME NodeTreeInv, NEW r \in Request, edit' = EditDone(r), tree' = tree, used' = used, knotted' = knotted
  PROVE  NodeTreeInv'
<1>1. PICK new : new = NoEdit
  OBVIOUS
<1>2. Fit(new, tree, used) /\ Pending(new) = {} /\ ~Creates(new) /\ ~Moves(new)
  BY <1>1, IdleFits
<1>3. edit' = [edit EXCEPT ![r] = new]
  BY <1>1 DEF EditDone
<1> QED
  BY <1>2, <1>3, EditStep

LEMMA FindTargetInv ==
  ASSUME NodeTreeInv, NEW r \in Request, FindTarget(r)
  PROVE  NodeTreeInv'
<1>1. tree' = tree /\ used' = used /\ knotted' = knotted /\ edit[r].pc = "target"
  BY DEF FindTarget
<1>2. CASE edit' = EditDone(r)
  BY <1>1, <1>2, EndInv
<1>3. CASE edit' = [edit EXCEPT ![r].pc = "children"]
  <2>1. PICK q, new : q = edit[r] /\ new = [q EXCEPT !.pc = "children"]
    OBVIOUS
  <2>2. edit' = [edit EXCEPT ![r] = new]
    BY <1>3, <2>1, RowsAreFree
  <2>3. Fit(q, tree, used) /\ DOMAIN q = EditFields /\ TreeRows(tree, used) /\ q.pc = "target"
    BY <1>1, <2>1, RowsAreFree
  <2>4. /\ DOMAIN new = EditFields /\ new.pc = "children" /\ new.pos = q.pos /\ new.node = q.node
        /\ new.next = q.next
        /\ new.todo = q.todo /\ new.parent = q.parent /\ new.at = q.at /\ new.order = q.order
        /\ new.raced = q.raced /\ new.touched = q.touched
    BY <2>1, <2>3 DEF EditFields
  <2>5. ~Creates(new) /\ Moves(new) /\ Moves(q)
    BY <2>3, <2>4 DEF Creates, Moves
  <2>6. Pending(new) = {}
    BY <2>4 DEF Pending, Creates
  <2>7. EditShape(new, tree, used)
    BY <2>3, <2>4, <2>5 DEF Fit, EditShape, EditPc
  <2>8. Clear(new, tree)
    BY <2>3, <2>4, <2>5 DEF Fit, Clear
  <2>9. Placed(new, tree) /\ Listed(new, tree)
    BY <2>4 DEF Placed, Listed
  <2>10. Free(new.parent, edit)
    BY <2>1, <2>4, <2>5, RowsAreFree
  <2> QED
    BY <1>1, <2>2, <2>6, <2>7, <2>8, <2>9, <2>10, EditStep DEF Fit
<1> QED
  BY <1>2, <1>3 DEF FindTarget, EditGoto

LEMMA LinkChainInv ==
  ASSUME NodeTreeInv, NEW r \in Request, LinkChain(r)
  PROVE  NodeTreeInv'
<1>1. tree' = tree /\ used' = used /\ knotted' = knotted /\ edit[r].pc = "link"
  BY DEF LinkChain
<1>2. CASE edit' = EditDone(r)
  BY <1>1, <1>2, EndInv
<1>3. CASE edit' = [edit EXCEPT ![r].order = Tail(@)] /\ Len(edit[r].order) # 2
  <2>1. PICK q, new : q = edit[r] /\ new = [q EXCEPT !.order = Tail(q.order)]
    OBVIOUS
  <2>2. edit' = [edit EXCEPT ![r] = new]
    BY <1>3, <2>1, RowsAreFree
  <2>3. Fit(q, tree, used) /\ DOMAIN q = EditFields /\ TreeRows(tree, used) /\ q.pc = "link"
    BY <1>1, <2>1, RowsAreFree
  <2>4. /\ DOMAIN new = EditFields /\ new.pc = "link" /\ new.pos = q.pos /\ new.node = q.node
        /\ new.next = q.next
        /\ new.todo = q.todo /\ new.parent = q.parent /\ new.at = q.at /\ new.order = Tail(q.order)
        /\ new.raced = q.raced /\ new.touched = q.touched
    BY <2>1, <2>3 DEF EditFields
  <2>5. ~Creates(new) /\ ~Moves(new)
    BY <2>4 DEF Creates, Moves
  <2>6. Pending(new) = {}
    BY <2>4 DEF Pending, Creates
  <2>7. q.order \in Seq(Node) /\ Len(q.order) >= 2 /\ Len(q.order) # 2
    BY <1>3, <2>1, <2>3 DEF Fit, EditShape
  <2>8. Tail(q.order) \in Seq(Node) /\ Len(Tail(q.order)) = Len(q.order) - 1
    BY <2>7
  <2>9. EditShape(new, tree, used)
    <3>1. /\ new.at \in Nat \cup {Nil} /\ new.pos \in Nat /\ new.next = 1
          /\ new.touched \in BOOLEAN /\ new.raced \in BOOLEAN
      BY <2>3, <2>4 DEF Fit, EditShape
    <3>2. new.order \in Seq(Node) /\ Len(new.order) >= 2
      <4>1. PICK s : s = q.order
        OBVIOUS
      <4>2. s \in Seq(Node) /\ Len(s) \in Nat /\ Len(s) >= 2 /\ Len(s) # 2
        BY <2>7, <4>1
      <4>3. Len(Tail(s)) = Len(s) - 1 /\ new.order = Tail(s)
        BY <2>4, <4>1, <4>2
      <4>4. PICK l, m : l = Len(s) /\ m = Len(Tail(s))
        OBVIOUS
      <4>5. l \in Nat /\ l >= 2 /\ l # 2 /\ m = l - 1
        BY <4>2, <4>3, <4>4
      <4>6. m >= 2
        BY <4>5
      <4> QED
        BY <2>4, <2>8, <4>3, <4>4, <4>6
    <3> QED
      BY <2>4, <2>5, <3>1, <3>2 DEF EditShape, EditPc
  <2>10. Clear(new, tree) /\ Placed(new, tree) /\ Listed(new, tree)
    BY <2>4, <2>5 DEF Clear, Placed, Listed
  <2> QED
    BY <1>1, <2>2, <2>5, <2>6, <2>9, <2>10, EditStep DEF Fit
<1> QED
  BY <1>2, <1>3 DEF LinkChain

(* At first there are no requests, and the table is straight. *)
LEMMA NodeTreeInit ==
  ASSUME TreeInit
  PROVE  NodeTreeInv
<1>1. /\ tree \in Planted /\ used = DOMAIN tree /\ knotted = FALSE
      /\ edit = [r \in Request |-> NoEdit]
  BY DEF TreeInit
<1>2. PICK T : T = tree
  OBVIOUS
<1>3. /\ DOMAIN T \subseteq Node /\ DOMAIN T = 0 .. Cardinality(DOMAIN T) - 1
      /\ T \in [DOMAIN T -> [parent : DOMAIN T \cup {Nil}, pos : Nat]]
      /\ Root \in DOMAIN T /\ \A n \in DOMAIN T : T[n].parent = Nil <=> n = Root
      /\ \A S \in SUBSET DOMAIN T : S # {} => \E n \in S : T[n].parent \notin S
  BY <1>1, <1>2, NTAssumption
<1>4. TreeRows(tree, used)
  <2>1. DOMAIN T \in SUBSET Node
    BY <1>3
  <2>2. Cardinality(DOMAIN T) \in Nat
    BY <2>1, NodesAre, FS_Subset, FS_CardinalityType
  <2>3. \A n \in DOMAIN T : T[n] \in [parent : DOMAIN T \cup {Nil}, pos : Nat]
    BY <1>3
  <2> QED
    BY <1>1, <1>2, <1>3, <2>2, <2>3 DEF TreeRows
<1>5. DOMAIN edit = Request /\ \A r \in Request : edit[r] = NoEdit
  BY <1>1
<1>6. \A r \in Request : Fit(edit[r], tree, used)
  BY <1>5, IdleFits
<1>7. Apart(edit, tree)
  BY <1>5, IdleFits DEF Apart, Free
<1>8. knotted \in BOOLEAN /\ Straight(tree)
  BY <1>1, <1>2, <1>3 DEF Straight
<1> QED
  BY <1>4, <1>5, <1>6, <1>7, <1>8 DEF NodeTreeInv

LEMMA ReadReorderedInv ==
  ASSUME NodeTreeInv, NEW r \in Request, ReadReordered(r)
  PROVE  NodeTreeInv'
<1>1. tree' = tree /\ used' = used /\ knotted' = knotted /\ edit[r].pc = "reorder"
  BY DEF ReadReordered
<1>2. CASE edit' = EditDone(r)
  BY <1>1, <1>2, EndInv
<1>3. CASE /\ edit[r].node \in DOMAIN tree
           /\ edit' = [edit EXCEPT ![r].pc = "list", ![r].row = tree[edit[r].node],
                                   ![r].parent = tree[edit[r].node].parent, ![r].touched = FALSE]
  <2>1. PICK q, row : q = edit[r] /\ row = tree[q.node]
    OBVIOUS
  <2>2. PICK new : new = [q EXCEPT !.pc = "list", !.row = row, !.parent = row.parent, !.touched = FALSE]
    OBVIOUS
  <2>3. edit' = [edit EXCEPT ![r] = new]
    BY <1>3, <2>1, <2>2, RowsAreFree
  <2>4. Fit(q, tree, used) /\ DOMAIN q = EditFields /\ q.pc = "reorder"
    BY <1>1, <2>1, RowsAreFree
  <2>5. /\ DOMAIN new = EditFields /\ new.pc = "list" /\ new.pos = q.pos /\ new.node = q.node
        /\ new.at = q.at /\ new.row = row /\ new.parent = row.parent /\ new.next = q.next
        /\ new.raced = q.raced /\ new.touched \in BOOLEAN
    BY <2>2, <2>4 DEF EditFields
  <2>6. ~Creates(new) /\ ~Moves(new)
    BY <2>5 DEF Creates, Moves
  <2>7. Pending(new) = {}
    BY <2>6 DEF Pending
  <2>8. EditShape(new, tree, used)
    <3>1. q.next = 1 /\ q.at \in Nat /\ q.node \in used /\ q.pos \in Nat /\ q.raced \in BOOLEAN
      BY <2>4 DEF Fit, EditShape
    <3> QED
      BY <2>5, <2>6, <3>1 DEF EditShape, EditPc
  <2>9. Clear(new, tree) /\ Placed(new, tree)
    BY <2>5, <2>6 DEF Clear, Placed
  <2>10. Listed(new, tree)
    BY <1>3, <2>1, <2>5 DEF Listed
  <2> QED
    BY <1>1, <2>3, <2>6, <2>7, <2>8, <2>9, <2>10, EditStep DEF Fit
<1> QED
  BY <1>2, <1>3 DEF ReadReordered

(* Where the element at j was before an element was put at k, and where it *)
(* is after                                                                *)
Back(j, k)  == IF j < k THEN j ELSE j - 1
Forth(i, k) == IF i < k THEN i ELSE i + 1

LEMMA BackIs ==
  ASSUME NEW C \in Nat, NEW k \in 1 .. C + 1
  PROVE  /\ \A j \in 1 .. C + 1 : j # k => Back(j, k) \in 1 .. C
         /\ \A i, j \in 1 .. C + 1 : i # k /\ j # k /\ i < j => Back(i, k) < Back(j, k)
         /\ \A i \in 1 .. C : Forth(i, k) \in 1 .. C + 1 /\ Forth(i, k) # k /\ Back(Forth(i, k), k) = i
  BY DEF Back, Forth

(* What splice(i, 0, n) makes of a listing of the others *)
SplicedInto(o, s, n, i, K, C) ==
  \E k \in 1 .. C + 1 :
    /\ k = Min({i, C}) + 1 /\ o \in Seq(K \cup {n}) /\ Len(o) = C + 1 /\ o[k] = n
    /\ \A j \in 1 .. C + 1 : j # k => o[j] = s[Back(j, k)]

LEMMA SplicedIs ==
  ASSUME NEW K, NEW n, NEW C \in Nat, NEW s \in [1 .. C -> K], NEW i \in Nat
  PROVE  SplicedInto(Spliced(s, n, i), s, n, i, K, C)
<1>1. s \in Seq(K) /\ Len(s) = C /\ DOMAIN s = 1 .. C
  OBVIOUS
<1>2. PICK m : m = Min({i, C})
  OBVIOUS
<1>3. m \in 0 .. C
  <2>1. i \in {i, C} /\ C \in {i, C} /\ (i <= C \/ C <= i)
    OBVIOUS
  <2>2. m \in {i, C} /\ \A y \in {i, C} : m <= y
    <3>1. \E x \in {i, C} : \A y \in {i, C} : x <= y
      BY <2>1
    <3> QED
      BY <1>2, <3>1 DEF Min
  <2> QED
    BY <2>2
<1>4. PICK a, b : a = SubSeq(s, 1, m) /\ b = SubSeq(s, m + 1, C)
  OBVIOUS
<1>5. a \in Seq(K) /\ Len(a) = m /\ \A j \in 1 .. m : a[j] = s[j]
  BY <1>1, <1>3, <1>4
<1>6. b \in Seq(K) /\ Len(b) = C - m /\ \A j \in 1 .. C - m : b[j] = s[m + j]
  BY <1>1, <1>3, <1>4
<1>7. PICK o : o = a \o <<n>> \o b
  OBVIOUS
<1>8. Spliced(s, n, i) = o
  <2>1. Spliced(s, n, i) = InsertAt(s, m + 1, n)
    BY <1>1, <1>2 DEF Spliced
  <2>2. (m + 1) - 1 = m
    BY <1>3
  <2> QED
    BY <1>1, <1>4, <1>7, <2>1, <2>2 DEF InsertAt
<1>9. PICK h, k : h = a \o <<n>> /\ k = m + 1
  OBVIOUS
<1>10. /\ h \in Seq(K \cup {n}) /\ Len(h) = k /\ h[k] = n /\ k \in 1 .. C + 1
       /\ \A j \in 1 .. C + 1 : j < k => h[j] = s[j]
  BY <1>3, <1>5, <1>9
<1>11. o = h \o b /\ o \in Seq(K \cup {n}) /\ Len(o) = C + 1
  BY <1>3, <1>6, <1>7, <1>9, <1>10
<1>12. \A j \in 1 .. C + 1 : j > k => o[j] = b[j - k]
  BY <1>3, <1>6, <1>10, <1>11
<1>13. \A j \in 1 .. C + 1 : j > k => b[j - k] = s[j - 1]
  <2> SUFFICES ASSUME NEW j \in 1 .. C + 1, j > k
               PROVE  b[j - k] = s[j - 1]
    OBVIOUS
  <2>1. PICK x : x = j - k
    OBVIOUS
  <2>2. x \in 1 .. C - m /\ m + x = j - 1
    BY <1>3, <1>9, <2>1
  <2> QED
    BY <1>6, <2>1, <2>2
<1>14. \A j \in 1 .. C + 1 : j <= k => o[j] = h[j]
  BY <1>3, <1>6, <1>10, <1>11
<1>15. o[k] = n
  BY <1>10, <1>14
<1>16. \A j \in 1 .. C + 1 : j # k => o[j] = s[Back(j, k)]
  <2> TAKE j \in 1 .. C + 1
  <2>1. CASE j < k
    BY <1>10, <1>14, <2>1 DEF Back
  <2>2. CASE j > k
    BY <1>10, <1>12, <1>13, <2>2 DEF Back
  <2> QED
    BY <1>10, <2>1, <2>2
<1>17. SplicedInto(o, s, n, i, K, C)
  BY <1>2, <1>9, <1>10, <1>11, <1>15, <1>16 DEF SplicedInto
<1> QED
  BY <1>8, <1>17

(* s lists O, a set of C rows, by position. *)
Lists(s, O, C) ==
  /\ C = Cardinality(O) /\ C \in Nat /\ s \in [1 .. C -> O]
  /\ \A c \in O : \E i \in 1 .. C : s[i] = c
  /\ \A i, j \in 1 .. C : i # j => s[i] # s[j]
  /\ \A i, j \in 1 .. C : i < j => tree[s[i]].pos <= tree[s[j]].pos

LEMMA ListingIs ==
  ASSUME NEW O, IsFiniteSet(O), NEW s \in Listings(O)
  PROVE  Lists(s, O, Cardinality(O))
<1>1. PICK C : C = Cardinality(O) /\ C \in Nat
  BY FS_CardinalityType
<1>2. s \in Bijection(1 .. C, O) /\ \A i, j \in DOMAIN s : i < j => tree[s[i]].pos <= tree[s[j]].pos
  BY <1>1 DEF Listings
<1>3. s \in [1 .. C -> O] /\ DOMAIN s = 1 .. C /\ \A c \in O : \E i \in 1 .. C : s[i] = c
  BY <1>2 DEF Bijection, Injection, Surjection
<1>4. \A i, j \in 1 .. C : i # j => s[i] # s[j]
  BY <1>2, <1>3 DEF Bijection, Injection, IsInjective
<1> QED
  BY <1>1, <1>2, <1>3, <1>4 DEF Lists

LEMMA ListSiblingsInv ==
  ASSUME NodeTreeInv, NEW r \in Request, ListSiblings(r)
  PROVE  NodeTreeInv'
<1>1. tree' = tree /\ used' = used /\ knotted' = knotted /\ edit[r].pc = "list"
  BY DEF ListSiblings
<1>2. PICK q, K : q = edit[r] /\ K = Kids(tree, q.parent) /\ K = Offspring(q.parent)
  BY DEF Kids, Offspring
<1>3. PICK s \in Listings(K \ {q.node}) :
        edit' = [edit EXCEPT ![r].pc = "write", ![r].order = Spliced(s, q.node, q.at),
                      ![r].seen = [c \in K \cup {q.node} |->
                                     IF c = q.node THEN q.row.pos ELSE tree[c].pos]]
  BY <1>2 DEF ListSiblings
<1>4. PICK o, seen : /\ o = Spliced(s, q.node, q.at)
                     /\ seen = [c \in K \cup {q.node} |-> IF c = q.node THEN q.row.pos ELSE tree[c].pos]
  OBVIOUS
<1>5. PICK new : new = [q EXCEPT !.pc = "write", !.order = o, !.seen = seen]
  OBVIOUS
<1>6. edit' = [edit EXCEPT ![r] = new]
  BY <1>2, <1>3, <1>4, <1>5, RowsAreFree
<1>7. Fit(q, tree, used) /\ DOMAIN q = EditFields /\ q.pc = "list" /\ TreeRows(tree, used)
  BY <1>1, <1>2, RowsAreFree
<1>8. /\ DOMAIN new = EditFields /\ new.pc = "write" /\ new.pos = q.pos /\ new.node = q.node
      /\ new.at = q.at /\ new.row = q.row /\ new.parent = q.parent /\ new.next = q.next
      /\ new.raced = q.raced /\ new.touched = q.touched /\ new.order = o /\ new.seen = seen
  BY <1>5, <1>7 DEF EditFields
<1>9. /\ q.next = 1 /\ q.at \in Nat /\ q.node \in used /\ q.pos \in Nat
      /\ q.raced \in BOOLEAN /\ q.touched \in BOOLEAN
  BY <1>7 DEF Fit, EditShape
<1>10. PICK O, C : O = K \ {q.node} /\ C = Cardinality(O)
  OBVIOUS
<1>11. IsFiniteSet(K) /\ IsFiniteSet(O)
  <2>1. IsFiniteSet(K)
    BY <1>2, <1>7, RowsFinite
  <2> QED
    BY <1>10, <2>1, FS_RemoveElement
<1>12. Lists(s, O, C)
  BY <1>3, <1>10, <1>11, ListingIs
<1>13. PICK k \in 1 .. C + 1 :
         /\ k = Min({q.at, C}) + 1
         /\ o \in Seq(O \cup {q.node}) /\ Len(o) = C + 1 /\ o[k] = q.node
         /\ \A j \in 1 .. C + 1 : j # k => o[j] = s[Back(j, k)]
  <2>1. C \in Nat /\ s \in [1 .. C -> O] /\ q.at \in Nat
    BY <1>9, <1>12 DEF Lists
  <2>2. SplicedInto(o, s, q.node, q.at, O, C)
    BY <1>4, <2>1, SplicedIs
  <2> QED
    BY <2>2 DEF SplicedInto
<1>14. o \in Seq(Node) /\ 1 \in 1 .. Len(o)
  <2>1. O \cup {q.node} \subseteq Node
    BY <1>2, <1>7, <1>9, <1>10 DEF TreeRows, Kids
  <2>2. o \in Seq(Node)
    BY <1>13, <2>1
  <2>3. 1 \in 1 .. Len(o)
    BY <1>12, <1>13 DEF Lists
  <2> QED
    BY <2>2, <2>3
<1>15. ~Creates(new) /\ ~Moves(new) /\ Pending(new) = {}
  BY <1>8 DEF Creates, Moves, Pending
<1>16. EditShape(new, tree, used)
  BY <1>8, <1>9, <1>14, <1>15 DEF EditShape, EditPc
<1>17. ASSUME ~new.touched PROVE Ordered(new, tree)
  <2>1. q.node \in K /\ tree[q.node] = q.row
    BY <1>2, <1>7, <1>8, <1>17 DEF Fit, Listed, Kids
  <2>2. Cardinality(K) = C + 1 /\ O \cup {q.node} = K
    <3>1. Cardinality(K) \in Nat
      BY <1>11, FS_CardinalityType
    <3>2. Cardinality(O) = Cardinality(K) - 1
      BY <1>10, <1>11, <2>1, FS_RemoveElement
    <3> QED
      BY <1>10, <2>1, <3>1, <3>2
  <2>3. o \in [1 .. C + 1 -> K]
    BY <1>12, <1>13, <2>2 DEF Lists
  <2>4. \A c \in K : seen[c] = tree[c].pos /\ seen[c] \in Nat
    BY <1>2, <1>4, <1>7, <2>1 DEF TreeRows, Kids
  <2>5. /\ \A j \in 1 .. C + 1 : j # k => Back(j, k) \in 1 .. C
        /\ \A i, j \in 1 .. C + 1 : i # k /\ j # k /\ i < j => Back(i, k) < Back(j, k)
        /\ \A i \in 1 .. C : Forth(i, k) \in 1 .. C + 1 /\ Forth(i, k) # k /\ Back(Forth(i, k), k) = i
    <3>1. C \in Nat /\ k \in 1 .. C + 1
      BY <1>12 DEF Lists
    <3> QED
      BY <3>1, BackIs, Zenon
  <2>6. \A c \in K : \E i \in 1 .. C + 1 : o[i] = c
    <3> TAKE c \in K
    <3>1. CASE c = q.node
      BY <1>13, <3>1
    <3>2. CASE c # q.node
      <4>1. PICK i \in 1 .. C : s[i] = c
        BY <1>10, <1>12, <3>2 DEF Lists
      <4>2. Forth(i, k) \in 1 .. C + 1 /\ o[Forth(i, k)] = s[Back(Forth(i, k), k)]
        BY <1>13, <2>5
      <4> QED
        BY <2>5, <4>1, <4>2
    <3> QED
      BY <3>1, <3>2
  <2>7. \A j \in 1 .. C + 1 : j # k => o[j] \in O /\ o[j] # q.node
    <3> SUFFICES ASSUME NEW j \in 1 .. C + 1, j # k PROVE o[j] \in O
      BY <1>10
    <3>1. PICK x : x = Back(j, k)
      OBVIOUS
    <3>2. x \in 1 .. C /\ o[j] = s[x]
      BY <1>13, <2>5, <3>1
    <3> QED
      BY <1>12, <3>2 DEF Lists
  <2>8. \A i, j \in 1 .. C + 1 : i < j /\ i # k /\ j # k =>
          o[i] # o[j] /\ tree[o[i]].pos <= tree[o[j]].pos
    <3> SUFFICES ASSUME NEW i \in 1 .. C + 1, NEW j \in 1 .. C + 1, i < j, i # k, j # k
                 PROVE  o[i] # o[j] /\ tree[o[i]].pos <= tree[o[j]].pos
      OBVIOUS
    <3>1. PICK x, y : x = Back(i, k) /\ y = Back(j, k)
      OBVIOUS
    <3>2. x \in 1 .. C /\ y \in 1 .. C /\ x < y /\ o[i] = s[x] /\ o[j] = s[y]
      BY <1>13, <2>5, <3>1
    <3>3. x # y /\ x \in Nat /\ y \in Nat
      BY <1>12, <3>2 DEF Lists
    <3> QED
      BY <1>12, <3>2, <3>3 DEF Lists
  <2>9. \A i, j \in 1 .. C + 1 : i < j /\ o[i] # q.node /\ o[j] # q.node => seen[o[i]] <= seen[o[j]]
    <3> SUFFICES ASSUME NEW i \in 1 .. C + 1, NEW j \in 1 .. C + 1, i < j, o[i] # q.node, o[j] # q.node
                 PROVE  seen[o[i]] <= seen[o[j]]
      OBVIOUS
    <3>1. i # k /\ j # k
      BY <1>13
    <3>2. tree[o[i]].pos <= tree[o[j]].pos
      BY <2>8, <3>1
    <3>3. o[i] \in K /\ o[j] \in K
      BY <2>3
    <3> QED
      BY <2>4, <3>2, <3>3
  <2>10. \A i, j \in 1 .. C + 1 : i # j => o[i] # o[j]
    <3> SUFFICES ASSUME NEW i \in 1 .. C + 1, NEW j \in 1 .. C + 1, i # j PROVE o[i] # o[j]
      OBVIOUS
    <3>1. CASE i = k \/ j = k
      BY <1>13, <2>7, <3>1
    <3>2. CASE i # k /\ j # k
      <4>1. C \in Nat
        BY <1>12 DEF Lists
      <4>2. i < j \/ j < i
        BY <4>1
      <4> QED
        BY <2>8, <3>2, <4>2
    <3> QED
      BY <3>1, <3>2
  <2>11. \A i \in 1 .. C + 1 : tree[o[i]].pos = seen[o[i]] /\ seen[o[i]] \in Nat
    BY <2>3, <2>4
  <2>12. PICK D : D = C + 1 /\ D \in Nat /\ D = Cardinality(K) /\ D - 1 = C
    BY <1>12, <2>2 DEF Lists
  <2>13. \A i \in 1 .. D : i >= 1 /\ ~(i < 1)
    BY <2>12
  <2>14. o[Min({q.at, D - 1}) + 1] = q.node
    BY <1>13, <2>12
  <2>15. PICK nx : nx = new.next /\ nx = 1
    BY <1>8, <1>9
  <2>16. \A i \in 1 .. D : /\ i < new.next => tree[o[i]].pos = i - 1
                           /\ i >= new.next => tree[o[i]].pos = seen[o[i]]
                           /\ seen[o[i]] \in Nat
    BY <2>11, <2>12, <2>13, <2>15
  <2>17. /\ K = Kids(tree, new.parent) /\ D = Cardinality(K) /\ o = new.order /\ q.node = new.node
         /\ seen = new.seen /\ q.at = new.at /\ Len(o) = D
    BY <1>2, <1>8, <1>13, <2>12
  <2>18. /\ q.node \in K /\ o \in [1 .. D -> K] /\ \A c \in K : \E i \in 1 .. D : o[i] = c
         /\ \A i, j \in 1 .. D : i # j => o[i] # o[j]
         /\ \A i, j \in 1 .. D : i < j /\ o[i] # q.node /\ o[j] # q.node => seen[o[i]] <= seen[o[j]]
    BY <2>1, <2>3, <2>6, <2>9, <2>10, <2>12
  <2> QED
    BY <2>14, <2>16, <2>17, <2>18 DEF Ordered
<1>18. Listed(new, tree)
  BY <1>8, <1>17 DEF Listed
<1>19. Clear(new, tree) /\ Placed(new, tree)
  BY <1>8, <1>15 DEF Clear, Placed
<1> QED
  BY <1>1, <1>6, <1>15, <1>16, <1>18, <1>19, EditStep DEF Fit

-----------------------------------------------------------------------------
LEMMA LearnsOn ==
  ASSUME NEW a, NEW b, NEW c, Learns(a, b), Learns(b, c)
  PROVE  Learns(a, c)
  BY DEF Learns

KnownEdits(e) == DOMAIN e = Request /\ \A q \in Request : Learns(e[q], e[q])

LEMMA DisturbIs ==
  ASSUME NEW e, KnownEdits(e), NEW r \in Request, NEW P, NEW e2, e2 = Disturb(e, r, P)
  PROVE  /\ DOMAIN e2 = Request /\ e2[r] = e[r]
         /\ \A q \in Request \ {r} : /\ Learns(e[q], e2[q]) /\ e2[q].raced = e[q].raced
                                     /\ e[q].parent \in P => e2[q].touched
<1>1. DOMAIN e2 = Request /\ e2[r] = e[r]
  BY DEF Disturb
<1>2. ASSUME NEW q \in Request \ {r}
      PROVE  /\ Learns(e[q], e2[q]) /\ e2[q].raced = e[q].raced
             /\ e[q].parent \in P => e2[q].touched
  <2>1. PICK a : a = e[q]
    OBVIOUS
  <2>2. Learns(a, a)
    BY <2>1 DEF KnownEdits
  <2>3. CASE a.parent \in P
    <3>1. e2[q] = [a EXCEPT !.touched = TRUE]
      BY <1>2, <2>1, <2>3 DEF Disturb
    <3>2. PICK b : b = [a EXCEPT !.touched = TRUE]
      OBVIOUS
    <3>3. DOMAIN a = EditFields
      BY <2>2 DEF Learns
    <3>4. /\ DOMAIN b = EditFields /\ b.pc = a.pc /\ b.node = a.node /\ b.todo = a.todo /\ b.parent = a.parent
          /\ b.at = a.at /\ b.pos = a.pos /\ b.row = a.row /\ b.order = a.order /\ b.next = a.next
          /\ b.seen = a.seen /\ b.raced = a.raced
      BY <3>2, <3>3 DEF EditFields
    <3>5. b.touched
      BY <3>2, <3>3 DEF EditFields
    <3>6. b.touched \in BOOLEAN
      BY <3>2, <3>3 DEF EditFields
    <3>7. Learns(a, b)
      BY <2>2, <3>4, <3>5, <3>6 DEF Learns
    <3> QED
      BY <2>1, <3>1, <3>2, <3>4, <3>5, <3>7
  <2>4. CASE a.parent \notin P
    BY <1>2, <2>1, <2>2, <2>4 DEF Disturb
  <2> QED
    BY <2>3, <2>4
<1> QED
  BY <1>1, <1>2

LEMMA OvertakenIs ==
  ASSUME NEW e, KnownEdits(e), NEW r \in Request, NEW e2, e2 = Overtaken(e, r)
  PROVE  /\ KnownEdits(e2) /\ e2[r] = e[r]
         /\ \A q \in Request \ {r} : Learns(e[q], e2[q]) /\ (Moves(e2[q]) => e2[q].raced)
<1>1. DOMAIN e2 = Request /\ e2[r] = e[r]
  BY DEF Overtaken
<1>2. ASSUME NEW q \in Request \ {r}
      PROVE  Learns(e[q], e2[q]) /\ (Moves(e2[q]) => e2[q].raced)
  <2>1. PICK a : a = e[q]
    OBVIOUS
  <2>2. Learns(a, a)
    BY <2>1 DEF KnownEdits
  <2>3. CASE a.pc \in {"target", "children", "move"}
    <3>1. e2[q] = [a EXCEPT !.raced = TRUE]
      BY <1>2, <2>1, <2>3 DEF Overtaken
    <3>2. PICK b : b = [a EXCEPT !.raced = TRUE]
      OBVIOUS
    <3>3. DOMAIN a = EditFields
      BY <2>2 DEF Learns
    <3>4. /\ DOMAIN b = EditFields /\ b.pc = a.pc /\ b.node = a.node /\ b.todo = a.todo /\ b.parent = a.parent
          /\ b.at = a.at /\ b.pos = a.pos /\ b.row = a.row /\ b.order = a.order /\ b.next = a.next
          /\ b.seen = a.seen /\ b.touched = a.touched
      BY <3>2, <3>3 DEF EditFields
    <3>5. b.raced
      BY <3>2, <3>3 DEF EditFields
    <3>6. b.raced \in BOOLEAN
      BY <3>2, <3>3 DEF EditFields
    <3>7. Learns(a, b)
      BY <2>2, <3>4, <3>5, <3>6 DEF Learns
    <3> QED
      BY <2>1, <3>1, <3>2, <3>5, <3>7
  <2>4. CASE a.pc \notin {"target", "children", "move"}
    <3>1. e2[q] = a
      BY <1>2, <2>1, <2>4 DEF Overtaken
    <3> QED
      BY <2>1, <2>2, <2>4, <3>1 DEF Moves
  <2> QED
    BY <2>3, <2>4
<1>3. \A q \in Request : Learns(e2[q], e2[q])
  <2> TAKE q \in Request
  <2>1. CASE q = r
    BY <1>1, <2>1 DEF KnownEdits
  <2>2. CASE q # r
    BY <1>2, <2>2 DEF Learns
  <2> QED
    BY <2>1, <2>2
<1> QED
  BY <1>1, <1>2, <1>3 DEF KnownEdits

(* A request writes rows: T2 is the table afterwards, P the parents whose  *)
(* children changed.                                                       *)
Wrote(r, e2, T2, K2, P) ==
  /\ DOMAIN e2 = Request
  /\ \A q \in Request \ {r} : /\ Learns(edit[q], e2[q]) /\ Clear(e2[q], T2)
                              /\ edit[q].parent \in P => e2[q].touched
                              /\ \A n \in Pending(edit[q]) : n \notin DOMAIN T2
  /\ \A p : p \notin P => SameKids(tree, T2, p)
  /\ TreeRows(T2, used) /\ \A m \in DOMAIN T2 : Free(T2[m].parent, edit)
  /\ Fit(e2[r], T2, used) /\ Pending(e2[r]) \subseteq Pending(edit[r])
  /\ Creates(e2[r]) \/ Moves(e2[r]) => Free(e2[r].parent, edit)
  /\ K2 \in BOOLEAN /\ (~K2 => Straight(T2))

LEMMA WroteInv ==
  ASSUME NodeTreeInv, NEW r \in Request, NEW e2, NEW T2, NEW K2, NEW P, Wrote(r, e2, T2, K2, P),
         edit' = e2, tree' = T2, used' = used, knotted' = K2
  PROVE  NodeTreeInv'
<1>1. Apart(e2, T2)
  <2>1. Apart(edit, tree)
    BY DEF NodeTreeInv
  <2>2. Keeps(r, edit, e2, T2)
    <3>1. \A q \in Request \ {r} : Learns(edit[q], e2[q])
      BY DEF Wrote
    <3>2. /\ Pending(e2[r]) \subseteq Pending(edit[r])
          /\ Creates(e2[r]) \/ Moves(e2[r]) => Free(e2[r].parent, edit)
          /\ \A m \in DOMAIN T2 : Free(T2[m].parent, edit)
      BY DEF Wrote
    <3> QED
      BY <3>1, <3>2 DEF Keeps
  <2> QED
    BY <2>1, <2>2, ApartStep
<1>2. Onward(r, e2, T2, used, K2, P)
  BY <1>1 DEF Onward, Wrote
<1> QED
  BY <1>2, OnwardInv

(* What r leaves the requests when it goes on with new and disturbs P *)
Turned(e, r, new) == DOMAIN e = Request /\ e[r] = new /\ \A q \in Request \ {r} : e[q] = edit[q]

LEMMA DisturbEdit ==
  ASSUME NodeTreeInv, NEW r \in Request, NEW new, DOMAIN new = EditFields,
         new.touched \in BOOLEAN, new.raced \in BOOLEAN, NEW P, NEW e, Turned(e, r, new),
         NEW e2, e2 = Disturb(e, r, P)
  PROVE  /\ DOMAIN e2 = Request /\ e2[r] = new
         /\ \A q \in Request \ {r} : /\ Learns(edit[q], e2[q]) /\ e2[q].raced = edit[q].raced
                                     /\ edit[q].parent \in P => e2[q].touched
<1>2. DOMAIN e = Request /\ e[r] = new /\ \A q \in Request \ {r} : e[q] = edit[q]
  BY DEF Turned
<1>3. Learns(new, new)
  BY DEF Learns
<1>4. KnownEdits(e)
  <2>1. \A q \in Request : Learns(e[q], e[q])
    BY <1>2, <1>3, LearnsSame
  <2> QED
    BY <1>2, <2>1 DEF KnownEdits
<1>6. /\ DOMAIN e2 = Request /\ e2[r] = e[r]
      /\ \A q \in Request \ {r} : /\ Learns(e[q], e2[q]) /\ e2[q].raced = e[q].raced
                                  /\ e[q].parent \in P => e2[q].touched
  BY <1>4, DisturbIs
<1> QED
  BY <1>2, <1>6

(* A set that was closed under parent_id still is: no new loop is to be    *)
(* expected.                                                               *)
LEMMA StillClear ==
  ASSUME NEW a, NEW b, NEW T, NEW T2, Learns(a, b), Clear(a, T),
         \A V \in SUBSET Node : UpFrom(T, V) => UpFrom(T2, V)
  PROVE  Clear(b, T2)
<1>1. Moves(b) /\ ~b.raced => Moves(a) /\ ~a.raced
  BY DEF Learns, Moves
<1>2. b.parent = a.parent /\ b.node = a.node
  BY DEF Learns
<1> QED
  BY <1>1, <1>2 DEF Clear

LEMMA IdleStays ==
  ASSUME NEW q, NEW T, NEW U, NEW T2, NEW U2, Fit(q, T, U), q.pc = "idle"
  PROVE  Fit(q, T2, U2) /\ Pending(q) = {} /\ ~Creates(q) /\ ~Moves(q)
<1>1. ~Creates(q) /\ ~Moves(q) /\ Pending(q) = {}
  BY DEF Creates, Moves, Pending
<1>2. EditShape(q, T2, U2)
  BY <1>1 DEF Fit, EditShape
<1>3. Clear(q, T2) /\ Placed(q, T2) /\ Listed(q, T2)
  BY <1>1 DEF Clear, Placed, Listed
<1> QED
  BY <1>1, <1>2, <1>3 DEF Fit

(* What a step by an idle request that writes rows leaves *)
LEMMA IdleWrites ==
  ASSUME NodeTreeInv, NEW r \in Request, edit[r].pc = "idle", NEW T2, NEW P,
         \A p : p \notin P => SameKids(tree, T2, p),
         TreeRows(T2, used), DOMAIN T2 \subseteq DOMAIN tree,
         \A m \in DOMAIN T2 : T2[m].parent = tree[m].parent,
         tree' = T2, edit' = Disturb(edit, r, P), used' = used, knotted' = knotted
  PROVE  NodeTreeInv'
<1>1. PICK e2 : e2 = Disturb(edit, r, P)
  OBVIOUS
<1>2. KnownEdits(edit)
  BY LearnsSame DEF KnownEdits, NodeTreeInv
<1>3. /\ DOMAIN e2 = Request /\ e2[r] = edit[r]
      /\ \A q \in Request \ {r} : Learns(edit[q], e2[q]) /\ (edit[q].parent \in P => e2[q].touched)
  BY <1>1, <1>2, DisturbIs
<1>4. \A q \in Request : Fit(edit[q], tree, used)
  BY DEF NodeTreeInv
<1>5. \A V \in SUBSET Node : UpFrom(tree, V) => UpFrom(T2, V)
  BY DEF UpFrom
<1>6. \A q \in Request \ {r} : Clear(e2[q], T2)
  <2> TAKE q \in Request \ {r}
  <2>1. Clear(edit[q], tree) /\ Learns(edit[q], e2[q])
    BY <1>3, <1>4 DEF Fit
  <2> QED
    BY <1>5, <2>1, StillClear
<1>7. \A q \in Request : \A n \in Pending(edit[q]) : n \notin DOMAIN T2
  BY <1>4 DEF Fit, EditShape, Pending, Range
<1>8. \A m \in DOMAIN T2 : Free(T2[m].parent, edit)
  BY DEF NodeTreeInv, Apart
<1>9. Fit(e2[r], T2, used) /\ Pending(e2[r]) = {} /\ ~Creates(e2[r]) /\ ~Moves(e2[r])
  BY <1>3, <1>4, IdleStays
<1>10. knotted \in BOOLEAN /\ (~knotted => Straight(T2))
  <2>1. Straight(tree) => Straight(T2)
    BY DEF Straight
  <2> QED
    BY <2>1 DEF NodeTreeInv
<1>11. Wrote(r, e2, T2, knotted, P)
  <2>1. \A q \in Request \ {r} : /\ Learns(edit[q], e2[q]) /\ Clear(e2[q], T2)
                                 /\ edit[q].parent \in P => e2[q].touched
                                 /\ \A n \in Pending(edit[q]) : n \notin DOMAIN T2
    BY <1>3, <1>6, <1>7
  <2> QED
    BY <1>3, <1>8, <1>9, <1>10, <2>1 DEF Wrote
<1> QED
  BY <1>1, <1>11, WroteInv

LEMMA SetPositionInv ==
  ASSUME NodeTreeInv, NEW r \in Request, SetPosition(r)
  PROVE  NodeTreeInv'
<1>1. PICK n \in DOMAIN tree, i \in Index :
        /\ tree' = [tree EXCEPT ![n].pos = i]
        /\ edit' = Disturb(edit, r, {tree[n].parent})
        /\ used' = used /\ knotted' = knotted /\ edit[r].pc = "idle"
  BY DEF SetPosition
<1>2. PICK T2 : T2 = [tree EXCEPT ![n].pos = i]
  OBVIOUS
<1>3. TreeRows(tree, used) /\ i \in Nat
  BY NTAssumption DEF NodeTreeInv
<1>4. tree[n] \in [parent : used \cup {Nil}, pos : Nat]
  BY <1>3 DEF TreeRows
<1>5. /\ DOMAIN T2 = DOMAIN tree /\ \A m \in DOMAIN tree \ {n} : T2[m] = tree[m]
      /\ T2[n] \in [parent : used \cup {Nil}, pos : Nat] /\ T2[n].parent = tree[n].parent
  BY <1>2, <1>3, <1>4
<1>6. \A m \in DOMAIN T2 : T2[m].parent = tree[m].parent
  BY <1>5
<1>7. TreeRows(T2, used)
  BY <1>3, <1>5, <1>6 DEF TreeRows
<1>8. PICK P : P = {tree[n].parent}
  OBVIOUS
<1>9. \A p : p \notin P => SameKids(tree, T2, p)
  BY <1>5, <1>6, <1>8 DEF SameKids, Kids
<1> QED
  BY <1>1, <1>2, <1>5, <1>6, <1>7, <1>8, <1>9, IdleWrites

LEMMA RemoveNodeInv ==
  ASSUME NodeTreeInv, NEW r \in Request, RemoveNode(r)
  PROVE  NodeTreeInv'
<1>1. PICK n \in DOMAIN tree \ {Root} :
        /\ tree' = Without(tree, {n})
        /\ edit' = Disturb(edit, r, {tree[n].parent})
        /\ used' = used /\ knotted' = knotted /\ edit[r].pc = "idle"
  BY DEF RemoveNode
<1>2. PICK T2 : T2 = Without(tree, {n})
  OBVIOUS
<1>3. TreeRows(tree, used)
  BY DEF NodeTreeInv
<1>4. DOMAIN T2 = DOMAIN tree \ {n} /\ \A m \in DOMAIN T2 : T2[m] = tree[m]
  BY <1>2 DEF Without
<1>5. TreeRows(T2, used)
  BY <1>3, <1>4 DEF TreeRows
<1>6. PICK P : P = {tree[n].parent}
  OBVIOUS
<1>7. \A p : p \notin P => SameKids(tree, T2, p)
  BY <1>4, <1>6 DEF SameKids, Kids
<1> QED
  BY <1>1, <1>2, <1>4, <1>5, <1>6, <1>7, IdleWrites

LEMMA WriteMoveInv ==
  ASSUME NodeTreeInv, NEW r \in Request, WriteMove(r)
  PROVE  NodeTreeInv'
<1>1. PICK q, n : q = edit[r] /\ n = q.node
  OBVIOUS
<1>2. q.pc = "move" /\ used' = used /\ knotted' = (knotted \/ q.raced)
  BY <1>1 DEF WriteMove
<1>3. /\ Fit(q, tree, used) /\ DOMAIN q = EditFields /\ TreeRows(tree, used) /\ DOMAIN edit = Request
      /\ \A x \in Request : Fit(edit[x], tree, used)
  BY <1>1, RowsAreFree
<1>4. Moves(q) /\ ~Creates(q) /\ Pending(q) = {}
  BY <1>2 DEF Moves, Creates, Pending
<1>5. /\ q.node \in used \ {Root} /\ q.parent \in used /\ q.at \in Nat \cup {Nil} /\ q.pos \in Nat
      /\ q.touched \in BOOLEAN /\ q.raced \in BOOLEAN /\ q.next = 1
  BY <1>2, <1>3, <1>4 DEF Fit, EditShape
<1>6. PICK K2 : K2 = (knotted \/ q.raced)
  OBVIOUS
<1>7. K2 \in BOOLEAN /\ (~K2 => ~knotted /\ ~q.raced /\ Straight(tree))
  BY <1>5, <1>6 DEF NodeTreeInv
<1>8. CASE tree' = tree /\ edit' = EditDone(r)
  <2>1. PICK new, e2 : new = NoEdit /\ e2 = [edit EXCEPT ![r] = new]
    OBVIOUS
  <2>2. Fit(new, tree, used) /\ Pending(new) = {} /\ ~Creates(new) /\ ~Moves(new)
    BY <2>1, IdleFits
  <2>3. e2[r] = new /\ DOMAIN e2 = Request /\ \A x \in Request \ {r} : e2[x] = edit[x]
    BY <1>3, <2>1
  <2>4. \A x \in Request \ {r} : /\ Learns(edit[x], e2[x]) /\ Clear(e2[x], tree)
                                 /\ edit[x].parent \in {} => e2[x].touched
                                 /\ \A c \in Pending(edit[x]) : c \notin DOMAIN tree
    <3>1. \A x \in Request \ {r} : \A c \in Pending(edit[x]) : c \notin DOMAIN tree
      BY <1>3 DEF Fit, EditShape, Pending, Range
    <3>2. \A x \in Request \ {r} : Learns(edit[x], e2[x]) /\ Clear(e2[x], tree)
      BY <1>3, <2>3, LearnsSame DEF Fit
    <3> QED
      BY <3>1, <3>2
  <2>5. \A p : SameKids(tree, tree, p)
    BY DEF SameKids
  <2>6. \A m \in DOMAIN tree : Free(tree[m].parent, edit)
    BY DEF NodeTreeInv, Apart
  <2>7. Wrote(r, e2, tree, K2, {})
    BY <1>3, <1>7, <2>2, <2>3, <2>4, <2>5, <2>6 DEF Wrote
  <2>8. edit' = e2
    BY <1>8, <2>1 DEF EditDone
  <2> QED
    BY <1>2, <1>6, <1>8, <2>7, <2>8, WroteInv
<1>9. CASE /\ tree' = IF n \in DOMAIN tree
                      THEN [tree EXCEPT ![n] = [parent |-> q.parent, pos |-> q.pos]] ELSE tree
           /\ edit' = Disturb(Overtaken(IF q.at = Nil THEN EditDone(r) ELSE EditGoto(r, "reorder"), r),
                              r, {q.parent} \cup IF n \in DOMAIN tree THEN {tree[n].parent} ELSE {})
  <2>1. PICK T2, P : /\ T2 = IF n \in DOMAIN tree
                             THEN [tree EXCEPT ![n] = [parent |-> q.parent, pos |-> q.pos]] ELSE tree
                     /\ P = {q.parent} \cup IF n \in DOMAIN tree THEN {tree[n].parent} ELSE {}
    OBVIOUS
  <2>2. PICK new : new = IF q.at = Nil THEN NoEdit ELSE [q EXCEPT !.pc = "reorder"]
    OBVIOUS
  <2>3. PICK e : e = [edit EXCEPT ![r] = new]
    OBVIOUS
  <2>4. e = IF q.at = Nil THEN EditDone(r) ELSE EditGoto(r, "reorder")
    BY <1>1, <1>3, <2>2, <2>3 DEF EditDone, EditGoto
  <2>5. /\ DOMAIN new = EditFields /\ new.touched \in BOOLEAN /\ new.raced \in BOOLEAN
        /\ Fit(new, T2, used) /\ Pending(new) = {} /\ ~Creates(new) /\ ~Moves(new)
    <3>1. CASE q.at = Nil
      BY <2>2, <3>1, IdleFits, NoEditIs
    <3>2. CASE q.at # Nil
      <4>1. /\ DOMAIN new = EditFields /\ new.pc = "reorder" /\ new.pos = q.pos /\ new.node = q.node
            /\ new.at = q.at /\ new.next = q.next /\ new.raced = q.raced /\ new.touched = q.touched
        BY <1>3, <2>2, <3>2 DEF EditFields
      <4>2. ~Creates(new) /\ ~Moves(new)
        BY <4>1 DEF Creates, Moves
      <4>3. Pending(new) = {}
        BY <4>2 DEF Pending
      <4>4. EditShape(new, T2, used)
        BY <1>5, <3>2, <4>1, <4>2 DEF EditShape, EditPc
      <4>5. Clear(new, T2) /\ Placed(new, T2) /\ Listed(new, T2)
        BY <4>1, <4>2 DEF Clear, Placed, Listed
      <4> QED
        BY <1>5, <4>1, <4>2, <4>3, <4>4, <4>5 DEF Fit
    <3> QED
      BY <3>1, <3>2
  <2>6. e[r] = new /\ DOMAIN e = Request /\ \A x \in Request \ {r} : e[x] = edit[x]
    BY <1>3, <2>3
  <2>7. KnownEdits(e)
    <3>1. Learns(new, new)
      BY <2>5 DEF Learns
    <3> QED
      BY <2>6, <3>1, LearnsSame DEF KnownEdits
  <2>8. PICK e1 : e1 = Overtaken(e, r)
    OBVIOUS
  <2>9. PICK e2 : e2 = Disturb(e1, r, P)
    OBVIOUS
  <2>10. /\ KnownEdits(e1) /\ e1[r] = e[r]
         /\ \A x \in Request \ {r} : Learns(e[x], e1[x]) /\ (Moves(e1[x]) => e1[x].raced)
    BY <2>7, <2>8, OvertakenIs
  <2>11. /\ DOMAIN e2 = Request /\ e2[r] = e1[r]
         /\ \A x \in Request \ {r} : Learns(e1[x], e2[x]) /\ (e1[x].parent \in P => e2[x].touched)
    BY <2>9, <2>10, DisturbIs
  <2>12. ASSUME NEW x \in Request \ {r}
         PROVE  Learns(edit[x], e2[x]) /\ Clear(e2[x], T2) /\ (edit[x].parent \in P => e2[x].touched)
    <3>1. Learns(edit[x], e1[x]) /\ Learns(e1[x], e2[x])
      BY <2>6, <2>10, <2>11
    <3>2. Learns(edit[x], e2[x]) /\ e1[x].parent = edit[x].parent
      BY <3>1, LearnsOn DEF Learns
    <3>3. Moves(e2[x]) => e2[x].raced
      BY <2>10, <3>1 DEF Learns, Moves
    <3>4. Clear(e2[x], T2)
      BY <3>3 DEF Clear
    <3> QED
      BY <2>11, <3>2, <3>4
  <2>13. DOMAIN T2 = DOMAIN tree /\ \A m \in DOMAIN tree \ {n} : T2[m] = tree[m]
    BY <2>1
  <2>14. n \in DOMAIN tree => T2[n].parent = q.parent /\ T2[n] \in [parent : used \cup {Nil}, pos : Nat]
    BY <1>5, <2>1
  <2>15. TreeRows(T2, used)
    <3>1. n # Root /\ (n \in DOMAIN tree => T2[n].parent # Nil)
      BY <1>1, <1>3, <1>5, <2>14, NodesAre DEF TreeRows
    <3>2. \A m \in DOMAIN T2 : /\ T2[m] \in [parent : used \cup {Nil}, pos : Nat]
                               /\ T2[m].parent = Nil <=> m = Root
      BY <1>3, <2>13, <2>14, <3>1 DEF TreeRows
    <3> QED
      BY <1>3, <2>13, <3>2 DEF TreeRows
  <2>16. \A p : p \notin P => SameKids(tree, T2, p)
    <3> SUFFICES ASSUME NEW p, p \notin P PROVE SameKids(tree, T2, p)
      OBVIOUS
    <3>1. p # q.parent /\ (n \in DOMAIN tree => tree[n].parent # p)
      BY <2>1
    <3>2. n \notin Kids(tree, p) /\ n \notin Kids(T2, p)
      BY <2>13, <2>14, <3>1 DEF Kids
    <3> QED
      BY <2>13, <3>2 DEF SameKids, Kids
  <2>17. \A m \in DOMAIN T2 : Free(T2[m].parent, edit)
    <3>1. Free(q.parent, edit)
      BY <1>1, <1>4, RowsAreFree
    <3>2. \A m \in DOMAIN tree : Free(tree[m].parent, edit)
      BY DEF NodeTreeInv, Apart
    <3> QED
      BY <2>13, <2>14, <3>1, <3>2
  <2>18. \A x \in Request : \A c \in Pending(edit[x]) : c \notin DOMAIN T2
    BY <1>3, <2>13 DEF Fit, EditShape, Pending, Range
  <2>19. ASSUME ~K2 PROVE Straight(T2)
    <3>1. ~q.raced /\ Straight(tree)
      BY <1>7, <2>19
    <3>2. PICK V \in SUBSET Node : q.parent \in V /\ n \notin V /\ UpFrom(tree, V)
      BY <1>1, <1>3, <1>4, <3>1 DEF Fit, Clear
    <3> SUFFICES ASSUME NEW S \in SUBSET DOMAIN T2, S # {}, \A m \in S : T2[m].parent \in S
                 PROVE  FALSE
      BY DEF Straight
    <3>3. CASE n \notin S
      BY <2>13, <3>1, <3>3 DEF Straight
    <3>4. CASE n \in S
      <4>1. q.parent \in S \cap V
        BY <2>13, <2>14, <3>2, <3>4
      <4>2. \A m \in S \cap V : tree[m].parent \in S \cap V
        <5> TAKE m \in S \cap V
        <5>1. m # n /\ m \in DOMAIN tree
          BY <2>13, <3>2
        <5>2. tree[m].parent \in S
          BY <2>13, <5>1
        <5>3. tree[m].parent # Nil
          BY <1>3, <2>13, <5>2, NodesAre DEF TreeRows
        <5>4. tree[m].parent \in V
          BY <3>2, <5>1, <5>3 DEF UpFrom
        <5> QED
          BY <5>2, <5>4
      <4>3. S \cap V \in SUBSET DOMAIN tree
        BY <2>13
      <4> QED
        BY <3>1, <4>1, <4>2, <4>3 DEF Straight
    <3> QED
      BY <3>3, <3>4
  <2>20. Wrote(r, e2, T2, K2, P)
    <3>1. \A x \in Request \ {r} : /\ Learns(edit[x], e2[x]) /\ Clear(e2[x], T2)
                                   /\ edit[x].parent \in P => e2[x].touched
                                   /\ \A c \in Pending(edit[x]) : c \notin DOMAIN T2
      BY <2>12, <2>18
    <3>2. e2[r] = new /\ DOMAIN e2 = Request
      BY <2>6, <2>10, <2>11
    <3> QED
      BY <1>7, <2>5, <2>15, <2>16, <2>17, <2>19, <3>1, <3>2 DEF Wrote
  <2>21. edit' = e2 /\ tree' = T2
    BY <1>9, <2>1, <2>4, <2>8, <2>9
  <2> QED
    BY <1>2, <1>6, <2>20, <2>21, WroteInv
<1> QED
  BY <1>1, <1>8, <1>9 DEF WriteMove

LEMMA TailIs ==
  ASSUME NEW s \in Seq(Node), s # <<>>
  PROVE  /\ Head(s) = s[1] /\ 1 \in DOMAIN s /\ Tail(s) \in Seq(Node) /\ DOMAIN s = 1 .. Len(s)
         /\ Len(s) \in Nat /\ DOMAIN Tail(s) = 1 .. Len(s) - 1
         /\ \A i \in DOMAIN Tail(s) : i + 1 \in DOMAIN s /\ i + 1 # 1 /\ Tail(s)[i] = s[i + 1]
         /\ Len(s) > 1 => Tail(s) # <<>>
<1>1. PICK l \in Nat : l = Len(s) /\ l >= 1
  OBVIOUS
<1>2. Tail(s) \in Seq(Node) /\ Len(Tail(s)) = l - 1 /\ Head(s) = s[1] /\ DOMAIN s = 1 .. l
  BY <1>1
<1>3. DOMAIN Tail(s) = 1 .. l - 1 /\ \A i \in 1 .. l - 1 : Tail(s)[i] = s[i + 1]
  BY <1>1, <1>2
<1>4. \A i \in 1 .. l - 1 : i + 1 \in 1 .. l /\ i + 1 # 1
  BY <1>1
<1>5. l > 1 => Tail(s) # <<>>
  <2>1. l > 1 => l - 1 # 0
    BY <1>1
  <2>2. Len(<<>>) = 0
    OBVIOUS
  <2> QED
    BY <1>2, <2>1, <2>2
<1> QED
  BY <1>1, <1>2, <1>3, <1>4, <1>5

(* The row that InsertNode adds *)
Inserted(n, q, T, T2) ==
  /\ n \notin DOMAIN T /\ DOMAIN T2 = DOMAIN T \cup {n} /\ \A m \in DOMAIN T : T2[m] = T[m]
  /\ T2[n] = [parent |-> q.parent, pos |-> q.pos]

LEMMA InsertedRows ==
  ASSUME NEW n, NEW q, NEW T, NEW T2, NEW U, Inserted(n, q, T, T2), TreeRows(T, U), n \in U,
         q.parent \in U, q.pos \in Nat
  PROVE  /\ TreeRows(T2, U)
         /\ \A p : p \notin {q.parent} => SameKids(T, T2, p)
         /\ Kids(T2, q.parent) = Kids(T, q.parent) \cup {n}
<1>1. T2[n].parent = q.parent /\ T2[n].pos = q.pos /\ T2[n] \in [parent : U \cup {Nil}, pos : Nat]
  BY DEF Inserted
<1>2. n # Root /\ q.parent # Nil
  BY NodesAre DEF Inserted, TreeRows
<1>3. \A m \in DOMAIN T2 : T2[m] \in [parent : U \cup {Nil}, pos : Nat] /\ (T2[m].parent = Nil <=> m = Root)
  BY <1>1, <1>2 DEF Inserted, TreeRows
<1>4. TreeRows(T2, U)
  BY <1>3 DEF Inserted, TreeRows
<1>5. \A p : p \notin {q.parent} => SameKids(T, T2, p)
  BY <1>1 DEF Inserted, SameKids, Kids
<1>6. Kids(T2, q.parent) = Kids(T, q.parent) \cup {n}
  BY <1>1 DEF Inserted, Kids
<1> QED
  BY <1>4, <1>5, <1>6

LEMMA InsertedStraight ==
  ASSUME NEW n, NEW q, NEW T, NEW T2, Inserted(n, q, T, T2), q.parent # n,
         \A m \in DOMAIN T : T[m].parent # n, Straight(T)
  PROVE  Straight(T2)
<1> SUFFICES ASSUME NEW S \in SUBSET DOMAIN T2, S # {}, \A m \in S : T2[m].parent \in S
             PROVE  FALSE
  BY DEF Straight
<1>1. T2[n].parent = q.parent
  BY DEF Inserted
<1>2. \A m \in S \ {n} : m \in DOMAIN T /\ T[m].parent \in S \ {n}
  BY DEF Inserted
<1>3. S \ {n} = {}
  BY <1>2 DEF Straight
<1>4. n \in S /\ q.parent \in S
  BY <1>1, <1>3
<1> QED
  BY <1>3, <1>4

LEMMA InsertedClear ==
  ASSUME NEW n, NEW q, NEW T, NEW T2, Inserted(n, q, T, T2), NEW a, NEW b, Learns(a, b), Clear(a, T),
         Moves(a) => a.parent # n,
         \A m \in DOMAIN T : T[m].parent # n
  PROVE  Clear(b, T2)
<1> SUFFICES ASSUME Moves(b), ~b.raced
             PROVE  \E V \in SUBSET Node : b.parent \in V /\ b.node \notin V /\ UpFrom(T2, V)
  BY DEF Clear
<1>1. Moves(a) /\ ~a.raced /\ b.parent = a.parent /\ b.node = a.node
  BY DEF Learns, Moves
<1>2. PICK V \in SUBSET Node : a.parent \in V /\ a.node \notin V /\ UpFrom(T, V)
  BY <1>1 DEF Clear
<1>3. PICK W : W = V \ {n}
  OBVIOUS
<1>4. W \in SUBSET Node /\ b.parent \in W /\ b.node \notin W
  BY <1>1, <1>2, <1>3
<1>5. UpFrom(T2, W)
  BY <1>2, <1>3 DEF UpFrom, Inserted
<1> QED
  BY <1>4, <1>5

(* What the request goes on with after its insert *)
GoesOn(q, n) ==
  IF Len(q.todo) > 1
  THEN [q EXCEPT !.todo = Tail(@), !.pos = @ + 1, !.order = Append(@, n)]
  ELSE IF q.order # <<>> THEN [q EXCEPT !.order = Append(@, n), !.pc = "link"] ELSE NoEdit

LEMMA InserterFits ==
  ASSUME NEW q, NEW T, NEW T2, NEW U, NEW n, Fit(q, T, U), q.pc = "insert", n = Head(q.todo),
         Inserted(n, q, T, T2), TreeRows(T, U),
         NEW new,
         new = GoesOn(q, n)
  PROVE  /\ Fit(new, T2, U) /\ Pending(new) \subseteq Pending(q)
         /\ DOMAIN new = EditFields /\ new.touched \in BOOLEAN /\ new.raced \in BOOLEAN /\ ~Moves(new)
         /\ Creates(new) => new.parent = q.parent
<1>1. Creates(q) /\ ~Moves(q)
  BY DEF Creates, Moves
<1>2. /\ q.todo \in Seq(Node) /\ q.todo # <<>> /\ q.order \in Seq(Node)
      /\ \A i \in DOMAIN q.todo : q.todo[i] \in U \ DOMAIN T
      /\ \A i, j \in DOMAIN q.todo : i # j => q.todo[i] # q.todo[j]
      /\ q.parent \in U
  BY <1>1 DEF Fit, EditShape
<1>3. /\ DOMAIN q = EditFields /\ q.at \in Nat \cup {Nil} /\ q.pos \in Nat
      /\ q.touched \in BOOLEAN /\ q.raced \in BOOLEAN /\ q.next = 1
  BY DEF Fit, EditShape
<1>4. PICK s, o : s = q.todo /\ o = q.order
  OBVIOUS
<1>5. /\ s \in Seq(Node) /\ s # <<>> /\ o \in Seq(Node)
      /\ \A i \in DOMAIN s : s[i] \in U \ DOMAIN T
      /\ \A i, j \in DOMAIN s : i # j => s[i] # s[j]
      /\ n = Head(s)
  BY <1>2, <1>4
<1>6. /\ n = s[1] /\ 1 \in DOMAIN s /\ Tail(s) \in Seq(Node) /\ n \in Node /\ n \in U
      /\ \A i \in DOMAIN Tail(s) : i + 1 \in DOMAIN s /\ i + 1 # 1 /\ Tail(s)[i] = s[i + 1]
      /\ Len(s) > 1 => Tail(s) # <<>>
  BY <1>5, TailIs
<1>7. Append(o, n) \in Seq(Node) /\ Len(Append(o, n)) = Len(o) + 1
  BY <1>5, <1>6
<1>8. CASE Len(s) > 1
  <2>1. PICK t : t = Tail(s)
    OBVIOUS
  <2>2. new = [q EXCEPT !.todo = t, !.pos = q.pos + 1, !.order = Append(o, n)]
    BY <1>4, <1>8, <2>1 DEF GoesOn
  <2>3. /\ DOMAIN new = EditFields /\ new.pc = "insert" /\ new.pos = q.pos + 1 /\ new.todo = t
        /\ new.parent = q.parent /\ new.at = q.at /\ new.next = q.next /\ new.order = Append(o, n)
        /\ new.raced = q.raced /\ new.touched = q.touched
    BY <1>3, <2>2 DEF EditFields
  <2>4. Creates(new) /\ ~Moves(new)
    BY <2>3 DEF Creates, Moves
  <2>5. /\ t \in Seq(Node) /\ t # <<>>
        /\ \A i \in DOMAIN t : i + 1 \in DOMAIN s /\ i + 1 # 1 /\ t[i] = s[i + 1] /\ i \in Nat
    <3>1. DOMAIN t = 1 .. Len(t) /\ Len(t) \in Nat
      BY <1>6, <2>1
    <3>2. \A i \in DOMAIN t : i \in Nat
      BY <3>1
    <3> QED
      BY <1>6, <1>8, <2>1, <3>2
  <2>6. \A i \in DOMAIN t : t[i] \in U \ DOMAIN T2
    <3> TAKE i \in DOMAIN t
    <3>1. PICK j : j = i + 1
      OBVIOUS
    <3>2. j \in DOMAIN s /\ j # 1 /\ t[i] = s[j]
      BY <2>5, <3>1
    <3>3. s[j] \in U \ DOMAIN T /\ s[j] # n
      BY <1>5, <1>6, <3>2
    <3> QED
      BY <3>2, <3>3 DEF Inserted
  <2>7. \A i, j \in DOMAIN t : i # j => t[i] # t[j]
    <3> SUFFICES ASSUME NEW i \in DOMAIN t, NEW j \in DOMAIN t, i # j PROVE t[i] # t[j]
      OBVIOUS
    <3>1. PICK x, y : x = i + 1 /\ y = j + 1
      OBVIOUS
    <3>2. x \in DOMAIN s /\ y \in DOMAIN s /\ t[i] = s[x] /\ t[j] = s[y] /\ x # y
      BY <2>5, <3>1
    <3> QED
      BY <1>5, <3>2
  <2>8. EditShape(new, T2, U)
    <3>1. new.pos \in Nat /\ new.order \in Seq(Node)
      <4>1. q.pos + 1 \in Nat
        BY <1>3
      <4> QED
        BY <1>7, <2>3, <4>1
    <3>2. Creates(new) => /\ new.todo \in Seq(Node) /\ new.todo # <<>> /\ new.order \in Seq(Node)
                          /\ \A i \in DOMAIN new.todo : new.todo[i] \in U \ DOMAIN T2
                          /\ \A i, j \in DOMAIN new.todo : i # j => new.todo[i] # new.todo[j]
                          /\ new.parent \in U
      <4>1. new.todo \in Seq(Node) /\ new.todo # <<>> /\ new.parent \in U
        BY <1>2, <2>3, <2>5
      <4>2. /\ \A i \in DOMAIN new.todo : new.todo[i] \in U \ DOMAIN T2
            /\ \A i, j \in DOMAIN new.todo : i # j => new.todo[i] # new.todo[j]
        BY <2>3, <2>6, <2>7
      <4> QED
        BY <3>1, <4>1, <4>2
    <3> QED
      BY <1>3, <2>3, <2>4, <3>1, <3>2 DEF EditShape, EditPc
  <2>9. Placed(new, T2)
    <3> SUFFICES ASSUME ~q.touched, q.at = Nil, NEW c \in Kids(T2, q.parent) PROVE T2[c].pos < q.pos + 1
      BY <2>3 DEF Placed
    <3>1. CASE c = n
      BY <1>3, <3>1 DEF Inserted
    <3>2. CASE c # n
      <4>1. c \in Kids(T, q.parent) /\ T2[c] = T[c]
        BY <3>2 DEF Kids, Inserted
      <4>2. T[c].pos < q.pos
        BY <4>1 DEF Fit, Placed
      <4>3. T[c].pos \in Nat
        BY <4>1 DEF Kids, TreeRows
      <4> QED
        BY <1>3, <4>1, <4>2, <4>3
    <3> QED
      BY <3>1, <3>2
  <2>10. Clear(new, T2) /\ Listed(new, T2)
    BY <2>3, <2>4 DEF Clear, Listed
  <2>11. Pending(new) \subseteq Pending(q)
    <3>1. Pending(new) = Range(t) /\ Pending(q) = Range(s)
      BY <1>1, <1>4, <2>3, <2>4 DEF Pending
    <3> QED
      BY <2>5, <3>1 DEF Range
  <2> QED
    BY <1>3, <2>3, <2>4, <2>8, <2>9, <2>10, <2>11 DEF Fit
<1>9. CASE ~(Len(s) > 1) /\ o # <<>>
  <2>1. new = [q EXCEPT !.order = Append(o, n), !.pc = "link"]
    BY <1>4, <1>9 DEF GoesOn
  <2>2. /\ DOMAIN new = EditFields /\ new.pc = "link" /\ new.pos = q.pos /\ new.at = q.at
        /\ new.next = q.next /\ new.order = Append(o, n)
        /\ new.raced = q.raced /\ new.touched = q.touched
    BY <1>3, <2>1 DEF EditFields
  <2>3. ~Creates(new) /\ ~Moves(new)
    BY <2>2 DEF Creates, Moves
  <2>4. Len(new.order) >= 2 /\ new.order \in Seq(Node)
    <3>1. PICK l : l = Len(o)
      OBVIOUS
    <3>2. l \in Nat /\ l # 0
      BY <1>5, <1>9, <3>1
    <3>3. l + 1 >= 2
      BY <3>2
    <3> QED
      BY <1>7, <2>2, <3>1, <3>3
  <2>5. EditShape(new, T2, U)
    BY <1>3, <2>2, <2>3, <2>4 DEF EditShape, EditPc
  <2>6. Clear(new, T2) /\ Placed(new, T2) /\ Listed(new, T2)
    BY <2>2, <2>3 DEF Clear, Placed, Listed
  <2>7. Pending(new) = {}
    BY <2>3 DEF Pending
  <2> QED
    BY <1>3, <2>2, <2>3, <2>5, <2>6, <2>7 DEF Fit
<1>10. CASE ~(Len(s) > 1) /\ o = <<>>
  <2>1. new = NoEdit
    BY <1>4, <1>10 DEF GoesOn
  <2> QED
    BY <2>1, IdleFits, NoEditIs
<1> QED
  BY <1>8, <1>9, <1>10

LEMMA InsertNodeInv ==
  ASSUME NodeTreeInv, NEW r \in Request, InsertNode(r)
  PROVE  NodeTreeInv'
<1>1. PICK q, n : q = edit[r] /\ n = Head(q.todo)
  OBVIOUS
<1>2. q.pc = "insert" /\ used' = used /\ knotted' = knotted
  BY <1>1 DEF InsertNode
<1>3. /\ Fit(q, tree, used) /\ DOMAIN q = EditFields /\ TreeRows(tree, used) /\ DOMAIN edit = Request
      /\ \A x \in Request : Fit(edit[x], tree, used)
  BY <1>1, RowsAreFree
<1>4. Creates(q)
  BY <1>2 DEF Creates
<1>5. CASE tree' = tree /\ edit' = EditDone(r)
  BY <1>2, <1>5, EndInv
<1>6. CASE /\ tree' = Updated(tree, [x \in {n} |-> [parent |-> q.parent, pos |-> q.pos]])
           /\ edit' = Disturb([edit EXCEPT
                   ![r] = IF Len(q.todo) > 1
                          THEN [q EXCEPT !.todo = Tail(@), !.pos = @ + 1,
                                         !.order = Append(@, n)]
                          ELSE IF q.order # <<>>
                          THEN [q EXCEPT !.order = Append(@, n), !.pc = "link"]
                          ELSE NoEdit], r, {q.parent})
  <2>1. PICK new : new = GoesOn(q, n)
    OBVIOUS
  <2>2. PICK T2, e2, P : /\ T2 = Updated(tree, [x \in {n} |-> [parent |-> q.parent, pos |-> q.pos]])
                         /\ P = {q.parent} /\ e2 = Disturb([edit EXCEPT ![r] = new], r, P)
    OBVIOUS
  <2>3. /\ q.todo \in Seq(Node) /\ q.todo # <<>> /\ \A i \in DOMAIN q.todo : q.todo[i] \in used \ DOMAIN tree
        /\ q.parent \in used /\ q.pos \in Nat
    BY <1>3, <1>4 DEF Fit, EditShape
  <2>4. n \in used /\ n \notin DOMAIN tree /\ n \in Pending(q)
    <3>1. n = q.todo[1] /\ 1 \in DOMAIN q.todo
      BY <1>1, <2>3, TailIs
    <3> QED
      BY <1>4, <2>3, <3>1 DEF Pending, Range
  <2>5. Inserted(n, q, tree, T2)
    BY <2>2, <2>4 DEF Updated, Inserted
  <2>6. TreeRows(T2, used) /\ \A p : p \notin P => SameKids(tree, T2, p)
    BY <1>3, <2>2, <2>3, <2>4, <2>5, InsertedRows
  <2>7. /\ Fit(new, T2, used) /\ Pending(new) \subseteq Pending(q)
        /\ DOMAIN new = EditFields /\ new.touched \in BOOLEAN /\ new.raced \in BOOLEAN /\ ~Moves(new)
        /\ Creates(new) => new.parent = q.parent
    <3>1. /\ Fit(q, tree, used) /\ q.pc = "insert" /\ n = Head(q.todo) /\ Inserted(n, q, tree, T2)
          /\ TreeRows(tree, used) /\ new = GoesOn(q, n)
      BY <1>1, <1>2, <1>3, <2>1, <2>5
    <3> QED
      BY <3>1, InserterFits
  <2>8. /\ DOMAIN e2 = Request /\ e2[r] = new
        /\ \A x \in Request \ {r} : Learns(edit[x], e2[x]) /\ (edit[x].parent \in P => e2[x].touched)
    <3>1. DOMAIN new = EditFields /\ new.touched \in BOOLEAN /\ new.raced \in BOOLEAN
      BY <2>7
    <3>2. PICK e : e = [edit EXCEPT ![r] = new] /\ e2 = Disturb(e, r, P)
      BY <2>2
    <3>3. Turned(e, r, new) /\ e2 = Disturb(e, r, P)
      BY <1>3, <3>2 DEF Turned
    <3> QED
      BY <3>1, <3>3, DisturbEdit
  <2>9. /\ \A m \in DOMAIN tree : Free(tree[m].parent, edit)
        /\ \A x \in Request : Creates(edit[x]) \/ Moves(edit[x]) => Free(edit[x].parent, edit)
        /\ \A x \in Request \ {r} : n \notin Pending(edit[x])
    BY <1>1, <2>4 DEF NodeTreeInv, Apart
  <2>10. \A p : Free(p, edit) => p # n
    BY <1>1, <2>4 DEF Free
  <2>11. Free(q.parent, edit) /\ q.parent # n /\ \A m \in DOMAIN tree : tree[m].parent # n
    BY <1>1, <1>4, <2>9, <2>10
  <2>12. ASSUME NEW x \in Request \ {r} PROVE Clear(e2[x], T2)
    <3>1. Clear(edit[x], tree) /\ Learns(edit[x], e2[x]) /\ (Moves(edit[x]) => edit[x].parent # n)
      BY <1>3, <2>8, <2>9, <2>10 DEF Fit
    <3> QED
      BY <2>5, <2>11, <3>1, InsertedClear
  <2>13. knotted \in BOOLEAN /\ (~knotted => Straight(T2))
    <3>1. knotted \in BOOLEAN /\ (~knotted => Straight(tree))
      BY DEF NodeTreeInv
    <3> QED
      BY <2>5, <2>11, <3>1, InsertedStraight
  <2>14. ASSUME NEW x \in Request \ {r}, NEW c \in Pending(edit[x]) PROVE c \notin DOMAIN T2
    <3>1. c \notin DOMAIN tree
      BY <1>3 DEF Fit, EditShape, Pending, Range
    <3> QED
      BY <2>5, <2>9, <3>1 DEF Inserted
  <2>15. \A m \in DOMAIN T2 : Free(T2[m].parent, edit)
    BY <2>5, <2>9, <2>11 DEF Inserted
  <2>16. Wrote(r, e2, T2, knotted, P)
    <3>1. \A x \in Request \ {r} : /\ Learns(edit[x], e2[x]) /\ Clear(e2[x], T2)
                                   /\ edit[x].parent \in P => e2[x].touched
                                   /\ \A c \in Pending(edit[x]) : c \notin DOMAIN T2
      BY <2>8, <2>12, <2>14
    <3>2. Creates(e2[r]) \/ Moves(e2[r]) => Free(e2[r].parent, edit)
      BY <2>7, <2>8, <2>11
    <3> QED
      BY <1>1, <2>6, <2>7, <2>8, <2>13, <2>15, <3>1, <3>2 DEF Wrote
  <2> QED
    <3>1. tree' = T2 /\ edit' = e2
      BY <1>6, <2>1, <2>2 DEF GoesOn
    <3> QED
      BY <1>2, <2>16, <3>1, WroteInv
<1> QED
  BY <1>1, <1>5, <1>6 DEF InsertNode

(* The row that WriteOrder numbers *)
NumberedRow(q, T, T2) ==
  LET c == q.order[q.next]
  IN  /\ DOMAIN T2 = DOMAIN T
      /\ \A m \in DOMAIN T : T2[m].parent = T[m].parent /\ (m # c => T2[m] = T[m])
      /\ c \in DOMAIN T => IF q.seen[c] # q.next - 1 THEN T2[c].pos = q.next - 1 ELSE T2[c] = T[c]

LEMMA NumberedOn ==
  ASSUME NEW q, NEW T, NEW T2, Ordered(q, T), NumberedRow(q, T, T2), q.next \in 1 .. Len(q.order),
         IsFiniteSet(Kids(T, q.parent))
  PROVE  /\ Kids(T2, q.parent) = Kids(T, q.parent)
         /\ \A i \in 1 .. Cardinality(Kids(T, q.parent)) :
              /\ i <= q.next => T2[q.order[i]].pos = i - 1
              /\ i > q.next => T2[q.order[i]].pos = q.seen[q.order[i]]
<1>1. PICK K, C : K = Kids(T, q.parent) /\ C = Cardinality(K)
  OBVIOUS
<1>2. PICK o, k, c : o = q.order /\ k = q.next /\ c = o[k]
  OBVIOUS
<1>3. /\ Len(o) = C /\ o \in [1 .. C -> K] /\ k \in 1 .. C /\ C \in Nat
      /\ \A i, j \in 1 .. C : i # j => o[i] # o[j]
      /\ \A i \in 1 .. C : /\ i < k => T[o[i]].pos = i - 1
                           /\ i >= k => T[o[i]].pos = q.seen[o[i]]
  BY <1>1, <1>2, FS_CardinalityType DEF Ordered
<1>4. /\ DOMAIN T2 = DOMAIN T
      /\ \A m \in DOMAIN T : T2[m].parent = T[m].parent /\ (m # c => T2[m] = T[m])
      /\ c \in DOMAIN T => IF q.seen[c] # k - 1 THEN T2[c].pos = k - 1 ELSE T2[c] = T[c]
  BY <1>2 DEF NumberedRow
<1>5. Kids(T2, q.parent) = K
  BY <1>1, <1>4 DEF Kids
<1>6. \A i \in 1 .. C : o[i] \in DOMAIN T
  BY <1>1, <1>3 DEF Kids
<1>7. \A i \in 1 .. C : i # k => T2[o[i]] = T[o[i]]
  BY <1>2, <1>3, <1>4, <1>6
<1>8. T2[o[k]].pos = k - 1
  <2>1. T[c].pos = q.seen[c] /\ c \in DOMAIN T
    <3>1. k >= k
      BY <1>3
    <3> QED
      BY <1>2, <1>3, <1>6, <3>1
  <2> QED
    BY <1>2, <1>4, <2>1
<1>9. ASSUME NEW i \in 1 .. C
      PROVE  /\ i <= k => T2[o[i]].pos = i - 1
             /\ i > k => T2[o[i]].pos = q.seen[o[i]]
  <2>1. CASE i = k
    BY <1>3, <1>8, <2>1
  <2>2. CASE i < k
    BY <1>3, <1>7, <2>2
  <2>3. CASE i > k
    BY <1>3, <1>7, <2>3
  <2> QED
    BY <1>3, <2>1, <2>2, <2>3
<1> QED
  BY <1>1, <1>2, <1>5, <1>9

LEMMA OrderedOn ==
  ASSUME NEW q, NEW T, NEW T2, Ordered(q, T), NumberedRow(q, T, T2), q.next \in 1 .. Len(q.order),
         IsFiniteSet(Kids(T, q.parent)),
         NEW new, new.next = q.next + 1, new.order = q.order, new.seen = q.seen, new.parent = q.parent,
         new.node = q.node, new.at = q.at
  PROVE  Ordered(new, T2)
<1>1. PICK K, C : K = Kids(T, q.parent) /\ C = Cardinality(K) /\ C \in Nat
  BY FS_CardinalityType
<1>2. PICK o, k : o = q.order /\ k = q.next
  OBVIOUS
<1>3. /\ q.node \in K /\ Len(o) = C /\ o \in [1 .. C -> K]
      /\ \A c \in K : \E i \in 1 .. C : o[i] = c
      /\ \A i, j \in 1 .. C : i # j => o[i] # o[j]
      /\ \A i \in 1 .. C : q.seen[o[i]] \in Nat
      /\ \A i, j \in 1 .. C : i < j /\ o[i] # q.node /\ o[j] # q.node => q.seen[o[i]] <= q.seen[o[j]]
      /\ o[Min({q.at, C - 1}) + 1] = q.node
  BY <1>1, <1>2 DEF Ordered
<1>4. /\ Kids(T2, q.parent) = K
      /\ \A i \in 1 .. C : /\ i <= k => T2[o[i]].pos = i - 1
                           /\ i > k => T2[o[i]].pos = q.seen[o[i]]
  BY <1>1, <1>2, NumberedOn
<1>5. k \in Nat
  BY <1>1, <1>2, <1>3
<1>6. \A i \in 1 .. C : /\ i < k + 1 => T2[o[i]].pos = i - 1
                        /\ i >= k + 1 => T2[o[i]].pos = q.seen[o[i]]
                        /\ q.seen[o[i]] \in Nat
  BY <1>1, <1>3, <1>4, <1>5
<1> QED
  BY <1>1, <1>2, <1>3, <1>4, <1>6 DEF Ordered

(* What WriteOrder does to the table, the request itself, and the parents  *)
(* it disturbs                                                             *)
LEMMA WriteOrderIs ==
  ASSUME NodeTreeInv, NEW r \in Request, WriteOrder(r), NEW q, q = edit[r], NEW T2, T2 = tree'
  PROVE  /\ q.pc = "write" /\ Fit(q, tree, used) /\ TreeRows(tree, used) /\ TreeRows(T2, used)
         /\ q.order \in Seq(Node) /\ q.next \in 1 .. Len(q.order) /\ Len(q.order) \in Nat
         /\ NumberedRow(q, tree, T2)
         /\ \A p : p \notin (IF T2 = tree THEN {} ELSE {tree[q.order[q.next]].parent}) =>
              SameKids(tree, T2, p)
<1>1. q.pc = "write" /\ Fit(q, tree, used) /\ TreeRows(tree, used)
  BY RowsAreFree DEF WriteOrder
<1>2. q.order \in Seq(Node) /\ q.next \in 1 .. Len(q.order) /\ Len(q.order) \in Nat
  BY <1>1 DEF Fit, EditShape
<1>3. PICK c, k : c = q.order[q.next] /\ k = q.next - 1 /\ k \in Nat
  <2>1. PICK x, l : x = q.next /\ l = Len(q.order)
    OBVIOUS
  <2>2. l \in Nat /\ x \in 1 .. l
    BY <1>2, <2>1
  <2>3. x - 1 \in Nat
    BY <2>2
  <2> QED
    BY <2>1, <2>3
<1>4. T2 = IF c \in DOMAIN tree /\ q.seen[c] # k THEN [tree EXCEPT ![c].pos = k] ELSE tree
  BY <1>3 DEF WriteOrder
<1>5. CASE c \in DOMAIN tree /\ q.seen[c] # k
  <2>1. tree[c] \in [parent : used \cup {Nil}, pos : Nat]
    BY <1>1, <1>5 DEF TreeRows
  <2>2. /\ DOMAIN T2 = DOMAIN tree /\ \A m \in DOMAIN tree \ {c} : T2[m] = tree[m]
        /\ T2[c] \in [parent : used \cup {Nil}, pos : Nat] /\ T2[c].parent = tree[c].parent /\ T2[c].pos = k
    <3>1. PICK row : row = [tree[c] EXCEPT !.pos = k]
      OBVIOUS
    <3>2. /\ row \in [parent : used \cup {Nil}, pos : Nat]
          /\ row.parent = tree[c].parent /\ row.pos = k
      BY <1>3, <2>1, <3>1
    <3>3. T2 = [tree EXCEPT ![c] = row]
      BY <1>4, <1>5, <3>1
    <3>4. DOMAIN T2 = DOMAIN tree /\ T2[c] = row /\ \A m \in DOMAIN tree \ {c} : T2[m] = tree[m]
      BY <1>5, <3>3
    <3> QED
      BY <3>2, <3>4
  <2>3. \A m \in DOMAIN tree : T2[m].parent = tree[m].parent /\ (m # c => T2[m] = tree[m])
    BY <2>2
  <2>4. NumberedRow(q, tree, T2)
    BY <1>3, <1>5, <2>2, <2>3 DEF NumberedRow
  <2>5. TreeRows(T2, used)
    BY <1>1, <2>2, <2>3 DEF TreeRows
  <2>6. \A p : p # tree[c].parent => SameKids(tree, T2, p)
    BY <1>5, <2>2, <2>3 DEF SameKids, Kids
  <2>7. ASSUME T2 = tree PROVE \A p : SameKids(tree, T2, p)
    BY <2>7 DEF SameKids
  <2> QED
    BY <1>1, <1>2, <1>3, <2>4, <2>5, <2>6, <2>7
<1>6. CASE ~(c \in DOMAIN tree /\ q.seen[c] # k)
  <2>1. T2 = tree
    BY <1>4, <1>6
  <2>2. NumberedRow(q, tree, T2)
    BY <1>3, <1>6, <2>1 DEF NumberedRow
  <2>3. \A p : SameKids(tree, T2, p)
    BY <2>1 DEF SameKids
  <2> QED
    BY <1>1, <1>2, <2>1, <2>2, <2>3
<1> QED
  BY <1>5, <1>6

LEMMA WriteOrderInv ==
  ASSUME NodeTreeInv, NEW r \in Request, WriteOrder(r)
  PROVE  NodeTreeInv'
<1>1. PICK q, T2 : q = edit[r] /\ T2 = tree'
  OBVIOUS
<1>2. /\ q.pc = "write" /\ Fit(q, tree, used) /\ TreeRows(tree, used) /\ TreeRows(T2, used)
      /\ q.order \in Seq(Node) /\ q.next \in 1 .. Len(q.order) /\ Len(q.order) \in Nat
      /\ NumberedRow(q, tree, T2)
      /\ \A p : p \notin (IF T2 = tree THEN {} ELSE {tree[q.order[q.next]].parent}) =>
           SameKids(tree, T2, p)
  BY <1>1, WriteOrderIs
<1>3. used' = used /\ knotted' = knotted
  BY DEF WriteOrder
<1>4. PICK P : P = IF T2 = tree THEN {} ELSE {tree[q.order[q.next]].parent}
  OBVIOUS
<1>5. PICK new : new = IF q.next = Len(q.order) THEN NoEdit ELSE [q EXCEPT !.next = q.next + 1]
  OBVIOUS
<1>6. PICK e : e = [edit EXCEPT ![r] = new]
  OBVIOUS
<1>7. PICK e2 : e2 = Disturb(e, r, P)
  OBVIOUS
<1>8. edit' = e2
  <2>1. e = IF q.next = Len(q.order) THEN EditDone(r) ELSE [edit EXCEPT ![r].next = @ + 1]
    BY <1>1, <1>5, <1>6, RowsAreFree DEF EditDone
  <2> QED
    BY <1>1, <1>4, <1>7, <2>1 DEF WriteOrder
<1>9. DOMAIN T2 = DOMAIN tree /\ \A m \in DOMAIN tree : T2[m].parent = tree[m].parent
  BY <1>2 DEF NumberedRow
<1>10. /\ DOMAIN new = EditFields /\ new.touched \in BOOLEAN /\ new.raced \in BOOLEAN
       /\ Fit(new, T2, used) /\ Pending(new) = {} /\ ~Creates(new) /\ ~Moves(new)
  <2>1. CASE q.next = Len(q.order)
    BY <1>5, <2>1, IdleFits, NoEditIs
  <2>2. CASE q.next # Len(q.order)
    <3>1. DOMAIN q = EditFields /\ q.at \in Nat /\ q.node \in used /\ q.pos \in Nat
          /\ q.touched \in BOOLEAN /\ q.raced \in BOOLEAN
      BY <1>2 DEF Fit, EditShape
    <3>2. /\ DOMAIN new = EditFields /\ new.pc = "write" /\ new.pos = q.pos /\ new.node = q.node
          /\ new.at = q.at /\ new.parent = q.parent /\ new.next = q.next + 1
          /\ new.raced = q.raced /\ new.touched = q.touched /\ new.order = q.order /\ new.seen = q.seen
      BY <1>2, <1>5, <2>2, <3>1 DEF EditFields
    <3>3. ~Creates(new) /\ ~Moves(new)
      BY <3>2 DEF Creates, Moves
    <3>4. Pending(new) = {}
      BY <3>3 DEF Pending
    <3>5. new.next \in 1 .. Len(new.order)
      BY <1>2, <2>2, <3>2
    <3>6. EditShape(new, T2, used)
      BY <1>2, <3>1, <3>2, <3>3, <3>5 DEF EditShape, EditPc
    <3>7. ASSUME ~new.touched PROVE Ordered(new, T2)
      <4>1. Ordered(q, tree)
        BY <1>2, <3>2, <3>7 DEF Fit, Listed
      <4>2. IsFiniteSet(Kids(tree, q.parent))
        BY <1>2, RowsFinite
      <4> QED
        BY <1>2, <3>2, <4>1, <4>2, OrderedOn
    <3>8. Listed(new, T2)
      BY <3>2, <3>7 DEF Listed
    <3>9. Clear(new, T2) /\ Placed(new, T2)
      BY <3>2, <3>3 DEF Clear, Placed
    <3> QED
      BY <3>1, <3>2, <3>3, <3>4, <3>6, <3>8, <3>9 DEF Fit
  <2> QED
    BY <2>1, <2>2
<1>11. Turned(e, r, new)
  BY <1>6 DEF Turned, NodeTreeInv
<1>12. /\ DOMAIN e2 = Request /\ e2[r] = new
       /\ \A x \in Request \ {r} : Learns(edit[x], e2[x]) /\ (edit[x].parent \in P => e2[x].touched)
  BY <1>7, <1>10, <1>11, DisturbEdit
<1>13. \A V \in SUBSET Node : UpFrom(tree, V) => UpFrom(T2, V)
  BY <1>9 DEF UpFrom
<1>14. ASSUME NEW x \in Request \ {r} PROVE Clear(e2[x], T2)
  <2>1. Clear(edit[x], tree) /\ Learns(edit[x], e2[x])
    BY <1>12, RowsAreFree DEF Fit
  <2> QED
    BY <1>13, <2>1, StillClear
<1>15. \A x \in Request : \A c \in Pending(edit[x]) : c \notin DOMAIN T2
  BY <1>9, RowsAreFree DEF Fit, EditShape, Pending, Range
<1>16. \A m \in DOMAIN T2 : Free(T2[m].parent, edit)
  BY <1>9 DEF NodeTreeInv, Apart
<1>17. knotted \in BOOLEAN /\ (~knotted => Straight(T2))
  <2>1. Straight(tree) => Straight(T2)
    BY <1>9 DEF Straight
  <2> QED
    BY <2>1 DEF NodeTreeInv
<1>18. Wrote(r, e2, T2, knotted, P)
  <2>1. \A x \in Request \ {r} : /\ Learns(edit[x], e2[x]) /\ Clear(e2[x], T2)
                                 /\ edit[x].parent \in P => e2[x].touched
                                 /\ \A c \in Pending(edit[x]) : c \notin DOMAIN T2
    BY <1>12, <1>14, <1>15
  <2>2. \A p : p \notin P => SameKids(tree, T2, p)
    BY <1>2, <1>4
  <2> QED
    BY <1>2, <1>10, <1>12, <1>16, <1>17, <2>1, <2>2 DEF Wrote
<1> QED
  BY <1>1, <1>3, <1>8, <1>18, WroteInv

LEMMA NodeTreeStepInv ==
  ASSUME NodeTreeInv, [TreeNext]_treeVars
  PROVE  NodeTreeInv'
<1>1. CASE UNCHANGED treeVars
  BY <1>1 DEF NodeTreeInv, treeVars
<1>2. CASE TreeNext
  <2>1. PICK r \in Request : \/ StartCreate(r) \/ StartChain(r) \/ StartMove(r)
                             \/ SetPosition(r) \/ RemoveNode(r) \/ TreeStep(r)
    BY <1>2 DEF TreeNext
  <2> QED
    BY <2>1, StartCreatesInv, StartMoveInv, SetPositionInv, RemoveNodeInv, CountInv, InsertNodeInv,
       LinkChainInv, FindTargetInv, WriteMoveInv, ReadReorderedInv, ListSiblingsInv, WriteOrderInv
       DEF TreeStep
<1> QED
  BY <1>1, <1>2

-----------------------------------------------------------------------------
(* What one request does leaves the others where they are. *)
LEMMA DisturbSame ==
  ASSUME NEW e, NEW r, NEW P, NEW x \in Request, x # r, DOMAIN e[x] = EditFields
  PROVE  Disturb(e, r, P)[x].pc = e[x].pc /\ Disturb(e, r, P)[x].todo = e[x].todo
<1>1. PICK a, b : a = e[x] /\ b = [a EXCEPT !.touched = TRUE]
  OBVIOUS
<1>2. b.pc = a.pc /\ b.todo = a.todo
  BY <1>1 DEF EditFields
<1>3. Disturb(e, r, P)[x] = a \/ Disturb(e, r, P)[x] = b
  BY <1>1 DEF Disturb
<1> QED
  BY <1>1, <1>2, <1>3

LEMMA OvertakenSame ==
  ASSUME NEW e, NEW r, NEW x \in Request, x # r, DOMAIN e[x] = EditFields
  PROVE  /\ DOMAIN Overtaken(e, r)[x] = EditFields
         /\ Overtaken(e, r)[x].pc = e[x].pc /\ Overtaken(e, r)[x].todo = e[x].todo
<1>1. PICK a, b : a = e[x] /\ b = [a EXCEPT !.raced = TRUE]
  OBVIOUS
<1>2. b.pc = a.pc /\ b.todo = a.todo /\ DOMAIN b = EditFields
  BY <1>1 DEF EditFields
<1>3. Overtaken(e, r)[x] = a \/ Overtaken(e, r)[x] = b
  BY <1>1 DEF Overtaken
<1> QED
  BY <1>1, <1>2, <1>3

StepOf(r) ==
  \/ StartCreate(r) \/ StartChain(r) \/ StartMove(r)
  \/ SetPosition(r) \/ RemoveNode(r) \/ TreeStep(r)

LEMMA OthersWait ==
  ASSUME NodeTreeInv, NEW r \in Request, StepOf(r), NEW x \in Request, x # r
  PROVE  edit'[x].pc = edit[x].pc /\ edit'[x].todo = edit[x].todo
<1>1. DOMAIN edit[x] = EditFields
  BY RowsAreFree
<1>2. ASSUME NEW new, edit' = [edit EXCEPT ![r] = new]
      PROVE  edit'[x].pc = edit[x].pc /\ edit'[x].todo = edit[x].todo
  BY <1>2, RowsAreFree
<1>3. ASSUME NEW e, NEW P, e[x] = edit[x], edit' = Disturb(e, r, P)
      PROVE  edit'[x].pc = edit[x].pc /\ edit'[x].todo = edit[x].todo
  BY <1>1, <1>3, DisturbSame
<1>4. CASE StartCreate(r) \/ StartChain(r) \/ StartMove(r)
  <2>1. PICK rec : Begin(r, rec)
    BY <1>4 DEF StartCreate, StartChain, StartMove
  <2> QED
    BY <1>2, <2>1 DEF Begin
<1>5. CASE SetPosition(r) \/ RemoveNode(r)
  <2>1. PICK P : edit' = Disturb(edit, r, P)
    BY <1>5 DEF SetPosition, RemoveNode
  <2> QED
    BY <1>3, <2>1
<1>6. CASE CountSiblings(r) \/ ListTarget(r) \/ FindTarget(r) \/ LinkChain(r) \/ ReadReordered(r) \/ ListSiblings(r)
  <2>1. \E new : edit' = [edit EXCEPT ![r] = new]
    BY <1>6 DEF CountSiblings, ListTarget, FindTarget, LinkChain, ReadReordered, ListSiblings, EditDone, EditGoto
  <2> QED
    BY <1>2, <2>1
<1>7. CASE InsertNode(r)
  <2>1. \/ edit' = EditDone(r)
        \/ \E new, P : edit' = Disturb([edit EXCEPT ![r] = new], r, P)
    BY <1>7 DEF InsertNode
  <2>2. CASE edit' = EditDone(r)
    BY <1>2, <2>2 DEF EditDone
  <2>3. ASSUME NEW new, NEW P, edit' = Disturb([edit EXCEPT ![r] = new], r, P)
        PROVE  edit'[x].pc = edit[x].pc /\ edit'[x].todo = edit[x].todo
    <3>1. PICK e : e = [edit EXCEPT ![r] = new]
      OBVIOUS
    <3>2. e[x] = edit[x]
      BY <3>1, RowsAreFree
    <3> QED
      BY <1>3, <2>3, <3>1, <3>2
  <2> QED
    BY <2>1, <2>2, <2>3
<1>8. CASE WriteMove(r)
  <2>1. PICK e : e = IF edit[r].at = Nil THEN EditDone(r) ELSE EditGoto(r, "reorder")
    OBVIOUS
  <2>2. e[x] = edit[x]
    BY <2>1, RowsAreFree DEF EditDone, EditGoto
  <2>3. \/ edit' = EditDone(r)
        \/ \E P : edit' = Disturb(Overtaken(e, r), r, P)
    BY <1>8, <2>1 DEF WriteMove
  <2>4. CASE edit' = EditDone(r)
    BY <1>2, <2>4 DEF EditDone
  <2>5. ASSUME NEW P, edit' = Disturb(Overtaken(e, r), r, P)
        PROVE  edit'[x].pc = edit[x].pc /\ edit'[x].todo = edit[x].todo
    <3>1. PICK e1 : e1 = Overtaken(e, r)
      OBVIOUS
    <3>2. DOMAIN e1[x] = EditFields /\ e1[x].pc = edit[x].pc /\ e1[x].todo = edit[x].todo
      BY <1>1, <2>2, <3>1, OvertakenSame
    <3> QED
      BY <2>5, <3>1, <3>2, DisturbSame
  <2> QED
    BY <2>3, <2>4, <2>5
<1>9. CASE WriteOrder(r)
  <2>1. PICK e : e = IF edit[r].next = Len(edit[r].order) THEN EditDone(r)
                     ELSE [edit EXCEPT ![r].next = @ + 1]
    OBVIOUS
  <2>2. e[x] = edit[x]
    BY <2>1, RowsAreFree DEF EditDone
  <2>3. \E P : edit' = Disturb(e, r, P)
    BY <1>9, <2>1 DEF WriteOrder
  <2> QED
    BY <1>3, <2>2, <2>3
<1> QED
  BY <1>4, <1>5, <1>6, <1>7, <1>8, <1>9 DEF StepOf, TreeStep

(* A request that is about to write does so in its next step. *)
LEMMA WriterSteps ==
  ASSUME NodeTreeInv, TreeNext, NEW r \in Request, edit[r].pc \in {"insert", "move", "write"},
         <<edit'[r].pc, edit'[r].todo>> # <<edit[r].pc, edit[r].todo>>
  PROVE  InsertNode(r) \/ WriteMove(r) \/ WriteOrder(r)
<1>1. PICK x \in Request : StepOf(x)
  BY DEF TreeNext, StepOf
<1>2. x = r
  BY <1>1, OthersWait
<1> QED
  BY <1>1, <1>2 DEF StepOf, TreeStep, StartCreate, StartChain, StartMove, SetPosition, RemoveNode,
     CountSiblings, LinkChain, FindTarget, ListTarget, ReadReordered, ListSiblings

LastPlaced(r) ==
  LET q == edit[r]
      n == IF q.pc = "move" THEN q.node ELSE Head(q.todo)
      written == /\ tree' # tree /\ q.pc \in {"insert", "move"}
                 /\ <<edit'[r].pc, edit'[r].todo>> # <<q.pc, q.todo>>
  IN  written /\ ~q.touched /\ (q.pc = "insert" => q.at = Nil) =>
        \A c \in Offspring(q.parent) \ {n} : tree[c].pos < tree'[n].pos

LEMMA PlacedLastStep ==
  ASSUME NodeTreeInv, [TreeNext]_treeVars, NEW r \in Request
  PROVE  LastPlaced(r)
<1>1. PICK q, n : q = edit[r] /\ n = IF q.pc = "move" THEN q.node ELSE Head(q.todo)
  OBVIOUS
<1> SUFFICES ASSUME tree' # tree, q.pc \in {"insert", "move"},
                    <<edit'[r].pc, edit'[r].todo>> # <<q.pc, q.todo>>, ~q.touched,
                    q.pc = "insert" => q.at = Nil, NEW c \in Offspring(q.parent) \ {n}
             PROVE  tree[c].pos < tree'[n].pos
  BY <1>1 DEF LastPlaced
<1>2. TreeNext
  BY DEF treeVars
<1>3. InsertNode(r) \/ WriteMove(r) \/ WriteOrder(r)
  BY <1>1, <1>2, WriterSteps
<1>4. Placed(q, tree) /\ c \in Kids(tree, q.parent)
  BY <1>1, RowsAreFree DEF Fit, Offspring, Kids
<1>5. tree[c].pos < q.pos
  BY <1>4 DEF Placed
<1>6. tree'[n].pos = q.pos
  <2>1. CASE InsertNode(r)
    <3>1. q.pc = "insert" /\ n = Head(q.todo)
      BY <1>1, <2>1 DEF InsertNode
    <3>2. tree' = Updated(tree, [x \in {n} |-> [parent |-> q.parent, pos |-> q.pos]])
      BY <1>1, <2>1, <3>1 DEF InsertNode
    <3> QED
      BY <3>2 DEF Updated
  <2>2. CASE WriteMove(r)
    <3>1. q.pc = "move" /\ n = q.node
      BY <1>1, <2>2 DEF WriteMove
    <3>2. n \in DOMAIN tree /\ tree' = [tree EXCEPT ![n] = [parent |-> q.parent, pos |-> q.pos]]
      BY <1>1, <2>2, <3>1 DEF WriteMove
    <3> QED
      BY <3>2
  <2>3. CASE WriteOrder(r)
    BY <1>1, <2>3 DEF WriteOrder
  <2> QED
    BY <1>3, <2>1, <2>2, <2>3
<1> QED
  BY <1>5, <1>6

ExactlyOrdered(r) ==
  LET q == edit[r]
      kids == Offspring(q.parent)
  IN  q.pc = "write" /\ edit'[r].pc = "idle" /\ ~q.touched =>
        /\ {tree'[c].pos : c \in kids} = 0 .. Cardinality(kids) - 1
        /\ tree'[q.node].pos = Min({q.at, Cardinality(kids) - 1})
        /\ \A c, d \in kids \ {q.node} :
             q.seen[c] < q.seen[d] => tree'[c].pos < tree'[d].pos

LEMMA ReorderExactStep ==
  ASSUME NodeTreeInv, [TreeNext]_treeVars, NEW r \in Request
  PROVE  ExactlyOrdered(r)
<1>1. PICK q, K, T2 : q = edit[r] /\ K = Offspring(q.parent) /\ K = Kids(tree, q.parent) /\ T2 = tree'
  BY DEF Offspring, Kids
<1> SUFFICES ASSUME q.pc = "write", edit'[r].pc = "idle", ~q.touched
             PROVE  /\ {T2[c].pos : c \in K} = 0 .. Cardinality(K) - 1
                    /\ T2[q.node].pos = Min({q.at, Cardinality(K) - 1})
                    /\ \A c, d \in K \ {q.node} : q.seen[c] < q.seen[d] => T2[c].pos < T2[d].pos
  BY <1>1 DEF ExactlyOrdered
<1>2. WriteOrder(r)
  <2>1. TreeNext
    BY <1>1 DEF treeVars
  <2>2. InsertNode(r) \/ WriteMove(r) \/ WriteOrder(r)
    BY <1>1, <2>1, WriterSteps
  <2> QED
    BY <1>1, <2>2 DEF InsertNode, WriteMove
<1>3. /\ Fit(q, tree, used) /\ TreeRows(tree, used) /\ q.next \in 1 .. Len(q.order) /\ Len(q.order) \in Nat
      /\ NumberedRow(q, tree, T2)
  BY <1>1, <1>2, WriteOrderIs
<1>4. q.next = Len(q.order)
  <2> SUFFICES ASSUME q.next # Len(q.order) PROVE FALSE
    OBVIOUS
  <2>1. PICK new : new = [q EXCEPT !.next = q.next + 1]
    OBVIOUS
  <2>2. PICK e : e = [edit EXCEPT ![r] = new]
    OBVIOUS
  <2>3. e = [edit EXCEPT ![r].next = @ + 1]
    BY <1>1, <2>1, <2>2, RowsAreFree
  <2>4. \E P : edit' = Disturb(e, r, P)
    BY <1>1, <1>2, <2>3 DEF WriteOrder
  <2>5. edit'[r] = e[r]
    BY <2>4 DEF Disturb
  <2>6. e[r] = new
    BY <2>2, RowsAreFree
  <2>7. DOMAIN q = EditFields
    BY <1>1, RowsAreFree
  <2>8. new.pc = q.pc
    BY <2>1, <2>7 DEF EditFields
  <2> QED
    BY <2>5, <2>6, <2>8
<1>5. PICK C, o, k : C = Cardinality(K) /\ o = q.order /\ k = Min({q.at, C - 1})
  OBVIOUS
<1>6. Ordered(q, tree)
  BY <1>3 DEF Fit, Listed
<1>7. IsFiniteSet(K) /\ C \in Nat
  BY <1>1, <1>3, <1>5, RowsFinite, FS_CardinalityType
<1>8. /\ q.node \in K /\ Len(o) = C /\ o \in [1 .. C -> K]
      /\ \A c \in K : \E i \in 1 .. C : o[i] = c
      /\ \A i \in 1 .. C : q.seen[o[i]] \in Nat
      /\ \A i, j \in 1 .. C : i < j /\ o[i] # q.node /\ o[j] # q.node => q.seen[o[i]] <= q.seen[o[j]]
      /\ o[k + 1] = q.node
  <2>1. /\ q.node \in K /\ Len(o) = C /\ o \in [1 .. C -> K]
        /\ o[k + 1] = q.node
    BY <1>1, <1>5, <1>6 DEF Ordered
  <2>2. /\ \A c \in K : \E i \in 1 .. C : o[i] = c
        /\ \A i \in 1 .. C : q.seen[o[i]] \in Nat
    BY <1>1, <1>5, <1>6 DEF Ordered
  <2>3. \A i, j \in 1 .. C : i < j /\ o[i] # q.node /\ o[j] # q.node => q.seen[o[i]] <= q.seen[o[j]]
    BY <1>1, <1>5, <1>6 DEF Ordered
  <2> QED
    BY <2>1, <2>2, <2>3
<1>9. \A i \in 1 .. C : T2[o[i]].pos = i - 1
  <2>1. \A i \in 1 .. Cardinality(Kids(tree, q.parent)) : i <= q.next => T2[q.order[i]].pos = i - 1
    BY <1>1, <1>3, <1>6, <1>7, NumberedOn
  <2>2. \A i \in 1 .. C : i <= q.next => T2[o[i]].pos = i - 1
    BY <1>1, <1>5, <2>1
  <2>3. q.next = C
    BY <1>4, <1>5, <1>8
  <2>4. \A i \in 1 .. C : i <= q.next
    BY <1>7, <2>3
  <2> QED
    BY <2>2, <2>4
<1>10. {T2[c].pos : c \in K} = 0 .. C - 1
  <2>1. \A c \in K : T2[c].pos \in 0 .. C - 1
    BY <1>7, <1>8, <1>9
  <2>2. ASSUME NEW x \in 0 .. C - 1 PROVE \E c \in K : T2[c].pos = x
    <3>1. PICK i : i = x + 1
      OBVIOUS
    <3>2. i \in 1 .. C /\ i - 1 = x
      BY <1>7, <2>2, <3>1
    <3> QED
      BY <1>8, <1>9, <3>2
  <2> QED
    BY <2>1, <2>2
<1>11. C >= 1
  BY <1>7, <1>8
<1>12. q.at \in Nat
  BY <1>3 DEF Fit, EditShape
<1>13. k \in 0 .. C - 1
  <2>1. q.at <= C - 1 \/ C - 1 <= q.at
    BY <1>7, <1>12
  <2>2. \E x \in {q.at, C - 1} : \A y \in {q.at, C - 1} : x <= y
    BY <1>7, <1>12, <2>1
  <2>3. k \in {q.at, C - 1} /\ \A y \in {q.at, C - 1} : k <= y
    BY <1>5, <2>2 DEF Min
  <2> QED
    BY <1>7, <1>11, <1>12, <2>3
<1>14. T2[q.node].pos = k
  <2>1. PICK i : i = k + 1
    OBVIOUS
  <2>2. i \in 1 .. C /\ i - 1 = k
    BY <1>7, <1>13, <2>1
  <2> QED
    BY <1>8, <1>9, <2>1, <2>2
<1>15. \A c, d \in K \ {q.node} : q.seen[c] < q.seen[d] => T2[c].pos < T2[d].pos
  <2> SUFFICES ASSUME NEW c \in K \ {q.node}, NEW d \in K \ {q.node}, q.seen[c] < q.seen[d]
               PROVE  T2[c].pos < T2[d].pos
    OBVIOUS
  <2>1. PICK i, j \in 1 .. C : o[i] = c /\ o[j] = d
    BY <1>8
  <2>2. q.seen[c] \in Nat /\ q.seen[d] \in Nat
    BY <1>8, <2>1
  <2>3. ~(j < i) /\ i # j
    BY <1>8, <2>1, <2>2
  <2>4. T2[c].pos = i - 1 /\ T2[d].pos = j - 1
    BY <1>9, <2>1
  <2>5. i \in Int /\ j \in Int /\ i < j
    BY <1>7, <2>1, <2>3
  <2> QED
    BY <2>4, <2>5
<1> QED
  BY <1>5, <1>10, <1>14, <1>15

(* In every plan and for any requests, undisturbed positions are what was  *)
(* asked for, and parent_id runs in a circle only after a move under       *)
(* itself or two at once.                                                  *)
THEOREM TreesAreSound == TreeSpec => []NodeTreeTypeOK /\ TreeSound
<1>1. TreeInit => NodeTreeInv
  BY NodeTreeInit
<1>2. NodeTreeInv /\ [TreeNext]_treeVars => NodeTreeInv'
  BY NodeTreeStepInv
<1>3. NodeTreeInv => NodeTreeTypeOK
  <2> SUFFICES ASSUME NodeTreeInv PROVE NodeTreeTypeOK
    OBVIOUS
  <2>1. \A n \in DOMAIN tree : tree[n].pos \in Nat /\ (tree[n].parent = Nil <=> n = Root)
    BY DEF NodeTreeInv, TreeRows
  <2>2. \A r \in Request : edit[r].pc \in EditPc /\ edit[r].at \in Nat \cup {Nil}
    BY DEF NodeTreeInv, Fit, EditShape
  <2> QED
    BY <2>1, <2>2 DEF NodeTreeInv, TreeRows, NodeTreeTypeOK
<1>4. NodeTreeInv => LoopsExplained
  BY DEF NodeTreeInv, LoopsExplained, Circle, Straight
<1>5. NodeTreeInv /\ [TreeNext]_treeVars => [\A r \in Request : LastPlaced(r)]_treeVars
  BY PlacedLastStep
<1>6. NodeTreeInv /\ [TreeNext]_treeVars => [\A r \in Request : ExactlyOrdered(r)]_treeVars
  BY ReorderExactStep
<1>7. TreeSpec => PlacedLast
  BY <1>1, <1>2, <1>5, PTL DEF TreeSpec, PlacedLast, LastPlaced
<1>8. TreeSpec => ReorderExact
  BY <1>1, <1>2, <1>6, PTL DEF TreeSpec, ReorderExact, ExactlyOrdered
<1>9. TreeSpec => []NodeTreeTypeOK /\ []LoopsExplained
  BY <1>1, <1>2, <1>3, <1>4, PTL DEF TreeSpec
<1> QED
  BY <1>7, <1>8, <1>9 DEF TreeSound

HIDE DEF EditAt

-----------------------------------------------------------------------------
(***************************************************************************)
(* PlanCopies. Proof that a copy of a plan, a fork or a blueprint used, is *)
(* the whole plan, for any plans and requests.                             *)
(*                                                                         *)
(* The invariant says how far the request has come with what it copies:    *)
(* which nodes are stored, that each has its parent's copy above it, and   *)
(* which edges are left to store.                                          *)
(***************************************************************************)
(* What is copied: a tree in which every parent is there, and edges        *)
(* between its nodes. The edges of a direct fork are not known.            *)
Payload(w) ==
  LET N == DOMAIN w.tree
  IN  /\ w.tree = [n \in N |-> w.tree[n]]
      /\ w.needs = Nil \/ w.needs \subseteq N \X N
      /\ N = {} => w.needs = {}

(* Where the pass of a fork is, and what it has stored *)
ForkAt(q) ==
  LET N == DOMAIN q.of.tree
  IN  /\ q.pc \in {"nodes", "parents", "edges"} => Payload(q.of)
      /\ q.pc = "nodes" => q.todo \subseteq N /\ q.rows = [n \in N \ q.todo |-> Nil] /\ q.edges = {}
      /\ q.pc = "parents" => /\ q.todo \subseteq N /\ q.edges = {}
                             /\ q.rows = [n \in N |-> IF n \in q.todo THEN Nil ELSE q.of.tree[n]]
      /\ q.pc = "edges" => /\ q.rows = q.of.tree
                           /\ q.of.needs = Nil => q.edges = {}
                           /\ q.of.needs # Nil => q.todo \subseteq q.of.needs /\ q.edges = q.of.needs \ q.todo
      /\ q.pc = "done" => q.rows = q.of.tree /\ q.edges = q.of.needs
      /\ q.pc = "failed" => \/ q.of.needs = Nil
                            \/ \E m, n \in N : m # n /\ Caption[m] = Caption[n]

CopySlot(q) ==
  /\ DOMAIN q = {"pc", "of", "rows", "edges", "todo"}
  /\ q.pc \in CopyPc
  /\ q.edges \subseteq (DOMAIN q.rows) \X (DOMAIN q.rows)
  /\ ForkAt(q)

CopiesInv ==
  /\ DOMAIN layout \subseteq Original /\ needs \subseteq (DOMAIN layout) \X (DOMAIN layout)
  /\ layout = [n \in DOMAIN layout |-> layout[n]]
  /\ snapshot # Nil => snapshot = [n \in DOMAIN snapshot |-> snapshot[n]]
  /\ blueprint # Nil => Payload(blueprint)
  /\ DOMAIN copy = Copier /\ \A r \in Copier : CopySlot(copy[r])

USE DEF CopyAt

LEMMA CopiesInitInv == CopiesInit => CopiesInv
<1> SUFFICES ASSUME CopiesInit PROVE CopiesInv
  OBVIOUS
<1>1. CopySlot(NoCopy)
  BY DEF NoCopy, CopySlot, ForkAt, CopyPc
<1> QED
  BY <1>1, CopiesAssumption DEF CopiesInit, CopiesInv

(* One fork goes on, and nothing else. *)
LEMMA ForkMoves ==
  ASSUME CopiesInv, NEW r \in Copier, NEW new, CopySlot(new), copy' = [copy EXCEPT ![r] = new],
         UNCHANGED <<layout, needs, blueprint, snapshot, alters>>
  PROVE  CopiesInv'
<1>1. DOMAIN copy' = Copier /\ \A q \in Copier : CopySlot(copy'[q])
  BY DEF CopiesInv
<1> QED
  BY <1>1 DEF CopiesInv

LEMMA RootedTree ==
  ASSUME NEW t
  PROVE  /\ DOMAIN Rooted(t) = DOMAIN t
         /\ Rooted(t) = [n \in DOMAIN Rooted(t) |-> Rooted(t)[n]]
  BY DEF Rooted

LEMMA NewFork ==
  ASSUME CopiesInv, NEW r \in Copier, NEW what, Payload(what), NewCopy(r, what),
         UNCHANGED <<layout, needs, blueprint, snapshot, alters>>
  PROVE  CopiesInv'
<1>1. PICK new : new = [NoCopy EXCEPT !.of = what, !.todo = DOMAIN what.tree,
                           !.pc = IF what.tree = <<>> THEN "done" ELSE "nodes"]
  OBVIOUS
<1>2. /\ new.of = what /\ new.todo = DOMAIN what.tree /\ new.rows = <<>> /\ new.edges = {}
      /\ new.pc = IF what.tree = <<>> THEN "done" ELSE "nodes"
      /\ DOMAIN new = {"pc", "of", "rows", "edges", "todo"}
  BY <1>1 DEF NoCopy
<1>3. new.rows = [n \in {} |-> Nil]
  BY <1>2
<1>4. CopySlot(new)
  <2>1. CASE what.tree = <<>>
    <3>1. DOMAIN what.tree = {}
      BY <2>1
    <3>2. what.needs = {}
      BY <3>1 DEF Payload
    <3> QED
      BY <1>2, <2>1, <3>2 DEF CopySlot, ForkAt, CopyPc
  <2>2. CASE what.tree # <<>>
    <3>1. new.pc = "nodes" /\ DOMAIN new.of.tree \ new.todo = {}
      BY <1>2, <2>2
    <3> QED
      BY <1>2, <1>3, <3>1 DEF CopySlot, ForkAt, CopyPc
  <2> QED
    BY <2>1, <2>2
<1>5. copy' = [copy EXCEPT ![r] = new]
  BY <1>1 DEF NewCopy
<1> QED
  BY <1>4, <1>5, ForkMoves

LEMMA StartForkInv ==
  ASSUME CopiesInv, NEW r \in Copier, StartFork(r)
  PROVE  CopiesInv'
<1>1. CASE blueprint # Nil /\ NewCopy(r, blueprint)
  BY <1>1, NewFork DEF StartFork, CopiesInv
<1>2. CASE NewCopy(r, [tree |-> Rooted(layout), needs |-> IF layout = <<>> THEN {} ELSE Nil])
  <2>1. PICK w : w = [tree |-> Rooted(layout), needs |-> IF layout = <<>> THEN {} ELSE Nil]
    OBVIOUS
  <2>2. w.tree = Rooted(layout) /\ w.needs = IF layout = <<>> THEN {} ELSE Nil
    BY <2>1
  <2>3. DOMAIN layout = {} => layout = <<>>
    BY DEF CopiesInv
  <2>4. Payload(w)
    BY <2>2, <2>3, RootedTree DEF Payload
  <2> QED
    BY <1>2, <2>1, <2>4, NewFork DEF StartFork
<1> QED
  BY <1>1, <1>2 DEF StartFork

LEMMA InsertCopiesInv ==
  ASSUME CopiesInv, NEW r \in Copier, InsertCopies(r)
  PROVE  CopiesInv'
<1> DEFINE q == copy[r]
<1>1. CopySlot(q) /\ q.pc = "nodes"
  BY DEF InsertCopies, CopiesInv
<1>2. PICK n \in q.todo :
        IF \E m \in DOMAIN q.rows : Caption[m] = Caption[n]
        THEN copy' = [copy EXCEPT ![r].pc = "failed"]
        ELSE Pass(r, [q EXCEPT !.rows = Updated(@, [x \in {n} |-> Nil]), !.todo = @ \ {n}],
                  "parents", DOMAIN q.of.tree)
  BY DEF InsertCopies
<1>3. UNCHANGED <<layout, needs, blueprint, snapshot, alters>>
  BY DEF InsertCopies
<1>4. /\ Payload(q.of) /\ q.todo \subseteq DOMAIN q.of.tree /\ q.edges = {}
      /\ q.rows = [m \in DOMAIN q.of.tree \ q.todo |-> Nil]
  BY <1>1 DEF CopySlot, ForkAt
<1>5. CASE \E m \in DOMAIN q.rows : Caption[m] = Caption[n]
  <2>1. PICK new : new = [q EXCEPT !.pc = "failed"]
    OBVIOUS
  <2>2. copy' = [copy EXCEPT ![r] = new]
    BY <1>2, <1>5, <2>1
  <2>3. /\ new.pc = "failed" /\ new.of = q.of /\ new.edges = q.edges /\ new.rows = q.rows
        /\ DOMAIN new = DOMAIN q
    BY <1>1, <2>1 DEF CopySlot
  <2>4. \E m, k \in DOMAIN q.of.tree : m # k /\ Caption[m] = Caption[k]
    BY <1>4, <1>5
  <2>5. CopySlot(new)
    BY <1>1, <2>3, <2>4 DEF CopySlot, ForkAt, CopyPc
  <2> QED
    BY <1>3, <2>2, <2>5, ForkMoves
<1>6. CASE ~ \E m \in DOMAIN q.rows : Caption[m] = Caption[n]
  <2>1. PICK mid : mid = [q EXCEPT !.rows = Updated(q.rows, [x \in {n} |-> Nil]), !.todo = q.todo \ {n}]
    OBVIOUS
  <2>2. Pass(r, mid, "parents", DOMAIN q.of.tree)
    BY <1>2, <1>6, <2>1
  <2>3. /\ mid.pc = "nodes" /\ mid.of = q.of /\ mid.edges = {} /\ mid.todo = q.todo \ {n}
        /\ mid.rows = Updated(q.rows, [x \in {n} |-> Nil])
        /\ DOMAIN mid = {"pc", "of", "rows", "edges", "todo"}
    BY <1>1, <1>4, <2>1 DEF CopySlot
  <2>4. mid.rows = [m \in DOMAIN q.of.tree \ mid.todo |-> Nil]
    BY <1>4, <2>3 DEF Updated
  <2>5. CASE mid.todo # {}
    <3>1. CopySlot(mid)
      BY <1>4, <2>3, <2>4 DEF CopySlot, ForkAt, CopyPc
    <3>2. copy' = [copy EXCEPT ![r] = mid]
      BY <2>2, <2>5 DEF Pass
    <3> QED
      BY <1>3, <3>1, <3>2, ForkMoves
  <2>6. CASE mid.todo = {}
    <3>1. PICK new : new = [mid EXCEPT !.pc = "parents", !.todo = DOMAIN q.of.tree]
      OBVIOUS
    <3>2. copy' = [copy EXCEPT ![r] = new]
      BY <2>2, <2>6, <3>1 DEF Pass
    <3>3. /\ new.pc = "parents" /\ new.of = q.of /\ new.edges = {} /\ new.todo = DOMAIN q.of.tree
          /\ new.rows = mid.rows /\ DOMAIN new = {"pc", "of", "rows", "edges", "todo"}
      BY <2>3, <3>1
    <3>4. new.rows = [m \in DOMAIN q.of.tree |-> IF m \in new.todo THEN Nil ELSE q.of.tree[m]]
      BY <2>4, <2>6, <3>3
    <3>5. CopySlot(new)
      BY <1>4, <3>3, <3>4 DEF CopySlot, ForkAt, CopyPc
    <3> QED
      BY <1>3, <3>2, <3>5, ForkMoves
  <2> QED
    BY <2>5, <2>6
<1> QED
  BY <1>5, <1>6

LEMMA SetParentsInv ==
  ASSUME CopiesInv, NEW r \in Copier, SetParents(r)
  PROVE  CopiesInv'
<1> DEFINE q == copy[r]
           N == DOMAIN q.of.tree
<1>1. CopySlot(q) /\ q.pc = "parents"
  BY DEF SetParents, CopiesInv
<1>2. PICK n \in q.todo :
        Pass(r, [q EXCEPT !.rows[n] = q.of.tree[n], !.todo = @ \ {n}],
             "edges", IF q.of.needs = Nil THEN {} ELSE q.of.needs)
  BY DEF SetParents
<1>3. UNCHANGED <<layout, needs, blueprint, snapshot, alters>>
  BY DEF SetParents
<1>4. /\ Payload(q.of) /\ q.todo \subseteq N /\ q.edges = {}
      /\ q.rows = [m \in N |-> IF m \in q.todo THEN Nil ELSE q.of.tree[m]]
  BY <1>1 DEF CopySlot, ForkAt
<1>5. PICK mid : mid = [q EXCEPT !.rows[n] = q.of.tree[n], !.todo = q.todo \ {n}]
  OBVIOUS
<1>6. Pass(r, mid, "edges", IF q.of.needs = Nil THEN {} ELSE q.of.needs)
  BY <1>2, <1>5
<1>7. /\ mid.pc = "parents" /\ mid.of = q.of /\ mid.edges = {} /\ mid.todo = q.todo \ {n}
      /\ mid.rows = [q.rows EXCEPT ![n] = q.of.tree[n]]
      /\ DOMAIN mid = {"pc", "of", "rows", "edges", "todo"}
  BY <1>1, <1>4, <1>5 DEF CopySlot
<1>8. mid.rows = [m \in N |-> IF m \in mid.todo THEN Nil ELSE q.of.tree[m]]
  BY <1>4, <1>7
<1>9. CASE mid.todo # {}
  <2>1. CopySlot(mid)
    BY <1>4, <1>7, <1>8 DEF CopySlot, ForkAt, CopyPc
  <2>2. copy' = [copy EXCEPT ![r] = mid]
    BY <1>6, <1>9 DEF Pass
  <2> QED
    BY <1>3, <2>1, <2>2, ForkMoves
<1>10. CASE mid.todo = {}
  <2>1. PICK new : new = [mid EXCEPT !.pc = "edges", !.todo = IF q.of.needs = Nil THEN {} ELSE q.of.needs]
    OBVIOUS
  <2>2. copy' = [copy EXCEPT ![r] = new]
    BY <1>6, <1>10, <2>1 DEF Pass
  <2>3. /\ new.pc = "edges" /\ new.of = q.of /\ new.edges = {} /\ new.rows = mid.rows
        /\ new.todo = IF q.of.needs = Nil THEN {} ELSE q.of.needs
        /\ DOMAIN new = {"pc", "of", "rows", "edges", "todo"}
    BY <1>7, <2>1
  <2>4. new.rows = q.of.tree
    <3>1. new.rows = [m \in N |-> q.of.tree[m]]
      BY <1>8, <1>10, <2>3
    <3> QED
      BY <1>4, <3>1 DEF Payload
  <2>5. CopySlot(new)
    BY <1>4, <2>3, <2>4 DEF CopySlot, ForkAt, CopyPc
  <2> QED
    BY <1>3, <2>2, <2>5, ForkMoves
<1> QED
  BY <1>9, <1>10

LEMMA InsertEdgesInv ==
  ASSUME CopiesInv, NEW r \in Copier, InsertEdges(r)
  PROVE  CopiesInv'
<1> DEFINE q == copy[r]
<1>1. CopySlot(q) /\ q.pc = "edges"
  BY DEF InsertEdges, CopiesInv
<1>2. UNCHANGED <<layout, needs, blueprint, snapshot, alters>>
  BY DEF InsertEdges
<1>3. /\ Payload(q.of) /\ q.rows = q.of.tree /\ DOMAIN q = {"pc", "of", "rows", "edges", "todo"}
      /\ q.of.needs = Nil => q.edges = {}
      /\ q.of.needs # Nil => q.todo \subseteq q.of.needs /\ q.edges = q.of.needs \ q.todo
  BY <1>1 DEF CopySlot, ForkAt
<1>4. ASSUME NEW p \in {"failed", "done"}, copy' = [copy EXCEPT ![r].pc = p],
             p = "failed" => q.of.needs = Nil, p = "done" => q.of.needs = {}
      PROVE  CopiesInv'
  <2>1. PICK new : new = [q EXCEPT !.pc = p]
    OBVIOUS
  <2>2. copy' = [copy EXCEPT ![r] = new]
    BY <1>4, <2>1
  <2>3. /\ new.pc = p /\ new.of = q.of /\ new.edges = q.edges /\ new.rows = q.rows
        /\ DOMAIN new = DOMAIN q
    BY <1>3, <2>1
  <2>4. p = "done" => q.edges = {}
    BY <1>3, <1>4
  <2>5. CopySlot(new)
    BY <1>1, <1>3, <1>4, <2>3, <2>4 DEF CopySlot, ForkAt, CopyPc
  <2> QED
    BY <1>2, <2>2, <2>5, ForkMoves
<1>5. CASE q.of.needs \notin {Nil, {}} /\ \E e \in q.todo :
             Pass(r, [q EXCEPT !.edges = @ \cup {e}, !.todo = @ \ {e}], "done", {})
  <2>1. PICK e \in q.todo : Pass(r, [q EXCEPT !.edges = @ \cup {e}, !.todo = @ \ {e}], "done", {})
    BY <1>5
  <2>2. PICK mid : mid = [q EXCEPT !.edges = q.edges \cup {e}, !.todo = q.todo \ {e}]
    OBVIOUS
  <2>3. Pass(r, mid, "done", {})
    BY <2>1, <2>2
  <2>4. /\ mid.pc = "edges" /\ mid.of = q.of /\ mid.edges = q.edges \cup {e}
        /\ mid.todo = q.todo \ {e} /\ mid.rows = q.rows
        /\ DOMAIN mid = {"pc", "of", "rows", "edges", "todo"}
    BY <1>1, <1>3, <2>2
  <2>5. /\ mid.todo \subseteq q.of.needs /\ mid.edges = q.of.needs \ mid.todo
        /\ q.of.needs \subseteq (DOMAIN mid.rows) \X (DOMAIN mid.rows)
    BY <1>3, <1>5, <2>4 DEF Payload
  <2>6. CASE mid.todo # {}
    <3>1. CopySlot(mid)
      BY <1>3, <1>5, <2>4, <2>5 DEF CopySlot, ForkAt, CopyPc
    <3>2. copy' = [copy EXCEPT ![r] = mid]
      BY <2>3, <2>6 DEF Pass
    <3> QED
      BY <1>2, <3>1, <3>2, ForkMoves
  <2>7. CASE mid.todo = {}
    <3>1. PICK new : new = [mid EXCEPT !.pc = "done", !.todo = {}]
      OBVIOUS
    <3>2. copy' = [copy EXCEPT ![r] = new]
      BY <2>3, <2>7, <3>1 DEF Pass
    <3>3. /\ new.pc = "done" /\ new.of = q.of /\ new.edges = mid.edges /\ new.rows = q.rows
          /\ DOMAIN new = {"pc", "of", "rows", "edges", "todo"}
      BY <2>4, <3>1
    <3>4. CopySlot(new)
      BY <1>3, <2>4, <2>5, <2>7, <3>3 DEF CopySlot, ForkAt, CopyPc
    <3> QED
      BY <1>2, <3>2, <3>4, ForkMoves
  <2> QED
    BY <2>6, <2>7
<1> QED
  BY <1>4, <1>5 DEF InsertEdges

LEMMA CrashCopiesInv ==
  ASSUME CopiesInv, CrashCopies
  PROVE  CopiesInv'
<1>1. /\ UNCHANGED <<layout, needs, blueprint, alters>> /\ snapshot' = Nil
      /\ copy' = [r \in Copier |-> IF copy[r].pc \in {"nodes", "parents", "edges"}
                                THEN [copy[r] EXCEPT !.pc = "stopped"] ELSE copy[r]]
  BY DEF CrashCopies
<1>2. ASSUME NEW r \in Copier PROVE CopySlot(copy'[r])
  <2>1. CopySlot(copy[r])
    BY DEF CopiesInv
  <2>2. CASE copy[r].pc \in {"nodes", "parents", "edges"}
    <3>1. PICK new : new = [copy[r] EXCEPT !.pc = "stopped"]
      OBVIOUS
    <3>2. copy'[r] = new
      BY <1>1, <2>2, <3>1
    <3>3. new.pc = "stopped" /\ new.edges = copy[r].edges /\ new.rows = copy[r].rows /\ DOMAIN new = DOMAIN copy[r]
      BY <2>1, <3>1 DEF CopySlot
    <3> QED
      BY <2>1, <3>2, <3>3 DEF CopySlot, ForkAt, CopyPc
  <2>3. CASE copy[r].pc \notin {"nodes", "parents", "edges"}
    BY <1>1, <2>1, <2>3
  <2> QED
    BY <2>2, <2>3
<1> QED
  BY <1>1, <1>2 DEF CopiesInv

LEMMA PlanChangesInv ==
  ASSUME CopiesInv, LinkOriginal \/ DeleteOriginal \/ SnapshotNodes \/ SnapshotEdges
  PROVE  CopiesInv'
<1>1. CASE LinkOriginal
  BY <1>1 DEF LinkOriginal, CopiesInv
<1>2. CASE DeleteOriginal
  <2>1. PICK n \in DOMAIN layout : /\ layout' = Without(layout, {n})
                                   /\ needs' = {e \in needs : n \notin {e[1], e[2]}}
    BY <1>2 DEF DeleteOriginal
  <2>2. DOMAIN layout' = DOMAIN layout \ {n} /\ layout' = [m \in DOMAIN layout' |-> layout'[m]]
    BY <2>1 DEF Without
  <2>3. DOMAIN layout' \subseteq Original /\ needs' \subseteq (DOMAIN layout') \X (DOMAIN layout')
    BY <2>1, <2>2 DEF CopiesInv
  <2> QED
    BY <1>2, <2>2, <2>3 DEF DeleteOriginal, CopiesInv
<1>3. CASE SnapshotNodes
  BY <1>3, RootedTree DEF SnapshotNodes, CopiesInv
<1>4. CASE SnapshotEdges
  <2>1. PICK w : w = [tree |-> snapshot, needs |-> needs \cap ((DOMAIN snapshot) \X (DOMAIN snapshot))]
    OBVIOUS
  <2>2. blueprint' = w /\ snapshot # Nil
    BY <1>4, <2>1 DEF SnapshotEdges
  <2>3. w.tree = snapshot /\ w.needs = needs \cap ((DOMAIN snapshot) \X (DOMAIN snapshot))
    BY <2>1
  <2>4. Payload(w)
    BY <2>2, <2>3 DEF Payload, CopiesInv
  <2> QED
    BY <1>4, <2>2, <2>4 DEF SnapshotEdges, CopiesInv
<1> QED
  BY <1>1, <1>2, <1>3, <1>4

LEMMA CopiesStepInv == CopiesInv /\ [CopiesNext]_copyVars => CopiesInv'
<1> SUFFICES ASSUME CopiesInv, [CopiesNext]_copyVars PROVE CopiesInv'
  OBVIOUS
<1>1. CASE UNCHANGED copyVars
  BY <1>1 DEF copyVars, CopiesInv
<1>2. CASE CopiesNext
  BY <1>2, StartForkInv, InsertCopiesInv, SetParentsInv, InsertEdgesInv, CrashCopiesInv, PlanChangesInv
     DEF CopiesNext
<1> QED
  BY <1>1, <1>2

(* A fork that succeeds has every node, under its parent, and every edge   *)
(* of what it copies, however the plan was edited meanwhile, and one that  *)
(* fails has a reason (snapshotPlan, forkPlanScope).                       *)
THEOREM CopiesAreWhole == CopiesSpec => []PlanCopiesTypeOK /\ []CopyWhole
<1>1. CopiesInv => PlanCopiesTypeOK /\ CopyWhole
  BY DEF CopiesInv, CopySlot, ForkAt, PlanCopiesTypeOK, CopyWhole
<1> QED
  BY <1>1, CopiesInitInv, CopiesStepInv, PTL DEF CopiesSpec

HIDE DEF CopyAt

-----------------------------------------------------------------------------
(***************************************************************************)
(* Intentions. Proof that a plan the goal shows is the whole outline, and  *)
(* that what an agent is told of its dependencies and tasks is what was    *)
(* stored, for any outlines and requests.                                  *)
(*                                                                         *)
(* The invariant follows the request through the nodes, the link to the    *)
(* goal, the cascade to its tasks and the dependencies: what is stored at  *)
(* each step, but for what others deleted or added.                        *)
(***************************************************************************)
Outline(o) == Len(o) \in Nat /\ o = [i \in 1 .. Len(o) |-> o[i]]

Called(o, name, i) == name = o[i].ref \/ Titled(o, name) = {i}
IntentFields == {"pc", "of", "rows", "next", "linked", "todo", "achieves", "edges", "warned", "rejected",
           "added", "removed", "broke"}

(* What is stored of an outline *)
Stored(o, rows, removed) ==
  /\ DOMAIN rows \subseteq DOMAIN o /\ removed \subseteq DOMAIN o
  /\ DOMAIN rows \cap removed = {}
  /\ \A i \in DOMAIN rows : rows[i] = [up |-> o[i].up, pos |-> Place(o, i)]

(* How far the request is *)
StoredSoFar(q) ==
  /\ q.pc \in {"idle", "root"} => DOMAIN q.rows = {} /\ q.removed = {} /\ q.next = 1
  /\ q.pc = "nodes" => /\ q.next \in 1 .. Len(q.of)
                       /\ (DOMAIN q.rows) \cup q.removed = 1 .. q.next - 1
  /\ q.linked => q.pc \in {"tasks", "achieve", "depend", "done", "stopped"}
  /\ q.linked \/ q.pc \in {"link", "tasks", "achieve", "depend", "done"} =>
       DOMAIN q.rows = DOMAIN q.of \ q.removed
  /\ q.pc = "failed" => \E i, j \in DOMAIN q.of :
       i < j /\ q.of[i].up = q.of[j].up /\ q.of[i].title = q.of[j].title

TasksOf(q) == {i \in DOMAIN q.rows : q.of[i].type = "task"}
Achieving(q) ==
  /\ q.pc = "achieve" => TasksOf(q) \subseteq q.achieves \cup q.todo
  /\ q.pc \in {"depend", "done"} => q.broke \/ TasksOf(q) \subseteq q.achieves

(* Before the dependencies are written all edges are those of others; then *)
(* each one that was asked for is there, or its absence has a reason.      *)
Depending(q) ==
  /\ q.edges \subseteq (DOMAIN q.rows) \X (DOMAIN q.rows)
  /\ q.pc # "done" => q.edges \subseteq q.added
  /\ q.pc = "done" =>
       /\ \A a \in Asked(q.of) :
            \/ a \in q.warned \/ q.rejected \/ a.by \in q.removed
            \/ \E i \in DOMAIN q.of : Called(q.of, a.name, i) /\ <<i, a.by>> \in q.edges
            \/ \E i \in q.removed : Called(q.of, a.name, i)
       /\ \A e \in q.edges \ q.added : \E a \in Asked(q.of) : a.by = e[2] /\ Called(q.of, a.name, e[1])

IntentOK(q) ==
  /\ DOMAIN q = IntentFields /\ q.pc \in IntentPc
  /\ Outline(q.of) /\ Stored(q.of, q.rows, q.removed)
  /\ StoredSoFar(q) /\ Achieving(q) /\ Depending(q)

IntentionsInv == DOMAIN intent = Planner /\ \A r \in Planner : IntentOK(intent[r])

USE DEF IntentAt

LEMMA NewestThere ==
  ASSUME NEW n \in Nat, NEW S, S \subseteq 1 .. n, S # {}
  PROVE  Newest(S) \in S
<1> DEFINE T == {n - i : i \in S}
<1>1. T \subseteq Nat /\ T # {}
  <2>1. \A i \in S : i \in 1 .. n /\ n - i \in Nat
    OBVIOUS
  <2> QED
    BY <2>1
<1>2. PICK x \in T : \A y \in T : x <= y
  BY <1>1, SmallestNat
<1>3. PICK i \in S : x = n - i
  OBVIOUS
<1>4. \A j \in S : j <= i
  BY <1>2, <1>3
<1> QED
  BY <1>4 DEF Newest

(* What a reference is resolved to bears it, or has that title alone. *)
LEMMA ResolvedIsCalled ==
  ASSUME NEW o, Outline(o), NEW name, ResolveRef(o, name) # Nil
  PROVE  /\ ResolveRef(o, name) \in DOMAIN o
         /\ Called(o, name, ResolveRef(o, name))
<1>1. DOMAIN o = 1 .. Len(o) /\ Len(o) \in Nat
  BY DEF Outline
<1>2. CASE Keyed(o, name) # {}
  <2>1. ResolveRef(o, name) = Newest(Keyed(o, name))
    BY <1>2 DEF ResolveRef
  <2>2. Newest(Keyed(o, name)) \in Keyed(o, name)
    BY <1>1, <1>2, NewestThere DEF Keyed
  <2> QED
    BY <2>1, <2>2 DEF Keyed, Called
<1>3. CASE Keyed(o, name) = {} /\ Cardinality(Titled(o, name)) = 1
  <2>1. ResolveRef(o, name) = Newest(Titled(o, name))
    BY <1>3 DEF ResolveRef
  <2>2. Titled(o, name) \subseteq 1 .. Len(o)
    BY <1>1 DEF Titled
  <2>3. IsFiniteSet(Titled(o, name))
    <3>1. \A n \in Nat : IsFiniteSet(1 .. n)
      BY FS_Interval
    <3> QED
      BY <1>1, <2>2, <3>1, FS_Subset
  <2>4. PICK x : Titled(o, name) = {x}
    BY <1>3, <2>3, FS_Singleton
  <2>5. Newest(Titled(o, name)) = x
    BY <1>1, <2>2, <2>4, NewestThere
  <2> QED
    BY <1>1, <2>1, <2>2, <2>4, <2>5 DEF Called
<1>4. CASE Keyed(o, name) = {} /\ Cardinality(Titled(o, name)) # 1
  BY <1>4 DEF ResolveRef
<1> QED
  BY <1>2, <1>3, <1>4

LEMMA IntentionsInitInv == IntentionsInit => IntentionsInv
<1>1. IntentOK(NoIntent)
  BY DEF NoIntent, IntentOK, IntentFields, IntentPc, Outline, Stored, StoredSoFar, Achieving, Depending, TasksOf
<1> QED
  BY <1>1 DEF IntentionsInit, IntentionsInv

LEMMA IntentMoves ==
  ASSUME IntentionsInv, NEW r \in Planner, NEW new, IntentOK(new), Becomes(r, new)
  PROVE  IntentionsInv'
  BY DEF IntentionsInv, Becomes

LEMMA HandInInv ==
  ASSUME IntentionsInv, NEW r \in Planner, HandIn(r)
  PROVE  IntentionsInv'
<1>1. PICK o \in Outlines : Becomes(r, [NoIntent EXCEPT !.pc = "root", !.of = o])
  BY DEF HandIn
<1>2. PICK new : new = [NoIntent EXCEPT !.pc = "root", !.of = o]
  OBVIOUS
<1>3. /\ new.pc = "root" /\ new.of = o /\ new.rows = <<>> /\ new.removed = {} /\ new.next = 1
      /\ new.edges = {} /\ new.linked = FALSE /\ DOMAIN new = IntentFields
  BY <1>2 DEF NoIntent, IntentFields
<1>4. Outline(o)
  BY IntentionsAssumption DEF Outline
<1>5. IntentOK(new)
  BY <1>3, <1>4 DEF IntentOK, IntentPc, Stored, StoredSoFar, Achieving, Depending
<1> QED
  BY <1>1, <1>2, <1>5, IntentMoves

LEMMA CreateIntentRootInv ==
  ASSUME IntentionsInv, NEW r \in Planner, CreateIntentRoot(r)
  PROVE  IntentionsInv'
<1>1. PICK q : q = intent[r]
  OBVIOUS
<1>2. IntentOK(q) /\ q.pc = "root"
  BY <1>1 DEF CreateIntentRoot, IntentionsInv
<1>3. PICK new : new = [q EXCEPT !.pc = IF q.of = <<>> THEN "link" ELSE "nodes"]
  OBVIOUS
<1>4. Becomes(r, new)
  BY <1>1, <1>3 DEF CreateIntentRoot
<1>5. /\ new.pc = IF q.of = <<>> THEN "link" ELSE "nodes"
      /\ new.of = q.of /\ new.rows = q.rows /\ new.removed = q.removed /\ new.next = q.next
      /\ new.edges = q.edges /\ new.linked = q.linked /\ new.added = q.added /\ DOMAIN new = IntentFields
  BY <1>2, <1>3 DEF IntentOK, IntentFields
<1>6. /\ DOMAIN q.rows = {} /\ q.removed = {} /\ q.next = 1 /\ ~q.linked
  BY <1>2 DEF IntentOK, StoredSoFar
<1>7. /\ q.of = <<>> => DOMAIN q.of = {}
      /\ q.of # <<>> => 1 \in 1 .. Len(q.of)
  <2>1. Len(q.of) = 0 => q.of = <<>>
    BY <1>2 DEF IntentOK, Outline
  <2> QED
    BY <1>2, <2>1 DEF IntentOK, Outline
<1>8. StoredSoFar(new)
  BY <1>5, <1>6, <1>7 DEF StoredSoFar
<1>9. IntentOK(new)
  BY <1>2, <1>5, <1>8 DEF IntentOK, IntentPc, Stored, Achieving, Depending
<1> QED
  BY <1>4, <1>9, IntentMoves

LEMMA CreateChildInv ==
  ASSUME IntentionsInv, NEW r \in Planner, CreateChild(r)
  PROVE  IntentionsInv'
<1>1. PICK q : q = intent[r]
  OBVIOUS
<1>2. IntentOK(q) /\ q.pc = "nodes"
  BY <1>1 DEF CreateChild, IntentionsInv
<1>3. PICK i : i = q.next
  OBVIOUS
<1> DEFINE o == q.of
           Clash == \E j \in DOMAIN q.rows : o[j].up = o[i].up /\ o[j].title = o[i].title /\ o[j].type = o[i].type
           row == [up |-> o[i].up, pos |-> Place(o, i)]
<1>4. /\ Clash => Becomes(r, [q EXCEPT !.pc = "failed"])
      /\ ~Clash => Becomes(r, [q EXCEPT !.rows = Updated(q.rows, [x \in {i} |-> row]), !.next = i + 1,
                                        !.pc = IF i = Len(o) THEN "link" ELSE "nodes"])
  BY <1>1, <1>3 DEF CreateChild
<1>5. /\ i \in 1 .. Len(o) /\ Len(o) \in Nat /\ DOMAIN o = 1 .. Len(o)
      /\ (DOMAIN q.rows) \cup q.removed = 1 .. i - 1 /\ ~q.linked
  BY <1>2, <1>3 DEF IntentOK, StoredSoFar, Outline
<1>6. CASE Clash
  <2>1. PICK new : new = [q EXCEPT !.pc = "failed"]
    OBVIOUS
  <2>2. /\ new.pc = "failed" /\ new.of = q.of /\ new.rows = q.rows /\ new.removed = q.removed
        /\ new.next = q.next /\ new.linked = q.linked /\ new.todo = q.todo /\ new.achieves = q.achieves
        /\ new.edges = q.edges /\ new.added = q.added /\ DOMAIN new = IntentFields
    BY <1>2, <2>1 DEF IntentOK, IntentFields
  <2>3. \E j, k \in DOMAIN o : j < k /\ o[j].up = o[k].up /\ o[j].title = o[k].title
    BY <1>5, <1>6
  <2>4. StoredSoFar(new)
    BY <1>5, <2>2, <2>3 DEF StoredSoFar
  <2>5. IntentOK(new)
    BY <1>2, <2>2, <2>4 DEF IntentOK, IntentPc, Achieving, Depending
  <2> QED
    BY <1>4, <1>6, <2>1, <2>5, IntentMoves
<1>7. CASE ~Clash
  <2>1. PICK new : new = [q EXCEPT !.rows = Updated(q.rows, [x \in {i} |-> row]), !.next = i + 1,
                                   !.pc = IF i = Len(o) THEN "link" ELSE "nodes"]
    OBVIOUS
  <2>2. /\ new.pc = IF i = Len(o) THEN "link" ELSE "nodes"
        /\ new.of = q.of /\ new.rows = Updated(q.rows, [x \in {i} |-> row]) /\ new.removed = q.removed
        /\ new.next = i + 1 /\ new.linked = q.linked
        /\ new.edges = q.edges /\ new.added = q.added /\ DOMAIN new = IntentFields
    BY <1>2, <2>1 DEF IntentOK, IntentFields
  <2>3. /\ DOMAIN new.rows = (DOMAIN q.rows) \cup {i}
        /\ new.rows[i] = row /\ \A j \in DOMAIN q.rows : j # i => new.rows[j] = q.rows[j]
    BY <2>2 DEF Updated
  <2>4. Stored(q.of, new.rows, q.removed)
    <3>1. Stored(q.of, q.rows, q.removed)
      BY <1>2 DEF IntentOK
    <3>2. i \notin q.removed /\ i \in DOMAIN o
      BY <1>5
    <3>3. (DOMAIN q.rows) \cup {i} \subseteq DOMAIN o /\ ((DOMAIN q.rows) \cup {i}) \cap q.removed = {}
      BY <3>1, <3>2 DEF Stored
    <3>4. ASSUME NEW j \in DOMAIN new.rows PROVE new.rows[j] = [up |-> o[j].up, pos |-> Place(o, j)]
      BY <2>3, <3>1 DEF Stored
    <3> QED
      BY <2>3, <3>1, <3>3, <3>4 DEF Stored
  <2>5. (DOMAIN new.rows) \cup q.removed = 1 .. i
    BY <1>5, <2>3
  <2>6. ASSUME i = Len(o) PROVE DOMAIN new.rows = DOMAIN o \ q.removed
    <3>1. (DOMAIN new.rows) \cap q.removed = {}
      BY <2>4 DEF Stored
    <3>2. (DOMAIN new.rows) \cup q.removed = DOMAIN o
      BY <1>5, <2>5, <2>6
    <3>3. \A x : x \in DOMAIN new.rows <=> x \in DOMAIN o /\ x \notin q.removed
      BY <3>1, <3>2
    <3> QED
      BY <3>3
  <2>7. StoredSoFar(new)
    <3>1. CASE i = Len(o)
      <4>1. new.pc = "link" /\ ~new.linked /\ new.of = q.of /\ new.removed = q.removed
        BY <1>5, <2>2, <3>1
      <4> QED
        BY <2>6, <3>1, <4>1 DEF StoredSoFar
    <3>2. CASE i # Len(o)
      <4>1. new.pc = "nodes" /\ ~new.linked /\ new.next \in 1 .. Len(o) /\ new.next - 1 = i
        BY <1>5, <2>2, <3>2
      <4>2. new.of = q.of /\ (DOMAIN new.rows) \cup new.removed = 1 .. new.next - 1
        BY <2>2, <2>5, <4>1
      <4> QED
        BY <4>1, <4>2 DEF StoredSoFar
    <3> QED
      BY <3>1, <3>2
  <2>8. Depending(new)
    BY <1>2, <2>2, <2>3 DEF IntentOK, Depending
  <2>9. IntentOK(new)
    BY <1>2, <2>2, <2>4, <2>7, <2>8 DEF IntentOK, IntentPc, Achieving
  <2> QED
    BY <1>4, <1>7, <2>1, <2>9, IntentMoves
<1> QED
  BY <1>6, <1>7
LEMMA LinkIntentionInv ==
  ASSUME IntentionsInv, NEW r \in Planner, LinkIntention(r)
  PROVE  IntentionsInv'
<1>1. PICK q : q = intent[r]
  OBVIOUS
<1>2. IntentOK(q) /\ q.pc = "link"
  BY <1>1 DEF LinkIntention, IntentionsInv
<1>3. PICK new : new = [q EXCEPT !.linked = TRUE, !.pc = "tasks"]
  OBVIOUS
<1>4. Becomes(r, new)
  BY <1>1, <1>3 DEF LinkIntention
<1>5. /\ new.pc = "tasks" /\ new.of = q.of /\ new.rows = q.rows /\ new.removed = q.removed
      /\ new.edges = q.edges /\ new.added = q.added /\ DOMAIN new = IntentFields
  BY <1>2, <1>3 DEF IntentOK, IntentFields
<1>6. DOMAIN q.rows = DOMAIN q.of \ q.removed
  BY <1>2 DEF IntentOK, StoredSoFar
<1>7. IntentOK(new)
  BY <1>2, <1>5, <1>6 DEF IntentOK, IntentPc, StoredSoFar, Achieving, Depending
<1> QED
  BY <1>4, <1>7, IntentMoves

LEMMA ListIntentTasksInv ==
  ASSUME IntentionsInv, NEW r \in Planner, ListIntentTasks(r)
  PROVE  IntentionsInv'
<1>1. PICK q : q = intent[r]
  OBVIOUS
<1>2. IntentOK(q) /\ q.pc = "tasks"
  BY <1>1 DEF ListIntentTasks, IntentionsInv
<1>3. PICK new : new = [q EXCEPT !.todo = TasksOf(q), !.pc = IF TasksOf(q) = {} THEN "depend" ELSE "achieve"]
  OBVIOUS
<1>4. Becomes(r, new)
  BY <1>1, <1>3 DEF ListIntentTasks, TasksOf
<1>5. /\ new.pc = IF TasksOf(q) = {} THEN "depend" ELSE "achieve"
      /\ new.of = q.of /\ new.rows = q.rows /\ new.removed = q.removed /\ new.todo = TasksOf(q)
      /\ new.edges = q.edges /\ new.added = q.added /\ DOMAIN new = IntentFields
  BY <1>2, <1>3 DEF IntentOK, IntentFields
<1>6. DOMAIN q.rows = DOMAIN q.of \ q.removed
  BY <1>2 DEF IntentOK, StoredSoFar
<1>7. TasksOf(new) = TasksOf(q)
  BY <1>5 DEF TasksOf
<1>8. Achieving(new)
  BY <1>5, <1>7 DEF Achieving
<1>9. StoredSoFar(new)
  BY <1>5, <1>6 DEF StoredSoFar
<1>10. IntentOK(new)
  BY <1>2, <1>5, <1>8, <1>9 DEF IntentOK, IntentPc, Depending
<1> QED
  BY <1>4, <1>10, IntentMoves

LEMMA AchieveNextInv ==
  ASSUME IntentionsInv, NEW r \in Planner, AchieveNext(r)
  PROVE  IntentionsInv'
<1>1. PICK q : q = intent[r]
  OBVIOUS
<1>2. IntentOK(q) /\ q.pc = "achieve"
  BY <1>1 DEF AchieveNext, IntentionsInv
<1>3. PICK i \in q.todo :
        LET last == i \notin DOMAIN q.rows \/ q.todo = {i}
        IN  Becomes(r, [q EXCEPT !.achieves = IF i \in DOMAIN q.rows THEN @ \cup {i} ELSE @,
                          !.broke = i \notin DOMAIN q.rows,
                          !.todo = IF last THEN {} ELSE @ \ {i},
                          !.pc = IF last THEN "depend" ELSE "achieve"])
  BY <1>1 DEF AchieveNext
<1> DEFINE last == i \notin DOMAIN q.rows \/ q.todo = {i}
<1>4. PICK new : new = [q EXCEPT !.achieves = IF i \in DOMAIN q.rows THEN q.achieves \cup {i} ELSE q.achieves,
                          !.broke = i \notin DOMAIN q.rows,
                          !.todo = IF last THEN {} ELSE q.todo \ {i},
                          !.pc = IF last THEN "depend" ELSE "achieve"]
  OBVIOUS
<1>5. Becomes(r, new)
  BY <1>3, <1>4
<1>6. /\ new.pc = IF last THEN "depend" ELSE "achieve"
      /\ new.of = q.of /\ new.rows = q.rows /\ new.removed = q.removed
      /\ new.todo = IF last THEN {} ELSE q.todo \ {i}
      /\ new.achieves = IF i \in DOMAIN q.rows THEN q.achieves \cup {i} ELSE q.achieves
      /\ new.broke = (i \notin DOMAIN q.rows)
      /\ new.edges = q.edges /\ new.added = q.added /\ DOMAIN new = IntentFields
  BY <1>2, <1>4 DEF IntentOK, IntentFields
<1>7. DOMAIN q.rows = DOMAIN q.of \ q.removed /\ TasksOf(q) \subseteq q.achieves \cup q.todo
  BY <1>2 DEF IntentOK, StoredSoFar, Achieving
<1>8. TasksOf(new) = TasksOf(q)
  BY <1>6 DEF TasksOf
<1>9. Achieving(new)
  <2>1. CASE i \notin DOMAIN q.rows
    BY <1>6, <2>1 DEF Achieving
  <2>2. CASE i \in DOMAIN q.rows /\ q.todo = {i}
    BY <1>6, <1>7, <1>8, <2>2 DEF Achieving
  <2>3. CASE i \in DOMAIN q.rows /\ q.todo # {i}
    BY <1>6, <1>7, <1>8, <2>3 DEF Achieving
  <2> QED
    BY <2>1, <2>2, <2>3
<1>10. StoredSoFar(new)
  BY <1>6, <1>7 DEF StoredSoFar
<1>11. IntentOK(new)
  BY <1>2, <1>6, <1>9, <1>10 DEF IntentOK, IntentPc, Depending
<1> QED
  BY <1>5, <1>11, IntentMoves

LEMMA AddDependenciesInv ==
  ASSUME IntentionsInv, NEW r \in Planner, AddDependencies(r)
  PROVE  IntentionsInv'
<1> DEFINE q == intent[r]
<1>2. IntentOK(q) /\ q.pc = "depend"
  BY DEF AddDependencies, IntentionsInv
<1> DEFINE found == [a \in Asked(q.of) |-> ResolveRef(q.of, a.name)]
           vain  == {a \in Asked(q.of) : found[a] \in {Nil, a.by}}
           Edge(a) == <<found[a], a.by>>
           sound == /\ \A a, b \in Asked(q.of) \ vain : Edge(a) = Edge(b) => a = b
                    /\ \A a \in Asked(q.of) \ vain :
                         /\ {a.by, found[a]} \subseteq DOMAIN q.rows /\ Edge(a) \notin q.edges
                         /\ ~Paths!Reach(q.edges, a.by, found[a])
           more == {Edge(a) : a \in Asked(q.of) \ vain}
<1>3. PICK new : new = [q EXCEPT !.pc = "done", !.warned = vain, !.rejected = ~sound,
                                 !.edges = IF sound THEN q.edges \cup more ELSE q.edges]
  OBVIOUS
<1>4. Becomes(r, new)
  BY <1>3 DEF AddDependencies
<1>5. sound => \A a \in Asked(q.of) \ vain : {a.by, found[a]} \subseteq DOMAIN q.rows
  OBVIOUS
<1>6. \A a \in Asked(q.of) \ vain : found[a] \in DOMAIN q.of /\ Called(q.of, a.name, found[a])
  BY <1>2, ResolvedIsCalled DEF IntentOK
<1> HIDE DEF sound
<1>7. /\ new.pc = "done" /\ new.of = q.of /\ new.rows = q.rows /\ new.removed = q.removed
      /\ new.warned = vain /\ new.rejected = ~sound /\ new.edges = IF sound THEN q.edges \cup more ELSE q.edges
      /\ new.achieves = q.achieves /\ new.broke = q.broke
      /\ new.added = q.added /\ DOMAIN new = IntentFields
  BY <1>2, <1>3 DEF IntentOK, IntentFields
<1> HIDE DEF found
<1>8. /\ q.edges \subseteq q.added /\ q.edges \subseteq (DOMAIN q.rows) \X (DOMAIN q.rows)
  BY <1>2 DEF IntentOK, Depending
<1>9. new.edges \subseteq (DOMAIN q.rows) \X (DOMAIN q.rows)
  BY <1>5, <1>7, <1>8
<1>10. ASSUME NEW a \in Asked(q.of)
       PROVE  \/ a \in new.warned \/ new.rejected
              \/ \E i \in DOMAIN q.of : Called(q.of, a.name, i) /\ <<i, a.by>> \in new.edges
  <2>1. CASE a \in vain \/ ~sound
    BY <1>7, <2>1
  <2>2. CASE a \notin vain /\ sound
    <3>1. Edge(a) \in new.edges
      BY <1>7, <2>2
    <3> QED
      BY <1>6, <2>2, <3>1
  <2> QED
    BY <2>1, <2>2
<1>11. \A e \in new.edges \ q.added : \E a \in Asked(q.of) : a.by = e[2] /\ Called(q.of, a.name, e[1])
  <2> SUFFICES ASSUME NEW e \in new.edges, e \notin q.added
               PROVE  \E a \in Asked(q.of) : a.by = e[2] /\ Called(q.of, a.name, e[1])
    OBVIOUS
  <2>1. e \in more
    BY <1>7, <1>8
  <2>2. PICK a \in Asked(q.of) \ vain : e = Edge(a)
    BY <2>1
  <2> QED
    BY <1>6, <2>2
<1>12. Depending(new)
  BY <1>7, <1>9, <1>10, <1>11 DEF Depending
<1>13. StoredSoFar(new) /\ Achieving(new)
  BY <1>2, <1>7 DEF IntentOK, StoredSoFar, Achieving, TasksOf
<1>14. IntentOK(new)
  BY <1>2, <1>7, <1>12, <1>13 DEF IntentOK, IntentPc
<1> QED
  BY <1>4, <1>14, IntentMoves

LEMMA DeleteOutlinedInv ==
  ASSUME IntentionsInv, NEW r \in Planner, DeleteOutlined(r)
  PROVE  IntentionsInv'
<1>1. PICK q : q = intent[r]
  OBVIOUS
<1>2. IntentOK(q)
  BY <1>1 DEF IntentionsInv
<1>3. PICK i \in DOMAIN q.rows :
        Becomes(r, [q EXCEPT !.rows = Without(@, {i}), !.removed = @ \cup {i}, !.achieves = @ \ {i},
                      !.edges = {e \in @ : i \notin {e[1], e[2]}}])
  BY <1>1 DEF DeleteOutlined
<1>4. PICK new : new = [q EXCEPT !.rows = Without(q.rows, {i}), !.removed = q.removed \cup {i},
                          !.achieves = q.achieves \ {i}, !.edges = {e \in q.edges : i \notin {e[1], e[2]}}]
  OBVIOUS
<1>5. Becomes(r, new)
  BY <1>3, <1>4
<1>6. /\ new.pc = q.pc /\ new.of = q.of /\ new.rows = Without(q.rows, {i}) /\ new.removed = q.removed \cup {i}
      /\ new.next = q.next /\ new.linked = q.linked /\ new.todo = q.todo
      /\ new.achieves = q.achieves \ {i} /\ new.edges = {e \in q.edges : i \notin {e[1], e[2]}}
      /\ new.warned = q.warned /\ new.rejected = q.rejected /\ new.added = q.added /\ new.broke = q.broke
      /\ DOMAIN new = IntentFields
  BY <1>2, <1>4 DEF IntentOK, IntentFields
<1>7. /\ DOMAIN new.rows = DOMAIN q.rows \ {i}
      /\ \A j \in DOMAIN new.rows : new.rows[j] = q.rows[j]
  BY <1>6 DEF Without
<1>8. /\ DOMAIN q.rows \subseteq DOMAIN q.of /\ q.removed \subseteq DOMAIN q.of
      /\ DOMAIN q.rows \cap q.removed = {}
      /\ \A j \in DOMAIN q.rows : q.rows[j] = [up |-> q.of[j].up, pos |-> Place(q.of, j)]
  BY <1>2 DEF IntentOK, Stored
<1>9. Stored(q.of, new.rows, new.removed)
  <2>1. DOMAIN new.rows \subseteq DOMAIN q.of /\ new.removed \subseteq DOMAIN q.of
        /\ DOMAIN new.rows \cap new.removed = {}
    BY <1>6, <1>7, <1>8
  <2>2. \A j \in DOMAIN new.rows : new.rows[j] = [up |-> q.of[j].up, pos |-> Place(q.of, j)]
    BY <1>7, <1>8
  <2> QED
    BY <2>1, <2>2 DEF Stored
<1>10. (DOMAIN new.rows) \cup new.removed = (DOMAIN q.rows) \cup q.removed
  BY <1>6, <1>7
<1>11. StoredSoFar(new)
  <2>1. StoredSoFar(q)
    BY <1>2 DEF IntentOK
  <2>2. q.pc \notin {"idle", "root"}
    BY <2>1 DEF StoredSoFar
  <2>3. DOMAIN q.rows = DOMAIN q.of \ q.removed => DOMAIN new.rows = DOMAIN q.of \ new.removed
    BY <1>6, <1>7
  <2>4. q.pc = "nodes" => (DOMAIN new.rows) \cup new.removed = 1 .. new.next - 1 /\ new.next \in 1 .. Len(q.of)
    BY <1>6, <1>10, <2>1 DEF StoredSoFar
  <2>5. q.linked \/ q.pc \in {"link", "tasks", "achieve", "depend", "done"} =>
          DOMAIN new.rows = DOMAIN q.of \ new.removed
    BY <2>1, <2>3 DEF StoredSoFar
  <2>6. new.pc = q.pc /\ new.of = q.of /\ new.linked = q.linked /\ new.next = q.next
    BY <1>6
  <2>7. q.linked => q.pc \in {"tasks", "achieve", "depend", "done", "stopped"}
    BY <2>1 DEF StoredSoFar
  <2>8. q.pc = "failed" => \E j, k \in DOMAIN q.of :
          j < k /\ q.of[j].up = q.of[k].up /\ q.of[j].title = q.of[k].title
    BY <2>1 DEF StoredSoFar
  <2> QED
    BY <2>2, <2>4, <2>5, <2>6, <2>7, <2>8 DEF StoredSoFar
<1>12. Achieving(new)
  <2>1. TasksOf(new) = TasksOf(q) \ {i}
    BY <1>6, <1>7 DEF TasksOf
  <2> QED
    BY <1>2, <1>6, <2>1 DEF IntentOK, Achieving
<1>13. Depending(new)
  <2>1. Depending(q)
    BY <1>2 DEF IntentOK
  <2>2. new.edges \subseteq (DOMAIN new.rows) \X (DOMAIN new.rows)
    BY <1>6, <1>7, <2>1 DEF Depending
  <2>3. \A j, k : <<j, k>> \in q.edges /\ j # i /\ k # i => <<j, k>> \in new.edges
    BY <1>6
  <2>4. ASSUME q.pc = "done", NEW a \in Asked(q.of)
        PROVE  \/ a \in q.warned \/ q.rejected \/ a.by \in new.removed
               \/ \E j \in DOMAIN q.of : Called(q.of, a.name, j) /\ <<j, a.by>> \in new.edges
               \/ \E j \in new.removed : Called(q.of, a.name, j)
    <3>1. \/ a \in q.warned \/ q.rejected \/ a.by \in q.removed
          \/ \E j \in DOMAIN q.of : Called(q.of, a.name, j) /\ <<j, a.by>> \in q.edges
          \/ \E j \in q.removed : Called(q.of, a.name, j)
      BY <2>1, <2>4 DEF Depending
    <3>2. CASE \E j \in DOMAIN q.of : Called(q.of, a.name, j) /\ <<j, a.by>> \in q.edges
      BY <1>6, <2>3, <3>2
    <3> QED
      BY <1>6, <3>1, <3>2
  <2>5. new.edges \subseteq q.edges
    BY <1>6
  <2> QED
    BY <1>6, <2>1, <2>2, <2>4, <2>5 DEF Depending
<1>14. IntentOK(new)
  BY <1>2, <1>6, <1>9, <1>11, <1>12, <1>13 DEF IntentOK
<1> QED
  BY <1>5, <1>14, IntentMoves

LEMMA LinkOutlinedInv ==
  ASSUME IntentionsInv, NEW r \in Planner, LinkOutlined(r)
  PROVE  IntentionsInv'
<1>1. PICK q : q = intent[r]
  OBVIOUS
<1>2. IntentOK(q)
  BY <1>1 DEF IntentionsInv
<1>3. PICK i, j \in DOMAIN q.rows :
        Becomes(r, [q EXCEPT !.edges = @ \cup {<<i, j>>}, !.added = @ \cup {<<i, j>>}])
  BY <1>1 DEF LinkOutlined
<1>4. PICK new : new = [q EXCEPT !.edges = q.edges \cup {<<i, j>>}, !.added = q.added \cup {<<i, j>>}]
  OBVIOUS
<1>5. Becomes(r, new)
  BY <1>3, <1>4
<1>6. /\ new.pc = q.pc /\ new.of = q.of /\ new.rows = q.rows /\ new.removed = q.removed
      /\ new.next = q.next /\ new.linked = q.linked /\ new.todo = q.todo /\ new.achieves = q.achieves
      /\ new.edges = q.edges \cup {<<i, j>>} /\ new.added = q.added \cup {<<i, j>>}
      /\ new.warned = q.warned /\ new.rejected = q.rejected /\ new.broke = q.broke
      /\ DOMAIN new = IntentFields
  BY <1>2, <1>4 DEF IntentOK, IntentFields
<1>7. StoredSoFar(new) /\ Achieving(new)
  BY <1>2, <1>6 DEF IntentOK, StoredSoFar, Achieving, TasksOf
<1>8. Depending(new)
  <2>1. Depending(q)
    BY <1>2 DEF IntentOK
  <2>2. new.edges \subseteq (DOMAIN new.rows) \X (DOMAIN new.rows) /\ (q.pc # "done" => new.edges \subseteq new.added)
    BY <1>6, <2>1 DEF Depending
  <2>3. new.edges \ new.added \subseteq q.edges \ q.added /\ q.edges \subseteq new.edges
    BY <1>6
  <2> QED
    BY <1>6, <2>1, <2>2, <2>3 DEF Depending
<1>9. IntentOK(new)
  BY <1>2, <1>6, <1>7, <1>8 DEF IntentOK
<1> QED
  BY <1>5, <1>9, IntentMoves

LEMMA BreakOffInv ==
  ASSUME IntentionsInv, NEW r \in Planner, BreakOff(r)
  PROVE  IntentionsInv'
<1>1. PICK q : q = intent[r]
  OBVIOUS
<1>2. IntentOK(q) /\ q.pc \in {"root", "nodes", "link", "tasks", "achieve", "depend"}
  BY <1>1 DEF BreakOff, IntentionsInv
<1>3. PICK new : new = [q EXCEPT !.pc = "stopped"]
  OBVIOUS
<1>4. Becomes(r, new)
  BY <1>1, <1>3 DEF BreakOff
<1>5. /\ new.pc = "stopped" /\ new.of = q.of /\ new.rows = q.rows /\ new.removed = q.removed
      /\ new.linked = q.linked /\ new.edges = q.edges /\ new.added = q.added /\ DOMAIN new = IntentFields
  BY <1>2, <1>3 DEF IntentOK, IntentFields
<1>6. StoredSoFar(new) /\ Achieving(new) /\ Depending(new)
  BY <1>2, <1>5 DEF IntentOK, StoredSoFar, Achieving, Depending
<1>7. IntentOK(new)
  BY <1>2, <1>5, <1>6 DEF IntentOK, IntentPc
<1> QED
  BY <1>4, <1>7, IntentMoves

LEMMA IntentionsStepInv == IntentionsInv /\ [IntentionsNext]_intent => IntentionsInv'
<1> SUFFICES ASSUME IntentionsInv, [IntentionsNext]_intent PROVE IntentionsInv'
  OBVIOUS
<1>1. CASE UNCHANGED intent
  BY <1>1 DEF IntentionsInv
<1>2. CASE IntentionsNext
  BY <1>2, HandInInv, CreateIntentRootInv, CreateChildInv, LinkIntentionInv, ListIntentTasksInv,
     AchieveNextInv, AddDependenciesInv, DeleteOutlinedInv, LinkOutlinedInv, BreakOffInv
     DEF IntentionsNext
<1> QED
  BY <1>1, <1>2

(* An intention is created whole: what the goal shows of it is complete,   *)
(* and whoever is told that it is created has every dependency or is told  *)
(* which are missing (createIntention).                                    *)
THEOREM IntentionsAreWhole == IntentionsSpec => []IntentionsTypeOK /\ []IntentionSound
<1>1. IntentionsInv => IntentionsTypeOK
  BY DEF IntentionsInv, IntentOK, IntentionsTypeOK, Stored, Depending
<1>2. IntentionsInv => LinkedWhole
  BY DEF IntentionsInv, IntentOK, LinkedWhole, Stored, StoredSoFar
<1>3. IntentionsInv => AnsweredTrue
  BY DEF IntentionsInv, IntentOK, AnsweredTrue, Depending, Achieving, Called, TasksOf
<1> QED
  BY <1>1, <1>2, <1>3, IntentionsInitInv, IntentionsStepInv, PTL DEF IntentionsSpec, IntentionSound

HIDE DEF IntentAt

-----------------------------------------------------------------------------
(***************************************************************************)
(* PlanSharing. Proof that a collaborator who was removed stays out and    *)
(* that nobody outranks the owner of the organization, for any number of   *)
(* users, guests, invites and requests.                                    *)
(*                                                                         *)
(* The invariant says who can still let somebody in (Barred: no invite and *)
(* no request in progress is for one who was removed) and what a           *)
(* membership may become (Ranked: decided on what it still is, unless it   *)
(* was changed since).                                                     *)
(***************************************************************************)
Invite == [user : Guest, role : CollabRole, used : BOOLEAN]
Sharing == [pc : {"idle", "member", "lookup", "grant", "invite", "drop", "write", "target"},
            verb : PlanVerb \cup OrgVerb \cup {"accept", Nil}, actor : User \cup {Nil},
            target : User \cup {Nil}, role : CollabRole \cup OrgRole \cup {Nil}, invite : Nat,
            seen : CollabRole \cup OrgRole \cup {Nil}, late : BOOLEAN]

(* The tables are well formed, and so are the requests: each statement     *)
(* belongs to some of them only.                                           *)
SharingTables ==
  /\ collab \in [User -> CollabRole \cup {Nil}]
  /\ member \in [User -> OrgRole \cup {Nil}]
  /\ registered \subseteq User /\ User \ Guest \subseteq registered /\ barred \subseteq User
  /\ mailed \in Nat /\ DOMAIN invites \subseteq 1 .. mailed
  /\ \A i \in DOMAIN invites : invites[i] \in Invite

Carries(q) ==
  /\ q.pc = "member" => q.verb \in PlanVerb /\ q.actor \in User
  /\ q.pc = "lookup" => q.verb \in PlanVerb
  /\ q.pc = "grant" => q.verb \in {"share", "add", "accept"}
  /\ q.pc = "invite" => q.verb = "share" /\ q.target \in Guest
  /\ q.pc = "drop" => q.verb = "accept"
  /\ q.pc = "target" => q.verb \in OrgVerb
  /\ q.pc = "write" => q.verb \in {"remove", "withdraw"} \cup OrgVerb
  /\ q.verb = "accept" => q.role \in CollabRole
  /\ q.pc # "idle" => q.target \in User
  /\ q.verb \in PlanVerb => q.role \in CollabRole
  /\ q.verb \in OrgVerb => q.role \in OrgRole \ {"owner"}
  /\ q.verb \in {"enrol", "dismiss"} => q.seen \in {"owner", "admin"}
  /\ q.verb = "rank" => q.seen = "owner"

SharingShape ==
  /\ SharingTables
  /\ share \in [Request -> Sharing]
  /\ \A r \in Request : Carries(share[r])

(* Nobody is about to let one in who was removed: no invite of his is      *)
(* left, and an invite that is used up is being dropped.                   *)
Barred ==
  /\ \A u \in barred : /\ collab[u] = Nil /\ ~Granting(u)
                       /\ \A i \in DOMAIN invites : invites[i].user # u
  /\ \A i \in DOMAIN invites : invites[i].used =>
       \E r \in Request : /\ share[r].pc = "drop" /\ share[r].invite = i
                          /\ share[r].target = invites[i].user
  /\ \A r \in Request : share[r].verb = "accept" =>
       /\ share[r].invite \in 1 .. mailed
       /\ share[r].invite \in DOMAIN invites => invites[share[r].invite].user = share[r].target

(* What a membership may become was decided on what it still is, or it was *)
(* changed since; it was not the owner's in any case.                      *)
Ranked ==
  /\ \A u \in User : member[u] = "owner" <=> u = OrgOwner
  /\ \A r \in Request :
       share[r].pc = "write" /\ share[r].verb \in OrgVerb =>
         /\ share[r].target # OrgOwner
         /\ ~share[r].late => MayChange(share[r].verb, share[r].seen, member[share[r].target])

SharingInv == SharingShape /\ Barred /\ Ranked

USE DEF ShareAt

LEMMA SharingNone ==
  /\ NoShare \in Sharing /\ Carries(NoShare) /\ NoShare.pc = "idle" /\ NoShare.verb = Nil
  /\ Nil \notin User /\ Nil \notin CollabRole \cup OrgRole \cup {"share", "add", "accept"} \cup OrgVerb
  /\ OrgVerb \cap (PlanVerb \cup {"accept"}) = {}
  BY SharingAssumption DEF NoShare, Sharing, Carries, PlanVerb, OrgVerb, CollabRole, OrgRole

LEMMA SharingInitInv == SharingInit => SharingInv
<1> SUFFICES ASSUME SharingInit PROVE SharingInv
  OBVIOUS
<1>1. /\ DOMAIN invites \subseteq 1 .. mailed /\ mailed \in Nat
      /\ \A i \in DOMAIN invites : invites[i] \in Invite /\ ~invites[i].used
  <2>1. CASE invites = <<>>
    <3>1. DOMAIN invites = {} /\ mailed = 0
      BY <2>1, FS_EmptySet DEF SharingInit
    <3> QED
      BY <3>1
  <2>2. ASSUME NEW u \in Guest, NEW c \in Offered,
               invites = <<[user |-> u, role |-> c, used |-> FALSE]>>
        PROVE  /\ DOMAIN invites \subseteq 1 .. mailed /\ mailed \in Nat
               /\ \A i \in DOMAIN invites : invites[i] \in Invite /\ ~invites[i].used
    <3>1. DOMAIN invites = {1}
      BY <2>2
    <3>2. mailed = 1
      BY <3>1, FS_Singleton DEF SharingInit
    <3>3. c \in CollabRole
      BY SharingAssumption DEF CollabRole
    <3>4. invites[1] = [user |-> u, role |-> c, used |-> FALSE]
      BY <2>2
    <3>5. invites[1] \in Invite /\ ~invites[1].used
      BY <3>3, <3>4 DEF Invite
    <3> QED
      BY <3>1, <3>2, <3>5
  <2> QED
    BY <2>1, <2>2 DEF SharingInit
<1>2. SharingShape
  <2>1. SharingTables
    BY <1>1 DEF SharingInit, SharingTables
  <2>2. share \in [Request -> Sharing] /\ \A r \in Request : Carries(share[r])
    BY SharingNone DEF SharingInit
  <2> QED
    BY <2>1, <2>2 DEF SharingShape
<1>3. Barred
  BY <1>1, SharingNone, SharingAssumption DEF SharingInit, Barred
<1>4. Ranked
  BY SharingNone DEF SharingInit, Ranked
<1> QED
  BY <1>2, <1>3, <1>4 DEF SharingInv

(* One request goes on or ends. *)
LEMMA ShareSlot ==
  ASSUME SharingShape, NEW r \in Request, NEW new \in Sharing, Carries(new),
         share' = [share EXCEPT ![r] = new]
  PROVE  /\ share' \in [Request -> Sharing] /\ share'[r] = new
         /\ \A q \in Request \ {r} : share'[q] = share[q]
         /\ \A q \in Request : Carries(share'[q])
  BY DEF SharingShape

(* A request that moves on and changes no table: it may begin to let       *)
(* somebody in, who then is not barred, and it may come to write what it   *)
(* just found right.                                                       *)
LEMMA ShareMoves ==
  ASSUME SharingInv, NEW r \in Request, NEW new \in Sharing, Carries(new),
         share' = [share EXCEPT ![r] = new],
         share[r].pc # "drop",
         new.verb = "accept" =>
           /\ new.invite \in 1 .. mailed
           /\ new.invite \in DOMAIN invites => invites[new.invite].user = new.target,
         new.verb \in {"share", "add", "accept"} => new.target \notin barred',
         new.pc = "write" /\ new.verb \in OrgVerb =>
           new.target # OrgOwner /\ MayChange(new.verb, new.seen, member[new.target]),
         barred' \subseteq barred,
         UNCHANGED <<collab, member, registered, invites, mailed>>
  PROVE  SharingInv' /\ UNCHANGED member
<1>1. /\ share' \in [Request -> Sharing] /\ share'[r] = new
      /\ \A q \in Request \ {r} : share'[q] = share[q]
      /\ \A q \in Request : Carries(share'[q])
  BY ShareSlot DEF SharingInv
<1>2. SharingShape'
  BY <1>1 DEF SharingInv, SharingShape, SharingTables
<1>3. Barred'
  <2>1. ASSUME NEW u \in barred' PROVE ~Granting(u)'
    BY <1>1, <2>1 DEF SharingInv, Barred, Granting
  <2>2. ASSUME NEW i \in DOMAIN invites, invites[i].used
        PROVE  \E q \in Request : /\ share'[q].pc = "drop" /\ share'[q].invite = i
                                  /\ share'[q].target = invites[i].user
    <3>1. PICK q \in Request : /\ share[q].pc = "drop" /\ share[q].invite = i
                               /\ share[q].target = invites[i].user
      BY <2>2 DEF SharingInv, Barred
    <3>2. q # r
      BY <3>1
    <3> QED
      BY <1>1, <3>1, <3>2
  <2>3. \A q \in Request : share'[q].verb = "accept" =>
          /\ share'[q].invite \in 1 .. mailed
          /\ share'[q].invite \in DOMAIN invites =>
               invites[share'[q].invite].user = share'[q].target
    BY <1>1 DEF SharingInv, Barred
  <2> QED
    BY <2>1, <2>2, <2>3 DEF SharingInv, Barred
<1>4. Ranked'
  BY <1>1 DEF SharingInv, Ranked, MayChange
<1> QED
  BY <1>2, <1>3, <1>4 DEF SharingInv

LEMMA StartPlanRequestInv ==
  ASSUME SharingInv, NEW r \in Request, StartPlanRequest(r)
  PROVE  SharingInv' /\ UNCHANGED member
<1>1. PICK u \in registered, v \in PlanVerb : \E t \in User, c \in Offered, i \in 0 .. mailed :
       /\ v \in {"remove", "withdraw"} => c = CHOOSE o \in Offered : TRUE
       /\ v = "add" => t \in registered
       /\ IF v = "withdraw" THEN i # 0 /\ t = PlanOwner ELSE i = 0
       /\ u = PlanOwner \/ collab[u] # Nil \/ member[u] # Nil
       /\ Asks(r, IF u = PlanOwner
                  THEN [NoShare EXCEPT !.pc = "lookup", !.verb = v, !.target = t, !.role = c,
                          !.invite = i]
                  ELSE [NoShare EXCEPT !.pc = "member", !.verb = v, !.target = t, !.role = c,
                          !.invite = i, !.actor = u, !.seen = collab[u]])
       /\ barred' = IF v \in {"share", "add"} THEN barred \ {t} ELSE barred
  BY DEF StartPlanRequest
<1>2. PICK t \in User, c \in Offered, i \in 0 .. mailed :
       /\ v \in {"remove", "withdraw"} => c = CHOOSE o \in Offered : TRUE
       /\ v = "add" => t \in registered
       /\ IF v = "withdraw" THEN i # 0 /\ t = PlanOwner ELSE i = 0
       /\ u = PlanOwner \/ collab[u] # Nil \/ member[u] # Nil
       /\ Asks(r, IF u = PlanOwner
                  THEN [NoShare EXCEPT !.pc = "lookup", !.verb = v, !.target = t, !.role = c,
                          !.invite = i]
                  ELSE [NoShare EXCEPT !.pc = "member", !.verb = v, !.target = t, !.role = c,
                          !.invite = i, !.actor = u, !.seen = collab[u]])
       /\ barred' = IF v \in {"share", "add"} THEN barred \ {t} ELSE barred
  BY <1>1
<1> DEFINE new == IF u = PlanOwner
                  THEN [NoShare EXCEPT !.pc = "lookup", !.verb = v, !.target = t, !.role = c,
                          !.invite = i]
                  ELSE [NoShare EXCEPT !.pc = "member", !.verb = v, !.target = t, !.role = c,
                          !.invite = i, !.actor = u, !.seen = collab[u]]
<1>3. c \in CollabRole /\ u \in User /\ collab[u] \in CollabRole \cup {Nil} /\ i \in Nat
  BY SharingAssumption DEF CollabRole, SharingInv, SharingShape, SharingTables
<1>4. /\ new \in Sharing /\ new.pc \in {"lookup", "member"} /\ new.verb = v
      /\ new.target = t /\ new.role = c /\ (new.pc = "member" => new.actor = u)
  BY <1>3 DEF NoShare, Sharing
<1>5. share' = [share EXCEPT ![r] = new]
  BY <1>2 DEF Asks
<1> HIDE DEF new
<1>6. Carries(new)
  BY <1>3, <1>4, SharingAssumption DEF Carries, PlanVerb, OrgVerb
<1>7. v \in {"share", "add"} => t \notin barred'
  BY <1>2
<1>8. share[r].pc = "idle"
  BY DEF StartPlanRequest, MayShare
<1>9. new.verb # "accept" /\ new.pc # "write"
  BY <1>4 DEF PlanVerb
<1>10. barred' \subseteq barred /\ UNCHANGED <<collab, member, registered, invites, mailed>>
  BY <1>2 DEF StartPlanRequest
<1> QED
  BY <1>4, <1>5, <1>6, <1>7, <1>8, <1>9, <1>10, ShareMoves

(* A request that ends changes no table. *)
LEMMA ShareEnds ==
  ASSUME SharingInv, NEW r \in Request, ShareDone(r), share[r].pc # "drop",
         UNCHANGED <<collab, member, registered, invites, mailed, barred>>
  PROVE  SharingInv' /\ UNCHANGED member
  BY SharingNone, ShareMoves DEF ShareDone

LEMMA CheckRoleInv ==
  ASSUME SharingInv, NEW r \in Request, CheckRole(r)
  PROVE  SharingInv' /\ UNCHANGED member
<1> DEFINE new == [share[r] EXCEPT !.pc = "lookup", !.actor = Nil, !.seen = Nil]
<1>1. share[r].pc = "member" /\ UNCHANGED <<collab, member, registered, invites, mailed, barred>>
  BY DEF CheckRole
<1>2. share[r] \in Sharing /\ Carries(share[r])
  BY DEF SharingInv, SharingShape
<1>3. CASE ShareDone(r)
  BY <1>1, <1>3, ShareEnds
<1>4. CASE share' = [share EXCEPT ![r].pc = "lookup", ![r].actor = Nil, ![r].seen = Nil]
  <2>1. share' = [share EXCEPT ![r] = new]
    BY <1>2, <1>4 DEF SharingInv, SharingShape, Sharing
  <2>2. /\ new \in Sharing /\ new.pc = "lookup" /\ new.verb = share[r].verb
        /\ new.target = share[r].target /\ new.role = share[r].role
    BY <1>2 DEF Sharing
  <2> HIDE DEF new
  <2>3. share[r].verb \in PlanVerb /\ Carries(new)
    BY <1>1, <1>2, <2>2, SharingAssumption DEF Carries, PlanVerb, OrgVerb
  <2>4. new.verb \in {"share", "add", "accept"} => new.target \notin barred
    BY <2>2, <1>1 DEF SharingInv, Barred, Granting
  <2> QED
    BY <1>1, <2>1, <2>2, <2>3, <2>4, ShareMoves DEF PlanVerb
<1> QED
  BY <1>3, <1>4 DEF CheckRole

LEMMA LookUpInv ==
  ASSUME SharingInv, NEW r \in Request, LookUp(r)
  PROVE  SharingInv' /\ UNCHANGED member
<1>1. share[r].pc = "lookup" /\ UNCHANGED <<collab, member, registered, invites, mailed, barred>>
  BY DEF LookUp
<1>2. share[r] \in Sharing /\ Carries(share[r])
  BY DEF SharingInv, SharingShape
<1>3. CASE ShareDone(r)
  BY <1>1, <1>3, ShareEnds
<1>4. ASSUME NEW p, ShareGoto(r, p),
             \/ p = "write" /\ share[r].verb \in {"remove", "withdraw"}
             \/ p = "grant" /\ share[r].verb \in {"add", "share"}
             \/ p = "invite" /\ share[r].verb = "share" /\ share[r].target \in Guest
      PROVE  SharingInv' /\ UNCHANGED member
  <2> DEFINE new == [share[r] EXCEPT !.pc = p]
  <2>1. share' = [share EXCEPT ![r] = new]
    BY <1>2, <1>4 DEF SharingInv, SharingShape, Sharing, ShareGoto
  <2>2. /\ new \in Sharing /\ new.pc = p /\ new.verb = share[r].verb /\ new.seen = share[r].seen
        /\ new.target = share[r].target /\ new.role = share[r].role
    BY <1>2, <1>4 DEF Sharing
  <2> HIDE DEF new
  <2>3. Carries(new) /\ new.verb \notin OrgVerb
    BY <1>1, <1>2, <1>4, <2>2, SharingAssumption DEF Carries, PlanVerb, OrgVerb
  <2>4. new.verb \in {"share", "add", "accept"} => new.target \notin barred
    BY <2>2, <1>1 DEF SharingInv, Barred, Granting
  <2> QED
    BY <1>1, <1>4, <2>1, <2>2, <2>3, <2>4, ShareMoves
<1>5. share[r].verb \in PlanVerb /\ share[r].target \in User
  BY <1>1, <1>2 DEF Carries
<1>6. share[r].target \notin registered => share[r].target \in Guest
  BY <1>5 DEF SharingInv, SharingShape, SharingTables
<1>7. CASE share[r].verb \in {"remove", "withdraw"}
  BY <1>3, <1>4, <1>7 DEF LookUp
<1>8. CASE share[r].verb = "add"
  BY <1>3, <1>4, <1>8 DEF LookUp
<1>9. CASE share[r].verb = "share"
  BY <1>3, <1>4, <1>6, <1>9 DEF LookUp
<1> QED
  BY <1>5, <1>7, <1>8, <1>9 DEF PlanVerb

LEMMA AddCollaboratorInv ==
  ASSUME SharingInv, NEW r \in Request, AddCollaborator(r)
  PROVE  SharingInv' /\ UNCHANGED member
<1>1. /\ share[r].pc = "grant" /\ UNCHANGED <<member, registered, mailed, barred>>
      /\ collab' = [collab EXCEPT ![share[r].target] = share[r].role]
  BY DEF AddCollaborator
<1>2. /\ share[r] \in Sharing /\ Carries(share[r]) /\ share[r].verb \in {"share", "add", "accept"}
      /\ share[r].role \in CollabRole /\ share[r].target \in User
  BY <1>1 DEF SharingInv, SharingShape, Carries, PlanVerb
<1>3. share[r].target \notin barred
  BY <1>2 DEF SharingInv, Barred, Granting
<1> DEFINE new == IF share[r].verb = "accept" THEN [share[r] EXCEPT !.pc = "drop"] ELSE NoShare
<1>4. share' = [share EXCEPT ![r] = new]
  BY <1>2 DEF AddCollaborator, ShareGoto, ShareDone, SharingInv, SharingShape, Sharing
<1>5. /\ new \in Sharing /\ new.pc \in {"drop", "idle"}
      /\ new.verb \in {"accept", Nil} /\ (new.pc = "drop" <=> share[r].verb = "accept")
      /\ new.pc = "drop" => /\ new.target = share[r].target /\ new.role = share[r].role
                            /\ new.verb = "accept" /\ new.invite = share[r].invite
      /\ new.pc = "idle" => new = NoShare
  BY <1>2, SharingNone DEF Sharing
<1> HIDE DEF new
<1>6. Carries(new)
  BY <1>2, <1>5, SharingNone DEF Carries, OrgVerb
<1>7. /\ share' \in [Request -> Sharing] /\ share'[r] = new
      /\ \A q \in Request \ {r} : share'[q] = share[q]
      /\ \A q \in Request : Carries(share'[q])
  BY <1>4, <1>5, <1>6, ShareSlot DEF SharingInv
<1>8. /\ DOMAIN invites' = DOMAIN invites
      /\ \A i \in DOMAIN invites :
           /\ invites'[i] \in Invite /\ invites'[i].user = invites[i].user
           /\ invites'[i] = invites[i] \/ (share[r].verb = "accept" /\ share[r].invite = i)
  <2>1. \A i \in DOMAIN invites : invites[i] \in Invite
    BY DEF SharingInv, SharingShape, SharingTables
  <2>2. \/ invites' = invites
        \/ /\ share[r].verb = "accept" /\ share[r].invite \in DOMAIN invites
           /\ invites' = [invites EXCEPT ![share[r].invite].used = TRUE]
    BY DEF AddCollaborator
  <2>3. \A i \in DOMAIN invites :
          [invites[i] EXCEPT !.used = TRUE] \in Invite /\ [invites[i] EXCEPT !.used = TRUE].user = invites[i].user
    BY <2>1 DEF Invite
  <2>4. CASE /\ share[r].verb = "accept" /\ share[r].invite \in DOMAIN invites
             /\ invites' = [invites EXCEPT ![share[r].invite].used = TRUE]
    <3> DEFINE j == share[r].invite
               taken == [invites[j] EXCEPT !.used = TRUE]
    <3>1. invites' = [invites EXCEPT ![j] = taken] /\ taken \in Invite /\ taken.user = invites[j].user
      BY <2>3, <2>4
    <3> HIDE DEF taken
    <3>2. DOMAIN invites' = DOMAIN invites
      BY <3>1
    <3>3. \A i \in DOMAIN invites : invites'[i] = IF i = j THEN taken ELSE invites[i]
      BY <3>1
    <3>4. share[r].verb = "accept"
      BY <2>4
    <3>5. ASSUME NEW i \in DOMAIN invites
          PROVE  /\ invites'[i] \in Invite /\ invites'[i].user = invites[i].user
                 /\ invites'[i] = invites[i] \/ i = j
      BY <2>1, <3>1, <3>3, <3>5
    <3> QED
      BY <3>2, <3>4, <3>5
  <2> QED
    BY <2>1, <2>2, <2>4
<1>9. SharingShape'
  BY <1>1, <1>2, <1>7, <1>8 DEF SharingInv, SharingShape, SharingTables
<1>10. Barred'
  <2>1. \A u \in barred : ~Granting(u)'
    BY <1>3, <1>5, <1>7, SharingNone DEF SharingInv, Barred, Granting
  <2>2. \A u \in barred : collab'[u] = Nil /\ \A i \in DOMAIN invites' : invites'[i].user # u
    BY <1>1, <1>3, <1>8 DEF SharingInv, SharingShape, SharingTables, Barred
  <2>3. ASSUME NEW i \in DOMAIN invites, invites'[i].used
        PROVE  \E q \in Request : /\ share'[q].pc = "drop" /\ share'[q].invite = i
                                  /\ share'[q].target = invites'[i].user
    <3>1. CASE invites'[i] = invites[i]
      <4>1. PICK q \in Request : /\ share[q].pc = "drop" /\ share[q].invite = i
                                 /\ share[q].target = invites[i].user
        BY <2>3, <3>1 DEF SharingInv, Barred
      <4> QED
        BY <1>1, <1>7, <3>1, <4>1
    <3>2. CASE share[r].verb = "accept" /\ share[r].invite = i
      <4>1. invites[i].user = share[r].target
        BY <1>2, <3>2 DEF SharingInv, Barred
      <4> QED
        BY <1>5, <1>7, <1>8, <3>2, <4>1
    <3> QED
      BY <1>8, <3>1, <3>2
  <2>4. \A q \in Request : share'[q].verb = "accept" =>
          /\ share'[q].invite \in 1 .. mailed'
          /\ share'[q].invite \in DOMAIN invites' =>
               invites'[share'[q].invite].user = share'[q].target
    BY <1>1, <1>2, <1>5, <1>7, <1>8, SharingNone DEF SharingInv, Barred
  <2> QED
    BY <1>1, <1>8, <2>1, <2>2, <2>3, <2>4 DEF Barred
<1>11. Ranked'
  BY <1>1, <1>5, <1>7, SharingAssumption DEF SharingInv, Ranked, MayChange, OrgVerb
<1> QED
  BY <1>1, <1>9, <1>10, <1>11 DEF SharingInv

(* What the requests need that a step does not move: it may end some of    *)
(* them, or find that a membership changed under others, and it may change *)
(* the tables.                                                             *)
LEMMA CreateInviteInv ==
  ASSUME SharingInv, NEW r \in Request, CreateInvite(r)
  PROVE  SharingInv' /\ UNCHANGED member
<1> DEFINE n   == mailed + 1
           row == [user |-> share[r].target, role |-> share[r].role, used |-> FALSE]
<1>1. /\ share[r].pc = "invite" /\ UNCHANGED <<collab, member, registered, barred>>
      /\ mailed' = n /\ invites' = Updated(invites, [i \in {n} |-> row])
      /\ share' = [share EXCEPT ![r] = NoShare]
  BY DEF CreateInvite, ShareDone
<1>2. /\ share[r] \in Sharing /\ share[r].verb = "share" /\ share[r].target \in Guest
      /\ share[r].role \in CollabRole
  BY <1>1 DEF SharingInv, SharingShape, Carries, PlanVerb
<1>3. row \in Invite
  BY <1>2 DEF Invite
<1>4. /\ n \notin DOMAIN invites /\ DOMAIN invites' = DOMAIN invites \cup {n}
      /\ \A i \in DOMAIN invites : invites'[i] = invites[i] /\ i # n
      /\ invites'[n] = row
  BY <1>1 DEF Updated, SharingInv, SharingShape, SharingTables
<1>5. /\ share' \in [Request -> Sharing] /\ share'[r] = NoShare
      /\ \A q \in Request \ {r} : share'[q] = share[q]
      /\ \A q \in Request : Carries(share'[q])
  BY <1>1, SharingNone, ShareSlot DEF SharingInv
<1>6. row.user \notin barred /\ ~row.used
  BY <1>1, <1>2 DEF SharingInv, Barred, Granting
<1>7. mailed \in Nat /\ n \in Nat /\ n = mailed + 1
  BY DEF SharingInv, SharingShape, SharingTables
<1> HIDE DEF n, row
<1>8. SharingShape'
  BY <1>1, <1>3, <1>4, <1>5, <1>7 DEF SharingInv, SharingShape, SharingTables
<1>9. Barred'
  <2>1. \A u \in barred : ~Granting(u)'
    BY <1>5, SharingNone DEF SharingInv, Barred, Granting
  <2>2. \A u \in barred : collab'[u] = Nil /\ \A i \in DOMAIN invites' : invites'[i].user # u
    BY <1>1, <1>4, <1>6 DEF SharingInv, Barred
  <2>3. ASSUME NEW i \in DOMAIN invites', invites'[i].used
        PROVE  \E q \in Request : /\ share'[q].pc = "drop" /\ share'[q].invite = i
                                  /\ share'[q].target = invites'[i].user
    <3>1. i \in DOMAIN invites /\ invites'[i] = invites[i]
      BY <1>4, <1>6, <2>3
    <3>2. PICK q \in Request : /\ share[q].pc = "drop" /\ share[q].invite = i
                               /\ share[q].target = invites[i].user
      BY <2>3, <3>1 DEF SharingInv, Barred
    <3> QED
      BY <1>1, <1>5, <3>1, <3>2
  <2>4. \A q \in Request : share'[q].verb = "accept" =>
          /\ share'[q].invite \in 1 .. mailed'
          /\ share'[q].invite \in DOMAIN invites' =>
               invites'[share'[q].invite].user = share'[q].target
    BY <1>1, <1>4, <1>5, <1>7, SharingNone DEF SharingInv, Barred
  <2> QED
    BY <1>1, <2>1, <2>2, <2>3, <2>4 DEF Barred
<1>10. Ranked'
  BY <1>1, <1>5, SharingNone DEF SharingInv, Ranked, MayChange
<1> QED
  BY <1>1, <1>8, <1>9, <1>10 DEF SharingInv

(* Invites that go: the request that ends was the one dropping them, or    *)
(* they are withdrawn.                                                     *)
LEMMA InviteGoes ==
  ASSUME SharingInv, NEW r \in Request, ShareDone(r),
         invites' = Without(invites, {share[r].invite}),
         UNCHANGED <<collab, member, registered, mailed, barred>>
  PROVE  SharingInv' /\ UNCHANGED member
<1>1. /\ share' \in [Request -> Sharing] /\ share'[r] = NoShare
      /\ \A q \in Request \ {r} : share'[q] = share[q]
      /\ \A q \in Request : Carries(share'[q])
  BY SharingNone, ShareSlot DEF SharingInv, ShareDone
<1>2. /\ DOMAIN invites' = DOMAIN invites \ {share[r].invite}
      /\ \A i \in DOMAIN invites' : invites'[i] = invites[i]
  BY DEF Without
<1>3. SharingShape'
  BY <1>1, <1>2 DEF SharingInv, SharingShape, SharingTables
<1>4. Barred'
  <2>1. \A u \in barred : ~Granting(u)'
    BY <1>1, SharingNone DEF SharingInv, Barred, Granting
  <2>2. ASSUME NEW i \in DOMAIN invites', invites'[i].used
        PROVE  \E q \in Request : /\ share'[q].pc = "drop" /\ share'[q].invite = i
                                  /\ share'[q].target = invites'[i].user
    <3>1. PICK q \in Request : /\ share[q].pc = "drop" /\ share[q].invite = i
                               /\ share[q].target = invites[i].user
      BY <1>2, <2>2 DEF SharingInv, Barred
    <3> QED
      BY <1>1, <1>2, <3>1
  <2>3. ASSUME NEW q \in Request, share'[q].verb = "accept"
        PROVE  /\ share'[q].invite \in 1 .. mailed
               /\ share'[q].invite \in DOMAIN invites' =>
                    invites'[share'[q].invite].user = share'[q].target
    <3>1. q # r /\ share'[q] = share[q]
      BY <1>1, <2>3, SharingNone
    <3>2. /\ share[q].invite \in 1 .. mailed
          /\ share[q].invite \in DOMAIN invites => invites[share[q].invite].user = share[q].target
      BY <2>3, <3>1 DEF SharingInv, Barred
    <3> QED
      BY <1>2, <3>1, <3>2
  <2>4. \A u \in barred : collab[u] = Nil /\ \A i \in DOMAIN invites : invites[i].user # u
    BY DEF SharingInv, Barred
  <2>5. \A u \in barred : collab'[u] = Nil /\ \A i \in DOMAIN invites' : invites'[i].user # u
    BY <1>2, <2>4
  <2> QED
    BY <2>1, <2>2, <2>3, <2>5 DEF Barred
<1>5. Ranked'
  BY <1>1, SharingNone DEF SharingInv, Ranked, MayChange
<1> QED
  BY <1>3, <1>4, <1>5 DEF SharingInv

LEMMA RemoveCollaboratorInv ==
  ASSUME SharingInv, NEW r \in Request, RemoveCollaborator(r)
  PROVE  SharingInv' /\ UNCHANGED member
<1> DEFINE t == share[r].target
<1>1. /\ share[r].pc = "write" /\ UNCHANGED <<member, registered, invites, mailed>>
      /\ collab' = [collab EXCEPT ![t] = Nil]
      /\ barred' = IF OpenFor(t) \/ Granting(t) THEN barred ELSE barred \cup {t}
      /\ share' = [share EXCEPT ![r] = NoShare]
  BY DEF RemoveCollaborator, ShareDone
<1>2. t \in User
  BY <1>1 DEF SharingInv, SharingShape, Carries
<1>3. /\ share' \in [Request -> Sharing] /\ share'[r] = NoShare
      /\ \A q \in Request \ {r} : share'[q] = share[q]
      /\ \A q \in Request : Carries(share'[q])
  BY <1>1, SharingNone, ShareSlot DEF SharingInv
<1> HIDE DEF t
<1>4. SharingShape'
  BY <1>1, <1>2, <1>3 DEF SharingInv, SharingShape, SharingTables
<1>5. Barred'
  <2>1. \A u \in barred' : u # t => u \in barred
    BY <1>1
  <2>2. ASSUME t \in barred' \ barred
        PROVE  ~Granting(t) /\ \A i \in DOMAIN invites : invites[i].user # t
    <3>1. ~Granting(t) /\ ~OpenFor(t)
      BY <1>1, <2>2
    <3>2. ASSUME NEW i \in DOMAIN invites, invites[i].user = t PROVE FALSE
      <4>1. invites[i].used
        BY <3>1, <3>2 DEF OpenFor
      <4>2. PICK q \in Request : share[q].pc = "drop" /\ share[q].target = t
        BY <3>2, <4>1 DEF SharingInv, Barred
      <4>3. share[q].verb = "accept"
        BY <4>2 DEF SharingInv, SharingShape, Carries
      <4> QED
        BY <3>1, <4>2, <4>3 DEF Granting
    <3> QED
      BY <3>1, <3>2
  <2>3. \A u \in barred' : ~Granting(u) /\ \A i \in DOMAIN invites : invites[i].user # u
    BY <2>1, <2>2 DEF SharingInv, Barred
  <2>4. ASSUME NEW u \in barred' PROVE ~Granting(u)'
    BY <1>3, <2>3, SharingNone DEF Granting
  <2>5. \A u \in barred' : collab'[u] = Nil
    BY <1>1, <1>2, <2>1 DEF SharingInv, SharingShape, SharingTables, Barred
  <2>6. ASSUME NEW i \in DOMAIN invites, invites[i].used
        PROVE  \E q \in Request : /\ share'[q].pc = "drop" /\ share'[q].invite = i
                                  /\ share'[q].target = invites[i].user
    <3>1. PICK q \in Request : /\ share[q].pc = "drop" /\ share[q].invite = i
                               /\ share[q].target = invites[i].user
      BY <2>6 DEF SharingInv, Barred
    <3> QED
      BY <1>1, <1>3, <3>1
  <2>7. \A q \in Request : share'[q].verb = "accept" =>
          /\ share'[q].invite \in 1 .. mailed
          /\ share'[q].invite \in DOMAIN invites =>
               invites[share'[q].invite].user = share'[q].target
    BY <1>3, SharingNone DEF SharingInv, Barred
  <2> QED
    BY <1>1, <2>3, <2>4, <2>5, <2>6, <2>7 DEF Barred
<1>6. Ranked'
  BY <1>1, <1>3, SharingNone DEF SharingInv, Ranked, MayChange
<1> QED
  BY <1>1, <1>4, <1>5, <1>6 DEF SharingInv

LEMMA StartAcceptInv ==
  ASSUME SharingInv, NEW r \in Request, StartAccept(r)
  PROVE  SharingInv' /\ UNCHANGED member
<1>1. PICK i \in DOMAIN invites :
        Asks(r, [NoShare EXCEPT !.pc = "grant", !.verb = "accept",
                   !.target = invites[i].user, !.role = invites[i].role, !.invite = i])
  BY DEF StartAccept
<1> DEFINE new == [NoShare EXCEPT !.pc = "grant", !.verb = "accept",
                     !.target = invites[i].user, !.role = invites[i].role, !.invite = i]
<1>2. invites[i] \in Invite /\ i \in 1 .. mailed /\ i \in Nat
  BY DEF SharingInv, SharingShape, SharingTables
<1>3. invites[i].user \in User /\ invites[i].role \in CollabRole
  BY <1>2, SharingAssumption DEF Invite
<1>4. /\ new \in Sharing /\ new.pc = "grant" /\ new.verb = "accept" /\ new.invite = i
      /\ new.target = invites[i].user /\ new.role = invites[i].role
  BY <1>2, <1>3, SharingNone DEF Sharing, NoShare
<1>5. share' = [share EXCEPT ![r] = new]
  BY <1>1 DEF Asks
<1> HIDE DEF new
<1>6. Carries(new)
  BY <1>3, <1>4, SharingNone DEF Carries, PlanVerb, OrgVerb
<1>7. share[r].pc = "idle" /\ UNCHANGED <<collab, member, registered, invites, mailed, barred>>
  BY DEF StartAccept, MayShare
<1>8. new.target \notin barred
  BY <1>4 DEF SharingInv, Barred
<1> QED
  BY <1>2, <1>4, <1>5, <1>6, <1>7, <1>8, ShareMoves

LEMMA RegisterInv ==
  ASSUME SharingInv, Register
  PROVE  SharingInv' /\ UNCHANGED member
<1>1. /\ registered \subseteq registered' /\ registered' \subseteq User
      /\ UNCHANGED <<collab, member, invites, share, mailed, barred>>
  BY SharingAssumption DEF Register, SharingInv, SharingShape, SharingTables
<1>2. SharingShape'
  BY <1>1 DEF SharingInv, SharingShape, SharingTables
<1>3. Barred' /\ Ranked'
  BY <1>1 DEF SharingInv, Barred, Granting, Ranked
<1> QED
  BY <1>1, <1>2, <1>3 DEF SharingInv

LEMMA StartOrgRequestInv ==
  ASSUME SharingInv, NEW r \in Request, StartOrgRequest(r)
  PROVE  SharingInv' /\ UNCHANGED member
<1>1. PICK u \in registered, v \in OrgVerb : \E t \in registered, m \in OrgRole \ {"owner"} :
        /\ member[u] \in IF v = "rank" THEN {"owner"} ELSE {"owner", "admin"}
        /\ v = "dismiss" => m = "member"
        /\ Asks(r, [NoShare EXCEPT !.pc = "target", !.verb = v, !.target = t, !.role = m,
                      !.seen = member[u]])
  BY DEF StartOrgRequest
<1>2. PICK t \in registered, m \in OrgRole \ {"owner"} :
        /\ member[u] \in IF v = "rank" THEN {"owner"} ELSE {"owner", "admin"}
        /\ v = "dismiss" => m = "member"
        /\ Asks(r, [NoShare EXCEPT !.pc = "target", !.verb = v, !.target = t, !.role = m,
                      !.seen = member[u]])
  BY <1>1
<1> DEFINE new == [NoShare EXCEPT !.pc = "target", !.verb = v, !.target = t, !.role = m,
                     !.seen = member[u]]
<1>3. t \in User /\ member[u] \in OrgRole /\ OrgRole = {"member", "admin", "owner"}
  BY <1>2 DEF SharingInv, SharingShape, SharingTables, OrgRole
<1>4. /\ new \in Sharing /\ new.pc = "target" /\ new.verb = v
      /\ new.target = t /\ new.role = m /\ new.seen = member[u]
  BY <1>3, SharingNone DEF Sharing, NoShare
<1>5. share' = [share EXCEPT ![r] = new]
  BY <1>2 DEF Asks
<1> HIDE DEF new
<1>6. v \notin PlanVerb \cup {"accept"} /\ v \in OrgVerb
  BY SharingNone
<1>7. Carries(new)
  BY <1>2, <1>3, <1>4, <1>6 DEF Carries
<1>8. share[r].pc = "idle" /\ UNCHANGED <<collab, member, registered, invites, mailed, barred>>
  BY DEF StartOrgRequest, MayShare
<1>9. new.verb \notin {"share", "add", "accept"}
  BY <1>4, <1>6 DEF PlanVerb
<1> QED
  BY <1>4, <1>5, <1>7, <1>8, <1>9, ShareMoves

LEMMA CheckTargetInv ==
  ASSUME SharingInv, NEW r \in Request, CheckTarget(r)
  PROVE  SharingInv' /\ UNCHANGED member
<1> DEFINE new == [share[r] EXCEPT !.pc = "write", !.late = FALSE]
<1>1. share[r].pc = "target" /\ UNCHANGED <<collab, member, registered, invites, mailed, barred>>
  BY DEF CheckTarget
<1>2. /\ share[r] \in Sharing /\ Carries(share[r]) /\ share[r].verb \in OrgVerb
      /\ share[r].target \in User
  BY <1>1 DEF SharingInv, SharingShape, Carries
<1>3. CASE ShareDone(r)
  BY <1>1, <1>3, ShareEnds
<1>4. CASE /\ share' = [share EXCEPT ![r].pc = "write", ![r].late = FALSE]
           /\ MayChange(share[r].verb, share[r].seen, member[share[r].target])
  <2>1. share' = [share EXCEPT ![r] = new]
    BY <1>2, <1>4 DEF SharingInv, SharingShape, Sharing
  <2>2. /\ new \in Sharing /\ new.pc = "write" /\ new.verb = share[r].verb /\ new.seen = share[r].seen
        /\ new.target = share[r].target /\ new.role = share[r].role
    BY <1>2 DEF Sharing
  <2> HIDE DEF new
  <2>3. Carries(new) /\ new.verb \notin {"share", "add", "accept"}
    BY <1>1, <1>2, <2>2, SharingNone DEF Carries, PlanVerb
  <2>4. member[share[r].target] # "owner"
    BY <1>4, SharingNone DEF MayChange, OrgRole
  <2>5. share[r].target # OrgOwner
    BY <1>2, <2>4 DEF SharingInv, Ranked
  <2> QED
    BY <1>1, <1>4, <2>1, <2>2, <2>3, <2>5, ShareMoves
<1> QED
  BY <1>3, <1>4 DEF CheckTarget

LEMMA WriteMemberInv ==
  ASSUME SharingInv, NEW r \in Request, WriteMember(r)
  PROVE  SharingInv'
<1> DEFINE t == share[r].target
           m == IF share[r].verb = "dismiss" THEN Nil ELSE share[r].role
           Told(p) == share[p].target = t /\ share[p].pc = "write" /\ share[p].verb \in OrgVerb
<1>1. /\ share[r].pc = "write" /\ share[r].verb \in OrgVerb
      /\ member' = [member EXCEPT ![t] = m]
      /\ share' = [p \in Request |->
           IF p = r \/ (Told(p) /\ m = Nil /\ share[p].verb # "enrol") THEN NoShare
           ELSE IF Told(p) THEN [share[p] EXCEPT !.late = TRUE]
           ELSE share[p]]
      /\ UNCHANGED <<collab, registered, invites, mailed, barred>>
  BY DEF WriteMember
<1>2. t \in User /\ m \in (OrgRole \ {"owner"}) \cup {Nil} /\ t # OrgOwner /\ m # "owner"
  BY <1>1, SharingNone DEF SharingInv, SharingShape, Carries, Ranked, OrgRole
<1>3. \A p \in Request :
        \/ share'[p] = NoShare /\ (p = r \/ share[p].pc = "write")
        \/ share'[p] = [share[p] EXCEPT !.late = TRUE] /\ Told(p)
        \/ share'[p] = share[p] /\ ~Told(p)
  BY <1>1
<1> HIDE DEF m, t, Told
<1>4. ASSUME NEW p \in Request
      PROVE  [share[p] EXCEPT !.late = TRUE] \in Sharing /\ Carries([share[p] EXCEPT !.late = TRUE])
  <2>1. share[p] \in Sharing /\ Carries(share[p])
    BY DEF SharingInv, SharingShape
  <2> DEFINE new == [share[p] EXCEPT !.late = TRUE]
  <2>2. /\ new \in Sharing /\ new.pc = share[p].pc /\ new.verb = share[p].verb
        /\ new.actor = share[p].actor /\ new.target = share[p].target
        /\ new.role = share[p].role /\ new.seen = share[p].seen
    BY <2>1 DEF Sharing
  <2> HIDE DEF new
  <2>3. Carries(new)
    BY <2>1, <2>2 DEF Carries
  <2> QED
    BY <2>2, <2>3 DEF new
<1>5. share' \in [Request -> Sharing] /\ \A p \in Request : Carries(share'[p])
  <2>1. \A p \in Request : share'[p] \in Sharing /\ Carries(share'[p])
    BY <1>3, <1>4, SharingNone DEF SharingInv, SharingShape
  <2>2. share' = [p \in Request |-> share'[p]]
    BY <1>1
  <2> QED
    BY <2>1, <2>2
<1>6. SharingShape'
  BY <1>1, <1>2, <1>5 DEF SharingInv, SharingShape, SharingTables
<1>7. \A p \in Request :
        \/ share'[p] = NoShare /\ share[p].pc = "write"
        \/ /\ share'[p].pc = share[p].pc /\ share'[p].verb = share[p].verb
           /\ share'[p].target = share[p].target /\ share'[p].invite = share[p].invite
           /\ share'[p].seen = share[p].seen
           /\ share'[p].late \/ (share'[p].late = share[p].late /\ ~Told(p))
  <2> SUFFICES ASSUME NEW p \in Request
               PROVE  \/ share'[p] = NoShare /\ share[p].pc = "write"
                      \/ /\ share'[p].pc = share[p].pc /\ share'[p].verb = share[p].verb
                         /\ share'[p].target = share[p].target /\ share'[p].invite = share[p].invite
                         /\ share'[p].seen = share[p].seen
                         /\ share'[p].late \/ (share'[p].late = share[p].late /\ ~Told(p))
    OBVIOUS
  <2>1. share[p] \in Sharing
    BY DEF SharingInv, SharingShape
  <2>2. CASE share'[p] = NoShare /\ (p = r \/ share[p].pc = "write")
    BY <1>1, <2>2
  <2>3. CASE share'[p] = [share[p] EXCEPT !.late = TRUE]
    BY <2>1, <2>3 DEF Sharing
  <2>4. CASE share'[p] = share[p] /\ ~Told(p)
    BY <2>4
  <2> QED
    BY <1>3, <2>2, <2>3, <2>4
<1>8. Barred'
  <2>1. \A u \in barred : ~Granting(u)'
    BY <1>7, SharingNone DEF SharingInv, Barred, Granting
  <2>2. ASSUME NEW i \in DOMAIN invites, invites[i].used
        PROVE  \E q \in Request : /\ share'[q].pc = "drop" /\ share'[q].invite = i
                                  /\ share'[q].target = invites[i].user
    <3>1. PICK q \in Request : /\ share[q].pc = "drop" /\ share[q].invite = i
                               /\ share[q].target = invites[i].user
      BY <2>2 DEF SharingInv, Barred
    <3> QED
      BY <1>7, <3>1
  <2>3. ASSUME NEW q \in Request, share'[q].verb = "accept"
        PROVE  /\ share'[q].invite \in 1 .. mailed
               /\ share'[q].invite \in DOMAIN invites =>
                    invites[share'[q].invite].user = share'[q].target
    BY <1>7, <2>3, SharingNone DEF SharingInv, Barred
  <2> QED
    BY <1>1, <2>1, <2>2, <2>3 DEF SharingInv, Barred
<1>9. Ranked'
  <2>1. \A u \in User : member'[u] = "owner" <=> u = OrgOwner
    BY <1>1, <1>2 DEF SharingInv, SharingShape, SharingTables, Ranked
  <2>2. ASSUME NEW p \in Request, share'[p].pc = "write" /\ share'[p].verb \in OrgVerb
        PROVE  /\ share'[p].target # OrgOwner
               /\ ~share'[p].late => MayChange(share'[p].verb, share'[p].seen, member'[share'[p].target])
    <3>1. /\ share'[p].pc = share[p].pc /\ share'[p].verb = share[p].verb
          /\ share'[p].target = share[p].target /\ share'[p].seen = share[p].seen
          /\ share'[p].late \/ (share'[p].late = share[p].late /\ ~Told(p))
      BY <1>7, <2>2, SharingNone
    <3>2. share[p].target \in User
      BY <2>2, <3>1 DEF SharingInv, SharingShape, Carries
    <3>3. ~share'[p].late => share[p].target # t
      BY <2>2, <3>1 DEF Told
    <3>4. ~share'[p].late => member'[share[p].target] = member[share[p].target]
      BY <1>1, <3>2, <3>3 DEF SharingInv, SharingShape, SharingTables
    <3> QED
      BY <2>2, <3>1, <3>4 DEF SharingInv, Ranked
  <2> QED
    BY <2>1, <2>2 DEF Ranked
<1> QED
  BY <1>6, <1>8, <1>9 DEF SharingInv

(* Whom WriteMember may take a rank from *)
LEMMA WriteMemberRanks ==
  ASSUME SharingInv, NEW r \in Request, WriteMember(r), NEW u \in User
  PROVE  /\ member[u] = "owner" => member'[u] = "owner"
         /\ member[u] = "admin" /\ member'[u] # "admin" =>
              \E q \in Request : /\ share[q].pc = "write" /\ share[q].target = u
                                 /\ share[q].seen = "owner" \/ share[q].late
<1>1. /\ share[r].pc = "write" /\ share[r].verb \in OrgVerb
      /\ \A w \in User : w # share[r].target => member'[w] = member[w]
  BY DEF WriteMember, SharingInv, SharingShape, SharingTables
<1>2. /\ share[r].target # OrgOwner
      /\ ~share[r].late => MayChange(share[r].verb, share[r].seen, member[share[r].target])
      /\ member[u] = "owner" <=> u = OrgOwner
  BY <1>1 DEF SharingInv, Ranked
<1>3. ASSUME u = share[r].target, member[u] = "admin", ~share[r].late PROVE share[r].seen = "owner"
  <2>1. share[r].verb # "enrol" /\ (share[r].verb = "dismiss" => share[r].seen # "admin")
    BY <1>2, <1>3, SharingNone DEF MayChange, OrgRole
  <2> QED
    BY <1>1, <2>1 DEF SharingInv, SharingShape, Carries, OrgVerb
<1> QED
  BY <1>1, <1>2, <1>3

LEMMA CrashSharingInv ==
  ASSUME SharingInv, CrashSharing
  PROVE  SharingInv' /\ UNCHANGED member
<1>1. /\ share' = [r \in Request |-> NoShare]
      /\ UNCHANGED <<collab, member, registered, mailed, barred>>
      /\ DOMAIN invites' = DOMAIN invites
      /\ \A i \in DOMAIN invites :
           invites'[i] = IF \E r \in Request : share[r].pc = "drop" /\ share[r].invite = i
                         THEN [invites[i] EXCEPT !.used = FALSE] ELSE invites[i]
  BY DEF CrashSharing
<1>2. \A i \in DOMAIN invites :
        invites'[i] \in Invite /\ invites'[i].user = invites[i].user /\ ~invites'[i].used
  <2> SUFFICES ASSUME NEW i \in DOMAIN invites
               PROVE  invites'[i] \in Invite /\ invites'[i].user = invites[i].user /\ ~invites'[i].used
    OBVIOUS
  <2>1. invites[i] \in Invite
    BY DEF SharingInv, SharingShape, SharingTables
  <2>2. CASE invites[i].used
    <3>1. \E r \in Request : share[r].pc = "drop" /\ share[r].invite = i
      BY <2>2 DEF SharingInv, Barred
    <3>2. invites'[i] = [invites[i] EXCEPT !.used = FALSE]
      BY <1>1, <3>1
    <3> QED
      BY <2>1, <3>2 DEF Invite
  <2>3. CASE ~invites[i].used
    BY <1>1, <2>1, <2>3 DEF Invite
  <2> QED
    BY <2>2, <2>3
<1>3. SharingShape'
  BY <1>1, <1>2, SharingNone DEF SharingInv, SharingShape, SharingTables
<1>4. Barred'
  <2>1. \A q \in Request : share'[q].verb \notin {"share", "add", "accept"}
    BY <1>1, SharingNone
  <2> QED
    BY <1>1, <1>2, <2>1 DEF SharingInv, Barred, Granting
<1>5. Ranked'
  BY <1>1, SharingNone DEF SharingInv, Ranked
<1> QED
  BY <1>1, <1>3, <1>4, <1>5 DEF SharingInv

(* What every step keeps, and what it may do to memberships *)
RanksKeptNow ==
  \A u \in User :
    /\ member[u] = "owner" => member'[u] = "owner"
    /\ member[u] = "admin" /\ member'[u] # "admin" =>
         \E r \in Request : /\ share[r].pc = "write" /\ share[r].target = u
                            /\ share[r].seen = "owner" \/ share[r].late

LEMMA SharingStepInv == SharingInv /\ [SharingNext]_sharingVars => SharingInv' /\ RanksKeptNow
<1> SUFFICES ASSUME SharingInv, [SharingNext]_sharingVars PROVE SharingInv' /\ RanksKeptNow
  OBVIOUS
<1>1. UNCHANGED member => RanksKeptNow
  BY DEF RanksKeptNow
<1>2. CASE UNCHANGED sharingVars
  BY <1>1, <1>2 DEF sharingVars, SharingInv, SharingShape, SharingTables, Barred, Granting, Ranked
<1>3. CASE Register \/ CrashSharing
  BY <1>1, <1>3, RegisterInv, CrashSharingInv
<1>4. ASSUME NEW r \in Request, StartPlanRequest(r) \/ StartAccept(r) \/ StartOrgRequest(r) \/ ShareStep(r)
      PROVE  SharingInv' /\ RanksKeptNow
  <2>1. CASE WriteMember(r)
    BY <2>1, WriteMemberInv, WriteMemberRanks DEF RanksKeptNow
  <2>2. CASE WithdrawInvite(r) \/ DropInvite(r)
    BY <1>1, <2>2, InviteGoes DEF WithdrawInvite, DropInvite
  <2>3. CASE ~WriteMember(r) /\ ~WithdrawInvite(r) /\ ~DropInvite(r)
    BY <1>1, <1>4, <2>3, StartPlanRequestInv, StartAcceptInv, StartOrgRequestInv, CheckRoleInv,
       LookUpInv, AddCollaboratorInv, CreateInviteInv, RemoveCollaboratorInv, CheckTargetInv
       DEF ShareStep
  <2> QED
    BY <2>1, <2>2, <2>3
<1> QED
  BY <1>2, <1>3, <1>4 DEF SharingNext

(* What the requests about collaborators and members hold is true of the   *)
(* tables, at every step of every request (collaboration and organization  *)
(* routes).                                                                *)
THEOREM SharingInvariant == SharingSpec => []SharingInv
  BY SharingInitInv, SharingStepInv, PTL DEF SharingSpec

(* Tables and requests are well typed, however the requests about          *)
(* collaborators, members and invites interleave.                          *)
THEOREM SharingTypeCorrect == SharingSpec => []PlanSharingTypeOK
<1>1. SharingInv => PlanSharingTypeOK
  <2> SUFFICES ASSUME SharingInv PROVE PlanSharingTypeOK
    OBVIOUS
  <2>1. /\ collab \in [User -> CollabRole \cup {Nil}]
        /\ member \in [User -> OrgRole \cup {Nil}]
        /\ registered \subseteq User
        /\ DOMAIN invites \subseteq 1 .. mailed
    BY DEF SharingInv, SharingShape, SharingTables
  <2>2. \A i \in DOMAIN invites : invites[i].user \in Guest /\ invites[i].role \in CollabRole
    BY DEF SharingInv, SharingShape, SharingTables, Invite
  <2>3. \A r \in Request : share[r].pc \in
          {"idle", "member", "lookup", "grant", "invite", "drop", "write", "target"}
    BY DEF SharingInv, SharingShape, Sharing
  <2> QED
    BY <2>1, <2>2, <2>3 DEF PlanSharingTypeOK
<1> QED
  BY <1>1, SharingInvariant, PTL

(* Who was removed from a plan stays out until somebody lets him in again, *)
(* and owners and administrators of an organization lose their ranks to    *)
(* the owner only (RanksKept).                                             *)
THEOREM SharingSoundness == SharingSpec => SharingSound
<1>1. SharingInv => RemovedStaysOut
  BY DEF SharingInv, Barred, RemovedStaysOut
<1>2. SharingInv /\ [SharingNext]_sharingVars => [RanksKeptNow]_sharingVars
  BY SharingStepInv
<1>3. SharingSpec => [][RanksKeptNow]_sharingVars
  BY <1>2, SharingInvariant, PTL DEF SharingSpec
<1>4. SharingSpec => []RemovedStaysOut
  BY <1>1, SharingInvariant, PTL
<1>5. RanksKept <=> [][RanksKeptNow]_sharingVars
  BY DEF RanksKept, RanksKeptNow
<1> QED
  BY <1>3, <1>4, <1>5, PTL DEF SharingSound

HIDE DEF ShareAt

-----------------------------------------------------------------------------
(***************************************************************************)
(* PlanDoors. Proof that the lists of plans and the door of a plan agree,  *)
(* whoever asks.                                                           *)
(*                                                                         *)
(* Both rest on SharingInv and on how the roles of a collaborator and of a *)
(* member combine (BestRoleFacts).                                         *)
(***************************************************************************)
(* The better of two roles is a role on the plan, at least that of the     *)
(* collaborator.                                                           *)
LEMMA BestRoleFacts ==
  ASSUME NEW c \in CollabRole \cup {Nil}, NEW m \in OrgRole \cup {Nil}
  PROVE  /\ BestRole(c, m) \in CollabRole \cup {Nil}
         /\ BestRole(c, m) = Nil <=> c = Nil /\ m = Nil
         /\ c # Nil => Rank(BestRole(c, m)) >= Rank(c)
<1>1. OrgPlanRole(m) \in {"admin", "editor"}
  BY DEF OrgPlanRole
<1>2. \A x \in CollabRole : Rank(x) \in {0, 1, 2}
  BY DEF Rank, CollabRole
<1>3. OrgPlanRole(m) \in CollabRole /\ Nil \notin CollabRole
  BY <1>1, SharingNone DEF CollabRole
<1>4. CASE m = Nil
  BY <1>2, <1>3, <1>4 DEF BestRole
<1>5. CASE m # Nil /\ c = Nil
  BY <1>3, <1>5 DEF BestRole
<1>6. CASE m # Nil /\ c # Nil
  <2>1. BestRole(c, m) = IF Rank(OrgPlanRole(m)) > Rank(c) THEN OrgPlanRole(m) ELSE c
    BY <1>6 DEF BestRole
  <2> QED
    BY <1>2, <1>3, <1>6, <2>1
<1> QED
  BY <1>4, <1>5, <1>6

LEMMA AccessFacts ==
  ASSUME SharingTables, NEW p \in PlanRows, NEW inOrg \in BOOLEAN, NEW u \in User
  PROVE  LET best == BestRole(collab[u], IF inOrg THEN member[u] ELSE Nil)
             role == UserHasAccess(p, inOrg, u)
         IN  /\ u = PlanOwner => role = "owner"
             /\ u # PlanOwner => role = IF best # Nil THEN best ELSE IF IsOpen(p) THEN "viewer" ELSE Nil
             /\ best \in CollabRole \cup {Nil}
             /\ best = Nil <=> collab[u] = Nil /\ (inOrg => member[u] = Nil)
             /\ collab[u] # Nil => Rank(best) >= Rank(collab[u])
             /\ role = "owner" <=> u = PlanOwner
<1> DEFINE m == IF inOrg THEN member[u] ELSE Nil
           best == BestRole(collab[u], m)
<1>1. collab[u] \in CollabRole \cup {Nil} /\ m \in OrgRole \cup {Nil}
  BY DEF SharingTables
<1>2. /\ best \in CollabRole \cup {Nil} /\ (best = Nil <=> collab[u] = Nil /\ m = Nil)
      /\ collab[u] # Nil => Rank(best) >= Rank(collab[u])
  BY <1>1, BestRoleFacts
<1>3. "owner" \notin CollabRole \cup {Nil, "viewer"}
  BY SharingNone DEF CollabRole, OrgRole
<1>4. /\ u = PlanOwner => UserHasAccess(p, inOrg, u) = "owner"
      /\ u # PlanOwner => UserHasAccess(p, inOrg, u) = IF best # Nil THEN best
                                                       ELSE IF IsOpen(p) THEN "viewer" ELSE Nil
  BY DEF UserHasAccess
<1>5. UserHasAccess(p, inOrg, u) = "owner" <=> u = PlanOwner
  BY <1>2, <1>3, <1>4
<1>6. m = Nil <=> (inOrg => member[u] = Nil)
  OBVIOUS
<1> HIDE DEF best
<1>7. best = Nil <=> collab[u] = Nil /\ (inOrg => member[u] = Nil)
  BY <1>2, <1>6
<1> QED
  BY <1>2, <1>4, <1>5, <1>7 DEF best

(* What is listed for a user can be opened by him in the role shown and    *)
(* the other way round, and what is listed for everybody opens for         *)
(* everybody (plan lists, checkPlanAccess).                                *)
THEOREM DoorsAgree == SharingSpec => []ListedIsOpen /\ []PublicIsPublic
<1>1. SharingInv => ListedIsOpen
  <2> SUFFICES ASSUME SharingInv, NEW p \in PlanRows, NEW inOrg \in BOOLEAN, NEW u \in registered
               PROVE  LET shown == ListForUser(p, inOrg, member[u] # Nil, u)
                          role  == UserHasAccess(p, inOrg, u)
                      IN  /\ shown # Nil => role # Nil /\ (shown # "member" => Rank(role) >= Rank(shown))
                          /\ role # Nil => /\ IsOpen(p) \/ shown # Nil
                                           /\ GetPlanForUnfurl(p, inOrg, u) /\ MayFork(p, inOrg, u)
                          /\ role = "owner" <=> u = PlanOwner
    BY DEF ListedIsOpen
  <2> DEFINE shown == ListForUser(p, inOrg, member[u] # Nil, u)
             role  == UserHasAccess(p, inOrg, u)
             best  == BestRole(collab[u], IF inOrg THEN member[u] ELSE Nil)
  <2>1. SharingTables /\ u \in User
    BY DEF SharingInv, SharingShape, SharingTables
  <2>2. /\ u = PlanOwner => role = "owner"
        /\ u # PlanOwner => role = IF best # Nil THEN best ELSE IF IsOpen(p) THEN "viewer" ELSE Nil
        /\ best \in CollabRole \cup {Nil}
        /\ best = Nil <=> collab[u] = Nil /\ (inOrg => member[u] = Nil)
        /\ collab[u] # Nil => Rank(best) >= Rank(collab[u])
        /\ role = "owner" <=> u = PlanOwner
    BY <2>1, AccessFacts
  <2>3. /\ u = PlanOwner => shown = "owner"
        /\ u # PlanOwner /\ collab[u] # Nil => shown = collab[u]
        /\ u # PlanOwner /\ collab[u] = Nil =>
             shown = IF inOrg /\ member[u] # Nil THEN "member" ELSE Nil
    BY DEF ListForUser
  <2>4. role # Nil => GetPlanForUnfurl(p, inOrg, u) /\ MayFork(p, inOrg, u)
    BY <2>1, SharingNone DEF GetPlanForUnfurl, CheckPlanAccess, MayFork
  <2>5. "owner" # Nil /\ "viewer" # Nil /\ Rank("owner") = 3
    BY SharingNone DEF OrgRole, CollabRole, Rank
  <2> HIDE DEF shown, role, best
  <2>6. shown # Nil => role # Nil /\ (shown # "member" => Rank(role) >= Rank(shown))
    BY <2>2, <2>3, <2>5
  <2>7. role # Nil => IsOpen(p) \/ shown # Nil
    BY <2>1, <2>2, <2>3, <2>5, SharingNone DEF OrgRole
  <2> QED
    BY <2>2, <2>4, <2>6, <2>7 DEF shown, role
<1>2. SharingInv => PublicIsPublic
  <2> SUFFICES ASSUME SharingInv, NEW p \in PlanRows
               PROVE  /\ ListPublic(p) <=> GetPublicPlan(p)
                      /\ ListPublic(p) => \A u \in User : UserHasAccess(p, FALSE, u) # Nil
                      /\ ListPublic(p) \/ PreviewHasCard(p) => GetPlanForUnfurl(p, FALSE, Nil)
    BY DEF PublicIsPublic
  <2>1. ListPublic(p) <=> GetPublicPlan(p)
    BY DEF ListPublic, GetPublicPlan
  <2>2. ASSUME ListPublic(p), NEW u \in User PROVE UserHasAccess(p, FALSE, u) # Nil
    <3>1. IsOpen(p)
      BY <2>2 DEF ListPublic, IsOpen
    <3>2. "owner" # Nil /\ "viewer" # Nil
      BY SharingNone DEF OrgRole, CollabRole
    <3> QED
      BY <3>1, <3>2 DEF UserHasAccess
  <2>3. ListPublic(p) \/ PreviewHasCard(p) => GetPlanForUnfurl(p, FALSE, Nil)
    BY DEF ListPublic, PreviewHasCard, GetPlanForUnfurl
  <2> QED
    BY <2>1, <2>2, <2>3
<1> QED
  BY <1>1, <1>2, SharingInvariant, PTL
=============================================================================
