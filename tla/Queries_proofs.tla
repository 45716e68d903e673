--------------------------- MODULE Queries_proofs ---------------------------
(***************************************************************************)
(* Proofs about what is computed from the rows of a plan: the recursive    *)
(* queries over dependencies, the two critical paths, the order of the     *)
(* rows, the schedule and what is suggested from it, the rollup, and the   *)
(* reports on a goal.                                                      *)
(*                                                                         *)
(* A query is proved for one state, of any size: its recursion is given a  *)
(* closed form, which is shown to satisfy the recursion and to be its only *)
(* solution, and the property is proved of the closed form. That the rows  *)
(* have the shape this takes is an invariant, proved at the end.           *)
(***************************************************************************)
EXTENDS MCPlanQueries, SequenceTheorems, FiniteSetTheorems, WellFoundedInduction, TLAPS

(* Every set of natural numbers has a least one. *)
LEMMA SmallestNat ==
  ASSUME NEW T, T \subseteq Nat, T # {}
  PROVE  \E m \in T : \A n \in T : m <= n
<1> DEFINE R == {p \in Nat \X Nat : p[1] < p[2]}
<1>1. IsWellFoundedOn(R, Nat)
  BY NatLessThanWellFounded DEF OpToRel
<1> HIDE DEF R
<1>2. PICK m \in T : \A n \in T : <<n, m>> \notin R
  BY <1>1, WFMin
<1>3. \A n \in T : n \in Nat /\ m \in Nat /\ ~(n < m)
  BY <1>2 DEF R
<1>4. \A n \in T : m <= n
  BY <1>3
<1> QED
  BY <1>4

-----------------------------------------------------------------------------
(* WalksExact. Proof that the recursive queries neither miss nor invent a  *)
(* node, for any graph. Every recursion of a query has a closed form: the  *)
(* walks of so many steps, or those that enter no node twice. What joins   *)
(* them is that a shortest walk enters no node twice.                      *)
Graph(E) == E \subseteq Node \X Node

Walk(E, k) == {w \in [0 .. k -> Node] : \A i \in 0 .. k - 1 : <<w[i], w[i + 1]>> \in E}
Walked(E, a, b, k) == \E w \in Walk(E, k) : w[0] = a /\ w[k] = b

LEMMA NoStep ==
  ASSUME NEW E, NEW a \in Node, NEW b
  PROVE  Walked(E, a, b, 0) <=> a = b
<1>1. ASSUME a = b PROVE Walked(E, a, b, 0)
  <2> DEFINE w == [i \in 0 .. 0 |-> a]
  <2>1. w \in Walk(E, 0)
    BY DEF Walk
  <2> QED
    BY <1>1, <2>1 DEF Walked
<1>2. ASSUME Walked(E, a, b, 0) PROVE a = b
  BY <1>2 DEF Walked
<1> QED
  BY <1>1, <1>2

LEMMA OneStepMore ==
  ASSUME NEW E, Graph(E), NEW a, NEW c, NEW k \in Nat
  PROVE  Walked(E, a, c, k + 1) <=> \E b \in Node : Walked(E, a, b, k) /\ <<b, c>> \in E
<1>1. ASSUME NEW w \in Walk(E, k + 1), w[0] = a, w[k + 1] = c
      PROVE  \E b \in Node : Walked(E, a, b, k) /\ <<b, c>> \in E
  <2> DEFINE v == [i \in 0 .. k |-> w[i]]
  <2>1. v \in Walk(E, k) /\ v[0] = a
    BY <1>1 DEF Walk
  <2>2. w[k] \in Node /\ v[k] = w[k] /\ <<w[k], w[k + 1]>> \in E
    BY <1>1 DEF Walk
  <2>3. Walked(E, a, w[k], k)
    BY <2>1, <2>2 DEF Walked
  <2> QED
    BY <1>1, <2>2, <2>3
<1>2. ASSUME NEW b \in Node, NEW w \in Walk(E, k), w[0] = a, w[k] = b, <<b, c>> \in E
      PROVE  Walked(E, a, c, k + 1)
  <2> DEFINE v == [i \in 0 .. k + 1 |-> IF i = k + 1 THEN c ELSE w[i]]
  <2>1. c \in Node
    BY <1>2 DEF Graph
  <2>2. v \in [0 .. k + 1 -> Node]
    BY <1>2, <2>1 DEF Walk
  <2>3. \A i \in 0 .. k : <<v[i], v[i + 1]>> \in E
    BY <1>2 DEF Walk
  <2>4. v \in Walk(E, k + 1)
    <3> HIDE DEF v
    <3>1. k + 1 - 1 = k
      OBVIOUS
    <3> QED
      BY <2>2, <2>3, <3>1 DEF Walk
  <2>5. v[0] = a /\ v[k + 1] = c
    BY <1>2
  <2> QED
    BY <2>4, <2>5 DEF Walked
<1> QED
  BY <1>1, <1>2 DEF Walked

(* A walk that comes back to a node has a shorter one beside it. *)
LEMMA ShortCut ==
  ASSUME NEW E, NEW k \in Nat, NEW w \in Walk(E, k),
         NEW i \in 0 .. k, NEW j \in 0 .. k, i < j, w[i] = w[j]
  PROVE  \E n \in 0 .. k - 1 : Walked(E, w[0], w[k], n)
<1> DEFINE d == j - i
           n == k - d
           v == [r \in 0 .. n |-> IF r <= i THEN w[r] ELSE w[r + d]]
<1>1. d \in 1 .. k /\ n \in 0 .. k - 1 /\ i \in 0 .. n
  OBVIOUS
<1>2. v \in [0 .. n -> Node]
  BY <1>1 DEF Walk
<1>3. ASSUME NEW r \in 0 .. n - 1 PROVE <<v[r], v[r + 1]>> \in E
  <2>1. CASE r + 1 <= i
    <3>1. v[r] = w[r] /\ v[r + 1] = w[r + 1] /\ r \in 0 .. k - 1
      BY <1>1, <2>1
    <3> QED
      BY <3>1 DEF Walk
  <2>2. CASE r = i
    <3>1. v[r] = w[j] /\ v[r + 1] = w[j + 1] /\ j \in 0 .. k - 1
      BY <1>1, <2>2
    <3> QED
      BY <3>1 DEF Walk
  <2>3. CASE r > i
    <3>1. v[r] = w[r + d] /\ v[r + 1] = w[r + d + 1] /\ r + d \in 0 .. k - 1
      BY <1>1, <2>3
    <3> QED
      BY <3>1 DEF Walk
  <2> QED
    BY <1>1, <2>1, <2>2, <2>3
<1>4. v[0] = w[0] /\ v[n] = w[k]
  BY <1>1
<1>5. v \in Walk(E, n)
  BY <1>2, <1>3 DEF Walk
<1> QED
  BY <1>1, <1>4, <1>5 DEF Walked

(* What can be reached can be walked to, and conversely. *)
LEMMA ReachIsWalk ==
  ASSUME NEW E, Graph(E), NEW a \in Node, NEW b \in Node
  PROVE  Reach(E, a, b) <=> \E k \in Nat : Walked(E, a, b, k)
<1>1. ASSUME Reach(E, a, b) PROVE \E k \in Nat : Walked(E, a, b, k)
  <2> DEFINE S == {m \in Node : \E k \in Nat : Walked(E, a, m, k)}
  <2>1. a \in S
    BY NoStep
  <2>2. ASSUME NEW e \in E, e[1] \in S PROVE e[2] \in S
    <3>1. e = <<e[1], e[2]>> /\ e[2] \in Node
      BY DEF Graph
    <3>2. PICK k \in Nat : Walked(E, a, e[1], k)
      BY <2>2
    <3>3. Walked(E, a, e[2], k + 1)
      BY <2>2, <3>1, <3>2, OneStepMore
    <3> QED
      BY <3>1, <3>3
  <2> QED
    BY <1>1, <2>1, <2>2 DEF Reach, Closed
<1>2. ASSUME NEW k \in Nat, NEW w \in Walk(E, k), w[0] = a, w[k] = b,
             NEW S \in SUBSET Node, a \in S, Closed(E, S)
      PROVE  b \in S
  <2> DEFINE T == {i \in 0 .. k : w[i] \notin S}
  <2>1. ASSUME T # {} PROVE FALSE
    <3>1. T \subseteq Nat
      OBVIOUS
    <3>2. PICK r \in T : \A y \in T : r <= y
      BY <2>1, <3>1, SmallestNat
    <3>3. r \in 1 .. k /\ r - 1 \in 0 .. k - 1
      BY <1>2
    <3>4. w[r - 1] \in S
      BY <3>2, <3>3
    <3>5. <<w[r - 1], w[r]>> \in E
      <4>1. <<w[r - 1], w[r - 1 + 1]>> \in E
        BY <3>3 DEF Walk
      <4> QED
        BY <3>3, <4>1
    <3> QED
      BY <1>2, <3>4, <3>5 DEF Closed
  <2> QED
    BY <1>2, <2>1
<1> QED
  BY <1>1, <1>2 DEF Reach, Walked

-----------------------------------------------------------------------------
(* The trails of k steps from a: no node comes twice, but that the first   *)
(* step may be a loop.                                                     *)
Trail(E, a, k) ==
  {t \in [1 .. k + 1 -> Node] :
     /\ t[1] = a
     /\ \A i \in 1 .. k : <<t[i], t[i + 1]>> \in E
     /\ \A i \in 2 .. k : \A j \in 1 .. i : t[i + 1] # t[j]}

LEMMA TrailSeq ==
  ASSUME NEW E, NEW a, NEW k \in Nat, NEW t \in Trail(E, a, k)
  PROVE  /\ t \in Seq(Node) /\ Len(t) = k + 1 /\ Last(t) = t[k + 1]
         /\ ToSet(t) = {t[j] : j \in 1 .. k + 1}
<1>1. t \in [1 .. k + 1 -> Node] /\ k + 1 \in Nat
  BY DEF Trail
<1>2. t \in Seq(Node) /\ Len(t) = k + 1
  BY <1>1
<1> QED
  BY <1>1, <1>2 DEF Last, ToSet

(* A trail grows by an edge to a node it has not entered. *)
LEMMA TrailGrows ==
  ASSUME NEW E, Graph(E), NEW a, NEW k \in Nat \ {0}
  PROVE  Trail(E, a, k + 1) =
           UNION {{Append(t, e[2]) : e \in {f \in E : f[1] = Last(t) /\ f[2] \notin ToSet(t)}} :
                    t \in Trail(E, a, k)}
<1>1. ASSUME NEW t \in Trail(E, a, k), NEW e \in E, e[1] = Last(t), e[2] \notin ToSet(t)
      PROVE  Append(t, e[2]) \in Trail(E, a, k + 1)
  <2> DEFINE u == Append(t, e[2])
  <2>1. e = <<e[1], e[2]>> /\ e[2] \in Node
    BY DEF Graph
  <2>2. t \in Seq(Node) /\ Len(t) = k + 1 /\ e[1] = t[k + 1] /\ \A j \in 1 .. k + 1 : e[2] # t[j]
    BY <1>1, TrailSeq
  <2>3. u \in [1 .. k + 2 -> Node] /\ (\A i \in 1 .. k + 1 : u[i] = t[i]) /\ u[k + 2] = e[2]
    <3>1. /\ u \in Seq(Node) /\ Len(u) = Len(t) + 1
          /\ \A i \in 1 .. Len(t) : u[i] = t[i]
          /\ u[Len(t) + 1] = e[2]
      BY <2>1, <2>2, AppendProperties
    <3>2. Len(t) + 1 = k + 2
      BY <2>2
    <3> HIDE DEF u
    <3>3. u \in [1 .. k + 2 -> Node]
      BY <3>1, <3>2
    <3> QED
      BY <2>2, <3>1, <3>2, <3>3
  <2> HIDE DEF u
  <2>4. \A i \in 1 .. k + 1 : <<u[i], u[i + 1]>> \in E
    <3> SUFFICES ASSUME NEW i \in 1 .. k + 1 PROVE <<u[i], u[i + 1]>> \in E
      OBVIOUS
    <3>1. CASE i = k + 1
      <4>1. u[i] = t[k + 1] /\ i + 1 = k + 2
        BY <2>3, <3>1
      <4>2. u[i] = e[1] /\ u[i + 1] = e[2]
        BY <2>2, <2>3, <4>1
      <4> QED
        BY <2>1, <4>2
    <3>2. CASE i \in 1 .. k
      <4>1. u[i] = t[i] /\ u[i + 1] = t[i + 1]
        BY <2>3, <3>2
      <4> QED
        BY <3>2, <4>1 DEF Trail
    <3> QED
      BY <3>1, <3>2
  <2>5. \A i \in 2 .. k + 1 : \A j \in 1 .. i : u[i + 1] # u[j]
    <3> SUFFICES ASSUME NEW i \in 2 .. k + 1, NEW j \in 1 .. i PROVE u[i + 1] # u[j]
      OBVIOUS
    <3>1. u[j] = t[j]
      BY <2>3
    <3>2. CASE i = k + 1
      BY <2>2, <2>3, <3>1, <3>2
    <3>3. CASE i \in 2 .. k
      <4>1. u[i + 1] = t[i + 1]
        BY <2>3, <3>3
      <4> QED
        BY <3>1, <3>3, <4>1 DEF Trail
    <3> QED
      BY <3>2, <3>3
  <2>6. u[1] = a
    BY <2>3 DEF Trail
  <2>7. k + 1 + 1 = k + 2
    OBVIOUS
  <2>8. u \in Trail(E, a, k + 1)
    BY <2>3, <2>4, <2>5, <2>6, <2>7 DEF Trail
  <2> QED
    BY <2>8 DEF u
<1>2. ASSUME NEW u \in Trail(E, a, k + 1)
      PROVE  \E t \in Trail(E, a, k), e \in E :
               e[1] = Last(t) /\ e[2] \notin ToSet(t) /\ u = Append(t, e[2])
  <2> DEFINE t == [i \in 1 .. k + 1 |-> u[i]]
             e == <<u[k + 1], u[k + 2]>>
  <2>1. k + 1 + 1 = k + 2 /\ u \in [1 .. k + 2 -> Node]
    BY DEF Trail
  <2>2. t \in Trail(E, a, k)
    <3>1. t \in [1 .. k + 1 -> Node] /\ t[1] = a
      BY <2>1 DEF Trail
    <3>2. \A i \in 1 .. k : <<t[i], t[i + 1]>> \in E
      BY DEF Trail
    <3>3. \A i \in 2 .. k : \A j \in 1 .. i : t[i + 1] # t[j]
      BY DEF Trail
    <3> QED
      BY <3>1, <3>2, <3>3 DEF Trail
  <2>3. t \in Seq(Node) /\ Len(t) = k + 1 /\ Last(t) = u[k + 1] /\ ToSet(t) = {u[j] : j \in 1 .. k + 1}
    <3>1. t[k + 1] = u[k + 1] /\ \A j \in 1 .. k + 1 : t[j] = u[j]
      OBVIOUS
    <3> HIDE DEF t
    <3>2. /\ t \in Seq(Node) /\ Len(t) = k + 1 /\ Last(t) = t[k + 1]
          /\ ToSet(t) = {t[j] : j \in 1 .. k + 1}
      BY <2>2, TrailSeq
    <3>3. {t[j] : j \in 1 .. k + 1} = {u[j] : j \in 1 .. k + 1}
      BY <3>1
    <3>4. t[k + 1] = u[k + 1]
      BY <3>1
    <3> QED
      BY <3>2, <3>3, <3>4
  <2>4. e \in E /\ e[1] = u[k + 1] /\ e[2] = u[k + 2]
    <3>1. <<u[k + 1], u[k + 1 + 1]>> \in E
      BY DEF Trail
    <3> QED
      BY <2>1, <3>1
  <2>5. e[2] \notin ToSet(t)
    <3>1. \A j \in 1 .. k + 1 : u[k + 1 + 1] # u[j]
      BY DEF Trail
    <3> QED
      BY <2>1, <2>3, <2>4, <3>1
  <2>6. u = Append(t, e[2])
    <3>1. Append(t, e[2]) = [i \in 1 .. k + 2 |-> IF i = k + 2 THEN e[2] ELSE t[i]]
      <4> HIDE DEF t, e
      <4> QED
        BY <2>3
    <3>2. \A i \in 1 .. k + 2 : u[i] = IF i = k + 2 THEN e[2] ELSE t[i]
      BY <2>4
    <3> HIDE DEF t, e
    <3> QED
      BY <2>1, <3>1, <3>2
  <2> HIDE DEF t, e
  <2> QED
    BY <2>2, <2>3, <2>4, <2>5, <2>6
<1>3. ASSUME NEW t \in Trail(E, a, k),
             NEW u \in {Append(t, e[2]) : e \in {f \in E : f[1] = Last(t) /\ f[2] \notin ToSet(t)}}
      PROVE  u \in Trail(E, a, k + 1)
  BY <1>1
<1>4. \A u \in Trail(E, a, k + 1) : \E t \in Trail(E, a, k) :
        u \in {Append(t, e[2]) : e \in {f \in E : f[1] = Last(t) /\ f[2] \notin ToSet(t)}}
  BY <1>2
<1> QED
  BY <1>3, <1>4

(* f and h take each value from the value before it, in the same way. *)
FollowOn(K, first, f, h) ==
  /\ K \subseteq Nat
  /\ \A k \in K : k = first \/ k - 1 \in K
  /\ \A k \in K : (k = first \/ f[k - 1] = h[k - 1]) => f[k] = h[k]

LEMMA Agree ==
  ASSUME NEW K, NEW first, NEW f, NEW h, FollowOn(K, first, f, h)
  PROVE  \A k \in K : f[k] = h[k]
<1> DEFINE D == {k \in K : f[k] # h[k]}
<1>1. ASSUME D # {} PROVE FALSE
  <2>1. D \subseteq Nat
    BY DEF FollowOn
  <2>2. PICK k \in D : \A n \in D : k <= n
    BY <1>1, <2>1, SmallestNat
  <2>3. k # first /\ k - 1 \in D
    BY DEF FollowOn
  <2> QED
    BY <2>1, <2>2, <2>3
<1> QED
  BY <1>1

LEMMA OneStep ==
  ASSUME NEW E, Graph(E), NEW a \in Node, NEW c
  PROVE  Walked(E, a, c, 1) <=> <<a, c>> \in E
<1>1. Walked(E, a, c, 0 + 1) <=> \E b \in Node : Walked(E, a, b, 0) /\ <<b, c>> \in E
  BY OneStepMore
<1>2. \A b \in Node : Walked(E, a, b, 0) <=> a = b
  BY NoStep
<1>3. 0 + 1 = 1
  OBVIOUS
<1>4. Walked(E, a, c, 1) <=> \E b \in Node : a = b /\ <<b, c>> \in E
  BY <1>1, <1>2, <1>3
<1> QED
  BY <1>4

LEMMA FirstTrails ==
  ASSUME NEW E, Graph(E), NEW a \in Node
  PROVE  Trail(E, a, 1) = {<<a, e[2]>> : e \in {f \in E : f[1] = a}}
<1>1. ASSUME NEW e \in E, e[1] = a PROVE <<a, e[2]>> \in Trail(E, a, 1)
  <2>1. e = <<a, e[2]>> /\ e[2] \in Node
    BY <1>1 DEF Graph
  <2> DEFINE t == <<a, e[2]>>
  <2>2. t[1] = a /\ t[2] = e[2] /\ t \in [1 .. 1 + 1 -> Node]
    BY <2>1
  <2> HIDE DEF t
  <2>3. \A i \in 1 .. 1 : <<t[i], t[i + 1]>> \in E
    BY <2>1, <2>2
  <2>4. t \in Trail(E, a, 1)
    BY <2>2, <2>3 DEF Trail
  <2> QED
    BY <2>4 DEF t
<1>2. ASSUME NEW t \in Trail(E, a, 1) PROVE \E e \in E : e[1] = a /\ t = <<a, e[2]>>
  <2>1. t \in [1 .. 2 -> Node] /\ t[1] = a /\ <<t[1], t[2]>> \in E
    BY DEF Trail
  <2>2. t = <<t[1], t[2]>>
    BY <2>1
  <2> DEFINE e == <<t[1], t[2]>>
  <2>3. e[1] = t[1] /\ e[2] = t[2]
    OBVIOUS
  <2> QED
    BY <2>1, <2>2, <2>3
<1>3. \A t \in Trail(E, a, 1) : t \in {<<a, e[2]>> : e \in {f \in E : f[1] = a}}
  BY <1>2
<1>4. \A t \in {<<a, e[2]>> : e \in {f \in E : f[1] = a}} : t \in Trail(E, a, 1)
  BY <1>1
<1> QED
  BY <1>3, <1>4

(* The body of the recursion in Trails. *)
GrowOf(E, a, k, f) ==
  IF k = 1 THEN {<<a, e[2]>> : e \in {d \in E : d[1] = a}}
  ELSE UNION {{Append(t, e[2]) :
         e \in {d \in E : d[1] = Last(t) /\ d[2] \notin ToSet(t)}} : t \in f[k - 1]}
Grows(E, a, f) == f = [k \in Nat \ {0} |-> GrowOf(E, a, k, f)]

LEMMA TrailsAre ==
  ASSUME NEW E, Graph(E), NEW a \in Node
  PROVE  Trails(E, a) = UNION {Trail(E, a, k) : k \in 1 .. Cardinality(Node)}
<1> DEFINE grow == CHOOSE f : Grows(E, a, f)
           c    == [k \in Nat \ {0} |-> Trail(E, a, k)]
<1>1. Trails(E, a) = UNION {grow[k] : k \in 1 .. Cardinality(Node)}
  BY DEF Trails, Grows, GrowOf
<1>2. ASSUME NEW k \in Nat \ {0} PROVE c[k] = GrowOf(E, a, k, c)
  <2>1. CASE k = 1
    BY <2>1, FirstTrails DEF GrowOf
  <2>2. CASE k # 1
    <3>1. PICK j \in Nat \ {0} : k = j + 1 /\ j = k - 1
      BY <2>2
    <3>2. c[k - 1] = Trail(E, a, j) /\ c[k] = Trail(E, a, j + 1)
      BY <3>1
    <3> HIDE DEF c
    <3>3. Trail(E, a, j + 1) =
            UNION {{Append(t, e[2]) : e \in {f \in E : f[1] = Last(t) /\ f[2] \notin ToSet(t)}} :
                     t \in Trail(E, a, j)}
      BY TrailGrows
    <3>4. GrowOf(E, a, k, c) =
            UNION {{Append(t, e[2]) : e \in {f \in E : f[1] = Last(t) /\ f[2] \notin ToSet(t)}} :
                     t \in c[k - 1]}
      BY <2>2 DEF GrowOf
    <3> QED
      BY <3>2, <3>3, <3>4
  <2> QED
    BY <2>1, <2>2
<1>3. Grows(E, a, c)
  BY <1>2 DEF Grows
<1> HIDE DEF c
<1>4. Grows(E, a, grow)
  BY <1>3
<1> HIDE DEF grow
<1>5. \A k \in Nat \ {0} : c[k] = GrowOf(E, a, k, c) /\ grow[k] = GrowOf(E, a, k, grow)
  BY <1>3, <1>4 DEF Grows
<1>6. \A k \in Nat \ {0} : k = 1 \/ c[k - 1] = grow[k - 1] => c[k] = grow[k]
  <2> SUFFICES ASSUME NEW k \in Nat \ {0}, k = 1 \/ c[k - 1] = grow[k - 1] PROVE c[k] = grow[k]
    OBVIOUS
  <2>1. GrowOf(E, a, k, c) = GrowOf(E, a, k, grow)
    <3>1. CASE k = 1
      BY <3>1 DEF GrowOf
    <3>2. CASE k # 1
      BY <3>2 DEF GrowOf
    <3> QED
      BY <3>1, <3>2
  <2> QED
    BY <1>5, <2>1
<1>7. \A k \in Nat \ {0} : c[k] = grow[k]
  <2> DEFINE K == Nat \ {0}
  <2>1. K \subseteq Nat /\ 1 \in Nat /\ \A k \in K : k = 1 \/ k - 1 \in K
    OBVIOUS
  <2>2. \A k \in K : (k = 1 \/ c[k - 1] = grow[k - 1]) => c[k] = grow[k]
    BY <1>6
  <2> HIDE DEF K
  <2>3. FollowOn(K, 1, c, grow)
    BY <2>1, <2>2 DEF FollowOn
  <2>4. \A k \in K : c[k] = grow[k]
    BY <2>3, Agree
  <2> QED
    BY <2>4 DEF K
<1>8. \A k \in Nat \ {0} : grow[k] = Trail(E, a, k)
  BY <1>7 DEF c
<1>9. \A k \in 1 .. Cardinality(Node) : k \in Nat \ {0}
  OBVIOUS
<1> QED
  BY <1>1, <1>8, <1>9

-----------------------------------------------------------------------------
(* What at most k steps lead to *)
NearOf(E, n, i, f) ==
  IF i = 0 THEN {n}
  ELSE f[i - 1] \cup {e[2] : e \in {d \in E : d[1] \in f[i - 1]}}
Nears(E, n, k, f) == f = [i \in 0 .. k |-> NearOf(E, n, i, f)]

Ball(E, n, k) == {m \in Node : \E j \in 0 .. k : Walked(E, n, m, j)}

LEMMA BallGrows ==
  ASSUME NEW E, Graph(E), NEW n \in Node, NEW k \in Nat
  PROVE  Ball(E, n, k + 1) =
           Ball(E, n, k) \cup {e[2] : e \in {f \in E : f[1] \in Ball(E, n, k)}}
<1>1. ASSUME NEW m \in Node, NEW j \in 0 .. k + 1, Walked(E, n, m, j)
      PROVE  m \in Ball(E, n, k) \/ \E e \in E : e[1] \in Ball(E, n, k) /\ m = e[2]
  <2>1. CASE j \in 0 .. k
    BY <1>1, <2>1 DEF Ball
  <2>2. CASE j = k + 1
    <3>1. PICK b \in Node : Walked(E, n, b, k) /\ <<b, m>> \in E
      BY <1>1, <2>2, OneStepMore
    <3>2. b \in Ball(E, n, k)
      BY <3>1 DEF Ball
    <3> QED
      BY <3>1, <3>2
  <2> QED
    BY <2>1, <2>2
<1>2. ASSUME NEW e \in E, NEW j \in 0 .. k, e[1] \in Node, Walked(E, n, e[1], j)
      PROVE  e[2] \in Ball(E, n, k + 1)
  <2>1. e = <<e[1], e[2]>> /\ e[2] \in Node
    BY DEF Graph
  <2>2. Walked(E, n, e[2], j + 1)
    BY <1>2, <2>1, OneStepMore
  <2> QED
    BY <2>1, <2>2 DEF Ball
<1>3. ASSUME NEW m \in Ball(E, n, k) PROVE m \in Ball(E, n, k + 1)
  BY DEF Ball
<1>4. \A m \in Ball(E, n, k + 1) :
        m \in Ball(E, n, k) \cup {e[2] : e \in {f \in E : f[1] \in Ball(E, n, k)}}
  BY <1>1 DEF Ball
<1>5. \A e \in E : e[1] \in Ball(E, n, k) => e[2] \in Ball(E, n, k + 1)
  <2> SUFFICES ASSUME NEW e \in E, e[1] \in Ball(E, n, k) PROVE e[2] \in Ball(E, n, k + 1)
    OBVIOUS
  <2>1. e[1] \in Node /\ \E j \in 0 .. k : Walked(E, n, e[1], j)
    BY DEF Ball
  <2> QED
    BY <1>2, <2>1
<1> QED
  BY <1>3, <1>4, <1>5

LEMMA WithinIs ==
  ASSUME NEW E, Graph(E), NEW n \in Node, NEW k \in Nat
  PROVE  Within(E, n, k) = Ball(E, n, k)
<1> DEFINE near == CHOOSE f : Nears(E, n, k, f)
           c    == [i \in 0 .. k |-> Ball(E, n, i)]
<1>1. Within(E, n, k) = near[k]
  BY DEF Within, Nears, NearOf
<1>2. ASSUME NEW i \in 0 .. k PROVE c[i] = NearOf(E, n, i, c)
  <2>1. CASE i = 0
    <3>1. \A m \in Node : m \in Ball(E, n, 0) <=> Walked(E, n, m, 0)
      BY DEF Ball
    <3>2. Ball(E, n, 0) \subseteq Node
      BY DEF Ball
    <3>3. Ball(E, n, 0) = {n}
      BY <3>1, <3>2, NoStep
    <3> QED
      BY <2>1, <3>3 DEF NearOf
  <2>2. CASE i # 0
    <3>1. PICK j \in Nat : i = j + 1 /\ j = i - 1 /\ j \in 0 .. k
      BY <2>2
    <3>2. c[i - 1] = Ball(E, n, j) /\ c[i] = Ball(E, n, j + 1)
      BY <3>1
    <3> HIDE DEF c
    <3> QED
      BY <2>2, <3>2, BallGrows DEF NearOf
  <2> QED
    BY <2>1, <2>2
<1>3. Nears(E, n, k, c)
  BY <1>2 DEF Nears
<1> HIDE DEF c
<1>4. Nears(E, n, k, near)
  BY <1>3
<1> HIDE DEF near
<1>5. \A i \in 0 .. k : c[i] = NearOf(E, n, i, c) /\ near[i] = NearOf(E, n, i, near)
  BY <1>3, <1>4 DEF Nears
<1>6. \A i \in 0 .. k : i = 0 \/ c[i - 1] = near[i - 1] => c[i] = near[i]
  <2> SUFFICES ASSUME NEW i \in 0 .. k, i = 0 \/ c[i - 1] = near[i - 1] PROVE c[i] = near[i]
    OBVIOUS
  <2>1. NearOf(E, n, i, c) = NearOf(E, n, i, near)
    <3>1. CASE i = 0
      BY <3>1 DEF NearOf
    <3>2. CASE i # 0
      BY <3>2 DEF NearOf
    <3> QED
      BY <3>1, <3>2
  <2> QED
    BY <1>5, <2>1
<1>7. \A i \in 0 .. k : c[i] = near[i]
  <2> DEFINE K == 0 .. k
  <2>1. K \subseteq Nat /\ 0 \in Nat /\ \A i \in K : i = 0 \/ i - 1 \in K
    OBVIOUS
  <2>2. \A i \in K : (i = 0 \/ c[i - 1] = near[i - 1]) => c[i] = near[i]
    BY <1>6
  <2> HIDE DEF K
  <2>3. FollowOn(K, 0, c, near)
    BY <2>1, <2>2 DEF FollowOn
  <2>4. \A i \in K : c[i] = near[i]
    BY <2>3, Agree
  <2> QED
    BY <2>4 DEF K
<1>8. c[k] = Ball(E, n, k)
  BY DEF c
<1> QED
  BY <1>1, <1>7, <1>8

(* What exactly k steps lead to *)
LevelOf(E, n, k, f) ==
  {e[2] : e \in {d \in E : IF k = 1 THEN d[1] = n ELSE d[1] \in f[k - 1]}}
Levels(E, n, max, f) == f = [k \in 1 .. max |-> LevelOf(E, n, k, f)]

Sphere(E, n, k) == {m \in Node : Walked(E, n, m, k)}

LEMMA SphereGrows ==
  ASSUME NEW E, Graph(E), NEW n \in Node, NEW k \in Nat
  PROVE  Sphere(E, n, k + 1) = {e[2] : e \in {f \in E : f[1] \in Sphere(E, n, k)}}
<1>1. ASSUME NEW m \in Sphere(E, n, k + 1)
      PROVE  \E e \in E : e[1] \in Sphere(E, n, k) /\ m = e[2]
  <2>1. Walked(E, n, m, k + 1)
    BY DEF Sphere
  <2>2. PICK b \in Node : Walked(E, n, b, k) /\ <<b, m>> \in E
    BY <2>1, OneStepMore
  <2>3. b \in Sphere(E, n, k)
    BY <2>2 DEF Sphere
  <2> QED
    BY <2>2, <2>3
<1>2. ASSUME NEW e \in E, e[1] \in Sphere(E, n, k)
      PROVE  e[2] \in Sphere(E, n, k + 1)
  <2>1. e = <<e[1], e[2]>> /\ e[2] \in Node /\ e[1] \in Node
    BY DEF Graph
  <2>2. Walked(E, n, e[1], k)
    BY <1>2 DEF Sphere
  <2>3. Walked(E, n, e[2], k + 1)
    BY <2>1, <2>2, OneStepMore
  <2> QED
    BY <2>1, <2>3 DEF Sphere
<1> QED
  BY <1>1, <1>2

LEMMA WalksAre ==
  ASSUME NEW E, Graph(E), NEW n \in Node, NEW max \in Nat
  PROVE  Walks(E, n, max) =
           UNION {{[node |-> m, depth |-> k] : m \in Sphere(E, n, k)} : k \in 1 .. max}
<1> DEFINE level == CHOOSE f : Levels(E, n, max, f)
           c     == [k \in 1 .. max |-> Sphere(E, n, k)]
<1>1. Walks(E, n, max) = UNION {{[node |-> m, depth |-> k] : m \in level[k]} : k \in 1 .. max}
  BY DEF Walks, Levels, LevelOf
<1>2. ASSUME NEW k \in 1 .. max PROVE c[k] = LevelOf(E, n, k, c)
  <2>1. PICK j \in Nat : k = j + 1 /\ j = k - 1
    OBVIOUS
  <2>2. Sphere(E, n, k) = {e[2] : e \in {f \in E : f[1] \in Sphere(E, n, j)}}
    BY <2>1, SphereGrows
  <2>3. CASE k = 1
    <3>1. Sphere(E, n, 0) = {n}
      <4>1. \A m \in Node : m \in Sphere(E, n, 0) <=> Walked(E, n, m, 0)
        BY DEF Sphere
      <4>2. Sphere(E, n, 0) \subseteq Node
        BY DEF Sphere
      <4> QED
        BY <4>1, <4>2, NoStep
    <3>2. j = 0
      BY <2>1, <2>3
    <3>3. Sphere(E, n, k) = {e[2] : e \in {f \in E : f[1] = n}}
      BY <2>2, <3>1, <3>2
    <3> QED
      BY <2>3, <3>3 DEF LevelOf
  <2>4. CASE k # 1
    <3>1. c[k - 1] = Sphere(E, n, j) /\ c[k] = Sphere(E, n, k)
      BY <2>1, <2>4
    <3> HIDE DEF c
    <3> QED
      BY <2>2, <2>4, <3>1 DEF LevelOf
  <2> QED
    BY <2>3, <2>4
<1>3. Levels(E, n, max, c)
  BY <1>2 DEF Levels
<1> HIDE DEF c
<1>4. Levels(E, n, max, level)
  BY <1>3
<1> HIDE DEF level
<1>5. \A k \in 1 .. max : c[k] = LevelOf(E, n, k, c) /\ level[k] = LevelOf(E, n, k, level)
  BY <1>3, <1>4 DEF Levels
<1>6. \A k \in 1 .. max : k = 1 \/ c[k - 1] = level[k - 1] => c[k] = level[k]
  BY <1>5 DEF LevelOf
<1>7. \A k \in 1 .. max : c[k] = level[k]
  <2> DEFINE K == 1 .. max
  <2>1. K \subseteq Nat /\ 1 \in Nat /\ \A k \in K : k = 1 \/ k - 1 \in K
    OBVIOUS
  <2>2. \A k \in K : (k = 1 \/ c[k - 1] = level[k - 1]) => c[k] = level[k]
    BY <1>6
  <2> HIDE DEF K
  <2>3. FollowOn(K, 1, c, level)
    BY <2>1, <2>2 DEF FollowOn
  <2>4. \A k \in K : c[k] = level[k]
    BY <2>3, Agree
  <2> QED
    BY <2>4 DEF K
<1>8. \A k \in 1 .. max : level[k] = Sphere(E, n, k)
  BY <1>7 DEF c
<1> QED
  BY <1>1, <1>8

-----------------------------------------------------------------------------
(* The number of steps of a shortest walk from A to m. *)
Dist(E, A, m, k) ==
  /\ \E a \in A : Walked(E, a, m, k)
  /\ \A a \in A, j \in 0 .. k - 1 : ~Walked(E, a, m, j)

LEMMA Nearest ==
  ASSUME NEW E, NEW A, NEW m, NEW k \in Nat, NEW a \in A, Walked(E, a, m, k)
  PROVE  \E d \in 0 .. k : Dist(E, A, m, d)
<1> DEFINE T == {j \in 0 .. k : \E b \in A : Walked(E, b, m, j)}
<1>1. T \subseteq Nat /\ T # {}
  OBVIOUS
<1>2. PICK d \in T : \A j \in T : d <= j
  BY <1>1, SmallestNat
<1>3. d \in 0 .. k /\ \E b \in A : Walked(E, b, m, d)
  OBVIOUS
<1>4. ASSUME NEW b \in A, NEW j \in 0 .. d - 1, Walked(E, b, m, j) PROVE FALSE
  <2>1. j \in T
    BY <1>3, <1>4
  <2> QED
    BY <1>2, <1>3, <2>1
<1> QED
  BY <1>3, <1>4 DEF Dist

Trailed(E, a, m, k) == \E t \in Trail(E, a, k) : t[k + 1] = m

LEMMA TrailIsWalk ==
  ASSUME NEW E, NEW a, NEW m, NEW k \in Nat, Trailed(E, a, m, k)
  PROVE  Walked(E, a, m, k) /\ m \in Node
<1>1. PICK t \in Trail(E, a, k) : t[k + 1] = m
  BY DEF Trailed
<1> DEFINE w == [i \in 0 .. k |-> t[i + 1]]
<1>2. t \in [1 .. k + 1 -> Node] /\ t[1] = a /\ \A i \in 1 .. k : <<t[i], t[i + 1]>> \in E
  BY DEF Trail
<1>3. w \in [0 .. k -> Node]
  BY <1>2
<1>4. ASSUME NEW i \in 0 .. k - 1 PROVE <<w[i], w[i + 1]>> \in E
  <2>1. w[i] = t[i + 1] /\ w[i + 1] = t[i + 1 + 1] /\ i + 1 \in 1 .. k
    OBVIOUS
  <2> QED
    BY <1>2, <2>1
<1>5. w \in Walk(E, k)
  BY <1>3, <1>4 DEF Walk
<1>6. w[0] = a /\ w[k] = m
  BY <1>1, <1>2
<1>7. m \in Node
  BY <1>1, <1>2
<1> QED
  BY <1>5, <1>6, <1>7 DEF Walked

(* A shortest walk enters no node twice, so it is no longer than the       *)
(* graph.                                                                  *)
LEMMA ShortestIsTrail ==
  ASSUME IsFiniteSet(Node), NEW E, NEW a, NEW m, NEW k \in Nat, Walked(E, a, m, k),
         \A j \in 0 .. k - 1 : ~Walked(E, a, m, j)
  PROVE  k < Cardinality(Node) /\ Trailed(E, a, m, k)
<1>1. PICK w \in Walk(E, k) : w[0] = a /\ w[k] = m
  BY DEF Walked
<1>2. \A i, j \in 0 .. k : i < j => w[i] # w[j]
  <2> SUFFICES ASSUME NEW i \in 0 .. k, NEW j \in 0 .. k, i < j, w[i] = w[j] PROVE FALSE
    OBVIOUS
  <2>1. PICK n \in 0 .. k - 1 : Walked(E, w[0], w[k], n)
    BY ShortCut
  <2> QED
    BY <1>1, <2>1
<1>3. w \in [0 .. k -> Node] /\ \A i \in 0 .. k - 1 : <<w[i], w[i + 1]>> \in E
  BY DEF Walk
<1>4. k < Cardinality(Node)
  <2>1. \A i, j \in 0 .. k : w[i] = w[j] => i = j
    BY <1>2
  <2>2. w \in Injection(0 .. k, Node)
    BY <1>3, <2>1 DEF Injection, IsInjective
  <2>3. Cardinality(0 .. k) <= Cardinality(Node)
    BY <2>2, FS_Injection
  <2>4. Cardinality(0 .. k) = k - 0 + 1
    BY FS_Interval
  <2>5. Cardinality(Node) \in Nat
    BY FS_CardinalityType
  <2> QED
    BY <2>3, <2>4, <2>5
<1> DEFINE t == [i \in 1 .. k + 1 |-> w[i - 1]]
<1>5. t \in [1 .. k + 1 -> Node] /\ t[1] = a /\ t[k + 1] = m
  BY <1>1, <1>3
<1>6. ASSUME NEW i \in 1 .. k PROVE <<t[i], t[i + 1]>> \in E
  <2>1. t[i] = w[i - 1] /\ t[i + 1] = w[i - 1 + 1] /\ i - 1 \in 0 .. k - 1
    OBVIOUS
  <2> QED
    BY <1>3, <2>1
<1>7. ASSUME NEW i \in 2 .. k, NEW j \in 1 .. i PROVE t[i + 1] # t[j]
  <2>1. t[i + 1] = w[i] /\ t[j] = w[j - 1] /\ i \in 0 .. k /\ j - 1 \in 0 .. k /\ j - 1 < i
    OBVIOUS
  <2> QED
    BY <1>2, <2>1
<1>8. t \in Trail(E, a, k)
  BY <1>5, <1>6, <1>7 DEF Trail
<1> QED
  BY <1>4, <1>5, <1>8 DEF Trailed

LEMMA DistIsTrail ==
  ASSUME IsFiniteSet(Node), NEW E, NEW A, NEW m, NEW k \in Nat, Dist(E, A, m, k)
  PROVE  k < Cardinality(Node) /\ \E a \in A : Trailed(E, a, m, k)
<1>1. PICK a \in A : Walked(E, a, m, k)
  BY DEF Dist
<1>2. \A j \in 0 .. k - 1 : ~Walked(E, a, m, j)
  BY DEF Dist
<1> QED
  BY <1>1, <1>2, ShortestIsTrail

LEMMA MinIs ==
  ASSUME NEW D, D \subseteq Nat, NEW d \in D, \A k \in D : d <= k
  PROVE  Min(D) = d
<1>1. Min(D) \in D /\ \A k \in D : Min(D) <= k
  <2>1. \E n \in D : \A k \in D : n <= k
    OBVIOUS
  <2> QED
    BY <2>1 DEF Min
<1>2. Min(D) \in Nat /\ d \in Nat /\ Min(D) <= d /\ d <= Min(D)
  BY <1>1
<1> QED
  BY <1>2

(* The trails from A to m of at most max steps: the shortest has as many   *)
(* as the shortest walk.                                                   *)
Depths(E, A, m, max) ==
  {k \in 0 .. Cardinality(Node) : k <= max /\ \E a \in A : Trailed(E, a, m, k)}

LEMMA LeastDepth ==
  ASSUME IsFiniteSet(Node), NEW E, NEW A, NEW m, NEW max \in Nat
  PROVE  /\ \A d \in 0 .. max : Dist(E, A, m, d) =>
              d \in Depths(E, A, m, max) /\ Min(Depths(E, A, m, max)) = d
         /\ Depths(E, A, m, max) # {} =>
              /\ Min(Depths(E, A, m, max)) \in 0 .. max
              /\ Dist(E, A, m, Min(Depths(E, A, m, max)))
<1> DEFINE D == Depths(E, A, m, max)
<1>0. Cardinality(Node) \in Nat
  BY FS_CardinalityType
<1>1. D \subseteq Nat
  BY DEF Depths
<1>2. ASSUME NEW k \in D PROVE k \in 0 .. max /\ \E a \in A : Walked(E, a, m, k)
  <2>1. k \in Nat /\ k <= max
    BY DEF Depths
  <2>2. PICK a \in A : Trailed(E, a, m, k)
    BY DEF Depths
  <2> QED
    BY <2>1, <2>2, TrailIsWalk
<1>3. ASSUME NEW d \in 0 .. max, Dist(E, A, m, d) PROVE d \in D /\ Min(D) = d
  <2>1. d < Cardinality(Node) /\ \E a \in A : Trailed(E, a, m, d)
    BY <1>3, DistIsTrail
  <2>2. d \in D
    BY <1>0, <2>1 DEF Depths
  <2>3. \A k \in D : d <= k
    <3> SUFFICES ASSUME NEW k \in D, k < d PROVE FALSE
      BY <1>1
    <3>1. k \in 0 .. d - 1 /\ \E a \in A : Walked(E, a, m, k)
      BY <1>2
    <3> QED
      BY <1>3, <3>1 DEF Dist
  <2> HIDE DEF D
  <2> QED
    BY <1>1, <2>2, <2>3, MinIs
<1>4. ASSUME NEW k \in D PROVE \E d \in 0 .. max : Dist(E, A, m, d)
  <2>1. k \in 0 .. max /\ \E a \in A : Walked(E, a, m, k)
    BY <1>2
  <2>2. PICK d \in 0 .. k : Dist(E, A, m, d)
    BY <2>1, Nearest
  <2> QED
    BY <2>1, <2>2
<1> HIDE DEF D
<1>5. D # {} => Min(D) \in 0 .. max /\ Dist(E, A, m, Min(D))
  BY <1>3, <1>4
<1> QED
  BY <1>3, <1>5 DEF D

(* What at most k steps from A lead to, and what takes exactly k. *)
Around(E, A, k) == UNION {Ball(E, a, k) : a \in A}

LEMMA AroundIs ==
  ASSUME NEW E, NEW A, NEW k \in Nat, NEW m
  PROVE  m \in Around(E, A, k) <=>
           m \in Node /\ \E a \in A : \E j \in 0 .. k : Walked(E, a, m, j)
  BY DEF Around, Ball

LEMMA RingIs ==
  ASSUME NEW E, NEW A, NEW k \in Nat, NEW m
  PROVE  /\ m \in Around(E, A, 0) <=> m \in Node /\ Dist(E, A, m, 0)
         /\ m \in Around(E, A, k + 1) \ Around(E, A, k) <=> m \in Node /\ Dist(E, A, m, k + 1)
<1>1. Dist(E, A, m, 0) <=> \E a \in A : \E j \in 0 .. 0 : Walked(E, a, m, j)
  BY DEF Dist
<1>2. Dist(E, A, m, k + 1) <=>
        /\ \E a \in A : \E j \in 0 .. k + 1 : Walked(E, a, m, j)
        /\ ~\E a \in A : \E j \in 0 .. k : Walked(E, a, m, j)
  <2>1. k + 1 - 1 = k /\ k + 1 \in 0 .. k + 1 /\ \A j \in 0 .. k + 1 : j = k + 1 \/ j \in 0 .. k
    OBVIOUS
  <2> QED
    BY <2>1 DEF Dist
<1>3. k + 1 \in Nat
  OBVIOUS
<1> QED
  BY <1>1, <1>2, <1>3, AroundIs

-----------------------------------------------------------------------------
(* The rows of MCPlanQueries: dependencies join two nodes and have one of  *)
(* the three types.                                                        *)
Joins(d) == /\ d.source \in Node /\ d.target \in Node /\ d.source # d.target
            /\ d.type \in {"blocks", "requires", "relates_to"}
JoinsOnly == \A d \in plan.deps : Joins(d)

LEMMA PairsGraph ==
  ASSUME JoinsOnly, NEW D, D \subseteq plan.deps
  PROVE  /\ Graph(Pairs(D)) /\ Graph(Against(Pairs(D)))
         /\ \A n : <<n, n>> \notin Pairs(D)
<1>1. \A e \in Pairs(D) : \E d \in plan.deps : e = <<d.source, d.target>>
  BY DEF Pairs
<1>2. \A e \in Pairs(D) : e \in Node \X Node /\ e[1] # e[2]
  BY <1>1 DEF JoinsOnly, Joins
<1>3. \A e \in Against(Pairs(D)) : e \in Node \X Node
  BY <1>2 DEF Against
<1> QED
  BY <1>2, <1>3 DEF Graph

(* The trails of a query *)
LEMMA TrailsEnd ==
  ASSUME IsFiniteSet(Node), NEW E, Graph(E), NEW a \in Node, NEW t
  PROVE  t \in Trails(E, a) <=> \E k \in 1 .. Cardinality(Node) : t \in Trail(E, a, k)
  BY TrailsAre

LEMMA TrailEnds ==
  ASSUME NEW E, NEW a, NEW k \in Nat, NEW t \in Trail(E, a, k)
  PROVE  Len(t) = k + 1 /\ Last(t) = t[k + 1] /\ Last(t) \in Node
<1>1. t[k + 1] \in Node
  BY DEF Trail
<1> QED
  BY <1>1, TrailSeq

LEMMA CycleCheckIsExact ==
  ASSUME IsFiniteSet(Node), JoinsOnly
  PROVE  CycleCheckExact
<1> DEFINE E == Pairs({d \in plan.deps : d.type = "blocks"})
<1> SUFFICES ASSUME NEW s \in Node, NEW t \in Node, s # t
             PROVE  WouldCreateCycle(plan, s, t, {"blocks"}) <=> Reach(E, t, s)
  BY DEF CycleCheckExact
<1>1. Graph(E)
  BY PairsGraph
<1>2. WouldCreateCycle(plan, s, t, {"blocks"}) <=> \E u \in Trails(E, t) : Last(u) = s
  <2>1. {d \in plan.deps : d.type \in {"blocks"}} = {d \in plan.deps : d.type = "blocks"}
    OBVIOUS
  <2> QED
    BY <2>1 DEF WouldCreateCycle
<1> HIDE DEF E
<1>3. ASSUME NEW u \in Trails(E, t), Last(u) = s PROVE \E k \in Nat : Walked(E, t, s, k)
  <2>1. PICK k \in 1 .. Cardinality(Node) : u \in Trail(E, t, k)
    BY <1>1, TrailsEnd
  <2>2. k \in Nat
    OBVIOUS
  <2>3. Trailed(E, t, s, k)
    BY <1>3, <2>1, <2>2, TrailEnds DEF Trailed
  <2> QED
    BY <2>2, <2>3, TrailIsWalk
<1>4. ASSUME NEW k \in Nat, Walked(E, t, s, k) PROVE \E u \in Trails(E, t) : Last(u) = s
  <2>1. PICK d \in 0 .. k : Dist(E, {t}, s, d)
    BY <1>4, Nearest
  <2>2. d < Cardinality(Node) /\ Trailed(E, t, s, d)
    BY <2>1, DistIsTrail
  <2>3. d # 0
    <3>1. ASSUME d = 0 PROVE FALSE
      <4>1. Walked(E, t, s, 0)
        BY <2>1, <3>1 DEF Dist
      <4> QED
        BY <4>1, NoStep
    <3> QED
      BY <3>1
  <2>4. d \in 1 .. Cardinality(Node)
    BY <2>2, <2>3, FS_CardinalityType
  <2>5. PICK u \in Trail(E, t, d) : u[d + 1] = s
    BY <2>2 DEF Trailed
  <2>6. Last(u) = s
    BY <2>5, TrailEnds
  <2> QED
    BY <1>1, <2>4, <2>5, <2>6, TrailsEnd
<1> QED
  BY <1>1, <1>2, <1>3, <1>4, ReachIsWalk

(* The graph that the impact of a node is about, said in two ways *)
Scenario(scenario) ==
  {d \in plan.deps : d.type \in IF scenario = "remove" THEN Blocking \cup {"relates_to"} ELSE Blocking}

LEMMA ScenarioIs ==
  ASSUME JoinsOnly, NEW scenario \in {"block", "remove"}
  PROVE  Scenario(scenario) = {d \in plan.deps : d.type # "relates_to" \/ scenario = "remove"}
  BY DEF Scenario, JoinsOnly, Joins, Blocking

(* A node is listed with the length of a shortest walk to it. *)
LEMMA ImpactIs ==
  ASSUME IsFiniteSet(Node), JoinsOnly, NEW n \in Node, NEW scenario \in {"block", "remove"},
         NEW r
  PROVE  r \in Impact(plan, n, scenario) <=>
           \E m \in Open(plan, Node), d \in 1 .. MaxDepth :
             /\ Dist(Pairs(Scenario(scenario)), {n}, m, d)
             /\ r = [node |-> m, depth |-> d]
<1> DEFINE E         == Pairs(Scenario(scenario))
           trails    == {t \in Trails(E, n) : Len(t) - 1 <= MaxDepth}
           depths(m) == {Len(t) - 1 : t \in {u \in trails : Last(u) = m}}
<1>1. Impact(plan, n, scenario) =
        {[node |-> m, depth |-> Min(depths(m))] : m \in Open(plan, {Last(t) : t \in trails})}
  BY DEF Impact, Scenario
<1>2. Graph(E) /\ <<n, n>> \notin E
  BY PairsGraph DEF Scenario
<1>3. MaxDepth \in Nat \ {0} /\ Cardinality(Node) \in Nat
  BY PQAssumption, FS_CardinalityType
<1> HIDE DEF E
<1>4. \A t : t \in trails <=>
        \E k \in 1 .. Cardinality(Node) : k <= MaxDepth /\ t \in Trail(E, n, k) /\ Len(t) - 1 = k
  <2> SUFFICES ASSUME NEW t
               PROVE  t \in trails <=>
                        \E k \in 1 .. Cardinality(Node) :
                          k <= MaxDepth /\ t \in Trail(E, n, k) /\ Len(t) - 1 = k
    OBVIOUS
  <2>1. \A k \in 1 .. Cardinality(Node) : t \in Trail(E, n, k) => Len(t) - 1 = k
    <3> SUFFICES ASSUME NEW k \in 1 .. Cardinality(Node), t \in Trail(E, n, k) PROVE Len(t) - 1 = k
      OBVIOUS
    <3>1. Len(t) = k + 1
      BY TrailEnds
    <3> QED
      BY <3>1
  <2> QED
    BY <1>2, <2>1, TrailsEnd
<1> HIDE DEF trails
<1>5. ASSUME NEW m PROVE ~Trailed(E, n, n, m) \/ m \notin 1 .. Cardinality(Node)
  <2> SUFFICES ASSUME m \in 1 .. Cardinality(Node), NEW t \in Trail(E, n, m), t[m + 1] = n PROVE FALSE
    BY DEF Trailed
  <2>1. t[1] = n /\ <<t[m], t[m + 1]>> \in E /\ (m # 1 => t[m + 1] # t[1])
    BY DEF Trail
  <2> QED
    BY <1>2, <2>1
<1>6. ASSUME NEW m \in Node PROVE depths(m) = IF m = n THEN {} ELSE Depths(E, {n}, m, MaxDepth)
  <2>1. \A k : k \in depths(m) <=>
          k \in 1 .. Cardinality(Node) /\ k <= MaxDepth /\ Trailed(E, n, m, k)
    <3>1. ASSUME NEW t \in trails, Last(t) = m
          PROVE  LET k == Len(t) - 1 IN
                 k \in 1 .. Cardinality(Node) /\ k <= MaxDepth /\ Trailed(E, n, m, k)
      <4>1. PICK k \in 1 .. Cardinality(Node) :
              k <= MaxDepth /\ t \in Trail(E, n, k) /\ Len(t) - 1 = k
        BY <1>4, <3>1
      <4>2. t[k + 1] = m
        BY <3>1, <4>1, TrailEnds
      <4> QED
        BY <4>1, <4>2 DEF Trailed
    <3>2. ASSUME NEW k \in 1 .. Cardinality(Node), k <= MaxDepth, NEW t \in Trail(E, n, k), t[k + 1] = m
          PROVE  t \in trails /\ Last(t) = m /\ Len(t) - 1 = k
      <4>1. Len(t) = k + 1 /\ Last(t) = m
        BY <3>2, TrailEnds
      <4>2. Len(t) - 1 = k
        BY <4>1
      <4> QED
        BY <1>4, <3>2, <4>1, <4>2
    <3> QED
      BY <3>1, <3>2 DEF Trailed
  <2>2. CASE m = n
    <3>1. \A k : k \notin depths(m)
      BY <1>5, <2>1, <2>2
    <3> QED
      BY <2>2, <3>1
  <2>3. CASE m # n
    <3>1. ~Trailed(E, n, m, 0)
      <4>1. ASSUME NEW t \in Trail(E, n, 0), t[0 + 1] = m PROVE FALSE
        BY <2>3, <4>1 DEF Trail
      <4> QED
        BY <4>1 DEF Trailed
    <3>2. \A k : k \in Depths(E, {n}, m, MaxDepth) <=>
            k \in 1 .. Cardinality(Node) /\ k <= MaxDepth /\ Trailed(E, n, m, k)
      BY <1>3, <3>1 DEF Depths
    <3> HIDE DEF depths
    <3> QED
      BY <2>1, <2>3, <3>2
  <2> QED
    BY <2>2, <2>3
<1>7. \A m : m \in {Last(t) : t \in trails} <=> m \in Node /\ depths(m) # {}
  <2>1. ASSUME NEW t \in trails PROVE Last(t) \in Node /\ Len(t) - 1 \in depths(Last(t))
    <3>1. PICK k \in 1 .. Cardinality(Node) : t \in Trail(E, n, k)
      BY <1>4
    <3> QED
      BY <3>1, TrailEnds
  <2> QED
    BY <2>1
<1> HIDE DEF depths
<1>8. ASSUME NEW m \in Node, depths(m) # {}
      PROVE  Min(depths(m)) \in 1 .. MaxDepth /\ Dist(E, {n}, m, Min(depths(m)))
  <2>1. m # n /\ depths(m) = Depths(E, {n}, m, MaxDepth)
    BY <1>6, <1>8
  <2>2. Min(depths(m)) \in 0 .. MaxDepth /\ Dist(E, {n}, m, Min(depths(m)))
    BY <1>3, <1>8, <2>1, LeastDepth
  <2>3. Min(depths(m)) # 0
    <3>1. ASSUME Dist(E, {n}, m, 0) PROVE FALSE
      <4>1. Walked(E, n, m, 0)
        BY <3>1 DEF Dist
      <4> QED
        BY <2>1, <4>1, NoStep
    <3> QED
      BY <2>2, <3>1
  <2> QED
    BY <2>2, <2>3
<1>9. ASSUME NEW m \in Node, NEW d \in 1 .. MaxDepth, Dist(E, {n}, m, d)
      PROVE  depths(m) # {} /\ d = Min(depths(m))
  <2>1. m # n
    <3>1. ASSUME m = n PROVE FALSE
      <4>1. Walked(E, n, m, 0)
        BY <3>1, NoStep
      <4>2. 0 \in 0 .. d - 1
        OBVIOUS
      <4> QED
        BY <1>9, <4>1, <4>2 DEF Dist
    <3> QED
      BY <3>1
  <2>2. depths(m) = Depths(E, {n}, m, MaxDepth)
    BY <1>6, <2>1
  <2>3. d \in 0 .. MaxDepth /\ MaxDepth \in Nat
    BY <1>3
  <2> QED
    BY <1>9, <2>2, <2>3, LeastDepth
<1>10. Open(plan, {Last(t) : t \in trails}) = {m \in Open(plan, Node) : depths(m) # {}}
  BY <1>7 DEF Open
<1>11. Open(plan, Node) \subseteq Node
  BY DEF Open
<1>12. r \in Impact(plan, n, scenario) <=>
         \E m \in Open(plan, Node) : depths(m) # {} /\ r = [node |-> m, depth |-> Min(depths(m))]
  BY <1>1, <1>10
<1>13. ASSUME NEW m \in Open(plan, Node)
       PROVE  (depths(m) # {} /\ r = [node |-> m, depth |-> Min(depths(m))]) <=>
                \E d \in 1 .. MaxDepth : Dist(E, {n}, m, d) /\ r = [node |-> m, depth |-> d]
  <2>1. m \in Node
    BY <1>11
  <2> QED
    BY <1>8, <1>9, <2>1
<1>14. r \in Impact(plan, n, scenario) <=>
         \E m \in Open(plan, Node) :
           \E d \in 1 .. MaxDepth : Dist(E, {n}, m, d) /\ r = [node |-> m, depth |-> d]
  BY <1>12, <1>13
<1> QED
  BY <1>14 DEF E

LEMMA ImpactIsExact ==
  ASSUME IsFiniteSet(Node), JoinsOnly
  PROVE  ImpactExact
<1> SUFFICES ASSUME NEW n \in Node, NEW scenario \in {"block", "remove"}
             PROVE  LET E    == Pairs({d \in plan.deps : d.type # "relates_to" \/ scenario = "remove"})
                        near == [k \in 0 .. MaxDepth |-> Within(E, n, k)]
                    IN  Impact(plan, n, scenario) =
                          UNION {{[node |-> m, depth |-> k] : m \in Open(plan, near[k] \ near[k - 1])} :
                                   k \in 1 .. MaxDepth}
  BY DEF ImpactExact
<1> DEFINE E    == Pairs({d \in plan.deps : d.type # "relates_to" \/ scenario = "remove"})
           near == [k \in 0 .. MaxDepth |-> Within(E, n, k)]
<1>1. Graph(E) /\ E = Pairs(Scenario(scenario))
  BY PairsGraph, ScenarioIs
<1> HIDE DEF E
<1>2. ASSUME NEW k \in 1 .. MaxDepth
      PROVE  near[k] \ near[k - 1] = {m \in Node : Dist(E, {n}, m, k)}
  <2>1. PICK j \in Nat : k = j + 1 /\ j = k - 1
    OBVIOUS
  <2>2. near[k] = Ball(E, n, j + 1) /\ near[k - 1] = Ball(E, n, j)
    <3>1. near[k] = Within(E, n, k) /\ near[k - 1] = Within(E, n, j)
      BY <2>1, PQAssumption
    <3> HIDE DEF near
    <3> QED
      BY <1>1, <2>1, <3>1, WithinIs
  <2>3. Around(E, {n}, j + 1) = Ball(E, n, j + 1) /\ Around(E, {n}, j) = Ball(E, n, j)
    BY DEF Around
  <2>4. \A m : m \in Around(E, {n}, j + 1) \ Around(E, {n}, j) <=> m \in Node /\ Dist(E, {n}, m, j + 1)
    BY RingIs
  <2> HIDE DEF near
  <2>5. \A m : m \in near[k] \ near[k - 1] <=> m \in Node /\ Dist(E, {n}, m, k)
    BY <2>1, <2>2, <2>3, <2>4
  <2> QED
    BY <2>5
<1> HIDE DEF near
<1>3. \A r : r \in Impact(plan, n, scenario) <=>
        \E m \in Open(plan, Node), d \in 1 .. MaxDepth :
          Dist(E, {n}, m, d) /\ r = [node |-> m, depth |-> d]
  BY <1>1, ImpactIs
<1>4. \A k \in 1 .. MaxDepth : \A m : m \in Open(plan, near[k] \ near[k - 1]) <=>
        m \in Open(plan, Node) /\ Dist(E, {n}, m, k)
  BY <1>2 DEF Open
<1> DEFINE R == UNION {{[node |-> m, depth |-> k] : m \in Open(plan, near[k] \ near[k - 1])} :
                         k \in 1 .. MaxDepth}
<1>5. ASSUME NEW r \in R
      PROVE  \E m \in Open(plan, Node), d \in 1 .. MaxDepth :
               Dist(E, {n}, m, d) /\ r = [node |-> m, depth |-> d]
  <2>1. PICK k \in 1 .. MaxDepth :
          r \in {[node |-> m, depth |-> k] : m \in Open(plan, near[k] \ near[k - 1])}
    OBVIOUS
  <2>2. PICK m \in Open(plan, near[k] \ near[k - 1]) : r = [node |-> m, depth |-> k]
    BY <2>1
  <2> QED
    BY <1>4, <2>2
<1>6. ASSUME NEW m \in Open(plan, Node), NEW d \in 1 .. MaxDepth, Dist(E, {n}, m, d)
      PROVE  [node |-> m, depth |-> d] \in R
  <2>1. m \in Open(plan, near[d] \ near[d - 1])
    BY <1>4, <1>6
  <2> DEFINE S(k) == {[node |-> q, depth |-> k] : q \in Open(plan, near[k] \ near[k - 1])}
  <2>2. [node |-> m, depth |-> d] \in S(d)
    BY <2>1
  <2>3. R = UNION {S(k) : k \in 1 .. MaxDepth}
    OBVIOUS
  <2> HIDE DEF S, R
  <2> QED
    BY <2>2, <2>3
<1> HIDE DEF R
<1>7. \A r : r \in R <=> \E m \in Open(plan, Node), d \in 1 .. MaxDepth :
                            Dist(E, {n}, m, d) /\ r = [node |-> m, depth |-> d]
  BY <1>5, <1>6
<1>8. Impact(plan, n, scenario) = R
  BY <1>3, <1>7
<1> QED
  BY <1>8 DEF R, near, E

-----------------------------------------------------------------------------
(* The path to a goal: a node is listed with one more than the length of a *)
(* shortest walk from an achiever to it.                                   *)
Backward == Against(Pairs({d \in plan.deps : d.type \in Blocking}))

LEMMA OneMore ==
  ASSUME NEW D, D \subseteq Nat, D # {}
  PROVE  Min({k + 1 : k \in D}) = Min(D) + 1
<1>1. PICK d \in D : \A k \in D : d <= k
  BY SmallestNat
<1>2. Min(D) = d
  BY <1>1, MinIs
<1> DEFINE F == {k + 1 : k \in D}
<1>3. F \subseteq Nat /\ d + 1 \in F /\ \A i \in F : d + 1 <= i
  BY <1>1
<1> HIDE DEF F
<1>4. Min(F) = d + 1
  BY <1>3, MinIs
<1> QED
  BY <1>2, <1>4 DEF F

LEMMA GoalPathIs ==
  ASSUME IsFiniteSet(Node), JoinsOnly, NEW A, A \subseteq Node, NEW r
  PROVE  r \in GoalPath(plan, A) <=>
           \E m \in Node, d \in 1 .. MaxDepth :
             Dist(Backward, A, m, d - 1) /\ r = [node |-> m, depth |-> d]
<1> DEFINE E         == Backward
           trails    == {<<a>> : a \in A} \cup
                        {t \in UNION {Trails(E, a) : a \in A} : Len(t) <= MaxDepth}
           depths(m) == {Len(t) : t \in {u \in trails : Last(u) = m}}
           N         == Cardinality(Node)
<1>1. GoalPath(plan, A) = {[node |-> m, depth |-> Min(depths(m))] : m \in {Last(t) : t \in trails}}
  BY DEF GoalPath, Backward
<1>2. Graph(E)
  BY PairsGraph DEF Backward
<1>3. MaxDepth \in Nat \ {0} /\ N \in Nat
  BY PQAssumption, FS_CardinalityType
<1> HIDE DEF E
<1>4. \A t : t \in trails <=>
        \E a \in A, k \in 0 .. N : k <= MaxDepth - 1 /\ t \in Trail(E, a, k)
  <2>1. ASSUME NEW a \in A PROVE Trail(E, a, 0) = {<<a>>}
    <3>1. <<a>> \in Trail(E, a, 0)
      BY <2>1 DEF Trail
    <3>2. ASSUME NEW t \in Trail(E, a, 0) PROVE t = <<a>>
      <4>1. t \in [1 .. 1 -> Node] /\ t[1] = a
        BY DEF Trail
      <4> QED
        BY <4>1
    <3> QED
      BY <3>1, <3>2
  <2>2. ASSUME NEW t, NEW a \in A, t \in Trails(E, a), Len(t) <= MaxDepth
        PROVE  \E k \in 0 .. N : k <= MaxDepth - 1 /\ t \in Trail(E, a, k)
    <3>1. PICK k \in 1 .. N : t \in Trail(E, a, k)
      BY <1>2, <2>2, TrailsEnd
    <3>2. Len(t) = k + 1
      BY <3>1, TrailEnds
    <3> QED
      BY <1>3, <2>2, <3>1, <3>2
  <2>3. ASSUME NEW a \in A, NEW k \in 1 .. N, k <= MaxDepth - 1, NEW t \in Trail(E, a, k)
        PROVE  t \in trails
    <3>1. t \in Trails(E, a)
      BY <1>2, TrailsEnd
    <3>2. Len(t) = k + 1
      BY TrailEnds
    <3>3. Len(t) <= MaxDepth
      BY <1>3, <2>3, <3>2
    <3> QED
      BY <3>1, <3>3
  <2>4. ASSUME NEW t \in trails
        PROVE  \E a \in A, k \in 0 .. N : k <= MaxDepth - 1 /\ t \in Trail(E, a, k)
    <3>1. CASE \E a \in A : t = <<a>>
      BY <1>3, <2>1, <3>1
    <3>2. CASE t \in UNION {Trails(E, a) : a \in A} /\ Len(t) <= MaxDepth
      BY <2>2, <3>2
    <3> QED
      BY <3>1, <3>2
  <2>5. ASSUME NEW t, NEW a \in A, t \in Trail(E, a, 0) PROVE t \in trails
    BY <2>1, <2>5
  <2>6. \A k \in 0 .. N : k = 0 \/ k \in 1 .. N
    OBVIOUS
  <2> HIDE DEF trails
  <2> QED
    BY <2>3, <2>4, <2>5, <2>6
<1> HIDE DEF trails
<1>5. ASSUME NEW m PROVE depths(m) = {k + 1 : k \in Depths(E, A, m, MaxDepth - 1)}
  <2>1. ASSUME NEW t \in trails, Last(t) = m
        PROVE  \E k \in Depths(E, A, m, MaxDepth - 1) : Len(t) = k + 1
    <3>1. PICK a \in A, k \in 0 .. N : k <= MaxDepth - 1 /\ t \in Trail(E, a, k)
      BY <1>4
    <3>2. Len(t) = k + 1 /\ t[k + 1] = m
      BY <2>1, <3>1, TrailEnds
    <3> QED
      BY <3>1, <3>2 DEF Depths, Trailed
  <2>2. ASSUME NEW k \in Depths(E, A, m, MaxDepth - 1)
        PROVE  \E t \in trails : Last(t) = m /\ Len(t) = k + 1
    <3>1. k \in 0 .. N /\ k <= MaxDepth - 1
      BY DEF Depths
    <3>2. PICK a \in A : Trailed(E, a, m, k)
      BY DEF Depths
    <3>3. PICK t \in Trail(E, a, k) : t[k + 1] = m
      BY <3>2 DEF Trailed
    <3> QED
      BY <1>4, <3>1, <3>3, TrailEnds
  <2> QED
    BY <2>1, <2>2
<1>6. \A m : m \in {Last(t) : t \in trails} <=> m \in Node /\ depths(m) # {}
  <2>1. ASSUME NEW t \in trails PROVE Last(t) \in Node
    <3>1. PICK a \in A, k \in 0 .. N : t \in Trail(E, a, k)
      BY <1>4
    <3> QED
      BY <3>1, TrailEnds
  <2> QED
    BY <2>1
<1> HIDE DEF depths
<1>7. ASSUME NEW m \in Node, depths(m) # {}
      PROVE  Min(depths(m)) \in 1 .. MaxDepth /\ Dist(E, A, m, Min(depths(m)) - 1)
  <2> DEFINE D == Depths(E, A, m, MaxDepth - 1)
  <2>1. D # {} /\ D \subseteq Nat /\ depths(m) = {k + 1 : k \in D}
    BY <1>5, <1>7 DEF Depths
  <2>2. Min(D) \in 0 .. MaxDepth - 1 /\ Dist(E, A, m, Min(D))
    <3>1. MaxDepth - 1 \in Nat
      BY <1>3
    <3> QED
      BY <2>1, <3>1, LeastDepth
  <2> HIDE DEF D
  <2>3. Min(depths(m)) = Min(D) + 1
    BY <2>1, OneMore
  <2>4. Min(depths(m)) - 1 = Min(D) /\ Min(depths(m)) \in 1 .. MaxDepth
    BY <1>3, <2>2, <2>3
  <2> QED
    BY <2>2, <2>4
<1>8. ASSUME NEW m \in Node, NEW d \in 1 .. MaxDepth, Dist(E, A, m, d - 1)
      PROVE  depths(m) # {} /\ d = Min(depths(m))
  <2> DEFINE D == Depths(E, A, m, MaxDepth - 1)
  <2>1. d - 1 \in D /\ Min(D) = d - 1
    <3>1. d - 1 \in 0 .. MaxDepth - 1 /\ MaxDepth - 1 \in Nat
      BY <1>3
    <3> QED
      BY <1>8, <3>1, LeastDepth
  <2>2. D \subseteq Nat /\ depths(m) = {k + 1 : k \in D}
    BY <1>5 DEF Depths
  <2> HIDE DEF D
  <2>3. Min(depths(m)) = Min(D) + 1
    BY <2>1, <2>2, OneMore
  <2>4. Min(depths(m)) = d
    BY <2>1, <2>3
  <2> QED
    BY <2>1, <2>2, <2>4
<1>9. r \in GoalPath(plan, A) <=>
        \E m \in Node : depths(m) # {} /\ r = [node |-> m, depth |-> Min(depths(m))]
  BY <1>1, <1>6
<1>10. r \in GoalPath(plan, A) <=>
         \E m \in Node : \E d \in 1 .. MaxDepth : Dist(E, A, m, d - 1) /\ r = [node |-> m, depth |-> d]
  BY <1>7, <1>8, <1>9
<1> QED
  BY <1>10 DEF E

LEMMA GoalPathIsExact ==
  ASSUME IsFiniteSet(Node), {t1, t2, t3} \subseteq Node, JoinsOnly
  PROVE  GoalPathExact
<1> SUFFICES ASSUME NEW achievers \in {{t1}, {t2, t3}}
             PROVE  LET E    == Against(Pairs({d \in plan.deps : d.type \in Blocking}))
                        near == [k \in 0 .. MaxDepth |->
                                   IF k = 0 THEN {} ELSE UNION {Within(E, a, k - 1) : a \in achievers}]
                        path == GoalPath(plan, achievers)
                    IN  /\ path = UNION {{[node |-> m, depth |-> k] : m \in near[k] \ near[k - 1]} :
                                            k \in 1 .. MaxDepth}
                        /\ {r.node : r \in path} = achievers \cup
                             UNION {{u.node : u \in Upstream(plan, a, Blocking, MaxDepth - 1)} :
                                      a \in achievers}
  BY DEF GoalPathExact
<1> DEFINE E    == Backward
           near == [k \in 0 .. MaxDepth |->
                      IF k = 0 THEN {} ELSE UNION {Within(E, a, k - 1) : a \in achievers}]
           path == GoalPath(plan, achievers)
           S(k) == {[node |-> m, depth |-> k] : m \in near[k] \ near[k - 1]}
           R    == UNION {S(k) : k \in 1 .. MaxDepth}
           up   == UNION {{u.node : u \in Upstream(plan, a, Blocking, MaxDepth - 1)} : a \in achievers}
<1>1. Graph(E) /\ achievers \subseteq Node /\ MaxDepth \in Nat \ {0}
  BY PairsGraph, PQAssumption DEF Backward
<1>2. \A r : r \in path <=>
        \E m \in Node, d \in 1 .. MaxDepth : Dist(E, achievers, m, d - 1) /\ r = [node |-> m, depth |-> d]
  BY <1>1, GoalPathIs
<1>3. \A a \in achievers : Upstream(plan, a, Blocking, MaxDepth - 1) = Walks(E, a, MaxDepth - 1)
  BY DEF Upstream, Backward
<1> HIDE DEF E
<1>4. ASSUME NEW k \in 1 .. MaxDepth, NEW m
      PROVE  m \in near[k] \ near[k - 1] <=> m \in Node /\ Dist(E, achievers, m, k - 1)
  <2>1. PICK j \in Nat : k = j + 1 /\ j = k - 1 /\ j \in 0 .. MaxDepth
    BY <1>1
  <2>2. near[k] = Around(E, achievers, j)
    <3>1. near[k] = UNION {Within(E, a, j) : a \in achievers}
      BY <1>1, <2>1
    <3>2. \A a \in achievers : Within(E, a, j) = Ball(E, a, j)
      BY <1>1, WithinIs
    <3> HIDE DEF near
    <3> QED
      BY <3>1, <3>2 DEF Around
  <2>3. CASE j = 0
    <3>1. near[k - 1] = {}
      BY <2>1, <2>3
    <3> HIDE DEF near
    <3>2. m \in Around(E, achievers, 0) <=> m \in Node /\ Dist(E, achievers, m, 0)
      BY RingIs
    <3> QED
      BY <2>1, <2>2, <2>3, <3>1, <3>2
  <2>4. CASE j # 0
    <3>1. PICK i \in Nat : j = i + 1
      BY <2>4
    <3>2. near[k - 1] = Around(E, achievers, i)
      <4>1. near[k - 1] = UNION {Within(E, a, i) : a \in achievers}
        BY <2>1, <2>4, <3>1
      <4>2. \A a \in achievers : Within(E, a, i) = Ball(E, a, i)
        BY <1>1, WithinIs
      <4> HIDE DEF near
      <4> QED
        BY <4>1, <4>2 DEF Around
    <3> HIDE DEF near
    <3>3. m \in Around(E, achievers, i + 1) \ Around(E, achievers, i) <=>
            m \in Node /\ Dist(E, achievers, m, i + 1)
      BY RingIs
    <3> QED
      BY <2>1, <2>2, <3>1, <3>2, <3>3
  <2> QED
    BY <2>3, <2>4
<1> HIDE DEF near
<1>5. path = R
  <2>1. ASSUME NEW r \in R
        PROVE  \E m \in Node, d \in 1 .. MaxDepth :
                 Dist(E, achievers, m, d - 1) /\ r = [node |-> m, depth |-> d]
    <3>1. PICK k \in 1 .. MaxDepth : r \in S(k)
      OBVIOUS
    <3>2. PICK m \in near[k] \ near[k - 1] : r = [node |-> m, depth |-> k]
      BY <3>1
    <3> QED
      BY <1>4, <3>2
  <2>2. ASSUME NEW m \in Node, NEW d \in 1 .. MaxDepth, Dist(E, achievers, m, d - 1)
        PROVE  [node |-> m, depth |-> d] \in R
    <3>1. m \in near[d] \ near[d - 1]
      BY <1>4, <2>2
    <3>2. [node |-> m, depth |-> d] \in S(d)
      BY <3>1
    <3> HIDE DEF S
    <3> QED
      BY <3>2
  <2> HIDE DEF R, path
  <2>3. \A r : r \in R <=> \E m \in Node, d \in 1 .. MaxDepth :
                              Dist(E, achievers, m, d - 1) /\ r = [node |-> m, depth |-> d]
    BY <2>1, <2>2
  <2> QED
    BY <1>2, <2>3
<1> HIDE DEF path, R
<1>6. \A m : m \in {r.node : r \in path} <=>
        m \in Node /\ \E d \in 1 .. MaxDepth : Dist(E, achievers, m, d - 1)
  <2>1. ASSUME NEW r \in path
        PROVE  r.node \in Node /\ \E d \in 1 .. MaxDepth : Dist(E, achievers, r.node, d - 1)
    BY <1>2
  <2>2. ASSUME NEW m \in Node, NEW d \in 1 .. MaxDepth, Dist(E, achievers, m, d - 1)
        PROVE  \E r \in path : r.node = m
    <3>1. [node |-> m, depth |-> d] \in path
      BY <1>2, <2>2
    <3> QED
      BY <3>1
  <2> QED
    BY <2>1, <2>2
<1>7. \A m : m \in up <=>
        \E a \in achievers, k \in 1 .. MaxDepth - 1 : m \in Node /\ Walked(E, a, m, k)
  <2>1. ASSUME NEW a \in achievers
        PROVE  \A u : u \in Upstream(plan, a, Blocking, MaxDepth - 1) <=>
                 \E k \in 1 .. MaxDepth - 1 : \E m \in Sphere(E, a, k) : u = [node |-> m, depth |-> k]
    <3>1. a \in Node /\ MaxDepth - 1 \in Nat
      BY <1>1
    <3>2. Walks(E, a, MaxDepth - 1) =
            UNION {{[node |-> m, depth |-> k] : m \in Sphere(E, a, k)} : k \in 1 .. MaxDepth - 1}
      BY <1>1, <3>1, WalksAre
    <3> QED
      BY <1>3, <3>2
  <2>2. ASSUME NEW m \in up
        PROVE  \E a \in achievers, k \in 1 .. MaxDepth - 1 : m \in Node /\ Walked(E, a, m, k)
    <3>1. PICK a \in achievers : m \in {u.node : u \in Upstream(plan, a, Blocking, MaxDepth - 1)}
      OBVIOUS
    <3>2. PICK k \in 1 .. MaxDepth - 1 : m \in Sphere(E, a, k)
      BY <2>1, <3>1
    <3> QED
      BY <3>2 DEF Sphere
  <2>3. ASSUME NEW a \in achievers, NEW k \in 1 .. MaxDepth - 1, NEW m \in Node, Walked(E, a, m, k)
        PROVE  m \in up
    <3>1. m \in Sphere(E, a, k)
      BY <2>3 DEF Sphere
    <3>2. [node |-> m, depth |-> k] \in Upstream(plan, a, Blocking, MaxDepth - 1)
      BY <2>1, <3>1
    <3>3. m \in {u.node : u \in Upstream(plan, a, Blocking, MaxDepth - 1)}
      BY <3>2
    <3> QED
      BY <3>3
  <2> HIDE DEF up
  <2> QED
    BY <2>2, <2>3
<1> HIDE DEF up
<1>8. ASSUME NEW m \in Node, NEW d \in 1 .. MaxDepth, Dist(E, achievers, m, d - 1)
      PROVE  m \in achievers \cup up
  <2>1. PICK a \in achievers : Walked(E, a, m, d - 1)
    BY <1>8 DEF Dist
  <2>2. CASE d = 1
    <3>1. Walked(E, a, m, 0) /\ a \in Node
      BY <1>1, <2>1, <2>2
    <3>2. a = m
      BY <3>1, NoStep
    <3> QED
      BY <3>2
  <2>3. CASE d # 1
    <3>1. d - 1 \in 1 .. MaxDepth - 1
      BY <1>1, <2>3
    <3> QED
      BY <1>7, <2>1, <3>1
  <2> QED
    BY <2>2, <2>3
<1>9. ASSUME NEW m \in achievers \cup up
      PROVE  m \in Node /\ \E d \in 1 .. MaxDepth : Dist(E, achievers, m, d - 1)
  <2>1. \E a \in achievers, k \in 0 .. MaxDepth - 1 : m \in Node /\ Walked(E, a, m, k)
    <3>1. CASE m \in achievers
      <4>1. Walked(E, m, m, 0) /\ m \in Node
        BY <1>1, <3>1, NoStep
      <4> QED
        BY <1>1, <3>1, <4>1
    <3>2. CASE m \in up
      BY <1>1, <1>7, <3>2
    <3> QED
      BY <3>1, <3>2
  <2>2. PICK a \in achievers, k \in 0 .. MaxDepth - 1 : m \in Node /\ Walked(E, a, m, k)
    BY <2>1
  <2>3. PICK j \in 0 .. k : Dist(E, achievers, m, j)
    BY <2>2, Nearest
  <2>4. j + 1 \in 1 .. MaxDepth /\ j + 1 - 1 = j
    BY <1>1
  <2> QED
    BY <2>2, <2>3, <2>4
<1>10. {r.node : r \in path} = achievers \cup up
  BY <1>6, <1>8, <1>9
<1> QED
  BY <1>5, <1>10 DEF path, R, S, near, up, E, Backward

LEMMA ImpactIsDownstreamAlways ==
  ASSUME IsFiniteSet(Node), JoinsOnly
  PROVE  ImpactIsDownstream
<1> SUFFICES ASSUME NEW n \in Node
             PROVE  {r.node : r \in Impact(plan, n, "block")} =
                      Open(plan, {r.node : r \in Downstream(plan, n, Blocking, MaxDepth)} \ {n})
  BY DEF ImpactIsDownstream
<1> DEFINE E    == Pairs({d \in plan.deps : d.type \in Blocking})
           down == {r.node : r \in Downstream(plan, n, Blocking, MaxDepth)}
           hit  == {r.node : r \in Impact(plan, n, "block")}
<1>1. Graph(E) /\ MaxDepth \in Nat \ {0}
  BY PairsGraph, PQAssumption
<1>2. E = Pairs(Scenario("block"))
  BY DEF Scenario
<1>3. Downstream(plan, n, Blocking, MaxDepth) = Walks(E, n, MaxDepth)
  BY DEF Downstream
<1> HIDE DEF E
<1>4. \A r : r \in Impact(plan, n, "block") <=>
        \E m \in Open(plan, Node), d \in 1 .. MaxDepth : Dist(E, {n}, m, d) /\ r = [node |-> m, depth |-> d]
  <2> SUFFICES ASSUME NEW r
               PROVE  r \in Impact(plan, n, "block") <=>
                        \E m \in Open(plan, Node), d \in 1 .. MaxDepth :
                          Dist(E, {n}, m, d) /\ r = [node |-> m, depth |-> d]
    OBVIOUS
  <2>1. "block" \in {"block", "remove"}
    OBVIOUS
  <2>2. r \in Impact(plan, n, "block") <=>
          \E m \in Open(plan, Node), d \in 1 .. MaxDepth :
            Dist(Pairs(Scenario("block")), {n}, m, d) /\ r = [node |-> m, depth |-> d]
    BY <2>1, ImpactIs
  <2> QED
    BY <1>2, <2>2
<1>5. \A m : m \in hit <=> m \in Open(plan, Node) /\ \E d \in 1 .. MaxDepth : Dist(E, {n}, m, d)
  <2>1. ASSUME NEW r \in Impact(plan, n, "block")
        PROVE  r.node \in Open(plan, Node) /\ \E d \in 1 .. MaxDepth : Dist(E, {n}, r.node, d)
    BY <1>4
  <2>2. ASSUME NEW m \in Open(plan, Node), NEW d \in 1 .. MaxDepth, Dist(E, {n}, m, d)
        PROVE  \E r \in Impact(plan, n, "block") : r.node = m
    <3>1. [node |-> m, depth |-> d] \in Impact(plan, n, "block")
      BY <1>4, <2>2
    <3> QED
      BY <3>1
  <2> QED
    BY <2>1, <2>2
<1>6. \A m : m \in down <=> m \in Node /\ \E k \in 1 .. MaxDepth : Walked(E, n, m, k)
  <2>1. \A r : r \in Downstream(plan, n, Blocking, MaxDepth) <=>
          \E k \in 1 .. MaxDepth : \E m \in Sphere(E, n, k) : r = [node |-> m, depth |-> k]
    <3>1. Walks(E, n, MaxDepth) =
            UNION {{[node |-> m, depth |-> k] : m \in Sphere(E, n, k)} : k \in 1 .. MaxDepth}
      BY <1>1, WalksAre
    <3> QED
      BY <1>3, <3>1
  <2>2. \A m : m \in down <=> \E k \in 1 .. MaxDepth : m \in Sphere(E, n, k)
    <3>1. ASSUME NEW r \in Downstream(plan, n, Blocking, MaxDepth)
          PROVE  \E k \in 1 .. MaxDepth : r.node \in Sphere(E, n, k)
      BY <2>1
    <3>2. ASSUME NEW k \in 1 .. MaxDepth, NEW m \in Sphere(E, n, k)
          PROVE  \E r \in Downstream(plan, n, Blocking, MaxDepth) : r.node = m
      <4>1. [node |-> m, depth |-> k] \in Downstream(plan, n, Blocking, MaxDepth)
        BY <2>1
      <4> QED
        BY <4>1
    <3> QED
      BY <3>1, <3>2
  <2> HIDE DEF down
  <2> QED
    BY <2>2 DEF Sphere
<1> HIDE DEF hit, down
<1>7. ASSUME NEW m \in Node
      PROVE  (\E d \in 1 .. MaxDepth : Dist(E, {n}, m, d)) <=>
               m # n /\ \E k \in 1 .. MaxDepth : Walked(E, n, m, k)
  <2>1. Walked(E, n, m, 0) <=> m = n
    BY NoStep
  <2>2. ASSUME NEW d \in 1 .. MaxDepth, Dist(E, {n}, m, d)
        PROVE  m # n /\ Walked(E, n, m, d)
    <3>1. 0 \in 0 .. d - 1
      OBVIOUS
    <3> QED
      BY <2>1, <2>2, <3>1 DEF Dist
  <2>3. ASSUME m # n, NEW k \in 1 .. MaxDepth, Walked(E, n, m, k)
        PROVE  \E d \in 1 .. MaxDepth : Dist(E, {n}, m, d)
    <3>1. PICK d \in 0 .. k : Dist(E, {n}, m, d)
      BY <2>3, Nearest
    <3>2. d # 0
      BY <2>1, <2>3, <3>1 DEF Dist
    <3>3. d \in 1 .. MaxDepth
      BY <1>1, <3>2
    <3> QED
      BY <3>1, <3>3
  <2> QED
    BY <2>2, <2>3
<1>8. \A m : m \in hit <=> m \in Open(plan, down \ {n})
  BY <1>5, <1>6, <1>7 DEF Open
<1>9. hit = Open(plan, down \ {n})
  <2>1. Open(plan, down \ {n}) = {m \in down \ {n} : plan.status[m] # "completed"}
    BY DEF Open
  <2> QED
    BY <1>8, <2>1
<1> QED
  BY <1>9 DEF hit, down

(* The recursive queries of dependencies.dal.mjs (wouldCreateCycle,        *)
(* getImpact, getGoalPath, getDownstream) neither miss nor invent a node,  *)
(* in every plan of any number of nodes whose edges join two different     *)
(* ones.                                                                   *)
THEOREM WalksAreExact ==
  ASSUME IsFiniteSet(Node), {t1, t2, t3} \subseteq Node, JoinsOnly
  PROVE  WalksExact
  BY CycleCheckIsExact, ImpactIsExact, GoalPathIsExact, ImpactIsDownstreamAlways DEF WalksExact

-----------------------------------------------------------------------------
(* CriticalExact. Proof that both critical paths are longest chains. The   *)
(* first search starts where nothing blocks: a longest chain does so too,  *)
(* for else one node more could come before it.                            *)
Whole == /\ JoinsOnly
         /\ ToSet(plan.rows) = InPlan /\ InPlan \subseteq Node
         /\ \A d \in plan.deps : d.weight = 1 /\ plan.type[d.source] # "root"

Loopless(E) == \A n : <<n, n>> \notin E

LEMMA GreatestNat ==
  ASSUME NEW T, T # {}, NEW max \in Nat, T \subseteq 0 .. max
  PROVE  \E m \in T : \A n \in T : n <= m
<1> DEFINE U == {max - n : n \in T}
<1>1. U \subseteq Nat /\ U # {}
  <2>1. \A n \in T : max - n \in Nat
    <3> SUFFICES ASSUME NEW n \in T PROVE max - n \in Nat
      OBVIOUS
    <3>1. n \in 0 .. max
      OBVIOUS
    <3> QED
      BY <3>1
  <2> QED
    BY <2>1
<1>2. PICK k \in U : \A n \in U : k <= n
  BY <1>1, SmallestNat
<1>3. PICK m \in T : k = max - m
  OBVIOUS
<1>4. \A n \in T : n \in 0 .. max /\ max - m <= max - n
  BY <1>2, <1>3
<1>5. m \in 0 .. max
  OBVIOUS
<1>6. \A n \in T : n <= m
  BY <1>4, <1>5
<1> QED
  BY <1>6

LEMMA MaxIs ==
  ASSUME NEW T, T \subseteq Nat, NEW m \in T, \A n \in T : n <= m
  PROVE  Max(T) = m
<1>1. Max(T) \in T /\ \A n \in T : n <= Max(T)
  <2>1. \E k \in T : \A n \in T : k >= n
    BY DEF Max
  <2> QED
    BY <2>1 DEF Max
<1>2. Max(T) \in Nat /\ m \in Nat /\ Max(T) <= m /\ m <= Max(T)
  BY <1>1
<1> QED
  BY <1>2

(* A trail without loops has distinct nodes. *)
LEMMA TrailFits ==
  ASSUME IsFiniteSet(Node), NEW E, Loopless(E), NEW a, NEW k \in Nat, NEW t \in Trail(E, a, k)
  PROVE  k < Cardinality(Node)
<1>1. t \in [1 .. k + 1 -> Node]
  BY DEF Trail
<1>2. \A j \in 1 .. k + 1 : \A i \in 1 .. j - 1 : t[i] # t[j]
  <2> SUFFICES ASSUME NEW j \in 1 .. k + 1, NEW i \in 1 .. j - 1 PROVE t[i] # t[j]
    OBVIOUS
  <2>1. CASE j = 2
    <3>1. i = 1 /\ 1 \in 1 .. k /\ <<t[1], t[1 + 1]>> \in E
      BY <2>1 DEF Trail
    <3> QED
      BY <2>1, <3>1 DEF Loopless
  <2>2. CASE j # 2
    <3>1. j - 1 \in 2 .. k /\ j - 1 + 1 = j
      BY <2>2
    <3> QED
      BY <3>1 DEF Trail
  <2> QED
    BY <2>1, <2>2
<1>3. \A i, j \in 1 .. k + 1 : t[i] = t[j] => i = j
  <2> SUFFICES ASSUME NEW i \in 1 .. k + 1, NEW j \in 1 .. k + 1, i # j PROVE t[i] # t[j]
    OBVIOUS
  <2>1. i \in 1 .. j - 1 \/ j \in 1 .. i - 1
    OBVIOUS
  <2> QED
    BY <1>2, <2>1
<1>4. t \in Injection(1 .. k + 1, Node)
  BY <1>1, <1>3 DEF Injection, IsInjective
<1>5. Cardinality(1 .. k + 1) <= Cardinality(Node)
  BY <1>4, FS_Injection
<1>6. Cardinality(1 .. k + 1) = k + 1 - 1 + 1
  <2>1. 1 \in Int /\ k + 1 \in Int /\ ~(1 > k + 1)
    OBVIOUS
  <2> QED
    BY <2>1, FS_Interval
<1> QED
  BY <1>5, <1>6, FS_CardinalityType

LEMMA NoTrail ==
  ASSUME NEW E, NEW a \in Node
  PROVE  Trail(E, a, 0) = {<<a>>}
<1>1. <<a>> \in Trail(E, a, 0)
  BY DEF Trail
<1>2. ASSUME NEW t \in Trail(E, a, 0) PROVE t = <<a>>
  <2>1. t \in [1 .. 1 -> Node] /\ t[1] = a
    BY DEF Trail
  <2> QED
    BY <2>1
<1> QED
  BY <1>1, <1>2

(* A trail that cannot be a part of a cycle can be prolonged at its start. *)
LEMMA Prepend ==
  ASSUME NEW E, Graph(E), Acyclic(E), NEW e \in E, NEW k \in Nat, NEW t \in Trail(E, e[2], k)
  PROVE  \E u : u \in Trail(E, e[1], k + 1)
<1>0. e = <<e[1], e[2]>> /\ e[1] \in Node /\ e[2] \in Node
  BY DEF Graph
<1>1. /\ t \in [1 .. k + 1 -> Node] /\ t[1] = e[2]
      /\ \A i \in 1 .. k : <<t[i], t[i + 1]>> \in E
      /\ \A i \in 2 .. k : \A j \in 1 .. i : t[i + 1] # t[j]
  BY DEF Trail
<1> DEFINE u == [i \in 1 .. k + 1 + 1 |-> IF i = 1 THEN e[1] ELSE t[i - 1]]
<1>2. \A j \in 1 .. k + 1 : t[j] # e[1]
  <2> SUFFICES ASSUME NEW j \in 1 .. k + 1, t[j] = e[1] PROVE FALSE
    OBVIOUS
  <2> DEFINE w == [i \in 0 .. j - 1 |-> t[i + 1]]
  <2>1. w \in [0 .. j - 1 -> Node] /\ w[0] = e[2] /\ w[j - 1] = e[1]
    BY <1>1
  <2>2. \A i \in 0 .. j - 1 - 1 : <<w[i], w[i + 1]>> \in E
    <3> SUFFICES ASSUME NEW i \in 0 .. j - 1 - 1 PROVE <<w[i], w[i + 1]>> \in E
      OBVIOUS
    <3>1. w[i] = t[i + 1] /\ w[i + 1] = t[i + 1 + 1] /\ i + 1 \in 1 .. k
      OBVIOUS
    <3> QED
      BY <1>1, <3>1
  <2> HIDE DEF w
  <2>3. j - 1 \in Nat /\ Walked(E, e[2], e[1], j - 1)
    <3>1. w \in Walk(E, j - 1)
      BY <2>1, <2>2 DEF Walk
    <3> QED
      BY <2>1, <3>1 DEF Walked
  <2>4. Reach(E, e[2], e[1])
    BY <1>0, <2>3, ReachIsWalk
  <2> QED
    BY <2>4 DEF Acyclic
<1>3. u \in [1 .. k + 1 + 1 -> Node] /\ u[1] = e[1]
  BY <1>0, <1>1
<1>4. \A i \in 1 .. k + 1 : <<u[i], u[i + 1]>> \in E
  <2> SUFFICES ASSUME NEW i \in 1 .. k + 1 PROVE <<u[i], u[i + 1]>> \in E
    OBVIOUS
  <2>1. CASE i = 1
    <3>1. u[i] = e[1] /\ u[i + 1] = t[1]
      BY <2>1
    <3> QED
      BY <1>0, <1>1, <3>1
  <2>2. CASE i # 1
    <3>1. u[i] = t[i - 1] /\ u[i + 1] = t[i - 1 + 1] /\ i - 1 \in 1 .. k
      BY <2>2
    <3> QED
      BY <1>1, <3>1
  <2> QED
    BY <2>1, <2>2
<1>5. \A i \in 2 .. k + 1 : \A j \in 1 .. i : u[i + 1] # u[j]
  <2> SUFFICES ASSUME NEW i \in 2 .. k + 1, NEW j \in 1 .. i PROVE u[i + 1] # u[j]
    OBVIOUS
  <2>1. u[i + 1] = t[i] /\ i \in 1 .. k + 1
    OBVIOUS
  <2>2. CASE j = 1
    BY <1>2, <2>1, <2>2
  <2>3. CASE j # 1 /\ i # 2
    <3>1. u[j] = t[j - 1] /\ j - 1 \in 1 .. i - 1 /\ i - 1 \in 2 .. k /\ i - 1 + 1 = i
      BY <2>3
    <3> QED
      BY <1>1, <2>1, <3>1
  <2>4. CASE j # 1 /\ i = 2
    <3>1. u[j] = t[1] /\ <<t[1], t[1 + 1]>> \in E
      BY <1>1, <2>4
    <3>2. t[2] # t[1]
      <4>1. ASSUME t[2] = t[1] PROVE FALSE
        <5>1. <<t[1], t[1]>> \in E /\ t[1] \in Node
          BY <1>1, <3>1, <4>1
        <5> DEFINE l == <<t[1], t[1]>>
        <5>2. l \in E /\ l[1] = t[1] /\ l[2] = t[1]
          BY <5>1
        <5>3. Reach(E, l[2], l[1])
          BY <5>2 DEF Reach
        <5> QED
          BY <5>2, <5>3 DEF Acyclic
      <4> QED
        BY <4>1
    <3> QED
      BY <2>1, <2>4, <3>1, <3>2
  <2> QED
    BY <2>2, <2>3, <2>4
<1>6. u \in Trail(E, e[1], k + 1)
  BY <1>3, <1>4, <1>5 DEF Trail
<1> QED
  BY <1>6

(* The body of the recursion in Chains, and where it starts *)
BlocksOpen == {d \in plan.deps : d.type = "blocks" /\ d.source \in Open(plan, InPlan)}
Roots(D) == {n \in Open(plan, ToSet(plan.rows)) :
               /\ plan.type[n] # "root"
               /\ \A d \in D : d.target # n
               /\ \E d \in D : d.source = n}
ChainOf(D, k, f) ==
  IF k = 0 THEN UNION {{[path |-> <<r>>, weight |-> d.weight] :
                          d \in {e \in D : e.source = r}} : r \in Roots(D)}
  ELSE UNION {{[path |-> Append(c.path, d.target), weight |-> c.weight + d.weight] :
         d \in {e \in D : e.source = Last(c.path) /\ e.target \notin ToSet(c.path)}} :
         c \in f[k - 1]}
Chaining(D, f) == f = [k \in Nat |-> ChainOf(D, k, f)]

Starts(E) == {n \in {e[1] : e \in E} : \A e \in E : e[2] # n}

LEMMA BlocksOpenIs ==
  ASSUME Whole
  PROVE  /\ ChainDeps(plan) = BlocksOpen
         /\ Graph(Pairs(BlocksOpen)) /\ Loopless(Pairs(BlocksOpen))
         /\ Roots(BlocksOpen) = Starts(Pairs(BlocksOpen))
<1>1. ChainDeps(plan) = BlocksOpen
  BY DEF ChainDeps, PlanDeps, BlocksOpen, Open, Whole
<1>2. Graph(Pairs(BlocksOpen)) /\ Loopless(Pairs(BlocksOpen))
  BY PairsGraph DEF BlocksOpen, Whole, Loopless
<1>3. \A n : (\E d \in BlocksOpen : d.source = n) <=> n \in {e[1] : e \in Pairs(BlocksOpen)}
  <2>1. ASSUME NEW d \in BlocksOpen PROVE d.source \in {e[1] : e \in Pairs(BlocksOpen)}
    <3>1. <<d.source, d.target>> \in Pairs(BlocksOpen) /\ <<d.source, d.target>>[1] = d.source
      BY DEF Pairs
    <3> QED
      BY <3>1
  <2>2. ASSUME NEW e \in Pairs(BlocksOpen) PROVE \E d \in BlocksOpen : d.source = e[1]
    BY DEF Pairs
  <2> QED
    BY <2>1, <2>2
<1>4. \A n : (\A d \in BlocksOpen : d.target # n) <=> \A e \in Pairs(BlocksOpen) : e[2] # n
  <2>1. ASSUME NEW d \in BlocksOpen PROVE \E e \in Pairs(BlocksOpen) : e[2] = d.target
    <3>1. <<d.source, d.target>> \in Pairs(BlocksOpen) /\ <<d.source, d.target>>[2] = d.target
      BY DEF Pairs
    <3> QED
      BY <3>1
  <2>2. ASSUME NEW e \in Pairs(BlocksOpen) PROVE \E d \in BlocksOpen : d.target = e[2]
    BY DEF Pairs
  <2> QED
    BY <2>1, <2>2
<1>5. \A d \in BlocksOpen : d.source \in Open(plan, ToSet(plan.rows)) /\ plan.type[d.source] # "root"
  BY DEF BlocksOpen, Whole
<1>6. Roots(BlocksOpen) = Starts(Pairs(BlocksOpen))
  BY <1>3, <1>4, <1>5 DEF Roots, Starts
<1> QED
  BY <1>1, <1>2, <1>6

LEMMA AppendIs ==
  ASSUME NEW s \in Seq(Node), NEW m \in Node
  PROVE  /\ Append(s, m) \in Seq(Node) /\ Len(Append(s, m)) = Len(s) + 1
         /\ \A i \in 1 .. Len(s) : Append(s, m)[i] = s[i]
         /\ Append(s, m)[Len(s) + 1] = m
  BY AppendProperties

LEMMA TwoNodes ==
  ASSUME NEW s \in Seq(Node), NEW m \in Node, Len(s) = 1
  PROVE  Append(s, m) = <<s[1], m>>
<1> DEFINE u == Append(s, m)
<1>1. /\ u \in Seq(Node) /\ Len(u) = Len(s) + 1
      /\ \A i \in 1 .. Len(s) : u[i] = s[i]
      /\ u[Len(s) + 1] = m
  BY AppendIs, Zenon
<1> HIDE DEF u
<1>4. Len(s) + 1 = 2 /\ 1 \in 1 .. Len(s)
  OBVIOUS
<1>5. u \in Seq(Node) /\ Len(u) = 2 /\ u[1] = s[1] /\ u[2] = m
  BY <1>1, <1>4
<1>6. u = <<u[1], u[2]>>
  BY <1>5
<1> QED
  BY <1>5, <1>6 DEF u

(* With equal weights a chain weighs as much as it is long. *)
ChainsAt(E, k) == {[path |-> t, weight |-> k + 1] : t \in UNION {Trail(E, r, k) : r \in Starts(E)}}

LEMMA ChainsGrow ==
  ASSUME Whole, NEW k \in Nat, NEW f, f[k] = ChainsAt(Pairs(BlocksOpen), k)
  PROVE  ChainsAt(Pairs(BlocksOpen), k + 1) =
           UNION {{[path |-> Append(c.path, d.target), weight |-> c.weight + d.weight] :
             d \in {e \in BlocksOpen : e.source = Last(c.path) /\ e.target \notin ToSet(c.path)}} :
             c \in f[k]}
<1> DEFINE E == Pairs(BlocksOpen)
           G == UNION {{[path |-> Append(c.path, d.target), weight |-> c.weight + d.weight] :
                  d \in {e \in BlocksOpen : e.source = Last(c.path) /\ e.target \notin ToSet(c.path)}} :
                  c \in f[k]}
<1>1. Graph(E) /\ Loopless(E) /\ \A n \in Starts(E) : n \in Node
  <2>1. Graph(E) /\ Loopless(E)
    BY BlocksOpenIs
  <2> QED
    BY <2>1 DEF Starts, Graph
<1>2. ASSUME NEW r \in Starts(E), NEW u
      PROVE  u \in Trail(E, r, k + 1) <=>
               \E t \in Trail(E, r, k), e \in E :
                 e[1] = Last(t) /\ e[2] \notin ToSet(t) /\ u = Append(t, e[2])
  <2> HIDE DEF E
  <2>1. CASE k = 0
    <3>1. Trail(E, r, k) = {<<r>>} /\ Trail(E, r, k + 1) = {<<r, e[2]>> : e \in {d \in E : d[1] = r}}
      <4>1. k + 1 = 1
        BY <2>1
      <4> QED
        BY <1>1, <2>1, <4>1, NoTrail, FirstTrails
    <3>2. Last(<<r>>) = r /\ ToSet(<<r>>) = {r}
      BY DEF Last, ToSet
    <3>3. \A e \in E : e[1] = r => e[2] # r
      <4> SUFFICES ASSUME NEW e \in E, e[1] = r, e[2] = r PROVE FALSE
        OBVIOUS
      <4>1. e = <<r, r>>
        BY <1>1 DEF Graph
      <4> QED
        BY <1>1, <4>1 DEF Loopless
    <3>4. \A e \in E : Append(<<r>>, e[2]) = <<r, e[2]>>
      <4> SUFFICES ASSUME NEW m \in Node PROVE Append(<<r>>, m) = <<r, m>>
        BY <1>1 DEF Graph
      <4>1. <<r>> \in Seq(Node) /\ Len(<<r>>) = 1 /\ <<r>>[1] = r
        BY <1>1
      <4> QED
        BY <4>1, TwoNodes
    <3> QED
      BY <3>1, <3>2, <3>3, <3>4
  <2>2. CASE k # 0
    <3>1. k \in Nat \ {0}
      BY <2>2
    <3>2. Trail(E, r, k + 1) =
            UNION {{Append(t, e[2]) : e \in {d \in E : d[1] = Last(t) /\ d[2] \notin ToSet(t)}} :
                     t \in Trail(E, r, k)}
      BY <1>1, <3>1, TrailGrows
    <3> QED
      BY <3>2
  <2> QED
    BY <2>1, <2>2
<1>3. \A c : c \in f[k] <=> \E r \in Starts(E) : \E t \in Trail(E, r, k) : c = [path |-> t, weight |-> k + 1]
  BY DEF ChainsAt
<1>4. \A c : c \in ChainsAt(E, k + 1) <=>
        \E r \in Starts(E) : \E u \in Trail(E, r, k + 1) : c = [path |-> u, weight |-> k + 1 + 1]
  BY DEF ChainsAt
<1>5. ASSUME NEW c \in ChainsAt(E, k + 1) PROVE c \in G
  <2>1. PICK r \in Starts(E) : \E u \in Trail(E, r, k + 1) : c = [path |-> u, weight |-> k + 1 + 1]
    BY <1>4
  <2>2. PICK u \in Trail(E, r, k + 1) : c = [path |-> u, weight |-> k + 1 + 1]
    BY <2>1
  <2>3. PICK t \in Trail(E, r, k), e \in E : e[1] = Last(t) /\ e[2] \notin ToSet(t) /\ u = Append(t, e[2])
    BY <1>2
  <2>4. PICK d \in BlocksOpen : e = <<d.source, d.target>>
    BY DEF Pairs
  <2>5. d.source = Last(t) /\ d.target \notin ToSet(t) /\ d.target = e[2] /\ d.weight = 1
    BY <2>3, <2>4 DEF BlocksOpen, Whole
  <2> DEFINE b == [path |-> t, weight |-> k + 1]
  <2>6. b \in f[k] /\ b.path = t /\ b.weight = k + 1
    BY <1>3
  <2> HIDE DEF b
  <2>7. c = [path |-> Append(b.path, d.target), weight |-> b.weight + d.weight]
    BY <2>2, <2>3, <2>5, <2>6
  <2>8. d \in {l \in BlocksOpen : l.source = Last(b.path) /\ l.target \notin ToSet(b.path)}
    BY <2>5, <2>6
  <2>9. c \in {[path |-> Append(b.path, y.target), weight |-> b.weight + y.weight] :
                 y \in {l \in BlocksOpen : l.source = Last(b.path) /\ l.target \notin ToSet(b.path)}}
    BY <2>7, <2>8
  <2> QED
    BY <2>6, <2>9
<1>6. ASSUME NEW b \in f[k], NEW d \in BlocksOpen, d.source = Last(b.path), d.target \notin ToSet(b.path)
      PROVE  [path |-> Append(b.path, d.target), weight |-> b.weight + d.weight] \in ChainsAt(E, k + 1)
  <2>1. PICK r \in Starts(E) : \E t \in Trail(E, r, k) : b = [path |-> t, weight |-> k + 1]
    BY <1>3
  <2>2. PICK t \in Trail(E, r, k) : b = [path |-> t, weight |-> k + 1]
    BY <2>1
  <2>3. d.weight = 1 /\ b.path = t /\ b.weight = k + 1
    BY <2>2 DEF BlocksOpen, Whole
  <2> DEFINE e == <<d.source, d.target>>
  <2>4. e \in E /\ e[1] = Last(t) /\ e[2] = d.target /\ e[2] \notin ToSet(t)
    BY <1>6, <2>3 DEF Pairs
  <2> HIDE DEF e, E
  <2>5. Append(t, d.target) \in Trail(E, r, k + 1)
    BY <1>2, <2>4
  <2> QED
    BY <1>4, <2>3, <2>5
<1>7. ASSUME NEW c \in G PROVE c \in ChainsAt(E, k + 1)
  <2>1. PICK b \in f[k] :
          c \in {[path |-> Append(b.path, d.target), weight |-> b.weight + d.weight] :
                   d \in {e \in BlocksOpen : e.source = Last(b.path) /\ e.target \notin ToSet(b.path)}}
    OBVIOUS
  <2> QED
    BY <1>6, <2>1
<1> HIDE DEF G, E
<1>8. ChainsAt(E, k + 1) = G
  BY <1>5, <1>7
<1> QED
  BY <1>8 DEF G, E

LEMMA ChainsAre ==
  ASSUME Whole, IsFiniteSet(Node)
  PROVE  Chains(plan) = UNION {ChainsAt(Pairs(BlocksOpen), k) : k \in 0 .. Cardinality(Node)}
<1> DEFINE grow == CHOOSE f : Chaining(BlocksOpen, f)
           c    == [k \in Nat |-> ChainsAt(Pairs(BlocksOpen), k)]
<1>1. Chains(plan) = UNION {grow[k] : k \in 0 .. Cardinality(Node)}
  <2>1. ChainDeps(plan) = BlocksOpen
    BY BlocksOpenIs
  <2> QED
    BY <2>1 DEF Chains, Chaining, ChainOf, Roots
<1>2. ASSUME NEW k \in Nat PROVE c[k] = ChainOf(BlocksOpen, k, c)
  <2>1. CASE k = 0
    <3> DEFINE E == Pairs(BlocksOpen)
               C == UNION {{[path |-> <<r>>, weight |-> d.weight] :
                              d \in {e \in BlocksOpen : e.source = r}} : r \in Roots(BlocksOpen)}
    <3>1. Roots(BlocksOpen) = Starts(E) /\ \A r \in Starts(E) : r \in Node
      <4>1. Roots(BlocksOpen) = Starts(E) /\ Graph(E)
        BY BlocksOpenIs
      <4> QED
        BY <4>1 DEF Starts, Graph
    <3>2. \A r \in Starts(E) : Trail(E, r, 0) = {<<r>>}
      BY <3>1, NoTrail
    <3>3. \A b : b \in ChainsAt(E, 0) <=> \E r \in Starts(E) : b = [path |-> <<r>>, weight |-> 1]
      BY <3>2 DEF ChainsAt
    <3>4. \A r \in Roots(BlocksOpen) : \E d \in BlocksOpen : d.source = r
      BY DEF Roots
    <3>5. \A d \in BlocksOpen : d.weight = 1
      BY DEF BlocksOpen, Whole
    <3>6. \A b : b \in C <=> \E r \in Roots(BlocksOpen) : b = [path |-> <<r>>, weight |-> 1]
      BY <3>4, <3>5
    <3> HIDE DEF C, E
    <3>7. ChainsAt(E, 0) = C
      BY <3>1, <3>3, <3>6
    <3>8. ChainOf(BlocksOpen, k, c) = C
      BY <2>1 DEF ChainOf, C
    <3> QED
      BY <2>1, <3>7, <3>8 DEF E
  <2>2. CASE k # 0
    <3>1. PICK j \in Nat : k = j + 1 /\ j = k - 1
      BY <2>2
    <3>2. c[j] = ChainsAt(Pairs(BlocksOpen), j) /\ c[k] = ChainsAt(Pairs(BlocksOpen), j + 1)
      BY <3>1
    <3> HIDE DEF c
    <3>3. ChainsAt(Pairs(BlocksOpen), j + 1) =
            UNION {{[path |-> Append(b.path, d.target), weight |-> b.weight + d.weight] :
              d \in {e \in BlocksOpen : e.source = Last(b.path) /\ e.target \notin ToSet(b.path)}} :
              b \in c[j]}
      BY <3>2, ChainsGrow
    <3> QED
      BY <2>2, <3>1, <3>2, <3>3 DEF ChainOf
  <2> QED
    BY <2>1, <2>2
<1>3. Chaining(BlocksOpen, c)
  BY <1>2 DEF Chaining
<1> HIDE DEF c
<1>4. Chaining(BlocksOpen, grow)
  BY <1>3
<1> HIDE DEF grow
<1>5. \A k \in Nat : c[k] = ChainOf(BlocksOpen, k, c) /\ grow[k] = ChainOf(BlocksOpen, k, grow)
  BY <1>3, <1>4 DEF Chaining
<1>6. \A k \in Nat : (k = 0 \/ c[k - 1] = grow[k - 1]) => c[k] = grow[k]
  <2> SUFFICES ASSUME NEW k \in Nat, k = 0 \/ c[k - 1] = grow[k - 1] PROVE c[k] = grow[k]
    OBVIOUS
  <2>1. ChainOf(BlocksOpen, k, c) = ChainOf(BlocksOpen, k, grow)
    <3>1. CASE k = 0
      BY <3>1 DEF ChainOf
    <3>2. CASE k # 0
      BY <3>2 DEF ChainOf
    <3> QED
      BY <3>1, <3>2
  <2> QED
    BY <1>5, <2>1
<1>7. \A k \in Nat : c[k] = grow[k]
  <2>1. FollowOn(Nat, 0, c, grow)
    <3>1. Nat \subseteq Nat /\ \A k \in Nat : k = 0 \/ k - 1 \in Nat
      OBVIOUS
    <3> QED
      BY <1>6, <3>1 DEF FollowOn
  <2> QED
    BY <2>1, Agree
<1>8. \A k \in Nat : grow[k] = ChainsAt(Pairs(BlocksOpen), k)
  BY <1>7 DEF c
<1>9. \A k \in 0 .. Cardinality(Node) : k \in Nat
  OBVIOUS
<1> QED
  BY <1>1, <1>8, <1>9

LEMMA AllChainsAre ==
  ASSUME IsFiniteSet(Node), NEW E, Graph(E), NEW t
  PROVE  t \in AllChains(E) <=> \E e \in E : \E k \in 0 .. Cardinality(Node) : t \in Trail(E, e[1], k)
<1>1. \A e \in E : e[1] \in Node
  BY DEF Graph
<1>2. t \in AllChains(E) <=> (\E e \in E : t = <<e[1]>>) \/ \E e \in E : t \in Trails(E, e[1])
  BY DEF AllChains
<1>3. \A e \in E : Trail(E, e[1], 0) = {<<e[1]>>}
  BY <1>1, NoTrail
<1>4. \A e \in E : t \in Trails(E, e[1]) <=> \E k \in 1 .. Cardinality(Node) : t \in Trail(E, e[1], k)
  BY <1>1, TrailsEnd
<1>5. Cardinality(Node) \in Nat
  BY FS_CardinalityType
<1>6. \A k : k \in 0 .. Cardinality(Node) <=> k = 0 \/ k \in 1 .. Cardinality(Node)
  BY <1>5
<1> QED
  BY <1>2, <1>3, <1>4, <1>6

(* A longest chain starts where nothing blocks. *)
LEMMA LongestStarts ==
  ASSUME IsFiniteSet(Node), NEW E, Graph(E), Loopless(E), Acyclic(E), E # {}
  PROVE  \E r \in Starts(E), k \in 0 .. Cardinality(Node) :
           /\ \E t : t \in Trail(E, r, k)
           /\ \A o \in AllChains(E) : Len(o) <= k + 1
<1> DEFINE N == Cardinality(Node)
           K == {k \in 0 .. N : \E e \in E : \E t : t \in Trail(E, e[1], k)}
<1>0. N \in Nat /\ \A e \in E : e[1] \in Node /\ e[2] \in Node
  BY FS_CardinalityType DEF Graph
<1>1. 0 \in K
  <2>1. PICK e \in E : TRUE
    OBVIOUS
  <2>2. <<e[1]>> \in Trail(E, e[1], 0)
    BY <1>0, NoTrail
  <2> QED
    BY <1>0, <2>2
<1>2. PICK k \in K : \A j \in K : j <= k
  <2>1. K # {} /\ K \subseteq 0 .. N
    BY <1>1
  <2> HIDE DEF K
  <2> QED
    BY <1>0, <2>1, GreatestNat
<1>3. PICK e \in E : \E t : t \in Trail(E, e[1], k)
  OBVIOUS
<1>4. PICK t : t \in Trail(E, e[1], k)
  BY <1>3
<1>5. ASSUME NEW d \in E, d[2] = e[1] PROVE FALSE
  <2>1. k \in Nat
    OBVIOUS
  <2>2. PICK u : u \in Trail(E, d[1], k + 1)
    BY <1>4, <1>5, <2>1, Prepend
  <2>3. k + 1 \in Nat /\ k + 1 < N
    BY <2>1, <2>2, TrailFits
  <2>4. k + 1 \in K
    BY <1>0, <2>2, <2>3
  <2> QED
    BY <1>2, <2>1, <2>4
<1>6. e[1] \in Starts(E)
  BY <1>5 DEF Starts
<1>7. ASSUME NEW o \in AllChains(E) PROVE Len(o) <= k + 1
  <2>1. PICK d \in E : \E j \in 0 .. N : o \in Trail(E, d[1], j)
    BY AllChainsAre
  <2>2. PICK j \in 0 .. N : o \in Trail(E, d[1], j)
    BY <2>1
  <2>3. j \in K /\ j \in Nat /\ k \in Nat
    BY <2>2
  <2>4. Len(o) = j + 1
    BY <2>2, <2>3, TrailEnds
  <2>5. j <= k
    BY <1>2, <2>3
  <2> QED
    BY <2>3, <2>4, <2>5
<1>8. k \in 0 .. N
  OBVIOUS
<1> QED
  BY <1>4, <1>6, <1>7, <1>8

LEMMA CriticalIsLongest ==
  ASSUME IsFiniteSet(Node), Whole
  PROVE  CriticalLongest
<1> DEFINE E      == Pairs(BlocksOpen)
           chains == Chains(plan)
           N      == Cardinality(Node)
<1>0. E = {<<d.source, d.target>> :
             d \in {f \in plan.deps : f.type = "blocks" /\ f.source \in Open(plan, InPlan)}}
  BY DEF Pairs, BlocksOpen
<1>1. Graph(E) /\ Loopless(E) /\ N \in Nat
  BY BlocksOpenIs, FS_CardinalityType
<1>2. \A c : c \in chains <=>
        \E k \in 0 .. N : \E r \in Starts(E) : \E t \in Trail(E, r, k) : c = [path |-> t, weight |-> k + 1]
  <2>1. chains = UNION {ChainsAt(E, k) : k \in 0 .. N}
    BY ChainsAre
  <2>2. \A c : \A k \in 0 .. N : c \in ChainsAt(E, k) <=>
          \E r \in Starts(E) : \E t \in Trail(E, r, k) : c = [path |-> t, weight |-> k + 1]
    BY DEF ChainsAt
  <2> HIDE DEF chains, E
  <2> QED
    BY <2>1, <2>2
<1>3. CriticalPaths(plan) = {c \in chains : \A o \in chains :
         c.weight > o.weight \/ (c.weight = o.weight /\ Len(c.path) >= Len(o.path))}
  BY DEF CriticalPaths
<1> HIDE DEF chains, E
<1>4. ASSUME NEW c \in chains
      PROVE  c.weight \in Nat /\ Len(c.path) = c.weight /\ c.path \in AllChains(E) /\ E # {}
  <2>1. PICK k \in 0 .. N, r \in Starts(E) : \E t \in Trail(E, r, k) : c = [path |-> t, weight |-> k + 1]
    BY <1>2
  <2>2. PICK t \in Trail(E, r, k) : c = [path |-> t, weight |-> k + 1]
    BY <2>1
  <2>3. Len(t) = k + 1
    BY TrailEnds
  <2>4. PICK e \in E : r = e[1]
    BY DEF Starts
  <2>5. t \in AllChains(E)
    BY <1>1, <2>4, AllChainsAre
  <2> QED
    BY <2>2, <2>3, <2>4, <2>5
<1>5. ASSUME Acyclic(E), E # {}
      PROVE  \E c \in chains : \A o \in AllChains(E) : Len(o) <= Len(c.path)
  <2>1. PICK r \in Starts(E), k \in 0 .. N :
          (\E t : t \in Trail(E, r, k)) /\ \A o \in AllChains(E) : Len(o) <= k + 1
    BY <1>1, <1>5, LongestStarts
  <2>2. PICK t : t \in Trail(E, r, k)
    BY <2>1
  <2> DEFINE c == [path |-> t, weight |-> k + 1]
  <2>3. c \in chains
    BY <1>2, <2>2
  <2>4. Len(c.path) = k + 1
    BY <2>2, TrailEnds
  <2> QED
    BY <2>1, <2>3, <2>4
<1>6. ASSUME Acyclic(E), E # {}
      PROVE  /\ CriticalPaths(plan) # {}
             /\ \A c \in CriticalPaths(plan) : \A o \in AllChains(E) : Len(o) <= Len(c.path)
  <2>1. PICK b \in chains : \A o \in AllChains(E) : Len(o) <= Len(b.path)
    BY <1>5, <1>6
  <2>2. b.weight \in Nat /\ \A o \in chains : o.weight \in Nat /\ o.weight <= b.weight /\ Len(o.path) <= Len(b.path)
    BY <1>4, <2>1
  <2>3. b \in CriticalPaths(plan)
    <3> SUFFICES ASSUME NEW o \in chains
                 PROVE  b.weight > o.weight \/ (b.weight = o.weight /\ Len(b.path) >= Len(o.path))
      BY <1>3
    <3>1. o.weight \in Nat /\ b.weight \in Nat /\ o.weight <= b.weight
      BY <2>2
    <3>2. Len(o.path) = o.weight /\ Len(b.path) = b.weight
      BY <1>4
    <3> QED
      BY <3>1, <3>2
  <2>4. ASSUME NEW c \in CriticalPaths(plan), NEW o \in AllChains(E) PROVE Len(o) <= Len(c.path)
    <3>1. c \in chains /\ (c.weight > b.weight \/ (c.weight = b.weight /\ Len(c.path) >= Len(b.path)))
      BY <1>3
    <3>2. c.weight \in Nat /\ Len(c.path) = c.weight /\ Len(b.path) = b.weight /\ b.weight \in Nat
      BY <1>4, <3>1
    <3>3. c.weight = b.weight
      <4>1. c.weight <= b.weight
        BY <2>2, <3>1
      <4> QED
        BY <3>1, <3>2, <4>1
    <3> QED
      BY <2>1, <3>2, <3>3
  <2> QED
    BY <2>3, <2>4
<1>7. \A c \in CriticalPaths(plan) : c.path \in AllChains(E) /\ E # {}
  BY <1>3, <1>4
<1>8. Acyclic(E) =>
        /\ E # {} <=> CriticalPaths(plan) # {}
        /\ \A c \in CriticalPaths(plan) :
             c.path \in AllChains(E) /\ \A o \in AllChains(E) : Len(o) <= Len(c.path)
  BY <1>6, <1>7
<1> QED
  BY <1>0, <1>8 DEF CriticalLongest

-----------------------------------------------------------------------------
(* The critical path of a goal's briefing. Its recursion counts edges      *)
(* down: a node settles once all that blocks it has, and its distance is   *)
(* then the length of the longest walk to it over settled nodes.           *)
BriefDeps == {d \in PlanDeps(plan) : d.type = "blocks" /\ d.source \in OpenWork /\ d.target \in OpenWork}
Into(n)   == {d.source : d \in {e \in BriefDeps : e.target = n}}

DoneOf(k, f) == IF k = 0 THEN {} ELSE {n \in OpenWork : Into(n) \subseteq f[k - 1]}
Settles(f)   == f = [k \in Nat |-> DoneOf(k, f)]
Settled      == (CHOOSE f : Settles(f))[Cardinality(OpenWork)]

DistOf(n, f) == 1 + Max({0} \cup {f[s] : s \in Into(n) \cap Settled})
Counts(f)    == f = [n \in OpenWork |-> DistOf(n, f)]
Count        == CHOOSE f : Counts(f)

EndOf(n, f) ==
  IF Count[n] = 1 THEN {<<n>>}
  ELSE UNION {{Append(c, n) : c \in f[s]} : s \in {m \in Into(n) \cap Settled : Count[m] + 1 = Count[n]}}
Ends(f)     == f = [n \in OpenWork |-> EndOf(n, f)]
Ending      == CHOOSE f : Ends(f)

LEMMA BriefedIs ==
  BriefedChains(plan) =
    IF \A n \in OpenWork : Count[n] = 1 THEN {<<>>}
    ELSE UNION {Ending[n] : n \in {l \in OpenWork : \A m \in OpenWork : Count[m] <= Count[l]}}
  BY DEF BriefedChains, BriefDeps, Into, DoneOf, Settles, Settled, DistOf, Counts, Count, EndOf, Ends,
         Ending, OpenWork

(* the edges between open tasks, and those that leave a settled one *)
BriefEdges == {<<d.source, d.target>> :
                 d \in {f \in plan.deps : f.type = "blocks" /\ f.source \in OpenWork /\ f.target \in OpenWork}}
SettledEdges == {e \in BriefEdges : e[1] \in Settled}

LEMMA BriefEdgesAre ==
  ASSUME Whole, IsFiniteSet(Node)
  PROVE  /\ Graph(BriefEdges) /\ Graph(SettledEdges) /\ Loopless(BriefEdges)
         /\ OpenWork \subseteq Node /\ IsFiniteSet(OpenWork)
         /\ \A e \in BriefEdges : e = <<e[1], e[2]>> /\ e[1] \in OpenWork /\ e[2] \in OpenWork
         /\ \A n, s : s \in Into(n) <=> <<s, n>> \in BriefEdges
<1>1. OpenWork \subseteq ToSet(plan.rows)
  BY DEF OpenWork, Open, Work
<1>2. OpenWork \subseteq Node
  BY <1>1 DEF Whole
<1>3. \A d : d \in BriefDeps <=>
        d \in plan.deps /\ d.type = "blocks" /\ d.source \in OpenWork /\ d.target \in OpenWork
  BY <1>1 DEF BriefDeps, PlanDeps
<1>4. \A e \in BriefEdges :
        e = <<e[1], e[2]>> /\ e[1] \in OpenWork /\ e[2] \in OpenWork /\ e[1] # e[2]
  BY DEF BriefEdges, Whole, JoinsOnly, Joins
<1>5. ASSUME NEW n, NEW s PROVE s \in Into(n) <=> <<s, n>> \in BriefEdges
  <2>1. ASSUME s \in Into(n) PROVE <<s, n>> \in BriefEdges
    <3>1. PICK d \in BriefDeps : d.target = n /\ d.source = s
      BY <2>1 DEF Into
    <3> QED
      BY <1>3, <3>1 DEF BriefEdges
  <2>2. ASSUME <<s, n>> \in BriefEdges PROVE s \in Into(n)
    <3>1. PICK d \in plan.deps : /\ d.type = "blocks" /\ d.source \in OpenWork /\ d.target \in OpenWork
                                 /\ <<s, n>> = <<d.source, d.target>>
      BY <2>2 DEF BriefEdges
    <3>2. d \in BriefDeps /\ d.source = s /\ d.target = n
      BY <1>3, <3>1
    <3> QED
      BY <3>2 DEF Into
  <2> QED
    BY <2>1, <2>2
<1>6. Graph(BriefEdges) /\ Graph(SettledEdges)
  BY <1>2, <1>4 DEF Graph, SettledEdges
<1>7. Loopless(BriefEdges)
  <2> SUFFICES ASSUME NEW n, <<n, n>> \in BriefEdges PROVE FALSE
    BY DEF Loopless
  <2> DEFINE e == <<n, n>>
  <2>1. e \in BriefEdges /\ e[1] = e[2]
    OBVIOUS
  <2> QED
    BY <1>4, <2>1
<1>8. IsFiniteSet(OpenWork)
  BY <1>2, FS_Subset
<1> QED
  BY <1>2, <1>4, <1>5, <1>6, <1>7, <1>8

(* what no walk of k edges leads to *)
Quiet(k) == {n \in OpenWork : \A a \in Node : ~Walked(BriefEdges, a, n, k)}

LEMMA QuietGrows ==
  ASSUME Whole, IsFiniteSet(Node), NEW k \in Nat
  PROVE  Quiet(0) = {} /\ Quiet(k + 1) = {n \in OpenWork : Into(n) \subseteq Quiet(k)}
<1>1. Quiet(0) = {}
  <2> SUFFICES ASSUME NEW n \in OpenWork PROVE \E a \in Node : Walked(BriefEdges, a, n, 0)
    BY DEF Quiet
  <2>1. n \in Node
    BY BriefEdgesAre
  <2>2. Walked(BriefEdges, n, n, 0)
    BY <2>1, NoStep
  <2> QED
    BY <2>1, <2>2
<1>2. Graph(BriefEdges)
  BY BriefEdgesAre
<1>3. ASSUME NEW n \in OpenWork, n \in Quiet(k + 1), NEW s \in Into(n) PROVE s \in Quiet(k)
  <2>1. <<s, n>> \in BriefEdges
    BY BriefEdgesAre
  <2>2. s \in OpenWork /\ s \in Node
    <3>1. <<s, n>>[1] \in OpenWork
      BY <2>1, BriefEdgesAre
    <3> QED
      BY <3>1, BriefEdgesAre
  <2>3. ASSUME NEW a \in Node, Walked(BriefEdges, a, s, k) PROVE FALSE
    <3>1. Walked(BriefEdges, a, n, k + 1)
      BY <1>2, <2>1, <2>2, <2>3, OneStepMore
    <3> QED
      BY <1>3, <3>1 DEF Quiet
  <2> QED
    BY <2>2, <2>3 DEF Quiet
<1>4. ASSUME NEW n \in OpenWork, Into(n) \subseteq Quiet(k), NEW a \in Node,
             Walked(BriefEdges, a, n, k + 1)
      PROVE  FALSE
  <2>1. PICK b \in Node : Walked(BriefEdges, a, b, k) /\ <<b, n>> \in BriefEdges
    BY <1>2, <1>4, OneStepMore
  <2>2. b \in Quiet(k)
    BY <1>4, <2>1, BriefEdgesAre
  <2> QED
    BY <2>1, <2>2 DEF Quiet
<1>5. Quiet(k + 1) \subseteq OpenWork
  BY DEF Quiet
<1>6. \A n \in OpenWork : n \in Quiet(k + 1) <=> Into(n) \subseteq Quiet(k)
  <2>1. \A n \in OpenWork : Into(n) \subseteq Quiet(k) => n \in Quiet(k + 1)
    BY <1>4 DEF Quiet
  <2> QED
    BY <1>3, <2>1
<1> QED
  BY <1>1, <1>5, <1>6

LEMMA SettledIs ==
  ASSUME Whole, IsFiniteSet(Node)
  PROVE  Settled = Quiet(Cardinality(OpenWork))
<1> DEFINE done == CHOOSE f : Settles(f)
           c    == [k \in Nat |-> Quiet(k)]
<1>1. ASSUME NEW k \in Nat PROVE c[k] = DoneOf(k, c)
  <2>1. CASE k = 0
    BY <2>1, QuietGrows DEF DoneOf
  <2>2. CASE k # 0
    <3>1. PICK j \in Nat : k = j + 1 /\ j = k - 1
      BY <2>2
    <3>2. c[k - 1] = Quiet(j) /\ c[k] = Quiet(j + 1)
      BY <3>1
    <3> HIDE DEF c
    <3> QED
      BY <2>2, <3>2, QuietGrows DEF DoneOf
  <2> QED
    BY <2>1, <2>2
<1>2. Settles(c)
  BY <1>1 DEF Settles
<1> HIDE DEF c
<1>3. Settles(done)
  BY <1>2
<1>4. Settled = done[Cardinality(OpenWork)]
  BY DEF Settled
<1> HIDE DEF done
<1>5. \A k \in Nat : c[k] = DoneOf(k, c) /\ done[k] = DoneOf(k, done)
  BY <1>2, <1>3 DEF Settles
<1>6. \A k \in Nat : (k = 0 \/ c[k - 1] = done[k - 1]) => c[k] = done[k]
  <2> SUFFICES ASSUME NEW k \in Nat, k = 0 \/ c[k - 1] = done[k - 1] PROVE c[k] = done[k]
    OBVIOUS
  <2>1. DoneOf(k, c) = DoneOf(k, done)
    <3>1. CASE k = 0
      BY <3>1 DEF DoneOf
    <3>2. CASE k # 0
      BY <3>2 DEF DoneOf
    <3> QED
      BY <3>1, <3>2
  <2> QED
    BY <1>5, <2>1
<1>7. \A k \in Nat : c[k] = done[k]
  <2>1. FollowOn(Nat, 0, c, done)
    <3>1. Nat \subseteq Nat /\ \A k \in Nat : k = 0 \/ k - 1 \in Nat
      OBVIOUS
    <3> QED
      BY <1>6, <3>1 DEF FollowOn
  <2> QED
    BY <2>1, Agree
<1>8. Cardinality(OpenWork) \in Nat
  BY BriefEdgesAre, FS_CardinalityType
<1>9. c[Cardinality(OpenWork)] = Quiet(Cardinality(OpenWork))
  BY <1>8 DEF c
<1> QED
  BY <1>4, <1>7, <1>8, <1>9

(* A part of a walk is a walk. *)
LEMMA PartOfWalk ==
  ASSUME NEW E, NEW k \in Nat, NEW w \in Walk(E, k), NEW i \in 0 .. k, NEW j \in i .. k
  PROVE  j - i \in Nat /\ Walked(E, w[i], w[j], j - i)
<1> DEFINE v == [r \in 0 .. j - i |-> w[r + i]]
<1>1. j - i \in Nat /\ \A r \in 0 .. j - i : r + i \in 0 .. k
  OBVIOUS
<1>2. v \in [0 .. j - i -> Node]
  BY <1>1 DEF Walk
<1>3. ASSUME NEW r \in 0 .. j - i - 1 PROVE <<v[r], v[r + 1]>> \in E
  <2>1. v[r] = w[r + i] /\ v[r + 1] = w[r + 1 + i] /\ r + 1 + i = r + i + 1 /\ r + i \in 0 .. k - 1
    BY <1>1
  <2> QED
    BY <2>1 DEF Walk
<1>4. v \in Walk(E, j - i)
  BY <1>2, <1>3 DEF Walk
<1>5. v[0] = w[i] /\ v[j - i] = w[j]
  <2>1. v[0] = w[0 + i] /\ v[j - i] = w[j - i + i]
    BY <1>1
  <2>2. 0 + i = i /\ j - i + i = j
    OBVIOUS
  <2> QED
    BY <2>1, <2>2
<1> HIDE DEF v
<1> QED
  BY <1>1, <1>4, <1>5 DEF Walked

(* A walk that meets itself can go round once more. *)
LEMMA GoRound ==
  ASSUME NEW E, NEW k \in Nat, NEW w \in Walk(E, k),
         NEW i \in 0 .. k, NEW j \in 0 .. k, i < j, w[i] = w[j]
  PROVE  \E l \in Nat : l > k /\ Walked(E, w[0], w[k], l)
<1> DEFINE d == j - i
           l == k + d
           v == [r \in 0 .. l |-> IF r <= j THEN w[r] ELSE w[r - d]]
<1>1. d \in 1 .. k /\ l \in Nat /\ l > k /\ l > j
  OBVIOUS
<1>2. v \in [0 .. l -> Node]
  BY <1>1 DEF Walk
<1>3. ASSUME NEW r \in 0 .. l - 1 PROVE <<v[r], v[r + 1]>> \in E
  <2>1. CASE r + 1 <= j
    <3>1. v[r] = w[r] /\ v[r + 1] = w[r + 1] /\ r \in 0 .. k - 1
      BY <1>1, <2>1
    <3> QED
      BY <3>1 DEF Walk
  <2>2. CASE r = j
    <3>1. v[r] = w[i] /\ v[r + 1] = w[r + 1 - d] /\ r + 1 - d = i + 1 /\ i \in 0 .. k - 1
      BY <1>1, <2>2
    <3> QED
      BY <3>1 DEF Walk
  <2>3. CASE r > j
    <3>1. v[r] = w[r - d] /\ v[r + 1] = w[r + 1 - d] /\ r + 1 - d = r - d + 1 /\ r - d \in 0 .. k - 1
      BY <1>1, <2>3
    <3> QED
      BY <3>1 DEF Walk
  <2> QED
    BY <2>1, <2>2, <2>3
<1>4. v \in Walk(E, l)
  BY <1>2, <1>3 DEF Walk
<1>5. v[0] = w[0] /\ v[l] = w[k]
  BY <1>1
<1> HIDE DEF v, l, d
<1> QED
  BY <1>1, <1>4, <1>5 DEF Walked

(* Along settled nodes no walk has more edges than there are open tasks: a *)
(* longer one would be one that leads to a settled node.                   *)
LEMMA SettledWalksEnd ==
  ASSUME Whole, IsFiniteSet(Node), NEW k \in Nat, NEW a, NEW n, Walked(SettledEdges, a, n, k)
  PROVE  k <= Cardinality(OpenWork)
<1> DEFINE N == Cardinality(OpenWork)
<1>1. N \in Nat
  BY BriefEdgesAre, FS_CardinalityType
<1>2. PICK w \in Walk(SettledEdges, k) : w[0] = a /\ w[k] = n
  BY DEF Walked
<1>3. w \in Walk(BriefEdges, k)
  BY DEF Walk, SettledEdges
<1> SUFFICES ASSUME k > N PROVE FALSE
  BY <1>1
<1>4. k - 1 \in 0 .. k /\ k - 1 - N \in 0 .. k /\ k - 1 \in k - 1 - N .. k
      /\ k - 1 - (k - 1 - N) = N /\ k - 1 \in 0 .. k - 1
  BY <1>1
<1>5. w[k - 1] \in Settled
  <2> DEFINE e == <<w[k - 1], w[k - 1 + 1]>>
  <2>1. e \in SettledEdges /\ e[1] = w[k - 1]
    BY <1>4 DEF Walk
  <2> QED
    BY <2>1 DEF SettledEdges
<1>6. Walked(BriefEdges, w[k - 1 - N], w[k - 1], N)
  BY <1>3, <1>4, PartOfWalk
<1>7. w[k - 1 - N] \in Node
  BY <1>4 DEF Walk
<1>8. Settled = Quiet(N)
  BY SettledIs
<1> HIDE DEF N
<1> QED
  BY <1>5, <1>6, <1>7, <1>8 DEF Quiet

(* the number of edges of the longest walk to n along settled nodes *)
Lengths(n) == {k \in 0 .. Cardinality(OpenWork) : \E a \in Node : Walked(SettledEdges, a, n, k)}
Long(n)    == CHOOSE k \in Lengths(n) : \A l \in Lengths(n) : l <= k

LEMMA LongIs ==
  ASSUME Whole, IsFiniteSet(Node), NEW n \in OpenWork
  PROVE  /\ Long(n) \in Nat
         /\ \E a \in Node : Walked(SettledEdges, a, n, Long(n))
         /\ \A k \in Nat, a \in Node : Walked(SettledEdges, a, n, k) => k <= Long(n)
<1> DEFINE N == Cardinality(OpenWork)
<1>1. N \in Nat /\ n \in Node
  BY BriefEdgesAre, FS_CardinalityType
<1>2. 0 \in Lengths(n)
  <2>1. Walked(SettledEdges, n, n, 0)
    BY <1>1, NoStep
  <2> QED
    BY <1>1, <2>1 DEF Lengths
<1>3. Lengths(n) # {} /\ Lengths(n) \subseteq 0 .. N
  BY <1>2 DEF Lengths
<1>4. \E k \in Lengths(n) : \A l \in Lengths(n) : l <= k
  BY <1>1, <1>3, GreatestNat
<1>5. Long(n) \in Lengths(n) /\ \A l \in Lengths(n) : l <= Long(n)
  BY <1>4 DEF Long
<1>6. ASSUME NEW k \in Nat, NEW a \in Node, Walked(SettledEdges, a, n, k) PROVE k <= Long(n)
  <2>1. k <= N
    BY <1>6, SettledWalksEnd
  <2>2. k \in Lengths(n)
    BY <1>1, <1>6, <2>1 DEF Lengths
  <2> QED
    BY <1>5, <2>2
<1>7. Long(n) \in Nat /\ \E a \in Node : Walked(SettledEdges, a, n, Long(n))
  BY <1>1, <1>5 DEF Lengths
<1> QED
  BY <1>6, <1>7

LEMMA LongStep ==
  ASSUME Whole, IsFiniteSet(Node), NEW n \in OpenWork
  PROVE  /\ \A s \in Into(n) \cap Settled : s \in OpenWork /\ Long(s) + 1 <= Long(n)
         /\ Long(n) # 0 => \E s \in Into(n) \cap Settled : Long(s) + 1 = Long(n)
<1>0. Graph(SettledEdges) /\ OpenWork \subseteq Node /\ Long(n) \in Nat
  BY BriefEdgesAre, LongIs
<1>1. \A s : s \in Into(n) \cap Settled <=> <<s, n>> \in SettledEdges
  <2> SUFFICES ASSUME NEW s PROVE s \in Into(n) \cap Settled <=> <<s, n>> \in SettledEdges
    OBVIOUS
  <2>1. s \in Into(n) <=> <<s, n>> \in BriefEdges
    BY BriefEdgesAre
  <2>2. <<s, n>>[1] = s
    OBVIOUS
  <2> QED
    BY <2>1, <2>2 DEF SettledEdges
<1>2. ASSUME NEW s \in Into(n) \cap Settled PROVE s \in OpenWork /\ Long(s) + 1 <= Long(n)
  <2>1. <<s, n>> \in SettledEdges
    BY <1>1
  <2>2. s \in OpenWork
    BY SettledIs DEF Quiet
  <2>3. PICK a \in Node : Walked(SettledEdges, a, s, Long(s))
    BY <2>2, LongIs
  <2>4. Long(s) \in Nat /\ s \in Node
    BY <1>0, <2>2, LongIs
  <2>5. Walked(SettledEdges, a, n, Long(s) + 1)
    BY <1>0, <2>1, <2>3, <2>4, OneStepMore
  <2>6. Long(s) + 1 \in Nat
    BY <2>4
  <2> QED
    BY <2>2, <2>5, <2>6, LongIs
<1>3. ASSUME Long(n) # 0 PROVE \E s \in Into(n) \cap Settled : Long(s) + 1 = Long(n)
  <2>1. PICK k \in Nat : Long(n) = k + 1
    <3>1. Long(n) - 1 \in Nat /\ Long(n) = Long(n) - 1 + 1
      BY <1>0, <1>3
    <3> QED
      BY <3>1
  <2>2. PICK a \in Node : Walked(SettledEdges, a, n, k + 1)
    BY <2>1, LongIs
  <2>3. PICK s \in Node : Walked(SettledEdges, a, s, k) /\ <<s, n>> \in SettledEdges
    BY <1>0, <2>2, OneStepMore
  <2>4. s \in Into(n) \cap Settled
    BY <1>1, <2>3
  <2>5. s \in OpenWork /\ Long(s) + 1 <= Long(n)
    BY <1>2, <2>4
  <2>6. Long(s) \in Nat /\ k <= Long(s)
    BY <2>3, <2>5, LongIs
  <2>7. Long(s) + 1 = Long(n)
    BY <1>0, <2>1, <2>5, <2>6
  <2> QED
    BY <2>4, <2>7
<1> QED
  BY <1>2, <1>3

(* Two functions agree if they do wherever they do on what has a lower     *)
(* rank.                                                                   *)
LEMMA AgreeBelow ==
  ASSUME NEW T, NEW rank \in [T -> Nat], NEW f, NEW h,
         \A n \in T : (\A s \in T : rank[s] < rank[n] => f[s] = h[s]) => f[n] = h[n]
  PROVE  \A n \in T : f[n] = h[n]
<1> DEFINE D == {rank[n] : n \in {m \in T : f[m] # h[m]}}
<1>1. ASSUME D # {} PROVE FALSE
  <2>1. D \subseteq Nat
    OBVIOUS
  <2>2. PICK k \in D : \A l \in D : k <= l
    BY <1>1, <2>1, SmallestNat
  <2>3. PICK n \in T : f[n] # h[n] /\ rank[n] = k
    OBVIOUS
  <2>4. ASSUME NEW s \in T, rank[s] < rank[n] PROVE f[s] = h[s]
    <3>1. rank[s] \in D => k <= rank[s]
      BY <2>2
    <3>2. rank[s] \notin D
      BY <2>3, <2>4, <3>1
    <3> QED
      BY <3>2
  <2> QED
    BY <2>3, <2>4
<1> QED
  BY <1>1

LEMMA CountIs ==
  ASSUME Whole, IsFiniteSet(Node)
  PROVE  \A n \in OpenWork : Count[n] = 1 + Long(n)
<1> DEFINE c    == [n \in OpenWork |-> 1 + Long(n)]
           rank == [n \in OpenWork |-> Long(n)]
<1>0. \A n \in OpenWork : Long(n) \in Nat
  BY LongIs
<1>1. ASSUME NEW n \in OpenWork PROVE c[n] = DistOf(n, c)
  <2> DEFINE S == Into(n) \cap Settled
             B == {0} \cup {c[s] : s \in S}
  <2>1. \A s \in S : s \in OpenWork /\ Long(s) \in Nat /\ c[s] = 1 + Long(s) /\ Long(s) + 1 <= Long(n)
    BY <1>0, LongStep
  <2>2. B \subseteq Nat /\ \A b \in B : b <= Long(n)
    <3>1. \A b \in B : b = 0 \/ \E s \in S : b = c[s]
      OBVIOUS
    <3> HIDE DEF B, c, S
    <3>2. ASSUME NEW b \in B PROVE b \in Nat /\ b <= Long(n)
      <4>1. CASE b = 0
        BY <1>0, <4>1
      <4>2. CASE b # 0
        <5>1. PICK s \in S : b = c[s]
          BY <3>1, <4>2
        <5> QED
          BY <1>0, <2>1, <5>1
      <4> QED
        BY <4>1, <4>2
    <3> QED
      BY <3>2
  <2>3. Long(n) \in B
    <3>1. CASE Long(n) = 0
      BY <3>1
    <3>2. CASE Long(n) # 0
      <4>1. PICK s \in S : Long(s) + 1 = Long(n)
        BY <3>2, LongStep
      <4>2. c[s] = Long(n)
        BY <2>1, <4>1
      <4>3. c[s] \in B
        OBVIOUS
      <4> QED
        BY <4>2, <4>3
    <3> QED
      BY <3>1, <3>2
  <2>4. Max(B) = Long(n)
    <3> HIDE DEF B
    <3> QED
      BY <2>2, <2>3, MaxIs
  <2>5. DistOf(n, c) = 1 + Max(B)
    BY DEF DistOf
  <2>6. c[n] = 1 + Long(n)
    OBVIOUS
  <2> QED
    BY <2>4, <2>5, <2>6
<1>2. Counts(c)
  BY <1>1 DEF Counts
<1>3. rank \in [OpenWork -> Nat] /\ \A n \in OpenWork : rank[n] = Long(n) /\ c[n] = 1 + Long(n)
  BY <1>0
<1> HIDE DEF c, rank
<1>4. Counts(Count)
  BY <1>2 DEF Count
<1>5. \A n \in OpenWork : c[n] = DistOf(n, c) /\ Count[n] = DistOf(n, Count)
  BY <1>2, <1>4 DEF Counts
<1>6. ASSUME NEW n \in OpenWork, \A s \in OpenWork : rank[s] < rank[n] => c[s] = Count[s]
      PROVE  c[n] = Count[n]
  <2>1. \A s \in Into(n) \cap Settled : c[s] = Count[s]
    <3> SUFFICES ASSUME NEW s \in Into(n) \cap Settled PROVE c[s] = Count[s]
      OBVIOUS
    <3>1. s \in OpenWork /\ Long(s) + 1 <= Long(n)
      BY LongStep
    <3>2. rank[s] < rank[n]
      BY <1>0, <1>3, <3>1
    <3> QED
      BY <1>6, <3>1, <3>2
  <2>2. {c[s] : s \in Into(n) \cap Settled} = {Count[s] : s \in Into(n) \cap Settled}
    BY <2>1
  <2> QED
    BY <1>5, <2>2 DEF DistOf
<1>7. \A n \in OpenWork : c[n] = Count[n]
  BY <1>3, <1>6, AgreeBelow
<1> QED
  BY <1>3, <1>7

(* the longest chains to n along settled nodes *)
Ended(n) == {c \in [1 .. Long(n) + 1 -> Node] :
               c[Long(n) + 1] = n /\ \A i \in 1 .. Long(n) : <<c[i], c[i + 1]>> \in SettledEdges}

(* A chain of k edges is a walk of k edges. *)
LEMMA ChainIsWalk ==
  ASSUME NEW E, NEW k \in Nat, NEW c \in [1 .. k + 1 -> Node],
         \A i \in 1 .. k : <<c[i], c[i + 1]>> \in E
  PROVE  [r \in 0 .. k |-> c[r + 1]] \in Walk(E, k)
<1> DEFINE w == [r \in 0 .. k |-> c[r + 1]]
<1>1. w \in [0 .. k -> Node]
  OBVIOUS
<1>2. ASSUME NEW r \in 0 .. k - 1 PROVE <<w[r], w[r + 1]>> \in E
  <2>1. w[r] = c[r + 1] /\ w[r + 1] = c[r + 1 + 1] /\ r + 1 \in 1 .. k
    OBVIOUS
  <2> QED
    BY <2>1
<1> QED
  BY <1>1, <1>2 DEF Walk

LEMMA EndedGrows ==
  ASSUME Whole, IsFiniteSet(Node), NEW n \in OpenWork, Long(n) # 0, NEW f,
         \A s \in OpenWork : Long(s) < Long(n) => f[s] = Ended(s)
  PROVE  Ended(n) = UNION {{Append(c, n) : c \in f[s]} :
                             s \in {m \in Into(n) \cap Settled : Long(m) + 1 = Long(n)}}
<1> DEFINE P == {m \in Into(n) \cap Settled : Long(m) + 1 = Long(n)}
           U == UNION {{Append(c, n) : c \in f[s]} : s \in P}
<1>1. PICK k \in Nat : Long(n) = k + 1 /\ Long(n) + 1 = k + 2
  <2>1. Long(n) \in Nat
    BY LongIs
  <2>2. Long(n) - 1 \in Nat /\ Long(n) = Long(n) - 1 + 1 /\ Long(n) + 1 = Long(n) - 1 + 2
    BY <2>1
  <2> QED
    BY <2>2
<1>2. n \in Node /\ OpenWork \subseteq Node
  BY BriefEdgesAre
<1>3. ASSUME NEW s \in P PROVE s \in OpenWork /\ Long(s) = k /\ f[s] = Ended(s) /\ <<s, n>> \in SettledEdges
  <2>1. s \in OpenWork /\ Long(s) \in Nat
    BY LongStep, LongIs
  <2>2. Long(s) = k /\ Long(s) < Long(n)
    BY <1>1, <2>1
  <2>3. <<s, n>> \in BriefEdges /\ <<s, n>>[1] = s /\ s \in Settled
    BY BriefEdgesAre
  <2> QED
    BY <2>1, <2>2, <2>3 DEF SettledEdges
<1>4. ASSUME NEW s \in P, NEW c \in f[s] PROVE Append(c, n) \in Ended(n)
  <2>1. c \in [1 .. k + 1 -> Node] /\ c[k + 1] = s /\ \A i \in 1 .. k : <<c[i], c[i + 1]>> \in SettledEdges
    <3>1. c \in Ended(s) /\ Long(s) = k
      BY <1>3, <1>4, Zenon
    <3> HIDE DEF P
    <3> QED
      BY <3>1 DEF Ended
  <2>2. c \in Seq(Node) /\ Len(c) = k + 1
    BY <2>1
  <2> DEFINE u == Append(c, n)
  <2>3. /\ u \in Seq(Node) /\ Len(u) = Len(c) + 1
        /\ \A i \in 1 .. Len(c) : u[i] = c[i]
        /\ u[Len(c) + 1] = n
    BY <1>2, <2>2, AppendIs, Zenon
  <2> HIDE DEF u
  <2>4. u \in Seq(Node) /\ Len(u) = k + 2 /\ (\A i \in 1 .. k + 1 : u[i] = c[i]) /\ u[k + 2] = n
    <3>1. k + 1 + 1 = k + 2
      OBVIOUS
    <3> QED
      BY <2>2, <2>3, <3>1
  <2>5. u \in [1 .. k + 2 -> Node]
    BY <2>4
  <2>6. ASSUME NEW i \in 1 .. k + 1 PROVE <<u[i], u[i + 1]>> \in SettledEdges
    <3>1. CASE i = k + 1
      <4>1. u[i] = s /\ u[i + 1] = n
        <5>1. i + 1 = k + 2
          BY <3>1
        <5> QED
          BY <2>1, <2>4, <3>1, <5>1
      <4> QED
        BY <1>3, <4>1
    <3>2. CASE i # k + 1
      <4>1. i \in 1 .. k /\ i + 1 \in 1 .. k + 1
        BY <3>2
      <4> QED
        BY <2>1, <2>4, <4>1
    <3> QED
      BY <3>1, <3>2
  <2>7. u \in Ended(n)
    BY <1>1, <2>4, <2>5, <2>6 DEF Ended
  <2> QED
    BY <2>7 DEF u
<1>5. ASSUME NEW c \in Ended(n) PROVE c \in U
  <2>1. c \in [1 .. k + 2 -> Node] /\ c[k + 2] = n /\ \A i \in 1 .. k + 1 : <<c[i], c[i + 1]>> \in SettledEdges
    BY <1>1 DEF Ended
  <2> DEFINE b == [i \in 1 .. k + 1 |-> c[i]]
             s == c[k + 1]
  <2>2. b \in [1 .. k + 1 -> Node] /\ b[k + 1] = s /\ \A i \in 1 .. k : <<b[i], b[i + 1]>> \in SettledEdges
    <3>1. \A i \in 1 .. k : i \in 1 .. k + 1 /\ i + 1 \in 1 .. k + 1
      OBVIOUS
    <3> QED
      BY <2>1, <3>1
  <2>3. <<s, n>> \in SettledEdges /\ s \in Node
    <3>1. k + 1 \in 1 .. k + 1 /\ k + 1 + 1 = k + 2
      OBVIOUS
    <3> QED
      BY <2>1, <3>1
  <2>4. s \in Into(n) \cap Settled
    <3>1. <<s, n>> \in BriefEdges /\ <<s, n>>[1] \in Settled
      BY <2>3 DEF SettledEdges
    <3>2. s \in Into(n)
      BY <3>1, BriefEdgesAre
    <3> QED
      BY <3>1, <3>2
  <2>5. s \in OpenWork /\ Long(s) + 1 <= Long(n)
    BY <2>4, LongStep
  <2>6. Walked(SettledEdges, b[1], s, k) /\ b[1] \in Node
    <3> DEFINE w == [r \in 0 .. k |-> b[r + 1]]
    <3> HIDE DEF b, s
    <3>1. w \in Walk(SettledEdges, k)
      BY <2>2, ChainIsWalk
    <3>2. w[0] = b[1] /\ w[k] = s
      BY <2>2
    <3>3. b[1] \in Node
      BY <2>2
    <3> HIDE DEF w
    <3> QED
      BY <3>1, <3>2, <3>3 DEF Walked
  <2> HIDE DEF b, s
  <2>7. Long(s) = k
    <3>1. k <= Long(s) /\ Long(s) \in Nat
      BY <2>5, <2>6, LongIs
    <3> QED
      BY <1>1, <2>5, <3>1
  <2>8. s \in P /\ b \in f[s]
    <3>1. s \in P /\ Long(s) < Long(n)
      BY <1>1, <2>4, <2>7
    <3>2. f[s] = Ended(s)
      BY <2>5, <3>1
    <3> QED
      BY <2>2, <2>7, <3>1, <3>2 DEF Ended
  <2>9. c = Append(b, n)
    <3>1. b \in Seq(Node) /\ Len(b) = k + 1
      BY <2>2
    <3> DEFINE u == Append(b, n)
    <3>2. /\ u \in Seq(Node) /\ Len(u) = Len(b) + 1
          /\ \A i \in 1 .. Len(b) : u[i] = b[i]
          /\ u[Len(b) + 1] = n
      BY <1>2, <3>1, AppendIs, Zenon
    <3> HIDE DEF u
    <3>3. u \in Seq(Node) /\ Len(u) = k + 2 /\ (\A i \in 1 .. k + 1 : u[i] = b[i]) /\ u[k + 2] = n
      <4>1. k + 1 + 1 = k + 2
        OBVIOUS
      <4> QED
        BY <3>1, <3>2, <4>1
    <3>4. u \in [1 .. k + 2 -> Node]
      BY <3>3
    <3>5. \A i \in 1 .. k + 2 : u[i] = c[i]
      <4> SUFFICES ASSUME NEW i \in 1 .. k + 2 PROVE u[i] = c[i]
        OBVIOUS
      <4>1. CASE i = k + 2
        BY <2>1, <3>3, <4>1
      <4>2. CASE i # k + 2
        <5>1. i \in 1 .. k + 1
          BY <4>2
        <5> QED
          BY <3>3, <5>1 DEF b
      <4> QED
        BY <4>1, <4>2
    <3>6. u = c
      BY <2>1, <3>4, <3>5
    <3> QED
      BY <3>6 DEF u
  <2> QED
    BY <2>8, <2>9
<1>6. ASSUME NEW c \in U PROVE c \in Ended(n)
  <2>1. PICK s \in P : c \in {Append(b, n) : b \in f[s]}
    OBVIOUS
  <2> QED
    BY <1>4, <2>1
<1> HIDE DEF U
<1>7. Ended(n) = U
  BY <1>5, <1>6
<1> QED
  BY <1>7 DEF U

LEMMA EndingIs ==
  ASSUME Whole, IsFiniteSet(Node)
  PROVE  \A n \in OpenWork : Ending[n] = Ended(n)
<1> DEFINE c    == [n \in OpenWork |-> Ended(n)]
           rank == [n \in OpenWork |-> Long(n)]
<1>0. \A n \in OpenWork : Long(n) \in Nat /\ Count[n] = 1 + Long(n) /\ n \in Node
  BY LongIs, CountIs, BriefEdgesAre
<1>1. ASSUME NEW n \in OpenWork, NEW f, \A s \in OpenWork : Long(s) < Long(n) => f[s] = Ended(s)
      PROVE  EndOf(n, f) = Ended(n)
  <2>1. CASE Long(n) = 0
    <3>1. EndOf(n, f) = {<<n>>}
      <4>1. Count[n] = 1
        BY <1>0, <2>1
      <4> QED
        BY <4>1 DEF EndOf
    <3>2. <<n>> \in Ended(n)
      <4>1. <<n>> \in [1 .. 1 -> Node] /\ <<n>>[1] = n /\ 0 + 1 = 1 /\ 1 .. 0 = {}
        BY <1>0
      <4> QED
        BY <2>1, <4>1 DEF Ended
    <3>3. ASSUME NEW e \in Ended(n) PROVE e = <<n>>
      <4>1. 0 + 1 = 1
        OBVIOUS
      <4>2. e \in [1 .. 1 -> Node] /\ e[1] = n
        BY <2>1, <4>1 DEF Ended
      <4> QED
        BY <4>2
    <3> QED
      BY <3>1, <3>2, <3>3
  <2>2. CASE Long(n) # 0
    <3>1. EndOf(n, f) = UNION {{Append(e, n) : e \in f[s]} :
                                 s \in {m \in Into(n) \cap Settled : Count[m] + 1 = Count[n]}}
      <4>1. Count[n] # 1
        BY <1>0, <2>2
      <4> QED
        BY <4>1 DEF EndOf
    <3>2. {m \in Into(n) \cap Settled : Count[m] + 1 = Count[n]} =
          {m \in Into(n) \cap Settled : Long(m) + 1 = Long(n)}
      <4>1. \A m \in Into(n) \cap Settled : Count[m] + 1 = Count[n] <=> Long(m) + 1 = Long(n)
        <5> SUFFICES ASSUME NEW m \in Into(n) \cap Settled
                     PROVE  Count[m] + 1 = Count[n] <=> Long(m) + 1 = Long(n)
          OBVIOUS
        <5>1. m \in OpenWork
          BY LongStep
        <5>2. Long(m) \in Nat /\ Count[m] = 1 + Long(m) /\ Long(n) \in Nat /\ Count[n] = 1 + Long(n)
          BY <1>0, <5>1
        <5> QED
          BY <5>2
      <4> QED
        BY <4>1
    <3>3. Ended(n) = UNION {{Append(e, n) : e \in f[s]} :
                              s \in {m \in Into(n) \cap Settled : Long(m) + 1 = Long(n)}}
      BY <1>1, <2>2, EndedGrows
    <3> QED
      BY <3>1, <3>2, <3>3
  <2> QED
    BY <2>1, <2>2
<1>2. Ends(c)
  <2>1. \A n \in OpenWork : EndOf(n, c) = Ended(n)
    <3> SUFFICES ASSUME NEW n \in OpenWork PROVE EndOf(n, c) = Ended(n)
      OBVIOUS
    <3>1. \A s \in OpenWork : c[s] = Ended(s)
      OBVIOUS
    <3> HIDE DEF c
    <3> QED
      BY <1>1, <3>1
  <2> QED
    BY <2>1 DEF Ends
<1>3. rank \in [OpenWork -> Nat] /\ \A n \in OpenWork : rank[n] = Long(n) /\ c[n] = Ended(n)
  BY <1>0
<1> HIDE DEF c, rank
<1>4. Ends(Ending)
  BY <1>2 DEF Ending
<1>5. \A n \in OpenWork : Ending[n] = EndOf(n, Ending)
  BY <1>4 DEF Ends
<1>6. ASSUME NEW n \in OpenWork, \A s \in OpenWork : rank[s] < rank[n] => c[s] = Ending[s]
      PROVE  c[n] = Ending[n]
  <2>1. \A s \in OpenWork : Long(s) < Long(n) => Ending[s] = Ended(s)
    BY <1>3, <1>6
  <2>2. EndOf(n, Ending) = Ended(n)
    BY <1>1, <2>1
  <2> QED
    BY <1>3, <1>5, <2>2
<1>7. \A n \in OpenWork : c[n] = Ending[n]
  BY <1>3, <1>6, AgreeBelow
<1> QED
  BY <1>3, <1>7

(* What a walk is, read off one edge at a time. *)
LEMMA WalkSteps ==
  ASSUME NEW E, NEW k, NEW w \in Walk(E, k)
  PROVE  \A i \in 0 .. k - 1 : <<w[i], w[i + 1]>> \in E
BY DEF Walk

(* A walk through a finite set, of as many edges as the set has members,   *)
(* goes round: some edge of it closes a cycle.                             *)
LEMMA LongWalkGoesRound ==
  ASSUME NEW E, Graph(E), NEW T, IsFiniteSet(T), NEW k \in Nat, Cardinality(T) <= k,
         NEW w \in Walk(E, k), \A i \in 0 .. Cardinality(T) : w[i] \in T
  PROVE  \E i \in 0 .. k - 1 : <<w[i], w[i + 1]>> \in E /\ Reach(E, w[i + 1], w[i])
<1> DEFINE N == Cardinality(T)
<1>1. N \in Nat /\ N <= k
  BY FS_CardinalityType
<1>2. \A i \in 0 .. k - 1 : <<w[i], w[i + 1]>> \in E
  BY WalkSteps
<1>3. PICK i \in 0 .. N, j \in 0 .. N : i < j /\ w[i] = w[j]
  <2>1. ASSUME \A i, j \in 0 .. N : i < j => w[i] # w[j] PROVE FALSE
    <3> DEFINE v == [i \in 0 .. N |-> w[i]]
    <3>1. v \in [0 .. N -> T]
      OBVIOUS
    <3>2. \A i, j \in 0 .. N : v[i] = v[j] => i = j
      <4> SUFFICES ASSUME NEW i \in 0 .. N, NEW j \in 0 .. N, i # j PROVE w[i] # w[j]
        OBVIOUS
      <4>1. i < j \/ j < i
        BY <1>1
      <4> QED
        BY <2>1, <4>1
    <3> HIDE DEF v
    <3>3. v \in Injection(0 .. N, T)
      BY <3>1, <3>2 DEF Injection, IsInjective
    <3>4. Cardinality(0 .. N) <= N
      BY <3>3, FS_Injection
    <3>5. Cardinality(0 .. N) = N - 0 + 1
      <4>1. 0 \in Int /\ N \in Int /\ ~(0 > N)
        BY <1>1
      <4> QED
        BY <4>1, FS_Interval
    <3> QED
      BY <1>1, <3>4, <3>5
  <2> QED
    BY <2>1
<1>4. /\ i \in 0 .. k - 1 /\ i + 1 \in 0 .. k /\ j \in i + 1 .. k /\ j \in 0 .. k
  BY <1>1, <1>3
<1>5. j - (i + 1) \in Nat /\ Walked(E, w[i + 1], w[j], j - (i + 1))
  BY <1>4, PartOfWalk
<1>6. w[i + 1] \in Node /\ w[j] \in Node
  BY <1>4 DEF Walk
<1>7. Reach(E, w[i + 1], w[j])
  BY <1>5, <1>6, ReachIsWalk
<1> QED
  BY <1>2, <1>3, <1>4, <1>7

(* Without cycles every open task settles: a walk of as many edges as      *)
(* there are open tasks would go round.                                    *)
LEMMA AllSettle ==
  ASSUME Whole, IsFiniteSet(Node), Acyclic(BriefEdges)
  PROVE  SettledEdges = BriefEdges
<1> DEFINE N == Cardinality(OpenWork)
<1>1. N \in Nat /\ Graph(BriefEdges) /\ IsFiniteSet(OpenWork) /\ N <= N
  BY BriefEdgesAre, FS_CardinalityType
<1>2. ASSUME NEW n \in OpenWork, NEW a \in Node, Walked(BriefEdges, a, n, N) PROVE FALSE
  <2> HIDE DEF N
  <2>1. PICK w \in Walk(BriefEdges, N) : w[0] = a /\ w[N] = n
    BY <1>2 DEF Walked
  <2>2. \A i \in 0 .. N - 1 : <<w[i], w[i + 1]>> \in BriefEdges
    BY WalkSteps
  <2>3. \A i \in 0 .. N : w[i] \in OpenWork
    <3> SUFFICES ASSUME NEW i \in 0 .. N PROVE w[i] \in OpenWork
      OBVIOUS
    <3>1. CASE i = N
      BY <2>1, <3>1
    <3>2. CASE i # N
      <4> DEFINE e == <<w[i], w[i + 1]>>
      <4>1. e \in BriefEdges /\ e[1] = w[i]
        BY <1>1, <2>2, <3>2
      <4> HIDE DEF e
      <4> QED
        BY <4>1, BriefEdgesAre
    <3> QED
      BY <3>1, <3>2
  <2>4. \A i \in 0 .. Cardinality(OpenWork) : w[i] \in OpenWork
    BY <2>3 DEF N
  <2>5. Cardinality(OpenWork) <= N
    BY <1>1 DEF N
  <2>6. PICK i \in 0 .. N - 1 : <<w[i], w[i + 1]>> \in BriefEdges /\ Reach(BriefEdges, w[i + 1], w[i])
    BY <1>1, <2>4, <2>5, LongWalkGoesRound
  <2> DEFINE e == <<w[i], w[i + 1]>>
  <2>7. e \in BriefEdges /\ Reach(BriefEdges, e[2], e[1])
    BY <2>6
  <2> HIDE DEF e
  <2> QED
    BY <2>7 DEF Acyclic
<1>3. \A n \in OpenWork : n \in Settled
  BY <1>2, SettledIs DEF Quiet
<1>4. \A e \in BriefEdges : e[1] \in OpenWork
  BY BriefEdgesAre
<1> QED
  BY <1>3, <1>4 DEF SettledEdges

(* A chain of blocking edges between open tasks is not longer than the     *)
(* longest walk to its end.                                                *)
LEMMA ChainIsShort ==
  ASSUME Whole, IsFiniteSet(Node), SettledEdges = BriefEdges, NEW o \in AllChains(BriefEdges)
  PROVE  \E m \in OpenWork : Len(o) <= Long(m) + 1
<1>0. Graph(BriefEdges) /\ Cardinality(Node) \in Nat
  BY BriefEdgesAre, FS_CardinalityType
<1>1. PICK e \in BriefEdges : \E k \in 0 .. Cardinality(Node) : o \in Trail(BriefEdges, e[1], k)
  BY <1>0, AllChainsAre
<1>2. PICK k \in 0 .. Cardinality(Node) : o \in Trail(BriefEdges, e[1], k)
  BY <1>1
<1>3. k \in Nat /\ e[1] \in OpenWork /\ e[1] \in Node
  BY BriefEdgesAre
<1>4. Len(o) = k + 1
  BY <1>2, <1>3, TrailSeq
<1> DEFINE m == o[k + 1]
<1>5. Walked(BriefEdges, e[1], m, k) /\ m \in Node
  BY <1>2, <1>3, TrailIsWalk DEF Trailed
<1>6. m \in OpenWork
  <2>1. CASE k = 0
    <3>1. Walked(BriefEdges, e[1], m, 0)
      BY <1>5, <2>1
    <3> QED
      BY <1>3, <3>1, NoStep
  <2>2. CASE k # 0
    <3>1. PICK l \in Nat : k = l + 1
      <4>1. k - 1 \in Nat /\ k = k - 1 + 1
        BY <1>3, <2>2
      <4> QED
        BY <4>1
    <3>2. PICK b \in Node : <<b, m>> \in BriefEdges
      <4>1. Walked(BriefEdges, e[1], m, l + 1)
        BY <1>5, <3>1
      <4> QED
        BY <1>0, <4>1, OneStepMore
    <3>3. <<b, m>>[2] \in OpenWork
      BY <3>2, BriefEdgesAre
    <3> QED
      BY <3>3
  <2> QED
    BY <2>1, <2>2
<1>7. k <= Long(m) /\ Long(m) \in Nat
  <2> HIDE DEF m
  <2> QED
    BY <1>3, <1>5, <1>6, LongIs
<1>8. Len(o) <= Long(m) + 1
  BY <1>3, <1>4, <1>7
<1> QED
  BY <1>6, <1>8

LEMMA EndedIsChain ==
  ASSUME Whole, IsFiniteSet(Node), NEW n \in OpenWork, NEW c \in Ended(n)
  PROVE  /\ c \in Seq(Node) /\ Len(c) = Long(n) + 1
         /\ IsInjective(c)
         /\ \A i \in 1 .. Len(c) - 1 : <<c[i], c[i + 1]>> \in BriefEdges
<1> DEFINE k == Long(n)
<1>1. k \in Nat
  BY LongIs
<1>2. c \in [1 .. k + 1 -> Node] /\ c[k + 1] = n /\ \A i \in 1 .. k : <<c[i], c[i + 1]>> \in SettledEdges
  BY DEF Ended
<1>3. \A l \in Nat, a \in Node : Walked(SettledEdges, a, n, l) => l <= k
  BY LongIs
<1> HIDE DEF k
<1>4. c \in Seq(Node) /\ Len(c) = k + 1
  BY <1>1, <1>2
<1>5. ASSUME NEW i \in 1 .. k + 1, NEW j \in 1 .. k + 1, i < j, c[i] = c[j] PROVE FALSE
  <2> DEFINE w == [r \in 0 .. k |-> c[r + 1]]
  <2>1. w \in Walk(SettledEdges, k)
    BY <1>1, <1>2, ChainIsWalk
  <2>2. w[i - 1] = c[i] /\ w[j - 1] = c[j] /\ w[k] = n /\ i - 1 \in 0 .. k /\ j - 1 \in 0 .. k /\ i - 1 < j - 1
    BY <1>1, <1>2, <1>5
  <2>3. w[0] \in Node
    BY <1>1, <1>2
  <2> HIDE DEF w
  <2>4. w[i - 1] = w[j - 1]
    BY <1>5, <2>2
  <2>5. \E l \in Nat : l > k /\ Walked(SettledEdges, w[0], w[k], l)
    BY <1>1, <2>1, <2>2, <2>4, GoRound
  <2>6. PICK l \in Nat : l > k /\ Walked(SettledEdges, w[0], n, l)
    BY <2>2, <2>5
  <2>7. l <= k
    BY <1>3, <2>3, <2>6
  <2> QED
    BY <1>1, <2>6, <2>7
<1>6. IsInjective(c)
  <2> SUFFICES ASSUME NEW i \in 1 .. k + 1, NEW j \in 1 .. k + 1, c[i] = c[j], i # j PROVE FALSE
    BY <1>2 DEF IsInjective
  <2>1. i < j \/ j < i
    BY <1>1
  <2> QED
    BY <1>5, <2>1
<1>7. \A i \in 1 .. Len(c) - 1 : <<c[i], c[i + 1]>> \in BriefEdges
  <2>1. Len(c) - 1 = k
    BY <1>1, <1>4
  <2> QED
    BY <1>2, <2>1 DEF SettledEdges
<1> QED
  BY <1>4, <1>6, <1>7 DEF k

LEMMA BriefedIsTrue ==
  ASSUME Whole, IsFiniteSet(Node)
  PROVE  BriefedChainTrue
<1> DEFINE Longest == {l \in OpenWork : \A m \in OpenWork : Count[m] <= Count[l]}
<1> SUFFICES ASSUME NEW c \in BriefedChains(plan)
             PROVE  /\ IsInjective(c)
                    /\ \A i \in 1 .. Len(c) - 1 : <<c[i], c[i + 1]>> \in BriefEdges
                    /\ Acyclic(BriefEdges) =>
                         /\ BriefEdges # {} => c # <<>>
                         /\ \A o \in AllChains(BriefEdges) : Len(o) <= Len(c)
  BY Zenon DEF BriefedChainTrue, BriefEdges
<1>0. \A n \in OpenWork : Count[n] = 1 + Long(n) /\ Ending[n] = Ended(n) /\ Long(n) \in Nat
  BY CountIs, EndingIs, LongIs
<1>1. CASE \A n \in OpenWork : Count[n] = 1
  <2>1. c = <<>>
    BY <1>1, BriefedIs
  <2>2. ASSUME Acyclic(BriefEdges), NEW e \in BriefEdges PROVE FALSE
    <3>1. e = <<e[1], e[2]>> /\ e[1] \in OpenWork /\ e[2] \in OpenWork
      BY BriefEdgesAre
    <3>2. e[1] \in Into(e[2])
      BY <3>1, BriefEdgesAre
    <3>3. e[1] \in Settled
      BY <2>2, AllSettle DEF SettledEdges
    <3>4. Long(e[1]) + 1 <= Long(e[2])
      BY <3>1, <3>2, <3>3, LongStep
    <3>5. Count[e[2]] = 1
      BY <1>1, <3>1
    <3> QED
      BY <1>0, <3>1, <3>4, <3>5
  <2>3. ASSUME BriefEdges = {}, NEW o \in AllChains(BriefEdges) PROVE FALSE
    BY <2>3, BriefEdgesAre, AllChainsAre
  <2>4. IsInjective(c) /\ Len(c) = 0
    BY <2>1 DEF IsInjective
  <2>5. 1 .. Len(c) - 1 = {}
    BY <2>4
  <2>6. Acyclic(BriefEdges) => BriefEdges = {}
    BY <2>2
  <2> QED
    BY <2>3, <2>4, <2>5, <2>6
<1>2. CASE ~\A n \in OpenWork : Count[n] = 1
  <2>1. PICK n \in Longest : c \in Ending[n]
    BY <1>2, BriefedIs
  <2>2. n \in OpenWork /\ c \in Ended(n) /\ \A m \in OpenWork : Long(m) <= Long(n)
    <3>1. n \in OpenWork /\ \A m \in OpenWork : Count[m] <= Count[n]
      OBVIOUS
    <3>2. \A m \in OpenWork : Long(m) <= Long(n)
      <4> SUFFICES ASSUME NEW m \in OpenWork PROVE Long(m) <= Long(n)
        OBVIOUS
      <4>1. Count[m] <= Count[n] /\ Count[m] = 1 + Long(m) /\ Count[n] = 1 + Long(n)
            /\ Long(m) \in Nat /\ Long(n) \in Nat
        BY <1>0, <3>1
      <4> QED
        BY <4>1
    <3> QED
      BY <1>0, <2>1, <3>1, <3>2
  <2>3. /\ c \in Seq(Node) /\ Len(c) = Long(n) + 1 /\ IsInjective(c)
        /\ \A i \in 1 .. Len(c) - 1 : <<c[i], c[i + 1]>> \in BriefEdges
    BY <2>2, EndedIsChain
  <2>4. c # <<>>
    <3>1. Len(c) # 0
      BY <1>0, <2>2, <2>3
    <3> QED
      BY <3>1
  <2>5. ASSUME Acyclic(BriefEdges), NEW o \in AllChains(BriefEdges) PROVE Len(o) <= Len(c)
    <3>1. PICK m \in OpenWork : Len(o) <= Long(m) + 1
      BY <2>5, AllSettle, ChainIsShort
    <3>2. Long(m) <= Long(n) /\ Long(m) \in Nat /\ Long(n) \in Nat
      BY <1>0, <2>2
    <3>3. Len(o) \in Nat
      <4>1. PICK e \in BriefEdges : \E k \in 0 .. Cardinality(Node) : o \in Trail(BriefEdges, e[1], k)
        BY BriefEdgesAre, AllChainsAre
      <4>2. PICK k \in 0 .. Cardinality(Node) : o \in Trail(BriefEdges, e[1], k)
        BY <4>1
      <4> QED
        BY <4>2, TrailSeq
    <3> QED
      BY <2>3, <3>1, <3>2, <3>3
  <2> QED
    BY <2>3, <2>4, <2>5
<1> QED
  BY <1>1, <1>2

(* getCriticalPath of dependencies.dal.mjs and computeCriticalPath of      *)
(* goals.routes.js answer with a longest chain, and the second with a      *)
(* chain without repetition whatever cycles there are: in every plan of    *)
(* any number of nodes whose edges weigh the same and whose root blocks    *)
(* nothing.                                                                *)
THEOREM CriticalPathsAreExact ==
  ASSUME Whole, IsFiniteSet(Node)
  PROVE  CriticalExact
  BY CriticalIsLongest, BriefedIsTrue DEF CriticalExact

-----------------------------------------------------------------------------
(* LayersExact. Proof that the schedule is layered. What Kahn's algorithm  *)
(* has taken out after so many rounds is what no walk of as many edges     *)
(* leads to; the degrees it counts down are the edges that leave the rest. *)
Scheduled ==
  /\ Whole /\ IsFiniteSet(plan.deps)
  /\ \A d \in plan.deps : d.type \in Blocking \cup {"relates_to"}

Before(n) == {e[1] : e \in {f \in BlocksIn : f[2] = n}}

LEMMA BlocksInAre ==
  ASSUME Scheduled, IsFiniteSet(Node)
  PROVE  /\ Graph(BlocksIn)
         /\ OpenWork \subseteq Node /\ IsFiniteSet(OpenWork) /\ IsFiniteSet(ScheduleDeps(plan))
         /\ \A e \in BlocksIn : e = <<e[1], e[2]>> /\ e[1] \in OpenWork /\ e[2] \in OpenWork
         /\ \A d \in ScheduleDeps(plan) : d.source \in OpenWork /\ d.target \in OpenWork
         /\ \A s, n : <<s, n>> \in BlocksIn <=>
                        \E d \in ScheduleDeps(plan) : d.source = s /\ d.target = n
<1>1. OpenWork \subseteq ToSet(plan.rows)
  BY DEF OpenWork, Open, Work
<1>2. OpenWork \subseteq Node
  BY <1>1 DEF Whole, Scheduled
<1>3. \A d : d \in ScheduleDeps(plan) <=>
        d \in plan.deps /\ d.type # "relates_to" /\ d.source \in OpenWork /\ d.target \in OpenWork
  <2>1. \A d \in plan.deps : d.type # "relates_to" <=> d.type \in Blocking
    BY DEF Scheduled, Blocking
  <2>2. \A d : d \in ScheduleDeps(plan) <=>
          d \in PlanDeps(plan) /\ d.type \in Blocking /\ d.source \in OpenWork /\ d.target \in OpenWork
    BY DEF ScheduleDeps, OpenWork
  <2> QED
    BY <1>1, <2>1, <2>2 DEF PlanDeps
<1>4. \A e \in BlocksIn : e = <<e[1], e[2]>> /\ e[1] \in OpenWork /\ e[2] \in OpenWork
  BY DEF BlocksIn, Pairs
<1>5. ASSUME NEW s, NEW n
      PROVE  <<s, n>> \in BlocksIn <=> \E d \in ScheduleDeps(plan) : d.source = s /\ d.target = n
  <2>1. ASSUME NEW d \in ScheduleDeps(plan), d.source = s, d.target = n PROVE <<s, n>> \in BlocksIn
    BY <1>3, <2>1 DEF BlocksIn, Pairs
  <2>2. ASSUME <<s, n>> \in BlocksIn
        PROVE  \E d \in ScheduleDeps(plan) : d.source = s /\ d.target = n
    <3>1. PICK d \in plan.deps : d.type # "relates_to" /\ <<s, n>> = <<d.source, d.target>>
      BY <2>2 DEF BlocksIn, Pairs
    <3>2. s \in OpenWork /\ n \in OpenWork
      <4> DEFINE e == <<s, n>>
      <4>1. e[1] \in OpenWork /\ e[2] \in OpenWork
        BY <1>4, <2>2
      <4> QED
        BY <4>1
    <3> QED
      BY <1>3, <3>1, <3>2
  <2> QED
    BY <2>1, <2>2
<1>6. IsFiniteSet(OpenWork) /\ IsFiniteSet(ScheduleDeps(plan))
  <2>1. ScheduleDeps(plan) \subseteq plan.deps
    BY <1>3
  <2> QED
    BY <1>2, <2>1, FS_Subset DEF Scheduled
<1>7. Graph(BlocksIn)
  BY <1>2, <1>4 DEF Graph
<1> QED
  BY <1>2, <1>3, <1>4, <1>5, <1>6, <1>7

(* what no walk of k edges leads to *)
Still(k) == {n \in OpenWork : \A a \in Node : ~Walked(BlocksIn, a, n, k)}

LEMMA StillGrows ==
  ASSUME Scheduled, IsFiniteSet(Node), NEW k \in Nat
  PROVE  /\ Still(0) = {}
         /\ \A n \in OpenWork : n \in Still(k + 1) <=> \A s : <<s, n>> \in BlocksIn => s \in Still(k)
<1>1. Still(0) = {}
  <2> SUFFICES ASSUME NEW n \in OpenWork PROVE \E a \in Node : Walked(BlocksIn, a, n, 0)
    BY DEF Still
  <2>1. n \in Node
    BY BlocksInAre
  <2>2. Walked(BlocksIn, n, n, 0)
    BY <2>1, NoStep
  <2> QED
    BY <2>1, <2>2
<1>2. Graph(BlocksIn)
  BY BlocksInAre
<1>3. ASSUME NEW n \in OpenWork, n \in Still(k + 1), NEW s, <<s, n>> \in BlocksIn PROVE s \in Still(k)
  <2>1. s \in OpenWork /\ s \in Node
    <3>1. <<s, n>>[1] \in OpenWork
      BY <1>3, BlocksInAre
    <3> QED
      BY <3>1, BlocksInAre
  <2>2. ASSUME NEW a \in Node, Walked(BlocksIn, a, s, k) PROVE FALSE
    <3>1. Walked(BlocksIn, a, n, k + 1)
      BY <1>2, <1>3, <2>1, <2>2, OneStepMore
    <3> QED
      BY <1>3, <3>1 DEF Still
  <2> QED
    BY <2>1, <2>2 DEF Still
<1>4. ASSUME NEW n \in OpenWork, \A s : <<s, n>> \in BlocksIn => s \in Still(k), NEW a \in Node,
             Walked(BlocksIn, a, n, k + 1)
      PROVE  FALSE
  <2>1. PICK b \in Node : Walked(BlocksIn, a, b, k) /\ <<b, n>> \in BlocksIn
    BY <1>2, <1>4, OneStepMore
  <2>2. b \in Still(k)
    BY <1>4, <2>1
  <2> QED
    BY <2>1, <2>2 DEF Still
<1>5. \A n \in OpenWork : n \in Still(k + 1) <=> \A s : <<s, n>> \in BlocksIn => s \in Still(k)
  <2>1. \A n \in OpenWork : (\A s : <<s, n>> \in BlocksIn => s \in Still(k)) => n \in Still(k + 1)
    BY <1>4 DEF Still
  <2> QED
    BY <1>3, <2>1
<1> QED
  BY <1>1, <1>5

(* A longer walk ends with a shorter one. *)
LEMMA StillStays ==
  ASSUME Scheduled, IsFiniteSet(Node), NEW k \in Nat, NEW l \in Nat, k <= l
  PROVE  Still(k) \subseteq Still(l)
<1> SUFFICES ASSUME NEW n \in Still(k), NEW a \in Node, NEW w \in Walk(BlocksIn, l),
                    w[0] = a, w[l] = n
             PROVE  FALSE
  BY DEF Still, Walked
<1> DEFINE i == l - k
<1>1. i \in 0 .. l /\ l \in i .. l /\ l - i = k
  OBVIOUS
<1> HIDE DEF i
<1>2. Walked(BlocksIn, w[i], w[l], l - i)
  BY <1>1, PartOfWalk
<1>3. w[i] \in Node
  BY <1>1 DEF Walk
<1>4. Walked(BlocksIn, w[i], n, k)
  BY <1>1, <1>2
<1> QED
  BY <1>3, <1>4 DEF Still

(* the edges to t that leave what is not in Still(k) *)
Left(k, t) == {d \in ScheduleDeps(plan) : d.source \notin Still(k) /\ d.target = t}

LEMMA NoneLeft ==
  ASSUME Scheduled, IsFiniteSet(Node), NEW k \in Nat, NEW t \in OpenWork
  PROVE  /\ IsFiniteSet(Left(k, t)) /\ Cardinality(Left(k, t)) \in Nat
         /\ Cardinality(Left(k, t)) = 0 <=> t \in Still(k + 1)
<1>1. IsFiniteSet(Left(k, t))
  <2>1. Left(k, t) \subseteq ScheduleDeps(plan)
    BY DEF Left
  <2> QED
    BY <2>1, BlocksInAre, FS_Subset
<1>2. Cardinality(Left(k, t)) \in Nat /\ (Cardinality(Left(k, t)) = 0 <=> Left(k, t) = {})
  BY <1>1, FS_CardinalityType, FS_EmptySet
<1>3. Left(k, t) = {} <=> \A s : <<s, t>> \in BlocksIn => s \in Still(k)
  <2>1. ASSUME Left(k, t) = {}, NEW s, <<s, t>> \in BlocksIn PROVE s \in Still(k)
    <3>1. PICK d \in ScheduleDeps(plan) : d.source = s /\ d.target = t
      BY <2>1, BlocksInAre
    <3> QED
      BY <2>1, <3>1 DEF Left
  <2>2. ASSUME \A s : <<s, t>> \in BlocksIn => s \in Still(k), NEW d \in Left(k, t) PROVE FALSE
    <3>1. d \in ScheduleDeps(plan) /\ d.source \notin Still(k) /\ d.target = t
      BY DEF Left
    <3>2. <<d.source, t>> \in BlocksIn
      BY <3>1, BlocksInAre
    <3> QED
      BY <2>2, <3>1, <3>2
  <2> QED
    BY <2>1, <2>2
<1> QED
  BY <1>1, <1>2, <1>3, StillGrows

(* the queue and the degrees of a round, from those of the round before *)
IntoOf(S, t) == Cardinality({d \in ScheduleDeps(plan) : d.source \in S /\ d.target = t})
FirstDegree  == [t \in OpenWork |-> IntoOf(Node, t)]
NextDegree(q) == [t \in OpenWork |-> q.degree[t] - IntoOf(q.queue, t)]
RoundOf(k, f) ==
  IF k = 0 THEN [queue |-> {t \in OpenWork : FirstDegree[t] = 0}, degree |-> FirstDegree]
  ELSE [queue |-> {t \in OpenWork : NextDegree(f[k - 1])[t] = 0 /\ f[k - 1].degree[t] # 0},
        degree |-> NextDegree(f[k - 1])]
Rounds(f) == f = [k \in Nat |-> RoundOf(k, f)]

LEMMA LayersAre ==
  Layers(plan) = [k \in 0 .. Cardinality(OpenWork) |-> (CHOOSE f : Rounds(f))[k].queue]
  BY DEF Layers, Rounds, RoundOf, FirstDegree, NextDegree, IntoOf, OpenWork

Closing(k) == [queue |-> Still(k + 1) \ Still(k),
               degree |-> [t \in OpenWork |-> Cardinality(Left(k, t))]]

LEMMA FirstRound ==
  ASSUME Scheduled, IsFiniteSet(Node), NEW f
  PROVE  RoundOf(0, f) = Closing(0)
<1>1. ASSUME NEW t \in OpenWork PROVE FirstDegree[t] = Cardinality(Left(0, t))
  <2>1. {d \in ScheduleDeps(plan) : d.source \in Node /\ d.target = t} = Left(0, t)
    BY BlocksInAre, StillGrows DEF Left
  <2> QED
    BY <2>1 DEF FirstDegree, IntoOf
<1>2. FirstDegree = [t \in OpenWork |-> Cardinality(Left(0, t))]
  BY <1>1 DEF FirstDegree
<1>3. \A t \in OpenWork : FirstDegree[t] = 0 <=> t \in Still(0 + 1)
  BY <1>1, NoneLeft
<1>4. {t \in OpenWork : FirstDegree[t] = 0} = Still(0 + 1) \ Still(0)
  BY <1>3, StillGrows DEF Still
<1> QED
  BY <1>2, <1>4 DEF RoundOf, Closing

LEMMA NextRound ==
  ASSUME Scheduled, IsFiniteSet(Node), NEW k \in Nat, NEW f, f[k] = Closing(k)
  PROVE  RoundOf(k + 1, f) = Closing(k + 1)
<1> DEFINE q == f[k]
<1>1. q.queue = Still(k + 1) \ Still(k) /\ \A t \in OpenWork : q.degree[t] = Cardinality(Left(k, t))
  BY DEF Closing
<1>2. ASSUME NEW t \in OpenWork PROVE NextDegree(q)[t] = Cardinality(Left(k + 1, t))
  <2> DEFINE A == Left(k, t)
             B == {d \in ScheduleDeps(plan) : d.source \in q.queue /\ d.target = t}
  <2>1. Still(k) \subseteq Still(k + 1)
    BY StillStays
  <2>2. B \subseteq A /\ A \ B = Left(k + 1, t)
    BY <1>1, <2>1 DEF Left
  <2>3. IsFiniteSet(A)
    BY NoneLeft
  <2>4. NextDegree(q)[t] = Cardinality(A) - Cardinality(B)
    BY <1>1 DEF NextDegree, IntoOf
  <2> HIDE DEF A, B
  <2>5. A \cap B = B /\ IsFiniteSet(A \cap B)
    BY <2>2, <2>3, FS_Subset
  <2>6. Cardinality(A \ B) = Cardinality(A) - Cardinality(A \cap B)
    BY <2>3, FS_Difference
  <2> QED
    BY <2>2, <2>4, <2>5, <2>6
<1>3. NextDegree(q) = [t \in OpenWork |-> Cardinality(Left(k + 1, t))]
  BY <1>2 DEF NextDegree
<1>4. \A t \in OpenWork : /\ NextDegree(q)[t] = 0 <=> t \in Still(k + 1 + 1)
                          /\ q.degree[t] # 0 <=> t \notin Still(k + 1)
  BY <1>1, <1>2, NoneLeft
<1>5. {t \in OpenWork : NextDegree(q)[t] = 0 /\ q.degree[t] # 0} = Still(k + 1 + 1) \ Still(k + 1)
  <2>1. Still(k + 1 + 1) \subseteq OpenWork
    BY DEF Still
  <2> QED
    BY <1>4, <2>1
<1>6. k + 1 # 0 /\ k + 1 - 1 = k
  OBVIOUS
<1>7. RoundOf(k + 1, f) =
        [queue |-> {t \in OpenWork : NextDegree(q)[t] = 0 /\ q.degree[t] # 0}, degree |-> NextDegree(q)]
  BY <1>6 DEF RoundOf
<1> HIDE DEF q
<1> QED
  BY <1>3, <1>5, <1>7 DEF Closing

(* A layer is what becomes free when the walks grow by one edge. *)
LEMMA LayerIs ==
  ASSUME Scheduled, IsFiniteSet(Node)
  PROVE  /\ DOMAIN Layers(plan) = 0 .. Cardinality(OpenWork)
         /\ \A k \in 0 .. Cardinality(OpenWork) : Layers(plan)[k] = Still(k + 1) \ Still(k)
<1> DEFINE c == [k \in Nat |-> Closing(k)]
           round == CHOOSE f : Rounds(f)
<1>1. ASSUME NEW k \in Nat, NEW f, k = 0 \/ f[k - 1] = c[k - 1] PROVE c[k] = RoundOf(k, f)
  <2>1. CASE k = 0
    BY <2>1, FirstRound
  <2>2. CASE k # 0
    <3>1. PICK j \in Nat : k = j + 1 /\ j = k - 1
      BY <2>2
    <3>2. f[j] = Closing(j)
      BY <1>1, <2>2, <3>1
    <3>3. RoundOf(j + 1, f) = Closing(j + 1)
      BY <3>2, NextRound
    <3> QED
      BY <3>1, <3>3
  <2> QED
    BY <2>1, <2>2
<1>2. Rounds(c)
  <2>1. \A k \in Nat : c[k] = RoundOf(k, c)
    BY <1>1
  <2> QED
    BY <2>1 DEF Rounds
<1> HIDE DEF c
<1>3. Rounds(round)
  BY <1>2
<1> HIDE DEF round
<1>4. \A k \in Nat : round[k] = RoundOf(k, round)
  BY <1>3 DEF Rounds
<1>5. FollowOn(Nat, 0, c, round)
  <2>1. Nat \subseteq Nat /\ \A k \in Nat : k = 0 \/ k - 1 \in Nat
    OBVIOUS
  <2>2. \A k \in Nat : (k = 0 \/ c[k - 1] = round[k - 1]) => c[k] = round[k]
    BY <1>1, <1>4
  <2> QED
    BY <2>1, <2>2 DEF FollowOn
<1>6. \A k \in Nat : round[k] = Closing(k)
  BY <1>5, Agree DEF c
<1>7. Layers(plan) = [k \in 0 .. Cardinality(OpenWork) |-> round[k].queue]
  BY LayersAre DEF round
<1>8. Cardinality(OpenWork) \in Nat
  BY BlocksInAre, FS_CardinalityType
<1>9. ASSUME NEW k \in Nat PROVE round[k].queue = Still(k + 1) \ Still(k)
  <2>1. Closing(k).queue = Still(k + 1) \ Still(k)
    BY DEF Closing
  <2> QED
    BY <1>6, <2>1
<1> HIDE DEF round
<1>10. \A k \in 0 .. Cardinality(OpenWork) : k \in Nat
  BY <1>8
<1>11. \A k \in 0 .. Cardinality(OpenWork) : Layers(plan)[k] = round[k].queue
  BY <1>7
<1> QED
  BY <1>7, <1>9, <1>10, <1>11

(* What is reached from e[2] is reached from e[1]. *)
LEMMA ReachOver ==
  ASSUME NEW E, NEW e \in E, NEW b, Reach(E, e[2], b)
  PROVE  Reach(E, e[1], b)
  BY DEF Reach, Closed

(* the tasks on a cycle or behind one *)
Tangled == {t \in OpenWork : \E e \in BlocksIn : Reach(BlocksIn, e[2], e[1]) /\ Reach(BlocksIn, e[1], t)}

(* Something tangled waits for something tangled. *)
LEMMA TangledWaits ==
  ASSUME Scheduled, IsFiniteSet(Node), NEW t \in Tangled
  PROVE  \E b \in Tangled : <<b, t>> \in BlocksIn
<1> DEFINE E == BlocksIn
<1>1. Graph(E) /\ OpenWork \subseteq Node /\ t \in OpenWork
      /\ \A e \in E : e = <<e[1], e[2]>> /\ e[1] \in OpenWork /\ e[2] \in OpenWork
  BY BlocksInAre DEF Tangled
<1> HIDE DEF E
<1>2. PICK e \in E : Reach(E, e[2], e[1]) /\ Reach(E, e[1], t)
  BY DEF Tangled, E
<1>3. \A b : Reach(E, e[1], b) /\ <<b, t>> \in E => b \in Tangled
  <2> SUFFICES ASSUME NEW b, Reach(E, e[1], b), <<b, t>> \in E PROVE b \in Tangled
    OBVIOUS
  <2>1. b \in OpenWork
    <3>1. <<b, t>>[1] \in OpenWork
      BY <1>1
    <3> QED
      BY <3>1
  <2> QED
    BY <1>2, <2>1 DEF Tangled, E
<1>4. ASSUME NEW a \in Node, NEW k \in Nat, k # 0, Walked(E, a, t, k)
      PROVE  \E b \in Node : Reach(E, a, b) /\ <<b, t>> \in E
  <2>1. PICK l \in Nat : k = l + 1
    <3>1. k - 1 \in Nat /\ k = k - 1 + 1
      BY <1>4
    <3> QED
      BY <3>1
  <2>2. PICK b \in Node : Walked(E, a, b, l) /\ <<b, t>> \in E
    BY <1>1, <1>4, <2>1, OneStepMore
  <2> QED
    BY <1>1, <2>2, ReachIsWalk
<1>5. e[1] \in Node /\ e[2] \in Node /\ t \in Node
  BY <1>1
<1>6. PICK k \in Nat : Walked(E, e[1], t, k)
  BY <1>1, <1>2, <1>5, ReachIsWalk
<1>7. CASE k # 0
  BY <1>3, <1>4, <1>5, <1>6, <1>7 DEF E
<1>8. CASE k = 0
  <2>1. e[1] = t
    BY <1>5, <1>6, <1>8, NoStep
  <2>2. PICK l \in Nat : Walked(E, e[2], t, l)
    BY <1>1, <1>2, <1>5, <2>1, ReachIsWalk
  <2>3. CASE l # 0
    <3>1. PICK b \in Node : Reach(E, e[2], b) /\ <<b, t>> \in E
      BY <1>4, <1>5, <2>2, <2>3
    <3> QED
      BY <1>3, <3>1, ReachOver DEF E
  <2>4. CASE l = 0
    <3>1. e[2] = t
      BY <1>5, <2>2, <2>4, NoStep
    <3>2. <<t, t>> \in E
      BY <1>1, <2>1, <3>1
    <3>3. Reach(E, e[1], t)
      BY <1>2
    <3> QED
      BY <1>3, <3>2, <3>3 DEF E
  <2> QED
    BY <2>3, <2>4
<1> QED
  BY <1>7, <1>8

(* The tasks that are never taken out are the tangled ones. *)
LEMMA StillIs ==
  ASSUME Scheduled, IsFiniteSet(Node)
  PROVE  Still(Cardinality(OpenWork) + 1) = OpenWork \ Tangled
<1> DEFINE N == Cardinality(OpenWork)
<1>1. N \in Nat /\ N + 1 \in Nat /\ Graph(BlocksIn) /\ IsFiniteSet(OpenWork)
  BY BlocksInAre, FS_CardinalityType
<1>2. ASSUME NEW t \in OpenWork \ Still(N + 1) PROVE t \in Tangled
  <2>1. PICK a \in Node : Walked(BlocksIn, a, t, N + 1)
    BY DEF Still
  <2>2. PICK w \in Walk(BlocksIn, N + 1) : w[0] = a /\ w[N + 1] = t
    BY <2>1 DEF Walked
  <2>3. \A i \in 0 .. N : w[i] \in OpenWork /\ w[i] \in Node
    <3> SUFFICES ASSUME NEW i \in 0 .. N PROVE w[i] \in OpenWork
      BY BlocksInAre
    <3> DEFINE e == <<w[i], w[i + 1]>>
    <3>1. i \in 0 .. N + 1 - 1
      BY <1>1
    <3>2. \A j \in 0 .. N + 1 - 1 : <<w[j], w[j + 1]>> \in BlocksIn
      <4> DEFINE M == N + 1
      <4>1. w \in Walk(BlocksIn, M)
        OBVIOUS
      <4> HIDE DEF M, N
      <4>2. \A j \in 0 .. M - 1 : <<w[j], w[j + 1]>> \in BlocksIn
        BY <4>1, WalkSteps
      <4>3. M - 1 = N + 1 - 1
        BY <1>1 DEF M
      <4> QED
        BY <4>2, <4>3
    <3>3. e \in BlocksIn
      BY <3>1, <3>2
    <3>4. e[1] = w[i]
      OBVIOUS
    <3> HIDE DEF e
    <3> QED
      BY <3>3, <3>4, BlocksInAre
  <2>4. N <= N + 1 /\ N + 1 - 1 = N
    BY <1>1
  <2>5. PICK i \in 0 .. N : <<w[i], w[i + 1]>> \in BlocksIn /\ Reach(BlocksIn, w[i + 1], w[i])
    <3>1. \A i \in 0 .. Cardinality(OpenWork) : w[i] \in OpenWork
      BY <2>3
    <3>2. Cardinality(OpenWork) <= N + 1
      BY <2>4
    <3> HIDE DEF N
    <3>3. \E i \in 0 .. N + 1 - 1 : <<w[i], w[i + 1]>> \in BlocksIn /\ Reach(BlocksIn, w[i + 1], w[i])
      BY <1>1, <3>1, <3>2, LongWalkGoesRound
    <3> QED
      BY <2>4, <3>3
  <2>6. i \in 0 .. N + 1 /\ N + 1 \in i .. N + 1 /\ i \in Nat
    BY <1>1
  <2>7. N + 1 - i \in Nat /\ Walked(BlocksIn, w[i], w[N + 1], N + 1 - i)
    BY <1>1, <2>6, PartOfWalk
  <2>8. t \in Node
    BY BlocksInAre
  <2>9. Reach(BlocksIn, w[i], t)
    BY <1>1, <2>2, <2>3, <2>7, <2>8, ReachIsWalk
  <2> DEFINE e == <<w[i], w[i + 1]>>
  <2>10. e \in BlocksIn /\ Reach(BlocksIn, e[2], e[1]) /\ Reach(BlocksIn, e[1], t)
    BY <2>5, <2>9
  <2> HIDE DEF e
  <2> QED
    BY <2>10 DEF Tangled
<1>3. ASSUME NEW t \in Tangled, NEW k \in Nat PROVE t \notin Still(k)
  <2> DEFINE K == {l \in Nat : \E b \in Tangled : b \in Still(l)}
  <2>1. ASSUME K # {} PROVE FALSE
    <3>1. PICK l \in K : \A m \in K : l <= m
      BY <2>1, SmallestNat
    <3>2. PICK b \in Tangled : b \in Still(l)
      OBVIOUS
    <3>3. l # 0
      BY <3>2, StillGrows
    <3>4. PICK m \in Nat : l = m + 1
      <4>1. l - 1 \in Nat /\ l = l - 1 + 1
        BY <3>3
      <4> QED
        BY <4>1
    <3>5. PICK a \in Tangled : <<a, b>> \in BlocksIn
      BY <3>2, TangledWaits
    <3>6. a \in Still(m)
      BY <3>2, <3>4, <3>5, StillGrows DEF Tangled
    <3>7. m \in K /\ m < l
      BY <3>4, <3>6
    <3> QED
      BY <3>1, <3>7
  <2> QED
    BY <2>1
<1>4. Still(N + 1) \subseteq OpenWork
  BY DEF Still
<1>5. \A t \in Still(N + 1) : t \notin Tangled
  BY <1>1, <1>3
<1> QED
  BY <1>2, <1>4, <1>5

(* topologicalSort of reasoning.js schedules every open task that waits    *)
(* for no cycle, once, in the layer after the last of its open blockers:   *)
(* in every plan of any number of nodes, with any edges.                   *)
THEOREM ScheduleIsExact ==
  ASSUME Scheduled, IsFiniteSet(Node)
  PROVE  LayersExact
<1> DEFINE layers == Layers(plan)
           N == Cardinality(OpenWork)
           listed == UNION {layers[k] : k \in DOMAIN layers}
           layer == [t \in listed |-> CHOOSE k \in DOMAIN layers : t \in layers[k]]
           cyclic == {e \in BlocksIn : Reach(BlocksIn, e[2], e[1])}
           At(k) == Still(k + 1) \ Still(k)
<1>1. N \in Nat
  BY BlocksInAre, FS_CardinalityType
<1>2. DOMAIN layers = 0 .. N /\ \A k \in 0 .. N : layers[k] = At(k)
  BY LayerIs
<1> HIDE DEF layers, N
<1>3. \A k, l \in Nat : k <= l => Still(k) \subseteq Still(l)
  BY StillStays
<1>4. Still(0) = {}
  BY StillGrows
<1>5. \A n, k : n \in Still(k) => n \in OpenWork
  BY DEF Still
<1>6. ASSUME NEW n \in Still(N + 1) PROVE \E k \in 0 .. N : n \in At(k)
  <2> DEFINE K == {k \in Nat : n \in Still(k)}
  <2>1. N + 1 \in K
    BY <1>1
  <2>2. PICK k \in K : \A l \in K : k <= l
    BY <2>1, SmallestNat
  <2>3. k # 0 /\ k <= N + 1
    BY <1>4, <2>1, <2>2
  <2>4. k - 1 \in Nat /\ k - 1 \in 0 .. N /\ k - 1 + 1 = k
    BY <1>1, <2>3
  <2>5. k - 1 \notin K
    BY <2>2, <2>4
  <2>6. n \in At(k - 1)
    BY <2>4, <2>5
  <2> QED
    BY <2>4, <2>6
<1>7. \A n : n \in listed <=> n \in Still(N + 1)
  <2>1. ASSUME NEW n \in listed PROVE n \in Still(N + 1)
    <3>1. PICK k \in 0 .. N : n \in At(k)
      BY <1>2
    <3>2. k + 1 \in Nat /\ k + 1 <= N + 1 /\ N + 1 \in Nat
      BY <1>1
    <3>3. Still(k + 1) \subseteq Still(N + 1)
      BY <1>3, <3>2
    <3> QED
      BY <3>1, <3>3
  <2>2. ASSUME NEW n \in Still(N + 1) PROVE n \in listed
    <3>1. PICK k \in 0 .. N : n \in At(k)
      BY <1>6
    <3> QED
      BY <1>2, <3>1
  <2> QED
    BY <2>1, <2>2
<1>8. listed = {t \in OpenWork : \A e \in cyclic : ~Reach(BlocksIn, e[1], t)}
  <2>1. Still(N + 1) = OpenWork \ Tangled
    BY StillIs DEF N
  <2>2. \A t \in OpenWork : t \in Tangled <=> \E e \in cyclic : Reach(BlocksIn, e[1], t)
    BY DEF Tangled
  <2> HIDE DEF listed, cyclic
  <2> QED
    BY <1>7, <2>1, <2>2
<1>9. \A k, l \in 0 .. N : k < l => At(k) \cap At(l) = {}
  <2> SUFFICES ASSUME NEW k \in 0 .. N, NEW l \in 0 .. N, k < l PROVE At(k) \cap At(l) = {}
    OBVIOUS
  <2>1. k + 1 \in Nat /\ l \in Nat /\ k + 1 <= l
    BY <1>1
  <2>2. Still(k + 1) \subseteq Still(l)
    BY <1>3, <2>1
  <2> QED
    BY <2>2
<1>10. \A k, l \in 0 .. N : k # l => At(k) \cap At(l) = {}
  <2> SUFFICES ASSUME NEW k \in 0 .. N, NEW l \in 0 .. N, k # l PROVE At(k) \cap At(l) = {}
    OBVIOUS
  <2>1. k < l \/ l < k
    BY <1>1
  <2> QED
    BY <1>9, <2>1
<1> HIDE DEF At
<1>11. \A k, l \in DOMAIN layers : k # l => layers[k] \cap layers[l] = {}
  BY <1>2, <1>10
<1>12. ASSUME NEW t \in listed
       PROVE  layer[t] \in 0 .. N /\ t \in At(layer[t]) /\ \A k \in 0 .. N : t \in At(k) => layer[t] = k
  <2>1. \E k \in DOMAIN layers : t \in layers[k]
    OBVIOUS
  <2>2. layer[t] \in DOMAIN layers /\ t \in layers[layer[t]]
    BY <2>1
  <2> HIDE DEF layer, listed
  <2>3. layer[t] \in 0 .. N /\ t \in At(layer[t])
    BY <1>2, <2>2
  <2> QED
    BY <1>10, <2>3
<1>13. ASSUME NEW t \in listed, NEW b, <<b, t>> \in BlocksIn
       PROVE  b \in Still(layer[t]) /\ b \in listed /\ layer[b] < layer[t]
  <2>1. PICK l \in 0 .. N : l = layer[t] /\ t \in At(l)
    BY <1>12
  <2>2. l \in Nat /\ N + 1 \in Nat /\ l <= N + 1
    BY <1>1
  <2>3. t \in Still(l + 1) /\ t \in OpenWork
    BY <1>5, <2>1 DEF At
  <2>4. b \in Still(l)
    BY <1>13, <2>2, <2>3, StillGrows
  <2>5. b \in listed
    BY <1>3, <1>7, <2>2, <2>4
  <2> HIDE DEF listed, layer
  <2>6. PICK k \in 0 .. N : k = layer[b] /\ b \in At(k)
    BY <1>12, <2>5
  <2>7. k \in Nat /\ b \notin Still(k)
    BY <1>1, <2>6 DEF At
  <2>8. ~(l <= k)
    BY <1>3, <2>2, <2>4, <2>7
  <2> QED
    BY <2>1, <2>2, <2>4, <2>5, <2>6, <2>7, <2>8
<1>14. ASSUME NEW t \in listed, layer[t] > 0
       PROVE  \E b : <<b, t>> \in BlocksIn /\ layer[b] = layer[t] - 1
  <2>1. PICK l \in 0 .. N : l = layer[t] /\ t \in At(l)
    BY <1>12
  <2> HIDE DEF listed, layer
  <2>2. PICK m \in 0 .. N : l = m + 1 /\ m = l - 1
    <3>1. l > 0
      BY <1>14, <2>1
    <3>2. l - 1 \in 0 .. N /\ l = l - 1 + 1
      BY <1>1, <3>1
    <3> QED
      BY <3>2
  <2>3. t \notin Still(m + 1) /\ t \in OpenWork
    BY <1>5, <2>1, <2>2 DEF At
  <2>4. PICK b : <<b, t>> \in BlocksIn /\ b \notin Still(m)
    BY <1>1, <2>3, StillGrows
  <2>5. b \in Still(m + 1) /\ b \in listed
    BY <1>13, <2>1, <2>2, <2>4
  <2>6. b \in At(m)
    BY <2>4, <2>5 DEF At
  <2>7. layer[b] = m
    BY <1>12, <2>5, <2>6
  <2> QED
    BY <2>1, <2>2, <2>4, <2>7
<1>15. ASSUME NEW t \in listed
       PROVE  LET before == {e[1] : e \in {f \in BlocksIn : f[2] = t}}
              IN  /\ \A b \in before : layer[b] < layer[t]
                  /\ layer[t] > 0 => \E b \in before : layer[b] = layer[t] - 1
  <2> DEFINE before == {e[1] : e \in {f \in BlocksIn : f[2] = t}}
  <2> HIDE DEF layer, listed
  <2>1. \A b : b \in before <=> <<b, t>> \in BlocksIn
    <3>1. ASSUME NEW b \in before PROVE <<b, t>> \in BlocksIn
      <4>1. PICK e \in BlocksIn : e[2] = t /\ b = e[1]
        OBVIOUS
      <4>2. e = <<e[1], e[2]>>
        BY BlocksInAre
      <4> QED
        BY <4>1, <4>2
    <3>2. ASSUME NEW b, <<b, t>> \in BlocksIn PROVE b \in before
      <4> DEFINE e == <<b, t>>
      <4>1. e \in BlocksIn /\ e[1] = b /\ e[2] = t
        BY <3>2
      <4> HIDE DEF e
      <4> QED
        BY <4>1
    <3> QED
      BY <3>1, <3>2
  <2> HIDE DEF before
  <2>2. \A b \in before : layer[b] < layer[t]
    BY <1>13, <2>1
  <2>3. layer[t] > 0 => \E b \in before : layer[b] = layer[t] - 1
    BY <1>14, <2>1
  <2> QED
    BY <2>2, <2>3 DEF before
<1> QED
  BY <1>8, <1>11, <1>15 DEF LayersExact, layers

-----------------------------------------------------------------------------
(* What the rollup of a plan says. A quotient lies between two multiples   *)
(* of the divisor.                                                         *)
LEMMA DivBounds ==
  ASSUME NEW a \in Nat, NEW b \in Nat \ {0}
  PROVE  /\ a \div b \in Nat
         /\ (a \div b) * b <= a
         /\ a < (a \div b) * b + b
  OBVIOUS

(* Multiplying keeps the order. *)
LEMMA TimesMono ==
  ASSUME NEW z \in Nat, NEW y \in Nat, NEW m \in Nat, z <= y
  PROVE  z * m <= y * m
<1>1. PICK d \in Nat : y = z + d
  <2>1. y - z \in Nat /\ y = z + (y - z)
    OBVIOUS
  <2> QED
    BY <2>1
<1>2. y * m = z * m + d * m /\ d * m \in Nat /\ z * m \in Nat
  BY <1>1
<1> QED
  BY <1>2

(* All of it is 100%, however much there is. *)
LEMMA AllIsHundred ==
  ASSUME NEW n \in Nat \ {0}
  PROVE  Percent(n, n) = 100
<1> DEFINE q == (200 * n + n) \div (2 * n)
<1>1. Percent(n, n) = q
  BY DEF Percent
<1>2. 200 * n + n \in Nat /\ 2 * n \in Nat \ {0}
  OBVIOUS
<1>3. /\ q \in Nat
      /\ q * (2 * n) <= 200 * n + n
      /\ 200 * n + n < q * (2 * n) + 2 * n
  BY <1>2, DivBounds
<1> HIDE DEF q
<1>4. q * (2 * n) <= 201 * n /\ 201 * n < q * (2 * n) + 2 * n
  BY <1>3
<1>5. CASE q <= 99
  <2>1. q * (2 * n) <= 99 * (2 * n)
    BY <1>3, <1>5, TimesMono
  <2>2. PICK p \in Nat : p = q * (2 * n)
    BY <1>3
  <2> QED
    BY <1>4, <2>1, <2>2
<1>6. CASE q >= 101
  <2>1. 101 * (2 * n) <= q * (2 * n)
    BY <1>3, <1>6, TimesMono
  <2>2. PICK p \in Nat : p = q * (2 * n)
    BY <1>3
  <2> QED
    BY <1>4, <2>1, <2>2
<1> QED
  BY <1>1, <1>3, <1>5, <1>6

(* As long as a plan has fewer than 200 work nodes its progress reads 100% *)
(* exactly when all of them are completed, which is what                   *)
(* maintainPlanStatus takes it for. (From 200 on one open task can round   *)
(* up to 100%.)                                                            *)
LEMMA HundredMeansDone ==
  ASSUME NEW n \in 1 .. 199, NEW k \in 0 .. n
  PROVE  Percent(k, n) = 100 <=> k = n
<1> DEFINE q == (200 * k + n) \div (2 * n)
<1>1. Percent(k, n) = q
  BY DEF Percent
<1>2. 200 * k + n \in Nat /\ 2 * n \in Nat \ {0}
  OBVIOUS
<1>3. /\ q \in Nat
      /\ q * (2 * n) <= 200 * k + n
      /\ 200 * k + n < q * (2 * n) + 2 * n
  BY <1>2, DivBounds
<1> HIDE DEF q
<1>4. ASSUME q = 100 PROVE k = n
  <2>1. 200 * n <= 200 * k + n
    BY <1>3, <1>4
  <2> QED
    BY <2>1
<1>5. ASSUME k = n PROVE q = 100
  BY <1>1, <1>5, AllIsHundred
<1> QED
  BY <1>1, <1>4, <1>5

(* So for such a plan maintainPlanStatus judges rightly whether the work   *)
(* is done, whatever its nodes are.                                        *)
LEMMA CompleteMeansDone ==
  ASSUME NEW rows, NEW kind, NEW standing,
         IsFiniteSet(WorkNodes(rows, kind)),
         Cardinality(WorkNodes(rows, kind)) < 200
  PROVE  IsComplete(rows, kind, standing) <=>
           /\ WorkNodes(rows, kind) # {}
           /\ \A n \in WorkNodes(rows, kind) : standing[n] = "completed"
<1> DEFINE W == WorkNodes(rows, kind)
           C == Completed(rows, kind, standing)
<1>1. C \subseteq W /\ (C = W <=> \A n \in W : standing[n] = "completed")
  BY DEF Completed
<1> HIDE DEF W, C
<1>2. IsComplete(rows, kind, standing) <=>
        W # {} /\ Percent(Cardinality(C), Cardinality(W)) = 100
  BY DEF IsComplete, ProgressPct, W, C
<1>3. CASE W = {}
  BY <1>2, <1>3 DEF W
<1>4. CASE W # {}
  <2>1. IsFiniteSet(W) /\ Cardinality(W) < 200
    BY DEF W
  <2>2. /\ Cardinality(W) \in Nat /\ Cardinality(C) \in Nat
        /\ Cardinality(C) <= Cardinality(W)
        /\ Cardinality(C) = Cardinality(W) <=> C = W
    BY <1>1, <2>1, FS_Subset, FS_CardinalityType
  <2>3. Cardinality(W) # 0
    BY <1>4, <2>1, FS_EmptySet
  <2>4. Cardinality(W) \in 1 .. 199 /\ Cardinality(C) \in 0 .. Cardinality(W)
    BY <2>1, <2>2, <2>3
  <2>5. Percent(Cardinality(C), Cardinality(W)) = 100 <=> C = W
    BY <2>2, <2>4, HundredMeansDone
  <2> QED
    BY <1>1, <1>2, <1>4, <2>5 DEF W
<1> QED
  BY <1>3, <1>4

-----------------------------------------------------------------------------
(* RollupTruthful. Proof that the tree, the page and the list of plans     *)
(* tell one story, for every plan whose work nodes have no sub-tasks.      *)
(* summarize has a closed form: what the work below a node says. It is     *)
(* shown to satisfy the recursion, which has one solution only, since of   *)
(* two solutions the last node on which they differ could not differ.      *)
Planned ==
  /\ type \in [Nodes -> WorkTypes \cup ContainerTypes]
  /\ \A n \in Nodes : type[n] = "root" <=> n = 1
  /\ parent \in [Nodes -> 0 .. Size]
  /\ \A n \in Nodes : IF n = 1 THEN parent[n] = 0
                      ELSE parent[n] \in 1 .. n - 1 /\ type[parent[n]] \in Inner

(* Sizes and types for which the page is right *)
Ranges == Size \in Nat \ {0} /\ Inner \subseteq ContainerTypes

FromParents(S) == \A c \in Nodes : parent[c] \in S => c \in S
Under(n, m) == \A S \in SUBSET Nodes : n \in S /\ FromParents(S) => m \in S

LEMMA UnderSelf == \A n \in Nodes : Under(n, n)
  BY DEF Under

LEMMA UnderChild ==
  ASSUME NEW c \in Nodes, NEW m \in Nodes, Under(c, m)
  PROVE  Under(parent[c], m)
  BY DEF Under, FromParents

LEMMA ChildIsLater ==
  ASSUME Ranges, Planned, NEW c \in Nodes, parent[c] \in Nodes
  PROVE  c \in Nat /\ parent[c] \in Nat /\ parent[c] < c /\ type[parent[c]] \in ContainerTypes
  BY DEF Ranges, Planned, Nodes

LEMMA UnderIsLater ==
  ASSUME Ranges, Planned, NEW n \in Nodes, NEW m \in Nodes, Under(n, m)
  PROVE  n <= m
<1> DEFINE S == {z \in Nodes : n <= z}
<1>1. \A c \in Nodes : parent[c] \in S => c \in S
  <2> SUFFICES ASSUME NEW c \in Nodes, parent[c] \in S PROVE n <= c
    OBVIOUS
  <2>1. parent[c] < c /\ c \in Nat /\ parent[c] \in Nat /\ n <= parent[c]
    BY ChildIsLater
  <2> QED
    BY <2>1 DEF Nodes, Ranges
<1>2. n \in S
  BY DEF Nodes, Ranges
<1> QED
  BY <1>1, <1>2 DEF Under, FromParents

(* What is under a node is it, or under one of its children. *)
LEMMA UnderFirst ==
  ASSUME NEW n \in Nodes, NEW m \in Nodes, Under(n, m), m # n
  PROVE  \E c \in Nodes : parent[c] = n /\ Under(c, m)
<1> DEFINE S == {n} \cup {z \in Nodes : \E c \in Nodes : parent[c] = n /\ Under(c, z)}
<1>1. \A d \in Nodes : parent[d] \in S => d \in S
  <2> SUFFICES ASSUME NEW d \in Nodes, parent[d] \in S
               PROVE  \E c \in Nodes : parent[c] = n /\ Under(c, d)
    OBVIOUS
  <2>1. CASE parent[d] = n
    BY <2>1, UnderSelf
  <2>2. CASE \E c \in Nodes : parent[c] = n /\ Under(c, parent[d])
    BY <2>2 DEF Under, FromParents
  <2> QED
    BY <2>1, <2>2
<1>2. S \subseteq Nodes /\ n \in S
  OBVIOUS
<1>3. m \in S
  BY <1>1, <1>2 DEF Under, FromParents
<1> QED
  BY <1>3

LEMMA BelowIs ==
  ASSUME Ranges, Planned, NEW n \in Nodes
  PROVE  Below(n) = {m \in Nodes : \E c \in Nodes : parent[c] = n /\ Under(c, m)}
<1>1. \A m \in Nodes : m \in Below(n) <=> m # n /\ Under(n, m)
  BY DEF Below, Under, FromParents
<1>2. ASSUME NEW m \in Nodes, NEW c \in Nodes, parent[c] = n, Under(c, m)
      PROVE  m # n /\ Under(n, m)
  BY <1>2, UnderChild, UnderIsLater, ChildIsLater DEF Nodes, Ranges
<1>3. Below(n) \subseteq Nodes
  BY DEF Below
<1> QED
  BY <1>1, <1>2, <1>3, UnderFirst

(* Work nodes have nothing below them. *)
LEMMA WorkIsLeaf ==
  ASSUME Ranges, Planned, NEW c \in Nodes, type[c] \in WorkTypes, NEW m \in Nodes, Under(c, m)
  PROVE  m = c
<1>1. \A d \in Nodes : parent[d] # c
  BY ChildIsLater DEF WorkTypes, ContainerTypes
<1>2. FromParents({c})
  BY <1>1 DEF FromParents
<1> QED
  BY <1>2 DEF Under

(* The work below a node is its work, and the work below its containers. *)
LEMMA WorkBelowIs ==
  ASSUME Ranges, Planned, NEW n \in Nodes, NEW m
  PROVE  m \in WorkBelow(n) <=>
           \E c \in Nodes : /\ parent[c] = n
                            /\ \/ type[c] \in WorkTypes /\ m = c
                               \/ type[c] \in ContainerTypes /\ m \in WorkBelow(c)
<1>1. ASSUME m \in WorkBelow(n)
      PROVE  \E c \in Nodes : /\ parent[c] = n
                              /\ \/ type[c] \in WorkTypes /\ m = c
                                 \/ type[c] \in ContainerTypes /\ m \in WorkBelow(c)
  <2>1. m \in Below(n) /\ m \in Nodes /\ type[m] \in WorkTypes
    BY <1>1 DEF WorkBelow, WorkNodes, Below
  <2>2. PICK c \in Nodes : parent[c] = n /\ Under(c, m)
    BY <2>1, BelowIs
  <2>3. CASE type[c] \in WorkTypes
    BY <2>1, <2>2, <2>3, WorkIsLeaf
  <2>4. CASE type[c] \in ContainerTypes
    <3>1. m # c
      BY <2>1, <2>4 DEF WorkTypes, ContainerTypes
    <3>2. m \in Below(c)
      BY <2>1, <2>2, <3>1 DEF Below, Under, FromParents
    <3> QED
      BY <2>1, <2>2, <2>4, <3>2 DEF WorkBelow, WorkNodes
  <2> QED
    BY <2>3, <2>4 DEF Planned
<1>2. ASSUME NEW c \in Nodes, parent[c] = n, type[c] \in WorkTypes, m = c
      PROVE  m \in WorkBelow(n)
  <2>1. m \in Below(n)
    BY <1>2, BelowIs, UnderSelf
  <2> QED
    BY <1>2, <2>1 DEF WorkBelow, WorkNodes
<1>3. ASSUME NEW c \in Nodes, parent[c] = n, m \in WorkBelow(c)
      PROVE  m \in WorkBelow(n)
  <2>1. m \in Below(c) /\ m \in Nodes /\ type[m] \in WorkTypes
    BY <1>3 DEF WorkBelow, WorkNodes, Below
  <2>2. Under(c, m)
    BY <2>1 DEF Below, Under, FromParents
  <2>3. m \in Below(n)
    BY <1>3, <2>1, <2>2, BelowIs
  <2> QED
    BY <2>1, <2>3 DEF WorkBelow, WorkNodes
<1> QED
  BY <1>1, <1>2, <1>3

-----------------------------------------------------------------------------
(* The body of summarize, as an operator on what it computes for the rest. *)
KidsOf(n, T)  == {c \in Nodes : parent[c] = n /\ type[c] \in T}
InnerOf(n, f) == {c \in KidsOf(n, ContainerTypes) : f[c].hasWork}
SummaryOf(n, f) ==
  [hasWork |-> KidsOf(n, WorkTypes) # {} \/ InnerOf(n, f) # {},
   allDone |-> /\ \A c \in KidsOf(n, WorkTypes) : status[c] = "completed"
               /\ \A c \in InnerOf(n, f) : f[c].allDone]
Solves(f) == f = [n \in Nodes |-> SummaryOf(n, f)]

LEMMA SummaryIsSolution == Summary(Nodes, type, parent, status) = CHOOSE f : Solves(f)
  BY DEF Summary, Solves, SummaryOf, InnerOf, KidsOf

ByWork == [n \in Nodes |-> [hasWork |-> WorkBelow(n) # {},
                            allDone |-> \A m \in WorkBelow(n) : status[m] = "completed"]]

LEMMA ByWorkSolves ==
  ASSUME Ranges, Planned
  PROVE  Solves(ByWork)
<1> SUFFICES ASSUME NEW n \in Nodes PROVE ByWork[n] = SummaryOf(n, ByWork)
  BY DEF Solves, ByWork
<1>1. \A c \in Nodes : c \in InnerOf(n, ByWork) <=>
        parent[c] = n /\ type[c] \in ContainerTypes /\ WorkBelow(c) # {}
  BY DEF InnerOf, KidsOf, ByWork
<1>2. WorkBelow(n) # {} <=> KidsOf(n, WorkTypes) # {} \/ InnerOf(n, ByWork) # {}
  <2>1. ASSUME NEW m \in WorkBelow(n)
        PROVE  KidsOf(n, WorkTypes) # {} \/ InnerOf(n, ByWork) # {}
    BY <1>1, WorkBelowIs DEF KidsOf
  <2>2. ASSUME NEW c \in KidsOf(n, WorkTypes) PROVE c \in WorkBelow(n)
    BY WorkBelowIs DEF KidsOf
  <2>3. ASSUME NEW c \in InnerOf(n, ByWork) PROVE WorkBelow(n) # {}
    <3>1. c \in Nodes /\ parent[c] = n /\ type[c] \in ContainerTypes
      BY DEF InnerOf, KidsOf
    <3>2. PICK m : m \in WorkBelow(c)
      BY <1>1, <3>1
    <3> QED
      BY <3>1, <3>2, WorkBelowIs
  <2> QED
    BY <2>1, <2>2, <2>3
<1>3. (\A m \in WorkBelow(n) : status[m] = "completed") <=>
        /\ \A c \in KidsOf(n, WorkTypes) : status[c] = "completed"
        /\ \A c \in InnerOf(n, ByWork) : ByWork[c].allDone
  <2>1. ASSUME \A m \in WorkBelow(n) : status[m] = "completed", NEW c \in KidsOf(n, WorkTypes)
        PROVE  status[c] = "completed"
    BY <2>1, WorkBelowIs DEF KidsOf
  <2>2. ASSUME \A m \in WorkBelow(n) : status[m] = "completed", NEW c \in InnerOf(n, ByWork)
        PROVE  ByWork[c].allDone
    <3>1. c \in Nodes /\ parent[c] = n /\ type[c] \in ContainerTypes
      BY DEF InnerOf, KidsOf
    <3>2. \A m \in WorkBelow(c) : m \in WorkBelow(n)
      BY <3>1, WorkBelowIs
    <3> QED
      BY <2>2, <3>1, <3>2 DEF ByWork
  <2>3. ASSUME \A c \in KidsOf(n, WorkTypes) : status[c] = "completed",
               \A c \in InnerOf(n, ByWork) : ByWork[c].allDone,
               NEW m \in WorkBelow(n)
        PROVE  status[m] = "completed"
    <3>1. PICK c \in Nodes : /\ parent[c] = n
                             /\ \/ type[c] \in WorkTypes /\ m = c
                                \/ type[c] \in ContainerTypes /\ m \in WorkBelow(c)
      BY WorkBelowIs
    <3>2. CASE type[c] \in WorkTypes /\ m = c
      BY <2>3, <3>1, <3>2 DEF KidsOf
    <3>3. CASE type[c] \in ContainerTypes /\ m \in WorkBelow(c)
      <4>1. c \in InnerOf(n, ByWork)
        BY <1>1, <3>1, <3>3
      <4>2. ByWork[c].allDone
        BY <2>3, <4>1
      <4> QED
        BY <3>3, <4>2 DEF ByWork
    <3> QED
      BY <3>1, <3>2, <3>3
  <2> QED
    BY <2>1, <2>2, <2>3
<1>4. ByWork[n] = [hasWork |-> WorkBelow(n) # {},
                   allDone |-> \A m \in WorkBelow(n) : status[m] = "completed"]
  BY DEF ByWork
<1>5. SummaryOf(n, ByWork) =
        [hasWork |-> KidsOf(n, WorkTypes) # {} \/ InnerOf(n, ByWork) # {},
         allDone |-> /\ \A c \in KidsOf(n, WorkTypes) : status[c] = "completed"
                     /\ \A c \in InnerOf(n, ByWork) : ByWork[c].allDone]
  BY DEF SummaryOf
<1> QED
  BY <1>2, <1>3, <1>4, <1>5

(* The recursion has one solution. *)
LEMMA OneSolution ==
  ASSUME Ranges, Planned, NEW f, Solves(f), NEW h, Solves(h)
  PROVE  f = h
<1> DEFINE D == {n \in Nodes : f[n] # h[n]}
           T == {Size - n : n \in D}
<1>1. \A n \in Nodes : n \in 1 .. Size /\ n \in Nat /\ Size - n \in Nat
  BY DEF Nodes, Ranges
<1>2. ASSUME D # {} PROVE FALSE
  <2>1. T \subseteq Nat /\ T # {}
    BY <1>1, <1>2
  <2>2. PICK z \in T : \A y \in T : z <= y
    BY <2>1, SmallestNat
  <2>3. PICK n \in D : z = Size - n
    OBVIOUS
  <2>4. \A c \in Nodes : parent[c] = n => f[c] = h[c]
    <3> SUFFICES ASSUME NEW c \in Nodes, parent[c] = n, c \in D PROVE FALSE
      OBVIOUS
    <3>1. n < c
      BY ChildIsLater
    <3>2. Size - c \in T
      OBVIOUS
    <3>3. Size - n <= Size - c
      BY <2>2, <2>3, <3>2
    <3> QED
      BY <1>1, <3>1, <3>3 DEF Ranges
  <2>5. InnerOf(n, f) = InnerOf(n, h)
    BY <2>4 DEF InnerOf, KidsOf
  <2>6. \A c \in InnerOf(n, h) : f[c] = h[c]
    BY <2>4 DEF InnerOf, KidsOf
  <2>7. SummaryOf(n, f) = SummaryOf(n, h)
    <3>1. (\A c \in InnerOf(n, f) : f[c].allDone) <=> \A c \in InnerOf(n, h) : h[c].allDone
      BY <2>5, <2>6
    <3> QED
      BY <2>5, <3>1 DEF SummaryOf
  <2> QED
    BY <2>7 DEF Solves
<1>3. f = [n \in Nodes |-> f[n]] /\ h = [n \in Nodes |-> h[n]]
  BY DEF Solves
<1> QED
  BY <1>2, <1>3

LEMMA SummaryIsByWork ==
  ASSUME Ranges, Planned
  PROVE  Summary(Nodes, type, parent, status) = ByWork
<1>1. Solves(CHOOSE f : Solves(f))
  BY ByWorkSolves
<1> QED
  BY <1>1, SummaryIsSolution, ByWorkSolves, OneSolution

LEMMA ContainersAreTruthful ==
  ASSUME Ranges, Planned
  PROVE  ContainersTruthful
<1> DEFINE s == Summary(Nodes, type, parent, status)
<1>1. s = ByWork
  BY SummaryIsByWork
<1>2. DoneContainers(Nodes, type, parent, status) =
        {n \in Nodes : type[n] \in ContainerTypes /\ s[n].hasWork /\ s[n].allDone}
  BY DEF DoneContainers
<1> HIDE DEF s
<1>3. \A n \in Nodes : /\ s[n].hasWork <=> WorkBelow(n) # {}
                       /\ s[n].allDone <=> \A m \in WorkBelow(n) : status[m] = "completed"
  BY <1>1 DEF ByWork
<1> QED
  BY <1>2, <1>3 DEF ContainersTruthful

(* The root is above everything. *)
LEMMA AllBelowRoot ==
  ASSUME Ranges, Planned
  PROVE  Below(1) = Nodes \ {1}
<1> SUFFICES ASSUME NEW m \in Nodes, NEW S \in SUBSET Nodes, 1 \in S,
                    \A c \in Nodes : parent[c] \in S => c \in S
             PROVE  m \in S
  BY DEF Below
<1> DEFINE T == Nodes \ S
<1>1. ASSUME T # {} PROVE FALSE
  <2>1. T \subseteq Nat
    BY DEF Nodes
  <2>2. PICK z \in T : \A y \in T : z <= y
    BY <1>1, <2>1, SmallestNat
  <2>3. z # 1 /\ parent[z] \in 1 .. z - 1
    BY DEF Planned
  <2>4. parent[z] \in Nodes /\ parent[z] < z
    BY <2>3 DEF Nodes, Ranges
  <2>5. parent[z] \notin T
    BY <2>1, <2>2, <2>4 DEF Nodes
  <2> QED
    BY <2>4, <2>5
<1> QED
  BY <1>1

LEMMA RootIsTruthful ==
  ASSUME Ranges, Planned, Size <= 200
  PROVE  RootMatchesProgress
<1>1. 1 \in Nodes /\ type[1] = "root" /\ 1 \notin WorkNodes(Nodes, type)
  BY DEF Nodes, Ranges, Planned, WorkNodes, WorkTypes
<1>2. WorkBelow(1) = WorkNodes(Nodes, type)
  BY <1>1, AllBelowRoot DEF WorkBelow, WorkNodes
<1>3. 1 \in DoneContainers(Nodes, type, parent, status) <=>
        /\ WorkNodes(Nodes, type) # {}
        /\ \A n \in WorkNodes(Nodes, type) : status[n] = "completed"
  BY <1>1, <1>2, ContainersAreTruthful DEF ContainersTruthful, ContainerTypes
<1>4. IsFiniteSet(2 .. Size) /\ Cardinality(2 .. Size) < 200
  <2>1. CASE Size = 1
    <3>1. 2 .. Size = {}
      BY <2>1
    <3>2. IsFiniteSet({}) /\ Cardinality({}) = 0
      BY FS_EmptySet
    <3>3. 0 < 200
      OBVIOUS
    <3> QED
      BY <3>1, <3>2, <3>3
  <2>2. CASE Size >= 2
    <3>1. IsFiniteSet(2 .. Size) /\ Cardinality(2 .. Size) = Size - 2 + 1
      BY <2>2, FS_Interval DEF Ranges
    <3> QED
      BY <3>1 DEF Ranges
  <2> QED
    BY <2>1, <2>2 DEF Ranges
<1>5. WorkNodes(Nodes, type) \subseteq 2 .. Size
  BY <1>1 DEF WorkNodes, Nodes, Ranges
<1>6. IsFiniteSet(WorkNodes(Nodes, type)) /\ Cardinality(WorkNodes(Nodes, type)) < 200
  <2>1. /\ IsFiniteSet(WorkNodes(Nodes, type))
        /\ Cardinality(WorkNodes(Nodes, type)) <= Cardinality(2 .. Size)
    BY <1>4, <1>5, FS_Subset
  <2> QED
    BY <1>4, <2>1, FS_CardinalityType
<1>7. IsComplete(Nodes, type, status) <=>
        /\ WorkNodes(Nodes, type) # {}
        /\ \A n \in WorkNodes(Nodes, type) : status[n] = "completed"
  BY <1>6, CompleteMeansDone
<1>8. WorkNodes(Nodes, type) = {} => ProgressPct(Nodes, type, status) = 0
  BY FS_EmptySet DEF ProgressPct, Percent
<1> QED
  BY <1>3, <1>7, <1>8 DEF RootMatchesProgress, IsComplete

LEMMA ListsMatch == ListMatchesDetail
<1>1. ListedCounts(Nodes, type, status)["completed"] = Cardinality(Completed(Nodes, type, status))
  BY DEF ListedCounts, Completed, CountedStatuses
<1>2. ASSUME NEW s \in CountedStatuses \ {"not_started"}
      PROVE  ListedCounts(Nodes, type, status)[s] = StatusCounts(Nodes, type, status)[s]
  <2>1. {n \in WorkNodes(Nodes, type) : status[n] = s} =
        {n \in WorkNodes(Nodes, type) :
           status[n] = s \/ (s = "not_started" /\ status[n] \notin CountedStatuses)}
    OBVIOUS
  <2> QED
    BY <2>1 DEF ListedCounts, StatusCounts
<1> QED
  BY <1>1, <1>2 DEF ListMatchesDetail, ListedProgressPct, ProgressPct

-----------------------------------------------------------------------------
(* Sequences. What holds of 0 and of the successor of each number it holds *)
(* of, it holds of all.                                                    *)
LEMMA NatInd ==
  ASSUME NEW T, 0 \in T, \A k \in Nat : k \in T => k + 1 \in T
  PROVE  \A k \in Nat : k \in T
<1> DEFINE B == Nat \ T
<1>1. ASSUME B # {} PROVE FALSE
  <2>1. PICK k \in B : \A n \in B : k <= n
    BY <1>1, SmallestNat
  <2>2. k # 0
    OBVIOUS
  <2>3. k - 1 \in Nat /\ k - 1 + 1 = k /\ ~(k <= k - 1)
    BY <2>2
  <2> QED
    BY <2>1, <2>3
<1> QED
  BY <1>1

(* s repeats nothing, and no pair of R comes in the wrong order. *)
Sorted(s, R) == IsInjective(s) /\ \A i, j \in DOMAIN s : <<s[i], s[j]>> \in R => i < j

LEMMA InSeq ==
  ASSUME NEW S, NEW s \in Seq(S)
  PROVE  /\ DOMAIN s = 1 .. Len(s) /\ Len(s) \in Nat
         /\ ToSet(s) = {s[i] : i \in 1 .. Len(s)} /\ ToSet(s) \subseteq S
<1>1. DOMAIN s = 1 .. Len(s) /\ Len(s) \in Nat /\ s \in [1 .. Len(s) -> S]
  BY LenProperties
<1> QED
  BY <1>1 DEF ToSet

LEMMA JoinIs ==
  ASSUME NEW S, NEW s \in Seq(S), NEW t \in Seq(S)
  PROVE  /\ s \o t \in Seq(S) /\ Len(s \o t) = Len(s) + Len(t)
         /\ \A i \in 1 .. Len(s) : (s \o t)[i] = s[i]
         /\ \A i \in 1 .. Len(t) : (s \o t)[Len(s) + i] = t[i]
         /\ ToSet(s \o t) = ToSet(s) \cup ToSet(t)
<1> DEFINE u == s \o t
<1>1. Len(s) \in Nat /\ Len(t) \in Nat
  BY LenProperties
<1>2. /\ u \in Seq(S) /\ Len(u) = Len(s) + Len(t)
      /\ \A i \in 1 .. Len(s) + Len(t) : u[i] = IF i <= Len(s) THEN s[i] ELSE t[i - Len(s)]
  BY ConcatProperties
<1> HIDE DEF u
<1>3. \A i \in 1 .. Len(s) : u[i] = s[i]
  BY <1>1, <1>2
<1>4. \A i \in 1 .. Len(t) : u[Len(s) + i] = t[i]
  <2> SUFFICES ASSUME NEW i \in 1 .. Len(t) PROVE u[Len(s) + i] = t[i]
    OBVIOUS
  <2>1. Len(s) + i \in 1 .. Len(s) + Len(t) /\ ~(Len(s) + i <= Len(s)) /\ Len(s) + i - Len(s) = i
    BY <1>1
  <2> QED
    BY <1>2, <2>1
<1>5. /\ ToSet(u) = {u[i] : i \in 1 .. Len(u)} /\ ToSet(s) = {s[i] : i \in 1 .. Len(s)}
      /\ ToSet(t) = {t[i] : i \in 1 .. Len(t)}
  BY <1>2, InSeq
<1>6. ASSUME NEW n \in ToSet(u) PROVE n \in ToSet(s) \cup ToSet(t)
  <2>1. PICK i \in 1 .. Len(u) : n = u[i]
    BY <1>5
  <2>2. CASE i <= Len(s)
    <3>1. i \in 1 .. Len(s)
      BY <1>1, <2>2
    <3> QED
      BY <1>3, <1>5, <2>1, <3>1
  <2>3. CASE ~(i <= Len(s))
    <3>1. i - Len(s) \in 1 .. Len(t) /\ i = Len(s) + (i - Len(s))
      BY <1>1, <1>2, <2>3
    <3> QED
      BY <1>4, <1>5, <2>1, <3>1
  <2> QED
    BY <2>2, <2>3
<1>7. ASSUME NEW n \in ToSet(s) \cup ToSet(t) PROVE n \in ToSet(u)
  <2>1. CASE n \in ToSet(s)
    <3>1. PICK i \in 1 .. Len(s) : n = s[i]
      BY <1>5, <2>1
    <3>2. i \in 1 .. Len(u)
      BY <1>1, <1>2
    <3> QED
      BY <1>3, <1>5, <3>1, <3>2
  <2>2. CASE n \in ToSet(t)
    <3>1. PICK i \in 1 .. Len(t) : n = t[i]
      BY <1>5, <2>2
    <3>2. Len(s) + i \in 1 .. Len(u)
      BY <1>1, <1>2
    <3> QED
      BY <1>4, <1>5, <3>1, <3>2
  <2> QED
    BY <2>1, <2>2
<1>8. ToSet(u) = ToSet(s) \cup ToSet(t)
  BY <1>6, <1>7
<1> QED
  BY <1>2, <1>3, <1>4, <1>8 DEF u

(* Two sorted sequences one after the other are sorted, if nothing of the  *)
(* second belongs before something of the first.                           *)
LEMMA JoinSorted ==
  ASSUME NEW S, NEW s \in Seq(S), NEW t \in Seq(S), NEW R, Sorted(s, R), Sorted(t, R),
         ToSet(s) \cap ToSet(t) = {},
         \A y \in ToSet(t), z \in ToSet(s) : <<y, z>> \notin R
  PROVE  Sorted(s \o t, R)
<1> DEFINE u == s \o t
           p == Len(s)
           q == Len(t)
<1>1. p \in Nat /\ q \in Nat /\ DOMAIN s = 1 .. p /\ DOMAIN t = 1 .. q
  BY LenProperties
<1>2. u \in Seq(S) /\ Len(u) = p + q
  BY JoinIs
<1>3. DOMAIN u = 1 .. p + q
  BY <1>2, LenProperties
<1>4. (\A i \in 1 .. p : u[i] = s[i]) /\ \A i \in 1 .. q : u[p + i] = t[i]
  BY JoinIs
<1>5. (\A i \in 1 .. p : s[i] \in ToSet(s)) /\ \A i \in 1 .. q : t[i] \in ToSet(t)
  BY <1>1 DEF ToSet
<1> HIDE DEF u, p, q
<1>6. ASSUME NEW i \in DOMAIN u
      PROVE  i \in 1 .. p \/ \E k \in 1 .. q : i = p + k
  <2>1. CASE i <= p
    BY <1>1, <1>3, <2>1
  <2>2. CASE ~(i <= p)
    <3>1. i - p \in 1 .. q /\ i = p + (i - p)
      BY <1>1, <1>3, <2>2
    <3> QED
      BY <3>1
  <2> QED
    BY <2>1, <2>2
<1>7. ASSUME NEW i \in DOMAIN u, NEW j \in DOMAIN u
      PROVE  (u[i] = u[j] => i = j) /\ (<<u[i], u[j]>> \in R => i < j)
  <2>1. CASE i \in 1 .. p /\ j \in 1 .. p
    BY <1>1, <1>4, <2>1 DEF Sorted, IsInjective
  <2>2. CASE i \in 1 .. p /\ j \notin 1 .. p
    <3>1. PICK k \in 1 .. q : j = p + k
      BY <1>6, <2>2
    <3>2. u[i] \in ToSet(s) /\ u[j] \in ToSet(t)
      BY <1>4, <1>5, <2>2, <3>1
    <3>3. i < j
      BY <1>1, <2>2, <3>1
    <3> QED
      BY <3>2, <3>3
  <2>3. CASE i \notin 1 .. p /\ j \in 1 .. p
    <3>1. PICK k \in 1 .. q : i = p + k
      BY <1>6, <2>3
    <3>2. u[j] \in ToSet(s) /\ u[i] \in ToSet(t)
      BY <1>4, <1>5, <2>3, <3>1
    <3> QED
      BY <3>2
  <2>4. CASE i \notin 1 .. p /\ j \notin 1 .. p
    <3>1. PICK k \in 1 .. q : i = p + k
      BY <1>6, <2>4
    <3>2. PICK l \in 1 .. q : j = p + l
      BY <1>6, <2>4
    <3>3. u[i] = t[k] /\ u[j] = t[l]
      BY <1>4, <3>1, <3>2
    <3>4. (t[k] = t[l] => k = l) /\ (<<t[k], t[l]>> \in R => k < l)
      BY <1>1 DEF Sorted, IsInjective
    <3>5. (k = l => i = j) /\ (k < l => i < j)
      BY <1>1, <3>1, <3>2
    <3> QED
      BY <3>3, <3>4, <3>5
  <2> QED
    BY <2>1, <2>2, <2>3, <2>4
<1>8. Sorted(u, R)
  BY <1>7 DEF Sorted, IsInjective
<1> QED
  BY <1>8 DEF u

(* FlattenSeq joins the sequences from the left: f[k] is the first k of    *)
(* them in a row.                                                          *)
FlatOf(ss, i, f) == IF i = 1 THEN ss[i] ELSE f[i - 1] \o ss[i]
Flats(ss, f) == f = [i \in 1 .. Len(ss) |-> FlatOf(ss, i, f)]

(* f joins the first m of the sequences ss. *)
Joining(S, ss, m, f) ==
  /\ f \in [0 .. m -> Seq(S)] /\ f[0] = <<>>
  /\ \A k \in Nat : k < m => f[k + 1] = f[k] \o ss[k + 1]

LEMMA FlattenIs ==
  ASSUME NEW S, NEW ss \in Seq(Seq(S))
  PROVE  \E f : Joining(S, ss, Len(ss), f) /\ f[Len(ss)] = FlattenSeq(ss)
<1> DEFINE N == Len(ss)
           Some == {m \in Nat : m <= N => \E f : Joining(S, ss, m, f)}
<1>1. N \in Nat /\ \A i \in 1 .. N : ss[i] \in Seq(S)
  BY LenProperties, ElementOfSeq
<1>2. 0 \in Some
  <2>1. PICK f : f \in [0 .. 0 -> Seq(S)] /\ f[0] = <<>>
    <3> DEFINE e == [k \in 0 .. 0 |-> <<>>]
    <3>1. e \in [0 .. 0 -> Seq(S)] /\ e[0] = <<>>
      BY EmptySeq
    <3> QED
      BY <3>1
  <2>2. \A k \in Nat : ~(k < 0)
    OBVIOUS
  <2>3. Joining(S, ss, 0, f)
    BY <2>1, <2>2 DEF Joining
  <2> QED
    BY <2>3
<1>3. ASSUME NEW m \in Nat, m \in Some PROVE m + 1 \in Some
  <2>1. ASSUME m + 1 <= N PROVE \E f : Joining(S, ss, m + 1, f)
    <3>1. m <= N /\ m + 1 \in 1 .. N
      BY <1>1, <2>1
    <3>2. PICK f : Joining(S, ss, m, f)
      BY <1>3, <3>1
    <3> DEFINE h == [k \in 0 .. m + 1 |-> IF k = m + 1 THEN f[m] \o ss[m + 1] ELSE f[k]]
    <3>3. \A k \in 0 .. m : f[k] \in Seq(S)
      BY <3>2 DEF Joining
    <3>4. f[m] \o ss[m + 1] \in Seq(S)
      <4>1. f[m] \in Seq(S) /\ ss[m + 1] \in Seq(S)
        BY <1>1, <3>1, <3>3
      <4> QED
        BY <4>1, ConcatProperties
    <3>5. h \in [0 .. m + 1 -> Seq(S)]
      BY <3>3, <3>4
    <3>6. h[0] = <<>>
      BY <3>2 DEF Joining
    <3>7. (\A k \in 0 .. m : h[k] = f[k]) /\ h[m + 1] = f[m] \o ss[m + 1]
      <4>1. m + 1 \in 0 .. m + 1 /\ \A k \in 0 .. m : k \in 0 .. m + 1 /\ k # m + 1
        OBVIOUS
      <4> QED
        BY <4>1, Zenon
    <3> HIDE DEF h
    <3>8. ASSUME NEW k \in Nat, k < m + 1 PROVE h[k + 1] = h[k] \o ss[k + 1]
      <4>1. CASE k = m
        <5>1. m \in 0 .. m
          OBVIOUS
        <5>2. h[m] = f[m] /\ h[m + 1] = f[m] \o ss[m + 1]
          BY <3>7, <5>1
        <5> QED
          BY <4>1, <5>2, Zenon
      <4>2. CASE k # m
        <5>1. k < m /\ k \in 0 .. m /\ k + 1 \in 0 .. m
          BY <3>8, <4>2
        <5>2. f[k + 1] = f[k] \o ss[k + 1]
          BY <3>2, <5>1 DEF Joining
        <5> QED
          BY <3>7, <5>1, <5>2
      <4> QED
        BY <4>1, <4>2
    <3>9. Joining(S, ss, m + 1, h)
      BY <3>5, <3>6, <3>8 DEF Joining
    <3> QED
      BY <3>9
  <2> QED
    BY <2>1
<1>4. N \in Some
  <2> HIDE DEF Some, N
  <2>1. \A k \in Nat : k \in Some
    BY <1>2, <1>3, NatInd
  <2> QED
    BY <1>1, <2>1
<1>5. PICK f : Joining(S, ss, N, f)
  <2>1. N <= N
    BY <1>1
  <2> QED
    BY <1>4, <2>1
<1>6. f[N] = FlattenSeq(ss)
  <2>1. CASE N = 0
    <3>1. ss = <<>>
      <4>1. ss \in Seq(Seq(S)) /\ Len(ss) = 0
        BY <2>1
      <4> QED
        BY <4>1, EmptySeq
    <3>2. FlattenSeq(ss) = ss
      BY <2>1 DEF FlattenSeq
    <3> QED
      BY <1>5, <2>1, <3>1, <3>2 DEF Joining
  <2>2. CASE N # 0
    <3> DEFINE h == CHOOSE v : Flats(ss, v)
               c == [i \in 1 .. N |-> f[i]]
    <3>1. FlattenSeq(ss) = h[N]
      BY <2>2 DEF FlattenSeq, Flats, FlatOf
    <3>2. ASSUME NEW i \in 1 .. N, NEW v, i = 1 \/ v[i - 1] = c[i - 1]
          PROVE  c[i] = FlatOf(ss, i, v)
      <4>1. i - 1 \in Nat /\ i - 1 < N /\ i - 1 + 1 = i
        BY <1>1
      <4>2. f[i] = f[i - 1] \o ss[i]
        BY <1>5, <4>1 DEF Joining
      <4>3. CASE i = 1
        <5>1. f[1] = <<>> \o ss[1]
          <6>1. i - 1 = 0 /\ f[0] = <<>>
            BY <1>5, <4>3 DEF Joining
          <6> QED
            BY <4>2, <4>3, <6>1, Zenon
        <5>2. ss[1] \in Seq(S)
          BY <1>1, <4>3
        <5> QED
          BY <4>3, <5>1, <5>2, ConcatEmptySeq DEF FlatOf
      <4>4. CASE i # 1
        <5>1. i - 1 \in 1 .. N
          BY <1>1, <4>4
        <5> QED
          BY <3>2, <4>2, <4>4, <5>1 DEF FlatOf
      <4> QED
        BY <4>3, <4>4
    <3> HIDE DEF N
    <3>3. Flats(ss, c)
      <4>1. \A i \in 1 .. N : c[i] = FlatOf(ss, i, c)
        BY <3>2
      <4> HIDE DEF c
      <4>2. c = [i \in 1 .. N |-> FlatOf(ss, i, c)]
        <5>1. c = [i \in 1 .. N |-> c[i]]
          BY DEF c
        <5> QED
          BY <4>1, <5>1
      <4> QED
        BY <4>2 DEF Flats, N
    <3>4. Flats(ss, h)
      BY <3>3
    <3> HIDE DEF h, c
    <3>5. FollowOn(1 .. N, 1, c, h)
      <4>1. 1 .. N \subseteq Nat /\ \A i \in 1 .. N : i = 1 \/ i - 1 \in 1 .. N
        BY <1>1
      <4>2. \A i \in 1 .. N : h[i] = FlatOf(ss, i, h)
        BY <3>4 DEF Flats, N
      <4>3. \A i \in 1 .. N : (i = 1 \/ c[i - 1] = h[i - 1]) => c[i] = h[i]
        BY <3>2, <4>2
      <4> QED
        BY <4>1, <4>3 DEF FollowOn
    <3>6. c[N] = h[N]
      <4>1. N \in 1 .. N
        BY <1>1, <2>2
      <4> QED
        BY <3>5, <4>1, Agree
    <3>7. c[N] = f[N]
      BY <1>1, <2>2 DEF c
    <3> QED
      BY <3>1, <3>6, <3>7
  <2> QED
    BY <2>1, <2>2
<1> QED
  BY <1>5, <1>6

(* Sequences that are sorted, and of which no later one holds what belongs *)
(* before something in an earlier one.                                     *)
InOrder(ss, R) ==
  /\ \A i \in DOMAIN ss : Sorted(ss[i], R)
  /\ \A i, j \in DOMAIN ss : i < j => ToSet(ss[i]) \cap ToSet(ss[j]) = {}
  /\ \A i, j \in DOMAIN ss : i < j => \A y \in ToSet(ss[j]), z \in ToSet(ss[i]) : <<y, z>> \notin R

LEMMA FlattenHolds ==
  ASSUME NEW S, NEW ss \in Seq(Seq(S))
  PROVE  /\ FlattenSeq(ss) \in Seq(S)
         /\ ToSet(FlattenSeq(ss)) = UNION {ToSet(ss[i]) : i \in DOMAIN ss}
         /\ \A R : InOrder(ss, R) => Sorted(FlattenSeq(ss), R)
<1> DEFINE N == Len(ss)
           Held(k) == UNION {ToSet(ss[i]) : i \in 1 .. k}
<1>1. N \in Nat /\ DOMAIN ss = 1 .. N /\ \A i \in 1 .. N : ss[i] \in Seq(S)
  BY LenProperties, ElementOfSeq
<1>2. PICK f \in [0 .. N -> Seq(S)] :
        /\ f[0] = <<>> /\ f[N] = FlattenSeq(ss)
        /\ \A k \in Nat : k < N => f[k + 1] = f[k] \o ss[k + 1]
  BY FlattenIs DEF Joining
<1> HIDE DEF N
<1>3. \A k \in Nat : Held(k + 1) = Held(k) \cup ToSet(ss[k + 1])
  <2> SUFFICES ASSUME NEW k \in Nat PROVE Held(k + 1) = Held(k) \cup ToSet(ss[k + 1])
    OBVIOUS
  <2>1. 1 .. k + 1 = 1 .. k \cup {k + 1}
    OBVIOUS
  <2> QED
    BY <2>1
<1>4. Held(0) = {}
  <2>1. 1 .. 0 = {}
    OBVIOUS
  <2> QED
    BY <2>1
<1>5. ToSet(<<>>) = {}
  <2>1. DOMAIN <<>> = {}
    OBVIOUS
  <2> QED
    BY <2>1 DEF ToSet
<1> HIDE DEF Held
<1>6. \A k \in Nat : k <= N => ToSet(f[k]) = Held(k)
  <2> DEFINE T == {k \in Nat : k <= N => ToSet(f[k]) = Held(k)}
  <2>1. 0 \in T
    BY <1>2, <1>4, <1>5
  <2>2. ASSUME NEW k \in Nat, k \in T PROVE k + 1 \in T
    <3> SUFFICES ASSUME k + 1 <= N PROVE ToSet(f[k + 1]) = Held(k + 1)
      OBVIOUS
    <3>1. k <= N /\ k < N /\ k \in 0 .. N /\ k + 1 \in 1 .. N
      BY <1>1
    <3>2. f[k + 1] = f[k] \o ss[k + 1] /\ f[k] \in Seq(S) /\ ss[k + 1] \in Seq(S)
      BY <1>1, <1>2, <3>1
    <3>3. ToSet(f[k + 1]) = ToSet(f[k]) \cup ToSet(ss[k + 1])
      BY <3>2, JoinIs
    <3> QED
      BY <1>3, <2>2, <3>1, <3>3
  <2> HIDE DEF T
  <2>3. \A k \in Nat : k \in T
    BY <2>1, <2>2, NatInd
  <2> QED
    BY <2>3 DEF T
<1>7. ASSUME NEW R, InOrder(ss, R) PROVE \A k \in Nat : k <= N => Sorted(f[k], R)
  <2> DEFINE T == {k \in Nat : k <= N => Sorted(f[k], R)}
  <2>1. 0 \in T
    <3>1. DOMAIN <<>> = {}
      OBVIOUS
    <3> QED
      BY <1>2, <3>1 DEF Sorted, IsInjective
  <2>2. ASSUME NEW k \in Nat, k \in T PROVE k + 1 \in T
    <3> SUFFICES ASSUME k + 1 <= N PROVE Sorted(f[k + 1], R)
      OBVIOUS
    <3>1. k <= N /\ k < N /\ k \in 0 .. N /\ k + 1 \in 1 .. N
      BY <1>1
    <3>2. f[k + 1] = f[k] \o ss[k + 1] /\ f[k] \in Seq(S) /\ ss[k + 1] \in Seq(S)
      BY <1>1, <1>2, <3>1
    <3>3. Sorted(f[k], R) /\ ToSet(f[k]) = Held(k)
      BY <1>6, <2>2, <3>1
    <3>4. Sorted(ss[k + 1], R)
      BY <1>1, <1>7, <3>1 DEF InOrder
    <3>5. ASSUME NEW z \in Held(k)
          PROVE  z \notin ToSet(ss[k + 1]) /\ \A y \in ToSet(ss[k + 1]) : <<y, z>> \notin R
      <4>1. PICK i \in 1 .. k : z \in ToSet(ss[i])
        BY DEF Held
      <4>2. i \in 1 .. N /\ i < k + 1
        BY <1>1, <3>1
      <4> QED
        BY <1>1, <1>7, <3>1, <4>1, <4>2 DEF InOrder
    <3>6. ToSet(f[k]) \cap ToSet(ss[k + 1]) = {}
      BY <3>3, <3>5
    <3>7. \A y \in ToSet(ss[k + 1]), z \in ToSet(f[k]) : <<y, z>> \notin R
      BY <3>3, <3>5
    <3> QED
      BY <3>2, <3>3, <3>4, <3>6, <3>7, JoinSorted
  <2> HIDE DEF T
  <2>3. \A k \in Nat : k \in T
    BY <2>1, <2>2, NatInd
  <2> QED
    BY <2>3 DEF T
<1>8. N <= N /\ N \in 0 .. N
  BY <1>1
<1>9. ToSet(FlattenSeq(ss)) = Held(N)
  BY <1>1, <1>2, <1>6, <1>8
<1>10. FlattenSeq(ss) \in Seq(S)
  BY <1>2, <1>8
<1>11. \A R : InOrder(ss, R) => Sorted(FlattenSeq(ss), R)
  BY <1>1, <1>2, <1>7, <1>8
<1> QED
  BY <1>1, <1>9, <1>10, <1>11 DEF Held

-----------------------------------------------------------------------------
(* The document order of a forest: the rows of p, whose parents are higher  *)
(* than they are, and in which a node whose parent is gone has no children. *)
RowsIn(p)   == ToSet(p.rows)
FamilyOf(p) == {<<p.parent[n], n>> : n \in {m \in RowsIn(p) : p.parent[m] \in RowsIn(p)}}

Treed(p, H) ==
  /\ p.rows \in Seq(Node) /\ IsInjective(p.rows)
  /\ p.parent \in [Node -> Node \cup {Nil}]
  /\ H \in [Node \cup {Nil} -> Nat]
  /\ \E top \in Nat : \A k \in Node \cup {Nil} : H[k] < top
  /\ \A n \in RowsIn(p) : H[n] < H[p.parent[n]]
  /\ \A n \in RowsIn(p) : p.parent[n] \in RowsIn(p) => p.parent[p.parent[n]] \in RowsIn(p) \cup {Nil}

BelowIn(p, n) == {m \in RowsIn(p) : Reach(FamilyOf(p), n, m)}
KidsIn(p, k)  == {n \in RowsIn(p) : p.parent[n] = k}

(* a comes before its sibling b *)
Earlier(p, a, b) ==
  /\ p.parent[a] = p.parent[b]
  /\ \E i, j \in DOMAIN p.rows : i < j /\ p.rows[i] = a /\ p.rows[j] = b

(* what must come before what *)
Precedes(p) ==
  {e \in RowsIn(p) \X RowsIn(p) :
     \/ e[1] # e[2] /\ Reach(FamilyOf(p), e[1], e[2])
     \/ \E a, b \in RowsIn(p) :
          Earlier(p, a, b) /\ Reach(FamilyOf(p), a, e[1]) /\ Reach(FamilyOf(p), b, e[2])}

LEMMA ReachAgain ==
  ASSUME NEW E, NEW a, NEW b, NEW c, Reach(E, a, b), Reach(E, b, c)
  PROVE  Reach(E, a, c)
BY DEF Reach

LEMMA RowsAreNodes ==
  ASSUME NEW p, NEW H, Treed(p, H)
  PROVE  /\ RowsIn(p) \subseteq Node /\ \A n \in RowsIn(p) : p.parent[n] \in Node \cup {Nil}
         /\ \A i \in DOMAIN p.rows : p.rows[i] \in RowsIn(p)
         /\ \A n \in RowsIn(p) : \E i \in DOMAIN p.rows : p.rows[i] = n
<1>1. p.rows \in Seq(Node) /\ p.parent \in [Node -> Node \cup {Nil}]
  BY DEF Treed
<1>2. ToSet(p.rows) \subseteq Node
  BY <1>1, InSeq
<1>3. ToSet(p.rows) = {p.rows[i] : i \in DOMAIN p.rows}
  BY DEF ToSet
<1> QED
  BY <1>1, <1>2, <1>3 DEF RowsIn

(* One step further down. *)
LEMMA DownOne ==
  ASSUME NEW p, NEW n \in RowsIn(p), p.parent[n] \in RowsIn(p), NEW a,
         Reach(FamilyOf(p), a, p.parent[n])
  PROVE  Reach(FamilyOf(p), a, n)
<1>1. <<p.parent[n], n>> \in FamilyOf(p)
  BY DEF FamilyOf
<1> QED
  BY <1>1 DEF Reach, Closed

(* What is strictly below a is a child of something at or below a. *)
LEMMA UpOne ==
  ASSUME NEW p, NEW H, Treed(p, H), NEW a \in RowsIn(p), NEW m, Reach(FamilyOf(p), a, m), m # a
  PROVE  m \in RowsIn(p) /\ p.parent[m] \in RowsIn(p) /\ Reach(FamilyOf(p), a, p.parent[m])
<1> DEFINE E == FamilyOf(p)
           S == {a} \cup {n \in RowsIn(p) : p.parent[n] \in RowsIn(p) /\ Reach(E, a, p.parent[n])}
<1>1. S \in SUBSET Node
  BY RowsAreNodes
<1>2. ASSUME NEW e \in E, e[1] \in S PROVE e[2] \in S
  <2>1. PICK n \in RowsIn(p) : p.parent[n] \in RowsIn(p) /\ e = <<p.parent[n], n>>
    BY DEF FamilyOf
  <2>2. Reach(E, a, p.parent[n])
    <3>1. CASE p.parent[n] = a
      BY <3>1 DEF Reach
    <3>2. CASE p.parent[n] # a
      <4>1. p.parent[n] \in S
        BY <1>2, <2>1
      <4> QED
        BY <3>2, <4>1, DownOne
    <3> QED
      BY <3>1, <3>2
  <2> QED
    BY <2>1, <2>2
<1>3. m \in S
  BY <1>1, <1>2 DEF Reach, Closed
<1> QED
  BY <1>3

(* What is strictly below a is lower. *)
LEMMA LowerDown ==
  ASSUME NEW p, NEW H, Treed(p, H), NEW a \in RowsIn(p), NEW m, Reach(FamilyOf(p), a, m), m # a
  PROVE  H[m] < H[a]
<1> DEFINE S == {n \in RowsIn(p) : n = a \/ H[n] < H[a]}
<1>0. RowsIn(p) \subseteq Node /\ H \in [Node \cup {Nil} -> Nat]
  BY RowsAreNodes DEF Treed
<1>1. S \in SUBSET Node
  BY <1>0
<1>2. ASSUME NEW e \in FamilyOf(p), e[1] \in S PROVE e[2] \in S
  <2>1. PICK n \in RowsIn(p) : p.parent[n] \in RowsIn(p) /\ e = <<p.parent[n], n>>
    BY DEF FamilyOf
  <2> DEFINE k == p.parent[n]
  <2>2. H[n] < H[k] /\ k \in S
    BY <1>2, <2>1 DEF Treed
  <2>3. H[n] \in Nat /\ H[k] \in Nat /\ H[a] \in Nat /\ (k = a \/ H[k] < H[a])
    BY <1>0, <2>1, <2>2
  <2> HIDE DEF k
  <2>4. H[n] < H[a]
    BY <2>2, <2>3
  <2> QED
    BY <2>1, <2>4
<1>3. a \in S
  OBVIOUS
<1>4. m \in S
  BY <1>1, <1>2, <1>3 DEF Reach, Closed
<1> QED
  BY <1>4

LEMMA NoRound ==
  ASSUME NEW p, NEW H, Treed(p, H), NEW a \in RowsIn(p), NEW m \in RowsIn(p),
         Reach(FamilyOf(p), a, m), Reach(FamilyOf(p), m, a)
  PROVE  m = a
<1>1. ASSUME m # a PROVE FALSE
  <2>1. H[m] < H[a] /\ H[a] < H[m]
    BY <1>1, LowerDown
  <2>2. H[m] \in Nat /\ H[a] \in Nat
    BY RowsAreNodes DEF Treed
  <2> QED
    BY <2>1, <2>2
<1> QED
  BY <1>1

(* Of two nodes above a third, one is above the other. *)
LEMMA Comparable ==
  ASSUME NEW p, NEW H, Treed(p, H), NEW a \in RowsIn(p), NEW b \in RowsIn(p), NEW m,
         Reach(FamilyOf(p), a, m), Reach(FamilyOf(p), b, m)
  PROVE  Reach(FamilyOf(p), a, b) \/ Reach(FamilyOf(p), b, a)
<1> DEFINE E == FamilyOf(p)
           S == {n \in RowsIn(p) : /\ Reach(E, a, n)
                                   /\ Reach(E, b, n) => Reach(E, a, b) \/ Reach(E, b, a)}
<1>1. S \in SUBSET Node
  BY RowsAreNodes
<1>2. ASSUME NEW e \in E, e[1] \in S PROVE e[2] \in S
  <2>1. PICK n \in RowsIn(p) : p.parent[n] \in RowsIn(p) /\ e = <<p.parent[n], n>>
    BY DEF FamilyOf
  <2>2. Reach(E, a, n)
    BY <1>2, <2>1, DownOne
  <2>3. ASSUME Reach(E, b, n), n # b PROVE Reach(E, a, b) \/ Reach(E, b, a)
    <3>1. Reach(E, b, p.parent[n])
      BY <2>3, UpOne
    <3> QED
      BY <1>2, <2>1, <3>1
  <2> QED
    BY <2>1, <2>2, <2>3
<1>3. a \in S
  BY DEF Reach
<1>4. m \in S
  BY <1>1, <1>2, <1>3 DEF Reach, Closed
<1> QED
  BY <1>4

(* What is below siblings does not overlap. *)
LEMMA SiblingsApart ==
  ASSUME NEW p, NEW H, Treed(p, H), NEW a \in RowsIn(p), NEW b \in RowsIn(p), a # b,
         p.parent[a] = p.parent[b], NEW m, Reach(FamilyOf(p), a, m), Reach(FamilyOf(p), b, m)
  PROVE  FALSE
<1>1. ASSUME NEW c \in RowsIn(p), NEW d \in RowsIn(p), c # d, p.parent[c] = p.parent[d],
             Reach(FamilyOf(p), c, d)
      PROVE  FALSE
  <2>1. p.parent[c] \in RowsIn(p) /\ Reach(FamilyOf(p), c, p.parent[c])
    BY <1>1, UpOne
  <2>2. Reach(FamilyOf(p), p.parent[c], c)
    <3>1. Reach(FamilyOf(p), p.parent[c], p.parent[c])
      BY DEF Reach
    <3> QED
      BY <2>1, <3>1, DownOne
  <2>3. p.parent[c] = c
    BY <2>1, <2>2, NoRound
  <2>4. H[c] < H[p.parent[c]] /\ H[c] \in Nat
    BY RowsAreNodes DEF Treed
  <2> QED
    BY <2>3, <2>4
<1> QED
  BY <1>1, Comparable

(* At or below n: n itself and what is at or below its children. *)
LEMMA BelowUnfolds ==
  ASSUME NEW p, NEW H, Treed(p, H), NEW n \in RowsIn(p)
  PROVE  /\ n \in BelowIn(p, n)
         /\ BelowIn(p, n) \ {n} = UNION {BelowIn(p, k) : k \in KidsIn(p, n)}
<1> DEFINE E == FamilyOf(p)
           U == UNION {BelowIn(p, k) : k \in KidsIn(p, n)}
           S == {n} \cup U
<1>1. n \in BelowIn(p, n)
  BY DEF BelowIn, Reach
<1>2. S \in SUBSET Node
  BY RowsAreNodes DEF BelowIn
<1>3. ASSUME NEW e \in E, e[1] \in S PROVE e[2] \in S
  <2>1. PICK m \in RowsIn(p) : p.parent[m] \in RowsIn(p) /\ e = <<p.parent[m], m>>
    BY DEF FamilyOf
  <2>2. CASE p.parent[m] = n
    <3>1. m \in KidsIn(p, n) /\ m \in BelowIn(p, m)
      BY <2>2 DEF KidsIn, BelowIn, Reach
    <3> QED
      BY <2>1, <3>1
  <2>3. CASE p.parent[m] # n
    <3>1. PICK k \in KidsIn(p, n) : p.parent[m] \in BelowIn(p, k)
      BY <1>3, <2>1, <2>3
    <3>2. Reach(E, k, m)
      BY <2>1, <3>1, DownOne DEF BelowIn
    <3>3. m \in BelowIn(p, k)
      BY <3>2 DEF BelowIn
    <3> QED
      BY <2>1, <3>1, <3>3
  <2> QED
    BY <2>2, <2>3
<1>4. ASSUME NEW m \in BelowIn(p, n) \ {n} PROVE m \in U
  <2>1. Reach(E, n, m)
    BY <1>4 DEF BelowIn
  <2>2. m \in S
    BY <1>2, <1>3, <2>1 DEF Reach, Closed
  <2> QED
    BY <2>2
<1>5. ASSUME NEW m \in U PROVE m \in BelowIn(p, n) \ {n}
  <2>1. PICK k \in KidsIn(p, n) : m \in BelowIn(p, k)
    BY <1>5
  <2>2. k \in RowsIn(p) /\ p.parent[k] = n /\ Reach(E, n, n)
    BY <2>1 DEF KidsIn, Reach
  <2>3. Reach(E, n, k)
    BY <2>2, DownOne
  <2>4. Reach(E, n, m) /\ m \in RowsIn(p)
    BY <2>1, <2>3, ReachAgain DEF BelowIn
  <2>5. m # n
    <3> SUFFICES ASSUME m = n PROVE FALSE
      OBVIOUS
    <3>1. n = k
      BY <2>1, <2>2, <2>3, NoRound DEF BelowIn
    <3>2. H[k] < H[n] /\ H[n] \in Nat
      BY <2>2, RowsAreNodes DEF Treed
    <3> QED
      BY <3>1, <3>2
  <2> QED
    BY <2>4, <2>5 DEF BelowIn
<1>6. BelowIn(p, n) \ {n} = U
  BY <1>4, <1>5
<1> QED
  BY <1>1, <1>6

LEMMA EarlierIs ==
  ASSUME NEW p, NEW H, Treed(p, H), NEW a, NEW b, Earlier(p, a, b)
  PROVE  a # b /\ p.parent[a] = p.parent[b] /\ ~Earlier(p, b, a)
<1>1. p.rows \in Seq(Node) /\ IsInjective(p.rows) /\ DOMAIN p.rows = 1 .. Len(p.rows)
  BY InSeq DEF Treed
<1>2. PICK i, j \in DOMAIN p.rows : i < j /\ p.rows[i] = a /\ p.rows[j] = b
  BY DEF Earlier
<1>3. \A k, l \in DOMAIN p.rows : p.rows[k] = a /\ p.rows[l] = b => k < l
  BY <1>1, <1>2 DEF IsInjective
<1>4. \A k, l \in DOMAIN p.rows : k < l => ~(l < k) /\ k # l
  BY <1>1
<1> QED
  BY <1>2, <1>3, <1>4 DEF Earlier

(* Nothing at or below a comes after anything at or below a later sibling. *)
LEMMA SiblingsInOrder ==
  ASSUME NEW p, NEW H, Treed(p, H), NEW a \in RowsIn(p), NEW b \in RowsIn(p), Earlier(p, a, b),
         NEW z, Reach(FamilyOf(p), a, z), NEW y, Reach(FamilyOf(p), b, y)
  PROVE  <<y, z>> \notin Precedes(p)
<1> DEFINE E == FamilyOf(p)
<1>0. a # b /\ p.parent[a] = p.parent[b] /\ ~Earlier(p, b, a)
  BY EarlierIs
<1>1. ASSUME Reach(E, y, z) PROVE FALSE
  <2>1. Reach(E, b, z)
    BY <1>1, ReachAgain
  <2> QED
    BY <1>0, <2>1, SiblingsApart
<1>2. ASSUME NEW c \in RowsIn(p), NEW d \in RowsIn(p), Earlier(p, c, d), Reach(E, c, y), Reach(E, d, z)
      PROVE  FALSE
  <2>0. p.parent[c] = p.parent[d] /\ c # d
    BY <1>2, EarlierIs
  <2>1. CASE c = b
    <3>1. p.parent[d] = p.parent[a]
      BY <1>0, <2>0, <2>1
    <3>2. d = a
      BY <1>2, <3>1, SiblingsApart
    <3> QED
      BY <1>0, <1>2, <2>1, <3>2
  <2>2. CASE c # b /\ Reach(E, b, c)
    <3>1. p.parent[c] \in RowsIn(p) /\ Reach(E, b, p.parent[d])
      BY <2>0, <2>2, UpOne
    <3>2. Reach(E, b, d)
      BY <2>0, <3>1, DownOne
    <3>3. Reach(E, b, z)
      BY <1>2, <3>2, ReachAgain
    <3> QED
      BY <1>0, <3>3, SiblingsApart
  <2>3. CASE c # b /\ Reach(E, c, b)
    <3>1. p.parent[b] \in RowsIn(p) /\ Reach(E, c, p.parent[a])
      BY <1>0, <2>3, UpOne
    <3>2. Reach(E, c, a)
      BY <1>0, <3>1, DownOne
    <3>3. Reach(E, c, z)
      BY <3>2, ReachAgain
    <3> QED
      BY <1>2, <2>0, <3>3, SiblingsApart
  <2>4. Reach(E, b, c) \/ Reach(E, c, b)
    BY <1>2, Comparable
  <2> QED
    BY <2>1, <2>2, <2>3, <2>4
<1> QED
  BY <1>1, <1>2 DEF Precedes

(* Nothing at or below n comes before n. *)
LEMMA FirstOfAll ==
  ASSUME NEW p, NEW H, Treed(p, H), NEW n \in RowsIn(p), NEW m \in RowsIn(p), Reach(FamilyOf(p), n, m)
  PROVE  <<m, n>> \notin Precedes(p)
<1> DEFINE E == FamilyOf(p)
<1>1. ASSUME m # n, Reach(E, m, n) PROVE FALSE
  BY <1>1, NoRound
<1>2. ASSUME NEW c \in RowsIn(p), NEW d \in RowsIn(p), Earlier(p, c, d), Reach(E, c, m), Reach(E, d, n)
      PROVE  FALSE
  <2>0. p.parent[c] = p.parent[d] /\ c # d
    BY <1>2, EarlierIs
  <2>1. Reach(E, d, m)
    BY <1>2, ReachAgain
  <2> QED
    BY <1>2, <2>0, <2>1, SiblingsApart
<1> QED
  BY <1>1, <1>2 DEF Precedes

(* What of a sequence is in T keeps its order. *)
LEMMA KeepHolds ==
  ASSUME NEW S, NEW s \in Seq(S), NEW T
  PROVE  /\ Keep(s, T) \in Seq(S) /\ ToSet(Keep(s, T)) = ToSet(s) \cap T
         /\ \A R : /\ IsInjective(s)
                   /\ \A i, j \in DOMAIN s : s[i] \in T /\ s[j] \in T /\ <<s[i], s[j]>> \in R => i < j
                   => Sorted(Keep(s, T), R)
<1> DEFINE ss == [i \in DOMAIN s |-> IF s[i] \in T THEN <<s[i]>> ELSE <<>>]
<1>1. DOMAIN s = 1 .. Len(s) /\ Len(s) \in Nat /\ \A i \in DOMAIN s : s[i] \in S
  BY LenProperties, ElementOfSeq
<1>2. \A n \in S : <<n>> \in Seq(S) /\ Len(<<n>>) = 1 /\ <<n>>[1] = n /\ DOMAIN <<n>> = {1}
  OBVIOUS
<1>3. <<>> \in Seq(S) /\ DOMAIN <<>> = {}
  OBVIOUS
<1>4. DOMAIN ss = DOMAIN s /\ \A i \in DOMAIN s : ss[i] = IF s[i] \in T THEN <<s[i]>> ELSE <<>>
  OBVIOUS
<1>5. ss \in Seq(Seq(S))
  <2>1. \A i \in 1 .. Len(s) : ss[i] \in Seq(S)
    BY <1>1, <1>2, <1>3
  <2> QED
    BY <1>1, <2>1
<1>6. Keep(s, T) = FlattenSeq(ss)
  BY DEF Keep
<1> HIDE DEF ss
<1>7. \A i \in DOMAIN s : ToSet(ss[i]) = {s[i]} \cap T
  <2> SUFFICES ASSUME NEW i \in DOMAIN s PROVE ToSet(ss[i]) = {s[i]} \cap T
    OBVIOUS
  <2>1. CASE s[i] \in T
    <3>1. ss[i] = <<s[i]>> /\ s[i] \in S
      BY <1>1, <1>4, <2>1
    <3>2. ToSet(<<s[i]>>) = {s[i]}
      BY <1>2, <3>1 DEF ToSet
    <3> QED
      BY <2>1, <3>1, <3>2
  <2>2. CASE s[i] \notin T
    <3>1. ss[i] = <<>>
      BY <1>4, <2>2
    <3>2. ToSet(<<>>) = {}
      BY <1>3 DEF ToSet
    <3> QED
      BY <2>2, <3>1, <3>2
  <2> QED
    BY <2>1, <2>2
<1>8. ToSet(Keep(s, T)) = ToSet(s) \cap T
  <2>1. ToSet(Keep(s, T)) = UNION {ToSet(ss[i]) : i \in DOMAIN s}
    BY <1>4, <1>5, <1>6, FlattenHolds
  <2>2. ToSet(s) = {s[i] : i \in DOMAIN s}
    BY DEF ToSet
  <2> QED
    BY <1>7, <2>1, <2>2
<1>9. ASSUME NEW R, IsInjective(s),
             \A i, j \in DOMAIN s : s[i] \in T /\ s[j] \in T /\ <<s[i], s[j]>> \in R => i < j
      PROVE  Sorted(Keep(s, T), R)
  <2>1. ASSUME NEW i \in DOMAIN ss PROVE Sorted(ss[i], R)
    <3>1. CASE s[i] \in T
      <4>1. ss[i] = <<s[i]>> /\ s[i] \in S
        BY <1>1, <1>4, <2>1, <3>1
      <4>2. DOMAIN ss[i] = {1} /\ ss[i][1] = s[i]
        BY <1>2, <4>1
      <4>3. <<s[i], s[i]>> \notin R
        <5>1. i \in DOMAIN s /\ ~(i < i)
          BY <1>1, <1>4, <2>1
        <5> QED
          BY <1>9, <3>1, <5>1
      <4> QED
        BY <4>2, <4>3 DEF Sorted, IsInjective
    <3>2. CASE s[i] \notin T
      BY <1>3, <1>4, <2>1, <3>2 DEF Sorted, IsInjective
    <3> QED
      BY <3>1, <3>2
  <2>2. ASSUME NEW i \in DOMAIN ss, NEW j \in DOMAIN ss, i < j
        PROVE  /\ ToSet(ss[i]) \cap ToSet(ss[j]) = {}
               /\ \A y \in ToSet(ss[j]), z \in ToSet(ss[i]) : <<y, z>> \notin R
    <3>1. i \in DOMAIN s /\ j \in DOMAIN s /\ i # j /\ ~(j < i)
      BY <1>1, <1>4, <2>2
    <3>2. s[i] # s[j]
      BY <1>9, <3>1 DEF IsInjective
    <3>3. ToSet(ss[i]) = {s[i]} \cap T /\ ToSet(ss[j]) = {s[j]} \cap T
      BY <1>7, <3>1
    <3>4. ~(s[j] \in T /\ s[i] \in T /\ <<s[j], s[i]>> \in R)
      BY <1>9, <3>1
    <3> QED
      BY <3>2, <3>3, <3>4, Zenon
  <2>3. InOrder(ss, R)
    BY <2>1, <2>2 DEF InOrder
  <2> QED
    BY <1>5, <1>6, <2>3, FlattenHolds
<1>10. Keep(s, T) \in Seq(S)
  BY <1>5, <1>6, FlattenHolds
<1> QED
  BY <1>8, <1>9, <1>10

-----------------------------------------------------------------------------
(* The visit of buildDocumentOrder: what v says of the children of k, each *)
(* child first.                                                            *)
PartsOf(p, k, v) ==
  [i \in DOMAIN p.rows |-> IF p.parent[p.rows[i]] = k THEN <<p.rows[i]>> \o v[p.rows[i]] ELSE <<>>]
BodyOf(p, k, v) == FlattenSeq(PartsOf(p, k, v))
Visits(p, v)    == v = [k \in Node \cup {Nil} |-> BodyOf(p, k, v)]

LEMMA BodySame ==
  ASSUME NEW p, NEW k, NEW v, NEW w, \A n \in KidsIn(p, k) : v[n] = w[n]
  PROVE  BodyOf(p, k, v) = BodyOf(p, k, w)
<1>1. ASSUME NEW i \in DOMAIN p.rows, p.parent[p.rows[i]] = k PROVE v[p.rows[i]] = w[p.rows[i]]
  <2>1. p.rows[i] \in KidsIn(p, k)
    BY <1>1 DEF KidsIn, RowsIn, ToSet
  <2> QED
    BY <2>1
<1>2. PartsOf(p, k, v) = PartsOf(p, k, w)
  BY <1>1 DEF PartsOf
<1> QED
  BY <1>2 DEF BodyOf

LEMMA VisitExists ==
  ASSUME NEW p, NEW H, Treed(p, H)
  PROVE  \E v : Visits(p, v)
<1> DEFINE D == Node \cup {Nil}
           T == {d \in Nat : \E v : \A k \in D : H[k] < d => v[k] = BodyOf(p, k, v)}
<1>1. PICK top \in Nat : \A k \in D : H[k] < top
  BY DEF Treed
<1>2. /\ \A k \in D : H[k] \in Nat
      /\ \A k \in D : \A n \in KidsIn(p, k) : n \in D /\ H[n] < H[k]
  BY RowsAreNodes DEF Treed, KidsIn
<1>3. 0 \in T
  <2>1. \A k \in D : ~(H[k] < 0)
    BY <1>2
  <2> QED
    BY <2>1
<1>4. ASSUME NEW d \in Nat, d \in T PROVE d + 1 \in T
  <2>1. PICK v : \A k \in D : H[k] < d => v[k] = BodyOf(p, k, v)
    BY <1>4
  <2> DEFINE w == [k \in D |-> BodyOf(p, k, v)]
  <2>2. \A k \in D : w[k] = BodyOf(p, k, v)
    OBVIOUS
  <2> HIDE DEF w
  <2>3. ASSUME NEW k \in D, H[k] < d + 1 PROVE w[k] = BodyOf(p, k, w)
    <3>1. ASSUME NEW n \in KidsIn(p, k) PROVE v[n] = w[n]
      <4>1. n \in D /\ H[n] < H[k]
        BY <1>2
      <4>2. H[n] < d
        <5>1. H[n] \in Nat /\ H[k] \in Nat
          BY <1>2, <4>1
        <5> QED
          BY <2>3, <4>1, <5>1
      <4> QED
        BY <2>1, <2>2, <4>1, <4>2
    <3> QED
      BY <2>2, <3>1, BodySame
  <2> QED
    BY <2>3
<1> HIDE DEF T
<1>5. top \in T
  <2>1. \A d \in Nat : d \in T
    BY <1>3, <1>4, NatInd
  <2> QED
    BY <2>1
<1>6. PICK v : \A k \in D : v[k] = BodyOf(p, k, v)
  BY <1>1, <1>5 DEF T
<1> DEFINE w == [k \in D |-> BodyOf(p, k, v)]
<1>7. \A k \in D : w[k] = BodyOf(p, k, v)
  OBVIOUS
<1>8. w = [k \in D |-> w[k]]
  OBVIOUS
<1> HIDE DEF w
<1>9. ASSUME NEW k \in D PROVE w[k] = BodyOf(p, k, w)
  <2>1. \A n \in KidsIn(p, k) : v[n] = w[n]
    BY <1>2, <1>6, <1>7
  <2> QED
    BY <1>7, <2>1, BodySame
<1>10. w = [k \in D |-> BodyOf(p, k, w)]
  BY <1>8, <1>9
<1>11. Visits(p, w)
  BY <1>10 DEF Visits
<1> QED
  BY <1>11

(* v lists what is strictly below n, in order. *)
Visited(p, v, n) ==
  v[n] \in Seq(Node) /\ ToSet(v[n]) = BelowIn(p, n) \ {n} /\ Sorted(v[n], Precedes(p))

LEMMA WithSelf ==
  ASSUME NEW p, NEW H, Treed(p, H), NEW v, NEW n \in RowsIn(p), Visited(p, v, n)
  PROVE  /\ <<n>> \o v[n] \in Seq(Node) /\ ToSet(<<n>> \o v[n]) = BelowIn(p, n)
         /\ Sorted(<<n>> \o v[n], Precedes(p))
<1>1. n \in Node /\ n \in BelowIn(p, n)
  BY RowsAreNodes, BelowUnfolds
<1>2. <<n>> \in Seq(Node) /\ DOMAIN <<n>> = {1} /\ <<n>>[1] = n
  BY <1>1
<1>3. ToSet(<<n>>) = {n}
  BY <1>2 DEF ToSet
<1>4. \A m \in BelowIn(p, n) : <<m, n>> \notin Precedes(p)
  BY FirstOfAll DEF BelowIn
<1>5. Sorted(<<n>>, Precedes(p))
  BY <1>1, <1>2, <1>4 DEF Sorted, IsInjective
<1>6. v[n] \in Seq(Node) /\ ToSet(v[n]) = BelowIn(p, n) \ {n} /\ Sorted(v[n], Precedes(p))
  BY DEF Visited
<1>7. /\ ToSet(<<n>>) \cap ToSet(v[n]) = {}
      /\ \A y \in ToSet(v[n]), z \in ToSet(<<n>>) : <<y, z>> \notin Precedes(p)
  BY <1>3, <1>4, <1>6
<1>8. Sorted(<<n>> \o v[n], Precedes(p))
  BY <1>2, <1>5, <1>6, <1>7, JoinSorted
<1>9. <<n>> \o v[n] \in Seq(Node) /\ ToSet(<<n>> \o v[n]) = ToSet(<<n>>) \cup ToSet(v[n])
  <2> DEFINE one == <<n>>
             all == v[n]
  <2>1. one \in Seq(Node) /\ all \in Seq(Node)
    BY <1>2, <1>6
  <2> HIDE DEF one, all
  <2>2. one \o all \in Seq(Node) /\ ToSet(one \o all) = ToSet(one) \cup ToSet(all)
    BY <2>1, JoinIs
  <2> QED
    BY <2>2 DEF one, all
<1> QED
  BY <1>1, <1>3, <1>6, <1>8, <1>9

LEMMA BodyHolds ==
  ASSUME NEW p, NEW H, Treed(p, H), NEW v, NEW k, \A n \in KidsIn(p, k) : Visited(p, v, n)
  PROVE  /\ BodyOf(p, k, v) \in Seq(Node)
         /\ ToSet(BodyOf(p, k, v)) = UNION {BelowIn(p, n) : n \in KidsIn(p, k)}
         /\ Sorted(BodyOf(p, k, v), Precedes(p))
<1> DEFINE ss == PartsOf(p, k, v)
<1>1. DOMAIN p.rows = 1 .. Len(p.rows) /\ Len(p.rows) \in Nat
  BY InSeq DEF Treed
<1>2. \A i \in DOMAIN p.rows : p.rows[i] \in RowsIn(p)
  BY RowsAreNodes
<1>3. DOMAIN ss = DOMAIN p.rows
  BY DEF PartsOf
<1>4. ASSUME NEW i \in DOMAIN p.rows
      PROVE  \/ /\ p.rows[i] \in KidsIn(p, k)
                /\ ss[i] \in Seq(Node) /\ ToSet(ss[i]) = BelowIn(p, p.rows[i])
                /\ Sorted(ss[i], Precedes(p))
             \/ /\ p.rows[i] \notin KidsIn(p, k)
                /\ ss[i] \in Seq(Node) /\ ToSet(ss[i]) = {} /\ Sorted(ss[i], Precedes(p))
  <2>1. CASE p.parent[p.rows[i]] = k
    <3>1. ss[i] = <<p.rows[i]>> \o v[p.rows[i]]
      BY <2>1 DEF PartsOf
    <3>2. p.rows[i] \in RowsIn(p) /\ p.rows[i] \in KidsIn(p, k)
      BY <1>2, <2>1 DEF KidsIn
    <3>3. Visited(p, v, p.rows[i])
      BY <3>2
    <3> QED
      BY <3>1, <3>2, <3>3, WithSelf
  <2>2. CASE p.parent[p.rows[i]] # k
    <3>1. ss[i] = <<>>
      BY <2>2 DEF PartsOf
    <3>2. DOMAIN <<>> = {} /\ <<>> \in Seq(Node)
      OBVIOUS
    <3>3. ToSet(<<>>) = {} /\ Sorted(<<>>, Precedes(p))
      BY <3>2 DEF ToSet, Sorted, IsInjective
    <3> QED
      BY <2>2, <3>1, <3>2, <3>3 DEF KidsIn
  <2> QED
    BY <2>1, <2>2
<1>5. ss \in Seq(Seq(Node))
  <2>1. ss = [i \in 1 .. Len(p.rows) |-> ss[i]]
    BY <1>1 DEF PartsOf
  <2>2. \A i \in 1 .. Len(p.rows) : ss[i] \in Seq(Node)
    BY <1>1, <1>4
  <2> HIDE DEF ss
  <2>3. ss \in [1 .. Len(p.rows) -> Seq(Node)]
    BY <2>1, <2>2
  <2> QED
    BY <1>1, <2>3
<1> HIDE DEF ss
<1>6. ASSUME NEW i \in DOMAIN ss, NEW j \in DOMAIN ss, i < j
      PROVE  /\ ToSet(ss[i]) \cap ToSet(ss[j]) = {}
             /\ \A y \in ToSet(ss[j]), z \in ToSet(ss[i]) : <<y, z>> \notin Precedes(p)
  <2>1. CASE p.rows[i] \in KidsIn(p, k) /\ p.rows[j] \in KidsIn(p, k)
    <3> DEFINE a == p.rows[i]
               b == p.rows[j]
    <3>1. Earlier(p, a, b) /\ a \in RowsIn(p) /\ b \in RowsIn(p)
      BY <1>3, <1>6, <2>1 DEF Earlier, KidsIn
    <3>2. ToSet(ss[i]) = BelowIn(p, a) /\ ToSet(ss[j]) = BelowIn(p, b)
      BY <1>3, <1>4, <2>1
    <3> HIDE DEF a, b
    <3>3. BelowIn(p, a) \cap BelowIn(p, b) = {}
      <4> SUFFICES ASSUME NEW m \in BelowIn(p, a), m \in BelowIn(p, b) PROVE FALSE
        OBVIOUS
      <4>1. a # b /\ p.parent[a] = p.parent[b]
        BY <3>1, EarlierIs
      <4> QED
        BY <3>1, <4>1, SiblingsApart DEF BelowIn
    <3>4. \A y \in BelowIn(p, b), z \in BelowIn(p, a) : <<y, z>> \notin Precedes(p)
      BY <3>1, SiblingsInOrder DEF BelowIn
    <3> QED
      BY <3>2, <3>3, <3>4
  <2>2. CASE p.rows[i] \notin KidsIn(p, k) \/ p.rows[j] \notin KidsIn(p, k)
    BY <1>3, <1>4, <2>2
  <2> QED
    BY <2>1, <2>2
<1>7. InOrder(ss, Precedes(p))
  BY <1>3, <1>4, <1>6 DEF InOrder
<1>8. UNION {ToSet(ss[i]) : i \in DOMAIN ss} = UNION {BelowIn(p, n) : n \in KidsIn(p, k)}
  <2> DEFINE L == UNION {ToSet(ss[i]) : i \in DOMAIN ss}
             M == UNION {BelowIn(p, n) : n \in KidsIn(p, k)}
  <2>1. ASSUME NEW m \in L PROVE m \in M
    <3>1. PICK i \in DOMAIN ss : m \in ToSet(ss[i])
      BY <2>1
    <3> QED
      BY <1>3, <1>4, <3>1
  <2>2. ASSUME NEW m \in M PROVE m \in L
    <3>1. PICK n \in KidsIn(p, k) : m \in BelowIn(p, n)
      BY <2>2
    <3>2. PICK i \in DOMAIN p.rows : p.rows[i] = n
      BY RowsAreNodes DEF KidsIn
    <3> QED
      BY <1>3, <1>4, <3>1, <3>2
  <2> QED
    BY <2>1, <2>2
<1>9. BodyOf(p, k, v) = FlattenSeq(ss)
  BY DEF BodyOf, ss
<1> QED
  BY <1>5, <1>7, <1>8, <1>9, FlattenHolds

LEMMA AllVisited ==
  ASSUME NEW p, NEW H, Treed(p, H), NEW v, Visits(p, v)
  PROVE  \A n \in RowsIn(p) : Visited(p, v, n)
<1> DEFINE T == {d \in Nat : \A n \in RowsIn(p) : H[n] < d => Visited(p, v, n)}
<1>1. /\ \A n \in RowsIn(p) : H[n] \in Nat /\ n \in Node
      /\ \A k \in RowsIn(p) : \A n \in KidsIn(p, k) : n \in RowsIn(p) /\ H[n] < H[k]
  BY RowsAreNodes DEF Treed, KidsIn
<1>2. 0 \in T
  BY <1>1
<1>3. ASSUME NEW d \in Nat, d \in T PROVE d + 1 \in T
  <2>1. ASSUME NEW n \in RowsIn(p), H[n] < d + 1 PROVE Visited(p, v, n)
    <3>1. ASSUME NEW m \in KidsIn(p, n) PROVE Visited(p, v, m)
      <4>1. m \in RowsIn(p) /\ H[m] < H[n] /\ H[m] \in Nat /\ H[n] \in Nat
        BY <1>1, <2>1
      <4>2. H[m] < d
        BY <2>1, <4>1
      <4> QED
        BY <1>3, <4>1, <4>2
    <3>2. v[n] = BodyOf(p, n, v)
      BY <1>1, <2>1 DEF Visits
    <3>3. UNION {BelowIn(p, k) : k \in KidsIn(p, n)} = BelowIn(p, n) \ {n}
      BY <2>1, BelowUnfolds
    <3> QED
      BY <3>1, <3>2, <3>3, BodyHolds DEF Visited
  <2> QED
    BY <2>1
<1> HIDE DEF T
<1>4. \A d \in Nat : d \in T
  BY <1>2, <1>3, NatInd
<1>5. ASSUME NEW n \in RowsIn(p) PROVE Visited(p, v, n)
  <2>1. H[n] + 1 \in Nat /\ H[n] < H[n] + 1
    BY <1>1
  <2>2. H[n] + 1 \in T
    BY <1>4, <2>1
  <2> QED
    BY <2>1, <2>2 DEF T
<1> QED
  BY <1>5

(* A node whose parent is gone has nothing above and nothing below it. *)
LEMMA OrphansAlone ==
  ASSUME NEW p, NEW H, Treed(p, H), NEW n \in RowsIn(p), p.parent[n] \notin RowsIn(p) \cup {Nil}
  PROVE  /\ \A m : Reach(FamilyOf(p), n, m) => m = n
         /\ \A a \in RowsIn(p) : Reach(FamilyOf(p), a, n) => a = n
<1>1. KidsIn(p, n) = {}
  BY DEF Treed, KidsIn
<1>2. BelowIn(p, n) \ {n} = {}
  BY <1>1, BelowUnfolds
<1>3. ASSUME NEW m, Reach(FamilyOf(p), n, m) PROVE m = n
  BY <1>2, <1>3, UpOne DEF BelowIn
<1>4. ASSUME NEW a \in RowsIn(p), Reach(FamilyOf(p), a, n) PROVE a = n
  BY <1>4, UpOne
<1> QED
  BY <1>3, <1>4

Rooted(p) == UNION {BelowIn(p, n) : n \in KidsIn(p, Nil)}

(* What is not below a root has a parent that is gone. *)
LEMMA UnrootedIsOrphan ==
  ASSUME NEW p, NEW H, Treed(p, H), NEW n \in RowsIn(p), n \notin Rooted(p)
  PROVE  p.parent[n] \notin RowsIn(p) \cup {Nil}
<1> DEFINE Bad == {m \in RowsIn(p) : m \notin Rooted(p) /\ p.parent[m] \in RowsIn(p) \cup {Nil}}
           Heights == {H[m] : m \in Bad}
<1>1. PICK top \in Nat : \A k \in Node \cup {Nil} : H[k] < top
  BY DEF Treed
<1>2. \A m \in RowsIn(p) : H[m] \in Nat /\ m \in Node
  BY RowsAreNodes DEF Treed
<1>3. ASSUME Bad # {} PROVE FALSE
  <2>1. Heights # {} /\ Heights \subseteq 0 .. top
    BY <1>1, <1>2, <1>3
  <2>2. PICK h \in Heights : \A l \in Heights : l <= h
    BY <2>1, GreatestNat
  <2>3. PICK m \in Bad : h = H[m]
    BY <2>2
  <2>4. CASE p.parent[m] = Nil
    <3>1. m \in KidsIn(p, Nil) /\ m \in BelowIn(p, m)
      BY <2>3, <2>4, BelowUnfolds DEF KidsIn
    <3> QED
      BY <2>3, <3>1 DEF Rooted
  <2>5. CASE p.parent[m] \in RowsIn(p)
    <3> DEFINE k == p.parent[m]
    <3>1. H[m] < H[k] /\ p.parent[k] \in RowsIn(p) \cup {Nil} /\ k \in RowsIn(p)
      BY <2>3, <2>5 DEF Treed
    <3>2. k \notin Bad
      <4> SUFFICES ASSUME k \in Bad PROVE FALSE
        OBVIOUS
      <4>1. H[k] <= h /\ H[k] \in Nat /\ h \in Nat
        BY <1>2, <2>2, <2>1
      <4> QED
        BY <2>3, <3>1, <4>1
    <3>3. PICK r \in KidsIn(p, Nil) : k \in BelowIn(p, r)
      BY <3>1, <3>2 DEF Rooted
    <3>4. m \in BelowIn(p, r)
      BY <2>3, <2>5, <3>3, DownOne DEF BelowIn
    <3> QED
      BY <2>3, <3>4 DEF Rooted
  <2> QED
    BY <2>3, <2>4, <2>5
<1> QED
  BY <1>3

(* The document order lists every row once, and what must come before what *)
(* does.                                                                   *)
LEMMA OrderHolds ==
  ASSUME NEW p, NEW H, Treed(p, H)
  PROVE  /\ DocumentOrder(p) \in Seq(Node) /\ ToSet(DocumentOrder(p)) = RowsIn(p)
         /\ Sorted(DocumentOrder(p), Precedes(p))
<1> DEFINE v == CHOOSE w : Visits(p, w)
           R == Precedes(p)
           Rest == RowsIn(p) \ ToSet(v[Nil])
<1>1. DocumentOrder(p) = v[Nil] \o Keep(p.rows, Rest)
  BY DEF DocumentOrder, Visits, BodyOf, PartsOf, RowsIn
<1>2. Visits(p, v)
  BY VisitExists
<1> HIDE DEF v
<1>3. v[Nil] = BodyOf(p, Nil, v)
  BY <1>2 DEF Visits
<1>4. \A n \in KidsIn(p, Nil) : Visited(p, v, n)
  BY <1>2, AllVisited DEF KidsIn
<1>5. v[Nil] \in Seq(Node) /\ ToSet(v[Nil]) = Rooted(p) /\ Sorted(v[Nil], R)
  BY <1>3, <1>4, BodyHolds DEF Rooted
<1>6. Rest = RowsIn(p) \ Rooted(p) /\ Rooted(p) \subseteq RowsIn(p)
  BY <1>5 DEF Rooted, BelowIn
<1> HIDE DEF Rest
<1>7. p.rows \in Seq(Node) /\ IsInjective(p.rows) /\ DOMAIN p.rows = 1 .. Len(p.rows)
  BY InSeq DEF Treed
<1>8. ASSUME NEW i \in DOMAIN p.rows, NEW j \in DOMAIN p.rows, p.rows[i] \in Rest, p.rows[j] \in Rest,
             <<p.rows[i], p.rows[j]>> \in R
      PROVE  i < j
  <2> DEFINE n == p.rows[i]
             m == p.rows[j]
  <2>0. n \in RowsIn(p) /\ m \in RowsIn(p) /\ n \notin Rooted(p) /\ m \notin Rooted(p)
    BY <1>6, <1>8
  <2>1. p.parent[n] \notin RowsIn(p) \cup {Nil} /\ p.parent[m] \notin RowsIn(p) \cup {Nil}
    BY <2>0, UnrootedIsOrphan
  <2>2. <<n, m>> \in R
    BY <1>8
  <2> HIDE DEF n, m
  <2>3. ~(n # m /\ Reach(FamilyOf(p), n, m))
    BY <2>0, <2>1, OrphansAlone
  <2>4. PICK a \in RowsIn(p), b \in RowsIn(p) :
          Earlier(p, a, b) /\ Reach(FamilyOf(p), a, n) /\ Reach(FamilyOf(p), b, m)
    BY <2>2, <2>3 DEF Precedes
  <2>5. a = n /\ b = m
    BY <2>0, <2>1, <2>4, OrphansAlone
  <2>6. PICK k \in DOMAIN p.rows, l \in DOMAIN p.rows : k < l /\ p.rows[k] = n /\ p.rows[l] = m
    BY <2>4, <2>5 DEF Earlier
  <2>7. k = i /\ l = j
    BY <1>7, <2>6 DEF IsInjective, n, m
  <2> QED
    BY <2>6, <2>7
<1>9. /\ Keep(p.rows, Rest) \in Seq(Node) /\ ToSet(Keep(p.rows, Rest)) = Rest
      /\ Sorted(Keep(p.rows, Rest), R)
  <2>1. ToSet(p.rows) \cap Rest = Rest
    BY <1>6 DEF RowsIn
  <2>2. Sorted(Keep(p.rows, Rest), R)
    BY <1>7, <1>8, KeepHolds
  <2>3. Keep(p.rows, Rest) \in Seq(Node) /\ ToSet(Keep(p.rows, Rest)) = ToSet(p.rows) \cap Rest
    BY <1>7, KeepHolds
  <2> QED
    BY <2>1, <2>2, <2>3
<1>10. ASSUME NEW y \in Rest, NEW z \in Rooted(p) PROVE <<y, z>> \notin R
  <2>0. y \in RowsIn(p) /\ z \in RowsIn(p) /\ y \notin Rooted(p)
    BY <1>6
  <2>1. p.parent[y] \notin RowsIn(p) \cup {Nil}
    BY <2>0, UnrootedIsOrphan
  <2>2. ~(y # z /\ Reach(FamilyOf(p), y, z))
    BY <2>0, <2>1, OrphansAlone
  <2>3. ASSUME NEW a \in RowsIn(p), NEW b \in RowsIn(p),
               Earlier(p, a, b), Reach(FamilyOf(p), a, y), Reach(FamilyOf(p), b, z)
        PROVE  FALSE
    <3>1. a = y
      BY <2>0, <2>1, <2>3, OrphansAlone
    <3>2. p.parent[b] \notin RowsIn(p) \cup {Nil}
      BY <2>1, <2>3, <3>1 DEF Earlier
    <3>3. z = b
      BY <2>3, <3>2, OrphansAlone
    <3>4. PICK r \in KidsIn(p, Nil) : b \in BelowIn(p, r)
      BY <3>3 DEF Rooted
    <3>5. r \in RowsIn(p) /\ p.parent[r] = Nil /\ Reach(FamilyOf(p), r, b)
      BY <3>4 DEF KidsIn, BelowIn
    <3>6. r = b
      BY <3>2, <3>5, OrphansAlone
    <3> QED
      BY <3>2, <3>5, <3>6
  <2> QED
    BY <2>2, <2>3 DEF Precedes
<1> DEFINE last == Keep(p.rows, Rest)
<1>11. ToSet(v[Nil]) \cap ToSet(last) = {} /\ \A y \in ToSet(last), z \in ToSet(v[Nil]) : <<y, z>> \notin R
  BY <1>5, <1>6, <1>9, <1>10
<1>12. ToSet(v[Nil]) \cup ToSet(last) = RowsIn(p)
  BY <1>5, <1>6, <1>9
<1>13. last \in Seq(Node) /\ Sorted(last, R)
  BY <1>9
<1> HIDE DEF last
<1>14. Sorted(v[Nil] \o last, R)
  BY <1>5, <1>11, <1>13, JoinSorted
<1>15. v[Nil] \o last \in Seq(Node) /\ ToSet(v[Nil] \o last) = RowsIn(p)
  <2> DEFINE first == v[Nil]
  <2>1. first \in Seq(Node) /\ ToSet(first) \cup ToSet(last) = RowsIn(p)
    BY <1>5, <1>12
  <2> HIDE DEF first
  <2>2. first \o last \in Seq(Node) /\ ToSet(first \o last) = RowsIn(p)
    BY <1>13, <2>1, JoinIs
  <2> QED
    BY <2>2 DEF first
<1> QED
  BY <1>1, <1>14, <1>15 DEF last

(* A sequence without repetition is as long as the set it lists.           *)
LEMMA AsLong ==
  ASSUME NEW S, NEW s \in Seq(S), IsInjective(s)
  PROVE  IsFiniteSet(ToSet(s)) /\ Cardinality(ToSet(s)) = Len(s)
<1>1. DOMAIN s = 1 .. Len(s) /\ Len(s) \in Nat /\ ToSet(s) = {s[i] : i \in 1 .. Len(s)}
  BY InSeq
<1>2. s \in [1 .. Len(s) -> ToSet(s)]
  <2>1. s \in [1 .. Len(s) -> S]
    BY LenProperties
  <2> QED
    BY <1>1, <2>1
<1>3. s \in Bijection(1 .. Len(s), ToSet(s))
  BY <1>1, <1>2 DEF IsInjective, Bijection, Injection, Surjection
<1>4. ExistsBijection(1 .. Len(s), ToSet(s))
  BY <1>3 DEF ExistsBijection
<1>5. IsFiniteSet(1 .. Len(s)) /\ Cardinality(1 .. Len(s)) = Len(s)
  BY <1>1, FS_Interval
<1> QED
  BY <1>4, <1>5, FS_Bijection

(* buildDocumentOrder is depth first, whatever forest the plan is.         *)
THEOREM OrderIsDepthFirst ==
  ASSUME NEW H, Treed(plan, H), RowsIn(plan) = InPlan
  PROVE  DepthFirst
<1> DEFINE order == DocumentOrder(plan)
           rank == [n \in InPlan |-> CHOOSE i \in DOMAIN order : order[i] = n]
           subtree == [n \in InPlan |-> Subtree(n)]
<1>1. order \in Seq(Node) /\ ToSet(order) = InPlan /\ Sorted(order, Precedes(plan))
  BY OrderHolds
<1>2. ParentEdges = FamilyOf(plan) /\ \A n \in InPlan : subtree[n] = BelowIn(plan, n)
  BY DEF ParentEdges, FamilyOf, Subtree, BelowIn
<1> HIDE DEF order, subtree
<1>3. Len(order) = Cardinality(InPlan)
  <2>1. IsInjective(order)
    BY <1>1 DEF Sorted
  <2> QED
    BY <1>1, <2>1, AsLong
<1>4. \A n \in InPlan : rank[n] \in DOMAIN order /\ order[rank[n]] = n
  BY <1>1 DEF ToSet
<1> HIDE DEF rank
<1>5. ASSUME NEW a \in InPlan, NEW b \in InPlan, <<a, b>> \in Precedes(plan) PROVE rank[a] < rank[b]
  BY <1>1, <1>4, <1>5 DEF Sorted
<1>6. ASSUME NEW n \in InPlan, NEW m \in subtree[n] \ {n} PROVE rank[n] < rank[m]
  <2>1. m \in InPlan /\ Reach(FamilyOf(plan), n, m)
    BY <1>2, <1>6 DEF BelowIn
  <2>2. <<n, m>> \in Precedes(plan)
    BY <2>1 DEF Precedes
  <2> QED
    BY <1>5, <2>1, <2>2
<1>7. ASSUME NEW i \in DOMAIN plan.rows, NEW j \in DOMAIN plan.rows, i < j,
             plan.parent[plan.rows[i]] = plan.parent[plan.rows[j]],
             NEW a \in subtree[plan.rows[i]], NEW b \in subtree[plan.rows[j]]
      PROVE  rank[a] < rank[b]
  <2> DEFINE n == plan.rows[i]
             m == plan.rows[j]
  <2>1. n \in InPlan /\ m \in InPlan /\ Earlier(plan, n, m)
    BY <1>7, RowsAreNodes DEF Earlier
  <2>2. a \in BelowIn(plan, n) /\ b \in BelowIn(plan, m)
    BY <1>2, <1>7, <2>1
  <2> HIDE DEF n, m
  <2>3. <<a, b>> \in Precedes(plan) /\ a \in InPlan /\ b \in InPlan
    BY <2>1, <2>2 DEF Precedes, BelowIn
  <2> QED
    BY <1>5, <2>3
<1> QED
  BY <1>1, <1>3, <1>6, <1>7 DEF DepthFirst, order, rank, subtree

-----------------------------------------------------------------------------
(* NextTasks. Proof that suggestions agree with the schedule: both mean by *)
(* ready that no open task blocks.                                         *)
LEMMA FirstLayerIs ==
  ASSUME Scheduled, IsFiniteSet(Node)
  PROVE  Layers(plan)[0] = {t \in OpenWork : \A s : <<s, t>> \notin BlocksIn}
<1>1. Layers(plan)[0] = Still(0 + 1) \ Still(0)
  <2>1. 0 \in 0 .. Cardinality(OpenWork)
    BY BlocksInAre, FS_CardinalityType
  <2> QED
    BY <2>1, LayerIs
<1>2. /\ Still(0) = {}
      /\ \A n \in OpenWork : n \in Still(0 + 1) <=> \A s : <<s, n>> \in BlocksIn => s \in Still(0)
  BY StillGrows
<1>3. Still(0 + 1) \subseteq OpenWork
  BY DEF Still
<1> QED
  BY <1>1, <1>2, <1>3

LEMMA NextIs ==
  ASSUME NEW H, Treed(plan, H)
  PROVE  /\ NextTasks(plan) \in Seq(Node)
         /\ ToSet(NextTasks(plan)) =
              {n \in Work(plan) \ plan.claimed :
                 plan.status[n] \in {"not_started", "plan_ready"} /\ IsReady(plan, n)}
<1> DEFINE G == {n \in Work(plan) \ plan.claimed :
                   plan.status[n] \in {"not_started", "plan_ready"} /\ IsReady(plan, n)}
<1>1. NextTasks(plan) = Keep(DocumentOrder(plan), G)
  BY DEF NextTasks
<1>2. G \subseteq RowsIn(plan)
  BY DEF Work, RowsIn
<1> HIDE DEF G
<1>3. DocumentOrder(plan) \in Seq(Node) /\ ToSet(DocumentOrder(plan)) = RowsIn(plan)
  BY OrderHolds
<1>4. /\ Keep(DocumentOrder(plan), G) \in Seq(Node)
      /\ ToSet(Keep(DocumentOrder(plan), G)) = ToSet(DocumentOrder(plan)) \cap G
  BY <1>3, KeepHolds
<1>5. ToSet(NextTasks(plan)) = G
  BY <1>1, <1>2, <1>3, <1>4
<1> QED
  BY <1>1, <1>4, <1>5 DEF G

(* suggestNextTasks of contextEngine.js finds exactly what topologicalSort *)
(* of reasoning.js has in its first layer and nobody has begun or claimed, *)
(* as long as no phase blocks anything.                                    *)
THEOREM SuggestionsAreFirstLayer ==
  ASSUME Scheduled, IsFiniteSet(Node), NEW H, Treed(plan, H),
         \A n \in InPlan \ {ph} : plan.type[n] \in TaskTypes \cup {"root"}
  PROVE  SuggestionsAgree
<1> SUFFICES ASSUME \A d \in plan.deps : d.source # ph
             PROVE  ToSet(NextTasks(plan)) =
                      {t \in Layers(plan)[0] \ plan.claimed :
                         plan.status[t] \in {"not_started", "plan_ready"}}
  BY DEF SuggestionsAgree
<1>1. ASSUME NEW t \in Work(plan), IsReady(plan, t), plan.status[t] # "completed"
      PROVE  t \in Layers(plan)[0]
  <2>1. t \in OpenWork
    BY <1>1 DEF OpenWork, Open
  <2>2. ASSUME NEW s, <<s, t>> \in BlocksIn PROVE FALSE
    <3>1. PICK d \in ScheduleDeps(plan) : d.source = s /\ d.target = t
      BY <2>2, BlocksInAre
    <3>2. d \in PlanDeps(plan) /\ d.type \in Blocking /\ d.source \in Open(plan, Work(plan))
      BY DEF ScheduleDeps
    <3>3. plan.status[s] = "completed"
      BY <1>1, <3>1, <3>2 DEF IsReady
    <3> QED
      BY <3>1, <3>2, <3>3 DEF Open
  <2> QED
    BY <2>1, <2>2, FirstLayerIs
<1>2. ASSUME NEW t \in Layers(plan)[0] PROVE t \in Work(plan) /\ IsReady(plan, t)
  <2>1. t \in OpenWork /\ \A s : <<s, t>> \notin BlocksIn
    BY <1>2, FirstLayerIs
  <2>2. ASSUME NEW d \in PlanDeps(plan), d.type \in Blocking, d.target = t,
               plan.status[d.source] # "completed"
        PROVE  FALSE
    <3>1. d \in plan.deps /\ d.source \in ToSet(plan.rows)
      BY DEF PlanDeps
    <3>2. d.source \in InPlan \ {ph} /\ plan.type[d.source] # "root"
      BY <3>1 DEF Scheduled, Whole
    <3>3. d.source \in OpenWork
      BY <2>2, <3>1, <3>2 DEF OpenWork, Open, Work
    <3>4. d \in ScheduleDeps(plan)
      BY <2>1, <2>2, <3>3 DEF ScheduleDeps, OpenWork
    <3> QED
      BY <2>1, <2>2, <3>4, BlocksInAre
  <2> QED
    BY <2>1, <2>2 DEF IsReady, OpenWork, Open
<1>3. Layers(plan)[0] \subseteq OpenWork
  BY FirstLayerIs
<1> QED
  BY <1>1, <1>2, <1>3, NextIs

-----------------------------------------------------------------------------
LEMMA NothingLeft ==
  ASSUME NEW S, NEW s \in Seq(S)
  PROVE  s = <<>> <=> ToSet(s) = {}
<1>1. Len(s) \in Nat /\ ToSet(s) = {s[i] : i \in 1 .. Len(s)}
  BY InSeq
<1>2. ASSUME s = <<>> PROVE ToSet(s) = {}
  <2>1. Len(s) = 0
    BY <1>2, EmptySeq
  <2>2. 1 .. Len(s) = {}
    BY <2>1
  <2> QED
    BY <1>1, <2>2
<1>3. ASSUME s # <<>> PROVE ToSet(s) # {}
  <2>1. Len(s) # 0
    BY <1>3, EmptySeq
  <2>2. 1 \in 1 .. Len(s)
    BY <1>1, <2>1
  <2> QED
    BY <1>1, <2>2
<1> QED
  BY <1>2, <1>3

(* chooseTask answers with what is begun or suggested first, if anything is. *)
LEMMA ChoiceIs ==
  ASSUME Scheduled, NEW H, Treed(plan, H), NEW anew \in BOOLEAN
  PROVE  ChooseTask(plan, anew).node = Nil <=> (anew \/ Started = {}) /\ ToSet(NextTasks(plan)) = {}
<1> DEFINE S == {n \in Work(plan) : plan.type[n] = "task" /\ plan.status[n] = "in_progress"}
           started == Keep(DocumentOrder(plan), S)
           next == NextTasks(plan)
<1>1. S = Started
  BY DEF Started, OpenWork, Open
<1>2. started \in Seq(Node) /\ ToSet(started) = S
  <2>1. DocumentOrder(plan) \in Seq(Node) /\ ToSet(DocumentOrder(plan)) = RowsIn(plan)
    BY OrderHolds
  <2>2. S \subseteq RowsIn(plan)
    BY DEF Work, RowsIn
  <2> HIDE DEF S
  <2>3. Keep(DocumentOrder(plan), S) \in Seq(Node)
    BY <2>1, KeepHolds
  <2>4. ToSet(Keep(DocumentOrder(plan), S)) = RowsIn(plan) \cap S
    BY <2>1, KeepHolds
  <2> QED
    BY <2>2, <2>3, <2>4
<1>3. next \in Seq(Node)
  BY NextIs
<1> DEFINE waiting == {n \in ToSet(plan.rows) : plan.type[n] = "task" /\ plan.status[n] = "not_started"}
           resumed == ~anew /\ started # <<>>
           choice ==
             CASE ~anew /\ started # <<>> -> [node |-> Head(started), why |-> "resume_in_progress"]
               [] (anew \/ started = <<>>) /\ next # <<>> -> [node |-> Head(next), why |-> "suggest_next_tasks"]
               [] (anew \/ started = <<>>) /\ next = <<>> ->
                    [node |-> Nil, why |-> IF waiting # {} THEN "blocked_on_dep" ELSE "no_work_in_scope"]
<1>4. ChooseTask(plan, anew) = choice
  BY DEF ChooseTask
<1> HIDE DEF S, started, next, waiting
<1>5. started # <<>> => Head(started) \in Node
  BY <1>2, HeadTailProperties, EmptySeq
<1>6. next # <<>> => Head(next) \in Node
  BY <1>3, HeadTailProperties, EmptySeq
<1>7. Nil \notin Node
  BY PQAssumption DEF PQAssumption
<1>8. (started = <<>> <=> S = {}) /\ (next = <<>> <=> ToSet(next) = {})
  <2>1. started = <<>> <=> ToSet(started) = {}
    BY <1>2, NothingLeft
  <2>2. next = <<>> <=> ToSet(next) = {}
    BY <1>3, NothingLeft
  <2> QED
    BY <1>2, <2>1, <2>2
<1>9. choice.node = Nil <=> (anew \/ started = <<>>) /\ next = <<>>
  <2>1. CASE ~anew /\ started # <<>>
    <3>1. choice = [node |-> Head(started), why |-> "resume_in_progress"]
      BY <2>1
    <3> QED
      BY <1>5, <1>7, <2>1, <3>1
  <2>2. CASE (anew \/ started = <<>>) /\ next # <<>>
    <3>1. choice = [node |-> Head(next), why |-> "suggest_next_tasks"]
      BY <2>2
    <3> QED
      BY <1>6, <1>7, <2>2, <3>1
  <2>3. CASE (anew \/ started = <<>>) /\ next = <<>>
    <3>1. choice.node = Nil
      BY <2>3
    <3> QED
      BY <2>3, <3>1
  <2> QED
    BY <2>1, <2>2, <2>3
<1> HIDE DEF choice
<1> QED
  BY <1>1, <1>4, <1>8, <1>9 DEF next

(* Of the open work without a circle that waits for nothing idle and is not  *)
(* idle itself, something is in the first layer of the schedule.            *)
LEMMA FirstOfTheUnspoilt ==
  ASSUME Scheduled, IsFiniteSet(Node), Acyclic(BlocksIn),
         NEW B, B \subseteq OpenWork, B # {},
         \A e \in BlocksIn : e[2] \in B => e[1] \in B
  PROVE  \E t \in B : t \in Layers(plan)[0]
<1> DEFINE layers == Layers(plan)
           cyclic == {e \in BlocksIn : Reach(BlocksIn, e[2], e[1])}
           listed == UNION {layers[k] : k \in DOMAIN layers}
           layer == [t \in listed |-> CHOOSE k \in DOMAIN layers : t \in layers[k]]
<1>1. cyclic = {}
  BY DEF Acyclic
<1>2. /\ listed = {t \in OpenWork : \A e \in cyclic : ~Reach(BlocksIn, e[1], t)}
      /\ \A t \in listed :
           LET before == {e[1] : e \in {f \in BlocksIn : f[2] = t}}
           IN  layer[t] > 0 => \E b \in before : layer[b] = layer[t] - 1
  BY ScheduleIsExact DEF LayersExact
<1>3. listed = OpenWork
  BY <1>1, <1>2
<1>4. DOMAIN layers \subseteq Nat
  BY LayerIs
<1> HIDE DEF layers, cyclic
<1>5. \A t \in OpenWork : layer[t] \in Nat /\ t \in layers[layer[t]]
  BY <1>3, <1>4
<1> HIDE DEF listed, layer
<1>6. PICK t \in B : \A n \in B : layer[t] <= layer[n]
  <2> DEFINE L == {layer[n] : n \in B}
  <2>1. PICK k \in L : \A l \in L : k <= l
    <3>1. L # {} /\ L \subseteq Nat
      BY <1>5
    <3> HIDE DEF L
    <3> QED
      BY <3>1, SmallestNat
  <2> QED
    BY <2>1
<1>7. layer[t] = 0
  <2>1. ASSUME layer[t] > 0 PROVE FALSE
    <3>1. PICK e \in BlocksIn : e[2] = t /\ layer[e[1]] = layer[t] - 1
      BY <1>2, <1>3, <2>1
    <3>2. e[1] \in B
      BY <3>1
    <3>3. layer[t] <= layer[t] - 1
      BY <1>6, <3>1, <3>2
    <3> QED
      BY <1>5, <3>3
  <2> QED
    BY <1>5, <2>1
<1> QED
  BY <1>5, <1>7 DEF layers

(* chooseTask of agentLoop.service.js sends an agent away exactly if all    *)
(* open work is idle (blocked, begun, set aside or claimed) or waits, over   *)
(* any number of edges, for work that is, whatever statuses and claims are.  *)
THEOREM ThereIsWork ==
  ASSUME Scheduled, IsFiniteSet(Node), NEW H, Treed(plan, H),
         \A n \in InPlan \ {ph} : plan.type[n] \in TaskTypes \cup {"root"}
  PROVE  WorkToOffer
<1> SUFFICES ASSUME Acyclic(BlocksIn), \A d \in plan.deps : d.source # ph
             PROVE  ToSet(NextTasks(plan)) = {} <=>
                      \A t \in OpenWork : \E u \in Idle : Reach(BlocksIn, u, t)
  BY ChoiceIs DEF WorkToOffer
<1>1. ToSet(NextTasks(plan)) =
        {t \in Layers(plan)[0] \ plan.claimed : plan.status[t] \in {"not_started", "plan_ready"}}
  BY SuggestionsAreFirstLayer DEF SuggestionsAgree
<1>2. Layers(plan)[0] = {t \in OpenWork : \A s : <<s, t>> \notin BlocksIn}
  BY FirstLayerIs
<1>3. /\ OpenWork \subseteq Node /\ Idle \subseteq OpenWork
      /\ \A e \in BlocksIn : e = <<e[1], e[2]>> /\ e[1] \in OpenWork /\ e[2] \in OpenWork
  BY BlocksInAre DEF Idle
<1>4. ASSUME ToSet(NextTasks(plan)) = {}
      PROVE  \A t \in OpenWork : \E u \in Idle : Reach(BlocksIn, u, t)
  <2> DEFINE B == {t \in OpenWork : \A u \in Idle : ~Reach(BlocksIn, u, t)}
  <2>1. \A e \in BlocksIn : e[2] \in B => e[1] \in B
    <3> SUFFICES ASSUME NEW e \in BlocksIn, NEW u \in Idle, Reach(BlocksIn, u, e[1])
                 PROVE  Reach(BlocksIn, u, e[2])
      BY <1>3
    <3> QED
      BY DEF Reach, Closed
  <2>2. \A t \in B : t \notin Idle
    BY DEF Reach
  <2>3. ASSUME B # {} PROVE FALSE
    <3>1. B \subseteq OpenWork
      OBVIOUS
    <3>2. PICK t \in B : t \in Layers(plan)[0]
      <4> HIDE DEF B
      <4> QED
        BY <2>1, <2>3, <3>1, FirstOfTheUnspoilt
    <3>3. t \notin plan.claimed /\ plan.status[t] \in {"not_started", "plan_ready"}
      BY <2>2, <3>1 DEF Idle
    <3>4. t \in ToSet(NextTasks(plan))
      BY <1>1, <3>2, <3>3
    <3> QED
      BY <1>4, <3>4
  <2> QED
    BY <2>3
<1>5. ASSUME \A t \in OpenWork : \E u \in Idle : Reach(BlocksIn, u, t)
      PROVE  ToSet(NextTasks(plan)) = {}
  <2> SUFFICES ASSUME NEW t \in Layers(plan)[0] \ plan.claimed,
                      plan.status[t] \in {"not_started", "plan_ready"}
               PROVE  FALSE
    BY <1>1
  <2>1. t \in OpenWork /\ t \notin Idle
    BY <1>2 DEF Idle
  <2>2. PICK u \in Idle : Reach(BlocksIn, u, t)
    BY <1>5, <2>1
  <2> DEFINE S == Node \ {t}
  <2>3. u \in S
    BY <1>3, <2>1
  <2>4. Closed(BlocksIn, S)
    BY <1>2, <1>3 DEF Closed
  <2> QED
    BY <2>2, <2>3, <2>4 DEF Reach
<1> QED
  BY <1>4, <1>5

LEMMA NodesDiffer ==
  /\ Node = {g, ph, t1, t2, t3, x} /\ InPlan = {g, ph, t1, t2, t3}
  /\ g # ph /\ g # t1 /\ g # t2 /\ g # t3 /\ g # x /\ ph # t1 /\ ph # t2 /\ ph # t3 /\ ph # x
  /\ t1 # t2 /\ t1 # t3 /\ t1 # x /\ t2 # t3 /\ t2 # x /\ t3 # x
  /\ Nil \notin Node
<1>1. /\ Node = {g, ph, t1, t2, t3, x}
      /\ x \notin {g, ph, t1, t2, t3} /\ g \notin {ph, t1, t2, t3} /\ ph \notin {t1, t2, t3}
      /\ t1 # t2 /\ t1 # t3 /\ t2 # t3
  BY QueriesAssumption DEF QueriesAssumption
<1>2. Nil \notin Node
  BY PQAssumption DEF PQAssumption
<1> QED
  BY <1>1, <1>2 DEF InPlan

LEMMA FiveRows ==
  ASSUME NEW S, NEW n1 \in S, NEW n2 \in S, NEW n3 \in S, NEW n4 \in S, NEW n5 \in S,
         n1 \notin {n2, n3, n4, n5}, n2 \notin {n3, n4, n5}, n3 \notin {n4, n5}, n4 # n5
  PROVE  /\ <<n1, n2, n3, n4, n5>> \in Seq(S)
         /\ ToSet(<<n1, n2, n3, n4, n5>>) = {n1, n2, n3, n4, n5}
         /\ IsInjective(<<n1, n2, n3, n4, n5>>)
<1> DEFINE s == <<n1, n2, n3, n4, n5>>
<1>1. DOMAIN s = 1 .. 5 /\ s[1] = n1 /\ s[2] = n2 /\ s[3] = n3 /\ s[4] = n4 /\ s[5] = n5
  OBVIOUS
<1>2. 1 .. 5 = {1, 2, 3, 4, 5}
  OBVIOUS
<1>3. s \in Seq(S)
  OBVIOUS
<1> HIDE DEF s
<1>4. {s[i] : i \in DOMAIN s} = {n1, n2, n3, n4, n5}
  BY <1>1, <1>2
<1>5. IsInjective(s)
  BY <1>1, <1>2 DEF IsInjective
<1> QED
  BY <1>3, <1>4, <1>5 DEF ToSet, s

(* The heights of the nodes in each of the three trees. *)
High == [n \in Node \cup {Nil} |-> IF n = g THEN 5 ELSE IF n = ph THEN 4 ELSE IF n \in {t2, t3} THEN 3
                                   ELSE IF n = t1 THEN 2 ELSE 6]

LEMMA TreesAreTreed ==
  ASSUME NEW t \in Trees
  PROVE  Treed(t, High) /\ RowsIn(t) = InPlan
<1>1. /\ Node = {g, ph, t1, t2, t3, x} /\ InPlan = {g, ph, t1, t2, t3}
      /\ g # ph /\ g # t1 /\ g # t2 /\ g # t3 /\ g # x /\ ph # t1 /\ ph # t2 /\ ph # t3 /\ ph # x
      /\ t1 # t2 /\ t1 # t3 /\ t1 # x /\ t2 # t3 /\ t2 # x /\ t3 # x
      /\ Nil \notin Node
  BY NodesDiffer
<1>2. t.rows \in Seq(Node) /\ IsInjective(t.rows) /\ RowsIn(t) = InPlan
  <2>1. t.rows = <<g, t3, t2, ph, t1>> \/ t.rows = <<t3, g, t1, ph, t2>> \/ t.rows = <<t1, g, ph, t2, t3>>
    BY DEF Trees
  <2>2. CASE t.rows = <<g, t3, t2, ph, t1>>
    BY <1>1, <2>2, FiveRows DEF RowsIn
  <2>3. CASE t.rows = <<t3, g, t1, ph, t2>>
    BY <1>1, <2>3, FiveRows DEF RowsIn
  <2>4. CASE t.rows = <<t1, g, ph, t2, t3>>
    BY <1>1, <2>4, FiveRows DEF RowsIn
  <2> QED
    BY <2>1, <2>2, <2>3, <2>4
<1>3. /\ t.parent \in [Node -> Node \cup {Nil}]
      /\ t.parent[g] = Nil /\ t.parent[ph] = g /\ t.parent[t3] \in {g, ph} /\ t.parent[t2] \in {g, ph}
      /\ t.parent[t1] \in {ph, x} \/ t.parent[t1] = t2
  <2> DEFINE first == [n \in Node |-> CASE n = g -> Nil [] n \in {ph, t3} -> g
                                        [] n \in {t1, t2} -> ph [] n = x -> Nil]
             second == [n \in Node |-> CASE n = g -> Nil [] n \in {ph, t2} -> g
                                         [] n = t3 -> ph [] n = t1 -> t2 [] n = x -> Nil]
             third == [n \in Node |-> CASE n = g -> Nil [] n = ph -> g [] n = t1 -> x
                                        [] n \in {t2, t3} -> ph [] n = x -> Nil]
  <2>1. t.parent = first \/ t.parent = second \/ t.parent = third
    <3>1. \/ t = [rows |-> <<g, t3, t2, ph, t1>>, parent |-> first]
          \/ t = [rows |-> <<t3, g, t1, ph, t2>>, parent |-> second]
          \/ t = [rows |-> <<t1, g, ph, t2, t3>>, parent |-> third]
      BY Zenon DEF Trees
    <3> HIDE DEF first, second, third
    <3> QED
      BY <3>1
  <2>2. /\ first[g] = Nil /\ first[ph] = g /\ first[t3] = g /\ first[t2] = ph /\ first[t1] = ph /\ first[x] = Nil
        /\ DOMAIN first = Node /\ first = [n \in Node |-> first[n]]
    BY <1>1
  <2>3. /\ second[g] = Nil /\ second[ph] = g /\ second[t3] = ph /\ second[t2] = g /\ second[t1] = t2
        /\ second[x] = Nil /\ second = [n \in Node |-> second[n]]
    BY <1>1
  <2>4. /\ third[g] = Nil /\ third[ph] = g /\ third[t3] = ph /\ third[t2] = ph /\ third[t1] = x /\ third[x] = Nil
        /\ third = [n \in Node |-> third[n]]
    BY <1>1
  <2> HIDE DEF first, second, third
  <2>5. CASE t.parent = first
    <3>1. \A n \in Node : first[n] \in Node \cup {Nil}
      BY <1>1, <2>2
    <3>2. first \in [Node -> Node \cup {Nil}]
      BY <2>2, <3>1
    <3> QED
      BY <2>2, <2>5, <3>2
  <2>6. CASE t.parent = second
    <3>1. \A n \in Node : second[n] \in Node \cup {Nil}
      BY <1>1, <2>3
    <3>2. second \in [Node -> Node \cup {Nil}]
      BY <2>3, <3>1
    <3> QED
      BY <2>3, <2>6, <3>2
  <2>7. CASE t.parent = third
    <3>1. \A n \in Node : third[n] \in Node \cup {Nil}
      BY <1>1, <2>4
    <3>2. third \in [Node -> Node \cup {Nil}]
      BY <2>4, <3>1
    <3> QED
      BY <2>4, <2>7, <3>2
  <2> QED
    BY <2>1, <2>5, <2>6, <2>7
<1>4. /\ High \in [Node \cup {Nil} -> Nat] /\ \A k \in Node \cup {Nil} : High[k] < 7
      /\ High[g] = 5 /\ High[ph] = 4 /\ High[t2] = 3 /\ High[t3] = 3 /\ High[t1] = 2
      /\ High[x] = 6 /\ High[Nil] = 6
  BY <1>1 DEF High
<1>5. \A n \in InPlan : High[n] < High[t.parent[n]]
  BY <1>1, <1>3, <1>4
<1>6. \A n \in InPlan : t.parent[n] \in InPlan => t.parent[t.parent[n]] \in InPlan \cup {Nil}
  BY <1>1, <1>3
<1>7. \E top \in Nat : \A k \in Node \cup {Nil} : High[k] < top
  BY <1>4
<1> QED
  BY <1>2, <1>3, <1>4, <1>5, <1>6, <1>7 DEF Treed

-----------------------------------------------------------------------------
(* Ranked. The place of an element is how many come up to it.              *)
UpTo(s, f, i) == {j \in DOMAIN s : f[s[j]] > f[s[i]] \/ (f[s[j]] = f[s[i]] /\ j <= i)}
Ahead(s, f, i, j) == f[s[i]] > f[s[j]] \/ (f[s[i]] = f[s[j]] /\ i < j)
Place(s, f) == [i \in DOMAIN s |-> Cardinality(UpTo(s, f, i))]

LEMMA AheadIsBefore ==
  ASSUME NEW S, NEW s \in Seq(S), NEW f, \A i \in DOMAIN s : f[s[i]] \in Int,
         NEW i \in DOMAIN s, NEW j \in DOMAIN s, Ahead(s, f, i, j)
  PROVE  Place(s, f)[i] < Place(s, f)[j]
<1> DEFINE I == UpTo(s, f, i)
           J == UpTo(s, f, j)
<1>1. DOMAIN s = 1 .. Len(s) /\ Len(s) \in Nat
  BY InSeq
<1>2. IsFiniteSet(J)
  <2>1. IsFiniteSet(1 .. Len(s)) /\ J \subseteq 1 .. Len(s)
    BY <1>1, FS_Interval DEF UpTo
  <2> HIDE DEF J
  <2> QED
    BY <2>1, FS_Subset
<1>3. I \subseteq J
  <2> SUFFICES ASSUME NEW k \in I PROVE k \in J
    OBVIOUS
  <2>1. f[s[k]] \in Int /\ f[s[i]] \in Int /\ f[s[j]] \in Int /\ k \in Int /\ i \in Int /\ j \in Int
    BY <1>1 DEF UpTo
  <2>2. k \in DOMAIN s /\ (f[s[k]] > f[s[i]] \/ (f[s[k]] = f[s[i]] /\ k <= i))
    BY DEF UpTo
  <2>3. f[s[k]] > f[s[j]] \/ (f[s[k]] = f[s[j]] /\ k <= j)
    BY <2>1, <2>2 DEF Ahead
  <2> QED
    BY <2>2, <2>3 DEF UpTo
<1>4. j \in J /\ j \notin I
  <2>1. f[s[i]] \in Int /\ f[s[j]] \in Int /\ i \in Int /\ j \in Int
    BY <1>1
  <2> QED
    BY <2>1 DEF UpTo, Ahead
<1> HIDE DEF I, J
<1>5. IsFiniteSet(I) /\ Cardinality(I) <= Cardinality(J) /\ Cardinality(I) # Cardinality(J)
  BY <1>2, <1>3, <1>4, FS_Subset
<1>6. Cardinality(I) \in Nat /\ Cardinality(J) \in Nat
  BY <1>2, <1>5, FS_CardinalityType
<1>7. Cardinality(I) < Cardinality(J)
  BY <1>5, <1>6
<1> QED
  BY <1>7 DEF Place, I, J

LEMMA OneIsAhead ==
  ASSUME NEW S, NEW s \in Seq(S), NEW f, \A i \in DOMAIN s : f[s[i]] \in Int,
         NEW i \in DOMAIN s, NEW j \in DOMAIN s, i # j
  PROVE  Ahead(s, f, i, j) \/ Ahead(s, f, j, i)
<1>1. DOMAIN s = 1 .. Len(s) /\ Len(s) \in Nat
  BY InSeq
<1>2. f[s[i]] \in Int /\ f[s[j]] \in Int /\ i \in Int /\ j \in Int
  BY <1>1
<1> QED
  BY <1>2 DEF Ahead

LEMMA CountUpTo ==
  ASSUME NEW n \in Nat
  PROVE  IsFiniteSet(1 .. n) /\ Cardinality(1 .. n) = n
<1>1. 1 \in Int /\ n \in Int
  OBVIOUS
<1>2. IsFiniteSet(1 .. n) /\ Cardinality(1 .. n) = IF 1 > n THEN 0 ELSE n - 1 + 1
  BY <1>1, FS_Interval
<1> QED
  BY <1>2

LEMMA PlacesAre ==
  ASSUME NEW S, NEW s \in Seq(S), NEW f, \A i \in DOMAIN s : f[s[i]] \in Int
  PROVE  Place(s, f) \in Surjection(DOMAIN s, DOMAIN s)
<1> DEFINE place == Place(s, f)
<1>1. DOMAIN s = 1 .. Len(s) /\ Len(s) \in Nat
  BY InSeq
<1>2. IsFiniteSet(DOMAIN s) /\ Cardinality(DOMAIN s) = Len(s)
  <2>1. IsFiniteSet(1 .. Len(s)) /\ Cardinality(1 .. Len(s)) = Len(s)
    BY <1>1, CountUpTo
  <2> QED
    BY <1>1, <2>1, Zenon
<1>3. ASSUME NEW i \in DOMAIN s PROVE place[i] \in DOMAIN s
  <2> DEFINE I == UpTo(s, f, i)
  <2>1. I \subseteq DOMAIN s /\ i \in I
    <3>1. i <= i
      BY <1>1
    <3> QED
      BY <3>1 DEF UpTo
  <2> HIDE DEF I
  <2>2. IsFiniteSet(I) /\ Cardinality(I) <= Len(s)
    BY <1>2, <2>1, FS_Subset
  <2>3. Cardinality(I) \in Nat /\ Cardinality(I) # 0
    BY <2>1, <2>2, FS_CardinalityType, FS_EmptySet
  <2>4. Cardinality(I) \in 1 .. Len(s)
    BY <1>1, <2>2, <2>3
  <2> QED
    BY <1>1, <2>4 DEF Place, I
<1>4. place \in [DOMAIN s -> DOMAIN s]
  <2>1. place = [i \in DOMAIN s |-> place[i]]
    BY DEF Place
  <2> HIDE DEF place
  <2> QED
    BY <1>3, <2>1
<1>5. ASSUME NEW i \in DOMAIN s, NEW j \in DOMAIN s, i # j PROVE place[i] # place[j]
  <2>1. place[i] < place[j] \/ place[j] < place[i]
    BY <1>5, OneIsAhead, AheadIsBefore
  <2>2. place[i] \in Nat /\ place[j] \in Nat
    BY <1>1, <1>3
  <2> HIDE DEF place
  <2> QED
    BY <2>1, <2>2
<1> HIDE DEF place
<1>6. place \in Injection(DOMAIN s, DOMAIN s)
  BY <1>4, <1>5 DEF Injection, IsInjective
<1>7. place \in Surjection(DOMAIN s, DOMAIN s)
  BY <1>2, <1>6, FS_Injection
<1> QED
  BY <1>7 DEF place

(* Ranked is a stable sort: what it is given, the largest first.           *)
LEMMA RankedHolds ==
  ASSUME NEW S, NEW s \in Seq(S), NEW f, \A i \in DOMAIN s : f[s[i]] \in Int
  PROVE  /\ Ranked(s, f) \in Seq(S) /\ Len(Ranked(s, f)) = Len(s)
         /\ ToSet(Ranked(s, f)) = ToSet(s)
         /\ \A k, l \in DOMAIN s : k < l => f[Ranked(s, f)[k]] >= f[Ranked(s, f)[l]]
<1> DEFINE place == Place(s, f)
           at == [k \in DOMAIN s |-> CHOOSE i \in DOMAIN s : place[i] = k]
           r == [k \in DOMAIN s |-> s[at[k]]]
<1>1. DOMAIN s = 1 .. Len(s) /\ Len(s) \in Nat /\ \A i \in DOMAIN s : s[i] \in S
  BY InSeq, ElementOfSeq
<1>2. Ranked(s, f) = r
  <2> DEFINE upTo(i) == {j \in DOMAIN s : f[s[j]] > f[s[i]] \/ (f[s[j]] = f[s[i]] /\ j <= i)}
  <2>1. \A k : \A i \in DOMAIN s : place[i] = k <=> Cardinality(upTo(i)) = k
    BY DEF Place, UpTo
  <2>2. \A k \in DOMAIN s : at[k] = CHOOSE i \in DOMAIN s : Cardinality(upTo(i)) = k
    BY <2>1
  <2> HIDE DEF at
  <2>3. Ranked(s, f) = [k \in DOMAIN s |-> s[CHOOSE i \in DOMAIN s : Cardinality(upTo(i)) = k]]
    BY DEF Ranked
  <2> QED
    BY <2>2, <2>3
<1>3. \A i \in DOMAIN s : place[i] \in DOMAIN s
  BY PlacesAre DEF Surjection
<1>4. \A k \in DOMAIN s : at[k] \in DOMAIN s /\ place[at[k]] = k
  <2>1. \A k \in DOMAIN s : \E i \in DOMAIN s : place[i] = k
    BY PlacesAre DEF Surjection
  <2> HIDE DEF place
  <2> QED
    BY <2>1
<1> HIDE DEF at
<1>5. \A i \in DOMAIN s : at[place[i]] = i
  <2> SUFFICES ASSUME NEW i \in DOMAIN s PROVE at[place[i]] = i
    OBVIOUS
  <2> DEFINE j == at[place[i]]
  <2>1. j \in DOMAIN s /\ place[j] = place[i]
    BY <1>3, <1>4
  <2>2. j # i => place[j] < place[i] \/ place[i] < place[j]
    BY <2>1, OneIsAhead, AheadIsBefore
  <2>3. place[i] \in Nat
    BY <1>1, <1>3
  <2> HIDE DEF place, j
  <2>4. j = i
    BY <2>1, <2>2, <2>3
  <2> QED
    BY <2>4 DEF j
<1>6. r \in [1 .. Len(s) -> S]
  BY <1>1, <1>4
<1>7. r \in Seq(S) /\ Len(r) = Len(s)
  BY <1>1, <1>6, LenProperties
<1>8. \A k \in DOMAIN s : r[k] = s[at[k]]
  OBVIOUS
<1>9. DOMAIN r = DOMAIN s
  OBVIOUS
<1> HIDE DEF r
<1>10. ToSet(r) = ToSet(s)
  <2>1. ToSet(r) = {r[k] : k \in DOMAIN s} /\ ToSet(s) = {s[i] : i \in DOMAIN s}
    BY <1>9 DEF ToSet
  <2>2. ASSUME NEW n \in ToSet(s) PROVE n \in ToSet(r)
    <3>1. PICK i \in DOMAIN s : n = s[i]
      BY <2>1
    <3>2. place[i] \in DOMAIN s /\ r[place[i]] = s[i]
      BY <1>3, <1>5, <1>8
    <3> HIDE DEF place
    <3> QED
      BY <2>1, <3>1, <3>2
  <2>3. ASSUME NEW n \in ToSet(r) PROVE n \in ToSet(s)
    BY <1>4, <1>8, <2>1
  <2> QED
    BY <2>2, <2>3
<1>11. ASSUME NEW k \in DOMAIN s, NEW l \in DOMAIN s, k < l PROVE f[r[k]] >= f[r[l]]
  <2> DEFINE i == at[k]
             j == at[l]
  <2>1. i \in DOMAIN s /\ j \in DOMAIN s /\ place[i] = k /\ place[j] = l /\ r[k] = s[i] /\ r[l] = s[j]
    BY <1>4, <1>8
  <2>2. k \in Nat /\ l \in Nat /\ k # l
    BY <1>1, <1>11
  <2>3. i # j
    BY <2>1, <2>2
  <2>4. ~Ahead(s, f, j, i)
    <3> SUFFICES ASSUME Ahead(s, f, j, i) PROVE FALSE
      OBVIOUS
    <3>1. place[j] < place[i]
      BY <2>1, AheadIsBefore
    <3> HIDE DEF place
    <3> QED
      BY <1>11, <2>1, <2>2, <3>1
  <2>5. Ahead(s, f, i, j)
    BY <2>1, <2>3, <2>4, OneIsAhead
  <2>6. f[s[i]] \in Int /\ f[s[j]] \in Int
    BY <2>1
  <2> QED
    BY <2>1, <2>5, <2>6 DEF Ahead
<1> QED
  BY <1>2, <1>7, <1>10, <1>11

LEMMA SetInSequence ==
  ASSUME NEW P, IsFiniteSet(P)
  PROVE  /\ SetToSeq(P) \in Seq(P) /\ ToSet(SetToSeq(P)) = P
         /\ Len(SetToSeq(P)) = Cardinality(P) /\ Cardinality(P) \in Nat
<1> DEFINE N == Cardinality(P)
<1>1. N \in Nat /\ ExistsBijection(1 .. N, P)
  BY FS_CardinalityType
<1>2. \E f \in [1 .. N -> P] : IsInjective(f)
  BY <1>1 DEF ExistsBijection, Bijection, Injection
<1> DEFINE s == SetToSeq(P)
<1>3. s \in [1 .. N -> P] /\ IsInjective(s)
  BY <1>2 DEF SetToSeq
<1> HIDE DEF s
<1>4. s \in Injection(1 .. N, P)
  BY <1>3 DEF Injection
<1>5. Cardinality(1 .. N) = N
  BY <1>1, FS_Interval
<1> HIDE DEF N
<1>6. Cardinality(1 .. N) = Cardinality(P)
  BY <1>5 DEF N
<1>7. s \in Surjection(1 .. N, P)
  BY <1>4, <1>6, FS_Injection
<1>8. \A n \in P : \E i \in 1 .. N : s[i] = n
  BY <1>7 DEF Surjection
<1>9. s \in Seq(P) /\ DOMAIN s = 1 .. N
  BY <1>1, <1>3
<1>10. ToSet(s) = {s[i] : i \in 1 .. N}
  BY <1>9 DEF ToSet
<1>11. ToSet(s) = P
  BY <1>3, <1>8, <1>10
<1>12. Len(s) = N
  BY <1>1, <1>9, LenProperties
<1> QED
  BY <1>1, <1>9, <1>11, <1>12 DEF s, N

-----------------------------------------------------------------------------
(* Bottlenecks. What holds something up in the plan with the rows p: the   *)
(* open tasks that an edge of the plan leaves.                             *)
Holding(p) == {n \in Open(p, Work(p)) : \E d \in PlanDeps(p) : d.type \in Blocking /\ d.source = n}
Held == [node : Node, downstream : Nat]

FanOf(p) == [n \in ToSet(p.rows) |->
              Cardinality({d \in PlanDeps(p) : d.type \in Blocking /\ d.source = n})]

LEMMA FanIs ==
  ASSUME NEW p, IsFiniteSet(p.deps), NEW n \in ToSet(p.rows)
  PROVE  /\ FanOf(p)[n] \in Nat
         /\ FanOf(p)[n] > 0 <=> \E d \in PlanDeps(p) : d.type \in Blocking /\ d.source = n
<1> DEFINE D == {d \in PlanDeps(p) : d.type \in Blocking /\ d.source = n}
<1>1. IsFiniteSet(D)
  <2>1. D \subseteq p.deps
    BY DEF PlanDeps
  <2> HIDE DEF D
  <2> QED
    BY <2>1, FS_Subset
<1>2. FanOf(p)[n] = Cardinality(D)
  BY DEF FanOf
<1>3. D # {} <=> \E d \in PlanDeps(p) : d.type \in Blocking /\ d.source = n
  OBVIOUS
<1> HIDE DEF D
<1>4. Cardinality(D) \in Nat /\ (Cardinality(D) = 0 <=> D = {})
  BY <1>1, FS_CardinalityType, FS_EmptySet
<1> QED
  BY <1>2, <1>3, <1>4

LEMMA LesserIs ==
  ASSUME NEW m \in Nat, NEW n \in Nat
  PROVE  Min({m, n}) = IF m <= n THEN m ELSE n
<1> DEFINE d == IF m <= n THEN m ELSE n
<1>1. {m, n} \subseteq Nat /\ d \in {m, n} /\ \A k \in {m, n} : d <= k
  OBVIOUS
<1> HIDE DEF d
<1>2. Min({m, n}) = d
  BY <1>1, MinIs
<1> QED
  BY <1>2 DEF d

LEMMA BottlenecksAre ==
  ASSUME NEW p, p.rows \in Seq(Node), IsFiniteSet(p.deps), NEW limit \in Nat \ {0}
  PROVE  /\ Bottlenecks(p, limit) \in Seq(Held)
         /\ \A b \in ToSet(Bottlenecks(p, limit)) : b.node \in Holding(p)
         /\ Holding(p) # {} => ToSet(Bottlenecks(p, limit)) # {}
<1> DEFINE fan    == FanOf(p)
           some   == Keep(p.rows, {n \in Open(p, Work(p)) : fan[n] > 0})
           sorted == Ranked(some, fan)
           m      == Min({limit, Len(some)})
           b      == [i \in 1 .. m |-> [node |-> sorted[i], downstream |-> fan[sorted[i]]]]
<1>1. Bottlenecks(p, limit) = b
  BY DEF Bottlenecks, FanOf
<1>2. Open(p, Work(p)) \subseteq ToSet(p.rows) /\ ToSet(p.rows) \subseteq Node
  BY InSeq DEF Open, Work
<1>3. {n \in Open(p, Work(p)) : fan[n] > 0} = Holding(p)
  <2>1. \A n \in Open(p, Work(p)) :
          fan[n] > 0 <=> \E d \in PlanDeps(p) : d.type \in Blocking /\ d.source = n
    BY <1>2, FanIs
  <2> HIDE DEF fan
  <2> QED
    BY <2>1 DEF Holding
<1>4. Holding(p) \subseteq ToSet(p.rows)
  BY <1>2 DEF Holding
<1>5. some \in Seq(Node) /\ ToSet(some) = Holding(p)
  <2>1. some = Keep(p.rows, Holding(p))
    BY <1>3
  <2> HIDE DEF some
  <2>2. Keep(p.rows, Holding(p)) \in Seq(Node)
    BY KeepHolds
  <2>3. ToSet(Keep(p.rows, Holding(p))) = ToSet(p.rows) \cap Holding(p)
    BY KeepHolds
  <2> QED
    BY <1>4, <2>1, <2>2, <2>3
<1> HIDE DEF some
<1>6. DOMAIN some = 1 .. Len(some) /\ Len(some) \in Nat /\ ToSet(some) = {some[i] : i \in 1 .. Len(some)}
  BY <1>5, InSeq
<1>7. \A n \in Holding(p) : fan[n] \in Nat
  BY <1>4, FanIs
<1> HIDE DEF fan
<1>8. \A i \in DOMAIN some : fan[some[i]] \in Int
  BY <1>5, <1>6, <1>7
<1>9. sorted \in Seq(Node) /\ Len(sorted) = Len(some) /\ ToSet(sorted) = Holding(p)
  BY <1>5, <1>8, RankedHolds
<1> HIDE DEF sorted
<1>10. \A i \in 1 .. Len(some) : sorted[i] \in Holding(p)
  BY <1>9, InSeq
<1>11. m \in Nat /\ m <= Len(some) /\ (m = 0 => Len(some) = 0)
  BY <1>6, LesserIs
<1> HIDE DEF m
<1>12. \A i \in 1 .. m : i \in 1 .. Len(some)
  BY <1>6, <1>11
<1>13. ASSUME NEW i \in 1 .. m PROVE b[i] \in Held /\ b[i].node \in Holding(p)
  <2>1. sorted[i] \in Holding(p) /\ sorted[i] \in Node /\ fan[sorted[i]] \in Nat
    BY <1>2, <1>4, <1>7, <1>10, <1>12
  <2>2. b[i] = [node |-> sorted[i], downstream |-> fan[sorted[i]]]
    OBVIOUS
  <2> HIDE DEF b
  <2> QED
    BY <2>1, <2>2 DEF Held
<1>14. b \in [1 .. m -> Held]
  <2>1. b = [i \in 1 .. m |-> b[i]]
    OBVIOUS
  <2> HIDE DEF b
  <2> QED
    BY <1>13, <2>1
<1> HIDE DEF b
<1>15. b \in Seq(Held) /\ DOMAIN b = 1 .. m
  BY <1>11, <1>14
<1>16. ToSet(b) = {b[i] : i \in 1 .. m}
  BY <1>15 DEF ToSet
<1>17. \A c \in ToSet(b) : c.node \in Holding(p)
  BY <1>13, <1>16
<1>18. ASSUME Holding(p) # {} PROVE ToSet(b) # {}
  <2>1. Len(some) # 0
    <3>1. 1 .. 0 = {}
      OBVIOUS
    <3> QED
      BY <1>5, <1>6, <1>18, <3>1
  <2>2. 1 \in 1 .. m
    BY <1>11, <2>1
  <2> QED
    BY <1>16, <2>2
<1> QED
  BY <1>1, <1>15, <1>17, <1>18

(* The rows around a goal: tasks and phases are different nodes, the edges *)
(* block, the goal is linked to finitely many plans and its own measure is *)
(* a percentage.                                                           *)
Worldly(w) ==
  /\ w.tasks \in Seq(Node) /\ IsFiniteSet(w.linked)
  /\ w.phases \subseteq Node /\ w.phases \cap ToSet(w.tasks) = {}
  /\ IsFiniteSet(w.deps) /\ w.achieves \subseteq Node
  /\ \A d \in w.deps : d.source \in Node /\ d.target \in Node /\ d.type = "blocks"
  /\ w.attained = Nil \/ w.attained \in 0 .. 100

LEMMA RowsOfPlan ==
  ASSUME NEW w, Worldly(w), NEW pl
  PROVE  /\ PlanRows(w, pl).rows \in Seq(Node) /\ ToSet(PlanRows(w, pl).rows) = TasksOf(w, {pl})
         /\ PlanRows(w, pl).deps = w.deps /\ PlanRows(w, pl).status = w.status
         /\ \A n \in Node : PlanRows(w, pl).type[n] = "task"
         /\ TasksOf(w, {pl}) \subseteq Node
<1> DEFINE T == TasksOf(w, {pl})
           p == PlanRows(w, pl)
<1>1. p.rows = Keep(w.tasks, T) /\ p.deps = w.deps /\ p.status = w.status /\ p.type = [n \in Node |-> "task"]
  BY DEF PlanRows
<1> HIDE DEF p
<1>2. T \subseteq ToSet(w.tasks)
  BY DEF TasksOf
<1>3. ToSet(w.tasks) \subseteq Node
  BY InSeq DEF Worldly
<1> HIDE DEF T
<1>4. Keep(w.tasks, T) \in Seq(Node) /\ ToSet(Keep(w.tasks, T)) = ToSet(w.tasks) \cap T
  BY KeepHolds DEF Worldly
<1>5. ToSet(p.rows) = T
  BY <1>1, <1>2, <1>4
<1> QED
  BY <1>1, <1>2, <1>3, <1>4, <1>5 DEF T, p

(* A task holds something up in its plan if it is open and an edge leaves  *)
(* it.                                                                     *)
LEMMA HoldingIs ==
  ASSUME NEW w, Worldly(w), NEW pl, NEW n
  PROVE  n \in Holding(PlanRows(w, pl)) <=>
           /\ n \in ToSet(w.tasks) /\ w.plan[n] = pl
           /\ w.status[n] # "completed" /\ \E d \in w.deps : d.source = n
<1> DEFINE p == PlanRows(w, pl)
<1>1. /\ ToSet(p.rows) = TasksOf(w, {pl}) /\ p.deps = w.deps /\ p.status = w.status
      /\ TasksOf(w, {pl}) \subseteq Node /\ \A k \in Node : p.type[k] = "task"
  BY RowsOfPlan
<1>2. n \in TasksOf(w, {pl}) <=> n \in ToSet(w.tasks) /\ w.plan[n] = pl
  BY DEF TasksOf
<1> HIDE DEF p
<1>3. Work(p) = TasksOf(w, {pl})
  BY <1>1 DEF Work, TaskTypes
<1>4. n \in Open(p, Work(p)) <=> n \in TasksOf(w, {pl}) /\ w.status[n] # "completed"
  BY <1>1, <1>3 DEF Open
<1>5. ASSUME n \in TasksOf(w, {pl})
      PROVE  (\E d \in PlanDeps(p) : d.type \in Blocking /\ d.source = n) <=> \E d \in w.deps : d.source = n
  BY <1>1, <1>5 DEF PlanDeps, Blocking, Worldly
<1>6. n \in Holding(p) <=> n \in Open(p, Work(p)) /\ \E d \in PlanDeps(p) : d.type \in Blocking /\ d.source = n
  BY DEF Holding
<1> QED
  BY <1>2, <1>4, <1>5, <1>6 DEF p

(* The first plans are all of them unless there are too many. *)
LEMMA FirstPlansAre ==
  ASSUME NEW P, IsFiniteSet(P)
  PROVE  /\ FirstPlans(P) \in Seq(P)
         /\ Cardinality(P) <= PlansSeen => ToSet(FirstPlans(P)) = P
<1> DEFINE s == SetToSeq(P)
           c == Cardinality(P)
           m == Min({PlansSeen, c})
           u == SubSeq(s, 1, m)
<1>1. s \in Seq(P) /\ ToSet(s) = P /\ Len(s) = c /\ c \in Nat
  BY SetInSequence
<1>2. FirstPlans(P) = u
  BY DEF FirstPlans
<1> HIDE DEF s, c
<1>3. PlansSeen \in Nat
  BY GRAssumption DEF GRAssumption
<1>4. m = IF PlansSeen <= c THEN PlansSeen ELSE c
  BY <1>1, <1>3, LesserIs
<1>5. m \in Nat /\ m <= c /\ (c <= PlansSeen => m = c)
  BY <1>1, <1>3, <1>4
<1> HIDE DEF m
<1>6. \A i \in 1 .. m : s[i] \in P
  BY <1>1, <1>5, ElementOfSeq
<1>7. /\ u \in Seq(P) /\ Len(u) = IF 1 <= m THEN m - 1 + 1 ELSE 0
      /\ \A i \in 1 .. m - 1 + 1 : u[i] = s[1 + i - 1]
  <2>1. 1 \in Int /\ m \in Int
    BY <1>5
  <2> QED
    BY <1>6, <2>1, SubSeqProperties
<1>8. Len(u) = m /\ \A i \in 1 .. m : u[i] = s[i]
  BY <1>5, <1>7
<1> HIDE DEF u
<1>9. ToSet(u) = {u[i] : i \in 1 .. m} /\ ToSet(s) = {s[i] : i \in 1 .. c}
  BY <1>1, <1>7, <1>8, InSeq
<1>10. m = c => ToSet(u) = ToSet(s)
  BY <1>8, <1>9
<1> QED
  BY <1>1, <1>2, <1>5, <1>7, <1>10 DEF c

(* The worst bottlenecks hold something up in one of the plans, and there  *)
(* is one as soon as anything does and all plans are searched.             *)
LEMMA WorstAre ==
  ASSUME NEW w, Worldly(w), NEW P, IsFiniteSet(P)
  PROVE  /\ Len(WorstBottlenecks(w, P)) \in Nat
         /\ WorstBottlenecks(w, P) # <<>> =>
              \E pl \in P : Head(WorstBottlenecks(w, P)).node \in Holding(PlanRows(w, pl))
         /\ Cardinality(P) <= PlansSeen /\ (\E pl \in P : Holding(PlanRows(w, pl)) # {})
              => Len(WorstBottlenecks(w, P)) > 0
<1> DEFINE plans  == FirstPlans(P)
           lists  == [i \in DOMAIN plans |-> Bottlenecks(PlanRows(w, plans[i]), 3)]
           all    == FlattenSeq(lists)
           most   == [b \in ToSet(all) |-> b.downstream]
           sorted == Ranked(all, most)
           m      == Min({3, Len(sorted)})
           worst  == SubSeq(sorted, 1, m)
<1>1. WorstBottlenecks(w, P) = worst
  BY DEF WorstBottlenecks
<1>2. plans \in Seq(P) /\ (Cardinality(P) <= PlansSeen => ToSet(plans) = P)
  BY FirstPlansAre
<1> HIDE DEF plans
<1>3. /\ DOMAIN plans = 1 .. Len(plans) /\ Len(plans) \in Nat
      /\ \A i \in DOMAIN plans : plans[i] \in P
      /\ Cardinality(P) <= PlansSeen => P = {plans[i] : i \in DOMAIN plans}
  BY <1>2, InSeq, ElementOfSeq
<1>4. ASSUME NEW i \in DOMAIN plans
      PROVE  /\ lists[i] \in Seq(Held) /\ \A b \in ToSet(lists[i]) : b.node \in Holding(PlanRows(w, plans[i]))
             /\ Holding(PlanRows(w, plans[i])) # {} => ToSet(lists[i]) # {}
  <2> DEFINE p == PlanRows(w, plans[i])
  <2>1. p.rows \in Seq(Node) /\ IsFiniteSet(p.deps) /\ 3 \in Nat \ {0}
    <3>1. p.rows \in Seq(Node) /\ p.deps = w.deps
      BY RowsOfPlan
    <3> HIDE DEF p
    <3> QED
      BY <3>1 DEF Worldly
  <2>2. lists[i] = Bottlenecks(p, 3)
    OBVIOUS
  <2> HIDE DEF p, lists
  <2>3. /\ Bottlenecks(p, 3) \in Seq(Held)
        /\ \A b \in ToSet(Bottlenecks(p, 3)) : b.node \in Holding(p)
        /\ Holding(p) # {} => ToSet(Bottlenecks(p, 3)) # {}
    BY <2>1, BottlenecksAre
  <2> QED
    BY <2>2, <2>3 DEF p
<1>5. DOMAIN lists = DOMAIN plans /\ lists = [i \in 1 .. Len(plans) |-> lists[i]]
  BY <1>3
<1> HIDE DEF lists
<1>6. lists \in Seq(Seq(Held))
  BY <1>3, <1>4, <1>5
<1>7. all \in Seq(Held) /\ ToSet(all) = UNION {ToSet(lists[i]) : i \in DOMAIN plans}
  BY <1>5, <1>6, FlattenHolds
<1> HIDE DEF all
<1>8. DOMAIN all = 1 .. Len(all) /\ Len(all) \in Nat /\ ToSet(all) = {all[i] : i \in DOMAIN all}
      /\ ToSet(all) \subseteq Held
  BY <1>7, InSeq
<1>9. \A i \in DOMAIN all : most[all[i]] \in Int
  BY <1>8 DEF Held
<1> HIDE DEF most
<1>10. sorted \in Seq(Held) /\ Len(sorted) = Len(all) /\ ToSet(sorted) = ToSet(all)
  BY <1>7, <1>9, RankedHolds
<1> HIDE DEF sorted
<1>11. /\ DOMAIN sorted = 1 .. Len(sorted) /\ ToSet(sorted) = {sorted[i] : i \in DOMAIN sorted}
       /\ \A i \in 1 .. Len(sorted) : sorted[i] \in Held
  BY <1>10, InSeq, ElementOfSeq
<1>12. m \in Nat /\ m <= Len(sorted) /\ (m = 0 <=> Len(sorted) = 0)
  BY <1>8, <1>10, LesserIs
<1> HIDE DEF m
<1>13. \A i \in 1 .. m : sorted[i] \in Held
  BY <1>8, <1>10, <1>11, <1>12
<1>14. /\ worst \in Seq(Held) /\ Len(worst) = IF 1 <= m THEN m - 1 + 1 ELSE 0
       /\ \A i \in 1 .. m - 1 + 1 : worst[i] = sorted[1 + i - 1]
  <2>1. 1 \in Int /\ m \in Int
    BY <1>12
  <2> QED
    BY <1>13, <2>1, SubSeqProperties
<1> HIDE DEF worst
<1>15. Len(worst) = m
  BY <1>12, <1>14
<1>16. ASSUME worst # <<>> PROVE \E pl \in P : Head(worst).node \in Holding(PlanRows(w, pl))
  <2>1. m # 0
    BY <1>14, <1>15, <1>16, EmptySeq
  <2>2. 1 \in 1 .. m - 1 + 1 /\ 1 \in 1 .. Len(sorted) /\ 1 + 1 - 1 = 1
    BY <1>8, <1>10, <1>12, <2>1
  <2>3. Head(worst) = worst[1]
    BY <1>14, <1>16, HeadTailProperties
  <2>4. worst[1] = sorted[1]
    BY <1>14, <2>2
  <2>5. sorted[1] \in ToSet(all)
    BY <1>10, <1>11, <2>2
  <2>6. PICK i \in DOMAIN plans : sorted[1] \in ToSet(lists[i])
    BY <1>7, <2>5
  <2>7. sorted[1].node \in Holding(PlanRows(w, plans[i]))
    BY <1>4, <2>6
  <2> QED
    BY <1>3, <2>3, <2>4, <2>7
<1>17. ASSUME NEW pl \in P, Holding(PlanRows(w, pl)) # {}, Cardinality(P) <= PlansSeen
       PROVE  Len(worst) > 0
  <2>1. PICK i \in DOMAIN plans : plans[i] = pl
    BY <1>3, <1>17
  <2>2. ToSet(lists[i]) # {}
    BY <1>4, <1>17, <2>1
  <2>3. ToSet(all) # {}
    BY <1>7, <2>2
  <2>4. Len(all) # 0
    BY <1>8, <2>3
  <2> QED
    BY <1>10, <1>12, <1>15, <2>4
<1> QED
  BY <1>1, <1>12, <1>15, <1>16, <1>17

-----------------------------------------------------------------------------
(* HealthHonest. Proof that the verdict is honest.                         *)
LEMMA EmptyOrCounted ==
  ASSUME NEW S, IsFiniteSet(S)
  PROVE  Cardinality(S) \in Nat /\ (Cardinality(S) = 0 <=> S = {})
BY FS_CardinalityType, FS_EmptySet

LEMMA FiniteParts ==
  ASSUME NEW w, Worldly(w), IsFiniteSet(Node)
  PROVE  /\ \A P : TasksOf(w, P) \subseteq Node /\ IsFiniteSet(TasksOf(w, P))
         /\ \A S, s : IsFiniteSet(S) => IsFiniteSet(With(w, S, s)) /\ With(w, S, s) \subseteq S
         /\ \A S, U : IsFiniteSet(S) => IsFiniteSet(S \cap U)
         /\ IsFiniteSet(LivePlans(w)) /\ IsFiniteSet(VisiblePlans(w))
<1>1. ASSUME NEW P PROVE TasksOf(w, P) \subseteq Node /\ IsFiniteSet(TasksOf(w, P))
  <2>1. TasksOf(w, P) \subseteq Node
    BY InSeq DEF TasksOf, Worldly
  <2> QED
    BY <2>1, FS_Subset
<1>2. ASSUME NEW S, NEW s, IsFiniteSet(S) PROVE IsFiniteSet(With(w, S, s)) /\ With(w, S, s) \subseteq S
  <2>1. With(w, S, s) \subseteq S
    BY DEF With
  <2> QED
    BY <1>2, <2>1, FS_Subset
<1>3. ASSUME NEW S, NEW U, IsFiniteSet(S) PROVE IsFiniteSet(S \cap U)
  <2>1. S \cap U \subseteq S
    OBVIOUS
  <2> QED
    BY <1>3, <2>1, FS_Subset
<1>4. LivePlans(w) \subseteq w.linked /\ VisiblePlans(w) \subseteq w.linked
  BY DEF LivePlans, VisiblePlans
<1>5. IsFiniteSet(LivePlans(w)) /\ IsFiniteSet(VisiblePlans(w))
  BY <1>4, FS_Subset DEF Worldly
<1> QED
  BY <1>1, <1>2, <1>3, <1>5

(* What the health of the goal is judged by. *)
Standing(w) ==
  LET T == TasksOf(w, w.linked)
  IN  [planned |-> Cardinality(LivePlans(w)) > 0, total |-> Cardinality(T),
       touched |-> w.touched \cap w.linked # {}, blocked |-> Share(w, T, "blocked"),
       overdue |-> Cardinality(With(w, T, "plan_ready") \cap w.due) + Cardinality(T \cap w.asked \cap w.due),
       bottlenecks |-> Len(WorstBottlenecks(w, LivePlans(w))),
       attained |-> w.attained, executed |-> Share(w, T, "completed")]

LEMMA RollupIs ==
  ASSUME NEW w
  PROVE  /\ Rollup(w).health = ClassifyHealth(Standing(w))
         /\ Rollup(w).execution_pct = Share(w, TasksOf(w, w.linked), "completed")
         /\ Rollup(w).percent_blocked = Share(w, TasksOf(w, w.linked), "blocked")
         /\ Rollup(w).linked_plan_count = Cardinality(LivePlans(w))
         /\ Rollup(w).pending = Cardinality(With(w, TasksOf(w, w.linked), "plan_ready"))
                                  + Cardinality(TasksOf(w, w.linked) \cap w.asked)
BY DEF Rollup, DashboardRow, Standing

LEMMA MissionIs ==
  ASSUME NEW w, Worldly(w), IsFiniteSet(Node)
  PROVE  /\ MissionGoal(w).health = ClassifyHealth(Standing(w))
         /\ MissionGoal(w).execution_pct = Share(w, TasksOf(w, w.linked), "completed")
         /\ MissionGoal(w).percent_blocked = Share(w, TasksOf(w, w.linked), "blocked")
         /\ MissionGoal(w).linked_plan_count = Cardinality(LivePlans(w))
         /\ MissionGoal(w).pending = Cardinality(With(w, TasksOf(w, w.linked), "plan_ready"))
                                       + Cardinality(TasksOf(w, w.linked) \cap w.asked)
         /\ MissionGoal(w).plan_ids = LivePlans(w)
         /\ MissionGoal(w).worst = WorstBottlenecks(w, LivePlans(w))
<1>1. Cardinality(LivePlans(w)) \in Nat /\ (Cardinality(LivePlans(w)) = 0 <=> LivePlans(w) = {})
  BY FiniteParts, EmptyOrCounted
<1>2. LivePlans(w) # {} <=> Cardinality(LivePlans(w)) > 0
  BY <1>1
<1>3. (LivePlans(w) # {}) = (Cardinality(LivePlans(w)) > 0)
  BY <1>2
<1> QED
  BY <1>3 DEF MissionGoal, DashboardRow, Standing

LEMMA OnTrackMeans ==
  ASSUME NEW h, ClassifyHealth(h) = "on_track"
  PROVE  /\ h.planned /\ h.total # 0 /\ h.touched
         /\ ~(h.bottlenecks > 0) /\ ~(h.overdue > 0)
         /\ ~(h.attained # Nil /\ h.attained < 100 /\ h.executed >= 50 /\ h.executed - h.attained >= OutcomeLag)
BY DEF ClassifyHealth

LEMMA PercentIsNat ==
  ASSUME NEW k \in Nat, NEW n \in Nat
  PROVE  Percent(k, n) \in Nat
<1>1. CASE n > 0
  <2>1. 200 * k + n \in Nat /\ 2 * n \in Nat \ {0}
    BY <1>1
  <2> QED
    BY <1>1, <2>1, DivBounds DEF Percent
<1>2. CASE ~(n > 0)
  BY <1>2 DEF Percent
<1> QED
  BY <1>1, <1>2

LEMMA ShareIsNat ==
  ASSUME NEW w, NEW S, IsFiniteSet(S), NEW s
  PROVE  /\ Share(w, S, s) \in Nat
         /\ Cardinality(With(w, S, s)) \in 0 .. Cardinality(S) /\ Cardinality(S) \in Nat
         /\ Cardinality(With(w, S, s)) = Cardinality(S) => With(w, S, s) = S
<1>1. With(w, S, s) \subseteq S
  BY DEF With
<1>2. /\ IsFiniteSet(With(w, S, s)) /\ Cardinality(With(w, S, s)) <= Cardinality(S)
      /\ Cardinality(With(w, S, s)) = Cardinality(S) => With(w, S, s) = S
  BY <1>1, FS_Subset
<1>3. Cardinality(With(w, S, s)) \in Nat /\ Cardinality(S) \in Nat
  BY <1>2, FS_CardinalityType
<1>4. Share(w, S, s) \in Nat
  BY <1>3, PercentIsNat DEF Share
<1> QED
  BY <1>2, <1>3, <1>4

LEMMA ShareAtMost ==
  ASSUME NEW w, NEW S, IsFiniteSet(S), NEW s
  PROVE  Share(w, S, s) <= 100
<1> DEFINE k == Cardinality(With(w, S, s))
           n == Cardinality(S)
<1>1. k \in 0 .. n /\ n \in Nat
  BY ShareIsNat
<1>2. Share(w, S, s) = Percent(k, n)
  BY DEF Share
<1> HIDE DEF k, n
<1>3. CASE n > 0
  <2> DEFINE q == (200 * k + n) \div (2 * n)
  <2>1. 200 * k + n \in Nat /\ 2 * n \in Nat \ {0} /\ 200 * k + n <= 201 * n
    BY <1>1, <1>3
  <2>2. q \in Nat /\ q * (2 * n) <= 200 * k + n
    BY <2>1, DivBounds
  <2>3. Percent(k, n) = q
    BY <1>3 DEF Percent
  <2> HIDE DEF q
  <2>4. CASE q >= 101
    <3> DEFINE y == q * (2 * n)
    <3>1. 101 * (2 * n) <= y
      BY <1>1, <2>1, <2>2, <2>4, TimesMono
    <3>2. y \in Nat /\ y <= 201 * n
      BY <1>1, <2>1, <2>2
    <3> HIDE DEF y
    <3> QED
      BY <1>1, <1>3, <3>1, <3>2
  <2> QED
    BY <1>2, <2>2, <2>3, <2>4
<1>4. CASE ~(n > 0)
  BY <1>2, <1>4 DEF Percent
<1> QED
  BY <1>3, <1>4

(* A goal is on track only if nothing is wrong with it, and what an agent  *)
(* is told to unblock does hold up something: classifyGoalHealth and       *)
(* getBriefing, whatever plans and tasks there are around the goal.        *)
THEOREM HealthIsHonest ==
  ASSUME Worldly(world), IsFiniteSet(Node)
  PROVE  HealthHonest
<1> DEFINE T == TasksOf(world, world.linked)
           r == Rollup(world)
           told == Briefing(world, Nil).recommended
           live == LivePlans(world)
           worst == WorstBottlenecks(world, live)
           h == Standing(world)
<1>1. r.health = ClassifyHealth(h) /\ r.execution_pct = Share(world, T, "completed")
  BY RollupIs
<1>2. /\ MissionGoal(world).health = ClassifyHealth(h) /\ MissionGoal(world).plan_ids = live
      /\ MissionGoal(world).worst = worst
  BY MissionIs
<1>3. /\ IsFiniteSet(live) /\ IsFiniteSet(T) /\ T \subseteq Node
      /\ IsFiniteSet(With(world, T, "plan_ready") \cap world.due)
      /\ IsFiniteSet(T \cap world.asked \cap world.due)
  BY FiniteParts
<1>4. /\ h.total = Cardinality(T) /\ h.touched = (world.touched \cap world.linked # {})
      /\ h.overdue = Cardinality(With(world, T, "plan_ready") \cap world.due)
                       + Cardinality(T \cap world.asked \cap world.due)
      /\ h.bottlenecks = Len(worst) /\ h.attained = world.attained
      /\ h.executed = Share(world, T, "completed")
  BY DEF Standing
<1>5. ASSUME NEW t \in T, world.status[t] # "completed", NEW d \in world.deps, d.source = t,
             world.archived = {}, Cardinality(world.linked) <= PlansSeen
      PROVE  Len(worst) > 0
  <2>1. t \in ToSet(world.tasks) /\ world.plan[t] \in live
    BY <1>5 DEF TasksOf, LivePlans
  <2>2. t \in Holding(PlanRows(world, world.plan[t]))
    BY <1>5, <2>1, HoldingIs
  <2>3. live = world.linked
    BY <1>5 DEF LivePlans
  <2> QED
    BY <1>3, <1>5, <2>1, <2>2, <2>3, WorstAre
<1>6. ASSUME worst # <<>>
      PROVE  /\ world.plan[Head(worst).node] \in live /\ world.status[Head(worst).node] # "completed"
             /\ \E d \in world.deps : d.source = Head(worst).node
  <2>1. PICK pl \in live : Head(worst).node \in Holding(PlanRows(world, pl))
    BY <1>3, <1>6, WorstAre
  <2> QED
    BY <2>1, HoldingIs
<1>7. Briefing(world, Nil).recommended =
        IF ClassifyHealth(h) # "on_track" /\ worst # <<>> THEN Head(worst).node ELSE Nil
  BY <1>2 DEF Briefing
<1>8. \A pl : Briefing(world, pl).listed = (pl = Nil \/ pl \in live)
  BY <1>2 DEF Briefing
<1> HIDE DEF r, h, live, worst
<1>9. ASSUME told # Nil
      PROVE  /\ Briefing(world, world.plan[told]).listed
             /\ world.status[told] # "completed"
             /\ \E d \in world.deps : d.source = told
  <2>1. worst # <<>> /\ told = Head(worst).node
    BY <1>7, <1>9
  <2> HIDE DEF told
  <2> QED
    BY <1>6, <1>8, <2>1
<1> HIDE DEF told
<1>10. ASSUME r.health = "on_track", world.archived = {}
       PROVE  /\ T # {} /\ world.touched # {}
              /\ Cardinality(world.linked) <= PlansSeen =>
                   \A d \in world.deps : d.source \in T => world.status[d.source] = "completed"
              /\ \A t \in T \cap world.due :
                   world.status[t] # "plan_ready" /\ t \notin world.asked
              /\ world.attained = Nil \/ r.execution_pct < world.attained + OutcomeLag
                 \/ r.execution_pct < 50
  <2>1. /\ h.total # 0 /\ h.touched /\ ~(h.bottlenecks > 0) /\ ~(h.overdue > 0)
        /\ ~(h.attained # Nil /\ h.attained < 100 /\ h.executed >= 50
               /\ h.executed - h.attained >= OutcomeLag)
    BY <1>1, <1>10, OnTrackMeans
  <2>2. T # {}
    BY <1>3, <1>4, <2>1, EmptyOrCounted
  <2>3. world.touched # {}
    BY <1>4, <2>1
  <2>4. Cardinality(world.linked) <= PlansSeen =>
          \A d \in world.deps : d.source \in T => world.status[d.source] = "completed"
    BY <1>4, <1>5, <1>10, <2>1
  <2>5. With(world, T, "plan_ready") \cap world.due = {} /\ T \cap world.asked \cap world.due = {}
    <3> DEFINE one == With(world, T, "plan_ready") \cap world.due
               other == T \cap world.asked \cap world.due
    <3>1. Cardinality(one) \in Nat /\ (Cardinality(one) = 0 <=> one = {})
      BY <1>3, EmptyOrCounted
    <3>2. Cardinality(other) \in Nat /\ (Cardinality(other) = 0 <=> other = {})
      BY <1>3, EmptyOrCounted
    <3>3. ~(Cardinality(one) + Cardinality(other) > 0)
      BY <1>4, <2>1
    <3> HIDE DEF one, other
    <3>4. one = {} /\ other = {}
      BY <3>1, <3>2, <3>3
    <3> QED
      BY <3>4 DEF one, other
  <2>6. \A t \in T \cap world.due : world.status[t] # "plan_ready" /\ t \notin world.asked
    BY <2>5 DEF With
  <2>7. world.attained = Nil \/ r.execution_pct < world.attained + OutcomeLag \/ r.execution_pct < 50
    <3>1. CASE world.attained = Nil
      BY <3>1
    <3>2. CASE world.attained # Nil
      <4>1. world.attained \in 0 .. 100
        BY <3>2 DEF Worldly
      <4>2. r.execution_pct \in Nat /\ r.execution_pct <= 100 /\ OutcomeLag \in Nat \ {0}
        BY <1>1, <1>3, ShareIsNat, ShareAtMost, GRAssumption DEF GRAssumption
      <4>3. ~(world.attained < 100 /\ r.execution_pct >= 50
                /\ r.execution_pct - world.attained >= OutcomeLag)
        BY <1>1, <1>4, <2>1, <3>2
      <4> QED
        BY <4>1, <4>2, <4>3
    <3> QED
      BY <3>1, <3>2
  <2> QED
    BY <2>2, <2>3, <2>4, <2>6, <2>7
<1> QED
  BY <1>9, <1>10 DEF HealthHonest, r, told

-----------------------------------------------------------------------------
(* SurfacesAgree. Proof that the surfaces tell one story.                   *)
LEMMA NothingIsZero ==
  ASSUME NEW n \in 0 .. 199, NEW k \in 0 .. n
  PROVE  Percent(k, n) = 0 <=> k = 0
<1>1. CASE n > 0
  <2> DEFINE q == (200 * k + n) \div (2 * n)
  <2>1. Percent(k, n) = q
    BY <1>1 DEF Percent
  <2>2. 200 * k + n \in Nat /\ 2 * n \in Nat \ {0}
    BY <1>1
  <2>3. q \in Nat /\ q * (2 * n) <= 200 * k + n /\ 200 * k + n < q * (2 * n) + 2 * n
    BY <2>2, DivBounds
  <2> HIDE DEF q
  <2>4. ASSUME q = 0 PROVE k = 0
    <3>1. 200 * k + n < 2 * n
      BY <2>3, <2>4
    <3> QED
      BY <3>1
  <2>5. ASSUME k = 0 PROVE q = 0
    <3>1. q * (2 * n) <= n
      BY <2>3, <2>5
    <3>2. CASE q >= 1
      <4>1. 1 * (2 * n) <= q * (2 * n)
        BY <2>2, <2>3, <3>2, TimesMono
      <4>2. 2 * n <= n
        <5> DEFINE y == q * (2 * n)
        <5>1. y \in Nat
          BY <2>3
        <5>2. 2 * n <= y /\ y <= n
          BY <3>1, <4>1
        <5> HIDE DEF y
        <5> QED
          BY <5>1, <5>2
      <4> QED
        BY <1>1, <4>2
    <3> QED
      BY <2>3, <3>2
  <2> QED
    BY <2>1, <2>4, <2>5
<1>2. CASE n = 0
  BY <1>2 DEF Percent
<1> QED
  BY <1>1, <1>2

LEMMA RatioIsZero ==
  ASSUME NEW n \in 1 .. 199, NEW k \in 0 .. n
  PROVE  /\ (600 * k) \div n \in Nat
         /\ (600 * k) \div n = 0 <=> k = 0
<1> DEFINE q == (600 * k) \div n
<1>1. 600 * k \in Nat /\ n \in Nat \ {0}
  OBVIOUS
<1>2. q \in Nat /\ q * n <= 600 * k /\ 600 * k < q * n + n
  BY <1>1, DivBounds
<1> HIDE DEF q
<1>3. ASSUME q = 0 PROVE k = 0
  <2>1. 600 * k < n
    BY <1>2, <1>3
  <2> QED
    BY <2>1
<1>4. ASSUME k = 0 PROVE q = 0
  <2>1. q * n <= 0
    BY <1>2, <1>4
  <2>2. CASE q >= 1
    <3>1. 1 * n <= q * n
      BY <1>1, <1>2, <2>2, TimesMono
    <3> DEFINE y == q * n
    <3>2. y \in Nat
      BY <1>2
    <3>3. n <= y /\ y <= 0
      BY <2>1, <3>1
    <3> HIDE DEF y
    <3> QED
      BY <3>2, <3>3
  <2> QED
    BY <1>2, <2>2
<1> QED
  BY <1>2, <1>3, <1>4 DEF q

(* Nodes on the path to a goal are nodes. *)
LEMMA PathNodes ==
  ASSUME NEW w, Worldly(w), IsFiniteSet(Node), NEW r \in GoalPath(w, w.achieves)
  PROVE  r.node \in Node
<1> DEFINE back   == Against(Pairs({d \in w.deps : d.type \in Blocking}))
           trails == {<<a>> : a \in w.achieves} \cup
                     {t \in UNION {Trails(back, a) : a \in w.achieves} : Len(t) <= MaxDepth}
           depths(m) == {Len(t) : t \in {u \in trails : Last(u) = m}}
<1>1. GoalPath(w, w.achieves) = {[node |-> m, depth |-> Min(depths(m))] : m \in {Last(t) : t \in trails}}
  BY DEF GoalPath
<1>2. Graph(back)
  BY DEF Graph, Against, Pairs, Worldly
<1> HIDE DEF back
<1>3. ASSUME NEW t \in trails PROVE Last(t) \in Node
  <2>1. CASE t \in {<<a>> : a \in w.achieves}
    <3>1. PICK a \in w.achieves : t = <<a>>
      BY <2>1
    <3>2. a \in Node /\ Last(t) = a
      BY <3>1 DEF Last, Worldly
    <3> QED
      BY <3>2
  <2>2. CASE t \notin {<<a>> : a \in w.achieves}
    <3>1. PICK a \in w.achieves : t \in Trails(back, a)
      BY <2>2
    <3>2. a \in Node
      BY DEF Worldly
    <3>3. PICK k \in 1 .. Cardinality(Node) : t \in Trail(back, a, k)
      BY <1>2, <3>1, <3>2, TrailsEnd
    <3>4. k \in Nat
      BY <3>3
    <3> QED
      BY <3>3, <3>4, TrailEnds
  <2> QED
    BY <2>1, <2>2
<1> HIDE DEF trails
<1>4. \E m \in {Last(t) : t \in trails} : r.node = m
  <2> DEFINE L == {Last(t) : t \in trails}
             low(m) == Min(depths(m))
  <2>1. r \in {[node |-> m, depth |-> low(m)] : m \in L}
    BY <1>1
  <2> HIDE DEF L, low
  <2>2. PICK m \in L : r = [node |-> m, depth |-> low(m)]
    BY <2>1
  <2>3. r.node = m
    BY <2>2
  <2> QED
    BY <2>3 DEF L
<1> QED
  BY <1>3, <1>4

(* The page's path, a finite set of tasks.  *)
OnPath(w) == {r.node : r \in VisiblePath(w)}

LEMMA PathIsFinite ==
  ASSUME NEW w, Worldly(w), IsFiniteSet(Node)
  PROVE  IsFiniteSet(OnPath(w)) /\ OnPath(w) \subseteq Node
<1>1. OnPath(w) \subseteq Node
  <2>1. VisiblePath(w) \subseteq GoalPath(w, w.achieves)
    BY DEF VisiblePath
  <2> QED
    BY <2>1, PathNodes DEF OnPath
<1> QED
  BY <1>1, FS_Subset

LEMMA PageIs ==
  ASSUME NEW w
  PROVE  /\ GoalState(w).health = Rollup(w).health /\ GoalState(w).linked_plans = VisiblePlans(w)
         /\ GoalState(w).hidden_count = Cardinality(LivePlans(w)) - Cardinality(VisiblePlans(w))
         /\ GoalState(w).tasks = OnPath(w) /\ GoalState(w).progress = Progress(w)
         /\ GoalState(w).bottlenecks = OnPath(w) \ With(w, OnPath(w), "completed")
BY DEF GoalState, OnPath

LEMMA BriefIs ==
  ASSUME NEW w
  PROVE  /\ RouteBriefing(w).health = Rollup(w).health
         /\ RouteBriefing(w).completion_pct = Share(w, TasksOf(w, w.linked), "completed")
         /\ RouteBriefing(w).plan_pct = PortfolioPct(w)
         /\ RouteBriefing(w).pending = PendingNodes(w)
BY DEF RouteBriefing, PortfolioPct

LEMMA ProgressIs ==
  ASSUME NEW w
  PROVE  Progress(w) =
           IF OnPath(w) # {} THEN Share(w, OnPath(w), "completed")
           ELSE IF VisiblePlans(w) # {} THEN Share(w, TasksOf(w, VisiblePlans(w)), "completed") ELSE 0
BY DEF Progress, OnPath

(* No task has a share of nothing. *)
LEMMA NoShare ==
  ASSUME NEW w, NEW s
  PROVE  With(w, {}, s) = {} /\ Share(w, {}, s) = 0
<1>1. With(w, {}, s) = {}
  BY DEF With
<1>2. Cardinality({}) = 0
  BY FS_EmptySet
<1> QED
  BY <1>1, <1>2 DEF Share, Percent

LEMMA SmallParts ==
  ASSUME IsFiniteSet(Node), Cardinality(Node) \in 0 .. 199, NEW S, S \subseteq Node
  PROVE  IsFiniteSet(S) /\ Cardinality(S) \in 0 .. 199
<1>1. IsFiniteSet(S) /\ Cardinality(S) <= Cardinality(Node)
  BY FS_Subset
<1>2. Cardinality(S) \in Nat
  BY <1>1, FS_CardinalityType
<1> QED
  BY <1>1, <1>2

(* A page that shows all of it done has no bottleneck. *)
LEMMA FullPageIsDone ==
  ASSUME NEW w, Worldly(w), IsFiniteSet(Node), Cardinality(Node) \in 0 .. 199, Progress(w) = 100
  PROVE  OnPath(w) \ With(w, OnPath(w), "completed") = {}
<1> DEFINE S == OnPath(w)
<1>1. CASE S = {}
  BY <1>1
<1>2. CASE S # {}
  <2>1. Share(w, S, "completed") = 100
    BY <1>2, ProgressIs
  <2>2. IsFiniteSet(S) /\ Cardinality(S) \in 0 .. 199
    BY PathIsFinite, SmallParts
  <2> HIDE DEF S
  <2>3. Cardinality(S) # 0
    BY <1>2, <2>2, EmptyOrCounted
  <2>4. /\ Cardinality(With(w, S, "completed")) \in 0 .. Cardinality(S)
        /\ Cardinality(With(w, S, "completed")) = Cardinality(S) => With(w, S, "completed") = S
    BY <2>2, ShareIsNat
  <2>5. Cardinality(S) \in 1 .. 199
    BY <2>2, <2>3
  <2>6. Percent(Cardinality(With(w, S, "completed")), Cardinality(S)) = 100
    BY <2>1 DEF Share
  <2>7. Cardinality(With(w, S, "completed")) = Cardinality(S)
    BY <2>4, <2>5, <2>6, HundredMeansDone
  <2> QED
    BY <2>4, <2>7 DEF S
<1> QED
  BY <1>1, <1>2

(* What the dashboard counts as pending are the pending nodes that are tasks. *)
LEMMA PendingTasks ==
  ASSUME NEW w, Worldly(w), IsFiniteSet(Node)
  PROVE  Rollup(w).pending = 0 <=> PendingNodes(w) \subseteq w.phases
<1> DEFINE T == TasksOf(w, w.linked)
           ready == With(w, T, "plan_ready")
           asked == T \cap w.asked
           pending == PendingNodes(w)
<1>1. Rollup(w).pending = Cardinality(ready) + Cardinality(asked)
  BY RollupIs
<1>2. IsFiniteSet(ready) /\ IsFiniteSet(asked)
  BY FiniteParts
<1>3. ready \cup asked \subseteq pending /\ pending \subseteq ready \cup asked \cup w.phases
  BY DEF PendingNodes, NodesOf, With
<1>4. T \cap w.phases = {} /\ ready \subseteq T /\ asked \subseteq T
  BY DEF TasksOf, With, Worldly
<1> HIDE DEF T, ready, asked, pending
<1>5. /\ Cardinality(ready) \in Nat /\ (Cardinality(ready) = 0 <=> ready = {})
      /\ Cardinality(asked) \in Nat /\ (Cardinality(asked) = 0 <=> asked = {})
  BY <1>2, EmptyOrCounted
<1>6. Rollup(w).pending = 0 <=> ready = {} /\ asked = {}
  BY <1>1, <1>5
<1>7. pending \subseteq w.phases <=> ready = {} /\ asked = {}
  BY <1>3, <1>4
<1> QED
  BY <1>6, <1>7 DEF pending

(* Full coherence: nothing pending and nothing blocked. *)
LEMMA FullCoherence ==
  ASSUME NEW w, Worldly(w), IsFiniteSet(Node), Cardinality(Node) \in 0 .. 199
  PROVE  Coherence(w, 0) = 1000 <=> PendingNodes(w) = {} /\ Rollup(w).percent_blocked = 0
<1> DEFINE T == TasksOf(w, w.linked)
           pending == PendingNodes(w)
           blocked == With(w, T, "blocked")
           ratio == IF T = {} THEN 0 ELSE (600 * Cardinality(blocked)) \div Cardinality(T)
           late == Min({300, 100 * Cardinality(pending)})
           stuck == Min({400, ratio})
           torn == Min({300, 30 * 0})
<1>1. Coherence(w, 0) = IF w.linked = {} THEN 1000 ELSE Max({0, 1000 - late - stuck - torn})
  BY DEF Coherence
<1>2. Rollup(w).percent_blocked = Share(w, T, "blocked")
  BY RollupIs
<1>3. w.linked = {} => T = {} /\ pending = {}
  BY DEF TasksOf, PendingNodes, NodesOf, With
<1>4. T \subseteq Node /\ blocked \subseteq T /\ pending \subseteq Node
  BY FiniteParts DEF With, PendingNodes, NodesOf, Worldly
<1>5. T = {} => Share(w, T, "blocked") = 0
  BY NoShare
<1>6. Share(w, T, "blocked") = Percent(Cardinality(blocked), Cardinality(T))
  BY DEF Share
<1> HIDE DEF T, pending, blocked
<1>7. IsFiniteSet(T) /\ Cardinality(T) \in 0 .. 199 /\ IsFiniteSet(pending) /\ IsFiniteSet(blocked)
  <2>1. blocked \subseteq Node
    BY <1>4
  <2> QED
    BY <1>4, <2>1, SmallParts
<1>8. /\ Cardinality(pending) \in Nat /\ (Cardinality(pending) = 0 <=> pending = {})
      /\ Cardinality(T) \in Nat /\ (Cardinality(T) = 0 <=> T = {})
  BY <1>7, EmptyOrCounted
<1>9. Cardinality(blocked) \in 0 .. Cardinality(T)
  <2>1. Cardinality(blocked) <= Cardinality(T) /\ Cardinality(blocked) \in Nat
    BY <1>4, <1>7, FS_Subset, FS_CardinalityType
  <2> QED
    BY <1>8, <2>1
<1>11. Rollup(w).percent_blocked = 0 <=> Cardinality(blocked) = 0
  BY <1>2, <1>6, <1>7, <1>9, NothingIsZero
<1>12. ratio \in Nat /\ (ratio = 0 <=> Cardinality(blocked) = 0)
  <2>1. CASE T = {}
    <3>1. Cardinality(blocked) = 0
      BY <1>8, <1>9, <2>1
    <3> QED
      BY <2>1, <3>1
  <2>2. CASE T # {}
    <3>1. Cardinality(T) \in 1 .. 199
      BY <1>7, <1>8, <2>2
    <3> QED
      BY <1>9, <2>2, <3>1, RatioIsZero
  <2> QED
    BY <2>1, <2>2
<1> HIDE DEF ratio
<1>13. late \in 0 .. 300 /\ (late = 0 <=> Cardinality(pending) = 0)
  <2> DEFINE c == Cardinality(pending)
             z == 100 * c
  <2>1. c \in Nat
    BY <1>8
  <2> HIDE DEF c
  <2>2. z \in Nat /\ (z = 0 <=> c = 0)
    BY <2>1
  <2>3. late = Min({300, z})
    BY DEF c
  <2> HIDE DEF z, late
  <2>4. late = IF 300 <= z THEN 300 ELSE z
    BY <2>2, <2>3, LesserIs
  <2>5. late \in 0 .. 300 /\ (late = 0 <=> c = 0)
    BY <2>2, <2>4
  <2> QED
    BY <2>5 DEF c
<1>14. stuck \in 0 .. 400 /\ (stuck = 0 <=> ratio = 0)
  <2>1. stuck = IF 400 <= ratio THEN 400 ELSE ratio
    BY <1>12, LesserIs
  <2> HIDE DEF stuck
  <2> QED
    BY <1>12, <2>1
<1>15. torn = 0
  <2>1. 30 * 0 = 0
    OBVIOUS
  <2>2. torn = Min({300, 0})
    BY <2>1
  <2> HIDE DEF torn
  <2>3. Min({300, 0}) = IF 300 <= 0 THEN 300 ELSE 0
    BY LesserIs
  <2> QED
    BY <2>2, <2>3
<1> HIDE DEF late, stuck, torn
<1>16. Max({0, 1000 - late - stuck - torn}) = 1000 - late - stuck
  <2> DEFINE v == 1000 - late - stuck
             u == 1000 - late - stuck - torn
  <2>1. v \in Nat /\ u = v
    BY <1>13, <1>14, <1>15
  <2> HIDE DEF u, v
  <2>2. {0, v} \subseteq Nat /\ v \in {0, v} /\ \A n \in {0, v} : n <= v
    BY <2>1
  <2>3. Max({0, v}) = v
    BY <2>2, MaxIs
  <2>4. Max({0, u}) = v
    BY <2>1, <2>3, Zenon
  <2> QED
    BY <2>4 DEF u, v
<1>17. CASE w.linked = {}
  <2>1. Rollup(w).percent_blocked = 0 /\ pending = {}
    BY <1>2, <1>3, <1>5, <1>17
  <2> QED
    BY <1>1, <1>17, <2>1 DEF pending
<1>18. CASE w.linked # {}
  <2>1. Coherence(w, 0) = 1000 - late - stuck
    BY <1>1, <1>16, <1>18
  <2>2. Coherence(w, 0) = 1000 <=> late = 0 /\ stuck = 0
    BY <1>13, <1>14, <2>1
  <2>3. Coherence(w, 0) = 1000 <=> pending = {} /\ Rollup(w).percent_blocked = 0
    BY <1>8, <1>11, <1>12, <1>13, <1>14, <2>2
  <2> QED
    BY <2>3 DEF pending
<1> QED
  BY <1>17, <1>18

(* What every surface says of one goal, computed twice, three times or     *)
(* five times: one verdict (rollupFromRow, goalDashboard, getGoalState,    *)
(* the briefing and the coherence of goals.routes), as long as the plans    *)
(* have fewer than two hundred tasks, beyond which a share is rounded to    *)
(* one hundred before all is done.                                         *)
THEOREM SurfacesTellOneStory ==
  ASSUME Worldly(world), IsFiniteSet(Node), Cardinality(Node) \in 0 .. 199
  PROVE  SurfacesAgree
<1> DEFINE T == TasksOf(world, world.linked)
           r == Rollup(world)
           m == MissionGoal(world)
           s == GoalState(world)
           b == RouteBriefing(world)
           live == LivePlans(world)
           seen == VisiblePlans(world)
<1>1. /\ r.health = ClassifyHealth(Standing(world)) /\ r.execution_pct = Share(world, T, "completed")
      /\ r.percent_blocked = Share(world, T, "blocked") /\ r.linked_plan_count = Cardinality(live)
      /\ r.pending = Cardinality(With(world, T, "plan_ready")) + Cardinality(T \cap world.asked)
  BY RollupIs
<1>2. /\ m.health = ClassifyHealth(Standing(world)) /\ m.execution_pct = Share(world, T, "completed")
      /\ m.percent_blocked = Share(world, T, "blocked") /\ m.linked_plan_count = Cardinality(live)
      /\ m.pending = Cardinality(With(world, T, "plan_ready")) + Cardinality(T \cap world.asked)
  BY MissionIs
<1>3. /\ s.health = r.health /\ s.linked_plans = seen
      /\ s.hidden_count = Cardinality(live) - Cardinality(seen)
      /\ s.tasks = OnPath(world) /\ s.progress = Progress(world)
      /\ s.bottlenecks = OnPath(world) \ With(world, OnPath(world), "completed")
  BY PageIs
<1>4. /\ b.health = r.health /\ b.completion_pct = Share(world, T, "completed")
      /\ b.plan_pct = PortfolioPct(world) /\ b.pending = PendingNodes(world)
  BY BriefIs
<1>5. /\ Cardinality(live) \in Nat /\ (Cardinality(live) = 0 <=> live = {})
      /\ Cardinality(seen) \in Nat
  BY FiniteParts, EmptyOrCounted
<1>6. r.linked_plan_count = 0 <=> Actionability(world) = 0
  <2> DEFINE c == Cardinality(live)
             z == 50 * c
  <2>1. c \in Nat /\ Actionability(world) = Min({100, z})
    BY <1>5 DEF Actionability
  <2> HIDE DEF c
  <2>2. z \in Nat /\ (z = 0 <=> c = 0)
    BY <2>1
  <2> HIDE DEF z
  <2>3. Actionability(world) = IF 100 <= z THEN 100 ELSE z
    BY <2>1, <2>2, LesserIs
  <2>4. Actionability(world) = 0 <=> c = 0
    BY <2>2, <2>3
  <2> QED
    BY <1>1, <2>4 DEF c
<1>7. r.linked_plan_count = Cardinality(s.linked_plans) + s.hidden_count
  <2> DEFINE i == Cardinality(live)
             j == Cardinality(seen)
  <2>1. i \in Nat /\ j \in Nat
    BY <1>5
  <2>2. r.linked_plan_count = i /\ Cardinality(s.linked_plans) = j /\ s.hidden_count = i - j
    BY <1>1, <1>3
  <2> HIDE DEF i, j, r, s
  <2> QED
    BY <2>1, <2>2
<1>8. ASSUME s.tasks = {}, seen = world.linked PROVE s.progress = r.execution_pct
  <2>1. OnPath(world) = {}
    BY <1>3, <1>8
  <2>2. CASE seen # {}
    BY <1>1, <1>3, <1>8, <2>1, <2>2, ProgressIs
  <2>3. CASE seen = {}
    <3>1. T = {}
      BY <1>8, <2>3 DEF TasksOf
    <3>2. Share(world, T, "completed") = 0
      BY <3>1, NoShare
    <3>3. Progress(world) = 0
      BY <2>1, <2>3, ProgressIs
    <3> QED
      BY <1>1, <1>3, <3>2, <3>3
  <2> QED
    BY <2>2, <2>3
<1>9. ASSUME s.progress = 100 PROVE s.bottlenecks = {}
  BY <1>3, <1>9, FullPageIsDone
<1>10. Coherence(world, 0) = 1000 <=> b.pending = {} /\ r.percent_blocked = 0
  BY <1>4, FullCoherence
<1>15. r.pending = 0 <=> b.pending \subseteq world.phases
  BY <1>4, PendingTasks
<1> HIDE DEF r, m, s, b, T, live
<1>11. {m.health, s.health, b.health} = {r.health}
  BY <1>1, <1>2, <1>3, <1>4
<1>12. /\ m["execution_pct"] = r["execution_pct"] /\ m["percent_blocked"] = r["percent_blocked"]
       /\ m["linked_plan_count"] = r["linked_plan_count"] /\ m["pending"] = r["pending"]
  BY <1>1, <1>2
<1>13. \A f \in {"execution_pct", "percent_blocked", "linked_plan_count", "pending"} : m[f] = r[f]
  BY <1>12
<1>14. b.completion_pct = r.execution_pct /\ b.plan_pct = PortfolioPct(world)
  BY <1>1, <1>4
<1> QED
  BY <1>6, <1>7, <1>8, <1>9, <1>10, <1>11, <1>13, <1>14, <1>15 DEF SurfacesAgree, r, m, s, b

-----------------------------------------------------------------------------
(* The invariant of the specification: the rows are those of one plan, its *)
(* tree is one of Trees, its tasks have statuses of theirs, and every edge *)
(* joins two of the six nodes.                                             *)
Edge == [source : Node \ {g}, target : Node, type : {"blocks", "requires", "relates_to"}, weight : {1}]

Statused(p) == DOMAIN p.status = Node /\ \A n \in Tasks : p.status[n] \in StatusesOf(n)

Shaped(p) ==
  /\ DOMAIN p = {"rows", "parent", "type", "status", "deps", "claimed"}
  /\ \E t \in Trees : p.rows = t.rows /\ p.parent = t.parent
  /\ p.type = Type /\ Statused(p)
  /\ p.deps \subseteq Edge /\ IsFiniteSet(p.deps)
  /\ \A d \in p.deps : d.source # d.target

PlanShape == Shaped(plan)

PlanInv ==
  /\ IF view = "queries" THEN PlanShape ELSE plan = Nil
  /\ Planned

LEMMA ShapeIsTreed ==
  ASSUME PlanShape
  PROVE  Treed(plan, High) /\ RowsIn(plan) = InPlan
<1>1. PICK t \in Trees : plan.rows = t.rows /\ plan.parent = t.parent
  BY DEF PlanShape, Shaped
<1>2. Treed(t, High) /\ RowsIn(t) = InPlan
  BY TreesAreTreed
<1>3. RowsIn(plan) = RowsIn(t)
  BY <1>1 DEF RowsIn
<1> QED
  BY <1>1, <1>2, <1>3 DEF Treed

LEMMA ShapeIsWhole ==
  ASSUME PlanShape
  PROVE  IsFiniteSet(Node) /\ {t1, t2, t3} \subseteq Node /\ JoinsOnly /\ Whole /\ Scheduled
<1>1. Node = {g, ph, t1, t2, t3, x}
  BY NodesDiffer
<1>2. IsFiniteSet(Node)
  <2>1. IsFiniteSet({})
    BY FS_EmptySet
  <2>2. \A S, e : IsFiniteSet(S) => IsFiniteSet(S \cup {e})
    BY FS_AddElement
  <2>3. Node = {} \cup {g} \cup {ph} \cup {t1} \cup {t2} \cup {t3} \cup {x}
    BY <1>1
  <2> QED
    BY <2>1, <2>2, <2>3
<1>3. JoinsOnly
  BY DEF PlanShape, Shaped, Edge, JoinsOnly, Joins
<1>4. \A d \in plan.deps : d.weight = 1 /\ d.source \in Node /\ d.source # g
  BY DEF PlanShape, Shaped, Edge
<1>5. \A n \in Node : n # g => plan.type[n] # "root"
  BY DEF PlanShape, Shaped, Type
<1>6. InPlan \subseteq Node /\ ToSet(plan.rows) = InPlan
  BY ShapeIsTreed DEF RowsIn, InPlan
<1>7. Whole
  BY <1>1, <1>2, <1>3, <1>4, <1>5, <1>6 DEF Whole
<1>8. Scheduled
  BY <1>7 DEF PlanShape, Shaped, Edge, Scheduled, Blocking
<1> QED
  BY <1>1, <1>2, <1>3, <1>7, <1>8

(* Only the phase is no task and not the root. *)
LEMMA ShapeIsTyped ==
  ASSUME PlanShape
  PROVE  \A n \in InPlan \ {ph} : plan.type[n] \in TaskTypes \cup {"root"}
<1>1. /\ InPlan = {g, ph, t1, t2, t3}
      /\ g # ph /\ g # t1 /\ g # t2 /\ g # t3 /\ ph # t1 /\ ph # t2 /\ ph # t3
      /\ t1 # t2 /\ t1 # t3 /\ t2 # t3 /\ g \in Node /\ t1 \in Node /\ t2 \in Node /\ t3 \in Node
  BY NodesDiffer
<1>2. /\ plan.type[g] = "root" /\ plan.type[t3] = "milestone"
      /\ plan.type[t1] = "task" /\ plan.type[t2] = "task"
  BY <1>1 DEF PlanShape, Shaped, Type
<1> QED
  BY <1>1, <1>2 DEF TaskTypes

LEMMA PlanStarts == Init => PlanInv
<1> SUFFICES ASSUME Init PROVE PlanInv
  OBVIOUS
<1>1. Planned
  BY DEF Init, RollupInit, Planned
<1>2. ASSUME view = "queries" PROVE PlanShape
  <2>1. PICK t \in Trees :
          plan = [rows |-> t.rows, parent |-> t.parent, type |-> Type,
                  status |-> [n \in Node |-> "not_started"], deps |-> {}, claimed |-> {}]
    BY <1>2 DEF Init, PlanInit
  <2>2. \A n \in Tasks : n \in Node /\ "not_started" \in StatusesOf(n)
    BY NodesDiffer DEF Tasks, StatusesOf
  <2>3. Statused(plan)
    BY <2>1, <2>2 DEF Statused
  <2>4. IsFiniteSet(plan.deps)
    BY <2>1, FS_EmptySet
  <2> QED
    BY <2>1, <2>3, <2>4 DEF PlanShape, Shaped
<1> QED
  BY <1>1, <1>2 DEF PlanInv, Init

LEMMA PlanSteps == PlanInv /\ [Next]_vars => PlanInv'
<1> SUFFICES ASSUME PlanInv, [Next]_vars PROVE PlanInv'
  OBVIOUS
<1>1. view' = view
  BY DEF Next, vars
<1>2. Planned'
  <2>1. UNCHANGED <<parent, type>>
    BY DEF Next, RollupNext, rollupVars, vars
  <2> QED
    BY <2>1 DEF PlanInv, Planned, Nodes
<1>3. ASSUME view # "queries" PROVE plan' = Nil
  BY <1>3 DEF PlanInv, Next, vars
<1>4. ASSUME view = "queries" PROVE Shaped(plan')
  <2>1. Shaped(plan)
    BY <1>4 DEF PlanInv, PlanShape
  <2>2. PlanNext \/ plan' = plan
    BY <1>4 DEF Next, vars
  <2>3. ASSUME NEW S, S \subseteq Edge, IsFiniteSet(S), \A d \in S : d.source # d.target,
               plan' = [plan EXCEPT !.deps = S]
        PROVE  Shaped(plan')
    <3>1. /\ DOMAIN plan' = DOMAIN plan /\ plan'.rows = plan.rows /\ plan'.parent = plan.parent
          /\ plan'.type = plan.type /\ plan'.status = plan.status /\ plan'.deps = S
      BY <2>1, <2>3 DEF Shaped
    <3> QED
      BY <2>1, <2>3, <3>1 DEF Shaped, Statused
  <2>4. ASSUME DOMAIN plan' = DOMAIN plan, plan'.rows = plan.rows, plan'.parent = plan.parent,
               plan'.type = plan.type, Statused(plan'), plan'.deps = plan.deps
        PROVE  Shaped(plan')
    BY <2>1, <2>4 DEF Shaped
  <2>5. CASE UpdateStatus
    <3>1. PICK n \in Tasks : \E s \in StatusesOf(n) : plan' = [plan EXCEPT !.status[n] = s]
      BY <2>5 DEF UpdateStatus
    <3>4. PICK s \in StatusesOf(n) : plan' = [plan EXCEPT !.status[n] = s]
      BY <3>1
    <3>2. /\ DOMAIN plan' = DOMAIN plan /\ plan'.rows = plan.rows /\ plan'.parent = plan.parent
          /\ plan'.type = plan.type /\ plan'.deps = plan.deps
          /\ plan'.status = [plan.status EXCEPT ![n] = s]
      BY <2>1, <3>4 DEF Shaped
    <3>3. Statused(plan')
      <4>1. Statused(plan)
        BY <2>1 DEF Shaped
      <4> QED
        BY <3>2, <4>1 DEF Statused
    <3> QED
      BY <2>4, <3>2, <3>3
  <2>6. CASE CreateDependency
    <3>1. PICK d \in Deps : d.source # d.target /\ plan' = [plan EXCEPT !.deps = @ \cup {d}]
      BY <2>6 DEF CreateDependency
    <3>2. d \in Edge
      <4>1. CASE d \in Extra
        BY <4>1, QueriesAssumption DEF QueriesAssumption, Edge
      <4>2. CASE d \notin Extra
        <5>1. PICK s \in Tasks, t \in Tasks : d = Dep(s, t, "blocks")
          BY <4>2 DEF Deps
        <5>2. s \in Node \ {g} /\ t \in Node
          BY NodesDiffer DEF Tasks
        <5> QED
          BY <5>1, <5>2 DEF Dep, Edge
      <4> QED
        BY <4>1, <4>2
    <3> DEFINE S == plan.deps \cup {d}
    <3>3. S \subseteq Edge /\ \A c \in S : c.source # c.target
      BY <2>1, <3>1, <3>2 DEF Shaped
    <3>5. IsFiniteSet(S)
      BY <2>1, FS_AddElement DEF Shaped
    <3>4. plan' = [plan EXCEPT !.deps = S]
      BY <3>1
    <3> HIDE DEF S
    <3> QED
      BY <2>3, <3>3, <3>4, <3>5
  <2>7. CASE DeleteDependency
    <3>1. PICK d \in plan.deps : plan' = [plan EXCEPT !.deps = @ \ {d}]
      BY <2>7 DEF DeleteDependency
    <3> DEFINE S == plan.deps \ {d}
    <3>2. S \subseteq Edge /\ \A c \in S : c.source # c.target
      BY <2>1 DEF Shaped
    <3>4. IsFiniteSet(S)
      <4>1. S \subseteq plan.deps
        OBVIOUS
      <4> HIDE DEF S
      <4> QED
        BY <2>1, <4>1, FS_Subset DEF Shaped
    <3>3. plan' = [plan EXCEPT !.deps = S]
      BY <3>1
    <3> HIDE DEF S
    <3> QED
      BY <2>3, <3>2, <3>3, <3>4
  <2>8. CASE ClaimOrRelease
    <3>1. /\ DOMAIN plan' = DOMAIN plan /\ plan'.rows = plan.rows /\ plan'.parent = plan.parent
          /\ plan'.type = plan.type /\ plan'.deps = plan.deps /\ plan'.status = plan.status
      BY <2>1, <2>8 DEF ClaimOrRelease, Shaped
    <3> QED
      BY <2>1, <2>4, <3>1 DEF Shaped, Statused
  <2>9. CASE plan' = plan
    BY <2>1, <2>9
  <2> QED
    BY <2>2, <2>5, <2>6, <2>7, <2>8, <2>9 DEF PlanNext
<1> QED
  BY <1>1, <1>2, <1>3, <1>4 DEF PlanInv, PlanShape

LEMMA PlanKept == Spec => []PlanInv
  BY PlanStarts, PlanSteps, PTL DEF Spec

LEMMA NilIsNoPlan == PlanInv => plan = Nil \/ PlanShape
  BY DEF PlanInv

(* However statuses, edges and claims change, the recursive queries of     *)
(* dependencies.dal.mjs stay exact.                                        *)
THEOREM QueriesAreExact == Spec => []WalksExact
<1>1. PlanInv => WalksExact
  <2> SUFFICES ASSUME PlanInv, plan # Nil PROVE WalksExact
    BY DEF WalksExact
  <2>1. IsFiniteSet(Node) /\ {t1, t2, t3} \subseteq Node /\ JoinsOnly
    BY NilIsNoPlan, ShapeIsWhole
  <2> QED
    BY <2>1, WalksAreExact
<1> QED
  BY <1>1, PlanKept, PTL

(* However statuses, edges and claims change, getCriticalPath and          *)
(* computeCriticalPath answer with longest chains.                         *)
THEOREM CriticalPathsAreLongest == Spec => []CriticalExact
<1>1. PlanInv => CriticalExact
  <2> SUFFICES ASSUME PlanInv, plan # Nil PROVE CriticalExact
    BY DEF CriticalExact
  <2>1. IsFiniteSet(Node) /\ Whole
    BY NilIsNoPlan, ShapeIsWhole
  <2> QED
    BY <2>1, CriticalPathsAreExact
<1> QED
  BY <1>1, PlanKept, PTL

(* However statuses, edges and claims change, topologicalSort lists every  *)
(* open task exactly once, in the layer after its last open blocker, and   *)
(* leaves out exactly what is on a cycle or behind one.                    *)
THEOREM SchedulesAreExact == Spec => [](plan # Nil => LayersExact)
<1>1. PlanInv => (plan # Nil => LayersExact)
  <2> SUFFICES ASSUME PlanInv, plan # Nil PROVE LayersExact
    OBVIOUS
  <2>1. IsFiniteSet(Node) /\ Scheduled
    BY NilIsNoPlan, ShapeIsWhole
  <2> QED
    BY <2>1, ScheduleIsExact
<1> QED
  BY <1>1, PlanKept, PTL

(* However statuses, edges and claims change, a plan is listed depth first *)
(* and complete, with a task whose parent is gone.                         *)
THEOREM OrdersAreDepthFirst == Spec => []DepthFirst
<1>1. PlanInv => DepthFirst
  <2> SUFFICES ASSUME PlanInv, plan # Nil PROVE DepthFirst
    BY DEF DepthFirst
  <2> QED
    BY NilIsNoPlan, ShapeIsTreed, OrderIsDepthFirst
<1> QED
  BY <1>1, PlanKept, PTL

(* However statuses, edges and claims change, schedules are exact and what *)
(* agents are told to do next is what the schedule has first.              *)
THEOREM SuggestionsFollowSchedule == Spec => []ScheduleLayered
<1>1. PlanInv => ScheduleLayered
  <2> SUFFICES ASSUME PlanInv, plan # Nil PROVE LayersExact /\ SuggestionsAgree
    BY DEF ScheduleLayered
  <2>1. PlanShape
    BY NilIsNoPlan
  <2>2. LayersExact
    BY <2>1, ShapeIsWhole, ScheduleIsExact
  <2>3. SuggestionsAgree
    BY <2>1, ShapeIsWhole, ShapeIsTreed, ShapeIsTyped, SuggestionsAreFirstLayer
  <2> QED
    BY <2>2, <2>3
<1> QED
  BY <1>1, PlanKept, PTL

(* However statuses, edges and claims change, agents are sent away from a   *)
(* plan without circles and blocking phases only while all its open work is *)
(* idle or waits for idle work.                                             *)
THEOREM AgentsFindWork == Spec => []WorkToOffer
<1>1. PlanInv => WorkToOffer
  <2> SUFFICES ASSUME PlanInv, plan # Nil PROVE WorkToOffer
    BY DEF WorkToOffer
  <2>1. PlanShape
    BY NilIsNoPlan
  <2> QED
    BY <2>1, ShapeIsWhole, ShapeIsTreed, ShapeIsTyped, ThereIsWork
<1> QED
  BY <1>1, PlanKept, PTL

(* However the work of a plan goes, planRollup.service.js tells the same   *)
(* of it on its tree, on its page and in the list of plans, whatever tree  *)
(* of up to 200 nodes it is, as long as work nodes have no sub-tasks.      *)
(* (From 200 work nodes on one open task can round up to 100%.)            *)
THEOREM OneStoryOfAPlan ==
  ASSUME Inner \subseteq ContainerTypes, Size <= 200
  PROVE  Spec => []RollupTruthful
<1>1. Ranges
  BY RollupAssumption DEF RollupAssumption, Ranges
<1>2. PlanInv => RollupTruthful
  <2> SUFFICES ASSUME PlanInv PROVE RollupTruthful
    OBVIOUS
  <2>1. Planned
    BY DEF PlanInv
  <2> QED
    BY <1>1, <2>1, ContainersAreTruthful, RootIsTruthful, ListsMatch DEF RollupTruthful
<1> QED
  BY <1>2, PlanKept, PTL

-----------------------------------------------------------------------------
(* The rows around the goal: the same four tasks and one phase, no more    *)
(* than three plans and three edges, whatever has changed.                 *)
Surroundings ==
  {"tasks", "phases", "plan", "status", "deps", "achieves", "asked", "due",
   "linked", "archived", "hidden", "touched", "attained"}

Surrounded(w) ==
  /\ DOMAIN w = Surroundings
  /\ w.tasks = <<t1, x, t2, t3>> /\ w.phases = {ph}
  /\ w.linked \subseteq {here, there, bare}
  /\ w.deps \subseteq Edges
  /\ w.achieves \subseteq {t1, x}
  /\ w.attained \in {Nil, 0}

WorldInv == IF view = "goal" THEN Surrounded(world) ELSE world = Nil

LEMMA SurroundedIsWorldly ==
  ASSUME NEW w, Surrounded(w)
  PROVE  Worldly(w)
<1>1. Node = {g, ph, t1, t2, t3, x}
  BY NodesDiffer
<1>2. w.tasks \in Seq(Node)
  BY <1>1 DEF Surrounded
<1>12. w.phases \subseteq Node /\ w.phases \cap ToSet(w.tasks) = {}
  <2>1. ToSet(w.tasks) = {t1, x, t2, t3}
    <3>1. ToSet(<<t1, x, t2, t3>>) = {t1, x, t2, t3}
      BY DEF ToSet
    <3> QED
      BY <3>1 DEF Surrounded
  <2>2. w.phases = {ph}
    BY DEF Surrounded
  <2> QED
    BY <2>1, <2>2, NodesDiffer
<1>3. \A S, e : IsFiniteSet(S) => IsFiniteSet(S \cup {e})
  BY FS_AddElement
<1>4. IsFiniteSet({})
  BY FS_EmptySet
<1>5. IsFiniteSet(w.linked)
  <2>1. {here, there, bare} = {} \cup {here} \cup {there} \cup {bare}
    OBVIOUS
  <2>2. IsFiniteSet({} \cup {here} \cup {there} \cup {bare})
    BY <1>3, <1>4
  <2>3. IsFiniteSet({here, there, bare})
    BY <2>1, <2>2
  <2> QED
    BY <2>3, FS_Subset DEF Surrounded
<1> DEFINE edge(e) == [source |-> e[1], target |-> e[2], type |-> "blocks", weight |-> 1]
           pairs == {<<t1, t2>>, <<t2, t3>>, <<x, t1>>}
<1>6. Edges = {edge(e) : e \in pairs}
  BY DEF Edges
<1>7. \A d \in Edges : d.source \in Node /\ d.target \in Node /\ d.type = "blocks"
  <2>1. \A e \in pairs : e[1] \in Node /\ e[2] \in Node
    BY <1>1
  <2>2. \A e : edge(e).source = e[1] /\ edge(e).target = e[2] /\ edge(e).type = "blocks"
    OBVIOUS
  <2> HIDE DEF pairs, edge
  <2> QED
    BY <1>6, <2>1, <2>2
<1>8. IsFiniteSet(Edges)
  <2>1. pairs = {} \cup {<<t1, t2>>} \cup {<<t2, t3>>} \cup {<<x, t1>>}
    OBVIOUS
  <2> DEFINE p1 == <<t1, t2>>
             p2 == <<t2, t3>>
             p3 == <<x, t1>>
  <2>2. pairs = {p1, p2, p3}
    OBVIOUS
  <2> HIDE DEF pairs, edge, p1, p2, p3
  <2>3. Edges = {edge(p1), edge(p2), edge(p3)}
    BY <1>6, <2>2
  <2>4. Edges = {} \cup {edge(p1)} \cup {edge(p2)} \cup {edge(p3)}
    BY <2>3
  <2> QED
    BY <1>3, <1>4, <2>4
<1>9. w.achieves \subseteq Node /\ (w.attained = Nil \/ w.attained \in 0 .. 100)
  BY <1>1 DEF Surrounded
<1>10. w.deps \subseteq Edges
  BY DEF Surrounded
<1>11. IsFiniteSet(w.deps)
  BY <1>8, <1>10, FS_Subset
<1> QED
  BY <1>2, <1>5, <1>7, <1>9, <1>10, <1>11, <1>12 DEF Worldly

LEMMA OneAdded ==
  ASSUME NEW S, NEW e, NEW n \in Nat, IsFiniteSet(S), Cardinality(S) <= n
  PROVE  IsFiniteSet(S \cup {e}) /\ Cardinality(S \cup {e}) <= n + 1
<1> DEFINE U == S \cup {e}
<1>1. IsFiniteSet(U) /\ (Cardinality(U) = IF e \in S THEN Cardinality(S) ELSE Cardinality(S) + 1)
  BY FS_AddElement
<1>2. Cardinality(S) \in Nat
  BY FS_CardinalityType
<1> HIDE DEF U
<1>3. IsFiniteSet(U) /\ Cardinality(U) <= n + 1
  BY <1>1, <1>2
<1> QED
  BY <1>3 DEF U

LEMMA FewNodes == IsFiniteSet(Node) /\ Cardinality(Node) \in 0 .. 199
<1>1. Node = {} \cup {g} \cup {ph} \cup {t1} \cup {t2} \cup {t3} \cup {x}
  BY NodesDiffer
<1> DEFINE s0 == {}
           s1 == s0 \cup {g}
           s2 == s1 \cup {ph}
           s3 == s2 \cup {t1}
           s4 == s3 \cup {t2}
           s5 == s4 \cup {t3}
           s6 == s5 \cup {x}
<1>2. IsFiniteSet(s0) /\ Cardinality(s0) <= 0
  BY FS_EmptySet
<1> HIDE DEF s0
<1>3. IsFiniteSet(s1) /\ Cardinality(s1) <= 1
  <2>1. 0 \in Nat /\ 0 + 1 = 1
    OBVIOUS
  <2>2. IsFiniteSet(s1) /\ Cardinality(s1) <= 0 + 1
    BY <1>2, <2>1, OneAdded
  <2> HIDE DEF s1
  <2> QED
    BY <2>1, <2>2
<1> HIDE DEF s1
<1>4. IsFiniteSet(s2) /\ Cardinality(s2) <= 2
  <2>1. 1 \in Nat /\ 1 + 1 = 2
    OBVIOUS
  <2>2. IsFiniteSet(s2) /\ Cardinality(s2) <= 1 + 1
    BY <1>3, <2>1, OneAdded
  <2> HIDE DEF s2
  <2> QED
    BY <2>1, <2>2
<1> HIDE DEF s2
<1>5. IsFiniteSet(s3) /\ Cardinality(s3) <= 3
  <2>1. 2 \in Nat /\ 2 + 1 = 3
    OBVIOUS
  <2>2. IsFiniteSet(s3) /\ Cardinality(s3) <= 2 + 1
    BY <1>4, <2>1, OneAdded
  <2> HIDE DEF s3
  <2> QED
    BY <2>1, <2>2
<1> HIDE DEF s3
<1>6. IsFiniteSet(s4) /\ Cardinality(s4) <= 4
  <2>1. 3 \in Nat /\ 3 + 1 = 4
    OBVIOUS
  <2>2. IsFiniteSet(s4) /\ Cardinality(s4) <= 3 + 1
    BY <1>5, <2>1, OneAdded
  <2> HIDE DEF s4
  <2> QED
    BY <2>1, <2>2
<1> HIDE DEF s4
<1>7. IsFiniteSet(s5) /\ Cardinality(s5) <= 5
  <2>1. 4 \in Nat /\ 4 + 1 = 5
    OBVIOUS
  <2>2. IsFiniteSet(s5) /\ Cardinality(s5) <= 4 + 1
    BY <1>6, <2>1, OneAdded
  <2> HIDE DEF s5
  <2> QED
    BY <2>1, <2>2
<1> HIDE DEF s5
<1>8. IsFiniteSet(s6) /\ Cardinality(s6) <= 6
  <2>1. 5 \in Nat /\ 5 + 1 = 6
    OBVIOUS
  <2>2. IsFiniteSet(s6) /\ Cardinality(s6) <= 5 + 1
    BY <1>7, <2>1, OneAdded
  <2> HIDE DEF s6
  <2> QED
    BY <2>1, <2>2
<1>9. Cardinality(s6) \in Nat
  BY <1>8, FS_CardinalityType
<1>10. Node = s6
  BY <1>1 DEF s0, s1, s2, s3, s4, s5
<1> HIDE DEF s6
<1> QED
  BY <1>8, <1>9, <1>10

LEMMA WorldStarts == Init => WorldInv
<1> SUFFICES ASSUME Init PROVE WorldInv
  OBVIOUS
<1>1. ASSUME view = "goal" PROVE Surrounded(world)
  <2>1. PICK linked \in SUBSET {here, there, bare}, archived \in SUBSET {here, there},
             hidden \in SUBSET {there}, touched \in {{}, {here, bare}}, attained \in {Nil, 0} :
          world = [tasks |-> <<t1, x, t2, t3>>,
                   plan |-> [n \in Board |-> IF n = x THEN there ELSE here], phases |-> {ph},
                   status |-> [n \in Node |-> "not_started"], deps |-> {},
                   achieves |-> {}, asked |-> {}, due |-> {},
                   linked |-> linked, archived |-> archived, hidden |-> hidden,
                   touched |-> touched, attained |-> attained]
    BY <1>1 DEF Init, WorldInit
  <2>2. DOMAIN world = Surroundings
    BY <2>1 DEF Surroundings
  <2>3. /\ world.tasks = <<t1, x, t2, t3>> /\ world.phases = {ph} /\ world.linked = linked /\ world.deps = {}
        /\ world.achieves = {} /\ world.attained = attained
    BY <2>1
  <2> QED
    BY <2>2, <2>3 DEF Surrounded
<1> QED
  BY <1>1 DEF WorldInv, Init

LEMMA WorldSteps == WorldInv /\ [Next]_vars => WorldInv'
<1> SUFFICES ASSUME WorldInv, [Next]_vars PROVE WorldInv'
  OBVIOUS
<1>1. view' = view
  BY DEF Next, vars
<1>2. ASSUME view # "goal" PROVE world' = Nil
  BY <1>2 DEF WorldInv, Next, vars
<1>3. ASSUME view = "goal" PROVE Surrounded(world')
  <2>1. Surrounded(world)
    BY <1>3 DEF WorldInv
  <2>2. WorldNext \/ world' = world
    BY <1>3 DEF Next, vars
  <2>3. CASE SetStatus
    <3>1. PICK n \in Board : \E s \in StatusesIn(n) : Become([world EXCEPT !.status[n] = s])
      BY <2>3 DEF SetStatus
    <3>2. PICK s \in StatusesIn(n) : world' = [world EXCEPT !.status[n] = s]
      BY <3>1 DEF Become
    <3>3. /\ DOMAIN world' = DOMAIN world /\ world'.tasks = world.tasks
          /\ world'.phases = world.phases /\ world'.linked = world.linked
          /\ world'.deps = world.deps /\ world'.achieves = world.achieves
          /\ world'.attained = world.attained
      BY <2>1, <3>2 DEF Surrounded, Surroundings
    <3> QED
      BY <2>1, <3>3 DEF Surrounded
  <2>4. CASE AddOrDeleteEdge
    <3>1. PICK d \in Edges : \E D \in {world.deps \cup {d}, world.deps \ {d}} :
                               Become([world EXCEPT !.deps = D])
      BY <2>4 DEF AddOrDeleteEdge
    <3>2. PICK D \in {world.deps \cup {d}, world.deps \ {d}} : world' = [world EXCEPT !.deps = D]
      BY <3>1 DEF Become
    <3>3. /\ DOMAIN world' = DOMAIN world /\ world'.tasks = world.tasks
          /\ world'.phases = world.phases /\ world'.linked = world.linked
          /\ world'.deps = D /\ world'.achieves = world.achieves /\ world'.attained = world.attained
      BY <2>1, <3>2 DEF Surrounded, Surroundings
    <3>4. D \subseteq Edges
      BY <2>1 DEF Surrounded
    <3> QED
      BY <2>1, <3>3, <3>4 DEF Surrounded
  <2>5. CASE AddOrRemoveAchiever
    <3>1. PICK A \in SUBSET {t1, x} : world' = [world EXCEPT !.achieves = A]
      BY <2>5 DEF AddOrRemoveAchiever, Become
    <3>2. /\ DOMAIN world' = DOMAIN world /\ world'.tasks = world.tasks
          /\ world'.phases = world.phases /\ world'.linked = world.linked
          /\ world'.deps = world.deps /\ world'.achieves = A /\ world'.attained = world.attained
      BY <2>1, <3>1 DEF Surrounded, Surroundings
    <3> QED
      BY <2>1, <3>2 DEF Surrounded
  <2>6. CASE Ask
    <3>1. PICK A : world' = [world EXCEPT !.asked = A]
      BY <2>6 DEF Ask, Become
    <3>2. /\ DOMAIN world' = DOMAIN world /\ world'.tasks = world.tasks
          /\ world'.phases = world.phases /\ world'.linked = world.linked
          /\ world'.deps = world.deps /\ world'.achieves = world.achieves
          /\ world'.attained = world.attained
      BY <2>1, <3>1 DEF Surrounded, Surroundings
    <3> QED
      BY <2>1, <3>2 DEF Surrounded
  <2>7. CASE FallDue
    <3>1. PICK D : world' = [world EXCEPT !.due = D]
      BY <2>7 DEF FallDue, Become
    <3>2. /\ DOMAIN world' = DOMAIN world /\ world'.tasks = world.tasks
          /\ world'.phases = world.phases /\ world'.linked = world.linked
          /\ world'.deps = world.deps /\ world'.achieves = world.achieves
          /\ world'.attained = world.attained
      BY <2>1, <3>1 DEF Surrounded, Surroundings
    <3> QED
      BY <2>1, <3>2 DEF Surrounded
  <2>8. CASE world' = world
    BY <2>1, <2>8
  <2> QED
    BY <2>2, <2>3, <2>4, <2>5, <2>6, <2>7, <2>8 DEF WorldNext
<1>4. WorldInv' = IF view' = "goal" THEN Surrounded(world') ELSE world' = Nil
  BY DEF WorldInv, Surrounded, Edges
<1> QED
  BY <1>1, <1>2, <1>3, <1>4

LEMMA WorldKept == Spec => []WorldInv
  BY WorldStarts, WorldSteps, PTL DEF Spec

(* However the tasks around a goal change, and however many of them may be *)
(* changed, the five surfaces that report on the goal agree, and what they *)
(* say is so.                                                              *)
THEOREM OneVerdictOnAGoal == Spec => []VerdictsAgree
<1>1. WorldInv => VerdictsAgree
  <2> SUFFICES ASSUME WorldInv, world # Nil PROVE SurfacesAgree /\ HealthHonest
    BY DEF VerdictsAgree
  <2>1. Worldly(world)
    BY SurroundedIsWorldly DEF WorldInv
  <2> QED
    BY <2>1, FewNodes, SurfacesTellOneStory, HealthIsHonest
<1> QED
  BY <1>1, WorldKept, PTL
=============================================================================
