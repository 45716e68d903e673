---------------------------- MODULE Reachability ----------------------------
(***************************************************************************)
(* Reachability in a finite directed graph, stated with closed sets so that *)
(* it can be reasoned about without induction.                              *)
(***************************************************************************)
CONSTANT Node

Closed(E, S) == \A e \in E : e[1] \in S => e[2] \in S

(* b is a, or some path of E leads from a to b: every closed set that holds *)
(* a holds b.                                                               *)
Reach(E, a, b) == \A S \in SUBSET Node : a \in S /\ Closed(E, S) => b \in S

(* no edge can be closed to a cycle *)
Acyclic(E) == \A e \in E : ~Reach(E, e[2], e[1])
=============================================================================
