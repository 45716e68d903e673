--------------------------- MODULE ExclusiveLease ---------------------------
(***************************************************************************)
(* What the claim system promises, whatever the requests do: on every node *)
(* at most one lease is held at a time, a lease is granted only on a node  *)
(* nobody holds, and a lease that has ended never comes back.              *)
(***************************************************************************)
CONSTANT Node

VARIABLES
  held,    \* the leases in force on each node
  granted  \* the leases granted so far

vars == <<held, granted>>

Init ==
  /\ held = [n \in Node |-> {}]
  /\ granted = {}

(* A lease that took too long to grant is over from the start. *)
Grant(n, l) ==
  /\ held[n] = {}
  /\ l \notin granted
  /\ \E h \in SUBSET {l} : held' = [held EXCEPT ![n] = h]
  /\ granted' = granted \cup {l}

(* Released by its holder, or expired: time passes on all nodes at once. *)
End(N) ==
  /\ held' = [n \in Node |-> IF n \in N THEN {} ELSE held[n]]
  /\ UNCHANGED granted

Next ==
  \/ \E n \in Node, l \in granted' : Grant(n, l)
  \/ \E N \in SUBSET Node : End(N)

Spec == Init /\ [][Next]_vars
=============================================================================
