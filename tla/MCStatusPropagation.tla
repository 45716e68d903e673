------------------------ MODULE MCStatusPropagation ------------------------
(* Small instances of StatusPropagation for TLC. *)
EXTENDS StatusPropagation, TLC

CONSTANTS g, ph, t1, t2, t3, t4, r1, r2, h1, h2

(* Two tasks in a phase block a third one beside the phase. *)
ForkParent == g :> Nil @@ ph :> g @@ t1 :> ph @@ t2 :> ph @@ t3 :> g
ForkEdge   == {<<t1, t3>>, <<t2, t3>>}
ForkType   == g :> "root" @@ ph :> "phase" @@ t1 :> "task" @@ t2 :> "milestone"
              @@ t3 :> "task"
LockStart  == [n \in {g, ph, t1, t2, t3} |->
                 IF n = t3 THEN {"blocked"} ELSE {"not_started"}]

(* The same with a task that is added to the phase later. *)
GrowParent == t4 :> ph @@ ForkParent
GrowType   == t4 :> "task" @@ ForkType
GrowStart  == t4 :> {"not_started"} @@ LockStart

SlotSymmetry == Permutations(Request) \cup Permutations(Handler)
=============================================================================
