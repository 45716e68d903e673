--------------------------- MODULE MCWorkSession ---------------------------
(* Small instances of WorkSession for TLC. *)
EXTENDS WorkSession, TLC

CONSTANTS n1, a1, a2, u1, u2, r1, r2

(* Two agents of two users, each with a label of its own. *)
Own == {[agent |-> a1, user |-> u1], [agent |-> a2, user |-> u2]}

(* A lease of one tick, and one that is over when it is granted. *)
MixedTtls == {-1, 1}

(* Request slots are alike, and so are the two agents with their users. *)
SwapIdentities == a1 :> a2 @@ a2 :> a1 @@ u1 :> u2 @@ u2 :> u1
SlotSymmetry   == Permutations(Request)
FullSymmetry   == SlotSymmetry \cup
                  {p @@ SwapIdentities : p \in SlotSymmetry}
=============================================================================
