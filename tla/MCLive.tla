------------------------------- MODULE MCLive -------------------------------
(***************************************************************************)
(* The parts of the server that live in memory and must get somewhere: the    *)
(* context engine with research compaction, the collaboration server, and the  *)
(* bridge to the knowledge sidecar.  They share nothing; part says which of     *)
(* them is in use.                                                          *)
(***************************************************************************)
EXTENDS TaskContext, Presence, GraphitiBridge, TLC

CONSTANTS r1, r2, w1, w2, t1, t2, p1, p2, s1, s2, u1, n1, full, focus

VARIABLE part

(* Two tasks of one plan; two sockets of one user *)
Plans == t1 :> p1 @@ t2 :> p1
Users == s1 :> u1 @@ s2 :> u1

-----------------------------------------------------------------------------
Init ==
  /\ ContextInit /\ PresenceInit /\ BridgeInit
  /\ part \in {"context", "presence", "bridge"}

Next ==
  /\ UNCHANGED part
  /\ IF part = "context" THEN ContextNext ELSE UNCHANGED contextVars
  /\ IF part = "presence" THEN PresenceNext ELSE UNCHANGED presenceVars
  /\ IF part = "bridge" THEN BridgeNext ELSE UNCHANGED bridgeVars

vars == <<part, contextVars, presenceVars, bridgeVars>>

(* What is not in use has no step that could be owed. *)
Spec == Init /\ [][Next]_vars /\ ContextFairness /\ PresenceFairness /\ BridgeFairness
=============================================================================
