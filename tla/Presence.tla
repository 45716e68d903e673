------------------------------ MODULE Presence ------------------------------
(***************************************************************************)
(* Who looks at which plan and node, and who types there: the in-memory maps  *)
(* of the collaboration server.                                              *)
(*                                                                         *)
(* The handler of a message is asynchronous and the socket does not wait for  *)
(* it: of messages that arrive together the second begins while the first is  *)
(* at its first await.  Maps are keyed by user, although a user may have        *)
(* several sockets.                                                          *)
(***************************************************************************)
EXTENDS Slots, Integers

CONSTANTS
  Socket,
  SocketUser,   \* SocketUser[s]: the user whose token s carries
  ViewedPlan,
  ViewedNode,
  MaxMessages   \* bound: number of messages

ASSUME PresenceAssumption == Nil \notin Socket \cup ViewedPlan \cup ViewedNode

VARIABLES
  socket,      \* the state of each socket
  connections, \* [users -> the socket registered for them, or Nil]
  planUsers,   \* pairs of a plan and a user
  nodeUsers,   \* pairs of a node and a user
  typingUsers, \* pairs of a node and a user
  timers,      \* the typing timers that run: whose typing they end, and what set them
  onPlan,      \* currentPlanId of each socket
  onNode,      \* currentNodeId of each socket
  handler,     \* the message handler in each slot
  messages,    \* messages so far (bounded by MaxMessages)
  hurried      \* history: the sockets that sent a message during the last one's handler

presenceVars == <<socket, connections, planUsers, nodeUsers, typingUsers, timers, onPlan,
                  onNode, handler, messages, hurried>>

SocketUsers == {SocketUser[s] : s \in Socket}

NoHandler == [pc |-> "idle", socket |-> Nil, at |-> Nil]
HandlerAt(r, p) == handler[r].pc = p
HandlerDone(r)  == handler' = [handler EXCEPT ![r] = NoHandler]
Busy(s) == \E r \in Request : handler[r].socket = s

PresenceInit ==
  /\ socket = [s \in Socket |-> "new"]
  /\ connections = [u \in SocketUsers |-> Nil]
  /\ planUsers = {} /\ nodeUsers = {} /\ typingUsers = {} /\ timers = {} /\ hurried = {}
  /\ onPlan = [s \in Socket |-> Nil] /\ onNode = [s \in Socket |-> Nil]
  /\ handler = [r \in Request |-> NoHandler] /\ messages = 0

-----------------------------------------------------------------------------
Connect(s) ==
  /\ socket[s] = "new"
  /\ socket' = [socket EXCEPT ![s] = "authenticating"]
  /\ UNCHANGED <<connections, planUsers, nodeUsers, typingUsers, timers, onPlan, onNode,
                 handler, messages, hurried>>

(* authenticateUser asks the database: if the client is gone when it answers,    *)
(* the socket is registered all the same, and nothing listens for its close.     *)
Authenticated(s) ==
  /\ socket[s] \in {"authenticating", "lost"}
  /\ socket' = [socket EXCEPT ![s] = IF @ = "lost" THEN "closed" ELSE "open"]
  /\ connections' = [connections EXCEPT ![SocketUser[s]] = s]
  /\ UNCHANGED <<planUsers, nodeUsers, typingUsers, timers, onPlan, onNode, handler,
                 messages, hurried>>

Rejected(s) ==
  /\ socket[s] \in {"authenticating", "lost"}
  /\ socket' = [socket EXCEPT ![s] = "closed"]
  /\ UNCHANGED <<connections, planUsers, nodeUsers, typingUsers, timers, onPlan, onNode,
                 handler, messages, hurried>>

ClientGone(s) ==
  /\ socket[s] = "authenticating"
  /\ socket' = [socket EXCEPT ![s] = "lost"]
  /\ UNCHANGED <<connections, planUsers, nodeUsers, typingUsers, timers, onPlan, onNode,
                 handler, messages, hurried>>

(* close, when the handlers of the socket are through: the user's registration   *)
(* goes, whichever socket it is for, and the user leaves the current node and    *)
(* plan of this socket                                                         *)
Close(s) ==
  LET u == SocketUser[s]
  IN  /\ socket[s] = "open" /\ ~Busy(s)
      /\ socket' = [socket EXCEPT ![s] = "closed"]
      /\ connections' = [connections EXCEPT ![u] = Nil]
      /\ planUsers' = planUsers \ {<<onPlan[s], u>>}
      /\ nodeUsers' = nodeUsers \ {<<onNode[s], u>>}
      /\ typingUsers' = typingUsers \ {<<onNode[s], u>>}
      /\ onPlan' = [onPlan EXCEPT ![s] = Nil]
      /\ onNode' = [onNode EXCEPT ![s] = Nil]
      /\ UNCHANGED <<timers, handler, messages, hurried>>

-----------------------------------------------------------------------------
(* What a message does before its first await *)
Receive(r, s, p, at) ==
  /\ HandlerAt(r, "idle") /\ socket[s] = "open" /\ messages < MaxMessages
  /\ messages' = messages + 1
  /\ handler' = [handler EXCEPT ![r] = [pc |-> p, socket |-> s, at |-> at]]
  /\ hurried' = IF Busy(s) THEN hurried \cup {s} ELSE hurried
  /\ UNCHANGED <<socket, connections, timers, onPlan, onNode>>

(* join_plan: the previous plan is left first, and the new one joined after an    *)
(* await; without one it is joined at once                                      *)
JoinPlan(r, s, p) ==
  LET u == SocketUser[s]
  IN  /\ Receive(r, s, IF onPlan[s] = Nil THEN "setPlan" ELSE "joinPlan", p)
      /\ planUsers' = IF onPlan[s] = Nil THEN planUsers \cup {<<p, u>>}
                      ELSE planUsers \ {<<onPlan[s], u>>}
      /\ UNCHANGED <<nodeUsers, typingUsers>>

LeavePlan(r, s) ==
  /\ Receive(r, s, "setPlan", Nil)
  /\ planUsers' = planUsers \ {<<onPlan[s], SocketUser[s]>>}
  /\ UNCHANGED <<nodeUsers, typingUsers>>

JoinNode(r, s, n) ==
  LET u == SocketUser[s]
  IN  /\ Receive(r, s, IF onNode[s] = Nil THEN "setNode" ELSE "joinNode", n)
      /\ nodeUsers' = IF onNode[s] = Nil THEN nodeUsers \cup {<<n, u>>}
                      ELSE nodeUsers \ {<<onNode[s], u>>}
      /\ typingUsers' = typingUsers \ {<<onNode[s], u>>}
      /\ UNCHANGED planUsers

LeaveNode(r, s) ==
  LET e == <<onNode[s], SocketUser[s]>>
  IN  /\ Receive(r, s, "setNode", Nil)
      /\ nodeUsers' = nodeUsers \ {e}
      /\ typingUsers' = typingUsers \ {e}
      /\ UNCHANGED planUsers

TypingStart(r, s, n) ==
  /\ Receive(r, s, "startTimer", n)
  /\ typingUsers' = typingUsers \cup {<<n, SocketUser[s]>>}
  /\ UNCHANGED <<planUsers, nodeUsers>>

(* typing_stop awaits the broadcast only. *)
TypingStop(s, n) ==
  /\ socket[s] = "open" /\ messages < MaxMessages
  /\ <<n, SocketUser[s]>> \in typingUsers
  /\ messages' = messages + 1
  /\ typingUsers' = typingUsers \ {<<n, SocketUser[s]>>}
  /\ hurried' = IF Busy(s) THEN hurried \cup {s} ELSE hurried
  /\ UNCHANGED <<socket, connections, planUsers, nodeUsers, timers, onPlan, onNode, handler>>

(* The rest of a handler, one await after the other *)
JoinNext(r) ==
  LET q == handler[r]
      u == SocketUser[q.socket]
  IN  /\ q.pc \in {"joinPlan", "joinNode"}
      /\ IF q.pc = "joinPlan"
         THEN /\ planUsers' = planUsers \cup {<<q.at, u>>}
              /\ handler' = [handler EXCEPT ![r].pc = "setPlan"]
              /\ UNCHANGED nodeUsers
         ELSE /\ nodeUsers' = nodeUsers \cup {<<q.at, u>>}
              /\ handler' = [handler EXCEPT ![r].pc = "setNode"]
              /\ UNCHANGED planUsers
      /\ UNCHANGED <<socket, connections, typingUsers, timers, onPlan, onNode, messages, hurried>>

SetCurrent(r) ==
  LET q == handler[r]
  IN  /\ q.pc \in {"setPlan", "setNode"}
      /\ onPlan' = IF q.pc = "setPlan" THEN [onPlan EXCEPT ![q.socket] = q.at] ELSE onPlan
      /\ onNode' = IF q.pc = "setNode" THEN [onNode EXCEPT ![q.socket] = q.at] ELSE onNode
      /\ HandlerDone(r)
      /\ UNCHANGED <<socket, connections, planUsers, nodeUsers, typingUsers, timers,
                     messages, hurried>>

(* The timer that the handler in slot r sets: no two are alike, for a slot takes a new *)
(* message to be used again.                                                       *)
TypingTimer(r) ==
  [typing |-> <<handler[r].at, SocketUser[handler[r].socket]>>, slot |-> r, at |-> messages]

(* Mutant: a timer is set only while the socket's user is on the node. *)
StartTimer_OnNode(r) ==
  /\ HandlerAt(r, "startTimer")
  /\ timers' = timers \cup {t \in {TypingTimer(r)} : t.typing \in nodeUsers}
  /\ HandlerDone(r)
  /\ UNCHANGED <<socket, connections, planUsers, nodeUsers, typingUsers, onPlan, onNode,
                 messages, hurried>>

(* setTimeout: every typing_start has a timer of its own. *)
StartTimer(r) ==
  /\ HandlerAt(r, "startTimer")
  /\ timers' = timers \cup {TypingTimer(r)}
  /\ HandlerDone(r)
  /\ UNCHANGED <<socket, connections, planUsers, nodeUsers, typingUsers, onPlan, onNode,
                 messages, hurried>>

(* After five seconds typing is over, whether or not it began anew meanwhile. *)
TimerFires(t) ==
  /\ t \in timers
  /\ timers' = timers \ {t}
  /\ typingUsers' = typingUsers \ {t.typing}
  /\ UNCHANGED <<socket, connections, planUsers, nodeUsers, onPlan, onNode, handler,
                 messages, hurried>>

TimerOf(e) == \E t \in timers : t.typing = e /\ TimerFires(t)

HandlerStep(r) == JoinNext(r) \/ SetCurrent(r) \/ StartTimer(r)

PresenceNext ==
  \/ \E s \in Socket :
       \/ Connect(s) \/ Authenticated(s) \/ Rejected(s) \/ ClientGone(s) \/ Close(s)
       \/ \E r \in Request : LeavePlan(r, s) \/ LeaveNode(r, s)
       \/ \E r \in Request, p \in ViewedPlan : JoinPlan(r, s, p)
       \/ \E r \in Request, n \in ViewedNode : JoinNode(r, s, n) \/ TypingStart(r, s, n)
       \/ \E n \in ViewedNode : TypingStop(s, n)
  \/ \E r \in Request : HandlerStep(r)
  \/ \E t \in timers : TimerFires(t)

(* Node.js runs every continuation and every timer. *)
PresenceFairness ==
  /\ \A r \in Request : WF_presenceVars(HandlerStep(r))
  /\ \A e \in ViewedNode \X SocketUsers : WF_presenceVars(TimerOf(e))

PresenceSpec == PresenceInit /\ [][PresenceNext]_presenceVars /\ PresenceFairness

-----------------------------------------------------------------------------
(* A user is shown on a plan only while one of his sockets is there: closing a  *)
(* browser or changing plans leaves no ghost, unless a socket sent a message      *)
(* while the handler of its last one was still waiting.                         *)
NoGhosts ==
  \A e \in planUsers :
    \E s \in Socket :
      /\ SocketUser[s] = e[2]
      /\ \/ onPlan[s] = e[1]
         \/ \E r \in Request : HandlerAt(r, "setPlan") /\ handler[r].socket = s
                               /\ handler[r].at = e[1]
         \/ s \in hurried

(* A user with one socket who is on a plan is listed there and can be reached.   *)
PresentListed ==
  \A s \in Socket :
    /\ socket[s] = "open" /\ onPlan[s] # Nil /\ ~Busy(s) /\ s \notin hurried
    /\ \A t \in Socket \ {s} : SocketUser[t] = SocketUser[s] => socket[t] = "new"
    => <<onPlan[s], SocketUser[s]>> \in planUsers /\ connections[SocketUser[s]] = s

(* The presence shown on a plan is true and complete. *)
PresenceTruthful == NoGhosts /\ PresentListed

(* Whoever is shown as typing ceases to be, even if no stop ever arrives.        *)
TypingEnds ==
  \A e \in ViewedNode \X SocketUsers : e \in typingUsers ~> e \notin typingUsers

(* Presence is true at all times, and typing ends. *)
PresenceSound == []PresenceTruthful /\ TypingEnds
=============================================================================
