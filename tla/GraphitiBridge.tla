--------------------------- MODULE GraphitiBridge ---------------------------
(***************************************************************************)
(* The bridge to Graphiti, the knowledge sidecar: one session for the whole   *)
(* server, shared by every request, and renewed by whichever call learns that  *)
(* the sidecar no longer knows it.                                           *)
(*                                                                         *)
(* The sidecar is not part of the repository.  Of it only this is assumed:     *)
(* an initialize request without a session gets a new one; any other request   *)
(* is carried out if it presents a session that the sidecar knows, answered    *)
(* 404 or 410 if it presents another, and refused with an error if it presents *)
(* none.  Restarts and timeouts forget sessions.                             *)
(***************************************************************************)
EXTENDS Slots, Integers, FiniteSets

CONSTANTS
  Session,      \* identifiers of sessions, natural numbers
  MaxForgotten, \* bound: how often the sidecar forgets its sessions
  MaxLosses     \* bound: number of requests that fail or time out

ASSUME BridgeAssumption == Nil \notin {"out", "ok", "expired", "refused"}

VARIABLES
  available,  \* whether the bridge connected when the server started: Nil at first
  sessionId,  \* the session the bridge presents, or Nil
  toolCall,   \* the call in each slot
  sessions,   \* the sessions the sidecar knows
  executed,   \* how often the sidecar carried out the call in each slot
  told,       \* the slots whose last call ended with a result
  forgotten,  \* how often sessions were forgotten (bounded by MaxForgotten)
  losses,     \* requests lost (bounded by MaxLosses)
  adrift      \* history: a renewal failed and nothing has set the session since

bridgeVars == <<available, sessionId, toolCall, sessions, executed, told, forgotten, losses,
                adrift>>

(* A request travels ("out") until it has a reply; sid is the session presented,  *)
(* then the one the reply names.                                              *)
NoToolCall == [pc |-> "idle", net |-> Nil, sid |-> Nil]
InCall(r) == toolCall[r].pc # "idle"

BridgeInit ==
  /\ available = Nil /\ sessionId = Nil /\ sessions = {} /\ told = {}
  /\ toolCall = [r \in Request |-> NoToolCall] /\ executed = [r \in Request |-> 0]
  /\ forgotten = 0 /\ losses = 0 /\ adrift = FALSE

(* A session that nobody has heard of *)
FreshSession ==
  LET unheard == Session \ (sessions \cup {sessionId} \cup {toolCall[r].sid : r \in Request})
  IN  CHOOSE s \in unheard : \A t \in unheard : s <= t

-----------------------------------------------------------------------------
(* init, once and before the server listens: if the sidecar cannot be reached  *)
(* then, the bridge is off for good.                                          *)
Boot ==
  /\ available = Nil
  /\ \/ /\ available' = TRUE
        /\ sessionId' = FreshSession
        /\ sessions' = {FreshSession}
     \/ /\ available' = FALSE
        /\ UNCHANGED <<sessionId, sessions>>
  /\ UNCHANGED <<toolCall, executed, told, forgotten, losses, adrift>>

(* callTool; a bridge that is off answers null without a request. *)
CallTool(r) ==
  /\ ~InCall(r) /\ available = TRUE
  /\ toolCall' = [toolCall EXCEPT ![r] = [pc |-> "first", net |-> "out", sid |-> sessionId]]
  /\ executed' = [executed EXCEPT ![r] = 0]
  /\ told' = told \ {r}
  /\ UNCHANGED <<available, sessionId, sessions, forgotten, losses, adrift>>

(* The sidecar answers. *)
Answer(r) ==
  LET q == toolCall[r]
      Reply(status, s) == toolCall' = [toolCall EXCEPT ![r].net = status, ![r].sid = s]
  IN  /\ q.net = "out"
      /\ IF q.pc = "initialize" /\ q.sid = Nil
         THEN Reply("ok", FreshSession) /\ sessions' = sessions \cup {FreshSession}
         ELSE /\ UNCHANGED sessions
              /\ IF q.sid \in sessions THEN Reply("ok", q.sid)
                 ELSE Reply(IF q.sid = Nil THEN "refused" ELSE "expired", Nil)
      /\ executed' = IF q.sid \in sessions /\ q.pc \in {"first", "again"}
                     THEN [executed EXCEPT ![r] = @ + 1] ELSE executed
      /\ UNCHANGED <<available, sessionId, told, forgotten, losses, adrift>>

(* The connection breaks or the time is up, before or after the sidecar has acted. *)
Lose(r) ==
  /\ InCall(r) /\ losses < MaxLosses
  /\ losses' = losses + 1
  /\ toolCall' = [toolCall EXCEPT ![r] = NoToolCall]
  /\ adrift' = (adrift \/ (toolCall[r].pc = "initialize" /\ sessionId = Nil))
  /\ UNCHANGED <<available, sessionId, sessions, executed, told, forgotten>>

(* A restart of the sidecar, or its clean-up *)
Forget(S) ==
  /\ forgotten < MaxForgotten /\ S # {}
  /\ forgotten' = forgotten + 1
  /\ sessions' = sessions \ S
  /\ UNCHANGED <<available, sessionId, toolCall, executed, told, losses, adrift>>

-----------------------------------------------------------------------------
(* A reply sets the session of the bridge, whatever it has become meanwhile; and  *)
(* the next request of the call goes out at once, with the session of that moment. *)
Sends(r, p, s)  == toolCall' = [toolCall EXCEPT ![r] = [pc |-> p, net |-> "out", sid |-> s]]
Returns(r, ok)  == toolCall' = [toolCall EXCEPT ![r] = NoToolCall]
                   /\ told' = IF ok THEN told \cup {r} ELSE told
Named(q) == IF q.net = "ok" THEN q.sid ELSE sessionId

(* Mutant: the session is renewed under the old one. *)
FirstReply_KeepsSession(r) ==
  LET q == toolCall[r]
  IN  /\ q.net \in {"ok", "expired", "refused"} /\ q.pc = "first"
      /\ sessionId' = Named(q)
      /\ IF q.net = "expired" THEN Sends(r, "initialize", sessionId) /\ UNCHANGED told
         ELSE Returns(r, q.net = "ok")
      /\ adrift' = (adrift /\ sessionId' = Nil)
      /\ UNCHANGED <<available, sessions, executed, forgotten, losses>>

(* The reply to the call: 404 and 410 begin the one retry. *)
FirstReply(r) ==
  LET q == toolCall[r]
  IN  /\ q.net \in {"ok", "expired", "refused"} /\ q.pc = "first"
      /\ sessionId' = IF q.net = "expired" THEN Nil ELSE Named(q)
      /\ IF q.net = "expired" THEN Sends(r, "initialize", Nil) /\ UNCHANGED told
         ELSE Returns(r, q.net = "ok")
      /\ adrift' = (adrift /\ sessionId' = Nil)
      /\ UNCHANGED <<available, sessions, executed, forgotten, losses>>

(* initSession: initialize, and a notification whose answer is not looked at *)
Renew(r) ==
  LET q == toolCall[r]
  IN  /\ q.net \in {"ok", "expired", "refused"} /\ q.pc \in {"initialize", "notify"}
      /\ sessionId' = Named(q)
      /\ IF q.pc = "notify" \/ q.net = "ok"
         THEN /\ Sends(r, IF q.pc = "notify" THEN "again" ELSE "notify", sessionId')
              /\ UNCHANGED told
         ELSE Returns(r, FALSE)
      /\ adrift' = (adrift /\ sessionId' = Nil)
      /\ UNCHANGED <<available, sessions, executed, forgotten, losses>>

(* The second answer is the last, whatever its status. *)
SecondReply(r) ==
  LET q == toolCall[r]
  IN  /\ q.net \in {"ok", "expired", "refused"} /\ q.pc = "again"
      /\ sessionId' = Named(q)
      /\ Returns(r, q.net = "ok")
      /\ adrift' = (adrift /\ sessionId' = Nil)
      /\ UNCHANGED <<available, sessions, executed, forgotten, losses>>

BridgeStep(r) == FirstReply(r) \/ Renew(r) \/ SecondReply(r)

BridgeNext ==
  \/ Boot
  \/ \E r \in Request : CallTool(r) \/ Answer(r) \/ Lose(r) \/ BridgeStep(r)
  \/ \E S \in SUBSET sessions : Forget(S)

(* A request is answered or times out; Node.js runs every continuation. *)
BridgeFairness ==
  \A r \in Request : WF_bridgeVars(Answer(r)) /\ WF_bridgeVars(BridgeStep(r))

BridgeSpec == BridgeInit /\ [][BridgeNext]_bridgeVars /\ BridgeFairness

-----------------------------------------------------------------------------
(* The abstract calls: what the bridge does about sessions is invisible. *)
Calls == INSTANCE OnceOnly WITH
  Caller  <- Request,
  open    <- {r \in Request : InCall(r)},
  carried <- {r \in Request : executed[r] > 0},
  told    <- told

(* No call is carried out twice, although calls are repeated: an episode is      *)
(* never stored double, and a result is never reported for one that was not stored. *)
NeverTwice == (\A r \in Request : executed[r] < 2)

(* After the sidecar has forgotten the session of the bridge, calls get through   *)
(* again: whoever keeps calling gets results again and again, unless the renewal  *)
(* itself failed; then nothing renews the session any more, since a request        *)
(* without one is refused but not with 404.                                     *)
GetsThrough ==
  \A r \in Request :
    (([]<>InCall(r)) /\ ([]<>~InCall(r)) /\ []<>~adrift) => []<>(r \in told)

(* The bridge implements the abstract calls, and recovers. *)
BridgeSound == Calls!Spec /\ []NeverTwice /\ GetsThrough
=============================================================================
