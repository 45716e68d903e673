---------------------------- MODULE WorkSession ----------------------------
(***************************************************************************)
(* Task claims: the leases that keep two agents off the same task.         *)
(*                                                                         *)
(* claims.dal.mjs keeps the leases in the table node_claims; the claims    *)
(* controller, the agent loop (work sessions) and the task facade use it.  *)
(* Every HTTP request is a process.  Each of its awaits on the database is *)
(* a step, so the steps of concurrent requests interleave, and a request   *)
(* may die between two steps.  One SQL statement is one step.              *)
(***************************************************************************)
EXTENDS Integers, Sequences, FiniteSets

CONSTANTS
  Node,         \* tasks
  Agent,        \* agent_id labels, free text chosen by the client
  User,         \* authenticated users
  Identity,     \* the pairs [agent, user] that requests carry
  Request,      \* request slots: at most this many requests are in flight
  Mortal,       \* the slots whose request may die half way (process crash)
  Ttls,         \* ttl_minutes, in ticks; a work session takes negative ones too
  Wanted,       \* the statuses that requests ask for
  CodeVisible,  \* does a rejected INSERT throw an error whose .code is
                \* the SQLSTATE (plain pg error), or one that wraps it?
  MaxClaims,    \* bound: rows inserted in node_claims
  MaxTime,      \* bound: clock ticks
  Nil

ASSUME WSAssumption ==
  /\ Identity \subseteq [agent : Agent, user : User]
  /\ Mortal \subseteq Request
  /\ Ttls \subseteq Int
  /\ Wanted \subseteq {"not_started", "in_progress", "completed", "blocked"}
  /\ CodeVisible \in BOOLEAN
  /\ MaxClaims \in Nat
  /\ MaxTime \in Nat
  /\ Nil \notin Node \cup Agent \cup User

VARIABLES
  claims,   \* the rows of node_claims in insertion order; the index is the id
  status,   \* plan_nodes.status
  clock,    \* now()
  req       \* the request running in each slot

vars == <<claims, status, clock, req>>

-----------------------------------------------------------------------------
Status      == {"not_started", "in_progress", "completed", "blocked"}
FinalStatus == {"completed", "blocked"}

Row == [node : Node, agent : Agent, user : User, expiresAt : Int,
        released : BOOLEAN]

(* Where a request stands: the database call it makes next. *)
Pc == {"idle", "insert", "check", "sweep", "retry", "begin", "final",
       "status", "lookup", "release"}

(* op: the endpoint; seen: the status chooseTask read; want: the status    *)
(* asked for; expiresAt: when the claim is going to expire; session: the   *)
(* claim row the request refers to (0: none);                              *)
(* known: number of rows there were when the request came in (history).    *)
Job == [pc : Pc, op : {"claim", "start", "finish", "release", "update", "none"},
        agent : Agent \cup {Nil}, user : User \cup {Nil}, node : Node \cup {Nil},
        seen : Status, want : Status, expiresAt : Int, session : Nat, known : Nat]

Idle == [pc |-> "idle", op |-> "none", agent |-> Nil, user |-> Nil, node |-> Nil,
         seen |-> "not_started", want |-> "not_started", expiresAt |-> 0,
         session |-> 0, known |-> 0]

TypeOK ==
  /\ claims \in Seq(Row)
  /\ status \in [Node -> Status]
  /\ clock \in Nat
  /\ req \in [Request -> Job]
  /\ \A r \in Request :
        /\ req[r].pc # "idle" => req[r].node \in Node
        /\ req[r].pc \in {"insert", "check", "sweep", "retry"} =>
              /\ req[r].agent \in Agent
              /\ req[r].user \in User

Init ==
  /\ claims = <<>>
  /\ status \in [Node -> {"not_started", "in_progress"}]
  /\ clock = 0
  /\ req = [r \in Request |-> Idle]

-----------------------------------------------------------------------------
(* Queries on node_claims. *)

Unreleased(n) == {c \in DOMAIN claims : claims[c].node = n /\ ~claims[c].released}

Active(c) == ~claims[c].released /\ claims[c].expiresAt > clock

(* getActiveClaim: released_at IS NULL AND expires_at > now() *)
ActiveClaims(n) == {c \in Unreleased(n) : claims[c].expiresAt > clock}

(* Mutant: an UPDATE that also clears released_at of the other rows. *)
ReleaseRows_Rewrite(C) ==
  claims' = [c \in DOMAIN claims |-> [claims[c] EXCEPT !.released = c \in C]]

(* UPDATE node_claims SET released_at = now() for the rows of C *)
ReleaseRows(C) ==
  claims' = [c \in DOMAIN claims |->
               IF c \in C THEN [claims[c] EXCEPT !.released = TRUE] ELSE claims[c]]

(* Mutants: the sweep forgets the expiry, or a row that expires just now. *)
ExpiredRows_All(n)    == Unreleased(n)
ExpiredRows_Strict(n) == {c \in Unreleased(n) : claims[c].expiresAt < clock}

(* expires_at <= now(), the complement of what getActiveClaim selects *)
ExpiredRows(n) == {c \in Unreleased(n) : claims[c].expiresAt <= clock}

(* release(nodeId, agentId): the label counts, not the user nor the row id *)
RowsOf(n, a) == {c \in Unreleased(n) : claims[c].agent = a}

-----------------------------------------------------------------------------
(* Request plumbing. *)

Arrive(r, job) == req[r].pc = "idle" /\ req' = [req EXCEPT ![r] = job]
At(r, p)       == req[r].pc = p
Goto(r, p)     == req' = [req EXCEPT ![r].pc = p]
Answer(r)      == req' = [req EXCEPT ![r] = Idle]

Claiming == {r \in Request : req[r].pc \in {"insert", "check", "sweep", "retry"}}

(* Bound: claims in flight never need more rows than MaxClaims. *)
RoomForClaim == Len(claims) + Cardinality(Claiming) < MaxClaims

-----------------------------------------------------------------------------
(* POST /plans/:id/nodes/:nodeId/claim, after the access and node checks.   *)
(* Half an hour stands in for a ttl_minutes that is not positive.  claim()  *)
(* computes expires_at before its first INSERT.                             *)
ClaimTask(r) ==
  /\ RoomForClaim
  /\ \E i \in Identity, n \in Node, t \in {m \in Ttls : m > 0} :
       Arrive(r, [Idle EXCEPT !.pc = "insert", !.op = "claim", !.agent = i.agent,
                    !.user = i.user, !.node = n, !.expiresAt = clock + t, !.known = Len(claims)])
  /\ UNCHANGED <<claims, status, clock>>

(* startWorkSession up to the claim: the chosen node is read here and its   *)
(* status is used again after the claim.                                    *)
StartWorkSession(r) ==
  /\ RoomForClaim
  /\ \E i \in Identity, n \in Node, t \in Ttls :
       Arrive(r, [Idle EXCEPT !.pc = "insert", !.op = "start", !.agent = i.agent,
                    !.user = i.user, !.node = n, !.expiresAt = clock + t, !.seen = status[n],
                    !.known = Len(claims)])
  /\ UNCHANGED <<claims, status, clock>>

(* Mutant: created_by is not stored. *)
NewRow_Anonymous(r) ==
  [node |-> req[r].node, agent |-> req[r].agent, user |-> Nil,
   expiresAt |-> req[r].expiresAt, released |-> FALSE]

NewRow(r) == [node |-> req[r].node, agent |-> req[r].agent, user |-> req[r].user,
              expiresAt |-> req[r].expiresAt, released |-> FALSE]

(* After the claim a session marks the node, unless the status it read      *)
(* before the claim already was in_progress.                                *)
Granted(r) ==
  IF req[r].op = "start" /\ req[r].seen # "in_progress" THEN Goto(r, "begin")
                                                        ELSE Answer(r)

(* Mutant: the migration with the unique index was not run. *)
InsertClaim_NoIndex(r) ==
  /\ claims' = Append(claims, NewRow(r))
  /\ Granted(r)
  /\ UNCHANGED <<status, clock>>

(* The INSERT: node_claims_active_unique lets it through only when the node *)
(* has no unreleased row.                                                   *)
InsertClaim(r) ==
  /\ Unreleased(req[r].node) = {}
  /\ claims' = Append(claims, NewRow(r))
  /\ Granted(r)
  /\ UNCHANGED <<status, clock>>

Insert(r) ==
  /\ At(r, "insert")
  /\ \/ InsertClaim(r)
     \/ /\ Unreleased(req[r].node) # {}
        /\ IF CodeVisible THEN Goto(r, "check") ELSE Answer(r)
        /\ UNCHANGED <<claims, status, clock>>

(* Mutant: an expired row also counts as an active claim. *)
CheckExisting_AnyRow(r) ==
  /\ At(r, "check")
  /\ IF Unreleased(req[r].node) # {} THEN Answer(r) ELSE Goto(r, "sweep")
  /\ UNCHANGED <<claims, status, clock>>

(* the catch block: an active claim means the caller lost *)
CheckExisting(r) ==
  /\ At(r, "check")
  /\ IF ActiveClaims(req[r].node) # {} THEN Answer(r) ELSE Goto(r, "sweep")
  /\ UNCHANGED <<claims, status, clock>>

ReleaseExpiredForNode(r) ==
  /\ At(r, "sweep")
  /\ ReleaseRows(ExpiredRows(req[r].node))
  /\ Goto(r, "retry")
  /\ UNCHANGED <<status, clock>>

(* a second violation is answered like a claim collision *)
RetryInsert(r) ==
  /\ At(r, "retry")
  /\ \/ InsertClaim(r)
     \/ /\ Unreleased(req[r].node) # {}
        /\ Answer(r)
        /\ UNCHANGED <<claims, status, clock>>

MarkInProgress(r) ==
  /\ At(r, "begin")
  /\ status' = [status EXCEPT ![req[r].node] = "in_progress"]
  /\ Answer(r)
  /\ UNCHANGED <<claims, clock>>

-----------------------------------------------------------------------------
(* finishWorkSession: loadClaimSession only looks at released_at.  The      *)
(* release at the end names the body's agent_id, or else the claim's label. *)
FinishWorkSession(r) ==
  /\ \E c \in DOMAIN claims, w \in FinalStatus \cap Wanted :
       /\ ~claims[c].released
       /\ \E a \in {i.agent : i \in Identity} \cup {claims[c].agent} :
            Arrive(r, [Idle EXCEPT !.pc = "final", !.op = "finish", !.agent = a,
                         !.node = claims[c].node, !.want = w, !.session = c])
  /\ UNCHANGED <<claims, status, clock>>

WriteFinalStatus(r) ==
  /\ At(r, "final")
  /\ status' = [status EXCEPT ![req[r].node] = req[r].want]
  /\ Goto(r, "release")
  /\ UNCHANGED <<claims, clock>>

(* DELETE /plans/:id/nodes/:nodeId/claim with agent_id in the body *)
ReleaseTask(r) ==
  /\ \E a \in Agent, n \in Node :
       Arrive(r, [Idle EXCEPT !.pc = "release", !.op = "release", !.agent = a,
                    !.node = n])
  /\ UNCHANGED <<claims, status, clock>>

Release(r) ==
  /\ At(r, "release")
  /\ ReleaseRows(RowsOf(req[r].node, req[r].agent))
  /\ Answer(r)
  /\ UNCHANGED <<status, clock>>

-----------------------------------------------------------------------------
(* updateTask of the v1 facade: each step is tried on its own, so the claim *)
(* is released even when the status update failed.  release_claim decides,  *)
(* or else whether the status is final.                                     *)
UpdateTask(r) ==
  /\ \E u \in User, n \in Node, w \in Wanted :
       Arrive(r, [Idle EXCEPT !.pc = "status", !.op = "update", !.user = u,
                    !.node = n, !.want = w])
  /\ UNCHANGED <<claims, status, clock>>

UpdateTaskStatus(r) ==
  /\ At(r, "status")
  /\ \/ status' = [status EXCEPT ![req[r].node] = req[r].want]
     \/ UNCHANGED status
  /\ Goto(r, "lookup") \/ Answer(r)
  /\ UNCHANGED <<claims, clock>>

(* getActiveClaim, then the check that the caller's user created it *)
LookupOwnClaim(r) ==
  /\ At(r, "lookup")
  /\ \/ \E c \in ActiveClaims(req[r].node) :
          /\ claims[c].user = req[r].user
          /\ req' = [req EXCEPT ![r].pc = "release", ![r].agent = claims[c].agent,
                                ![r].session = c]
     \/ /\ \A c \in ActiveClaims(req[r].node) : claims[c].user # req[r].user
        /\ Answer(r)
  /\ UNCHANGED <<claims, status, clock>>

-----------------------------------------------------------------------------
Tick ==
  /\ clock < MaxTime
  /\ clock' = clock + 1
  /\ UNCHANGED <<claims, status, req>>

(* The API process dies, or an await rejects: the rest never runs. *)
Abort(r) ==
  /\ r \in Mortal
  /\ ~At(r, "idle")
  /\ Answer(r)
  /\ UNCHANGED <<claims, status, clock>>

NewRequest(r) ==
  \/ ClaimTask(r) \/ StartWorkSession(r) \/ FinishWorkSession(r)
  \/ ReleaseTask(r) \/ UpdateTask(r)

Step(r) ==
  \/ Insert(r) \/ CheckExisting(r) \/ ReleaseExpiredForNode(r) \/ RetryInsert(r)
  \/ MarkInProgress(r) \/ WriteFinalStatus(r) \/ Release(r)
  \/ UpdateTaskStatus(r) \/ LookupOwnClaim(r)

Next ==
  \/ \E r \in Request : NewRequest(r) \/ Step(r) \/ Abort(r)
  \/ Tick

Spec == Init /\ [][Next]_vars

(* The event loop resumes every awaited call; clients owe nothing. *)
FairSpec == Spec /\ \A r \in Request : WF_vars(Step(r))
-----------------------------------------------------------------------------
(* Two claims on one task are never in force together, although the table  *)
(* also keeps expired rows and two requests may be half way through claim(). *)
ExclusiveClaim ==
  \A n \in Node : \A c, d \in ActiveClaims(n) : c = d

(* The requests implement exclusive leases, a lease being a row of the table. *)
Lease == INSTANCE ExclusiveLease WITH
           held <- [n \in Node |-> ActiveClaims(n)], granted <- DOMAIN claims

ImplementsLease == Lease!Spec

(* An unexpired claim is only ended by a release that names its node and    *)
(* its agent label: the clean-up of expired rows inside claim() can not hit *)
(* a claim made between its check and its update.                           *)
LeaseNotStolen ==
  [][\A c \in DOMAIN claims :
       Active(c) /\ claims'[c].released =>
         \E r \in Request : /\ At(r, "release")
                            /\ req[r].node = claims[c].node
                            /\ req[r].agent = claims[c].agent
                            /\ req'[r] = Idle]_vars

(* The retry inside claim() reports a collision only if another request     *)
(* claimed the node meanwhile: no instant exists at which a row is neither  *)
(* active for getActiveClaim nor expired for releaseExpiredForNode.         *)
NoSpuriousCollision ==
  [][\A r \in Request :
       /\ At(r, "retry") /\ req'[r].pc = "idle" /\ UNCHANGED claims
       /\ r \notin Mortal
       => \E c \in DOMAIN claims :
            c > req[r].known /\ claims[c].node = req[r].node]_vars

(* A request that claims a task nobody holds makes the task claimed, by     *)
(* itself or by a faster one: an expired lease locks no task for good.      *)
LockFreeClaim ==
  \A r \in Request \ Mortal, n \in Node, k \in 0 .. MaxClaims - 1 :
    (At(r, "insert") /\ req[r].node = n /\ ActiveClaims(n) = {} /\ Len(claims) = k)
      ~> (\E c \in DOMAIN claims : c > k /\ claims[c].node = n)

=============================================================================
