-------------------------- MODULE WorkSession_proofs --------------------------
(***************************************************************************)
(* Theorems about WorkSession, for every set of nodes, agents, users and   *)
(* request slots, every lease duration and every bound.                    *)
(***************************************************************************)
EXTENDS WorkSession, SequenceTheorems, TLAPS

(* What node_claims_active_unique guarantees of the whole table. *)
OneOpenRow ==
  \A c, d \in DOMAIN claims :
    claims[c].node = claims[d].node /\ ~claims[c].released /\ ~claims[d].released
    => c = d

(* What claim() has established, at each of its steps, about the rows that  *)
(* existed when the request came in.                                        *)
OldRowsOver(r) ==
  /\ req[r].pc \in {"insert", "check", "sweep", "retry"} => req[r].known <= Len(claims)
  /\ req[r].pc = "sweep" =>
       \A c \in 1 .. req[r].known :
         claims[c].node = req[r].node => claims[c].released \/ claims[c].expiresAt <= clock
  /\ req[r].pc = "retry" =>
       \A c \in 1 .. req[r].known :
         claims[c].node = req[r].node => claims[c].released

IInv == /\ TypeOK
        /\ OneOpenRow
        /\ \A r \in Request : OldRowsOver(r)

-----------------------------------------------------------------------------
(* The two ways a statement changes the table. *)

(* An INSERT adds one unreleased row and keeps the others. *)
LEMMA InsertEffect ==
  ASSUME TypeOK, WSAssumption, NEW r \in Request,
         req[r].pc \in {"insert", "retry"}, InsertClaim(r)
  PROVE  /\ claims' \in Seq(Row)
         /\ Len(claims') = Len(claims) + 1
         /\ DOMAIN claims' = 1 .. Len(claims) + 1
         /\ \A c \in 1 .. Len(claims) : claims'[c] = claims[c]
         /\ claims'[Len(claims) + 1] = NewRow(r)
<1>1. req[r].node \in Node /\ req[r].agent \in Agent /\ req[r].user \in User
  BY DEF TypeOK
<1>e. req[r].expiresAt \in Int
  BY DEF TypeOK, Job
<1>2. NewRow(r) \in Row
  BY <1>1, <1>e DEF NewRow, Row
<1>3. QED
  BY <1>2 DEF InsertClaim, TypeOK

(* An UPDATE of released_at changes no other column and no other row. *)
LEMMA ReleaseEffect ==
  ASSUME TypeOK, NEW C, ReleaseRows(C)
  PROVE  /\ claims' \in Seq(Row)
         /\ Len(claims') = Len(claims)
         /\ DOMAIN claims' = DOMAIN claims
         /\ DOMAIN claims = 1 .. Len(claims)
         /\ \A c \in DOMAIN claims :
              /\ claims'[c].node = claims[c].node
              /\ claims'[c].agent = claims[c].agent
              /\ claims'[c].user = claims[c].user
              /\ claims'[c].expiresAt = claims[c].expiresAt
              /\ claims'[c].released <=> (claims[c].released \/ c \in C)
<1>1. claims \in [1 .. Len(claims) -> Row] /\ Len(claims) \in Nat
      /\ DOMAIN claims = 1 .. Len(claims)
  BY LenProperties DEF TypeOK
<1>2. ASSUME NEW c \in 1 .. Len(claims)
      PROVE  /\ claims'[c] \in Row
             /\ claims'[c].node = claims[c].node
             /\ claims'[c].agent = claims[c].agent
             /\ claims'[c].user = claims[c].user
             /\ claims'[c].expiresAt = claims[c].expiresAt
             /\ claims'[c].released <=> (claims[c].released \/ c \in C)
  <2>1. claims[c] \in Row
    BY <1>1
  <2>2. CASE c \in C
    <3>1. claims'[c] = [claims[c] EXCEPT !.released = TRUE]
      BY <1>1, <2>2 DEF ReleaseRows
    <3>2. QED  BY <2>1, <2>2, <3>1 DEF Row
  <2>3. CASE c \notin C
    <3>1. claims'[c] = claims[c]
      BY <1>1, <2>3 DEF ReleaseRows
    <3>2. QED  BY <2>1, <2>3, <3>1 DEF Row
  <2>4. QED  BY <2>2, <2>3
<1>3. claims' \in [1 .. Len(claims) -> Row]
  BY <1>1, <1>2 DEF ReleaseRows
<1>4. claims' \in Seq(Row)
  BY <1>1, <1>3, SeqDef
<1>5. Len(claims') = Len(claims)
  BY <1>1, <1>3, <1>4, LenProperties
<1>6. QED
  BY <1>1, <1>2, <1>3, <1>4, <1>5

-----------------------------------------------------------------------------
(* Type correctness. *)

(* What TypeOK says of one request. *)
JobOK(j) ==
  /\ j \in Job
  /\ j.pc # "idle" => j.node \in Node
  /\ j.pc \in {"insert", "check", "sweep", "retry"} =>
       j.agent \in Agent /\ j.user \in User

(* A free slot is well typed. *)
LEMMA IdleOK == JobOK(Idle)
BY DEF JobOK, Job, Idle, Pc, Status

(* A step of one request that leaves a well-formed job keeps req well typed. *)
LEMMA OneJobStep ==
  ASSUME TypeOK, NEW r \in Request, NEW j, JobOK(j), req' = [req EXCEPT ![r] = j]
  PROVE  /\ req' \in [Request -> Job]
         /\ \A q \in Request : JobOK(req'[q])
BY DEF TypeOK, JobOK

(* Answering a request keeps the slots well typed. *)
LEMMA AnswerOK ==
  ASSUME TypeOK, NEW r \in Request, Answer(r)
  PROVE  /\ req' \in [Request -> Job]
         /\ \A q \in Request : JobOK(req'[q])
BY IdleOK, OneJobStep DEF Answer

(* Going on to the next database call keeps the slots well typed. *)
LEMMA GotoOK ==
  ASSUME TypeOK, NEW r \in Request, req[r].pc # "idle", NEW p \in Pc, Goto(r, p),
         p \in {"insert", "check", "sweep", "retry"} =>
           req[r].pc \in {"insert", "check", "sweep", "retry"}
  PROVE  /\ req' \in [Request -> Job]
         /\ \A q \in Request : JobOK(req'[q])
<1>1. req[r] \in Job
  BY DEF TypeOK
<1>2. JobOK([req[r] EXCEPT !.pc = p])
  BY <1>1 DEF TypeOK, JobOK, Job
<1>3. req' = [req EXCEPT ![r] = [req[r] EXCEPT !.pc = p]]
  BY DEF Goto
<1>4. QED
  BY <1>2, <1>3, OneJobStep

(* The first state is well typed. *)
LEMMA InitTypeOK == Init => TypeOK
BY IdleOK DEF Init, TypeOK, JobOK, Status, Idle

(* Every step keeps the state well typed. *)
LEMMA NextTypeOK == WSAssumption /\ TypeOK /\ [Next]_vars => TypeOK'
<1> SUFFICES ASSUME WSAssumption, TypeOK, [Next]_vars  PROVE TypeOK'
  OBVIOUS
<1> DEFINE ReqOK == /\ req' \in [Request -> Job]
                    /\ \A q \in Request : JobOK(req'[q])
           RestOK == /\ claims' \in Seq(Row)
                     /\ status' \in [Node -> Status]
                     /\ clock' \in Nat
<1>0. ReqOK /\ RestOK => TypeOK'
  BY DEF TypeOK, JobOK
<1>u. UNCHANGED <<claims, status, clock>> => RestOK
  BY DEF TypeOK
<1>1. ASSUME NEW r \in Request, NewRequest(r)  PROVE TypeOK'
  <2>1. RestOK
    BY <1>1, <1>u DEF NewRequest, ClaimTask, StartWorkSession, FinishWorkSession,
                      ReleaseTask, UpdateTask
  <2> DEFINE NewJob == \E j : JobOK(j) /\ req' = [req EXCEPT ![r] = j]
  <2>2. NewJob
    <3>1. \A i \in Identity : i.agent \in Agent /\ i.user \in User
      BY DEF WSAssumption
    <3>2. Len(claims) \in Nat /\ \A t \in Ttls : clock + t \in Int
      BY LenProperties DEF WSAssumption, TypeOK
    <3>0. Idle \in Job
      BY IdleOK DEF JobOK
    <3>3. ASSUME ClaimTask(r)  PROVE NewJob
      BY <3>1, <3>2, <3>3 DEF ClaimTask, Arrive, JobOK, Job, Idle, Pc, Status
    <3>4. ASSUME StartWorkSession(r)  PROVE NewJob
      <4>1. \A n \in Node : status[n] \in Status
        BY DEF TypeOK
      <4>2. QED
        BY <3>1, <3>2, <3>4, <4>1
        DEF StartWorkSession, Arrive, JobOK, Job, Idle, Pc, Status
    <3>5. ASSUME FinishWorkSession(r)  PROVE NewJob
      <4>1. PICK c \in DOMAIN claims, w \in FinalStatus :
              \E a \in {i.agent : i \in Identity} \cup {claims[c].agent} :
                Arrive(r, [Idle EXCEPT !.pc = "final", !.op = "finish", !.agent = a,
                             !.node = claims[c].node, !.want = w, !.session = c])
        BY <3>5 DEF FinishWorkSession
      <4>2. claims[c] \in Row /\ c \in Nat
        BY LenProperties DEF TypeOK
      <4>3. PICK a \in Agent :
              Arrive(r, [Idle EXCEPT !.pc = "final", !.op = "finish", !.agent = a,
                           !.node = claims[c].node, !.want = w, !.session = c])
        BY <4>1, <4>2 DEF WSAssumption, Row
      <4>4. claims[c].node \in Node
        BY <4>2 DEF Row
      <4> DEFINE j == [Idle EXCEPT !.pc = "final", !.op = "finish", !.agent = a,
                         !.node = claims[c].node, !.want = w, !.session = c]
      <4>5. JobOK(j)
        BY <3>0, <4>2, <4>4 DEF JobOK, Job, Pc, Status, FinalStatus
      <4>6. req' = [req EXCEPT ![r] = j]
        BY <4>3 DEF Arrive
      <4> HIDE DEF j
      <4>7. QED
        BY <4>5, <4>6
    <3>6. ASSUME ReleaseTask(r)  PROVE NewJob
      <4>1. PICK a \in Agent, n \in Node :
              Arrive(r, [Idle EXCEPT !.pc = "release", !.op = "release", !.agent = a,
                           !.node = n])
        BY <3>6 DEF ReleaseTask
      <4> DEFINE j == [Idle EXCEPT !.pc = "release", !.op = "release", !.agent = a,
                         !.node = n]
      <4>2. JobOK(j)
        BY <3>0 DEF JobOK, Job, Pc
      <4>3. req' = [req EXCEPT ![r] = j]
        BY <4>1 DEF Arrive
      <4> HIDE DEF j
      <4>4. QED
        BY <4>2, <4>3
    <3>7. ASSUME UpdateTask(r)  PROVE NewJob
      <4>1. PICK u \in User, n \in Node, w \in Wanted :
              Arrive(r, [Idle EXCEPT !.pc = "status", !.op = "update", !.user = u,
                           !.node = n, !.want = w])
        BY <3>7 DEF UpdateTask
      <4>2. w \in Status
        BY DEF WSAssumption, Status
      <4> DEFINE j == [Idle EXCEPT !.pc = "status", !.op = "update", !.user = u,
                         !.node = n, !.want = w]
      <4>3. JobOK(j)
        BY <3>0, <4>2 DEF JobOK, Job, Pc
      <4>4. req' = [req EXCEPT ![r] = j]
        BY <4>1 DEF Arrive
      <4> HIDE DEF j
      <4>5. QED
        BY <4>3, <4>4
    <3>8. QED  BY <1>1, <3>3, <3>4, <3>5, <3>6, <3>7 DEF NewRequest
  <2>3. QED  BY <1>0, <2>1, <2>2, OneJobStep
<1>2. ASSUME NEW r \in Request, Insert(r) \/ RetryInsert(r), InsertClaim(r)
      PROVE  TypeOK'
  <2>1. req[r].pc \in {"insert", "retry"}
    BY <1>2 DEF Insert, RetryInsert, At
  <2>2. RestOK
    BY <1>2, <2>1, InsertEffect DEF InsertClaim, TypeOK
  <2>3. ReqOK
    BY <1>2, <2>1, AnswerOK, GotoOK DEF InsertClaim, Granted, Pc
  <2>4. QED  BY <1>0, <2>2, <2>3
<1>3. ASSUME NEW r \in Request, Insert(r) \/ RetryInsert(r), ~InsertClaim(r)
      PROVE  TypeOK'
  <2>1. RestOK
    BY <1>3, <1>u DEF Insert, RetryInsert
  <2>2. ReqOK
    BY <1>3, AnswerOK, GotoOK DEF Insert, RetryInsert, At, Pc
  <2>3. QED  BY <1>0, <2>1, <2>2
<1>4. ASSUME NEW r \in Request, CheckExisting(r)  PROVE TypeOK'
  <2>1. ReqOK
    BY <1>4, AnswerOK, GotoOK DEF CheckExisting, At, Pc
  <2>2. QED  BY <1>0, <1>u, <1>4, <2>1 DEF CheckExisting
<1>5. ASSUME NEW r \in Request, ReleaseExpiredForNode(r)  PROVE TypeOK'
  <2>1. RestOK
    BY <1>5, ReleaseEffect DEF ReleaseExpiredForNode, TypeOK
  <2>2. ReqOK
    BY <1>5, GotoOK DEF ReleaseExpiredForNode, At, Pc
  <2>3. QED  BY <1>0, <2>1, <2>2
<1>6. ASSUME NEW r \in Request, MarkInProgress(r)  PROVE TypeOK'
  <2>1. RestOK
    BY <1>6 DEF MarkInProgress, TypeOK, Status
  <2>2. ReqOK
    BY <1>6, AnswerOK DEF MarkInProgress
  <2>3. QED  BY <1>0, <2>1, <2>2
<1>7. ASSUME NEW r \in Request, WriteFinalStatus(r)  PROVE TypeOK'
  <2>1. req[r].want \in Status
    BY DEF TypeOK, Job
  <2>2. RestOK
    BY <1>7, <2>1 DEF WriteFinalStatus, TypeOK
  <2>3. ReqOK
    BY <1>7, GotoOK DEF WriteFinalStatus, At, Pc
  <2>4. QED  BY <1>0, <2>2, <2>3
<1>8. ASSUME NEW r \in Request, Release(r)  PROVE TypeOK'
  <2>1. RestOK
    BY <1>8, ReleaseEffect DEF Release, TypeOK
  <2>2. ReqOK
    BY <1>8, AnswerOK DEF Release
  <2>3. QED  BY <1>0, <2>1, <2>2
<1>9. ASSUME NEW r \in Request, UpdateTaskStatus(r)  PROVE TypeOK'
  <2>1. req[r].want \in Status
    BY DEF TypeOK, Job
  <2>2. RestOK
    BY <1>9, <2>1 DEF UpdateTaskStatus, TypeOK
  <2>3. ReqOK
    BY <1>9, AnswerOK, GotoOK DEF UpdateTaskStatus, At, Pc
  <2>4. QED  BY <1>0, <2>2, <2>3
<1>10. ASSUME NEW r \in Request, LookupOwnClaim(r)  PROVE TypeOK'
  <2>1. ASSUME NEW c \in ActiveClaims(req[r].node),
               req' = [req EXCEPT ![r].pc = "release", ![r].agent = claims[c].agent,
                                  ![r].session = c]
        PROVE  ReqOK
    <3>1. claims[c] \in Row /\ c \in Nat
      BY <2>1, LenProperties DEF ActiveClaims, Unreleased, TypeOK
    <3>2. req[r] \in Job /\ req[r].node \in Node
      BY <1>10 DEF LookupOwnClaim, At, TypeOK
    <3>3. JobOK([req[r] EXCEPT !.pc = "release", !.agent = claims[c].agent,
                               !.session = c])
      BY <3>1, <3>2 DEF JobOK, Job, Row, Pc
    <3>4. req' = [req EXCEPT ![r] = [req[r] EXCEPT !.pc = "release",
                                       !.agent = claims[c].agent, !.session = c]]
      BY <2>1, <3>2 DEF TypeOK, Job
    <3>5. QED  BY <3>3, <3>4, OneJobStep
  <2>2. ReqOK
    BY <1>10, <2>1, AnswerOK DEF LookupOwnClaim
  <2>3. QED  BY <1>0, <1>u, <1>10, <2>2 DEF LookupOwnClaim
<1>11. ASSUME NEW r \in Request, Abort(r)  PROVE TypeOK'
  BY <1>0, <1>u, <1>11, AnswerOK DEF Abort
<1>12. CASE Tick
  BY <1>12 DEF Tick, TypeOK
<1>13. CASE UNCHANGED vars
  BY <1>13 DEF vars, TypeOK
<1>14. QED
  BY <1>1, <1>2, <1>3, <1>4, <1>5, <1>6, <1>7, <1>8, <1>9, <1>10, <1>11, <1>12, <1>13
  DEF Next, Step

(* Every reachable state is well typed: rows, statuses and what a request   *)
(* carries at each of its steps.                                            *)
THEOREM TypeCorrect == Spec => []TypeOK
<1>1. Init => TypeOK
  BY InitTypeOK
<1>2. TypeOK /\ [Next]_vars => TypeOK'
  BY NextTypeOK, WSAssumption
<1>3. QED  BY <1>1, <1>2, PTL DEF Spec

-----------------------------------------------------------------------------
(* How a step changes the table: it inserts one row on a node that has no   *)
(* unreleased row, or it releases rows that are expired, or it releases the *)
(* rows a release request names.                                            *)
Inserts(r)  == /\ req[r].pc \in {"insert", "retry"}
               /\ InsertClaim(r)
Sweeps(r)   == ReleaseExpiredForNode(r)
Releases(r) == Release(r)

(* Every step that changes the table is one of the three.                   *)
LEMMA TableStep ==
  ASSUME [Next]_vars
  PROVE  \/ \E r \in Request : Inserts(r)
         \/ \E r \in Request : Sweeps(r)
         \/ \E r \in Request : Releases(r)
         \/ UNCHANGED claims
<1>1. ASSUME NEW r \in Request, Step(r)
      PROVE  Inserts(r) \/ Sweeps(r) \/ Releases(r) \/ UNCHANGED claims
  BY <1>1 DEF Step, Insert, CheckExisting, RetryInsert, MarkInProgress,
     WriteFinalStatus, UpdateTaskStatus, LookupOwnClaim, Inserts, Sweeps, Releases, At
<1>2. ASSUME NEW r \in Request, NewRequest(r)  PROVE UNCHANGED claims
  BY <1>2 DEF NewRequest, ClaimTask, StartWorkSession, FinishWorkSession,
              ReleaseTask, UpdateTask
<1>3. QED
  BY <1>1, <1>2 DEF Next, Abort, Tick, vars

(* Time never runs backwards. *)
LEMMA ClockStep ==
  ASSUME TypeOK, [Next]_vars
  PROVE  clock' \in Nat /\ clock <= clock'
<1>1. ASSUME NEW r \in Request, NewRequest(r) \/ Step(r)  PROVE UNCHANGED clock
  <2>1. CASE NewRequest(r)
    BY <2>1 DEF NewRequest, ClaimTask, StartWorkSession, FinishWorkSession,
                ReleaseTask, UpdateTask
  <2>2. CASE Step(r)
    BY <2>2 DEF Step, Insert, InsertClaim, CheckExisting, ReleaseExpiredForNode,
       RetryInsert, MarkInProgress, WriteFinalStatus, Release, UpdateTaskStatus,
       LookupOwnClaim
  <2>3. QED  BY <1>1, <2>1, <2>2
<1>2. clock \in Nat
  BY DEF TypeOK
<1>3. QED
  BY <1>1, <1>2 DEF Next, Abort, Tick, vars

(* The empty table has at most one open row per node. *)
LEMMA InitOneOpenRow == Init => OneOpenRow
BY DEF Init, OneOpenRow

(* Every step keeps at most one open row per node: the unique index. *)
LEMMA NextOneOpenRow == WSAssumption /\ TypeOK /\ OneOpenRow /\ [Next]_vars => OneOpenRow'
<1> SUFFICES ASSUME WSAssumption, TypeOK, OneOpenRow, [Next]_vars  PROVE OneOpenRow'
  OBVIOUS
<1>0. DOMAIN claims = 1 .. Len(claims) /\ Len(claims) \in Nat
  BY LenProperties DEF TypeOK
<1>1. ASSUME NEW r \in Request, Inserts(r)  PROVE OneOpenRow'
  <2>1. Unreleased(req[r].node) = {} /\ InsertClaim(r)
    BY <1>1 DEF Inserts, InsertClaim
  <2>2. NewRow(r).node = req[r].node
    BY DEF NewRow
  <2>3. QED
    BY <1>0, <1>1, <2>1, <2>2, InsertEffect DEF Inserts, OneOpenRow, Unreleased
<1>2. ASSUME NEW C, ReleaseRows(C)  PROVE OneOpenRow'
  BY <1>2, ReleaseEffect DEF OneOpenRow
<1>3. CASE UNCHANGED claims
  BY <1>3 DEF OneOpenRow
<1>4. QED
  BY <1>1, <1>2, <1>3, TableStep
  DEF Sweeps, Releases, ReleaseExpiredForNode, Release

(* Every reachable state is typed and has at most one open row per node. *)
LEMMA Typed_OneOpenRow == Spec => [](TypeOK /\ OneOpenRow)
<1>1. Init => TypeOK /\ OneOpenRow
  BY InitTypeOK, InitOneOpenRow
<1>2. TypeOK /\ OneOpenRow /\ [Next]_vars => (TypeOK /\ OneOpenRow)'
  BY NextTypeOK, NextOneOpenRow, WSAssumption
<1>3. QED  BY <1>1, <1>2, PTL DEF Spec

(* Two claims on one task are never in force together.  The invariant that   *)
(* carries it is the stronger OneOpenRow, which also speaks of expired rows. *)
THEOREM MutualExclusion == Spec => []ExclusiveClaim
<1>1. TypeOK /\ OneOpenRow => ExclusiveClaim
  BY DEF OneOpenRow, ExclusiveClaim, ActiveClaims, Unreleased
<1>2. QED  BY <1>1, Typed_OneOpenRow, PTL

(* Only a release that names the node and the label ends an unexpired claim: *)
(* neither the clean-up in claim() nor any other step does.                  *)
THEOREM NoTheft == Spec => LeaseNotStolen
<1> DEFINE Legal ==
      \A c \in DOMAIN claims :
        Active(c) /\ claims'[c].released =>
          \E r \in Request : /\ At(r, "release")
                             /\ req[r].node = claims[c].node
                             /\ req[r].agent = claims[c].agent
                             /\ req'[r] = Idle
<1>1. ASSUME TypeOK, [Next]_vars  PROVE Legal
  <2> SUFFICES ASSUME NEW c \in DOMAIN claims, Active(c), claims'[c].released
               PROVE  \E r \in Request : /\ At(r, "release")
                                         /\ req[r].node = claims[c].node
                                         /\ req[r].agent = claims[c].agent
                                         /\ req'[r] = Idle
    OBVIOUS
  <2>0. DOMAIN claims = 1 .. Len(claims) /\ Len(claims) \in Nat
        /\ claims[c].expiresAt \in Int /\ clock \in Nat /\ ~claims[c].released
        /\ claims[c].expiresAt > clock
    <3>1. DOMAIN claims = 1 .. Len(claims) /\ Len(claims) \in Nat /\ claims[c] \in Row
      BY <1>1, LenProperties DEF TypeOK
    <3>2. QED  BY <1>1, <3>1 DEF TypeOK, Row, Active
  <2>1. ASSUME NEW r \in Request, Inserts(r)  PROVE FALSE
    BY <1>1, <2>0, <2>1, InsertEffect, WSAssumption DEF Inserts
  <2>2. ASSUME NEW r \in Request, Sweeps(r)  PROVE FALSE
    <3>1. ReleaseRows(ExpiredRows(req[r].node))
      BY <2>2 DEF Sweeps, ReleaseExpiredForNode
    <3>2. c \in ExpiredRows(req[r].node)
      BY <1>1, <2>0, <3>1, ReleaseEffect
    <3>3. QED  BY <2>0, <3>2 DEF ExpiredRows
  <2>3. ASSUME NEW r \in Request, Releases(r)
        PROVE  /\ At(r, "release")
               /\ req[r].node = claims[c].node
               /\ req[r].agent = claims[c].agent
               /\ req'[r] = Idle
    <3>1. ReleaseRows(RowsOf(req[r].node, req[r].agent))
      BY <2>3 DEF Releases, Release
    <3>2. c \in RowsOf(req[r].node, req[r].agent)
      BY <1>1, <2>0, <3>1, ReleaseEffect
    <3>3. QED
      BY <1>1, <2>3, <3>2 DEF RowsOf, Unreleased, Releases, Release, Answer, TypeOK
  <2>4. ~ UNCHANGED claims
    BY <2>0
  <2>5. QED  BY <1>1, <2>1, <2>2, <2>3, <2>4, TableStep
<1>2. QED
  BY <1>1, TypeCorrect, PTL DEF Spec, LeaseNotStolen

-----------------------------------------------------------------------------
(* Refinement of ExclusiveLease. *)

(* The first state maps to the first state of the abstract leases. *)
LEMMA ImplInit == Init => Lease!Init
<1> SUFFICES ASSUME Init  PROVE Lease!Init
  OBVIOUS
<1>1. DOMAIN claims = {}
  BY DEF Init
<1>2. QED
  BY <1>1 DEF Lease!Init, ActiveClaims, Unreleased

(* Leases only disappear, the table keeps its rows: an End step. *)
LEMMA ShrinkIsEnd ==
  ASSUME OneOpenRow, DOMAIN claims' = DOMAIN claims,
         \A m \in Node : ActiveClaims(m)' \subseteq ActiveClaims(m)
  PROVE  Lease!Next
<1> DEFINE N == {m \in Node : ActiveClaims(m)' = {}}
<1>1. ASSUME NEW m \in Node
      PROVE  ActiveClaims(m)' = IF m \in N THEN {} ELSE ActiveClaims(m)
  BY DEF OneOpenRow, ActiveClaims, Unreleased
<1>2. [m \in Node |-> ActiveClaims(m)'] =
        [m \in Node |-> IF m \in N THEN {} ELSE [k \in Node |-> ActiveClaims(k)][m]]
  BY <1>1
<1>3. Lease!End(N)
  BY <1>2 DEF Lease!End
<1>4. QED  BY <1>3 DEF Lease!Next

(* Every step grants a lease, ends some, or changes none of them. *)
LEMMA ImplStep ==
  WSAssumption /\ TypeOK /\ OneOpenRow /\ [Next]_vars => [Lease!Next]_(Lease!vars)
<1> SUFFICES ASSUME WSAssumption, TypeOK, OneOpenRow, [Next]_vars
             PROVE  [Lease!Next]_(Lease!vars)
  OBVIOUS
<1>0. DOMAIN claims = 1 .. Len(claims) /\ Len(claims) \in Nat /\ clock \in Nat
      /\ \A c \in DOMAIN claims : claims[c] \in Row
  BY LenProperties DEF TypeOK
<1>1. ASSUME NEW r \in Request, Inserts(r)
      PROVE  Lease!Next
  <2>n. PICK n \in Node : n = req[r].node
    BY <1>1 DEF Inserts, TypeOK
  <2>l. PICK l \in Nat : l = Len(claims) + 1
    BY <1>0
  <2>1. /\ n \in Node /\ Unreleased(n) = {} /\ clock' = clock
    BY <1>1, <2>n DEF Inserts, InsertClaim, TypeOK, WSAssumption
  <2>2. /\ DOMAIN claims' = 1 .. l
        /\ \A c \in 1 .. Len(claims) : claims'[c] = claims[c]
        /\ claims'[l] = NewRow(r)
    BY <1>1, <2>l, InsertEffect DEF Inserts
  <2>3. /\ claims'[l].node = n
        /\ ~claims'[l].released
    BY <1>0, <2>n, <2>l, <2>1, <2>2 DEF NewRow
  <2>4. ActiveClaims(n) = {} /\ l \notin DOMAIN claims
    BY <1>0, <2>l, <2>1 DEF ActiveClaims
  <2>h. PICK h : h = ActiveClaims(n)'
    OBVIOUS
  <2>5. h \in SUBSET {l}
    BY <1>0, <2>l, <2>1, <2>2, <2>3, <2>h DEF ActiveClaims, Unreleased
  <2>6. ASSUME NEW m \in Node, m # n  PROVE ActiveClaims(m)' = ActiveClaims(m)
    BY <1>0, <2>l, <2>1, <2>2, <2>3, <2>6 DEF ActiveClaims, Unreleased
  <2>7. [m \in Node |-> ActiveClaims(m)'] =
          [[m \in Node |-> ActiveClaims(m)] EXCEPT ![n] = h]
    BY <2>1, <2>h, <2>6
  <2>8. DOMAIN claims' = DOMAIN claims \cup {l}
    BY <1>0, <2>l, <2>2
  <2>9. Lease!Grant(n, l)
    BY <2>1, <2>4, <2>5, <2>7, <2>8 DEF Lease!Grant
  <2>10. QED  BY <2>1, <2>8, <2>9 DEF Lease!Next
<1>2. ASSUME NEW C, ReleaseRows(C), clock' = clock  PROVE Lease!Next
  <2>1. ASSUME NEW m \in Node  PROVE ActiveClaims(m)' \subseteq ActiveClaims(m)
    BY <1>2, ReleaseEffect DEF ActiveClaims, Unreleased
  <2>2. DOMAIN claims' = DOMAIN claims
    BY <1>2, ReleaseEffect
  <2>3. QED  BY <2>1, <2>2, ShrinkIsEnd
<1>3. CASE UNCHANGED claims
  <2>1. clock' \in Nat /\ clock <= clock'
    BY ClockStep
  <2>2. \A c \in DOMAIN claims : claims[c].expiresAt \in Int
    BY <1>0 DEF Row
  <2>3. ASSUME NEW m \in Node  PROVE ActiveClaims(m)' \subseteq ActiveClaims(m)
    BY <1>0, <1>3, <2>1, <2>2 DEF ActiveClaims, Unreleased
  <2>4. QED  BY <1>3, <2>3, ShrinkIsEnd
<1>4. QED
  BY <1>1, <1>2, <1>3, TableStep
  DEF Sweeps, Releases, ReleaseExpiredForNode, Release

(* Whatever the interleaving of requests, their crashes and the clock, the   *)
(* table behaves like exclusive leases that never come back once ended.      *)
THEOREM Refinement == Spec => ImplementsLease
<1>1. TypeOK /\ OneOpenRow /\ [Next]_vars => [Lease!Next]_(Lease!vars)
  BY ImplStep, WSAssumption
<1>2. QED
  BY <1>1, ImplInit, Typed_OneOpenRow, PTL DEF Spec, ImplementsLease, Lease!Spec

-----------------------------------------------------------------------------
(* The retry of claim() collides only with a claim made meanwhile. *)

(* A request's state is its own. *)
LEMMA OthersKeep ==
  ASSUME req \in [Request -> Job], NEW q \in Request, NEW r \in Request, r # q,
         NewRequest(r) \/ Step(r) \/ Abort(r)
  PROVE  req'[q] = req[q]
<1>1. CASE NewRequest(r)
  BY <1>1 DEF NewRequest, ClaimTask, StartWorkSession, FinishWorkSession,
              ReleaseTask, UpdateTask, Arrive
<1>2. CASE Step(r) \/ Abort(r)
  BY <1>2 DEF Step, Insert, InsertClaim, Granted, CheckExisting,
     ReleaseExpiredForNode, RetryInsert, MarkInProgress, WriteFinalStatus, Release,
     UpdateTaskStatus, LookupOwnClaim, Abort, Goto, Answer
<1>3. QED  BY <1>1, <1>2

(* Going on changes nothing of a request but where it stands. *)
LEMMA GotoEffect ==
  ASSUME req \in [Request -> Job], NEW r \in Request, NEW p, Goto(r, p)
  PROVE  req'[r] = [req[r] EXCEPT !.pc = p] /\ req'[r].pc = p
<1>1. req'[r] = [req[r] EXCEPT !.pc = p]
  BY DEF Goto
<1>2. req[r] \in Job
  OBVIOUS
<1>3. QED  BY <1>1, <1>2 DEF Job

(* An answered request leaves its slot idle. *)
LEMMA AnswerEffect ==
  ASSUME req \in [Request -> Job], NEW r \in Request, Answer(r)
  PROVE  req'[r] = Idle /\ req'[r].pc = "idle"
BY DEF Answer, Idle

(* A new request is about to claim, having noted the rows there are, or it   *)
(* is not a claim.                                                           *)
LEMMA ArrivalEffect ==
  ASSUME req \in [Request -> Job], NEW r \in Request, NewRequest(r)
  PROVE  \/ req'[r].known = Len(claims) /\ req'[r].pc = "insert"
         \/ req'[r].pc \notin {"insert", "check", "sweep", "retry"}
<1>1. CASE ClaimTask(r)
  BY <1>1 DEF ClaimTask, Arrive, Idle
<1>2. CASE StartWorkSession(r)
  BY <1>2 DEF StartWorkSession, Arrive, Idle
<1>3. CASE FinishWorkSession(r)
  BY <1>3 DEF FinishWorkSession, Arrive, Idle
<1>4. CASE ReleaseTask(r)
  BY <1>4 DEF ReleaseTask, Arrive, Idle
<1>5. CASE UpdateTask(r)
  BY <1>5 DEF UpdateTask, Arrive, Idle
<1>6. QED  BY <1>1, <1>2, <1>3, <1>4, <1>5 DEF NewRequest

(* Once a claim has found the rows it knew to be over, they stay over. *)
LEMMA NextOldRowsOver ==
  WSAssumption /\ IInv /\ [Next]_vars => \A r \in Request : OldRowsOver(r)'
<1> SUFFICES ASSUME WSAssumption, IInv, [Next]_vars, NEW q \in Request
             PROVE  OldRowsOver(q)'
  OBVIOUS
<1>0. /\ TypeOK /\ OldRowsOver(q)
      /\ DOMAIN claims = 1 .. Len(claims) /\ Len(claims) \in Nat
      /\ clock \in Nat /\ clock' \in Nat /\ clock <= clock'
  BY LenProperties, ClockStep DEF IInv, TypeOK
<1>1. /\ req \in [Request -> Job] /\ req[q].known \in Nat
      /\ \A c \in DOMAIN claims : claims[c].expiresAt \in Int
  <2>1. req[q] \in Job /\ \A c \in DOMAIN claims : claims[c] \in Row
    BY <1>0 DEF TypeOK
  <2>2. QED  BY <1>0, <2>1 DEF TypeOK, Row, Job
(* Whatever happens to the table, a row that is over stays over. *)
<1> DEFINE Kept == /\ Len(claims) <= Len(claims') /\ Len(claims') \in Nat
                   /\ \A c \in DOMAIN claims :
                        /\ claims'[c].node = claims[c].node
                        /\ claims'[c].expiresAt = claims[c].expiresAt
                        /\ claims[c].released => claims'[c].released
<1>2. Kept
  <2>1. ASSUME NEW r \in Request, Inserts(r)  PROVE Kept
    <3>1. /\ Len(claims') = Len(claims) + 1
          /\ \A c \in 1 .. Len(claims) : claims'[c] = claims[c]
      BY <1>0, <2>1, InsertEffect DEF Inserts
    <3>2. QED  BY <1>0, <3>1
  <2>2. ASSUME NEW C, ReleaseRows(C)  PROVE Kept
    <3>1. Len(claims') = Len(claims)
      BY <1>0, <2>2, ReleaseEffect
    <3>2. \A c \in DOMAIN claims :
            /\ claims'[c].node = claims[c].node
            /\ claims'[c].expiresAt = claims[c].expiresAt
            /\ claims[c].released => claims'[c].released
      BY <1>0, <2>2, ReleaseEffect
    <3>3. QED  BY <1>0, <3>1, <3>2
  <2>3. CASE UNCHANGED claims
    BY <1>0, <2>3
  <2>4. QED
    BY <2>1, <2>2, <2>3, TableStep
    DEF Sweeps, Releases, ReleaseExpiredForNode, Release
<1>3. CASE req'[q] = req[q]
  BY <1>0, <1>1, <1>2, <1>3 DEF OldRowsOver
<1>4. CASE req'[q].pc \notin {"insert", "check", "sweep", "retry"}
  BY <1>4 DEF OldRowsOver
<1>5. ASSUME req'[q].known = Len(claims), req'[q].pc = "insert"
      PROVE  OldRowsOver(q)'
  BY <1>0, <1>2, <1>5 DEF OldRowsOver
<1>6. CASE At(q, "insert") /\ req'[q] = [req[q] EXCEPT !.pc = "check"]
  BY <1>0, <1>1, <1>2, <1>6 DEF OldRowsOver, At, Job
<1>7. CASE CheckExisting(q) /\ req'[q] = [req[q] EXCEPT !.pc = "sweep"]
  <2>1. ActiveClaims(req[q].node) = {} /\ UNCHANGED <<claims, clock>>
        /\ req[q].known <= Len(claims)
        /\ req'[q].pc = "sweep" /\ req'[q].known = req[q].known
        /\ req'[q].node = req[q].node
    BY <1>0, <1>1, <1>7 DEF CheckExisting, OldRowsOver, At, Goto, Answer, Idle, Job
  <2>2. \A c \in DOMAIN claims : claims[c].node = req[q].node =>
          claims[c].released \/ claims[c].expiresAt <= clock
    BY <1>0, <1>1, <2>1 DEF ActiveClaims, Unreleased
  <2>3. QED  BY <1>0, <1>1, <2>1, <2>2 DEF OldRowsOver
<1>8. CASE ReleaseExpiredForNode(q)
  <2>1. /\ ReleaseRows(ExpiredRows(req[q].node))
        /\ req'[q].pc = "retry" /\ req'[q].known = req[q].known
        /\ req'[q].node = req[q].node /\ req[q].known <= Len(claims)
        /\ \A c \in 1 .. req[q].known : claims[c].node = req[q].node =>
             claims[c].released \/ claims[c].expiresAt <= clock
    BY <1>0, <1>1, <1>8 DEF ReleaseExpiredForNode, OldRowsOver, At, Goto, Job
  <2>2. \A c \in 1 .. req[q].known :
          claims'[c].node = req[q].node => claims'[c].released
    <3>1. ASSUME NEW c \in 1 .. req[q].known, claims'[c].node = req[q].node
          PROVE  claims'[c].released
      <4>1. c \in DOMAIN claims
        BY <1>0, <1>1, <2>1
      <4>2. claims[c].node = req[q].node
        BY <1>0, <2>1, <3>1, <4>1, ReleaseEffect
      <4>3. claims[c].released \/ c \in ExpiredRows(req[q].node)
        BY <2>1, <4>1, <4>2 DEF ExpiredRows, Unreleased
      <4>4. QED  BY <1>0, <2>1, <4>1, <4>3, ReleaseEffect
    <3>2. QED  BY <3>1
  <2>3. req'[q].known <= Len(claims')
    BY <1>0, <1>1, <1>2, <2>1
  <2>4. QED  BY <2>1, <2>2, <2>3 DEF OldRowsOver
<1> DEFINE Others == req'[q] = req[q]
           Leaves == req'[q].pc \notin {"insert", "check", "sweep", "retry"}
           Comes  == req'[q].known = Len(claims) /\ req'[q].pc = "insert"
           Checks == At(q, "insert") /\ req'[q] = [req[q] EXCEPT !.pc = "check"]
           Passes == CheckExisting(q) /\ req'[q] = [req[q] EXCEPT !.pc = "sweep"]
<1>9. Others \/ Leaves \/ Comes \/ Checks \/ Passes \/ ReleaseExpiredForNode(q)
  <2>1. ASSUME NEW r \in Request, r # q, NewRequest(r) \/ Step(r) \/ Abort(r)
        PROVE  Others
    BY <1>1, <2>1, OthersKeep
  <2>2. ASSUME NewRequest(q)  PROVE Leaves \/ Comes
    BY <1>1, <2>2, ArrivalEffect
  <2>3. ASSUME Step(q) \/ Abort(q)
        PROVE  Leaves \/ Checks \/ Passes \/ ReleaseExpiredForNode(q)
    <3>1. Answer(q) => Leaves
      BY <1>1, AnswerEffect
    <3>2. ASSUME NEW p, Goto(q, p), p \notin {"insert", "check", "sweep", "retry"}
          PROVE  Leaves
      BY <1>1, <3>2, GotoEffect
    <3>3. InsertClaim(q) => Leaves
      BY <3>1, <3>2 DEF InsertClaim, Granted
    <3>4. CASE Insert(q) \/ CheckExisting(q) \/ RetryInsert(q)
      BY <1>1, <3>1, <3>3, <3>4, GotoEffect DEF Insert, CheckExisting, RetryInsert
    <3>5. CASE MarkInProgress(q) \/ WriteFinalStatus(q) \/ Release(q)
                 \/ UpdateTaskStatus(q) \/ Abort(q)
      BY <3>1, <3>2, <3>5 DEF MarkInProgress, WriteFinalStatus, Release,
                              UpdateTaskStatus, Abort
    <3>6. CASE LookupOwnClaim(q)
      <4>1. ASSUME NEW c, req' = [req EXCEPT ![q].pc = "release",
                                   ![q].agent = claims[c].agent, ![q].session = c]
            PROVE  Leaves
        <5>1. req'[q] = [req[q] EXCEPT !.pc = "release", !.agent = claims[c].agent,
                                       !.session = c]
          BY <1>1, <4>1
        <5>2. req[q] \in Job
          BY <1>1
        <5>3. QED  BY <5>1, <5>2 DEF Job
      <4>2. QED  BY <3>1, <3>6, <4>1 DEF LookupOwnClaim
    <3>7. QED  BY <2>3, <3>4, <3>5, <3>6 DEF Step
  <2>4. CASE Tick \/ UNCHANGED vars
    BY <2>4 DEF Tick, vars
  <2>5. QED  BY <2>1, <2>2, <2>3, <2>4 DEF Next
<1>10. QED  BY <1>3, <1>4, <1>5, <1>6, <1>7, <1>8, <1>9

(* The inductive invariant of the module. *)
THEOREM Invariance == Spec => []IInv
<1>1. Init => IInv
  BY InitTypeOK, InitOneOpenRow DEF Init, IInv, OldRowsOver, Idle
<1>2. IInv /\ [Next]_vars => IInv'
  BY NextTypeOK, NextOneOpenRow, NextOldRowsOver, WSAssumption DEF IInv
<1>3. QED  BY <1>1, <1>2, PTL DEF Spec

(* A claim request that gives up at its retry was really overtaken: the      *)
(* node has a row that did not exist when the request came in.               *)
THEOREM HonestCollision == Spec => NoSpuriousCollision
<1> DEFINE Honest ==
      \A r \in Request :
        /\ At(r, "retry") /\ req'[r].pc = "idle" /\ UNCHANGED claims
        /\ r \notin Mortal
        => \E c \in DOMAIN claims : c > req[r].known /\ claims[c].node = req[r].node
<1>1. ASSUME IInv, [Next]_vars  PROVE Honest
  <2> SUFFICES ASSUME NEW r \in Request, At(r, "retry"), req'[r].pc = "idle",
                      UNCHANGED claims, r \notin Mortal
               PROVE  \E c \in DOMAIN claims :
                        c > req[r].known /\ claims[c].node = req[r].node
    OBVIOUS
  <2>0. /\ DOMAIN claims = 1 .. Len(claims) /\ Len(claims) \in Nat
        /\ req[r] \in Job /\ req \in [Request -> Job]
    BY <1>1, LenProperties DEF IInv, TypeOK
  <2>1. Unreleased(req[r].node) # {}
    <3>1. req'[r] # req[r]
      BY DEF At
    <3>2. NewRequest(r) \/ Step(r) \/ Abort(r)
      BY <1>1, <2>0, <3>1, OthersKeep DEF Next, Tick, vars
    <3>3. RetryInsert(r)
      BY <3>2 DEF At, NewRequest, ClaimTask, StartWorkSession, FinishWorkSession,
         ReleaseTask, UpdateTask, Arrive, Step, Insert, CheckExisting,
         ReleaseExpiredForNode, MarkInProgress, WriteFinalStatus, Release,
         UpdateTaskStatus, LookupOwnClaim, Abort
    <3>4. ~InsertClaim(r)
      <4>1. ASSUME InsertClaim(r)  PROVE Len(claims') = Len(claims) + 1
        BY <1>1, <4>1, InsertEffect, WSAssumption DEF IInv, At
      <4>2. Len(claims') = Len(claims)
        OBVIOUS
      <4>3. Len(claims) \in Nat
        BY <2>0
      <4>4. \A k \in Nat : k + 1 # k
        OBVIOUS
      <4>5. QED  BY <4>1, <4>2, <4>3, <4>4
    <3>5. QED  BY <3>3, <3>4 DEF RetryInsert
  <2>2. PICK c \in DOMAIN claims : claims[c].node = req[r].node /\ ~claims[c].released
    BY <2>1 DEF Unreleased
  <2>3. /\ req[r].known \in Nat
        /\ \A d \in 1 .. req[r].known :
             claims[d].node = req[r].node => claims[d].released
    BY <1>1, <2>0 DEF IInv, OldRowsOver, At, Job
  <2>4. c > req[r].known
    BY <2>0, <2>2, <2>3
  <2>5. QED  BY <2>2, <2>4
<1>2. QED
  BY <1>1, Invariance, PTL DEF Spec, NoSpuriousCollision
=============================================================================
