# AgentPlanner in TLA+

AgentPlanner keeps plans (trees of phases, tasks and milestones) that people and
AI agents work on together.  This directory holds TLA+ models of the parts of
its API server in which concurrency, failure or a subtle computation decides
whether it is correct, the TLC configurations that check them on small
instances, and proofs of the most important facts for every instance.

Paths below are relative to the repository; `src/...` without further prefix is
the server's source directory.

    cd tla
    tlc -config WorkSessionLease.cfg MCWorkSession     # one run
    tlapm WorkSession_proofs.tla                       # one proof module

`PROJECT.json` lists the components, the runs, for every property a mutant of
the model that the property must catch, the source lines of every definition,
the findings, the hazards and the theorems.

## 1. The system

One Node.js process serves the REST API (two generations of controllers, an
"agent loop" API and a "v1 facade" for tools), WebSockets and a message bus.
All durable state is in PostgreSQL; a statement of `src/db/dal/*.mjs` is atomic,
a handler made of several statements is not, since every `await` lets other
requests run.  Only `bulkCreate` of the dependencies and the OAuth store use
transactions, none takes explicit locks.  The server may run in several
processes; except for the parts that live in memory (context cache, presence,
bridge) nothing in the models depends on there being one.

| Component | State | Operations | Why it is hard | What makes it correct | Module |
|---|---|---|---|---|---|
| Task claims and work sessions | `node_claims`, `plan_nodes.status`, the clock | claim, release, startWorkSession, finishWorkSession | check-then-act over up to three statements; expiry; dying agents | one active claim per task; a live lease is not stolen; an expired one locks nothing | `WorkSession`, `ExclusiveLease` |
| v1 task facade | the same tables | updateTask: status, claim release, learning, each tried on its own | partial failure | only the caller's claims are released | `WorkSession`, `Learnings` |
| Plan rollup | none (pure) | progress, status counts, container statuses | one number computed in SQL and in memory, flat and recursive | tree, page and list tell one story | `PlanRollup` |
| Status propagation, message bus | node and plan statuses, undelivered notifications | update and publish; unblock, complete parents, reconcile the plan | callbacks are not awaited; every read is old when used; notifications are not stored | no lost wake-up; no action without cause; settled when quiet | `StatusPropagation` |
| Node tree | `plan_nodes.parent_id`, `order_index` | create, delete, move, reorder, RPI chains | read-modify-write over several rows; no foreign key on the parent | positions as asked; no loop | `NodeTree` |
| Dependency graph | `node_dependencies`, the connection pool | create, delete, bulk create, cross-plan | check and insert apart; check outside the transaction; the pool | no cycle; every request ends | `DependencyGraph` |
| Graph queries, schedules, task selection | none (pure) | impact, up- and downstream, critical paths, schedule, bottlenecks, document order, suggestions, choice | graph algorithms in SQL and by hand; readiness in several places | equal to their definitions; nobody is sent away for nothing | `PlanQueries` |
| Context engine, research compaction | an in-memory cache; metadata | get, assemble, store, invalidate; compact | fills race with invalidations; metadata written back after awaits | nothing stale but for named races; no update lost | `TaskContext` |
| Decision requests | `decision_requests` | create, update, resolve, cancel, delete | check-then-update | an outcome told is final | `DecisionQueue` |
| OAuth store | codes, refresh tokens | consume, issue, rotate, revoke, disconnect | one-time use under concurrency | spent once; disconnected is disconnected | `OAuthStore` |
| Goals and achievers | goals, links, achiever edges, criteria | link, unlink, create task, record progress, edit | cascades read what the other one writes; whole rows written back | tasks of linked plans contribute; met goals close | `GoalLinks`, `GoalCriteria` |
| Reports on a goal | none (pure) | dashboard, briefings, state, portfolio, coherence | computed in five places | one verdict | `GoalReports` |
| Agent intentions | plan, nodes, link, edges | createIntention | many statements, one transaction at the end | linked plans are whole; the answer is true | `Intentions` |
| Plans and sharing | collaborators, invites, visibility | share, invite, accept, withdraw, remove; lists and doors | roles read before the write; each door its own query | removed stays out; listed opens | `PlanSharing`, `PlanDoors` |
| Workspaces, organizations, accounts | organizations, members, workspaces | sign-up, provider sign-in, provisioning, create, rename, archive, delete, file | five statements without a transaction; slugs | everybody has a place; one default | `Homes`, `PlanSharing` |
| Blueprints and forks | blueprints, plans, nodes, edges | snapshot, fork | copies in passes, failure half way | a copy that succeeds is whole | `PlanCopies` |
| Coherence, knowledge | episode links, coherence status | add an episode, link, unlink, check twice | ids looked up by name; checks outlive their timeout; mark and link are two statements whose failures are swallowed; restarts | marks and links agree; no task is missed | `Learnings` |
| Knowledge loop | runs and iterations in one JSON column | start, iterate, stop | read-extend-write; status apart | one running loop; iterations in order | `KnowledgeLoop` |
| Bridge to the sidecar | one session for the server | call, renew, repeat | calls renew under each other; losses | at most once; gets through again | `GraphitiBridge`, `OnceOnly` |
| Collaboration server | maps of users per plan and node, timers | authenticate, join, leave, type, close | handlers overlap; maps keyed by user | presence true; typing ends | `Presence` |
| Rate limits, integrations, mail, webhooks | outside services | pure I/O | | | none |
| Search, statistics, quality scores, activity | none | read-only queries, formatting | | | none |

The files behind each component are in `PROJECT.json`.

How they interact.  Requests write rows and publish events through
`pg_notify`; the process that listens hands each event to callbacks
(propagation, context cache, compaction) *without awaiting them*
(`services/messageBus.js:14`), so callbacks run concurrently with each other
and with requests.  Propagation writes node and plan statuses which requests
write as well.  Propagation and task selection read the dependency graph.  The
agent loop combines claims, statuses and context, and writes statuses past the
node service, that is without publishing.  The rollup is called by propagation
(is the plan done?), by the plan pages and by goals.  A new task cascades to the
goals of its plan, a new link to the tasks of the plan.  Roles of an
organization open its plans.  An episode marks tasks.

The hazards of `PROJECT.json` list, line by line, where an order of steps
nobody wrote a test for can go wrong; the properties below are aimed at them.

## 2. Modules

| Module | Models | Builds on |
|---|---|---|
| `ExclusiveLease` | what the claim system promises (abstract) | |
| `WorkSession` | claims, work sessions and the claim part of updateTask | refines `ExclusiveLease` |
| `PlanRollup` | the pure functions of planRollup.service.js | |
| `StatusPropagation` | node updates, the bus, propagateStatus, maintainPlanStatus | extends `PlanRollup` |
| `Reachability` | paths and cycles | |
| `DependencyGraph` | blocking edges, cycle checks, transactions, the pool | extends `Reachability` |
| `PlanQueries` | what to do next and what depends on what: pure operators | extends `Reachability` |
| `GoalReports` | how a goal stands, as five surfaces tell it: pure operators | extends `PlanQueries`, `PlanRollup` |
| `Slots` | what the service modules share: request slots, updates of partial functions | |
| `NodeTree`, `TaskContext`, `DecisionQueue`, `OAuthStore`, `GoalLinks`, `GoalCriteria`, `PlanSharing`, `PlanCopies`, `Intentions`, `KnowledgeLoop`, `Homes`, `Learnings`, `Presence` | one service each | extend `Slots` (`GoalCriteria` also `PlanRollup`; `Intentions` uses `Reachability`) |
| `PlanDoors` | which lists, pages and requests open a plan | extends `PlanSharing` |
| `OnceOnly` | what a call to the sidecar promises (abstract) | |
| `GraphitiBridge` | the session all calls share, and its renewal | refines `OnceOnly` |
| `MCServices`, `MCLive`, `MCPlanQueries` | compositions TLC checks, and instances | several of the above |
| other `MC...` | the instances TLC checks | |
| `WorkSession_proofs`, `StatusPropagation_proofs`, `DependencyGraph_proofs` | theorems about the component they extend | |
| `Queries_proofs` | theorems about what is computed from the rows of a plan | extends `MCPlanQueries` |
| `Plans_proofs`, `Stores_proofs`, `Live_proofs` | theorems about the services, a part for each | extend several services |
| `Services_proofs` | theorems about the composition | extends `MCServices` and the proofs of its parts |

Definitions with a suffix (`ReleaseRows_Rewrite`, `CheckBlocker_Any`, ...) are
mutants: what the definition after them would be with a plausible bug.  No
specification uses them; substituting one must break the property
`PROJECT.json` pairs it with.

Conventions.  A request or a callback occupies a *slot* of `Request` or
`Handler`, a record whose `pc` names the database call it makes next and whose
other fields are the local variables that survive an `await`.  One SQL statement
is one step; code between two awaits belongs to the step before it.  Reads that
influence nothing later (loading a title, access checks) are left out.  Texts,
names, metadata, logging and notifications to users are left out.  Fields marked
*history* are not in the code; they let a property refer to the past and no
action's guard reads them.  Most of them name a race the code really has, by the
exact interleaving that opens it, so that the property can demand everything else;
the table at the end of this section lists them, and `findings` says what happens in
the excepted case.

### WorkSession

`claims` is the table `node_claims` in order of insertion (rows are never
deleted); a row is unreleased (`released_at IS NULL`) until released.  `claim()`
is the chain `Insert` -> `CheckExisting` -> `ReleaseExpiredForNode` ->
`RetryInsert`: INSERT; on a unique violation SELECT the active claim; if none,
UPDATE the expired rows; INSERT again.  The partial unique index of migration
0009 is the guard of `InsertClaim`.  `startWorkSession` carries the status it read
before the claim (`seen`) and decides with it whether to mark the task
(`MarkInProgress`).  `finishWorkSession` looks only at `released_at`, writes the
status, then releases by agent *label*.  `updateTask` writes the status, then
looks up the active claim, compares its user, and releases by label.  `release`
ends any unreleased row of the node with that label, the caller's or not.
`Abort` ends a mortal request between any two statements; `Tick` is the clock.

`CodeVisible` says how the driver reports a rejected INSERT.  `claim()` tests
`err.code === '23505'`; the `drizzle-orm` version the lock file pins wraps the
driver's error, so the code is on `err.cause.code` and the recovery branch is not
taken (`CodeVisible = FALSE`).  The passing runs take `TRUE`, the error that
`claims.dal.mjs` is written for, so that its recovery branch is checked at all;
`WorkSessionLocked` takes `FALSE` and shows the consequence.  The theorems hold for both.

Simplifications: Node's `Date` (which computes `expires_at`) and PostgreSQL's
`now()` (which compares it) are one clock; `expires_at` is computed when the
request comes in, its INSERT may come any time later, hence the leases that are
over when they are granted.  Any task may be
chosen, which includes what `chooseTask` would choose (`PlanQueries`).  Logs written beside are left out.

### PlanRollup

`ProgressPct`, `StatusCounts` and `Summary` (the recursive
`effectiveContainerStatus`) are those of the service; `ListedProgressPct` and
`ListedCounts` are the SQL side used for the index of plans.  `Math.round` is
`(200k + n) div 2n`.  Progress is a
flat count over tasks and milestones.  `Summary` is a recursive
function over the nodes, so it needs the tree to be a tree.

### StatusPropagation

`UpdateNodeStatus` reads the node (`requireNode`), `WriteStatus` writes it, and
what was *read* decides whether anything is published; `ReadDraft` and `Promote`
make a draft plan active; `Publish` is `pg_notify`.  A `session` request is
startWorkSession or finishWorkSession: the same write, silent.  `Deliver` hands
the oldest notification to a free callback slot.  A callback runs
`propagateStatus` (targets one by one, blockers one by one, then siblings,
parent, and the recursion on the parent) and then `maintainPlanStatus` (read
plan, compute the rollup, write plan), each statement a step.  `Fail` is a
rejected await: requests answer an error, callbacks are logged and dropped.
`Restart` loses queue, requests and callbacks.  `DeleteNode` deletes one row:
`parent_id` has no foreign key, so children become orphans.  `gone` keeps the ids
that were deleted, for ids are random UUIDs and `CreateNode` never meets one again.

History: `touched` (per callback, what others wrote while it judged a node) and
`dirty` (did anything happen that no callback makes up for).  Both only weaken
properties, and only where the code really has a race; the findings name each.

Simplifications: node types, parents and edges are constants (moves and edge
changes are other components); one plan (propagation across plans is the same
code, with another plan's id).  "Settled" properties assume `~dirty`.

### DependencyGraph

`createDependency` is `Check` then `Insert`; the check is `wouldCreateCycle`, a
recursive query taken as reachability.  `bulkCreate` is `Begin`, then per edge
`BulkCheck` (on *another* connection: it sees committed edges only) and
`BulkInsert`, then `CommitBulk`.  A transaction holds a connection from `Begin`
on; `FreeConnection` is what any other statement needs.  `WaitForLock` is an
INSERT that waits for a transaction holding the same unique-index entry; it
keeps its connection meanwhile.  `createIntention`, the only caller of
`bulkCreate`, submits edges between nodes it has just created, hence batches of
distinct plans have disjoint nodes (`planned`).  Only the type `blocks` is
modelled, the other types are not checked for cycles.

History: `fresh` (per request, what others committed since its check), `raced`.

### PlanQueries and GoalReports

Operators over one snapshot of rows.  `DocumentOrder` is `buildDocumentOrder`; the
sequence `rows` is what `listByPlan` returns, sorted by `order_index` over *all*
parents, which is why the depth-first walk is needed.  `NextTasks` is
`suggestNextTasks`: its sort is by unique ranks, so it is a filter of the document
order.  `ChooseTask` is `chooseTask` for one plan: it resumes tasks that are
`in_progress` and offers what is `not_started` or `plan_ready`; a blocked task, or a
milestone that is `in_progress`, it never offers.  `Layers` is Kahn's algorithm of
`topologicalSort` with its in-degree counters.  `Trails` are the paths the recursive
SQL queries grow (no node twice); `WouldCreateCycle`, `Impact`, `Upstream`,
`Downstream`, `GoalPath` and `CriticalPaths` are built from them or alike;
`BriefedChains` is the goal briefing's own critical path.  `CycleCheckExact` is what
allows `DependencyGraph` to take the cycle check as plain reachability.

`GoalReports` puts the dashboard's row (`Rollup`), the agent's briefing
(`MissionGoal`), the goal's page (`GoalState`), its briefing (`RouteBriefing`) and
its coherence (`Coherence`) side by side, each translated from its own code, over the
rows of one goal and up to three plans.  `MCGoalReports` changes the rows.  Pending
decisions are counted in two ways, as in the code: `Rollup` counts tasks and milestones,
while `RouteBriefing` and `Coherence` list nodes of every type (`PendingNodes`), hence
`phases` among the rows.

Simplifications: the queries read rows in several statements; their races with
writers are the business of `WorkSession` (a claim decides) and not repeated here.
Knowledge lookups and wording of reasons are left out.

### NodeTree

`tree` is `plan_nodes` of one plan (`parent_id`, `order_index`); ids are numbers given
out in order.  `createNode` is `StartCreate`, `CountSiblings` if no position is given,
`InsertNode`; `createRpiChain` is three inserts (`todo`) and `LinkChain` for their
edges; `moveNode` is `FindTarget`, `ListTarget`, `WriteMove` and then the reorder:
`ReadReordered`, `ListSiblings`, and one `WriteOrder` per sibling whose position as it
was read differs.  `RemoveNode` leaves the nodes below.  The unique constraint on
titles is `Collides`.

### TaskContext

`cache` is the map of the context engine in insertion order; `CacheSet` evicts the
oldest entry even when the key is there, as the code does.  An assembly is a read of
the task, a read of its siblings and the store.  `DeliverChange` hands one event to
both listeners: the invalidation runs at once, a compaction begins.  A compaction
reads the row, reads the log, writes the metadata it read.  `SilentWrite` is a status
written without an event, by work sessions and by `propagateStatus`.  The key of the cache is the
task with a `Variant`, which stands for depth, budget, log limit and organization; the
variants in `TaskFocus` have depth 1 and read no siblings.

### DecisionQueue, OAuthStore

`DecisionQueue`: every change is `CheckPending` (the row is read) and an UPDATE by id
that does not ask for the status again; `NotifyDecisionResolved` tells the outcome
afterwards.  `OAuthStore`: `SelectCode` and `DeleteCode` are the two statements of
`consumeCode`'s transaction (READ COMMITTED: two may select before either deletes);
`FindValidRefreshToken`, `RevokeOld`, `IssueTokenSet` are a rotation; `RevokeApp` is the
user's disconnect; `GrantExpires` the clock.

### GoalLinks, GoalCriteria

`GoalLinks`: `AddLink` and `CreateWork` write a row and then cascade, by reading what
the other kind writes and inserting the edges one by one (`InsertEdge`; the first that
fails ends the cascade).  `Owed(r)` is what a request still has to see to.
`GoalCriteria`: a request reads the goal, computes criteria and perhaps a status from
it, and writes the fields it has in one UPDATE (`WriteGoal`); `AutoAchieveStatus` is
`utils/goalCriteria.js`, the percentage is that of `PlanRollup`.

### PlanSharing, PlanDoors, Homes

`PlanSharing`: a request reads the role of the one who asks (`StartPlanRequest`,
`CheckRole`), what it is about (`LookUp`, `CheckTarget`), and writes; accepting an
invite is `AddCollaborator` and then `DropInvite`.  `Register` converts no invite,
because invites have no expiry and the conversion asks for one.  `PlanDoors` are the
queries that decide, each by itself, who is listed (`ListForUser`, `ListPublic`), who
may open (`UserHasAccess`, `GetPublicPlan`), preview and fork; its properties are
checked in every state `PlanSharing` reaches.  `Homes`: sign-up and sign-in with a
provider, `ensurePersonalScope` statement by statement (`ListOrgs`, `FindPersonalOrg`,
`CreatePersonalOrg`, `AddOwner`, `FindDefaultSlug`, `ChooseSlug`, `InsertWorkspace`),
the workspace and organization routes, and where new plans and goals are filed
(`Resolve`, `ResolveFork`, `ResolveIntention`).  Foreign keys are guards of the
deletions and of the inserts.

### PlanCopies, Intentions

`PlanCopies`: a snapshot is two reads (`SnapshotNodes`, `SnapshotEdges`), a fork is the
passes `InsertCopies`, `SetParents`, `InsertEdges`, each row a step, while others edit
the plan.  `Intentions` is `createIntention`: plan, root, one `CreateChild` per node in
document order, `LinkIntention`, the cascade (`ListIntentTasks`, `AchieveNext`), and the
dependencies in one transaction (`AddDependencies`), with `ResolveRef` for the
references; others delete and link the new nodes meanwhile.  The transaction of
`AddDependencies` is one step here; its statements are those of `DependencyGraph`.

### KnowledgeLoop, Learnings, GraphitiBridge, Presence

`KnowledgeLoop`: the iterations are read (`FindIterations`), extended and written back
(`WriteIterations`), the status in a statement of its own (`CompleteLoop`).
`Learnings`: an episode is accepted, its id looked up by name
(`ResolveEpisodeIdByName`), linked, and checked by two checks that run beside each
other and beside the answer; `Ingest` is the sidecar taking episodes in later.  The
check during the request looks at the tasks of the plan, the one afterwards at those of
active plans, and only for whoever belongs to an organization (`Searched`).
`FindAffectedTasks` passes over a task whose search fails; `MarkTask` and `TieTask` are
the two statements of `applyCoherenceResult`, each of which may fail by itself, and
`LearningRestart` ends whatever is under way between any two.  `Relink` is `linkEpisode`
and `unlinkEpisode`, `SwitchPlan` a plan that becomes active or ceases to be.
`GraphitiBridge`: a call is a request and its answer, a 404 or 410 starts `initialize`,
the notification and the one repetition, all with the session the bridge has *at that
moment*; `Forget` and `Lose` are the sidecar's restarts and the network.  The sidecar
is external: it is assumed to give a new session to an initialize without one, to
carry out what comes with a known session, to answer 404 or 410 to an unknown one, and
to refuse requests without any.
`Presence`: the maps of `websocket/collaboration.js`; a message's handler runs to its
first await at once (`Receive`) and in steps afterwards (`JoinNext`, `SetCurrent`,
`StartTimer`), while the next message of the same socket may begin; each
`typing_start` has a timer of its own (`TypingTimer`).

### History variables that except a race

| Where | Variable | Excepts |
|---|---|---|
| `DependencyGraph` | `fresh`, `raced` | edges committed between a check and its insert |
| `StatusPropagation` | `touched`, `dirty` | nodes written while a callback judges them; what no callback makes up for |
| `NodeTree` | `touched`, `raced`, `knotted` | children changed since they were listed; moves under oneself, overlapping moves |
| `TaskContext` | `raced`, `silent` | an assembly or a metadata write overlapped; status changes without an event |
| `DecisionQueue` | `contested` | two requests found the decision pending |
| `OAuthStore` | `grabbed`; `severed` (the clean disconnects) | two requests found a grant unspent; exchanges under way |
| `GoalLinks` | `lapsed` | edges removed by hand, cascades that broke off, tasks created aside |
| `GoalCriteria` | `loose` | status set by hand, or judged by an outdated row |
| `PlanSharing` | `barred` (the clean removals), `late` | grants under way, memberships changed meanwhile |
| `Homes` | `stranded`, `crossed` | provisioning that did not run through, two defaults at once |
| `Intentions` | `added`, `removed`, `broke` | what others linked and deleted; a cascade that met a deleted task |
| `KnowledgeLoop` | `doubled`, `muddled` | two starts, two requests on one run |
| `Learnings` | `handled`, `relinked`, `mishaps` (`known` only remembers) | tasks, plans and links people changed; what a check did not do to which task, for a failure or a restart, step by step |
| `GraphitiBridge` | `adrift` | a renewal that itself failed |
| `Presence` | `hurried` | a message sent while the last one's handler waits |

## 3. Runs

All configurations are instances of the `MC...` modules.  Three runs check several
modules side by side, because the parts share no rows: a variable says which part a
behaviour belongs to (`part` in `MCServices`: tree, decisions, oauth, links, criteria,
sharing, copies, intentions, loops, homes, learnings; `part` in `MCLive`: context,
presence, bridge; `view` in `MCPlanQueries`: queries, rollup, goal), and a part's
states are those the module reaches alone.  Symmetry is used only for safety
properties.  `CHECK_DEADLOCK FALSE` is set where the number of requests is bounded,
so that the system really stops.

| Run | Instance | Question and answer |
|---|---|---|
| `WorkSessionLease` | 1 task, 2 users with a label each, 2 requests, 3 rows, 3 instants, leases of -1 and 1 ticks | Whatever the interleaving: one active claim (`ExclusiveClaim`), the table implements abstract leases (`ImplementsLease`), live claims end only by a matching release (`LeaseNotStolen`), a collision reported by the retry is real (`NoSpuriousCollision`) |
| `WorkSessionProgress` | the same with a request that may die anywhere, under fairness | a claim of a free task ends with a new row, whatever was left behind (`LockFreeClaim`) |
| `WorkSessionLocked` | the same with the installed driver's errors | **violated**: the first expired lease locks the task |
| `Propagation` | 6 nodes (one created later), 3 operations, 2 requests, 2 callbacks, failures and restarts | acts are justified (`UnblockJustified`, `CompletionJustified`), quiet and clean means settled (`Settled`) |
| `PropagationWakes` | 5 nodes, two blockers in one phase, 2 concurrent callbacks, under fairness | no lost wake-up of a blocked task (`WakesTarget`) or a phase (`CompletesParent`) |
| `PropagationFinish` | the same with work sessions | **violated**: a blocker finished in a session unblocks nothing |
| `Dependencies` | 3 nodes, all edges, 5 batches, 2 requests at a time, 3 in all, 3 connections | checks stay true (`CheckStillHolds`), cycles come only from races (`AcyclicUnlessRaced`), requests end (`RequestEnds`) |
| `Queries` | 2 tasks and a milestone in every status, a phase, a task of another plan, 3 of 11 edges, 3 trees, impact to depth 2; every plan of 5 nodes; a goal with up to 3 plans | what the pure computations return is what their definitions ask for, and they agree with each other |
| `Services` | 2 concurrent requests in each of 11 parts, crashes included | what each service promises, up to the named races |
| `Live` | the parts that live in memory, under fairness | nothing stale, nothing lost, everything ends, up to the named races |
| `DependencyBatch` | one batch | **violated**: a batch with a cycle in it is committed |
| `DependencyPool` | 2 batches, 2 connections | **violated**: both wait for a third connection for ever |

What the properties of the composed runs say.

| Property | Says |
|---|---|
| `Settled` | `PlanSettled` and `TreeSettled`: with nothing in flight and nothing `dirty`, the plan's status and its containers' and blocked tasks' statuses follow from the tasks |
| `DepthFirst` | the document order is a depth-first walk that loses no node |
| `ScheduleLayered` | schedule and suggestions agree with each other and with what blocks what |
| `WorkToOffer` | who is sent away: without cycles, an agent gets nothing exactly if it has nothing to resume and all open work is idle (blocked, begun, set aside or claimed) or waits, over any number of edges, for work that is |
| `WalksExact` | `CycleCheckExact`, `ImpactExact`, `GoalPathExact`, `ImpactIsDownstream`: the path queries equal reachability (to the depth asked for) |
| `CriticalExact` | `CriticalLongest`, `BriefedChainTrue`: the critical path is a longest chain, the briefed one exists |
| `RollupTruthful` | `ContainersTruthful`, `RootMatchesProgress`, `ListMatchesDetail`: tree, page and index tell one story |
| `VerdictsAgree` | `SurfacesAgree`, `HealthHonest`: the surfaces judge a goal alike, pending decisions but for phases included, and one is called on track only on evidence |
| `TreeSound` | `PlacedLast`, `ReorderExact`, `LoopsExplained`: positions are as asked, a loop of parents comes only from a move under oneself or overlapping moves |
| `ToldTheOutcome` | the outcome a caller was told is the row's, unless two callers had both found it pending |
| `SpentOnce`, `DisconnectEndsAccess` | a grant yields one token set; after a disconnect nothing is valid |
| `TasksContribute` | every task of a linked plan has its achiever edge |
| `AchievedWhenMet` | a goal whose criteria are met is closed |
| `AccessSound` | `SharingSound` (`RemovedStaysOut`, `RanksKept`), `ListedIsOpen`, `PublicIsPublic` |
| `PlansWhole` | `CopyWhole`; `IntentionSound` (`LinkedWhole`, `AnsweredTrue`): a copy or intention reported as done has all nodes, parents and edges, and the answer is what was stored |
| `LoopSound` | at most one running loop per plan, iterations in order, within their limit |
| `HomesSound` | `HomeForAll`, `OneDefault`: every account can file a plan, an organization has one default workspace |
| `LearningSound` | `MarksExplained`, `ConflictsMarked`, `NoneMissed`: a marked task counts as a conflict in the coverage and the other way round, and what a check could find it marks, each unless the very step failed for that task |
| `CachedStatusCurrent` | a cached context shows no status older than the last announced change, but for overlapping assemblies |
| `NotesLostOnlyByRaces`, `ResearchCompacted` | metadata is overwritten only by overlapping writers; completed research is compacted in the end |
| `PresenceSound` | `PresenceTruthful` always; `TypingEnds` |
| `BridgeSound` | the bridge implements `OnceOnly`; `NeverTwice` always; `GetsThrough` in the end |

Why the bounds are enough.  *WorkSession*: claims of different tasks meet only in
`RowsOf`/`Unreleased`, which select by task, so one task shows every interaction
(the theorems remove the bound); two requests give every pairwise race, three rows
an expired one, its successor and a rival; three instants let a lease expire before,
at and after each step.  *PlanRollup*: five nodes allow a phase in a phase, an empty
phase and siblings of both kinds.  *StatusPropagation*: two blockers in one phase
with a common dependant is the smallest graph in which two callbacks have to meet,
both in unblocking and in completing; three operations are two completions and a
disturbance; two callback slots let two overlap, and a queued third waits.
*DependencyGraph*: three nodes allow a cycle through a node neither of two
requests names; two requests show every pair, a third operation lets a slot be used
again after a commit; the pool of `Dependencies` is one larger than the number of
requests, which is when `bulkCreate` cannot starve.  *PlanQueries*: the three pieces of work
have between them every status, blocked and begun ones included (`StatusesOf`; the task of
the other plan stays open); three edges give
a cycle of two with a task behind it, a cycle of three, and a chain that leaves the
plan; depth 2 makes the depth limit bite (it is 20 in the code).  *GoalReports*:
`MaxChanges` changes reach every kind of row (a plan archived, a task finished, a
phase or a task that waits for a decision) in pairs and triples; `OutcomeLag` is the code's 30 points, and
`PlansSeen` 2 instead of 5, so that a goal with three plans has more than are searched.

*Services* (about a million distinct states): two requests give every pairwise race;
a third operation after them (`MaxEdits`, `MaxShares`, `MaxReviews`, `MaxTies`, ...)
sees what the race left.  Node tree: six ids, two starting trees, so that a list of
siblings to reorder, a node to move and two places to move to exist.  Decisions: a
second decision shows that requests do not touch each other's.  OAuth: three grants
are a code, its refresh token and that one's successor; the second connection is
what a disconnect must leave alone.  Goal links: three tasks in a linked and an
unlinked plan, two goals of which one is linked from the start.  Criteria: one of
each kind.  Sharing: owner, member of the organization, outsider.  Copies and
intentions: one copier and one planner, since two of them share no row; what they
can meet are the edits of others (`MaxAlters`, `MaxMeddles`).  Knowledge loop: a
convergence window of 2 (3 in the code is the same arithmetic), three iterations as the
limit, two runs.  Homes: two accounts that meet in a team, two workspaces beside the
personal one.  Learnings: two tasks on one subject, in two plans of which one or both are
active at first.  The first learning is checked (`MaxChecked`), by two checks that may
overlap on one task; with it comes one thing more (`MaxLessons`): a change by somebody, or a
failure or restart at any statement, to see what each leaves behind, or another learning
afterwards (`MaxAtOnce`; the theorem has none of these bounds).  *Live*: a cache of
two entries holds two contexts of one task or of two, and the third evicts; a time to live
of one tick; two
sockets of one user are what the maps keyed by user confuse; five sessions are the
first one and one per forgetting, loss and repetition.

Fairness.  A request's or callback's next statement is eventually executed
(weak fairness of `Step`, `ReqStep`, `JobStep`): Node's event loop resumes every
settled await and PostgreSQL answers.  `Deliver` is weakly fair because the bus
reads its connection continuously.  In `DependencyGraph` the steps are strongly
fair: the pool hands a connection to waiting queries in order of arrival, so a
query for which a connection becomes free again and again is served.
`ContextFairness` is that of assemblies, compactions and delivery; `PresenceFairness`
that of the handlers' continuations and the timers; `BridgeFairness` says that every
request to the sidecar is answered or times out (the bridge sets a timeout on each)
and that the call goes on.  Nothing makes clients send requests, and neither `Tick`,
`Abort`, `Fail`, `Restart`, `Forget` nor `Lose` is fair.  Liveness properties are
about requests in slots that do not die.

## 4. Proofs

All proofs are checked by TLAPS to the last leaf.  Their assumptions are the named
ASSUMEs of the modules, which TLC evaluates in the runs; they say of the constants
what the code's data are: ids are not the null value, roles are the roles there are,
limits are natural numbers, and

- `NTAssumption`: a plan starts as a tree, and ids are given out in order (`Fresh`);
- `CopiesAssumption`: in the plan that is copied no two nodes under one parent have
  one title (the unique index `plan_nodes_unique_title_per_parent`);
- `IntentionsAssumption`: a node of an outline comes after its parent, as
  createIntention's walk meets them;
- `HomesAssumption`: organizations of accounts are not those of teams, and there are
  finitely many workspaces (the code looks for the former by a slug made of the first eight
  characters of the account's id; that these are distinct, and no team has such a slug, is
  assumed and not enforced, section 5);
- `QueriesAssumption`: the six nodes of the plan differ, edges weigh the same (with
  unequal weights the code does not find the longest chain, section 5) and none leaves
  the root of a plan;
- `GRAssumption`: execution may run ahead of attainment by some points, and at least
  one plan of a goal is searched for bottlenecks;
- `RollupAssumption`: a plan has at least its root.

| Module | Proves | About |
|---|---|---|
| `WorkSession_proofs` | `TypeCorrect`, `MutualExclusion`, `NoTheft`, `Refinement`, `HonestCollision` | `WorkSession` |
| `StatusPropagation_proofs` | `TypeCorrect`, `UnblocksOnFacts`, `CompletesOnFacts`, `HundredMeansDone`, `CompleteMeansDone`, `ComesToRest` | `StatusPropagation`, `PlanRollup` |
| `DependencyGraph_proofs` | `TypeCorrect`, `ChecksHold`, `CycleFreedom` | `DependencyGraph` |
| `Queries_proofs` | `WalksAreExact`, `CriticalPathsAreExact`, `ScheduleIsExact`, `OrderIsDepthFirst`, `SuggestionsAreFirstLayer`, `ThereIsWork`, `HealthIsHonest`, `SurfacesTellOneStory`, for every state; `QueriesAreExact`, `CriticalPathsAreLongest`, `SchedulesAreExact`, `OrdersAreDepthFirst`, `SuggestionsFollowSchedule`, `AgentsFindWork`, `OneVerdictOnAGoal`, `OneStoryOfAPlan`, of `Spec` | `PlanQueries`, `PlanRollup`, `GoalReports`, `MCPlanQueries` |
| `Plans_proofs` | `TreesAreSound`, `CopiesAreWhole`, `IntentionsAreWhole`, `SharingSoundness`, `DoorsAgree`; types | `NodeTree`, `PlanCopies`, `Intentions`, `PlanSharing`, `PlanDoors` |
| `Stores_proofs` | `OutcomeFinal`; `OneTokenSet`, `NoReturn`; `EveryTaskContributes`; `MetGoalsClose`; `LoopSoundness`; `LearningSoundness`; `HomesAreKept`; types | `DecisionQueue`, `OAuthStore`, `GoalLinks`, `GoalCriteria`, `KnowledgeLoop`, `Learnings`, `Homes` |
| `Live_proofs` | `CacheIsCurrent`, `NotesSafe`, `PresenceIsTruthful`, `BridgeImplementsCalls` | `TaskContext`, `Presence`, `GraphitiBridge` |
| `Services_proofs` | `ServicesTypeCorrect`, `NewPlansAreWhole`, `AccessIsSound` | the composition `MCServices` |

Every invariant that a passing run checks is a theorem, and every action property is
one or has its safety half proved (`PresenceSound`, `BridgeSound`).  Types are proved with
the invariants; what follows is why each property needs more than itself.

**`WorkSession`** — for any tasks, users, labels, requests, lease times
and either kind of driver error.  `TypeCorrect` is inductive by itself.
`MutualExclusion` is not: two active rows could come from an *expired*
unreleased row beside an active one.  The invariant `OneOpenRow` (at most one
*unreleased* row per task, expired or not) is what the unique index maintains and
implies it.  `TableStep` shows that a step changes the table in one of three
ways (an insert, a sweep, a release), so every later proof has three cases.
`NoTheft`: a sweep releases only rows with `expires_at <= now`, which are not
active.  `Refinement`: an insert is a grant (by `OneOpenRow` nothing was held), a
sweep, a release or a tick only ends leases, all else stutters.
`HonestCollision` needs the longer invariant `IInv`: once `CheckExisting` has
found no active claim, all rows the request knew of are over and stay so
(`OldRowsOver`; time does not run backwards, `ClockStep`), and after the sweep they
are released; hence a row that makes the retry fail is new.

**`PlanRollup`** — `HundredMeansDone`: for fewer than 200 work nodes the
rounded percentage is 100 exactly if all of them are completed; `CompleteMeansDone`
lifts it to `IsComplete` for any finite plan.  From 200 on the statement is false.

**`StatusPropagation`, what a callback relies on** — for any tree, edges, requests
and number of concurrent callbacks.  Neither `UnblockJustified` nor
`CompletionJustified` is inductive: at the write the callback relies on what it read
several awaits earlier.  The invariant `Judged` says of every program counter what the
callback has found out by then (`StillTrue`: the target was blocked, the blockers
ticked off are completed, the siblings are completed, the parent is not the root) and
that it still holds except for the nodes in `touched`.  The lemmas go by the kind of
step: `TouchedOK` for a callback that watches somebody else's write, `QuietStep` for
one that reads, `WriteStepOK` for one that writes, `OutsideOK` for requests.  That no
id is used twice (`gone`; the ids are random UUIDs) is needed: a target that is
deleted while its blockers are listed and then comes back would be unblocked
without a look at its blockers.

**`StatusPropagation`, what a callback leaves** — `ComesToRest`: no interleaving of
requests, events and callbacks loses a reconciliation that something depends on.
`Settled` speaks only of states in which nothing is in flight.  The invariant
`Attended` says it of all: whatever does not yet follow from the tasks is *watched*
(`Watched`).  A plan status that disagrees with its rollup is watched by an event in
the queue, a request that is about to publish one, or a callback that will still
compare (`PlanWatched`); a blocked task whose blockers are all completed by the event
of one of them, or by a callback that will list it or has yet to look at it
(`TaskWatched`); a container whose children are all completed by the event of one of
them or by a callback that has not yet closed it (`ParentWatched`).  The argument is
about the *last* of several completions: its event is there when the others already
count.  `CallbackStep` is the lemma that a callback hands on what it watches
(`Carries`) when it goes on.  The theorem has three hypotheses.

- The plan is settled at first.  A plan stored otherwise stays so until somebody
  writes to it; nothing reconciles it.
- `Separate`: requests do not write `blocked`, and write no containers.  Without it
  the statement is false, and the counterexamples are the code's: a task that is
  blocked by hand after the last of its blockers was completed, or a phase reopened
  by hand above completed tasks, waits for an event that will not come.
- `SmallPlan`: fewer than 200 work nodes, below which rounding does not matter.

The run `Propagation` satisfies them.

**`DependencyGraph`** — for any nodes, batches, requests and pool size.
Reachability is defined by closed sets, not by paths, so that facts about it
need no induction; `AddEdgeAcyclic` is the correctness of `wouldCreateCycle`
(an edge whose source is not reachable from its target closes no cycle).  The
inductive invariant is `IInv == TypeOK /\ AcyclicUnlessRaced /\ Covered`:
`Covered` says of every checked request that its edge closes no cycle in the
committed graph *without what others committed since* (deletions keep that, by
monotonicity; commits enter `fresh`).  At the insert either `fresh` is empty, and
the check covers the edge, or the edge is marked `raced`.  `ChecksHold` and
`CycleFreedom` follow.

**`PlanQueries`, walks and chains** — for any number of nodes and edges, in any state.
What a recursive query returns is proved without an induction theorem: its recursion is
given a closed form (the walks of so many steps, the walks that enter no node twice),
the closed form is shown to satisfy the recursion and, by a least counterexample, to be
its only solution, and the property is proved of the closed form.

- `WalksAreExact`: a query cuts a path where it meets itself, or at a depth; nothing is
  lost, because a shortest walk enters no node twice.
- `CriticalPathsAreExact`: the search of `getCriticalPath` starts only where nothing
  open blocks, which loses nothing because a longest chain starts there too: else one
  more node could come before it.  On a graph with cycles `computeCriticalPath`
  still returns a chain that repeats nothing.  Its edges weigh the same.
- `ScheduleIsExact`, the half `LayersExact` of `ScheduleLayered`: what Kahn's algorithm has
  taken out after k rounds is what no walk of k open edges leads to (`Still`), and the
  degrees it counts down are the edges from the rest (`NextRound`).  A walk of more edges
  than there are open tasks goes round (`LongWalkGoesRound`), so that exactly the tasks on
  a cycle or behind one are left at the end.

**`PlanQueries`, what is offered** — for plans of any size.  Sequences are joined and
filtered with `FlattenSeq` only, whose recursion has a closed form too (`FlattenHolds`: what
is joined, in which order), and `Keep` and `Ranked` stand for filter and stable sort.

- `OrderIsDepthFirst`: the walk of `buildDocumentOrder` is `Sorted` by `Precedes` (a node
  comes before what is below it, and all at or below a sibling before all at or below a
  later one), by a least counterexample in the height of a node.  `Treed` is the
  hypothesis: the rows form trees, given by a height that falls from parent to child,
  and a node whose parent was deleted has no children left in the plan.  With children
  the statement is false: the code appends what it has not reached in the order of the
  rows, where a child may come first.
- `SuggestionsAreFirstLayer`, the other half of `ScheduleLayered`: `suggestNextTasks` asks
  whether every blocker is completed, `topologicalSort` whether an open one is left.
- `ThereIsWork`: an agent is sent away exactly if all open work is idle or waits for
  work that is, whatever statuses, claims and edges are.  The open work that waits for
  nothing idle is closed under what blocks it, and without a cycle some of it is in the
  first layer of the schedule (`FirstOfTheUnspoilt`); being not idle it is suggested.
- `QueriesAreExact`, `CriticalPathsAreLongest`, `SchedulesAreExact`, `OrdersAreDepthFirst`,
  `SuggestionsFollowSchedule` and `AgentsFindWork` add what the rows are like in every
  reachable state (`PlanInv`: the tree is one of `Trees`, an edge joins two different
  nodes).  The plan there has the six nodes of the run;
  the edges that may be created and how many there are at once are not bounded.

**`GoalReports`** — `HealthIsHonest` and `SurfacesTellOneStory`, for any goal, plans, tasks
and edges (`Worldly`).  `RankedHolds` is the correctness of the stable sort: the place of
an element is how many come up to it, and no two have the same (`PlacesAre`).
`BottlenecksAre` and `WorstAre` follow: what is named first holds something up, and
something is named as soon as anything does, in one of the plans that are searched.
That is at most `PlansSeen` of them, five in the code: a goal with more can be on
track although a task of the sixth blocks (section 5), hence the condition in
`HealthHonest`.  That full coherence means nothing blocked, and a full page nothing left
to do, needs fewer than 200 nodes, because of rounding (`NothingIsZero`, `RatioIsZero`,
`HundredMeansDone`).  The dashboard's pending decisions are those of the briefing without
its phases, because phases and tasks are different nodes.  `OneVerdictOnAGoal` is about every reachable state (`WorldInv`),
with no bound on the number of changes.

**`PlanRollup`, what is shown** — `OneStoryOfAPlan`: for any tree of up to 200 nodes.
`ByWork` (has work below; all of it is completed) solves the recursion the code runs
bottom up, and is its only solution (`OneSolution`), by going along the order of
creation: a parent is older than its children.  Page and list count the same rows in
two ways (`ListsMatch`), and 100% means done by the arithmetic of `HundredMeansDone`.
Two hypotheses: no sub-tasks under work nodes, which the summary ignores (section 5),
and `Size <= 200`, that is at most 199 work nodes beside the root.

**`NodeTree`** — for any initial trees, labels and requests.  `PlacedLast` and
`ReorderExact` need what a request carries between its statements: that the position
it is about to write is beyond those of the siblings (`Placed`), that the order it
works through enumerates the siblings, the first ones already numbered and the others
as they were read (`Ordered`), each unless others touched the siblings.  `LoopsExplained`
needs that the parents form a tree (`Straight`: every set of nodes has one whose
parent is outside) and, of a move that is not to be blamed, that a set of nodes holds
the new parent and all above it but not the moved node (`Clear`).  Closed sets take
the place of paths once more.  `Apart`: nobody speaks of a row before it is inserted.

**`PlanCopies`** — for any plans, captions and copiers.  `ForkAt` says which rows,
parents and edges are stored at each of the three passes.

**`Intentions`** — for any outlines.  `StoredSoFar` follows the nodes up to the link
to the goal, `Achieving` the cascade, `Depending` the dependencies: each one asked for
is there or has the reason for which it is not.  `ResolvedIsCalled` is the correctness
of `resolveRef`: what it finds bears the reference or is the only node of that title.

**`DecisionQueue`** — for any decisions, answers and requests.
`ToldTheOutcome` is not inductive: between the resolving UPDATE and the notification
the answer is only in the request's slot (`Telling`), and whoever is about to write
must still hold a row that was pending (`Checked`); `Rows`, `Slot` and `ToldAsked`
are the types and that ids are not used twice.  `DecisionInv` is their conjunction.

**`OAuthStore`** — for any connections, grants and requests.  `OneTokenSet`
and `NoReturn` need what a request in the middle of an exchange may rely on: the
grant it issues from is dead before it issues (`Spent`), two requests that hold one
grant have grabbed it (`Alone`, `Used`), and a cleanly disconnected client has
neither a live grant nor a request that could issue one (`CutOff`).

**`GoalLinks`** — for any goals, plans, tasks and requests.  The two cascades
run against each other: a link looks for tasks, a task looks for links.
`EveryTaskContributes` holds because each writes its own row *before* it reads the
other's, so that whichever comes second sees the first; `Owed` says which edges a
request still has to see to, and the lemmas `OwedAt`, `OwedNext` and `OwedKept` that
a step hands on what it owes.

**`GoalCriteria`** — for any set of criteria.  A request judges by the row it
read; unless somebody wrote in between, that is the row it writes to
(`RowIsCurrent`).  `FullAttainment` uses the same arithmetic as `HundredMeansDone`: the
rounded percentage of a full set is 100 however large it is.

**`KnowledgeLoop`** — for any requests and limits.  Iterations are read, extended in
memory and written back.  `RunKept`: on a run that is not muddled one request works at
most, and what it holds is still what the row says, so that it appends the number that
is due (`Extends`).  `OneRunning`: a start that found no running loop is alone.

**`Learnings`** — for any tasks, plans, subjects and requests, and any number of failures
and restarts.  `MarksExplained` and `ConflictsMarked` need `NowMarked`: while a check is
between its two statements, the first was carried out or failed for this task; two checks
may be there at once.  `NoneMissed` needs `LessonOwed`: for every superseded fact and every
open task about it in an active plan, the task is marked, a check is under way that will
mark it (`WillMark`), or that check failed to (`Missed`).

**`PlanSharing` and `PlanDoors`** — for any users, guests and requests.  That a removed
collaborator stays out needs that no invite of theirs is left and that an invite used
up is being dropped (`Barred`); that ranks are kept, that what a request is about to
write was decided on the membership as it is (`Ranked`).  `DoorsAgree` then compares
the queries that list with those that open, case by case (`AccessFacts`).

**`Homes`** — for any accounts, teams, workspaces and requests.  `HomesInv` says how
much of a provisioning each request has done (`Fits`), that nobody who has an account
is without a home and without a request that provides one (`Homed`), and that an
organization which was not crossed has one default or one request that is about to
create it (`Single`).

**`TaskContext`** — for any tasks, requests and size of the cache.  `Truthful`: what a
cached context, *or one that is being assembled*, shows of a task is its status, or an
event about it is in the bus, or its writer is about to publish (`Shown`).
`NotesSafe` is an action property: by `ContextShape` a writer that nobody overtook
holds the metadata the row still has, so that what it writes back loses nothing.

**`Presence`** — for any sockets, users and handlers.  `Vouched` and `Listed`: everyone
listed has a socket that is on the plan or about to be, and a user with one socket is
listed where it is or goes.

**`GraphitiBridge`** — for any number of callers.  `BridgeImplementsCalls` is the
safety part of the refinement of `OnceOnly`: every step of the handshake is a step of
`Calls` or stutters.  `Spent` counts the executions: a call is repeated only after an
answer that says it was not carried out.

**`MCServices`** — the composition has one behaviour per component (`TreeRuns`,
`HomesRuns`, ...: it implements each component's specification, since no two share a
variable), so that each theorem carries over; `ServicesTypeCorrect`,
`NewPlansAreWhole` and `AccessIsSound` do this for the properties stated of the
composition.

**Only model-checked.**  Liveness (`LockFreeClaim`, `WakesTarget`, `CompletesParent`,
`RequestEnds`, `ResearchCompacted`, `TypingEnds`, `GetsThrough`): fairness and ENABLED
are beyond the prover.  So are `PresenceSound` and `BridgeSound` as far as they are about
liveness.  `CompletionUnblocks` and `NoCycle` are violated (section 5).

## 5. Findings

`PROJECT.json` quotes the texts and names the lines.  With a run that shows it:

- an expired claim is never recovered with the installed driver
  (`WorkSessionLocked`);
- the result of a work session is not announced, so that nothing is unblocked
  (`PropagationFinish`);
- a batch of dependencies may contain a cycle (`DependencyBatch`);
- as many batches as the pool has connections wait for ever (`DependencyPool`).

Met while modelling, and allowed for in the models:

- *Claims*: sessions that start on a task completed meanwhile; releases by label that
  end another user's claim; expired sessions that still finish; claims that cannot be
  renewed.
- *Tree and dependencies*: a node moved under itself; deleted nodes leaving orphans;
  concurrent edges closing a cycle; duplicate titles not recognised by their error
  code.
- *Statuses*: late writes by `maintainPlanStatus` and by the unblocking loop; updates
  that cross and are not announced; sub-tasks ignored by the summary; unknown statuses
  counted differently; 199 of 200 tasks completing a plan.
- *Queries*: blockers of other plans ignored by suggestions; a critical path that
  weighs its first edge twice and may end with a completed node; a ranking other than
  documented; an error that blames dependencies when the tasks are claimed, and one that says there is
  no work when tasks are blocked, milestones begun or planned tasks wait;
  bottlenecks counted by direct edges, and only in the first five plans of a goal, so
  that its health overlooks those of a sixth; children of a deleted node listed before
  their parent; quality scores that count edges of every type
  and divide by the wrong plan's tasks.
- *Context*: a context assembled between a completion and its compaction is cached as
  it was before.
- *Decisions and grants*: two resolutions both told that they won; one-time codes
  under READ COMMITTED; expired codes that nothing deletes.
- *Goals*: cascades that meet break off; linking a linked plan again fails; RPI tasks
  get no achievers; reports that count archived plans; goals that can become their own
  ancestors; pending decisions counted twice; phases that wait for a decision, pending in a goal's
  briefing and coherence and not in its dashboard.
- *Access*: invites that never convert on registration; acceptance that lowers a role;
  unlisted plans that open for nobody but their members; private plans that their
  organization may edit; public lists cut at fifty; views counted for private plans.
- *Copies and intentions*: forks that ask for a column that does not exist, or stumble
  over equal titles; references that collide; a dependency batch that is
  all-or-nothing though the answer says "some"; an idempotency key without effect.
- *Homes*: accounts from a provider without a home; provisioning that stops half way
  and is not resumed; any workspace called `default` taken for the default; two
  defaults at once; a slug that changes when it is set to itself; personal organizations
  looked up by the beginning of an id.
- *Knowledge*: two loops started at once; a stopped loop that completes; learnings
  linked to a namesake's or to a pending id for ever, reported as recorded when they
  were not, never checked, or checked before they were taken in; checks that outlive
  their timeout, look at no draft plan, or leave a mark without its link or a link without
  its mark; conflicts that stay after a person has settled them; a bridge without
  a session after a renewal that failed, or when the sidecar was down at the start.
- *Presence*: maps keyed by user, which a second socket overwrites; typing timers that
  are not cancelled.

## 6. Plan

Done, in this order: the leases (the promise other agents rely on), rollup and
propagation (the state everybody sees), the dependency graph, the queries that hand
out work; then the services: node tree, context engine with compaction, decisions,
OAuth store, goal links and criteria, reports on goals, sharing and doors, copies and
intentions, knowledge loop, learnings and bridge, presence, homes.

Then the theorems: first of the leases, the propagation and the dependency graph, then
of each service, of the propagation at rest, and of the composition.

Left:

1. Composition: the agent loop across `WorkSession`, `StatusPropagation` and
   `TaskContext` in one instance, small enough for TLC, with the proof that each
   component's theorems carry over as in `Services_proofs`.
2. A variant of `DependencyGraph` whose checks run inside the transaction, with the
   proof that its batches are acyclic, to compare with `DependencyBatch`.

## 7. Not modelled

External services (graph database, language model, mail, webhooks, the identity
providers) but for what the bridge assumes of the sidecar; PostgreSQL beyond atomic
statements, unique indexes, foreign keys, transactions and the pool.

Rate limiting, integrations, mail and webhooks: calls to libraries and services, whose
state is not this repository's.  Search, statistics, activity:
read-only queries whose results nothing else depends on.  Quality scores: read-only
arithmetic over a plan; the one that depends on them, the knowledge loop, takes any
score here.  Sign-in itself (passwords,
tokens, sessions) is the work of libraries; what an account gets is `Homes`.

The mapped lines are about a fifth of the implementation.  Most of the rest changes no
state: the route files consist largely of OpenAPI comments, and there are the schemas of
tables and messages, validation, formatting of responses and context texts, logging,
read-only queries, command line tools and test suites.  Mapping these lines would say
nothing about them.  `PROJECT.json` says of each component what is left out of it.
