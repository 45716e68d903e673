---------------------------- MODULE TaskContext ----------------------------
(***************************************************************************)
(* What an agent is told about a task: the context engine with its cache,    *)
(* and the compaction of finished research into the metadata of its node.    *)
(*                                                                         *)
(* Both listen to node.status.changed.  The invalidation of the cache runs    *)
(* at once when an event arrives; a compaction reads, and writes back, across *)
(* awaits; so does the assembly of a context, which ends by caching it.       *)
(***************************************************************************)
EXTENDS Slots, Integers, SequencesExt

CONSTANTS
  Task,        \* tasks, siblings if of the same plan
  PlanOf,      \* PlanOf[t]: plan_id
  Research,    \* the tasks with task_mode research or plan
  Worker,      \* at most this many compactions run at once
  Statuses,    \* the statuses used
  MaxNotes,    \* bound: metadata updates per task
  Variant,     \* what else a context is cached by: depth, budget, limit of the log, organization
  TaskFocus,   \* the variants of depth 1
  MaxEntries,  \* CACHE_MAX_ENTRIES
  Ttl,         \* CACHE_TTL_MS, in ticks
  MaxCalls,    \* bound: number of requests
  MaxClock     \* bound: number of ticks

ASSUME ContextAssumption ==
  /\ Research \subseteq Task /\ Nil \notin Task \cup Statuses
  /\ TaskFocus \subseteq Variant /\ Nil \notin Variant
  /\ Nil \notin [note : Nat, compacted : BOOLEAN]
  /\ MaxEntries \in Nat \ {0} /\ Ttl \in Nat

VARIABLES
  card,    \* the rows: [Task -> [status, note, compacted]]
  found,   \* the tasks that have a decision, reasoning or challenge in their log
  cache,   \* contextCache in insertion order
  bus,     \* node.status.changed events not yet delivered
  call,    \* the request in each slot
  shrink,  \* the compaction in each worker slot
  clock,   \* Date.now()
  calls,   \* requests so far (bounded by MaxCalls)
  silent   \* history: the tasks whose status was changed without an event

contextVars == <<card, found, cache, bus, call, shrink, clock, calls, silent>>

(* In a row, note is the version of the client's metadata, and compacted: is *)
(* metadata.compacted_context there?                                        *)

(* old: the row that requireNode read; new: what the client wants, Nil if    *)
(* left alone; seen: the statuses read so far; raced: history, was the plan   *)
(* invalidated, or the metadata written by others, since this call read?      *)
NoCall   == [pc |-> "idle", task |-> Nil, variant |-> Nil, old |-> Nil, status |-> Nil, meta |-> Nil,
             seen |-> Nil, raced |-> FALSE]
NoShrink == [pc |-> "idle", task |-> Nil, row |-> Nil, raced |-> FALSE]

CallAt(r, p)   == call[r].pc = p
CallGoto(r, p) == call' = [call EXCEPT ![r].pc = p]
CallDone(r)    == call' = [call EXCEPT ![r] = NoCall]

Siblings(t) == {s \in Task \ {t} : PlanOf[s] = PlanOf[t]}

ContextInit ==
  /\ card = [t \in Task |-> [status |-> "in_progress", note |-> 0, compacted |-> FALSE]]
  /\ found = {} /\ silent = {}
  /\ cache = <<>> /\ bus = <<>>
  /\ call = [r \in Request |-> NoCall]
  /\ shrink = [w \in Worker |-> NoShrink]
  /\ clock = 0 /\ calls = 0

-----------------------------------------------------------------------------
NewCall(r, rec) ==
  /\ call' = [call EXCEPT ![r] = rec]
  /\ calls' = calls + 1

MayCall(r) == CallAt(r, "idle") /\ calls < MaxCalls

(* updateNode: the row is read; the client sends a status, or whole metadata  *)
(* of its own, in which it keeps the compacted context or not.                 *)
StartUpdate(r) ==
  /\ MayCall(r)
  /\ \E t \in Task :
       \/ \E s \in Statuses :
            NewCall(r, [NoCall EXCEPT !.pc = "write", !.task = t, !.old = card[t],
                          !.status = s])
       \/ \E keep \in BOOLEAN :
            /\ card[t].note < MaxNotes
            /\ NewCall(r, [NoCall EXCEPT !.pc = "write", !.task = t, !.old = card[t],
                             !.meta = [note |-> card[t].note + 1,
                                       compacted |-> keep /\ card[t].compacted]])
  /\ UNCHANGED <<card, found, cache, bus, shrink, clock, silent>>

(* The calls and compactions that work on the metadata of t learn of a write. *)
Overwritten(f, t) ==
  [x \in DOMAIN f |-> IF f[x].task = t /\ f[x].pc # "idle"
                      THEN [f[x] EXCEPT !.raced = TRUE] ELSE f[x]]

(* updateNode: UPDATE with the fields that are given; an event is due if the   *)
(* status differs from the one read                                            *)
WriteUpdate(r) ==
  LET q == call[r]
      t == q.task
      due == q.status \notin {Nil, q.old.status}
      fresh == IF due THEN [q EXCEPT !.pc = "publish"] ELSE NoCall
  IN  /\ CallAt(r, "write")
      /\ IF q.meta = Nil
         THEN /\ card' = [card EXCEPT ![t].status = q.status]
              /\ call' = [call EXCEPT ![r] = fresh]
              /\ silent' = IF ~due /\ card[t].status # q.status
                           THEN silent \cup {t} ELSE silent
              /\ UNCHANGED shrink
         ELSE /\ card' = [card EXCEPT ![t].note = q.meta.note,
                                      ![t].compacted = q.meta.compacted]
              /\ call' = [Overwritten(call, t) EXCEPT ![r] = fresh]
              /\ shrink' = Overwritten(shrink, t)
              /\ UNCHANGED silent
      /\ UNCHANGED <<found, cache, bus, clock, calls>>

PublishChange(r) ==
  /\ CallAt(r, "publish")
  /\ bus' = Append(bus, [task |-> call[r].task, new |-> call[r].status])
  /\ CallDone(r)
  /\ UNCHANGED <<card, found, cache, shrink, clock, calls, silent>>

(* A work session, and a propagation (propagateStatus), writes the status and  *)
(* announces nothing.                                                         *)
SilentWrite(r) ==
  /\ MayCall(r)
  /\ \E t \in Task : \E s \in Statuses \ {card[t].status} :
       /\ card' = [card EXCEPT ![t].status = s]
       /\ silent' = silent \cup {t}
  /\ calls' = calls + 1
  /\ UNCHANGED <<found, cache, bus, call, shrink, clock>>

(* addLogEntry with a decision, a reasoning or a challenge *)
AddFinding(r) ==
  /\ MayCall(r)
  /\ \E t \in Research \ found : found' = found \cup {t}
  /\ calls' = calls + 1
  /\ UNCHANGED <<card, cache, bus, call, shrink, clock, silent>>

-----------------------------------------------------------------------------
Fresh(e) == clock <= e.expires
Keys(c)  == {c[i].key : i \in DOMAIN c}

(* A Map from which keys are deleted keeps the others, those at the positions S, in   *)
(* their order: this set has one element.                                          *)
Kept(c, S) ==
  {[i \in DOMAIN f |-> c[f[i]]] :
     f \in {g \in [1 .. Cardinality(S) -> S] : \A i, j \in DOMAIN g : i < j => g[i] < g[j]}}

(* cacheGet: an expired entry is deleted *)
CacheGet(c, k) == Kept(c, {i \in DOMAIN c : c[i].key # k \/ Fresh(c[i])})

(* cacheSet: when the cache is full the oldest insertion goes, even if the key  *)
(* is there already; a key that is there keeps its place                        *)
CacheSet(c, e) ==
  LET room == IF Len(c) >= MaxEntries THEN Tail(c) ELSE c
  IN  IF e.key \in Keys(room)
      THEN [i \in DOMAIN room |-> IF room[i].key = e.key THEN e ELSE room[i]]
      ELSE Append(room, e)

(* Mutant: only the entry of the node itself is dropped. *)
InvalidatePlanContext_Own(c, t) == Kept(c, {i \in DOMAIN c : c[i].key.task # t})

(* invalidatePlanContext *)
InvalidatePlanContext(c, t) == Kept(c, {i \in DOMAIN c : PlanOf[c[i].key.task] # PlanOf[t]})

(* assembleContext: a hit on the same task, depth and so on is the answer *)
ReadContext(r) ==
  /\ MayCall(r)
  /\ \E k \in [task : Task, variant : Variant] : \E c \in CacheGet(cache, k) :
       /\ cache' = c
       /\ IF k \in Keys(c) THEN UNCHANGED call
          ELSE call' = [call EXCEPT ![r] = [NoCall EXCEPT !.pc = "node", !.task = k.task,
                                                          !.variant = k.variant]]
  /\ calls' = calls + 1
  /\ UNCHANGED <<card, found, bus, shrink, clock, silent>>

(* layer 1: the node; depth 1 has no other *)
ReadTask(r) ==
  LET t == call[r].task
  IN  /\ CallAt(r, "node")
      /\ call' = [call EXCEPT ![r].pc = IF call[r].variant \in TaskFocus THEN "store" ELSE "siblings",
                              ![r].seen = [s \in {t} |-> card[s].status]]
      /\ UNCHANGED <<card, found, cache, bus, shrink, clock, calls, silent>>

(* layer 2: its siblings *)
ReadSiblings(r) ==
  LET t == call[r].task
  IN  /\ CallAt(r, "siblings")
      /\ call' = [call EXCEPT ![r].pc = "store",
                    ![r].seen = Updated(@, [s \in Siblings(t) |-> card[s].status])]
      /\ UNCHANGED <<card, found, cache, bus, shrink, clock, calls, silent>>

(* the other layers, then the budget and the cache *)
StoreContext(r) ==
  LET q == call[r]
  IN  /\ CallAt(r, "store")
      /\ cache' = CacheSet(cache, [key |-> [task |-> q.task, variant |-> q.variant],
                                   seen |-> q.seen, expires |-> clock + Ttl, raced |-> q.raced])
      /\ CallDone(r)
      /\ UNCHANGED <<card, found, bus, shrink, clock, calls, silent>>

-----------------------------------------------------------------------------
(* The bus calls its two subscribers without waiting for either: a compaction  *)
(* begins if research was completed, and the plan's contexts are dropped.      *)
DeliverChange ==
  LET e == Head(bus)
      t == e.task
      Hit(q) == q.pc \in {"node", "siblings", "store"} /\ PlanOf[q.task] = PlanOf[t]
  IN  /\ bus # <<>> /\ bus' = Tail(bus)
      /\ IF e.new = "completed" /\ t \in Research
         THEN \E w \in Worker :
                /\ shrink[w].pc = "idle"
                /\ shrink' = [shrink EXCEPT ![w] = [NoShrink EXCEPT !.pc = "node", !.task = t]]
         ELSE UNCHANGED shrink
      /\ cache' \in InvalidatePlanContext(cache, t)
      /\ call' = [r \in Request |-> IF Hit(call[r]) THEN [call[r] EXCEPT !.raced = TRUE]
                                    ELSE call[r]]
      /\ UNCHANGED <<card, found, clock, calls, silent>>

(* Mutant: a task that was reopened is not compacted. *)
ReadForCompaction_Rechecks(w) ==
  /\ shrink[w].pc = "node"
  /\ shrink' = IF card[shrink[w].task].status = "completed"
               THEN [shrink EXCEPT ![w].pc = "logs", ![w].row = card[shrink[w].task],
                                   ![w].raced = FALSE]
               ELSE [shrink EXCEPT ![w] = NoShrink]
  /\ UNCHANGED <<card, found, cache, bus, call, clock, calls, silent>>

(* compactResearchOutput: findById *)
ReadForCompaction(w) ==
  /\ shrink[w].pc = "node"
  /\ shrink' = [shrink EXCEPT ![w].pc = "logs", ![w].row = card[shrink[w].task],
                              ![w].raced = FALSE]
  /\ UNCHANGED <<card, found, cache, bus, call, clock, calls, silent>>

(* no findings, nothing to compact *)
ReadFindings(w) ==
  /\ shrink[w].pc = "logs"
  /\ shrink' = IF shrink[w].task \in found THEN [shrink EXCEPT ![w].pc = "write"]
               ELSE [shrink EXCEPT ![w] = NoShrink]
  /\ UNCHANGED <<card, found, cache, bus, call, clock, calls, silent>>

(* Mutant: the compacted context replaces the metadata. *)
WriteCompacted_Replaces(w) ==
  LET t == shrink[w].task
  IN  /\ shrink[w].pc = "write"
      /\ card' = [card EXCEPT ![t].note = 0, ![t].compacted = TRUE]
      /\ call' = Overwritten(call, t)
      /\ shrink' = [Overwritten(shrink, t) EXCEPT ![w] = NoShrink]
      /\ UNCHANGED <<found, cache, bus, clock, calls, silent>>

(* The metadata that was read is written back with the compacted context. *)
WriteCompacted(w) ==
  LET t == shrink[w].task
  IN  /\ shrink[w].pc = "write"
      /\ card' = [card EXCEPT ![t].note = shrink[w].row.note, ![t].compacted = TRUE]
      /\ call' = Overwritten(call, t)
      /\ shrink' = [Overwritten(shrink, t) EXCEPT ![w] = NoShrink]
      /\ UNCHANGED <<found, cache, bus, clock, calls, silent>>

TickContext ==
  /\ clock < MaxClock
  /\ clock' = clock + 1
  /\ UNCHANGED <<card, found, cache, bus, call, shrink, calls, silent>>

CallStep(r) ==
  WriteUpdate(r) \/ PublishChange(r) \/ ReadTask(r) \/ ReadSiblings(r) \/ StoreContext(r)

ShrinkStep(w) == ReadForCompaction(w) \/ ReadFindings(w) \/ WriteCompacted(w)

ContextNext ==
  \/ \E r \in Request :
       StartUpdate(r) \/ SilentWrite(r) \/ AddFinding(r) \/ ReadContext(r) \/ CallStep(r)
  \/ \E w \in Worker : ShrinkStep(w)
  \/ DeliverChange \/ TickContext

(* The event loop resumes every awaited call and PostgreSQL delivers. *)
ContextFairness ==
  /\ \A r \in Request : WF_contextVars(CallStep(r))
  /\ \A w \in Worker : WF_contextVars(ShrinkStep(w))
  /\ WF_contextVars(DeliverChange)

ContextSpec == ContextInit /\ [][ContextNext]_contextVars /\ ContextFairness

-----------------------------------------------------------------------------
(* A cached context shows the present status of the task and of its siblings, *)
(* although statuses change while contexts are assembled, except where the     *)
(* event of the change is still to come, no event was sent, or the assembly    *)
(* overlapped an invalidation (that entry lives on until it expires).          *)
(* The cache never outgrows its limit, nor keeps two contexts of one key.      *)
CachedStatusCurrent ==
  /\ Len(cache) <= MaxEntries
  /\ \A i, j \in DOMAIN cache : cache[i].key = cache[j].key => i = j
  /\ \A i \in DOMAIN cache : \A t \in DOMAIN cache[i].seen :
       \/ cache[i].seen[t] = card[t].status
       \/ cache[i].raced \/ t \in silent
       \/ \E j \in DOMAIN bus : bus[j].task = t
       \/ \E r \in Request : CallAt(r, "publish") /\ call[r].task = t

(* A client's metadata is undone only by a writer whose read is older than it: *)
(* the compaction keeps what it found, and an update builds on what it read.   *)
NotesLostOnlyByRaces ==
  [][\A t \in Task : card'[t].note < card[t].note =>
       \/ \E r \in Request : CallAt(r, "write") /\ call[r].task = t /\ call[r].raced
       \/ \E w \in Worker : shrink[w].pc = "write" /\ shrink[w].task = t
                            /\ shrink[w].raced]_contextVars

(* Research that has findings is compacted once its completion is announced,   *)
(* however its log, its metadata and its status change meanwhile.              *)
ResearchCompacted ==
  \A t \in Research :
    (t \in found /\ \E j \in DOMAIN bus : bus[j] = [task |-> t, new |-> "completed"])
      ~> card[t].compacted
=============================================================================
