----------------------------- MODULE Live_proofs -----------------------------
(***************************************************************************)
(* Proofs about what is kept in the memory of one process: the context     *)
(* cache, the presence of users, and the calls to Graphiti.                *)
(***************************************************************************)
EXTENDS TaskContext, Presence, GraphitiBridge, SequenceTheorems, FiniteSetTheorems, TLAPS

-----------------------------------------------------------------------------
(***************************************************************************)
(* TaskContext. Proofs about the context cache and about the metadata of a *)
(* task, for any number of tasks, requests, workers and cached contexts.   *)
(*                                                                         *)
(* A context is up to date, or a change of a task in it is still to be     *)
(* announced or on its way to the cache (Shown); that holds of the         *)
(* contexts in the cache and of those being assembled (Truthful). What a   *)
(* metadata update or a compaction writes builds on what is there, unless  *)
(* somebody wrote in between (CallOK, ShrinkOK).                           *)
(***************************************************************************)
Status   == Statuses \cup {"in_progress"}
Card     == [status : Status, note : Nat, compacted : BOOLEAN]
Sight    == UNION {[D -> Status] : D \in SUBSET Task}
Key      == [task : Task, variant : Variant]
Context  == [key : Key, seen : Sight, expires : Int, raced : BOOLEAN]
Change   == [task : Task, new : Status]
Metadata == [note : Nat, compacted : BOOLEAN]
CallRow  == [pc : {"idle", "write", "publish", "node", "siblings", "store"}, task : Task \cup {Nil},
             variant : Variant \cup {Nil}, old : Card \cup {Nil}, status : Status \cup {Nil},
             meta : Metadata \cup {Nil}, seen : Sight \cup {Nil}, raced : BOOLEAN]
ShrinkRow == [pc : {"idle", "node", "logs", "write"}, task : Task \cup {Nil}, row : Card \cup {Nil},
              raced : BOOLEAN]
Mates(t) == {s \in Task : PlanOf[s] = PlanOf[t]}

(* The limit, and one context of a key at most *)
CacheOK(c) ==
  /\ c \in Seq(Context) /\ Len(c) <= MaxEntries
  /\ \A i, j \in DOMAIN c : c[i].key = c[j].key => i = j
  /\ \A i \in DOMAIN c : DOMAIN c[i].seen \subseteq Mates(c[i].key.task)

(* What a call in progress holds; a metadata update that nobody overtook   *)
(* builds on what is there.                                                *)
CallOK(q, rows) ==
  /\ q.pc # "idle" => q.task \in Task
  /\ q.pc = "write" /\ q.meta = Nil => q.status \in Status
  /\ q.pc = "write" /\ q.meta # Nil /\ ~q.raced => q.meta.note = rows[q.task].note + 1
  /\ q.pc = "publish" => q.status \in Status
  /\ q.pc \in {"node", "siblings", "store"} => q.variant \in Variant
  /\ q.pc \in {"siblings", "store"} => q.seen \in Sight /\ DOMAIN q.seen \subseteq Mates(q.task)

ShrinkOK(k, rows) ==
  /\ k.pc # "idle" => k.task \in Task
  /\ k.pc \in {"logs", "write"} => k.row \in Card /\ (~k.raced => k.row.note = rows[k.task].note)

ContextShape ==
  /\ card \in [Task -> Card] /\ bus \in Seq(Change) /\ clock \in Int
  /\ call \in [Request -> CallRow] /\ shrink \in [Worker -> ShrinkRow]
  /\ CacheOK(cache)
  /\ \A r \in Request : CallOK(call[r], card)
  /\ \A w \in Worker : ShrinkOK(shrink[w], card)

(* The status s of t is up to date, or a change of it is not or not yet    *)
(* announced.                                                              *)
Shown(t, s, rows, quiet, events, cs) ==
  \/ s = rows[t].status \/ t \in quiet
  \/ \E j \in DOMAIN events : events[j].task = t
  \/ \E r \in Request : cs[r].pc = "publish" /\ cs[r].task = t

AllShown(seen, rows, quiet, events, cs) ==
  \A t \in DOMAIN seen : Shown(t, seen[t], rows, quiet, events, cs)

Reading(q) == q.pc \in {"siblings", "store"}

(* Cached contexts, and those being assembled *)
Truthful ==
  /\ \A i \in DOMAIN cache : cache[i].raced \/ AllShown(cache[i].seen, card, silent, bus, call)
  /\ \A r \in Request : Reading(call[r]) =>
       call[r].raced \/ AllShown(call[r].seen, card, silent, bus, call)

ContextInv == ContextShape /\ Truthful

-----------------------------------------------------------------------------
LEMMA ContextRows ==
  /\ NoCall \in CallRow /\ NoCall.pc = "idle" /\ NoCall.meta = Nil /\ NoCall.status = Nil
  /\ NoShrink \in ShrinkRow /\ NoShrink.pc = "idle"
  BY DEF NoCall, CallRow, NoShrink, ShrinkRow

LEMMA ContextInitInv == ContextInit => ContextInv
<1> SUFFICES ASSUME ContextInit PROVE ContextInv
  OBVIOUS
<1>1. /\ cache \in Seq(Context) /\ Len(cache) = 0 /\ DOMAIN cache = {} /\ bus \in Seq(Change)
  BY EmptySeq, LenProperties DEF ContextInit
<1>2. CacheOK(cache)
  BY <1>1, ContextAssumption DEF CacheOK
<1>3. card \in [Task -> Card]
  BY DEF ContextInit, Card, Status
<1>4. /\ call \in [Request -> CallRow] /\ \A r \in Request : call[r] = NoCall
      /\ shrink \in [Worker -> ShrinkRow] /\ \A w \in Worker : shrink[w] = NoShrink
  BY ContextRows DEF ContextInit
<1>5. ContextShape
  BY <1>1, <1>2, <1>3, <1>4, ContextRows DEF ContextShape, CallOK, ShrinkOK, ContextInit
<1>6. Truthful
  BY <1>1, <1>4, ContextRows DEF Truthful, Reading
<1> QED
  BY <1>5, <1>6 DEF ContextInv

LEMMA MetaIsThere == \A m \in Metadata : m # Nil
  BY ContextAssumption DEF Metadata

(* What is left of a cache is a part of it. *)
LEMMA KeptEntries ==
  ASSUME NEW c, CacheOK(c), NEW S \in SUBSET (DOMAIN c), NEW d \in Kept(c, S)
  PROVE  CacheOK(d) /\ \A i \in DOMAIN d : \E j \in S : d[i] = c[j]
<1>1. /\ Len(c) \in Nat /\ DOMAIN c = 1 .. Len(c) /\ c \in [1 .. Len(c) -> Context]
      /\ c \in Seq(Context)
  BY LenProperties DEF CacheOK
<1>2. Cardinality(S) \in Nat /\ Cardinality(S) <= Len(c)
  <2>1. \A n \in Nat : IsFiniteSet(1 .. n) /\ Cardinality(1 .. n) = n
    BY FS_Interval
  <2> QED
    BY <1>1, <2>1, FS_Subset, FS_CardinalityType
<1>3. PICK f \in [1 .. Cardinality(S) -> S] :
        d = [i \in DOMAIN f |-> c[f[i]]] /\ \A i, j \in DOMAIN f : i < j => f[i] < f[j]
  BY DEF Kept
<1>4. /\ DOMAIN f = 1 .. Cardinality(S) /\ DOMAIN d = 1 .. Cardinality(S)
      /\ \A i \in DOMAIN d : f[i] \in S /\ f[i] \in DOMAIN c /\ d[i] = c[f[i]]
  BY <1>1, <1>3
<1>5. d \in [1 .. Cardinality(S) -> Context]
  BY <1>1, <1>3, <1>4
<1>6. d \in Seq(Context) /\ Len(d) = Cardinality(S)
  <2>1. d \in Seq(Context)
    BY <1>2, <1>5, SeqDef
  <2> QED
    BY <1>2, <1>4, <2>1, LenProperties
<1>7. \A i, j \in DOMAIN d : d[i].key = d[j].key => i = j
  <2> SUFFICES ASSUME NEW i \in DOMAIN d, NEW j \in DOMAIN d, d[i].key = d[j].key PROVE i = j
    OBVIOUS
  <2>1. f[i] = f[j]
    BY <1>4 DEF CacheOK
  <2>2. i \in Int /\ j \in Int /\ f[i] \in Int
    BY <1>1, <1>2, <1>4
  <2> QED
    BY <1>3, <1>4, <2>1, <2>2
<1>8. CacheOK(d)
  BY <1>1, <1>2, <1>4, <1>6, <1>7, ContextAssumption DEF CacheOK
<1> QED
  BY <1>4, <1>8

(* A context that is cached takes the place of its like, of the oldest     *)
(* or a new one.                                                           *)
LEMMA CacheSetOK ==
  ASSUME NEW c, CacheOK(c), NEW e \in Context, DOMAIN e.seen \subseteq Mates(e.key.task)
  PROVE  /\ CacheOK(CacheSet(c, e))
         /\ \A i \in DOMAIN CacheSet(c, e) :
              CacheSet(c, e)[i] = e \/ \E j \in DOMAIN c : CacheSet(c, e)[i] = c[j]
<1> DEFINE room == IF Len(c) >= MaxEntries THEN Tail(c) ELSE c
<1>1. c \in Seq(Context) /\ Len(c) \in Nat /\ DOMAIN c = 1 .. Len(c) /\ Len(c) <= MaxEntries
  BY LenProperties DEF CacheOK
<1>2. /\ CacheOK(room) /\ Len(room) < MaxEntries /\ Len(room) \in Nat /\ DOMAIN room = 1 .. Len(room)
      /\ room \in [1 .. Len(room) -> Context] /\ room \in Seq(Context)
      /\ \A i \in DOMAIN room : \E j \in DOMAIN c : room[i] = c[j]
  <2>1. CASE Len(c) >= MaxEntries
    <3>1. c # <<>>
      BY <1>1, <2>1, EmptySeq, ContextAssumption
    <3>2. /\ room \in Seq(Context) /\ Len(room) = Len(c) - 1
          /\ \A i \in 1 .. Len(room) : room[i] = c[i + 1]
      BY <1>1, <2>1, <3>1, HeadTailProperties
    <3>3. Len(room) \in Nat /\ DOMAIN room = 1 .. Len(room) /\ room \in [1 .. Len(room) -> Context]
      BY <3>2, LenProperties
    <3> HIDE DEF room
    <3>4. \A i \in 1 .. Len(room) : i + 1 \in DOMAIN c /\ room[i] = c[i + 1]
      BY <1>1, <3>2, <3>3
    <3>5. \A i, j \in DOMAIN room : room[i].key = room[j].key => i = j
      <4> SUFFICES ASSUME NEW i \in DOMAIN room, NEW j \in DOMAIN room, room[i].key = room[j].key
                   PROVE  i = j
        OBVIOUS
      <4>1. i + 1 = j + 1
        BY <3>3, <3>4 DEF CacheOK
      <4> QED
        BY <3>3, <4>1
    <3>6. \A i \in DOMAIN room : DOMAIN room[i].seen \subseteq Mates(room[i].key.task)
      BY <3>3, <3>4 DEF CacheOK
    <3>7. Len(room) < MaxEntries
      BY <1>1, <3>2, ContextAssumption
    <3>8. Len(room) <= MaxEntries
      BY <3>3, <3>7, ContextAssumption
    <3>9. CacheOK(room)
      BY <3>2, <3>5, <3>6, <3>8 DEF CacheOK
    <3>10. \A i \in DOMAIN room : \E j \in DOMAIN c : room[i] = c[j]
      BY <3>3, <3>4
    <3> QED
      BY <3>2, <3>3, <3>7, <3>9, <3>10
  <2>2. CASE Len(c) < MaxEntries
    BY <1>1, <2>2, LenProperties, ContextAssumption
  <2> QED
    BY <1>1, <2>1, <2>2, ContextAssumption
<1> HIDE DEF room
<1>3. CASE e.key \in Keys(room)
  <2> DEFINE d == [i \in DOMAIN room |-> IF room[i].key = e.key THEN e ELSE room[i]]
  <2>1. CacheSet(c, e) = d
    BY <1>3 DEF CacheSet, room
  <2>2. d \in [1 .. Len(room) -> Context] /\ DOMAIN d = DOMAIN room
    BY <1>2
  <2>3. d \in Seq(Context) /\ Len(d) = Len(room)
    <3>1. d \in Seq(Context)
      BY <1>2, <2>2, SeqDef
    <3> HIDE DEF d
    <3> QED
      BY <1>2, <2>2, <3>1, LenProperties
  <2>4. \A i \in DOMAIN room : d[i].key = room[i].key /\ (d[i] = e \/ d[i] = room[i])
    OBVIOUS
  <2> HIDE DEF d
  <2>5. CacheOK(d)
    BY <1>2, <2>2, <2>3, <2>4, ContextAssumption DEF CacheOK
  <2> QED
    BY <1>2, <2>1, <2>2, <2>4, <2>5
<1>4. CASE e.key \notin Keys(room)
  <2> DEFINE d == Append(room, e)
  <2>1. CacheSet(c, e) = d
    BY <1>4 DEF CacheSet, room
  <2>2. /\ d \in Seq(Context) /\ Len(d) = Len(room) + 1
        /\ \A i \in 1 .. Len(room) : d[i] = room[i]
        /\ d[Len(room) + 1] = e
    BY <1>2, AppendProperties
  <2>3. DOMAIN d = 1 .. Len(room) + 1
    BY <2>2, LenProperties
  <2> HIDE DEF d
  <2>4. \A i \in DOMAIN d : (i \in DOMAIN room /\ d[i] = room[i]) \/ (i = Len(room) + 1 /\ d[i] = e)
    BY <1>2, <2>2, <2>3
  <2>5. \A i \in DOMAIN room : room[i].key # e.key
    BY <1>4 DEF Keys
  <2>6. \A i, j \in DOMAIN d : d[i].key = d[j].key => i = j
    BY <1>2, <2>4, <2>5 DEF CacheOK
  <2>7. \A i \in DOMAIN d : DOMAIN d[i].seen \subseteq Mates(d[i].key.task)
    BY <1>2, <2>4 DEF CacheOK
  <2>8. CacheOK(d)
    BY <1>2, <2>2, <2>6, <2>7, ContextAssumption DEF CacheOK
  <2> QED
    BY <1>2, <2>1, <2>4, <2>8
<1> QED
  BY <1>3, <1>4

-----------------------------------------------------------------------------
(* What is shown stays so in a step that no status is changed by without   *)
(* its being noted, and in which no event gets lost.                       *)
LEMMA StillShown ==
  ASSUME ContextInv,
         \A t \in Task : \A s : Shown(t, s, card, silent, bus, call) => Shown(t, s, card', silent', bus', call')
  PROVE  /\ \A i \in DOMAIN cache : cache[i].raced \/ AllShown(cache[i].seen, card', silent', bus', call')
         /\ \A r \in Request : Reading(call[r]) =>
              call[r].raced \/ AllShown(call[r].seen, card', silent', bus', call')
<1>1. ASSUME NEW seen, DOMAIN seen \subseteq Task, AllShown(seen, card, silent, bus, call)
      PROVE  AllShown(seen, card', silent', bus', call')
  BY <1>1 DEF AllShown
<1>2. \A i \in DOMAIN cache : DOMAIN cache[i].seen \subseteq Task
  BY DEF ContextInv, ContextShape, CacheOK, Mates
<1>3. \A r \in Request : Reading(call[r]) => DOMAIN call[r].seen \subseteq Task
  BY DEF ContextInv, ContextShape, CallOK, Mates, Reading
<1> QED
  BY <1>1, <1>2, <1>3 DEF ContextInv, Truthful

LEMMA CallSlot ==
  ASSUME ContextInv, NEW r \in Request, NEW new \in CallRow, call' = [call EXCEPT ![r] = new]
  PROVE  /\ call' \in [Request -> CallRow] /\ call'[r] = new
         /\ \A q \in Request \ {r} : call'[q] = call[q]
  BY DEF ContextInv, ContextShape

(* A step of one call that writes no row: what it says it saw is so, what  *)
(* it caches it saw, and if it was to announce something it did.           *)
LEMMA CallMoves ==
  ASSUME ContextInv, NEW r \in Request, NEW new \in CallRow, call' = [call EXCEPT ![r] = new],
         CallOK(new, card),
         bus' \in Seq(Change), \A j \in DOMAIN bus : j \in DOMAIN bus' /\ bus'[j] = bus[j],
         call[r].pc = "publish" /\ new.pc # "publish" => \E j \in DOMAIN bus' : bus'[j].task = call[r].task,
         call[r].pc = "publish" /\ new.pc = "publish" => new.task = call[r].task,
         Reading(new) => new.raced \/ AllShown(new.seen, card, silent, bus, call),
         CacheOK(cache'),
         \A i \in DOMAIN cache' :
           \/ \E j \in DOMAIN cache : cache'[i] = cache[j]
           \/ cache'[i].raced \/ AllShown(cache'[i].seen, card, silent, bus, call),
         card' = card, shrink' = shrink, silent' = silent, clock' = clock
  PROVE  ContextInv'
<1>1. /\ call' \in [Request -> CallRow] /\ call'[r] = new
      /\ \A q \in Request \ {r} : call'[q] = call[q]
  BY CallSlot
<1>2. \A t \in Task : \A s : Shown(t, s, card, silent, bus, call) => Shown(t, s, card', silent', bus', call')
  BY <1>1 DEF Shown
<1>3. /\ \A i \in DOMAIN cache : cache[i].raced \/ AllShown(cache[i].seen, card', silent', bus', call')
      /\ \A q \in Request : Reading(call[q]) =>
              call[q].raced \/ AllShown(call[q].seen, card', silent', bus', call')
  BY <1>2, StillShown
<1>4. \A q \in Request : CallOK(call'[q], card')
  BY <1>1 DEF ContextInv, ContextShape
<1>5. ContextShape'
  BY <1>1, <1>4 DEF ContextInv, ContextShape
<1>6. ASSUME NEW seen, DOMAIN seen \subseteq Task, AllShown(seen, card, silent, bus, call)
      PROVE  AllShown(seen, card', silent', bus', call')
  BY <1>2, <1>6 DEF AllShown
<1>7. \A i \in DOMAIN cache' : cache'[i].raced \/ AllShown(cache'[i].seen, card', silent', bus', call')
  <2>1. \A i \in DOMAIN cache' : DOMAIN cache'[i].seen \subseteq Task
    BY DEF CacheOK, Mates
  <2> QED
    BY <1>3, <1>6, <2>1
<1>8. ASSUME NEW q \in Request, Reading(call'[q])
      PROVE  call'[q].raced \/ AllShown(call'[q].seen, card', silent', bus', call')
  <2>1. CASE q = r
    <3>1. Reading(new) => DOMAIN new.seen \subseteq Task
      BY DEF CallOK, Reading, Mates
    <3> QED
      BY <1>1, <1>6, <1>8, <2>1, <3>1
  <2>2. CASE q # r
    BY <1>1, <1>3, <1>8, <2>2
  <2> QED
    BY <2>1, <2>2
<1>9. Truthful'
  BY <1>7, <1>8 DEF Truthful
<1> QED
  BY <1>5, <1>9 DEF ContextInv

(* Where cache and bus stay as they are *)
LEMMA CacheStays ==
  ASSUME ContextInv, cache' = cache, bus' = bus
  PROVE  /\ bus' \in Seq(Change) /\ \A j \in DOMAIN bus : j \in DOMAIN bus' /\ bus'[j] = bus[j]
         /\ CacheOK(cache') /\ \A i \in DOMAIN cache' : \E j \in DOMAIN cache : cache'[i] = cache[j]
  BY DEF ContextInv, ContextShape

LEMMA StartUpdateInv ==
  ASSUME ContextInv, NEW r \in Request, StartUpdate(r)
  PROVE  ContextInv'
<1>1. PICK new \in CallRow :
        /\ call' = [call EXCEPT ![r] = new] /\ CallOK(new, card) /\ new.pc = "write"
  <2>1. card \in [Task -> Card]
    BY DEF ContextInv, ContextShape
  <2>2. ASSUME NEW t \in Task, NEW s \in Statuses,
               NewCall(r, [NoCall EXCEPT !.pc = "write", !.task = t, !.old = card[t], !.status = s])
        PROVE  \E new \in CallRow :
                 /\ call' = [call EXCEPT ![r] = new] /\ CallOK(new, card) /\ new.pc = "write"
    <3> DEFINE new == [NoCall EXCEPT !.pc = "write", !.task = t, !.old = card[t], !.status = s]
    <3>1. new \in CallRow /\ CallOK(new, card) /\ new.pc = "write"
      BY <2>1, ContextRows, ContextAssumption DEF CallRow, CallOK, NoCall, Status
    <3> QED
      BY <2>2, <3>1 DEF NewCall
  <2>3. ASSUME NEW t \in Task, NEW keep \in BOOLEAN,
               NewCall(r, [NoCall EXCEPT !.pc = "write", !.task = t, !.old = card[t],
                             !.meta = [note |-> card[t].note + 1,
                                       compacted |-> keep /\ card[t].compacted]])
        PROVE  \E new \in CallRow :
                 /\ call' = [call EXCEPT ![r] = new] /\ CallOK(new, card) /\ new.pc = "write"
    <3> DEFINE m   == [note |-> card[t].note + 1, compacted |-> keep /\ card[t].compacted]
               new == [NoCall EXCEPT !.pc = "write", !.task = t, !.old = card[t], !.meta = m]
    <3>1. card[t] \in Card /\ card[t].note \in Nat /\ card[t].compacted \in BOOLEAN
      BY <2>1 DEF Card
    <3>2. (keep /\ card[t].compacted) \in BOOLEAN
      OBVIOUS
    <3>3. m \in Metadata /\ m.note = card[t].note + 1
      BY <3>1, <3>2 DEF Metadata
    <3>5. NewCall(r, new)
      BY <2>3
    <3> HIDE DEF m
    <3>4. new \in CallRow /\ CallOK(new, card) /\ new.pc = "write"
      <4>1. new \in CallRow /\ new.pc = "write" /\ new.task = t /\ new.meta = m
        BY <3>1, <3>3, ContextRows DEF CallRow, NoCall
      <4> QED
        BY <3>3, <4>1, MetaIsThere DEF CallOK
    <3> QED
      BY <3>4, <3>5 DEF NewCall
  <2> QED
    BY <2>2, <2>3 DEF StartUpdate
<1>2. /\ call[r].pc = "idle" /\ card' = card /\ shrink' = shrink /\ silent' = silent
      /\ clock' = clock /\ cache' = cache /\ bus' = bus
  BY DEF StartUpdate, MayCall, CallAt
<1> QED
  BY <1>1, <1>2, CacheStays, CallMoves DEF Reading

LEMMA PublishChangeInv ==
  ASSUME ContextInv, NEW r \in Request, PublishChange(r)
  PROVE  ContextInv'
<1> DEFINE e == [task |-> call[r].task, new |-> call[r].status]
<1>1. /\ call[r].pc = "publish" /\ call[r].task \in Task /\ call[r].status \in Status
      /\ bus \in Seq(Change) /\ CacheOK(cache)
  BY DEF PublishChange, CallAt, ContextInv, ContextShape, CallOK
<1>2. e \in Change /\ e.task = call[r].task
  BY <1>1 DEF Change
<1>3. bus' = Append(bus, e)
  BY DEF PublishChange
<1> HIDE DEF e
<1>4. /\ bus' \in Seq(Change) /\ \A j \in DOMAIN bus : j \in DOMAIN bus' /\ bus'[j] = bus[j]
      /\ \E j \in DOMAIN bus' : bus'[j].task = call[r].task
  <2>1. /\ bus' \in Seq(Change) /\ Len(bus') = Len(bus) + 1 /\ Len(bus) \in Nat
        /\ \A j \in 1 .. Len(bus) : bus'[j] = bus[j]
        /\ bus'[Len(bus) + 1] = e
    BY <1>1, <1>2, <1>3, AppendProperties, LenProperties
  <2>2. DOMAIN bus = 1 .. Len(bus) /\ DOMAIN bus' = 1 .. Len(bus) + 1
    BY <1>1, <2>1, LenProperties
  <2> QED
    BY <1>2, <2>1, <2>2
<1>5. /\ call' = [call EXCEPT ![r] = NoCall] /\ card' = card /\ shrink' = shrink
      /\ silent' = silent /\ clock' = clock /\ cache' = cache
  BY DEF PublishChange, CallDone
<1>6. CallOK(NoCall, card) /\ ~Reading(NoCall)
  BY ContextRows DEF CallOK, Reading
<1> QED
  BY <1>1, <1>4, <1>5, <1>6, ContextRows, CallMoves

LEMMA ReadContextInv ==
  ASSUME ContextInv, NEW r \in Request, ReadContext(r)
  PROVE  ContextInv'
<1>1. PICK k \in Key : \E c \in CacheGet(cache, k) :
        /\ cache' = c
        /\ IF k \in Keys(c) THEN UNCHANGED call
           ELSE call' = [call EXCEPT ![r] = [NoCall EXCEPT !.pc = "node", !.task = k.task,
                                                           !.variant = k.variant]]
  BY DEF ReadContext, Key
<1>2. /\ CacheOK(cache') /\ \A i \in DOMAIN cache' : \E j \in DOMAIN cache : cache'[i] = cache[j]
  BY <1>1, KeptEntries DEF CacheGet, ContextInv, ContextShape
<1>3. /\ card' = card /\ shrink' = shrink /\ silent' = silent /\ clock' = clock /\ bus' = bus
      /\ bus \in Seq(Change) /\ call[r].pc = "idle" /\ call[r] \in CallRow /\ CallOK(call[r], card)
      /\ call \in [Request -> CallRow]
  BY DEF ReadContext, MayCall, CallAt, ContextInv, ContextShape
<1>4. PICK new \in CallRow :
        call' = [call EXCEPT ![r] = new] /\ CallOK(new, card) /\ ~Reading(new)
  <2>1. CASE call' = call
    BY <1>3, <2>1 DEF Reading
  <2>2. CASE call' = [call EXCEPT ![r] = [NoCall EXCEPT !.pc = "node", !.task = k.task,
                                                        !.variant = k.variant]]
    <3> DEFINE new == [NoCall EXCEPT !.pc = "node", !.task = k.task, !.variant = k.variant]
    <3>1. new \in CallRow /\ CallOK(new, card) /\ ~Reading(new)
      BY ContextRows DEF Key, CallRow, NoCall, CallOK, Reading
    <3> QED
      BY <2>2, <3>1
  <2> QED
    BY <1>1, <2>1, <2>2
<1> QED
  BY <1>2, <1>3, <1>4, CallMoves

LEMMA ReadTaskInv ==
  ASSUME ContextInv, NEW r \in Request, ReadTask(r)
  PROVE  ContextInv'
<1> DEFINE q    == call[r]
           seen == [s \in {q.task} |-> card[s].status]
           new  == [q EXCEPT !.pc = IF q.variant \in TaskFocus THEN "store" ELSE "siblings", !.seen = seen]
<1>1. /\ q.pc = "node" /\ q.variant \in Variant /\ q \in CallRow /\ q.task \in Task /\ card \in [Task -> Card]
  BY DEF ReadTask, CallAt, ContextInv, ContextShape, CallOK
<1>2. seen \in Sight /\ DOMAIN seen = {q.task} /\ \A s \in DOMAIN seen : seen[s] = card[s].status
  <2>1. seen \in [{q.task} -> Status]
    BY <1>1 DEF Card
  <2> QED
    BY <1>1, <2>1 DEF Sight
<1>3. call' = [call EXCEPT ![r] = new]
  BY DEF ReadTask, ContextInv, ContextShape
<1> HIDE DEF seen
<1>4. /\ new \in CallRow /\ new.pc \in {"siblings", "store"} /\ new.task = q.task
      /\ new.variant = q.variant /\ new.seen = seen
  BY <1>1, <1>2 DEF CallRow
<1> HIDE DEF new
<1>5. CallOK(new, card)
  BY <1>1, <1>2, <1>4 DEF CallOK, Mates
<1>6. AllShown(new.seen, card, silent, bus, call)
  BY <1>2, <1>4 DEF AllShown, Shown
<1>7. /\ card' = card /\ shrink' = shrink /\ silent' = silent
      /\ clock' = clock /\ cache' = cache /\ bus' = bus
  BY DEF ReadTask
<1> QED
  BY <1>1, <1>3, <1>4, <1>5, <1>6, <1>7, CacheStays, CallMoves

LEMMA ReadSiblingsInv ==
  ASSUME ContextInv, NEW r \in Request, ReadSiblings(r)
  PROVE  ContextInv'
<1> DEFINE q    == call[r]
           more == [s \in Siblings(q.task) |-> card[s].status]
           seen == Updated(q.seen, more)
           new  == [q EXCEPT !.pc = "store", !.seen = seen]
<1>1. /\ q.pc = "siblings" /\ q.variant \in Variant /\ q \in CallRow /\ q.task \in Task /\ card \in [Task -> Card]
      /\ q.seen \in Sight /\ DOMAIN q.seen \subseteq Mates(q.task)
      /\ q.raced \/ AllShown(q.seen, card, silent, bus, call)
  BY DEF ReadSiblings, CallAt, ContextInv, ContextShape, CallOK, Truthful, Reading
<1>2. /\ DOMAIN seen = DOMAIN q.seen \cup Siblings(q.task)
      /\ \A s \in DOMAIN seen : seen[s] = IF s \in Siblings(q.task) THEN card[s].status ELSE q.seen[s]
      /\ seen = [x \in DOMAIN seen |-> seen[x]]
  BY DEF Updated
<1>3. seen \in Sight /\ DOMAIN seen \subseteq Mates(q.task)
  <2>1. DOMAIN seen \subseteq Mates(q.task) /\ DOMAIN seen \subseteq Task
    BY <1>1, <1>2 DEF Siblings, Mates
  <2>2. \A s \in DOMAIN q.seen : q.seen[s] \in Status
    BY <1>1 DEF Sight
  <2>3. \A s \in Siblings(q.task) : card[s].status \in Status
    BY <1>1 DEF Siblings, Card
  <2> HIDE DEF seen
  <2>4. \A s \in DOMAIN seen : seen[s] \in Status
    BY <1>2, <2>2, <2>3
  <2>5. seen \in [DOMAIN seen -> Status]
    BY <1>2, <2>4
  <2> QED
    BY <2>1, <2>5 DEF Sight
<1>4. call' = [call EXCEPT ![r] = new]
  BY DEF ReadSiblings, ContextInv, ContextShape
<1> HIDE DEF seen
<1>5. /\ new \in CallRow /\ new.pc = "store" /\ new.task = q.task /\ new.seen = seen
      /\ new.variant = q.variant /\ new.raced = q.raced
  BY <1>1, <1>3 DEF CallRow
<1> HIDE DEF new
<1>6. CallOK(new, card)
  BY <1>1, <1>3, <1>5 DEF CallOK
<1>7. new.raced \/ AllShown(new.seen, card, silent, bus, call)
  BY <1>1, <1>2, <1>5 DEF AllShown, Shown
<1>8. /\ card' = card /\ shrink' = shrink /\ silent' = silent
      /\ clock' = clock /\ cache' = cache /\ bus' = bus
  BY DEF ReadSiblings
<1> QED
  BY <1>1, <1>4, <1>5, <1>6, <1>7, <1>8, CacheStays, CallMoves

LEMMA StoreContextInv ==
  ASSUME ContextInv, NEW r \in Request, StoreContext(r)
  PROVE  ContextInv'
<1> DEFINE q == call[r]
           k == [task |-> q.task, variant |-> q.variant]
           e == [key |-> k, seen |-> q.seen, expires |-> clock + Ttl, raced |-> q.raced]
<1>1. /\ q.pc = "store" /\ q.variant \in Variant /\ q \in CallRow /\ q.task \in Task /\ clock \in Int
      /\ q.seen \in Sight /\ DOMAIN q.seen \subseteq Mates(q.task)
      /\ q.raced \/ AllShown(q.seen, card, silent, bus, call)
      /\ CacheOK(cache) /\ bus \in Seq(Change)
  BY DEF StoreContext, CallAt, ContextInv, ContextShape, CallOK, Truthful, Reading
<1>2. e \in Context /\ e.seen = q.seen /\ e.key.task = q.task /\ e.raced = q.raced
  <2>1. q.raced \in BOOLEAN /\ clock + Ttl \in Int /\ k \in Key
    BY <1>1, ContextAssumption DEF CallRow, Key
  <2> QED
    BY <1>1, <2>1 DEF Context
<1>3. cache' = CacheSet(cache, e)
  BY DEF StoreContext
<1> HIDE DEF e
<1>4. /\ CacheOK(cache')
      /\ \A i \in DOMAIN cache' :
           \/ \E j \in DOMAIN cache : cache'[i] = cache[j]
           \/ cache'[i].raced \/ AllShown(cache'[i].seen, card, silent, bus, call)
  BY <1>1, <1>2, <1>3, CacheSetOK
<1>5. /\ call' = [call EXCEPT ![r] = NoCall] /\ card' = card /\ shrink' = shrink
      /\ silent' = silent /\ clock' = clock /\ bus' = bus
  BY DEF StoreContext, CallDone
<1>6. CallOK(NoCall, card) /\ ~Reading(NoCall)
  BY ContextRows DEF CallOK, Reading
<1> QED
  BY <1>1, <1>4, <1>5, <1>6, ContextRows, CallMoves

(* A step of the others: statuses, cache and events stay as they are. *)
LEMMA OthersMove ==
  ASSUME ContextInv, ContextShape', cache' = cache, bus' = bus, silent' = silent,
         \A t \in Task : card'[t].status = card[t].status,
         \A r \in Request : call[r].pc = "publish" => call'[r].pc = "publish" /\ call'[r].task = call[r].task,
         \A r \in Request : Reading(call'[r]) => /\ Reading(call[r]) /\ call'[r].seen = call[r].seen
                                                 /\ call[r].raced => call'[r].raced
  PROVE  ContextInv'
<1>1. \A t \in Task : \A s : Shown(t, s, card, silent, bus, call) => Shown(t, s, card', silent', bus', call')
  BY DEF Shown
<1>2. Truthful'
  BY <1>1, StillShown DEF Truthful
<1> QED
  BY <1>2 DEF ContextInv

(* Those whose read is overtaken do not build on it any more. *)
LEMMA OverwrittenOK ==
  ASSUME ContextInv, NEW t \in Task, card' \in [Task -> Card],
         \A s \in Task \ {t} : card'[s].note = card[s].note
  PROVE  /\ Overwritten(call, t) \in [Request -> CallRow]
         /\ \A r \in Request : /\ CallOK(Overwritten(call, t)[r], card')
                               /\ Overwritten(call, t)[r].pc = call[r].pc
                               /\ Overwritten(call, t)[r].task = call[r].task
                               /\ Overwritten(call, t)[r].seen = call[r].seen
                               /\ call[r].raced => Overwritten(call, t)[r].raced
         /\ Overwritten(shrink, t) \in [Worker -> ShrinkRow]
         /\ \A w \in Worker : ShrinkOK(Overwritten(shrink, t)[w], card')
<1>1. /\ call \in [Request -> CallRow] /\ shrink \in [Worker -> ShrinkRow]
      /\ \A r \in Request : CallOK(call[r], card)
      /\ \A w \in Worker : ShrinkOK(shrink[w], card)
  BY DEF ContextInv, ContextShape
<1>2. ASSUME NEW r \in Request
      PROVE  LET q == Overwritten(call, t)[r]
             IN  /\ q \in CallRow /\ CallOK(q, card') /\ q.pc = call[r].pc /\ q.task = call[r].task
                 /\ q.seen = call[r].seen /\ (call[r].raced => q.raced)
  <2> DEFINE q == Overwritten(call, t)[r]
  <2>1. call[r] \in CallRow /\ CallOK(call[r], card)
    BY <1>1
  <2>2. CASE call[r].task = t /\ call[r].pc # "idle"
    <3>1. q = [call[r] EXCEPT !.raced = TRUE]
      BY <1>1, <2>2 DEF Overwritten
    <3> HIDE DEF q
    <3>2. /\ q \in CallRow /\ q.pc = call[r].pc /\ q.task = call[r].task /\ q.seen = call[r].seen
          /\ q.variant = call[r].variant /\ q.meta = call[r].meta /\ q.status = call[r].status
          /\ q.raced = TRUE
      BY <2>1, <3>1 DEF CallRow
    <3>3. CallOK(q, card')
      BY <2>1, <3>2 DEF CallOK
    <3> QED
      BY <3>2, <3>3 DEF q
  <2>3. CASE call[r].task # t \/ call[r].pc = "idle"
    <3>1. q = call[r]
      BY <1>1, <2>3 DEF Overwritten
    <3>2. CallOK(call[r], card')
      BY <2>1, <2>3 DEF CallOK
    <3> QED
      BY <2>1, <3>1, <3>2
  <2> QED
    BY <2>2, <2>3
<1>3. ASSUME NEW w \in Worker
      PROVE  Overwritten(shrink, t)[w] \in ShrinkRow /\ ShrinkOK(Overwritten(shrink, t)[w], card')
  <2> DEFINE k == Overwritten(shrink, t)[w]
  <2>1. shrink[w] \in ShrinkRow /\ ShrinkOK(shrink[w], card)
    BY <1>1
  <2>2. CASE shrink[w].task = t /\ shrink[w].pc # "idle"
    <3>1. k = [shrink[w] EXCEPT !.raced = TRUE]
      BY <1>1, <2>2 DEF Overwritten
    <3> HIDE DEF k
    <3>2. /\ k \in ShrinkRow /\ k.pc = shrink[w].pc /\ k.task = shrink[w].task
          /\ k.row = shrink[w].row /\ k.raced = TRUE
      BY <2>1, <3>1 DEF ShrinkRow
    <3>3. ShrinkOK(k, card')
      BY <2>1, <3>2 DEF ShrinkOK
    <3> QED
      BY <3>2, <3>3 DEF k
  <2>3. CASE shrink[w].task # t \/ shrink[w].pc = "idle"
    <3>1. k = shrink[w]
      BY <1>1, <2>3 DEF Overwritten
    <3>2. ShrinkOK(shrink[w], card')
      BY <2>1, <2>3 DEF ShrinkOK
    <3> QED
      BY <2>1, <3>1, <3>2
  <2> QED
    BY <2>2, <2>3
<1>4. /\ Overwritten(call, t) = [r \in Request |-> Overwritten(call, t)[r]]
      /\ Overwritten(shrink, t) = [w \in Worker |-> Overwritten(shrink, t)[w]]
  BY <1>1 DEF Overwritten
<1>5. Overwritten(call, t) \in [Request -> CallRow] /\ Overwritten(shrink, t) \in [Worker -> ShrinkRow]
  BY <1>2, <1>3, <1>4
<1> QED
  BY <1>2, <1>3, <1>5

LEMMA WriteUpdateInv ==
  ASSUME ContextInv, NEW r \in Request, WriteUpdate(r)
  PROVE  ContextInv'
<1> DEFINE q     == call[r]
           due   == q.status \notin {Nil, q.old.status}
           fresh == IF due THEN [q EXCEPT !.pc = "publish"] ELSE NoCall
<1>0. PICK t : t = q.task
  OBVIOUS
<1>1. /\ q.pc = "write" /\ q \in CallRow /\ CallOK(q, card) /\ t \in Task
      /\ card \in [Task -> Card] /\ shrink \in [Worker -> ShrinkRow] /\ call \in [Request -> CallRow]
      /\ cache' = cache /\ bus' = bus /\ clock' = clock
  BY <1>0 DEF WriteUpdate, CallAt, ContextInv, ContextShape, CallOK
<1>2. /\ fresh \in CallRow /\ fresh.pc \in {"publish", "idle"} /\ ~Reading(fresh)
      /\ due => fresh.pc = "publish" /\ fresh.task = t
      /\ \A rows : CallOK(fresh, rows)
  <2>1. CASE due
    <3>1. q.status \in Status
      BY <1>1, <2>1 DEF CallRow
    <3>2. fresh = [q EXCEPT !.pc = "publish"]
      BY <2>1
    <3> HIDE DEF fresh
    <3>3. fresh \in CallRow /\ fresh.pc = "publish" /\ fresh.task = t /\ fresh.status = q.status
      BY <1>0, <1>1, <3>2 DEF CallRow
    <3> QED
      BY <1>1, <3>1, <3>3 DEF CallOK, Reading
  <2>2. CASE ~due
    BY <2>2, ContextRows DEF CallOK, Reading
  <2> QED
    BY <2>1, <2>2
<1>3. CASE q.meta = Nil
  <2>1. /\ card' = [card EXCEPT ![t].status = q.status]
        /\ call' = [call EXCEPT ![r] = fresh]
        /\ silent' = IF ~due /\ card[t].status # q.status THEN silent \cup {t} ELSE silent
        /\ shrink' = shrink
    BY <1>0, <1>3 DEF WriteUpdate
  <2> HIDE DEF fresh
  <2>2. q.status \in Status
    BY <1>1, <1>3 DEF CallOK
  <2>3. /\ card' \in [Task -> Card] /\ card'[t].status = q.status
        /\ \A s \in Task : card'[s].note = card[s].note
        /\ \A s \in Task \ {t} : card'[s].status = card[s].status
    BY <1>1, <2>1, <2>2 DEF Card
  <2>4. call' \in [Request -> CallRow] /\ call'[r] = fresh /\ \A p \in Request \ {r} : call'[p] = call[p]
    BY <1>2, <2>1, CallSlot
  <2>5. \A p \in Request : CallOK(call'[p], card')
    BY <1>2, <2>3, <2>4 DEF ContextInv, ContextShape, CallOK
  <2>6. \A w \in Worker : ShrinkOK(shrink'[w], card')
    BY <2>1, <2>3 DEF ContextInv, ContextShape, ShrinkOK
  <2>7. ContextShape'
    BY <1>1, <2>1, <2>3, <2>4, <2>5, <2>6 DEF ContextInv, ContextShape
  <2>8. \A s \in Task : \A v : Shown(s, v, card, silent, bus, call) => Shown(s, v, card', silent', bus', call')
    <3> SUFFICES ASSUME NEW s \in Task, NEW v, Shown(s, v, card, silent, bus, call)
                 PROVE  Shown(s, v, card', silent', bus', call')
      OBVIOUS
    <3>1. CASE s = t /\ card'[t].status # card[t].status
      <4>1. due => \E p \in Request : call'[p].pc = "publish" /\ call'[p].task = s
        BY <1>2, <2>4, <3>1
      <4>2. ~due => s \in silent'
        BY <2>1, <2>3, <3>1
      <4> QED
        BY <4>1, <4>2 DEF Shown
    <3>2. CASE s # t \/ card'[t].status = card[t].status
      <4>1. card'[s].status = card[s].status /\ silent \subseteq silent'
        BY <2>1, <2>3, <3>2
      <4>2. \A p \in Request : call[p].pc = "publish" => call'[p] = call[p]
        BY <1>1, <2>4
      <4> QED
        BY <1>1, <4>1, <4>2 DEF Shown
    <3> QED
      BY <3>1, <3>2
  <2>9. Truthful'
    <3>1. \A p \in Request : Reading(call'[p]) => call'[p] = call[p]
      BY <1>2, <2>4
    <3> QED
      BY <1>1, <2>8, <3>1, StillShown DEF Truthful
  <2> QED
    BY <2>7, <2>9 DEF ContextInv
<1>4. CASE q.meta # Nil
  <2>1. /\ card' = [card EXCEPT ![t].note = q.meta.note, ![t].compacted = q.meta.compacted]
        /\ call' = [Overwritten(call, t) EXCEPT ![r] = fresh]
        /\ shrink' = Overwritten(shrink, t) /\ silent' = silent
    BY <1>0, <1>4 DEF WriteUpdate
  <2> HIDE DEF fresh
  <2>2. q.meta.note \in Nat /\ q.meta.compacted \in BOOLEAN
    BY <1>1, <1>4 DEF CallRow, Metadata
  <2>3. card' \in [Task -> Card]
    BY <1>1, <2>1, <2>2 DEF Card
  <2>4. /\ \A s \in Task \ {t} : card'[s].note = card[s].note
        /\ \A s \in Task : card'[s].status = card[s].status
    BY <1>1, <2>1 DEF Card
  <2>5. /\ call' \in [Request -> CallRow] /\ call'[r] = fresh
        /\ \A p \in Request \ {r} : call'[p] = Overwritten(call, t)[p]
    BY <1>1, <1>2, <2>1, <2>3, <2>4, OverwrittenOK
  <2>6. \A p \in Request : CallOK(call'[p], card')
    BY <1>1, <1>2, <2>3, <2>4, <2>5, OverwrittenOK
  <2>7. shrink' \in [Worker -> ShrinkRow] /\ \A w \in Worker : ShrinkOK(shrink'[w], card')
    BY <1>1, <2>1, <2>3, <2>4, OverwrittenOK
  <2>8. ContextShape'
    BY <1>1, <2>3, <2>5, <2>6, <2>7 DEF ContextInv, ContextShape
  <2>9. \A p \in Request :
          /\ call[p].pc = "publish" => call'[p].pc = "publish" /\ call'[p].task = call[p].task
          /\ Reading(call'[p]) => /\ Reading(call[p]) /\ call'[p].seen = call[p].seen
                                  /\ call[p].raced => call'[p].raced
    BY <1>1, <1>2, <2>3, <2>4, <2>5, OverwrittenOK DEF Reading
  <2> QED
    BY <1>1, <2>1, <2>4, <2>8, <2>9, OthersMove
<1> QED
  BY <1>3, <1>4

LEMMA SilentWriteInv ==
  ASSUME ContextInv, NEW r \in Request, SilentWrite(r)
  PROVE  ContextInv'
<1>1. PICK t \in Task, s \in Statuses : card' = [card EXCEPT ![t].status = s] /\ silent' = silent \cup {t}
  BY DEF SilentWrite
<1>2. cache' = cache /\ bus' = bus /\ call' = call /\ shrink' = shrink /\ clock' = clock
  BY DEF SilentWrite
<1>3. /\ card' \in [Task -> Card] /\ \A x \in Task : card'[x].note = card[x].note
      /\ \A x \in Task \ {t} : card'[x].status = card[x].status
  BY <1>1 DEF ContextInv, ContextShape, Card, Status
<1>4. (\A p \in Request : CallOK(call'[p], card')) /\ (\A w \in Worker : ShrinkOK(shrink'[w], card'))
  BY <1>2, <1>3 DEF ContextInv, ContextShape, CallOK, ShrinkOK
<1>5. ContextShape'
  BY <1>2, <1>3, <1>4 DEF ContextInv, ContextShape
<1>6. \A x \in Task : \A v : Shown(x, v, card, silent, bus, call) => Shown(x, v, card', silent', bus', call')
  BY <1>1, <1>2, <1>3 DEF Shown
<1>7. Truthful'
  BY <1>2, <1>6, StillShown DEF Truthful
<1> QED
  BY <1>5, <1>7 DEF ContextInv

LEMMA DeliverChangeInv ==
  ASSUME ContextInv, DeliverChange
  PROVE  ContextInv'
<1>0. PICK t : t = Head(bus).task
  OBVIOUS
<1> DEFINE Hit(q) == q.pc \in {"node", "siblings", "store"} /\ PlanOf[q.task] = PlanOf[t]
<1>1. /\ bus # <<>> /\ bus' = Tail(bus) /\ card' = card /\ silent' = silent /\ clock' = clock
      /\ cache' \in InvalidatePlanContext(cache, t)
      /\ call' = [r \in Request |-> IF Hit(call[r]) THEN [call[r] EXCEPT !.raced = TRUE] ELSE call[r]]
  BY <1>0 DEF DeliverChange
<1>2. /\ bus \in Seq(Change) /\ call \in [Request -> CallRow] /\ CacheOK(cache)
      /\ card \in [Task -> Card] /\ shrink \in [Worker -> ShrinkRow]
  BY DEF ContextInv, ContextShape
<1>3. t \in Task
  <2>1. Head(bus) \in Change
    BY <1>1, <1>2, HeadTailProperties
  <2> QED
    BY <1>0, <2>1 DEF Change
<1>4. /\ bus' \in Seq(Change)
      /\ \A j \in DOMAIN bus : bus[j].task # t => \E i \in DOMAIN bus' : bus'[i] = bus[j]
  <2>1. /\ bus' \in Seq(Change) /\ Len(bus') = Len(bus) - 1 /\ Len(bus) \in Nat \ {0}
        /\ \A i \in 1 .. Len(bus') : bus'[i] = bus[i + 1]
    BY <1>1, <1>2, HeadTailProperties, EmptySeq
  <2>2. /\ DOMAIN bus = 1 .. Len(bus) /\ DOMAIN bus' = 1 .. Len(bus') /\ Head(bus) = bus[1]
    BY <1>1, <1>2, <2>1, LenProperties
  <2>3. ASSUME NEW j \in DOMAIN bus, bus[j].task # t PROVE \E i \in DOMAIN bus' : bus'[i] = bus[j]
    <3>1. j # 1
      BY <1>0, <2>2, <2>3
    <3>2. j - 1 \in 1 .. Len(bus') /\ bus'[j - 1] = bus[(j - 1) + 1] /\ (j - 1) + 1 = j
      BY <2>1, <2>2, <3>1
    <3> QED
      BY <2>2, <3>2
  <2> QED
    BY <2>1, <2>3
<1>5. /\ CacheOK(cache')
      /\ \A i \in DOMAIN cache' : \E j \in DOMAIN cache :
           PlanOf[cache[j].key.task] # PlanOf[t] /\ cache'[i] = cache[j]
  <2> DEFINE S == {i \in DOMAIN cache : PlanOf[cache[i].key.task] # PlanOf[t]}
  <2>1. S \in SUBSET (DOMAIN cache) /\ cache' \in Kept(cache, S)
    BY <1>1 DEF InvalidatePlanContext
  <2>2. CacheOK(cache') /\ \A i \in DOMAIN cache' : \E j \in S : cache'[i] = cache[j]
    BY <1>2, <2>1, KeptEntries
  <2> QED
    BY <2>2
<1>6. /\ call' \in [Request -> CallRow]
      /\ \A r \in Request :
           /\ call'[r].pc = call[r].pc /\ call'[r].task = call[r].task /\ call'[r].seen = call[r].seen
           /\ call'[r].meta = call[r].meta /\ call'[r].status = call[r].status
           /\ Hit(call[r]) => call'[r].raced = TRUE
           /\ ~Hit(call[r]) => call'[r] = call[r]
  <2>1. ASSUME NEW r \in Request
        PROVE  /\ call'[r] \in CallRow
               /\ call'[r].pc = call[r].pc /\ call'[r].task = call[r].task /\ call'[r].seen = call[r].seen
               /\ call'[r].meta = call[r].meta /\ call'[r].status = call[r].status
               /\ Hit(call[r]) => call'[r].raced = TRUE
               /\ ~Hit(call[r]) => call'[r] = call[r]
    BY <1>1, <1>2 DEF CallRow
  <2>2. call' = [r \in Request |-> call'[r]]
    BY <1>1
  <2> QED
    BY <2>1, <2>2
<1>7. \A r \in Request : CallOK(call'[r], card')
  <2>1. ASSUME NEW r \in Request PROVE CallOK(call'[r], card')
    <3>1. CallOK(call[r], card)
      BY DEF ContextInv, ContextShape
    <3>2. CASE Hit(call[r])
      BY <1>1, <1>6, <3>1, <3>2 DEF CallOK
    <3>3. CASE ~Hit(call[r])
      BY <1>1, <1>6, <3>1, <3>3
    <3> QED
      BY <3>2, <3>3
  <2> QED
    BY <2>1
<1>8. shrink' \in [Worker -> ShrinkRow] /\ \A w \in Worker : ShrinkOK(shrink'[w], card')
  <2>1. \A w \in Worker : ShrinkOK(shrink[w], card)
    BY DEF ContextInv, ContextShape
  <2>2. CASE shrink' = shrink
    BY <1>1, <1>2, <2>1, <2>2
  <2>3. ASSUME NEW w \in Worker, shrink' = [shrink EXCEPT ![w] = [NoShrink EXCEPT !.pc = "node", !.task = t]]
        PROVE  shrink' \in [Worker -> ShrinkRow] /\ \A v \in Worker : ShrinkOK(shrink'[v], card')
    <3> DEFINE k == [NoShrink EXCEPT !.pc = "node", !.task = t]
    <3>1. k \in ShrinkRow /\ k.pc = "node" /\ k.task = t
      BY <1>3, ContextRows DEF NoShrink, ShrinkRow
    <3>2. shrink' = [shrink EXCEPT ![w] = k]
      BY <2>3
    <3> HIDE DEF k
    <3>3. ShrinkOK(k, card')
      BY <1>3, <3>1 DEF ShrinkOK
    <3> QED
      BY <1>1, <1>2, <2>1, <3>1, <3>2, <3>3
  <2> QED
    BY <1>0, <2>2, <2>3 DEF DeliverChange
<1>9. ContextShape'
  BY <1>1, <1>2, <1>4, <1>5, <1>6, <1>7, <1>8 DEF ContextInv, ContextShape
<1>10. \A s \in Task \ {t} : \A v :
         Shown(s, v, card, silent, bus, call) => Shown(s, v, card', silent', bus', call')
  BY <1>1, <1>4, <1>6 DEF Shown
<1>11. ASSUME NEW seen, NEW n, DOMAIN seen \subseteq Mates(n), PlanOf[n] # PlanOf[t],
              AllShown(seen, card, silent, bus, call)
       PROVE  AllShown(seen, card', silent', bus', call')
  <2>1. DOMAIN seen \subseteq Task \ {t}
    BY <1>11 DEF Mates
  <2> QED
    BY <1>10, <1>11, <2>1 DEF AllShown
<1>12. \A i \in DOMAIN cache' : cache'[i].raced \/ AllShown(cache'[i].seen, card', silent', bus', call')
  <2> SUFFICES ASSUME NEW i \in DOMAIN cache', ~cache'[i].raced
               PROVE  AllShown(cache'[i].seen, card', silent', bus', call')
    OBVIOUS
  <2>1. PICK j \in DOMAIN cache : PlanOf[cache[j].key.task] # PlanOf[t] /\ cache'[i] = cache[j]
    BY <1>5
  <2>2. AllShown(cache[j].seen, card, silent, bus, call) /\ DOMAIN cache[j].seen \subseteq Mates(cache[j].key.task)
    BY <1>2, <2>1 DEF ContextInv, Truthful, CacheOK
  <2> QED
    BY <1>11, <2>1, <2>2
<1>13. ASSUME NEW r \in Request, Reading(call'[r]), ~call'[r].raced
       PROVE  AllShown(call'[r].seen, card', silent', bus', call')
  <2>1. ~Hit(call[r]) /\ call'[r] = call[r] /\ Reading(call[r])
    BY <1>6, <1>13 DEF Reading
  <2>2. PlanOf[call[r].task] # PlanOf[t]
    BY <2>1 DEF Reading
  <2>3. AllShown(call[r].seen, card, silent, bus, call) /\ DOMAIN call[r].seen \subseteq Mates(call[r].task)
    BY <1>13, <2>1 DEF ContextInv, ContextShape, Truthful, CallOK, Reading
  <2> QED
    BY <1>11, <2>1, <2>2, <2>3
<1>14. Truthful'
  BY <1>12, <1>13 DEF Truthful
<1> QED
  BY <1>9, <1>14 DEF ContextInv

LEMMA ShrinkStepInv ==
  ASSUME ContextInv, NEW w \in Worker, ShrinkStep(w)
  PROVE  ContextInv'
<1>1. /\ card \in [Task -> Card] /\ shrink \in [Worker -> ShrinkRow] /\ call \in [Request -> CallRow]
      /\ shrink[w] \in ShrinkRow /\ \A v \in Worker : ShrinkOK(shrink[v], card)
  BY DEF ContextInv, ContextShape
<1>2. ASSUME NEW new \in ShrinkRow, ShrinkOK(new, card), shrink' = [shrink EXCEPT ![w] = new],
             card' = card, cache' = cache, bus' = bus, call' = call, clock' = clock, silent' = silent
      PROVE  ContextInv'
  <2>1. shrink' \in [Worker -> ShrinkRow] /\ \A v \in Worker : ShrinkOK(shrink'[v], card')
    BY <1>1, <1>2
  <2>2. ContextShape'
    BY <1>2, <2>1 DEF ContextInv, ContextShape
  <2> QED
    BY <1>2, <2>2, OthersMove
<1>3. CASE ReadForCompaction(w)
  <2> DEFINE new == [shrink[w] EXCEPT !.pc = "logs", !.row = card[shrink[w].task], !.raced = FALSE]
  <2>1. shrink[w].pc = "node" /\ shrink[w].task \in Task /\ shrink' = [shrink EXCEPT ![w] = new]
    BY <1>1, <1>3 DEF ReadForCompaction, ShrinkOK
  <2>2. /\ new \in ShrinkRow /\ new.task = shrink[w].task /\ new.row = card[shrink[w].task]
        /\ new.row \in Card
    BY <1>1, <2>1 DEF ShrinkRow
  <2> HIDE DEF new
  <2>3. ShrinkOK(new, card)
    BY <2>1, <2>2 DEF ShrinkOK
  <2> QED
    BY <1>2, <1>3, <2>1, <2>2, <2>3 DEF ReadForCompaction
<1>4. CASE ReadFindings(w)
  <2> DEFINE new == IF shrink[w].task \in found THEN [shrink[w] EXCEPT !.pc = "write"] ELSE NoShrink
  <2>1. shrink[w].pc = "logs" /\ shrink' = [shrink EXCEPT ![w] = new]
    BY <1>1, <1>4 DEF ReadFindings
  <2>2. new \in ShrinkRow /\ ShrinkOK(new, card)
    BY <1>1, <2>1, ContextRows DEF ShrinkRow, ShrinkOK
  <2> HIDE DEF new
  <2> QED
    BY <1>2, <1>4, <2>1, <2>2 DEF ReadFindings
<1>5. CASE WriteCompacted(w)
  <2>0. PICK t : t = shrink[w].task
    OBVIOUS
  <2>1. /\ shrink[w].pc = "write" /\ t \in Task /\ shrink[w].row.note \in Nat
        /\ card' = [card EXCEPT ![t].note = shrink[w].row.note, ![t].compacted = TRUE]
        /\ call' = Overwritten(call, t)
        /\ shrink' = [Overwritten(shrink, t) EXCEPT ![w] = NoShrink]
        /\ cache' = cache /\ bus' = bus /\ clock' = clock /\ silent' = silent
    BY <1>1, <1>5, <2>0 DEF WriteCompacted, ShrinkOK, Card
  <2>2. card' \in [Task -> Card]
    BY <1>1, <2>1 DEF Card
  <2>3. /\ \A s \in Task \ {t} : card'[s].note = card[s].note
        /\ \A s \in Task : card'[s].status = card[s].status
    BY <1>1, <2>1 DEF Card
  <2>4. /\ call' \in [Request -> CallRow]
        /\ \A r \in Request : /\ CallOK(call'[r], card') /\ call'[r].pc = call[r].pc
                              /\ call'[r].task = call[r].task /\ call'[r].seen = call[r].seen
                              /\ call[r].raced => call'[r].raced
    BY <2>1, <2>2, <2>3, OverwrittenOK
  <2>5. shrink' \in [Worker -> ShrinkRow] /\ \A v \in Worker : ShrinkOK(shrink'[v], card')
    <3>1. ShrinkOK(NoShrink, card')
      BY ContextRows DEF ShrinkOK
    <3> QED
      BY <2>1, <2>2, <2>3, <3>1, ContextRows, OverwrittenOK
  <2>6. ContextShape'
    BY <2>1, <2>2, <2>4, <2>5 DEF ContextInv, ContextShape
  <2> QED
    BY <2>1, <2>3, <2>4, <2>6, OthersMove DEF Reading
<1> QED
  BY <1>3, <1>4, <1>5 DEF ShrinkStep

LEMMA ContextStepInv == ContextInv /\ [ContextNext]_contextVars => ContextInv'
<1> SUFFICES ASSUME ContextInv, [ContextNext]_contextVars PROVE ContextInv'
  OBVIOUS
<1>1. ASSUME card' = card, cache' = cache, bus' = bus, call' = call, shrink' = shrink,
             silent' = silent, clock' \in Int
      PROVE  ContextInv'
  <2>1. ContextShape'
    BY <1>1 DEF ContextInv, ContextShape
  <2> QED
    BY <1>1, <2>1, OthersMove
<1>2. CASE UNCHANGED contextVars
  BY <1>1, <1>2 DEF contextVars, ContextInv, ContextShape
<1>3. CASE TickContext
  BY <1>1, <1>3 DEF TickContext, ContextInv, ContextShape
<1>4. ASSUME NEW r \in Request, AddFinding(r) PROVE ContextInv'
  BY <1>1, <1>4 DEF AddFinding, ContextInv, ContextShape
<1> QED
  BY <1>2, <1>3, <1>4, StartUpdateInv, WriteUpdateInv, PublishChangeInv, SilentWriteInv, ReadContextInv,
     ReadTaskInv, ReadSiblingsInv, StoreContextInv, DeliverChangeInv, ShrinkStepInv
     DEF ContextNext, CallStep

(* What agents are told about a task and its siblings is up to date, or a  *)
(* change is on its way, went unannounced or came while the context was    *)
(* put together; and the cache keeps its limit, and one context of a task  *)
(* (contextEngine.js).                                                     *)
THEOREM CacheIsCurrent == ContextSpec => []CachedStatusCurrent
<1>1. ContextInv => CachedStatusCurrent
  <2> SUFFICES ASSUME ContextInv PROVE CachedStatusCurrent
    OBVIOUS
  <2>1. Len(cache) <= MaxEntries /\ \A i, j \in DOMAIN cache : cache[i].key = cache[j].key => i = j
    BY DEF ContextInv, ContextShape, CacheOK
  <2>2. ASSUME NEW i \in DOMAIN cache, NEW t \in DOMAIN cache[i].seen
        PROVE  \/ cache[i].seen[t] = card[t].status
               \/ cache[i].raced \/ t \in silent
               \/ \E j \in DOMAIN bus : bus[j].task = t
               \/ \E r \in Request : CallAt(r, "publish") /\ call[r].task = t
    BY DEF ContextInv, Truthful, AllShown, Shown, CallAt
  <2> QED
    BY <2>1, <2>2 DEF CachedStatusCurrent
<1> QED
  BY <1>1, ContextInitInv, ContextStepInv, PTL DEF ContextSpec

(* Metadata that a client wrote is undone only by an update or a           *)
(* compaction that read it before (updateNode, compactResearchOutput).     *)
THEOREM NotesSafe == ContextSpec => NotesLostOnlyByRaces
<1>1. ASSUME ContextInv, [ContextNext]_contextVars
      PROVE  [\A t \in Task : card'[t].note < card[t].note =>
                \/ \E r \in Request : CallAt(r, "write") /\ call[r].task = t /\ call[r].raced
                \/ \E w \in Worker : shrink[w].pc = "write" /\ shrink[w].task = t
                                     /\ shrink[w].raced]_contextVars
  <2> SUFFICES ASSUME NEW t \in Task, card'[t].note < card[t].note
               PROVE  \/ \E r \in Request : CallAt(r, "write") /\ call[r].task = t /\ call[r].raced
                      \/ \E w \in Worker : shrink[w].pc = "write" /\ shrink[w].task = t /\ shrink[w].raced
    OBVIOUS
  <2>1. card \in [Task -> Card] /\ card[t].note \in Nat
    BY <1>1 DEF ContextInv, ContextShape, Card
  <2>2. CASE card' = card
    BY <2>1, <2>2
  <2>3. ASSUME NEW r \in Request, WriteUpdate(r)
        PROVE  CallAt(r, "write") /\ call[r].task = t /\ call[r].raced
    <3>1. CallOK(call[r], card) /\ call[r].pc = "write" /\ call[r].task \in Task
      BY <1>1, <2>3 DEF ContextInv, ContextShape, WriteUpdate, CallAt, CallOK
    <3>2. CASE call[r].meta = Nil
      <4>1. card' = [card EXCEPT ![call[r].task].status = call[r].status]
        BY <2>3, <3>2 DEF WriteUpdate
      <4>2. card'[t].note = card[t].note
        BY <2>1, <3>1, <4>1 DEF Card
      <4> QED
        BY <2>1, <4>2
    <3>3. CASE call[r].meta # Nil
      <4>1. card' = [card EXCEPT ![call[r].task].note = call[r].meta.note,
                                 ![call[r].task].compacted = call[r].meta.compacted]
        BY <2>3, <3>3 DEF WriteUpdate
      <4>2. call[r].task = t /\ card'[t].note = call[r].meta.note
        BY <2>1, <3>1, <4>1 DEF Card
      <4> QED
        BY <2>1, <3>1, <3>3, <4>2 DEF CallOK, CallAt
    <3> QED
      BY <3>2, <3>3
  <2>4. ASSUME NEW r \in Request, SilentWrite(r) PROVE FALSE
    <3>1. PICK x \in Task, s \in Statuses : card' = [card EXCEPT ![x].status = s]
      BY <2>4 DEF SilentWrite
    <3>2. card'[t].note = card[t].note
      BY <2>1, <3>1 DEF Card
    <3> QED
      BY <2>1, <3>2
  <2>5. ASSUME NEW w \in Worker, WriteCompacted(w)
        PROVE  shrink[w].pc = "write" /\ shrink[w].task = t /\ shrink[w].raced
    <3>1. /\ ShrinkOK(shrink[w], card) /\ shrink[w].pc = "write" /\ shrink[w].task \in Task
      BY <1>1, <2>5 DEF ContextInv, ContextShape, WriteCompacted, ShrinkOK
    <3>2. card' = [card EXCEPT ![shrink[w].task].note = shrink[w].row.note,
                               ![shrink[w].task].compacted = TRUE]
      BY <2>5 DEF WriteCompacted
    <3>3. shrink[w].task = t /\ card'[t].note = shrink[w].row.note
      BY <2>1, <3>1, <3>2 DEF Card
    <3> QED
      BY <2>1, <3>1, <3>3 DEF ShrinkOK
  <2> QED
    BY <1>1, <2>2, <2>3, <2>4, <2>5
       DEF ContextNext, contextVars, CallStep, ShrinkStep, StartUpdate, AddFinding, ReadContext, ReadTask,
           ReadSiblings, StoreContext, PublishChange, ReadForCompaction, ReadFindings, DeliverChange, TickContext
<1> QED
  BY <1>1, ContextInitInv, ContextStepInv, PTL DEF ContextSpec, NotesLostOnlyByRaces

-----------------------------------------------------------------------------
(***************************************************************************)
(* Presence. Proof that the list of the users on a plan is right, for any  *)
(* number of sockets, users and handlers.                                  *)
(*                                                                         *)
(* Everyone listed has a socket that is on the plan to stay, or about to   *)
(* be (Vouched); a user with one socket that does not hurry is registered  *)
(* with it and listed where it is or goes (Listed).                        *)
(***************************************************************************)
HandlerRow ==
  [pc : {"idle", "joinPlan", "setPlan", "joinNode", "setNode", "startTimer"},
   socket : Socket \cup {Nil}, at : ViewedPlan \cup ViewedNode \cup {Nil}]

(* Is a message handler of s about to take s from one plan to another? *)
Moving(s) == \E r \in Request : handler[r].socket = s /\ handler[r].pc \in {"joinPlan", "setPlan"}

PresenceShape ==
  /\ socket \in [Socket -> {"new", "authenticating", "lost", "open", "closed"}]
  /\ connections \in [SocketUsers -> Socket \cup {Nil}]
  /\ handler \in [Request -> HandlerRow]
  /\ onPlan \in [Socket -> ViewedPlan \cup {Nil}]
  /\ planUsers \subseteq ViewedPlan \X SocketUsers

(* Handlers run for open sockets, two at a time only for one that hurries, *)
(* and know their plan; a socket is on a plan only while it is open.       *)
HandlersFit ==
  /\ \A r \in Request :
       /\ handler[r].pc # "idle" => handler[r].socket \in Socket /\ socket[handler[r].socket] = "open"
       /\ handler[r].pc = "idle" => handler[r].socket = Nil
       /\ handler[r].pc = "joinPlan" => handler[r].at \in ViewedPlan
       /\ handler[r].pc = "setPlan" => handler[r].at \in ViewedPlan \cup {Nil}
  /\ \A q, r \in Request : q # r /\ handler[q].socket = handler[r].socket
                           => handler[q].socket \in hurried \cup {Nil}
  /\ \A s \in Socket : onPlan[s] # Nil => socket[s] = "open"

(* Everyone listed has a socket that is on the plan to stay, or about to   *)
(* be.                                                                     *)
Vouches(s, p) ==
  \/ onPlan[s] = p /\ ~Moving(s)
  \/ \E r \in Request : handler[r].pc = "setPlan" /\ handler[r].socket = s /\ handler[r].at = p
  \/ s \in hurried

Vouched == \A e \in planUsers : \E s \in Socket : SocketUser[s] = e[2] /\ Vouches(s, e[1])

Alone(s) ==
  /\ socket[s] = "open" /\ s \notin hurried
  /\ \A t \in Socket \ {s} : SocketUser[t] = SocketUser[s] => socket[t] = "new"

(* A user with one socket is registered with it, and listed where it is or *)
(* goes.                                                                   *)
Listed ==
  \A s \in Socket : Alone(s) =>
    /\ connections[SocketUser[s]] = s
    /\ onPlan[s] # Nil /\ ~Moving(s) => <<onPlan[s], SocketUser[s]>> \in planUsers
    /\ \A r \in Request : handler[r].pc = "setPlan" /\ handler[r].socket = s /\ handler[r].at # Nil =>
         <<handler[r].at, SocketUser[s]>> \in planUsers

PresenceInv == PresenceShape /\ HandlersFit /\ Vouched /\ Listed

-----------------------------------------------------------------------------
LEMMA HandlerRows == NoHandler \in HandlerRow /\ NoHandler.pc = "idle" /\ NoHandler.socket = Nil
  BY DEF NoHandler, HandlerRow

LEMMA PresenceInitInv == PresenceInit => PresenceInv
  BY HandlerRows
     DEF PresenceInit, PresenceInv, PresenceShape, HandlersFit, Vouched, Listed, Alone, Moving, SocketUsers

LEMMA UsersOfSockets == \A s \in Socket : SocketUser[s] \in SocketUsers
  BY DEF SocketUsers

(* A socket connects, is authenticated, refused or lost: nobody's plan     *)
(* changes.                                                                *)
LEMMA SocketInv ==
  ASSUME PresenceInv, NEW s \in Socket, Connect(s) \/ Authenticated(s) \/ Rejected(s) \/ ClientGone(s)
  PROVE  PresenceInv'
<1>1. /\ planUsers' = planUsers /\ onPlan' = onPlan /\ handler' = handler /\ hurried' = hurried
      /\ socket[s] # "open" /\ socket'[s] # "new" /\ \A t \in Socket \ {s} : socket'[t] = socket[t]
      /\ socket' \in [Socket -> {"new", "authenticating", "lost", "open", "closed"}]
      /\ connections' \in [SocketUsers -> Socket \cup {Nil}]
      /\ socket'[s] = "open" => connections'[SocketUser[s]] = s
      /\ \A u \in SocketUsers \ {SocketUser[s]} : connections'[u] = connections[u]
      /\ socket[s] = "new" => connections' = connections
  BY UsersOfSockets DEF Connect, Authenticated, Rejected, ClientGone, PresenceInv, PresenceShape
<1>2. PresenceShape' /\ HandlersFit'
  BY <1>1 DEF PresenceInv, PresenceShape, HandlersFit
<1>3. Vouched'
  BY <1>1 DEF PresenceInv, Vouched, Vouches, Moving
<1>4. ASSUME NEW t \in Socket, Alone(t)'
      PROVE  /\ connections'[SocketUser[t]] = t
             /\ onPlan[t] # Nil /\ ~Moving(t) => <<onPlan[t], SocketUser[t]>> \in planUsers
             /\ \A r \in Request : handler[r].pc = "setPlan" /\ handler[r].socket = t /\ handler[r].at # Nil =>
                  <<handler[r].at, SocketUser[t]>> \in planUsers
  <2>1. CASE t = s
    <3>1. onPlan[s] = Nil /\ \A r \in Request : handler[r].socket # s
      BY <1>1, PresenceAssumption DEF PresenceInv, HandlersFit
    <3> QED
      BY <1>1, <1>4, <2>1, <3>1 DEF Alone
  <2>2. CASE t # s
    <3>1. SocketUser[t] # SocketUser[s]
      BY <1>1, <1>4, <2>2 DEF Alone
    <3>2. Alone(t) /\ connections'[SocketUser[t]] = connections[SocketUser[t]]
      BY <1>1, <1>4, <2>2, <3>1, UsersOfSockets DEF Alone
    <3> QED
      BY <3>2 DEF PresenceInv, Listed
  <2> QED
    BY <2>1, <2>2
<1>5. Listed'
  BY <1>1, <1>4 DEF Listed, Moving
<1> QED
  BY <1>2, <1>3, <1>5 DEF PresenceInv

LEMMA CloseInv ==
  ASSUME PresenceInv, NEW s \in Socket, Close(s)
  PROVE  PresenceInv'
<1>1. /\ socket[s] = "open" /\ ~Busy(s) /\ socket' = [socket EXCEPT ![s] = "closed"]
      /\ connections' = [connections EXCEPT ![SocketUser[s]] = Nil]
      /\ planUsers' = planUsers \ {<<onPlan[s], SocketUser[s]>>}
      /\ onPlan' = [onPlan EXCEPT ![s] = Nil] /\ handler' = handler /\ hurried' = hurried
  BY DEF Close
<1>2. /\ onPlan'[s] = Nil /\ socket'[s] = "closed"
      /\ \A t \in Socket \ {s} : onPlan'[t] = onPlan[t] /\ socket'[t] = socket[t]
      /\ \A r \in Request : handler[r].socket # s
      /\ \A u \in SocketUsers \ {SocketUser[s]} : connections'[u] = connections[u]
  BY <1>1 DEF Busy, PresenceInv, PresenceShape
<1>3. PresenceShape'
  BY <1>1, UsersOfSockets DEF PresenceInv, PresenceShape
<1>4. HandlersFit'
  BY <1>1, <1>2 DEF PresenceInv, HandlersFit
<1>5. Vouched'
  <2> SUFFICES ASSUME NEW e \in planUsers' PROVE \E t \in Socket : SocketUser[t] = e[2] /\ Vouches(t, e[1])'
    BY DEF Vouched
  <2>1. PICK t \in Socket : SocketUser[t] = e[2] /\ Vouches(t, e[1])
    BY <1>1 DEF PresenceInv, Vouched
  <2>2. e = <<e[1], e[2]>>
    BY <1>1 DEF PresenceInv, PresenceShape
  <2>3. t = s => onPlan[s] # e[1]
    BY <1>1, <2>1, <2>2
  <2> QED
    BY <1>1, <1>2, <2>1, <2>3 DEF Vouches, Moving
<1>6. Listed'
  <2> SUFFICES ASSUME NEW t \in Socket, Alone(t)'
               PROVE  /\ connections'[SocketUser[t]] = t
                      /\ onPlan'[t] # Nil /\ ~Moving(t)' => <<onPlan'[t], SocketUser[t]>> \in planUsers'
                      /\ \A r \in Request : handler'[r].pc = "setPlan" /\ handler'[r].socket = t
                                            /\ handler'[r].at # Nil =>
                           <<handler'[r].at, SocketUser[t]>> \in planUsers'
    BY DEF Listed
  <2>1. t # s /\ SocketUser[t] # SocketUser[s]
    BY <1>1, <1>2 DEF Alone
  <2>2. Alone(t) /\ connections'[SocketUser[t]] = connections[SocketUser[t]]
    BY <1>1, <1>2, <2>1, UsersOfSockets DEF Alone
  <2>3. \A p : <<p, SocketUser[t]>> \in planUsers => <<p, SocketUser[t]>> \in planUsers'
    BY <1>1, <2>1
  <2> QED
    BY <1>1, <1>2, <2>1, <2>2, <2>3 DEF PresenceInv, Listed, Moving
<1> QED
  BY <1>3, <1>4, <1>5, <1>6 DEF PresenceInv

(* A message of s is received; what it does to the plan is given. *)
LEMMA ReceiveInv ==
  ASSUME PresenceInv, NEW r \in Request, NEW s \in Socket,
         NEW p \in {"joinPlan", "setPlan", "joinNode", "setNode", "startTimer"},
         NEW at \in ViewedPlan \cup ViewedNode \cup {Nil}, Receive(r, s, p, at),
         p = "joinPlan" => at \in ViewedPlan, p = "setPlan" => at \in ViewedPlan \cup {Nil},
         \/ p \notin {"joinPlan", "setPlan"} /\ planUsers' = planUsers
         \/ p \in {"joinPlan", "setPlan"} /\ (p = "setPlan" => at = Nil)
            /\ planUsers' = planUsers \ {<<onPlan[s], SocketUser[s]>>}
         \/ p = "setPlan" /\ at \in ViewedPlan /\ onPlan[s] = Nil
            /\ planUsers' = planUsers \cup {<<at, SocketUser[s]>>}
  PROVE  PresenceInv'
<1> DEFINE new == [pc |-> p, socket |-> s, at |-> at]
<1>1. /\ handler[r].pc = "idle" /\ socket[s] = "open" /\ handler' = [handler EXCEPT ![r] = new]
      /\ hurried' = IF Busy(s) THEN hurried \cup {s} ELSE hurried
      /\ socket' = socket /\ connections' = connections /\ onPlan' = onPlan
  BY DEF Receive, HandlerAt
<1>2. new \in HandlerRow /\ new.pc = p /\ new.socket = s /\ new.at = at
  BY DEF HandlerRow
<1> HIDE DEF new
<1>3. /\ handler' \in [Request -> HandlerRow] /\ handler'[r] = new
      /\ \A q \in Request \ {r} : handler'[q] = handler[q]
  BY <1>1, <1>2 DEF PresenceInv, PresenceShape
<1>4. handler[r].socket = Nil /\ s # Nil
  BY <1>1, PresenceAssumption DEF PresenceInv, HandlersFit
<1>5. planUsers' \subseteq ViewedPlan \X SocketUsers
  BY UsersOfSockets DEF PresenceInv, PresenceShape
<1>6. PresenceShape'
  BY <1>1, <1>3, <1>5 DEF PresenceInv, PresenceShape
<1>7. \A q \in Request \ {r} : handler[q].socket = s => s \in hurried'
  BY <1>1 DEF Busy
<1>8. HandlersFit'
  BY <1>1, <1>2, <1>3, <1>4, <1>7 DEF PresenceInv, HandlersFit
<1>9. Vouched'
  <2> SUFFICES ASSUME NEW e \in planUsers' PROVE \E t \in Socket : SocketUser[t] = e[2] /\ Vouches(t, e[1])'
    BY DEF Vouched
  <2>0. e = <<e[1], e[2]>> /\ e[1] \in ViewedPlan
    BY <1>5
  <2>1. CASE e \in planUsers
    <3>1. PICK t \in Socket : SocketUser[t] = e[2] /\ Vouches(t, e[1])
      BY <2>1 DEF PresenceInv, Vouched
    <3>2. CASE t # s \/ p \notin {"joinPlan", "setPlan"}
      <4>1. Moving(t)' => Moving(t)
        BY <1>2, <1>3, <3>2 DEF Moving
      <4> QED
        BY <1>1, <1>3, <1>4, <3>1, <4>1 DEF Vouches
    <3>3. CASE t = s /\ p \in {"joinPlan", "setPlan"}
      <4>1. onPlan[s] # e[1]
        BY <2>0, <3>1, <3>3, PresenceAssumption
      <4> QED
        BY <1>1, <1>3, <1>4, <3>1, <3>3, <4>1 DEF Vouches
    <3> QED
      BY <3>2, <3>3
  <2>2. CASE e \notin planUsers
    <3>1. p = "setPlan" /\ e = <<at, SocketUser[s]>>
      BY <2>2
    <3> QED
      BY <1>2, <1>3, <3>1 DEF Vouches
  <2> QED
    BY <2>1, <2>2
<1>10. Listed'
  <2> SUFFICES ASSUME NEW t \in Socket, Alone(t)'
               PROVE  /\ connections'[SocketUser[t]] = t
                      /\ onPlan'[t] # Nil /\ ~Moving(t)' => <<onPlan'[t], SocketUser[t]>> \in planUsers'
                      /\ \A q \in Request : handler'[q].pc = "setPlan" /\ handler'[q].socket = t
                                            /\ handler'[q].at # Nil =>
                           <<handler'[q].at, SocketUser[t]>> \in planUsers'
    BY DEF Listed
  <2>1. Alone(t)
    BY <1>1 DEF Alone
  <2>2. t # s => SocketUser[t] # SocketUser[s]
    BY <1>1, <2>1 DEF Alone
  <2>3. CASE t # s
    <3>1. \A x : <<x, SocketUser[t]>> \in planUsers => <<x, SocketUser[t]>> \in planUsers'
      BY <2>2, <2>3
    <3>2. Moving(t) <=> Moving(t)'
      BY <1>2, <1>3, <1>4, <2>3, PresenceAssumption DEF Moving
    <3> QED
      BY <1>1, <1>2, <1>3, <2>1, <2>3, <3>1, <3>2 DEF PresenceInv, Listed
  <2>4. CASE t = s
    <3>1. \A q \in Request \ {r} : handler'[q].socket # s
      BY <1>3, <1>7, <2>4 DEF Alone
    <3>2. p \in {"joinPlan", "setPlan"} => Moving(s)'
      BY <1>2, <1>3 DEF Moving
    <3>3. ~Moving(s)
      BY <1>3, <1>4, <3>1 DEF Moving
    <3>4. connections[SocketUser[s]] = s /\ (onPlan[s] # Nil => <<onPlan[s], SocketUser[s]>> \in planUsers)
      BY <2>1, <2>4, <3>3 DEF PresenceInv, Listed
    <3> QED
      BY <1>1, <1>2, <1>3, <2>4, <3>1, <3>2, <3>4
  <2> QED
    BY <2>3, <2>4
<1> QED
  BY <1>6, <1>8, <1>9, <1>10 DEF PresenceInv

(* A step of a handler that leaves the plans alone *)
LEMMA HandlerMoves ==
  ASSUME PresenceInv, NEW r \in Request, NEW new \in HandlerRow,
         handler' = [handler EXCEPT ![r] = new],
         handler[r].pc \in {"joinNode", "setNode", "startTimer"},
         \/ new.pc = "setNode" /\ new.socket = handler[r].socket
         \/ new = NoHandler,
         socket' = socket, connections' = connections, planUsers' = planUsers, onPlan' = onPlan,
         hurried' = hurried
  PROVE  PresenceInv'
<1>1. /\ handler' \in [Request -> HandlerRow] /\ handler'[r] = new
      /\ \A q \in Request \ {r} : handler'[q] = handler[q]
  BY DEF PresenceInv, PresenceShape
<1>2. PresenceShape' /\ HandlersFit'
  BY <1>1, HandlerRows DEF PresenceInv, PresenceShape, HandlersFit
<1>3. \A s \in Socket : Moving(s)' <=> Moving(s)
  BY <1>1, HandlerRows DEF Moving
<1>4. \A q \in Request : /\ handler'[q].pc = "setPlan" => handler'[q] = handler[q]
                         /\ handler[q].pc = "setPlan" => handler'[q] = handler[q]
  BY <1>1, HandlerRows
<1>5. Vouched'
  BY <1>3, <1>4 DEF PresenceInv, Vouched, Vouches
<1>6. Listed'
  BY <1>3, <1>4 DEF PresenceInv, Listed, Alone
<1> QED
  BY <1>2, <1>5, <1>6 DEF PresenceInv

LEMMA JoinNextInv ==
  ASSUME PresenceInv, NEW r \in Request, JoinNext(r)
  PROVE  PresenceInv'
<1> DEFINE q == handler[r]
<1>1. /\ q.pc \in {"joinPlan", "joinNode"} /\ q \in HandlerRow /\ q.socket \in Socket
      /\ socket' = socket /\ connections' = connections /\ onPlan' = onPlan /\ hurried' = hurried
  BY DEF JoinNext, PresenceInv, PresenceShape, HandlersFit
<1>2. CASE q.pc = "joinNode"
  <2> DEFINE new == [q EXCEPT !.pc = "setNode"]
  <2>1. new \in HandlerRow /\ new.pc = "setNode" /\ new.socket = q.socket
    BY <1>1 DEF HandlerRow
  <2>2. handler' = [handler EXCEPT ![r] = new] /\ planUsers' = planUsers
    BY <1>2 DEF JoinNext, PresenceInv, PresenceShape
  <2> HIDE DEF new
  <2> QED
    BY <1>1, <1>2, <2>1, <2>2, HandlerMoves
<1>3. CASE q.pc = "joinPlan"
  <2> DEFINE new == [q EXCEPT !.pc = "setPlan"]
  <2>0. PICK s \in Socket : s = q.socket
    BY <1>1
  <2>1. new \in HandlerRow /\ new.pc = "setPlan" /\ new.socket = s /\ new.at = q.at
    BY <1>1, <2>0 DEF HandlerRow
  <2>2. /\ handler' = [handler EXCEPT ![r] = new] /\ planUsers' = planUsers \cup {<<q.at, SocketUser[s]>>}
        /\ q.at \in ViewedPlan /\ s # Nil /\ socket[s] = "open"
    BY <1>3, <2>0, PresenceAssumption DEF JoinNext, PresenceInv, PresenceShape, HandlersFit
  <2> HIDE DEF new
  <2>3. /\ handler' \in [Request -> HandlerRow] /\ handler'[r] = new
        /\ \A p \in Request \ {r} : handler'[p] = handler[p]
    BY <2>1, <2>2 DEF PresenceInv, PresenceShape
  <2>4. PresenceShape'
    BY <1>1, <2>2, <2>3, UsersOfSockets DEF PresenceInv, PresenceShape
  <2>5. HandlersFit'
    BY <1>1, <2>0, <2>1, <2>2, <2>3, <1>3 DEF PresenceInv, HandlersFit
  <2>6. \A t \in Socket : Moving(t)' <=> Moving(t)
    BY <1>3, <2>0, <2>1, <2>3 DEF Moving
  <2>7. Vouched'
    <3> SUFFICES ASSUME NEW e \in planUsers' PROVE \E t \in Socket : SocketUser[t] = e[2] /\ Vouches(t, e[1])'
      BY DEF Vouched
    <3>1. CASE e = <<q.at, SocketUser[s]>>
      BY <2>1, <2>3, <3>1 DEF Vouches
    <3>2. CASE e \in planUsers
      <4>1. PICK t \in Socket : SocketUser[t] = e[2] /\ Vouches(t, e[1])
        BY <3>2 DEF PresenceInv, Vouched
      <4> QED
        BY <1>1, <1>3, <2>3, <2>6, <4>1 DEF Vouches
    <3> QED
      BY <2>2, <3>1, <3>2
  <2>8. Listed'
    <3> SUFFICES ASSUME NEW t \in Socket, Alone(t)'
                 PROVE  /\ connections'[SocketUser[t]] = t
                        /\ onPlan'[t] # Nil /\ ~Moving(t)' => <<onPlan'[t], SocketUser[t]>> \in planUsers'
                        /\ \A p \in Request : handler'[p].pc = "setPlan" /\ handler'[p].socket = t
                                              /\ handler'[p].at # Nil =>
                             <<handler'[p].at, SocketUser[t]>> \in planUsers'
      BY DEF Listed
    <3>1. Alone(t)
      BY <1>1 DEF Alone
    <3> QED
      BY <1>1, <2>1, <2>2, <2>3, <2>6, <3>1 DEF PresenceInv, Listed
  <2> QED
    BY <2>4, <2>5, <2>7, <2>8 DEF PresenceInv
<1> QED
  BY <1>1, <1>2, <1>3

LEMMA SetCurrentInv ==
  ASSUME PresenceInv, NEW r \in Request, SetCurrent(r)
  PROVE  PresenceInv'
<1> DEFINE q == handler[r]
<1>1. /\ q.pc \in {"setPlan", "setNode"} /\ q.socket \in Socket
      /\ onPlan' = IF q.pc = "setPlan" THEN [onPlan EXCEPT ![q.socket] = q.at] ELSE onPlan
      /\ handler' = [handler EXCEPT ![r] = NoHandler]
      /\ socket' = socket /\ connections' = connections /\ planUsers' = planUsers /\ hurried' = hurried
  BY DEF SetCurrent, HandlerDone, PresenceInv, HandlersFit
<1>2. CASE q.pc = "setNode"
  BY <1>1, <1>2, HandlerRows, HandlerMoves
<1>3. CASE q.pc = "setPlan"
  <2>0. PICK s \in Socket : s = q.socket
    BY <1>1
  <2>1. /\ onPlan'[s] = q.at /\ onPlan' \in [Socket -> ViewedPlan \cup {Nil}]
        /\ \A t \in Socket \ {s} : onPlan'[t] = onPlan[t]
        /\ socket[s] = "open" /\ s # Nil
    BY <1>1, <1>3, <2>0, PresenceAssumption DEF PresenceInv, PresenceShape, HandlersFit
  <2>2. /\ handler' \in [Request -> HandlerRow] /\ handler'[r] = NoHandler
        /\ \A p \in Request \ {r} : handler'[p] = handler[p]
    BY <1>1, HandlerRows DEF PresenceInv, PresenceShape
  <2>3. \A p \in Request \ {r} : handler[p].socket = s => s \in hurried
    BY <2>0, <2>1 DEF PresenceInv, HandlersFit
  <2>4. PresenceShape' /\ HandlersFit'
    BY <1>1, <2>0, <2>1, <2>2, HandlerRows DEF PresenceInv, PresenceShape, HandlersFit
  <2>5. \A t \in Socket \ {s} : Moving(t)' <=> Moving(t)
    BY <1>3, <2>0, <2>2, HandlerRows, PresenceAssumption DEF Moving
  <2>6. Moving(s)' => s \in hurried
    BY <2>1, <2>2, <2>3, HandlerRows DEF Moving
  <2>7. Moving(s)
    BY <1>3, <2>0 DEF Moving
  <2>8. Vouched'
    <3> SUFFICES ASSUME NEW e \in planUsers PROVE \E t \in Socket : SocketUser[t] = e[2] /\ Vouches(t, e[1])'
      BY <1>1 DEF Vouched
    <3>1. PICK t \in Socket : SocketUser[t] = e[2] /\ Vouches(t, e[1])
      BY DEF PresenceInv, Vouched
    <3>2. CASE t # s
      BY <1>1, <2>0, <2>1, <2>2, <2>5, <3>1, <3>2 DEF Vouches
    <3>3. CASE t = s
      <4>1. s \in hurried \/ q.at = e[1]
        BY <2>0, <2>3, <2>7, <3>1, <3>3 DEF Vouches
      <4> QED
        BY <1>1, <2>1, <2>6, <3>1, <3>3, <4>1 DEF Vouches
    <3> QED
      BY <3>2, <3>3
  <2>9. Listed'
    <3> SUFFICES ASSUME NEW t \in Socket, Alone(t)'
                 PROVE  /\ connections'[SocketUser[t]] = t
                        /\ onPlan'[t] # Nil /\ ~Moving(t)' => <<onPlan'[t], SocketUser[t]>> \in planUsers'
                        /\ \A p \in Request : handler'[p].pc = "setPlan" /\ handler'[p].socket = t
                                              /\ handler'[p].at # Nil =>
                             <<handler'[p].at, SocketUser[t]>> \in planUsers'
      BY DEF Listed
    <3>1. Alone(t)
      BY <1>1 DEF Alone
    <3>2. \A p \in Request : handler'[p].pc = "setPlan" => handler'[p] = handler[p]
      BY <2>2, HandlerRows
    <3>3. CASE t # s
      BY <1>1, <2>1, <2>5, <3>1, <3>2, <3>3 DEF PresenceInv, Listed
    <3>4. CASE t = s
      <4>1. /\ connections[SocketUser[s]] = s
            /\ \A p \in Request : handler[p].pc = "setPlan" /\ handler[p].socket = s /\ handler[p].at # Nil =>
                 <<handler[p].at, SocketUser[s]>> \in planUsers
        BY <3>1, <3>4 DEF PresenceInv, Listed
      <4>2. onPlan'[s] # Nil => <<onPlan'[s], SocketUser[s]>> \in planUsers
        BY <1>3, <2>0, <2>1, <4>1
      <4> QED
        BY <1>1, <3>2, <3>4, <4>1, <4>2
    <3> QED
      BY <3>3, <3>4
  <2> QED
    BY <2>4, <2>8, <2>9 DEF PresenceInv
<1> QED
  BY <1>1, <1>2, <1>3

(* The plan is not concerned. *)
LEMMA PlanApart ==
  ASSUME PresenceInv, planUsers' = planUsers, onPlan' = onPlan, handler' = handler, socket' = socket,
         connections' = connections, hurried \subseteq hurried'
  PROVE  PresenceInv'
<1>1. PresenceShape' /\ HandlersFit'
  BY DEF PresenceInv, PresenceShape, HandlersFit
<1>2. Vouched' /\ Listed'
  BY DEF PresenceInv, Vouched, Vouches, Listed, Alone, Moving
<1> QED
  BY <1>1, <1>2 DEF PresenceInv

LEMMA PresenceStepInv == PresenceInv /\ [PresenceNext]_presenceVars => PresenceInv'
<1> SUFFICES ASSUME PresenceInv, [PresenceNext]_presenceVars PROVE PresenceInv'
  OBVIOUS
<1>1. CASE UNCHANGED presenceVars
  BY <1>1, PlanApart DEF presenceVars
<1>2. ASSUME NEW s \in Socket, NEW r \in Request, NEW p \in ViewedPlan, JoinPlan(r, s, p)
      PROVE  PresenceInv'
  <2>1. CASE onPlan[s] = Nil
    <3>1. Receive(r, s, "setPlan", p) /\ planUsers' = planUsers \cup {<<p, SocketUser[s]>>}
      BY <1>2, <2>1 DEF JoinPlan
    <3> QED
      BY <2>1, <3>1, ReceiveInv
  <2>2. CASE onPlan[s] # Nil
    <3>1. Receive(r, s, "joinPlan", p) /\ planUsers' = planUsers \ {<<onPlan[s], SocketUser[s]>>}
      BY <1>2, <2>2 DEF JoinPlan
    <3> QED
      BY <3>1, ReceiveInv
  <2> QED
    BY <2>1, <2>2
<1>3. ASSUME NEW s \in Socket, NEW r \in Request, LeavePlan(r, s) PROVE PresenceInv'
  BY <1>3, ReceiveInv DEF LeavePlan
<1>4. ASSUME NEW s \in Socket, NEW r \in Request, LeaveNode(r, s) PROVE PresenceInv'
  BY <1>4, ReceiveInv DEF LeaveNode
<1>5. ASSUME NEW s \in Socket, NEW r \in Request, NEW n \in ViewedNode, JoinNode(r, s, n)
      PROVE  PresenceInv'
  BY <1>5, ReceiveInv DEF JoinNode
<1>6. ASSUME NEW s \in Socket, NEW r \in Request, NEW n \in ViewedNode, TypingStart(r, s, n)
      PROVE  PresenceInv'
  BY <1>6, ReceiveInv DEF TypingStart
<1>7. ASSUME NEW s \in Socket, NEW n \in ViewedNode, TypingStop(s, n) PROVE PresenceInv'
  BY <1>7, PlanApart DEF TypingStop
<1>8. ASSUME NEW e \in timers, TimerFires(e) PROVE PresenceInv'
  BY <1>8, PlanApart DEF TimerFires
<1>9. ASSUME NEW r \in Request, StartTimer(r) PROVE PresenceInv'
  BY <1>9, HandlerRows, HandlerMoves DEF StartTimer, HandlerAt, HandlerDone
<1> QED
  BY <1>1, <1>2, <1>3, <1>4, <1>5, <1>6, <1>7, <1>8, <1>9, SocketInv, CloseInv, JoinNextInv, SetCurrentInv
     DEF PresenceNext, HandlerStep

(* Closing a browser or changing plans leaves no ghost, and who is on a    *)
(* plan with one socket is listed there and reached by it, unless a socket *)
(* does not wait for the handler of its last message (collaboration.js).   *)
THEOREM PresenceIsTruthful == PresenceSpec => []PresenceTruthful
<1>1. PresenceInv => PresenceTruthful
  <2> SUFFICES ASSUME PresenceInv PROVE PresenceTruthful
    OBVIOUS
  <2>1. NoGhosts
    BY DEF PresenceInv, Vouched, Vouches, NoGhosts, HandlerAt
  <2>2. PresentListed
    BY DEF PresenceInv, Listed, Alone, Moving, Busy, PresentListed
  <2> QED
    BY <2>1, <2>2 DEF PresenceTruthful
<1> QED
  BY <1>1, PresenceInitInv, PresenceStepInv, PTL DEF PresenceSpec

-----------------------------------------------------------------------------
(***************************************************************************)
(* GraphitiBridge. Proof that the calls to Graphiti implement calls that   *)
(* are executed once at most, for any number of callers: the session       *)
(* handshake and its one retry are invisible.                              *)
(*                                                                         *)
(* A call is sent again only after an answer that says it was not executed *)
(* (Spent), which is what each step needs to be a step of Calls or to      *)
(* stutter.                                                                *)
(***************************************************************************)
ToolCall(q) ==
  /\ DOMAIN q = {"pc", "net", "sid"}
  /\ q.pc \in {"idle", "first", "initialize", "notify", "again"}
  /\ q.net \in {"out", "ok", "expired", "refused", Nil}
  /\ q.pc = "idle" <=> q.net = Nil

(* What has become of a call on which n executions were spent: before the  *)
(* answer of the last request there was none, and a result stands for      *)
(* exactly one.                                                            *)
Spent(q, n) ==
  /\ n \in {0, 1}
  /\ q.pc # "idle" =>
       IF q.pc \in {"first", "again"} /\ q.net = "ok" THEN n = 1
       ELSE (q.pc = "again" /\ q.net # "out") \/ n = 0

BridgeInv ==
  /\ DOMAIN toolCall = Request
  /\ executed \in [Request -> {0, 1}] /\ told \subseteq Request
  /\ \A r \in Request : ToolCall(toolCall[r]) /\ Spent(toolCall[r], executed[r])

LEMMA BridgeInitInv == BridgeInit => BridgeInv /\ Calls!Init
<1> SUFFICES ASSUME BridgeInit PROVE BridgeInv /\ Calls!Init
  OBVIOUS
<1>1. ToolCall(NoToolCall) /\ Spent(NoToolCall, 0) /\ NoToolCall.pc = "idle"
  BY DEF NoToolCall, ToolCall, Spent
<1>2. toolCall = [r \in Request |-> NoToolCall] /\ executed = [r \in Request |-> 0] /\ told = {}
  BY DEF BridgeInit
<1>3. BridgeInv
  BY <1>1, <1>2 DEF BridgeInv
<1>4. Calls!Init
  BY <1>1, <1>2 DEF Calls!Init, InCall
<1> QED
  BY <1>3, <1>4

(* The slot of a call changes, and the executions of no other. *)
LEMMA BridgeSlot ==
  ASSUME BridgeInv, NEW r \in Request, NEW new, toolCall' = [toolCall EXCEPT ![r] = new],
         NEW n \in {0, 1}, executed' = [executed EXCEPT ![r] = n],
         ToolCall(new), Spent(new, n), told' \subseteq told \cup {r}
  PROVE  /\ BridgeInv'
         /\ toolCall'[r] = new /\ executed'[r] = n
         /\ \A q \in Request \ {r} : toolCall'[q] = toolCall[q] /\ executed'[q] = executed[q]
<1>1. /\ DOMAIN toolCall' = Request /\ executed' \in [Request -> {0, 1}]
      /\ toolCall'[r] = new /\ executed'[r] = n
      /\ \A q \in Request \ {r} : toolCall'[q] = toolCall[q] /\ executed'[q] = executed[q]
  BY DEF BridgeInv
<1>2. \A q \in Request : ToolCall(toolCall'[q]) /\ Spent(toolCall'[q], executed'[q])
  BY <1>1 DEF BridgeInv
<1> QED
  BY <1>1, <1>2 DEF BridgeInv

(* Every step is a step of the abstract calls, or none of their business. *)
Abstract == Calls!Next \/ UNCHANGED Calls!vars

LEMMA BootStep ==
  ASSUME BridgeInv, Boot
  PROVE  BridgeInv' /\ Abstract
  BY DEF Boot, BridgeInv, Abstract, Calls!vars, InCall

LEMMA CallToolStep ==
  ASSUME BridgeInv, NEW r \in Request, CallTool(r)
  PROVE  BridgeInv' /\ Abstract
<1> DEFINE new == [pc |-> "first", net |-> "out", sid |-> sessionId]
<1>1. /\ toolCall' = [toolCall EXCEPT ![r] = new] /\ executed' = [executed EXCEPT ![r] = 0]
      /\ told' = told \ {r} /\ ~InCall(r)
  BY DEF CallTool
<1>2. ToolCall(new) /\ Spent(new, 0) /\ new.pc = "first"
  BY BridgeAssumption DEF ToolCall, Spent
<1> HIDE DEF new
<1>3. /\ BridgeInv' /\ toolCall'[r] = new /\ executed'[r] = 0
      /\ \A q \in Request \ {r} : toolCall'[q] = toolCall[q] /\ executed'[q] = executed[q]
  BY <1>1, <1>2, BridgeSlot
<1>4. Calls!Call(r)
  BY <1>1, <1>2, <1>3 DEF Calls!Call, InCall
<1> QED
  BY <1>3, <1>4 DEF Abstract, Calls!Next

LEMMA AnswerStep ==
  ASSUME BridgeInv, NEW r \in Request, Answer(r)
  PROVE  BridgeInv' /\ Abstract
<1> DEFINE q     == toolCall[r]
           carry == q.sid \in sessions /\ q.pc \in {"first", "again"}
           n     == IF carry THEN executed[r] + 1 ELSE executed[r]
<1>1. PICK status, s :
        /\ toolCall' = [toolCall EXCEPT ![r].net = status, ![r].sid = s]
        /\ status \in {"ok", "expired", "refused"}
        /\ q.pc # "initialize" \/ q.sid # Nil => (status = "ok" <=> q.sid \in sessions)
  BY DEF Answer
<1> DEFINE new == [q EXCEPT !.net = status, !.sid = s]
<1>2. /\ q.net = "out" /\ told' = told
      /\ executed' = IF carry THEN [executed EXCEPT ![r] = @ + 1] ELSE executed
  BY DEF Answer
<1>3. ToolCall(q) /\ Spent(q, executed[r]) /\ q.pc # "idle"
  BY <1>2, BridgeAssumption DEF BridgeInv, ToolCall
<1>4. executed[r] = 0
  BY <1>2, <1>3, BridgeAssumption DEF Spent
<1>5. n \in {0, 1} /\ (n = 1 <=> carry) /\ executed' = [executed EXCEPT ![r] = n]
  <2>1. executed = [executed EXCEPT ![r] = executed[r]] /\ executed[r] = 0
    BY <1>4 DEF BridgeInv
  <2>2. CASE carry
    BY <1>2, <1>4, <2>2
  <2>3. CASE ~carry
    BY <1>2, <2>1, <2>3
  <2> QED
    BY <2>2, <2>3
<1>6. toolCall' = [toolCall EXCEPT ![r] = new]
  BY <1>1
<1>7. ToolCall(new) /\ new.pc = q.pc /\ new.net = status
  BY <1>1, <1>3, BridgeAssumption DEF ToolCall
<1>8. Spent(new, n)
  BY <1>1, <1>3, <1>5, <1>7, BridgeAssumption DEF Spent, ToolCall
<1> HIDE DEF new, n, carry
<1>9. /\ BridgeInv' /\ toolCall'[r] = new /\ executed'[r] = n
      /\ \A p \in Request \ {r} : toolCall'[p] = toolCall[p] /\ executed'[p] = executed[p]
  BY <1>2, <1>5, <1>6, <1>7, <1>8, BridgeSlot
<1>10. UNCHANGED {p \in Request : InCall(p)}
  BY <1>7, <1>9 DEF InCall
<1>11. CASE n = 1
  <2>1. Calls!CarryOut(r)
    BY <1>2, <1>3, <1>4, <1>9, <1>10, <1>11 DEF Calls!CarryOut, InCall
  <2> QED
    BY <1>9, <2>1 DEF Abstract, Calls!Next
<1>12. CASE n = 0
  <2>1. UNCHANGED {p \in Request : executed[p] > 0}
    BY <1>4, <1>9, <1>12
  <2> QED
    BY <1>2, <1>9, <1>10, <2>1 DEF Abstract, Calls!vars
<1> QED
  BY <1>5, <1>11, <1>12

(* A call ends: with a result only if it was carried out. *)
LEMMA CallEnds ==
  ASSUME BridgeInv, NEW r \in Request, InCall(r), toolCall' = [toolCall EXCEPT ![r] = NoToolCall],
         UNCHANGED executed, told' = told \/ (told' = told \cup {r} /\ executed[r] = 1)
  PROVE  BridgeInv' /\ Abstract
<1>1. executed[r] \in {0, 1} /\ executed' = [executed EXCEPT ![r] = executed[r]]
  BY DEF BridgeInv
<1>2. ToolCall(NoToolCall) /\ Spent(NoToolCall, executed[r]) /\ NoToolCall.pc = "idle"
  BY <1>1 DEF NoToolCall, ToolCall, Spent
<1>3. /\ BridgeInv' /\ toolCall'[r] = NoToolCall
      /\ \A p \in Request \ {r} : toolCall'[p] = toolCall[p] /\ executed'[p] = executed[p]
  BY <1>1, <1>2, BridgeSlot
<1>4. {p \in Request : InCall(p)}' = {p \in Request : InCall(p)} \ {r}
  BY <1>2, <1>3 DEF InCall
<1>5. Calls!Return(r)
  BY <1>3, <1>4 DEF Calls!Return
<1> QED
  BY <1>3, <1>5 DEF Abstract, Calls!Next

(* A call goes on with another request. *)
LEMMA CallGoesOn ==
  ASSUME BridgeInv, NEW r \in Request, NEW p \in {"initialize", "notify", "again"}, NEW s,
         Sends(r, p, s), toolCall[r].net \in {"ok", "expired", "refused"},
         (toolCall[r].pc = "first" /\ toolCall[r].net = "expired")
           \/ toolCall[r].pc \in {"initialize", "notify"},
         UNCHANGED <<executed, told>>
  PROVE  BridgeInv' /\ Abstract
<1> DEFINE new == [pc |-> p, net |-> "out", sid |-> s]
<1>1. executed[r] = 0 /\ executed' = [executed EXCEPT ![r] = 0]
  BY BridgeAssumption DEF BridgeInv, ToolCall, Spent
<1>2. ToolCall(new) /\ Spent(new, 0) /\ new.pc # "idle"
  BY BridgeAssumption DEF ToolCall, Spent
<1>3. toolCall' = [toolCall EXCEPT ![r] = new] /\ toolCall[r].pc # "idle"
  BY DEF Sends
<1> HIDE DEF new
<1>4. /\ BridgeInv' /\ toolCall'[r] = new
      /\ \A q \in Request \ {r} : toolCall'[q] = toolCall[q]
  BY <1>1, <1>2, <1>3, BridgeSlot
<1>5. UNCHANGED {q \in Request : InCall(q)}
  BY <1>2, <1>3, <1>4 DEF InCall
<1> QED
  BY <1>4, <1>5 DEF Abstract, Calls!vars

LEMMA LoseStep ==
  ASSUME BridgeInv, NEW r \in Request, Lose(r)
  PROVE  BridgeInv' /\ Abstract
  BY CallEnds DEF Lose

LEMMA ReplyStep ==
  ASSUME BridgeInv, NEW r \in Request, BridgeStep(r)
  PROVE  BridgeInv' /\ Abstract
<1>1. /\ toolCall[r].net \in {"ok", "expired", "refused"} /\ UNCHANGED executed
      /\ ToolCall(toolCall[r]) /\ Spent(toolCall[r], executed[r])
  BY DEF BridgeStep, FirstReply, Renew, SecondReply, BridgeInv
<1>2. InCall(r)
  BY <1>1, BridgeAssumption DEF InCall, ToolCall
<1>3. toolCall[r].pc \in {"first", "again"} /\ toolCall[r].net = "ok" => executed[r] = 1
  BY <1>1 DEF Spent
<1>4. CASE FirstReply(r)
  BY <1>1, <1>2, <1>3, <1>4, CallEnds, CallGoesOn DEF FirstReply, Returns
<1>5. CASE Renew(r)
  BY <1>1, <1>2, <1>5, CallEnds, CallGoesOn DEF Renew, Returns
<1>6. CASE SecondReply(r)
  BY <1>1, <1>2, <1>3, <1>6, CallEnds DEF SecondReply, Returns
<1> QED
  BY <1>4, <1>5, <1>6 DEF BridgeStep

LEMMA ForgetStep ==
  ASSUME BridgeInv, NEW S, Forget(S)
  PROVE  BridgeInv' /\ Abstract
  BY DEF Forget, BridgeInv, Abstract, Calls!vars, InCall

LEMMA BridgeStepInv == BridgeInv /\ [BridgeNext]_bridgeVars => BridgeInv' /\ [Calls!Next]_(Calls!vars)
<1> SUFFICES ASSUME BridgeInv, [BridgeNext]_bridgeVars
             PROVE  BridgeInv' /\ Abstract
  BY DEF Abstract
<1>1. CASE UNCHANGED bridgeVars
  BY <1>1 DEF bridgeVars, BridgeInv, Abstract, Calls!vars, InCall
<1>2. CASE BridgeNext
  BY <1>2, BootStep, CallToolStep, AnswerStep, LoseStep, ReplyStep, ForgetStep DEF BridgeNext
<1> QED
  BY <1>1, <1>2

(* Callers see calls that are executed once at most: every step of the     *)
(* bridge is a step of Calls or a stutter, and no call is executed twice   *)
(* (callTool of graphitiBridge.js).                                        *)
THEOREM BridgeImplementsCalls == BridgeSpec => Calls!Spec /\ []NeverTwice
<1>1. BridgeInv => NeverTwice
  <2> SUFFICES ASSUME BridgeInv, NEW r \in Request PROVE executed[r] < 2
    BY DEF NeverTwice
  <2>1. executed[r] \in {0, 1}
    BY DEF BridgeInv
  <2> QED
    BY <2>1
<1> QED
  BY <1>1, BridgeInitInv, BridgeStepInv, PTL DEF BridgeSpec, Calls!Spec
=============================================================================
