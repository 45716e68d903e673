----------------------------- MODULE Intentions -----------------------------
(***************************************************************************)
(* createIntention: an agent hands in a whole plan for a goal, a tree in which *)
(* nodes refer to those they depend on, and the server stores it statement by  *)
(* statement.  Only the dependencies are written in a transaction; everything  *)
(* before is visible at once, and others may work on it.                      *)
(***************************************************************************)
EXTENDS Slots, Integers, FiniteSets, Sequences

CONSTANTS
  Outlines,   \* the trees that may be handed in, in document order: sequences of
              \* [up, title, type, ref, asks], up being the parent's index or 0
  Planner,    \* the requests: they share nothing
  MaxMeddles  \* bound: number of changes by others to a new plan

ASSUME IntentionsAssumption ==
  \A o \in Outlines :
    /\ Len(o) \in Nat /\ o = [i \in 1 .. Len(o) |-> o[i]]
    /\ \A i \in DOMAIN o : o[i].up \in 0 .. i - 1 /\ Nil \notin o[i].asks

VARIABLE
  intent  \* the request in each slot, and the plan it made

(* of: the outline; rows: the nodes stored below the root, [index -> [up, pos]];  *)
(* next: the index to be stored; linked: is the plan linked to the goal?  todo:    *)
(* the tasks that cascadePlanAchievers has left; achieves, edges: the edges stored; *)
(* warned: the references reported, as pairs of what is referred to and from where; *)
(* rejected: were the dependencies?  added, removed: history, the edges that others *)
(* made and the nodes they deleted; broke: history, did the cascade break off?       *)
NoIntent == [pc |-> "idle", of |-> <<>>, rows |-> <<>>, next |-> 1, linked |-> FALSE,
             todo |-> {}, achieves |-> {}, edges |-> {}, warned |-> {}, rejected |-> FALSE,
             added |-> {}, removed |-> {}, broke |-> FALSE]
IntentPc == {"idle", "root", "nodes", "link", "tasks", "achieve", "depend", "done",
             "failed", "stopped"}
IntentAt(r, p)  == intent[r].pc = p
Becomes(r, rec) == intent' = [intent EXCEPT ![r] = rec]

IntentionsTypeOK ==
  \A r \in Planner :
    /\ intent[r].pc \in IntentPc
    /\ DOMAIN intent[r].rows \cap intent[r].removed = {}
    /\ intent[r].edges \subseteq (DOMAIN intent[r].rows) \X (DOMAIN intent[r].rows)

IntentionsInit == intent = [r \in Planner |-> NoIntent]

-----------------------------------------------------------------------------
(* i of the loop over the children of one parent *)
Place(o, i) == Cardinality({j \in 1 .. i - 1 : o[j].up = o[i].up})

(* The goal and its workspace are read, and the plan is inserted. *)
HandIn(r) ==
  /\ IntentAt(r, "idle")
  /\ \E o \in Outlines : Becomes(r, [NoIntent EXCEPT !.pc = "root", !.of = o])

CreateIntentRoot(r) ==
  LET q == intent[r]
  IN  /\ IntentAt(r, "root")
      /\ Becomes(r, [q EXCEPT !.pc = IF q.of = <<>> THEN "link" ELSE "nodes"])

(* createChildren: one INSERT after the other, a node before those below it. *)
CreateChild(r) ==
  LET q == intent[r]
      o == q.of
      i == q.next
      Collides(j) == o[j].up = o[i].up /\ o[j].title = o[i].title /\ o[j].type = o[i].type
  IN  /\ IntentAt(r, "nodes")
      /\ Becomes(r, IF \E j \in DOMAIN q.rows : Collides(j) THEN [q EXCEPT !.pc = "failed"]
           ELSE [q EXCEPT !.rows = Updated(@, [x \in {i} |-> [up |-> o[i].up, pos |-> Place(o, i)]]),
                          !.next = i + 1,
                          !.pc = IF i = Len(o) THEN "link" ELSE "nodes"])

LinkIntention(r) ==
  /\ IntentAt(r, "link")
  /\ Becomes(r, [intent[r] EXCEPT !.linked = TRUE, !.pc = "tasks"])

(* cascadePlanAchievers: listByPlan *)
ListIntentTasks(r) ==
  LET q     == intent[r]
      tasks == {i \in DOMAIN q.rows : q.of[i].type = "task"}
  IN  /\ IntentAt(r, "tasks")
      /\ Becomes(r, [q EXCEPT !.todo = tasks, !.pc = IF tasks = {} THEN "depend" ELSE "achieve"])

(* An edge that cannot be inserted ends the cascade, and the request goes on. *)
AchieveNext(r) ==
  LET q == intent[r]
  IN  /\ IntentAt(r, "achieve")
      /\ \E i \in q.todo :
           LET last == i \notin DOMAIN q.rows \/ q.todo = {i}
           IN  Becomes(r, [q EXCEPT !.achieves = IF i \in DOMAIN q.rows THEN @ \cup {i} ELSE @,
                             !.broke = i \notin DOMAIN q.rows,
                             !.todo = IF last THEN {} ELSE @ \ {i},
                             !.pc = IF last THEN "depend" ELSE "achieve"])

-----------------------------------------------------------------------------
Titled(o, name) == {i \in DOMAIN o : o[i].title = name}
Keyed(o, name)  == {i \in DOMAIN o : o[i].ref = name}
Newest(S)       == CHOOSE i \in S : \A j \in S : j <= i

(* Mutant: of several nodes with that title the last one is taken. *)
ResolveRef_Newest(o, name) ==
  CASE Keyed(o, name) # {} -> Newest(Keyed(o, name))
    [] Keyed(o, name) = {} /\ Titled(o, name) # {} -> Newest(Titled(o, name))
    [] OTHER -> Nil

(* resolveRef: a later node's ref replaces an equal one, a title must be unique. *)
ResolveRef(o, name) ==
  CASE Keyed(o, name) # {} -> Newest(Keyed(o, name))
    [] Keyed(o, name) = {} /\ Cardinality(Titled(o, name)) = 1 -> Newest(Titled(o, name))
    [] OTHER -> Nil

Asked(o) == UNION {{[name |-> name, by |-> i] : name \in o[i].asks} : i \in DOMAIN o}

Paths == INSTANCE Reachability WITH Node <- UNION {DOMAIN o : o \in Outlines}

(* bulkCreate: all or nothing.  An edge that is there or comes twice, whose ends  *)
(* are not both there, or that closes a cycle with those committed by others,     *)
(* rejects the others with it.                                                  *)
AddDependencies(r) ==
  LET q     == intent[r]
      found == [a \in Asked(q.of) |-> ResolveRef(q.of, a.name)]
      vain  == {a \in Asked(q.of) : found[a] \in {Nil, a.by}}
      Edge(a) == <<found[a], a.by>>
      sound == /\ \A a, b \in Asked(q.of) \ vain : Edge(a) = Edge(b) => a = b
               /\ \A a \in Asked(q.of) \ vain :
                    /\ {a.by, found[a]} \subseteq DOMAIN q.rows /\ Edge(a) \notin q.edges
                    /\ ~Paths!Reach(q.edges, a.by, found[a])
  IN  /\ IntentAt(r, "depend")
      /\ Becomes(r, [q EXCEPT !.pc = "done", !.warned = vain, !.rejected = ~sound,
                       !.edges = IF sound THEN @ \cup {Edge(a) : a \in Asked(q.of) \ vain}
                                 ELSE @])

-----------------------------------------------------------------------------
(* Meanwhile others delete a node, with its edges but not the nodes below it, *)
DeleteOutlined(r) ==
  LET q == intent[r]
  IN  /\ Cardinality(q.added) + Cardinality(q.removed) < MaxMeddles
      /\ \E i \in DOMAIN q.rows :
           Becomes(r, [q EXCEPT !.rows = Without(@, {i}), !.removed = @ \cup {i},
                         !.achieves = @ \ {i},
                         !.edges = {e \in @ : i \notin {e[1], e[2]}}])

(* or make one task depend on another. *)
LinkOutlined(r) ==
  LET q == intent[r]
  IN  /\ Cardinality(q.added) + Cardinality(q.removed) < MaxMeddles
      /\ \E i, j \in DOMAIN q.rows :
           /\ i # j /\ <<i, j>> \notin q.edges /\ ~Paths!Reach(q.edges, j, i)
           /\ Becomes(r, [q EXCEPT !.edges = @ \cup {<<i, j>>}, !.added = @ \cup {<<i, j>>}])

(* The process stops, or the database does not answer: what was inserted stays. *)
BreakOff(r) ==
  /\ intent[r].pc \in {"root", "nodes", "link", "tasks", "achieve", "depend"}
  /\ Becomes(r, [intent[r] EXCEPT !.pc = "stopped"])

IntentionsNext ==
  \E r \in Planner :
    \/ HandIn(r) \/ CreateIntentRoot(r) \/ CreateChild(r) \/ LinkIntention(r)
    \/ ListIntentTasks(r) \/ AchieveNext(r) \/ AddDependencies(r)
    \/ DeleteOutlined(r) \/ LinkOutlined(r) \/ BreakOff(r)

IntentionsSpec == IntentionsInit /\ [][IntentionsNext]_intent

-----------------------------------------------------------------------------
(* A plan that the goal shows is whole, wherever its creation broke off: every   *)
(* node that nobody deleted is stored, under its parent and at its position; and *)
(* only two nodes that are called the same under one parent fail it before.       *)
LinkedWhole ==
  \A r \in Planner :
    LET q == intent[r]
        o == q.of
    IN  /\ q.linked =>
             /\ DOMAIN q.rows = DOMAIN o \ q.removed
             /\ \A i \in DOMAIN q.rows :
                  q.rows[i] = [up |-> o[i].up, pos |-> Place(o, i)]
        /\ q.pc = "failed" =>
             \E i, j \in DOMAIN o : i < j /\ o[i].up = o[j].up /\ o[i].title = o[j].title

(* Whoever is told that the plan is created has every dependency asked for, from  *)
(* the one node of that name or a node that bears the reference, or is told which  *)
(* are missing, and no other edge; and all tasks contribute to the goal, unless the *)
(* cascade met a task that was gone.                                            *)
AnsweredTrue ==
  \A r \in Planner :
    LET q == intent[r]
        o == q.of
        Means(a, i) == a.name = o[i].ref \/ Titled(o, a.name) = {i}
    IN  q.pc = "done" =>
          /\ \A a \in Asked(o) :
               \/ a \in q.warned \/ q.rejected \/ a.by \in q.removed
               \/ \E i \in DOMAIN o : Means(a, i) /\ <<i, a.by>> \in q.edges
               \/ \E i \in q.removed : Means(a, i)
          /\ \A e \in q.edges \ q.added : \E a \in Asked(o) : a.by = e[2] /\ Means(a, e[1])
          /\ q.broke \/ {i \in DOMAIN q.rows : o[i].type = "task"} \subseteq q.achieves

(* An intention is created whole and as it was told. *)
IntentionSound == LinkedWhole /\ AnsweredTrue
=============================================================================
