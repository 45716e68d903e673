----------------------------- MODULE Learnings -----------------------------
(***************************************************************************)
(* Recording knowledge: an episode is added to the graph, linked to a task,   *)
(* and checked against the tasks that it may contradict, those of the plan    *)
(* while the client waits, and those of the organization afterwards.          *)
(*                                                                         *)
(* The sidecar answers before it has taken the episode in, so that its id is  *)
(* looked up by name, or a pending one is made up.  Words are abstracted to    *)
(* subjects: an episode has one, a task has some.                             *)
(***************************************************************************)
EXTENDS Slots, Integers, Sequences, FiniteSets

CONSTANTS
  Lesson,       \* the tasks that learnings are about
  LessonName,   \* LessonName[n]: the name of the learnings of task n, from its title
  LessonPlan,   \* LessonPlan[n]: plan_id, of a plan of the organization
  Subject,      \* what episodes are about
  About,        \* About[n]: the subjects of a task
  SyncLimit,    \* maxTasks of the check during the request
  AsyncLimit,   \* maxTasks of the check after it
  MaxLessons,   \* bound: number of learnings, of changes by people and of things checks fail to do
  MaxChecked,   \* bound: of these the first so many may be learnings that are checked
  MaxAtOnce     \* bound: number of learnings under way at a time

ASSUME LearningAssumption == IsFiniteSet(Lesson) /\ AsyncLimit \in Nat

(* open stands for not_started, in_progress and blocked; aside for plan_ready and    *)
(* archived, which no check looks at although coverage counts them.                *)
LessonStates == {"open", "aside", "completed"}
(* coherent stands for stale_beliefs too, which only people set *)
Beliefs      == {"unchecked", "coherent", "contradicted"}

VARIABLES
  status,     \* of each task
  belief,     \* coherenceStatus of each task
  activePlans,  \* the plans whose status is active
  accepted,   \* the episodes the sidecar has accepted, in order: [task, name, subject]
  ingested,   \* how many of them it has taken in
  outdated,   \* the subjects on which the graph has superseded facts
  tied,       \* episode_node_links: [episode, task, type]
  learning,   \* the request in each slot
  check,      \* its two coherence checks
  lessons,    \* learnings and changes by people so far
  known,      \* history: the subjects superseded already when a check was ordered
  handled,    \* history: the tasks changed by people, or whose plan was
  relinked,   \* history: the tasks whose links people changed
  mishaps     \* history: what a check did not do to a task, for a failure or a restart

learningVars == <<status, belief, activePlans, accepted, ingested, outdated, tied, learning,
                  check, lessons, known, handled, relinked, mishaps>>

(* via: how a learning arrives, as an episode with or without a plan or with the     *)
(* update of a task; org: does whoever sends it belong to the organization?         *)
NoLearning == [pc |-> "idle", via |-> Nil, org |-> FALSE, task |-> Nil, subject |-> Nil, episode |-> Nil]
NoCheck    == [pc |-> "idle", todo |-> {}, now |-> Nil]
Checks     == {"sync", "async"}
NameOf(via, n, s) == IF via = "update" THEN LessonName[n] ELSE s

LearningInit ==
  /\ status = [n \in Lesson |-> "open"] /\ belief = [n \in Lesson |-> "unchecked"]
  /\ activePlans \in SUBSET {LessonPlan[n] : n \in Lesson}
  /\ accepted = <<>> /\ ingested = 0 /\ outdated \in SUBSET Subject /\ tied = {}
  /\ learning = [r \in Request |-> NoLearning]
  /\ check = [r \in Request |-> [k \in Checks |-> NoCheck]]
  /\ lessons = 0
  /\ known = {} /\ handled = {} /\ relinked = {} /\ mishaps = {}

-----------------------------------------------------------------------------
OneMoreLesson == lessons + Cardinality(mishaps) < MaxLessons /\ lessons' = lessons + 1

(* addEpisode, after the access checks: an episode is called by the beginning of its  *)
(* text, a learning by the title of its task.  A failed call answers null, which does  *)
(* not stop the request; until its id is known the episode has a pending one.        *)
AddEpisode(r, via, org, n, s) ==
  /\ learning[r].pc = "idle" /\ \A k \in Checks : check[r][k].pc = "idle"
  /\ OneMoreLesson
  /\ via # "update" => lessons < MaxChecked
  /\ Cardinality({q \in Request : learning[q].pc # "idle"}) < MaxAtOnce
  /\ accepted' \in {accepted, Append(accepted, [task |-> n, name |-> NameOf(via, n, s), subject |-> s])}
  /\ learning' = [learning EXCEPT ![r] = [pc |-> "name", via |-> via, org |-> org /\ via # "update",
                                          task |-> n, subject |-> s,
                                          episode |-> - lessons']]
  /\ UNCHANGED <<status, belief, activePlans, ingested, outdated, tied, check, known, handled,
                 relinked, mishaps>>

(* The newest episode of that name, if the sidecar can be asked *)
ResolveEpisodeIdByName(r) ==
  LET q     == learning[r]
      match == {e \in 1 .. ingested : accepted[e].name = NameOf(q.via, q.task, q.subject)}
  IN  /\ q.pc = "name"
      /\ \E e \in {f \in match : \A g \in match : g <= f} \cup {q.episode} :
           learning' = [learning EXCEPT ![r].pc = "link", ![r].episode = e]
      /\ UNCHANGED <<status, belief, activePlans, accepted, ingested, outdated, tied, check,
                     lessons, known, handled, relinked, mishaps>>

TiedTo(e, n, type) == tied \cup {[episode |-> e, task |-> n, type |-> type]}

(* link: a failure, of a row that is there already or of any other kind, is reported   *)
(* and stops nothing.  Only a POST that names the plan is checked while the client     *)
(* waits; what comes with the update of a task is never checked.                     *)
LinkEpisode(r) ==
  LET q == learning[r]
  IN  /\ q.pc = "link"
      /\ tied' \in {tied, TiedTo(q.episode, q.task, "informs")}
      /\ IF q.via = "update" THEN learning' = [learning EXCEPT ![r] = NoLearning]
         ELSE learning' = [learning EXCEPT ![r].pc = "answer"]
      /\ check' = IF q.via = "planned" THEN [check EXCEPT ![r]["sync"].pc = "find"] ELSE check
      /\ UNCHANGED <<status, belief, activePlans, accepted, ingested, outdated, lessons, known,
                     handled, relinked, mishaps>>

(* The rest of the handler: when the check is through or two seconds are up (the     *)
(* check goes on regardless), episode.created is published.  The event is lost if     *)
(* the text is too long for a notification.  Whoever has no organization gets no      *)
(* more checks out of it, so that nothing is owed for it.                          *)
PublishEpisode(r) ==
  /\ learning[r].pc = "answer"
  /\ learning' = [learning EXCEPT ![r].pc = "done"]
  /\ \/ /\ check' = [check EXCEPT ![r]["async"].pc = "find"]
        /\ known' = IF learning[r].org THEN known \cup (outdated \cap {learning[r].subject})
                    ELSE known
     \/ UNCHANGED <<check, known>>
  /\ UNCHANGED <<status, belief, activePlans, accepted, ingested, outdated, tied, lessons,
                 handled, relinked, mishaps>>

(* The slot is free when the checks have ended too. *)
LearningOver(r) ==
  /\ learning[r].pc = "done" /\ \A k \in Checks : check[r][k].pc = "idle"
  /\ learning' = [learning EXCEPT ![r] = NoLearning]
  /\ UNCHANGED <<status, belief, activePlans, accepted, ingested, outdated, tied, check,
                 lessons, known, handled, relinked, mishaps>>

-----------------------------------------------------------------------------
Goes(r, k, p, todo, n) == check' = [check EXCEPT ![r][k] = [pc |-> p, todo |-> todo, now |-> n]]

(* The steps of check k that were not taken for some tasks *)
Mishaps(r, k, step, N) ==
  {[check |-> k, step |-> step, subject |-> learning[r].subject, task |-> n] : n \in N}

Missing(H) == /\ H # {} => lessons + Cardinality(mishaps) < MaxLessons
              /\ mishaps' = mishaps \cup H

(* The tasks a check looks at: those of the plan, whatever its status, or those of the *)
(* active plans, for whoever belongs to the organization                           *)
Searched(r, k) ==
  IF k = "sync" THEN {n \in Lesson : LessonPlan[n] = LessonPlan[learning[r].task]}
  ELSE {n \in Lesson : learning[r].org /\ LessonPlan[n] \in activePlans}

(* Mutant: the check for the organization stops at the limit of the other one. *)
FindAffectedTasks_Few(r, k) ==
  LET match == {n \in Searched(r, k) : status[n] = "open" /\ learning[r].subject \in About[n]}
  IN  /\ check[r][k].pc = "find"
      /\ \E S \in SUBSET match :
           /\ S = match \/ Cardinality(S) = SyncLimit
           /\ Goes(r, k, "consult", S, Nil)
      /\ UNCHANGED <<status, belief, activePlans, accepted, ingested, outdated, tied, learning,
                     lessons, known, handled, relinked, mishaps>>

(* findAffectedTasks: of the tasks about the subject that are neither completed nor    *)
(* put aside, those whose search fails are passed over; of the rest, at most so many   *)
(* are taken.                                                                    *)
FindAffectedTasks(r, k) ==
  LET match == {n \in Searched(r, k) : status[n] = "open" /\ learning[r].subject \in About[n]}
      limit == IF k = "sync" THEN SyncLimit ELSE AsyncLimit
  IN  /\ check[r][k].pc = "find"
      /\ \E F \in SUBSET match, S \in SUBSET match :
           /\ F \cap S = {}
           /\ Cardinality(S) <= limit /\ (Cardinality(S) < limit => S = match \ F)
           /\ Goes(r, k, "consult", S, Nil)
           /\ Missing(Mishaps(r, k, "search", F))
      /\ UNCHANGED <<status, belief, activePlans, accepted, ingested, outdated, tied, learning,
                     lessons, known, handled, relinked>>

(* detectContradictions: without superseded facts on the subject, or without an       *)
(* answer, no task is marked.                                                     *)
DetectContradictions(r, k) ==
  LET q     == check[r][k]
      stale == learning[r].subject \in outdated /\ q.todo # {}
  IN  /\ q.pc = "consult"
      /\ \/ stale /\ Goes(r, k, "mark", q.todo, Nil) /\ UNCHANGED mishaps
         \/ ~stale /\ Goes(r, k, "idle", {}, Nil) /\ UNCHANGED mishaps
         \/ /\ Goes(r, k, "idle", {}, Nil)
            /\ Missing(Mishaps(r, k, "consult", q.todo))
      /\ UNCHANGED <<status, belief, activePlans, accepted, ingested, outdated, tied, learning,
                     lessons, known, handled, relinked>>

(* applyCoherenceResult: first the task, then the link, task after task in the order   *)
(* of the search.  A failed update is reported, and the link made nevertheless.       *)
MarkTask(r, k) ==
  LET q == check[r][k]
  IN  /\ q.pc = "mark"
      /\ \E n \in q.todo :
           /\ Goes(r, k, "tie", q.todo \ {n}, n)
           /\ \/ belief' = [belief EXCEPT ![n] = "contradicted"] /\ UNCHANGED mishaps
              \/ UNCHANGED belief /\ Missing(Mishaps(r, k, "mark", {n}))
      /\ UNCHANGED <<status, activePlans, accepted, ingested, outdated, tied, learning, lessons,
                     known, handled, relinked>>

(* Mutant: an episode that is linked to the task already is not linked again. *)
TieTask_Once(r, k) ==
  LET q == check[r][k]
      e == learning[r].episode
  IN  /\ q.pc = "tie"
      /\ Goes(r, k, IF q.todo = {} THEN "idle" ELSE "mark", q.todo, Nil)
      /\ tied' = IF \E l \in tied : l.episode = e /\ l.task = q.now THEN tied
                 ELSE TiedTo(e, q.now, "contradicts")
      /\ UNCHANGED <<status, belief, activePlans, accepted, ingested, outdated, learning, lessons,
                     known, handled, relinked, mishaps>>

(* A link that fails, as one that is there already does, is passed over. *)
TieTask(r, k) ==
  LET q == check[r][k]
  IN  /\ q.pc = "tie"
      /\ Goes(r, k, IF q.todo = {} THEN "idle" ELSE "mark", q.todo, Nil)
      /\ \/ tied' = TiedTo(learning[r].episode, q.now, "contradicts") /\ UNCHANGED mishaps
         \/ UNCHANGED tied /\ Missing(Mishaps(r, k, "tie", {q.now}))
      /\ UNCHANGED <<status, belief, activePlans, accepted, ingested, outdated, learning, lessons,
                     known, handled, relinked>>

(* The process ends, at any statement of any request or check, and starts again:     *)
(* nobody takes up what was under way.                                            *)
LeftUndone(r, k) ==
  LET q == check[r][k]
  IN  Mishaps(r, k, "search", {n \in Lesson : q.pc = "find"})
      \cup Mishaps(r, k, "mark", q.todo) \cup Mishaps(r, k, "tie", {n \in Lesson : n = q.now})

LearningRestart ==
  /\ \E r \in Request : learning[r].pc # "idle"
  /\ learning' = [r \in Request |-> NoLearning]
  /\ check' = [r \in Request |-> [k \in Checks |-> NoCheck]]
  /\ Missing(UNION {LeftUndone(r, k) : r \in Request, k \in Checks})
  /\ UNCHANGED <<status, belief, activePlans, accepted, ingested, outdated, tied, lessons, known,
                 handled, relinked>>

-----------------------------------------------------------------------------
(* The sidecar takes in the next episode, which may supersede what was known. *)
Ingest ==
  /\ ingested < Len(accepted)
  /\ ingested' = ingested + 1
  /\ outdated' \in {outdated, outdated \cup {accepted[ingested + 1].subject}}
  /\ UNCHANGED <<status, belief, activePlans, accepted, tied, learning, check, lessons, known,
                 handled, relinked, mishaps>>

(* People change the status of a task, and set what is believed of it. *)
Touch(n) ==
  /\ OneMoreLesson
  /\ handled' = handled \cup {n}
  /\ \/ \E new \in LessonStates \ {status[n]} : status' = [status EXCEPT ![n] = new] /\ UNCHANGED belief
     \/ \E new \in Beliefs \ {belief[n]} : belief' = [belief EXCEPT ![n] = new] /\ UNCHANGED status
  /\ UNCHANGED <<activePlans, accepted, ingested, outdated, tied, learning, check, known,
                 relinked, mishaps>>

(* A plan becomes active, or ceases to be. *)
SwitchPlan(p) ==
  /\ OneMoreLesson
  /\ activePlans' = IF p \in activePlans THEN activePlans \ {p} ELSE activePlans \cup {p}
  /\ handled' = handled \cup {n \in Lesson : LessonPlan[n] = p}
  /\ UNCHANGED <<status, belief, accepted, ingested, outdated, tied, learning, check, known,
                 relinked, mishaps>>

(* linkEpisode and unlinkEpisode: people add and remove links of any type. *)
Relink(n) ==
  /\ OneMoreLesson
  /\ relinked' = relinked \cup {n}
  /\ \/ \E l \in tied : l.task = n /\ tied' = tied \ {l}
     \/ \E e \in 1 .. ingested, type \in {"informs", "contradicts"} : tied' = TiedTo(e, n, type)
  /\ UNCHANGED <<status, belief, activePlans, accepted, ingested, outdated, learning, check,
                 known, handled, mishaps>>

LearningNext ==
  \/ \E r \in Request :
       \/ \E via \in {"post", "planned", "update"}, org \in BOOLEAN, n \in Lesson, s \in Subject :
            AddEpisode(r, via, org, n, s)
       \/ ResolveEpisodeIdByName(r) \/ LinkEpisode(r) \/ PublishEpisode(r) \/ LearningOver(r)
       \/ \E k \in Checks :
            FindAffectedTasks(r, k) \/ DetectContradictions(r, k) \/ MarkTask(r, k) \/ TieTask(r, k)
  \/ LearningRestart \/ Ingest
  \/ \E n \in Lesson : Touch(n) \/ Relink(n) \/ SwitchPlan(LessonPlan[n])

LearningSpec == LearningInit /\ [][LearningNext]_learningVars

-----------------------------------------------------------------------------
(* What GET /knowledge/coverage shows as a conflict: a task that is not completed,     *)
(* with a link of that type.  It covers active plans and drafts, which the others are    *)
(* until somebody changes their status.                                           *)
Contradicts(n) == \E l \in tied : l.task = n /\ l.type = "contradicts"
Conflicts == {n \in Lesson : status[n] # "completed" /\ Contradicts(n)}

Mishap(n, step) == \E h \in mishaps : h.task = n /\ h.step = step
Tying(n)        == \E r \in Request, k \in Checks : check[r][k].pc = "tie" /\ check[r][k].now = n

(* The mark on a task and the link that says why are two statements, of two checks      *)
(* that may overlap.  A task that is marked counts as a conflict in the coverage, unless *)
(* the link is being made, failed or was cut off by a restart, or people set the mark     *)
(* or changed the links (applyCoherenceResult).                                       *)
MarksExplained ==
  \A n \in Lesson \ (handled \cup relinked) :
    belief[n] = "contradicted" => n \in Conflicts \/ Tying(n) \/ Mishap(n, "tie")

(* And what counts as a conflict is marked, unless the update of the task failed, or      *)
(* people unset the mark or made the link themselves.                                 *)
ConflictsMarked ==
  \A n \in Conflicts \ (handled \cup relinked) :
    belief[n] = "contradicted" \/ Mishap(n, "mark")

(* If superseded facts on a subject were there when somebody of the organization          *)
(* published an episode on it, every open task on it in an active plan is marked in the    *)
(* end by the check for the organization, unless this check failed to find or to mark      *)
(* this task, or got no answer from the graph; or a person changed the task or the plan,   *)
(* or there are more tasks than are looked at (findAffectedTasks).                       *)
NoneMissed ==
  \A s \in known, n \in Lesson \ handled :
    s \in About[n] /\ LessonPlan[n] \in activePlans /\ Cardinality(Lesson) <= AsyncLimit =>
      \/ belief[n] = "contradicted"
      \/ \E r \in Request : check[r]["async"].pc # "idle" /\ learning[r].subject = s
      \/ \E h \in mishaps : h.check = "async" /\ h.subject = s /\ h.task = n /\ h.step # "tie"

(* What the checks find out shows in the marks and in the coverage alike, and no open      *)
(* task is passed over.                                                              *)
LearningSound == MarksExplained /\ ConflictsMarked /\ NoneMissed
=============================================================================
