--------------------------- MODULE KnowledgeLoop ---------------------------
(***************************************************************************)
(* The knowledge loops of a plan: an agent improves the plan in iterations    *)
(* until its quality stands still or the iterations are used up.             *)
(*                                                                         *)
(* The list of iterations is one JSON column: it is read, extended and written *)
(* back, and the status of the run is written in a statement of its own.      *)
(***************************************************************************)
EXTENDS Slots, Integers, Sequences

CONSTANTS
  Window,        \* CONVERGENCE_WINDOW
  MaxIterations, \* max_iterations of a run
  MaxRuns,       \* bound: number of runs
  MaxLoopCalls   \* bound: number of requests

ASSUME LoopAssumption ==
  Window \in Nat \ {0} /\ MaxIterations \in Nat \ {0} /\ Nil \notin {"converged", "stopped"}

VARIABLES
  loops,     \* the rows: a sequence of [status, iterations]
  looping,   \* the request in each slot
  loopCalls, \* requests so far (bounded by MaxLoopCalls)
  doubled,   \* history: did two starts overlap?
  muddled    \* history: the runs on which two requests worked at once, or one broke off

loopVars == <<loops, looping, loopCalls, doubled, muddled>>

(* An iteration: its number, and whether quality_delta is below the threshold. *)
NoLooping == [pc |-> "idle", loop |-> 0, read |-> <<>>, next |-> Nil, verdict |-> Nil]
LoopAt(r, p) == looping[r].pc = p
LoopDone(r)  == looping' = [looping EXCEPT ![r] = NoLooping]
Running      == {i \in DOMAIN loops : loops[i].status = "running"}

KnowledgeLoopTypeOK ==
  /\ \A i \in DOMAIN loops : loops[i].status \in {"running", "converged", "stopped"}
  /\ doubled \in BOOLEAN /\ muddled \subseteq DOMAIN loops
  /\ \A r \in Request :
       /\ looping[r].pc \in {"idle", "create", "find", "append", "complete"}
       /\ looping[r].pc \in {"find", "append", "complete"} => looping[r].loop \in DOMAIN loops

LoopInit ==
  /\ loops = <<>> /\ loopCalls = 0 /\ doubled = FALSE /\ muddled = {}
  /\ looping = [r \in Request |-> NoLooping]

MayLoop(r) == LoopAt(r, "idle") /\ loopCalls < MaxLoopCalls

-----------------------------------------------------------------------------
(* start: findRunningByPlan; the quality of the plan is evaluated next *)
StartLoop(r) ==
  /\ MayLoop(r) /\ loopCalls' = loopCalls + 1
  /\ Running = {}
  /\ looping' = [looping EXCEPT ![r] = [NoLooping EXCEPT !.pc = "create"]]
  /\ doubled' = (doubled \/ \E q \in Request : LoopAt(q, "create"))
  /\ UNCHANGED <<loops, muddled>>

CreateLoop(r) ==
  /\ LoopAt(r, "create") /\ Len(loops) < MaxRuns
  /\ loops' = Append(loops, [status |-> "running", iterations |-> <<>>])
  /\ LoopDone(r)
  /\ UNCHANGED <<loopCalls, doubled, muddled>>

(* r begins to work on run i. *)
WorksOn(r, i, rec) ==
  /\ looping' = [looping EXCEPT ![r] = rec]
  /\ muddled' = IF \E q \in Request : looping[q].loop = i THEN muddled \cup {i} ELSE muddled

(* Mutant: the number is that of the iterations before. *)
NextIteration_Before(read, small) == [number |-> Len(read), small |-> small]

NextIteration(read, small) == [number |-> Len(read) + 1, small |-> small]

(* what becomes of a run whose iterations were those read, and one more *)
Verdict(all) ==
  CASE Len(all) >= Window /\ \A k \in Len(all) - Window + 1 .. Len(all) : all[k].small
         -> "converged"
    [] Len(all) >= MaxIterations -> "stopped"
    [] OTHER -> Nil

(* iterate: findRunningByPlan, the next iteration and what it leads to *)
StartIteration(r) ==
  /\ MayLoop(r) /\ loopCalls' = loopCalls + 1
  /\ \E i \in Running, small \in BOOLEAN :
       LET read == loops[i].iterations
           it == NextIteration(read, small)
       IN  WorksOn(r, i, [pc |-> "find", loop |-> i, read |-> <<>>, next |-> it,
                          verdict |-> Verdict(Append(read, it))])
  /\ UNCHANGED <<loops, doubled>>

(* addIteration: findById *)
FindIterations(r) ==
  /\ LoopAt(r, "find")
  /\ looping' = [looping EXCEPT ![r].pc = "append", ![r].read = loops[looping[r].loop].iterations]
  /\ UNCHANGED <<loops, loopCalls, doubled, muddled>>

(* addIteration: the list is written back, one longer *)
WriteIterations(r) ==
  LET q == looping[r]
  IN  /\ LoopAt(r, "append")
      /\ loops' = [loops EXCEPT ![q.loop].iterations = Append(q.read, q.next)]
      /\ IF q.verdict = Nil THEN LoopDone(r)
         ELSE looping' = [looping EXCEPT ![r].pc = "complete"]
      /\ UNCHANGED <<loopCalls, doubled, muddled>>

(* complete: whatever the status is by now *)
CompleteLoop(r) ==
  LET q == looping[r]
  IN  /\ LoopAt(r, "complete")
      /\ loops' = [loops EXCEPT ![q.loop].status = q.verdict]
      /\ LoopDone(r)
      /\ UNCHANGED <<loopCalls, doubled, muddled>>

(* stop: findRunningByPlan *)
StartStop(r) ==
  /\ MayLoop(r) /\ loopCalls' = loopCalls + 1
  /\ \E i \in Running :
       WorksOn(r, i, [NoLooping EXCEPT !.pc = "complete", !.loop = i, !.verdict = "stopped"])
  /\ UNCHANGED <<loops, doubled>>

(* The process stops: a run may be left running with its iterations used up. *)
CrashLoop ==
  /\ \E r \in Request : ~LoopAt(r, "idle")
  /\ looping' = [r \in Request |-> NoLooping]
  /\ muddled' = muddled \cup ({looping[r].loop : r \in Request} \ {0})
  /\ UNCHANGED <<loops, loopCalls, doubled>>

LoopNext ==
  \/ \E r \in Request :
       \/ StartLoop(r) \/ CreateLoop(r) \/ StartIteration(r) \/ FindIterations(r)
       \/ WriteIterations(r) \/ CompleteLoop(r) \/ StartStop(r)
  \/ CrashLoop

LoopSpec == LoopInit /\ [][LoopNext]_loopVars

-----------------------------------------------------------------------------
(* A plan has one running loop at most, unless two starts overlapped; and the   *)
(* iterations of a run are complete, numbered in order, and as many as allowed, *)
(* with the run ended in time, unless two requests worked on it at once or one   *)
(* broke off.                                                                  *)
LoopSound ==
  /\ ~doubled => \A i, j \in Running : i = j
  /\ \A i \in DOMAIN loops \ muddled :
       LET its == loops[i].iterations
       IN  /\ \A k \in DOMAIN its : its[k].number = k
           /\ Len(its) <= MaxIterations
           /\ i \in Running /\ (\A r \in Request : looping[r].loop # i) => Verdict(its) = Nil
=============================================================================
