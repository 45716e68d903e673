----------------------------- MODULE MCServices -----------------------------
(***************************************************************************)
(* The stores behind the services, each under concurrent requests.  They      *)
(* share no rows, so that one run checks them side by side: part says which    *)
(* of them the requests are sent to.                                         *)
(***************************************************************************)
EXTENDS NodeTree, DecisionQueue, OAuthStore, GoalLinks, GoalCriteria, PlanDoors,
        PlanCopies, Intentions, KnowledgeLoop, Homes, Learnings, TLC

CONSTANTS r1, r2, ann, bob, eve, pa, pb, k1, k2, k3, o1, o2, o3, o4, h1, h2, la, lb, fact

VARIABLE part

(* Two children of the root, or a child and a grandchild *)
FlatTree == 0 :> [parent |-> Nil, pos |-> 0] @@ 1 :> [parent |-> 0, pos |-> 0]
            @@ 2 :> [parent |-> 0, pos |-> 1]
DeepTree == 0 :> [parent |-> Nil, pos |-> 0] @@ 1 :> [parent |-> 0, pos |-> 0]
            @@ 2 :> [parent |-> 1, pos |-> 1]
StartTrees == {FlatTree, DeepTree}
Labels     == [n \in 0 .. 5 |-> n % 4]

Plans == k1 :> pa @@ k2 :> pa @@ k3 :> pb

(* A chain, a chain and a branch in which two nodes are called the same, no node *)
Captions     == o1 :> 1 @@ o2 :> 2 @@ o3 :> 3 @@ o4 :> 2
Chain        == o1 :> Nil @@ o2 :> o1 @@ o3 :> o2
Twins        == o1 :> Nil @@ o2 :> o1 @@ o3 :> o1 @@ o4 :> o3
StartLayouts == {Chain, Twins, <<>>}

(* An outline in which a task is asked for by its reference and by its title, one  *)
(* in which a title is ambiguous, and one that two equal nodes spoil             *)
Entry(up, title, type, ref, asks) ==
  [up |-> up, title |-> title, type |-> type, ref |-> ref, asks |-> asks]
Steps == <<Entry(0, "A", "phase", Nil, {}), Entry(1, "B", "task", "x", {}),
           Entry(1, "C", "task", Nil, {"x"}), Entry(0, "D", "task", Nil, {"C", "A"})>>
Alike == <<Entry(0, "A", "phase", Nil, {}), Entry(1, "B", "task", "x", {}),
           Entry(0, "B", "task", Nil, {"B", "x"}), Entry(0, "D", "task", Nil, {"x", "B"})>>
Twice == <<Entry(0, "A", "task", "x", {}), Entry(0, "B", "task", Nil, {"x", "A"})>>
Equal == <<Entry(0, "A", "task", Nil, {}), Entry(0, "A", "task", Nil, {"A"})>>
StartOutlines == {Steps, Alike, Twice, Equal, <<>>}

(* Two tasks of two plans about the same subject, with different titles *)
Titles   == la :> la @@ lb :> lb
Lessons  == la :> pa @@ lb :> pb
Subjects == la :> {fact} @@ lb :> {fact}

SlotSymmetry == Permutations(Request) \cup Permutations(Account)

-----------------------------------------------------------------------------
(* The state of a store that no request is sent to is the same in all runs;    *)
(* and where an invite is open at first it is for an administrator, in an       *)
(* organization that has only its owner; of two plans that learnings are about  *)
(* one at least is active at first.                                            *)
Init ==
  /\ TreeInit /\ DecisionInit /\ OAuthInit /\ GoalLinksInit /\ CriteriaInit /\ SharingInit
  /\ CopiesInit /\ IntentionsInit /\ LoopInit /\ HomesInit /\ LearningInit
  /\ part \in {"tree", "decisions", "oauth", "links", "criteria", "sharing", "copies",
              "intentions", "loops", "homes", "learnings"}
  /\ part # "tree" => tree = FlatTree
  /\ part # "sharing" => invites = <<>> /\ member[bob] = Nil
  /\ invites # <<>> => invites[1].role = "admin" /\ member[bob] = Nil
  /\ part # "copies" => layout = <<>>
  /\ pa \in activePlans
  /\ part # "learnings" => outdated = {} /\ activePlans = {pa}

(* Whatever is not sent requests does not change. *)
Next ==
  /\ UNCHANGED part
  /\ IF part = "tree" THEN TreeNext ELSE UNCHANGED treeVars
  /\ IF part = "decisions" THEN DecisionNext ELSE UNCHANGED decisionVars
  /\ IF part = "oauth" THEN OAuthNext ELSE UNCHANGED oauthVars
  /\ IF part = "links" THEN GoalLinksNext ELSE UNCHANGED goalLinkVars
  /\ IF part = "criteria" THEN CriteriaNext ELSE UNCHANGED criteriaVars
  /\ IF part = "sharing" THEN SharingNext ELSE UNCHANGED sharingVars
  /\ IF part = "copies" THEN CopiesNext ELSE UNCHANGED copyVars
  /\ IF part = "intentions" THEN IntentionsNext ELSE UNCHANGED intent
  /\ IF part = "loops" THEN LoopNext ELSE UNCHANGED loopVars
  /\ IF part = "homes" THEN HomesNext ELSE UNCHANGED homeVars
  /\ IF part = "learnings" THEN LearningNext ELSE UNCHANGED learningVars

vars == <<part, treeVars, decisionVars, oauthVars, goalLinkVars, criteriaVars, sharingVars,
          copyVars, intent, loopVars, homeVars, learningVars>>

Spec == Init /\ [][Next]_vars

(* The types of each store, asked where requests are sent to it *)
ServicesTypeOK ==
  /\ part = "tree" => NodeTreeTypeOK
  /\ part = "decisions" => DecisionTypeOK
  /\ part = "oauth" => OAuthTypeOK
  /\ part = "links" => GoalLinksTypeOK
  /\ part = "criteria" => GoalCriteriaTypeOK
  /\ part = "sharing" => PlanSharingTypeOK
  /\ part = "copies" => PlanCopiesTypeOK
  /\ part = "intentions" => IntentionsTypeOK
  /\ part = "loops" => KnowledgeLoopTypeOK
  /\ part = "homes" => HomesTypeOK

(* What makes a new plan out of another one, or out of an agent's outline, makes it *)
(* whole: copies and intentions.                                               *)
PlansWhole == CopyWhole /\ IntentionSound

Between == part = "sharing" /\ \A r \in Request : ShareAt(r, "idle")

(* Access once taken away stays away, ranks are kept, and the doors agree.  They     *)
(* read only who was let in, which a request leaves behind wherever it breaks off,   *)
(* so that between the requests they are asked about all there can be.              *)
AccessSound ==
  SharingSound /\ [](Between => ListedIsOpen) /\ [](Between => PublicIsPublic)
=============================================================================
