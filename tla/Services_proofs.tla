--------------------------- MODULE Services_proofs ---------------------------
(***************************************************************************)
(* The stores behind the services, side by side: whatever the requests are *)
(* sent to, each store behaves as it does alone, so that what is proved of *)
(* a store holds of all of them together.                                  *)
(***************************************************************************)
EXTENDS MCServices, Plans_proofs, Stores_proofs

(* A step of the stores is a step of each, or leaves it as it is. *)
LEMMA TreeRuns == Spec => TreeSpec
<1>1. Init => TreeInit
  BY DEF Init
<1>2. [Next]_vars => [TreeNext]_treeVars
  BY DEF Next, vars
<1> QED
  BY <1>1, <1>2, PTL DEF Spec, TreeSpec

LEMMA DecisionRuns == Spec => DecisionSpec
<1>1. Init => DecisionInit
  BY DEF Init
<1>2. [Next]_vars => [DecisionNext]_decisionVars
  BY DEF Next, vars
<1> QED
  BY <1>1, <1>2, PTL DEF Spec, DecisionSpec

LEMMA OAuthRuns == Spec => OAuthSpec
<1>1. Init => OAuthInit
  BY DEF Init
<1>2. [Next]_vars => [OAuthNext]_oauthVars
  BY DEF Next, vars
<1> QED
  BY <1>1, <1>2, PTL DEF Spec, OAuthSpec

LEMMA GoalLinksRuns == Spec => GoalLinksSpec
<1>1. Init => GoalLinksInit
  BY DEF Init
<1>2. [Next]_vars => [GoalLinksNext]_goalLinkVars
  BY DEF Next, vars
<1> QED
  BY <1>1, <1>2, PTL DEF Spec, GoalLinksSpec

LEMMA CriteriaRuns == Spec => CriteriaSpec
<1>1. Init => CriteriaInit
  BY DEF Init
<1>2. [Next]_vars => [CriteriaNext]_criteriaVars
  BY DEF Next, vars
<1> QED
  BY <1>1, <1>2, PTL DEF Spec, CriteriaSpec

LEMMA SharingRuns == Spec => SharingSpec
<1>1. Init => SharingInit
  BY DEF Init
<1>2. [Next]_vars => [SharingNext]_sharingVars
  BY DEF Next, vars
<1> QED
  BY <1>1, <1>2, PTL DEF Spec, SharingSpec

LEMMA CopiesRuns == Spec => CopiesSpec
<1>1. Init => CopiesInit
  BY DEF Init
<1>2. [Next]_vars => [CopiesNext]_copyVars
  BY DEF Next, vars
<1> QED
  BY <1>1, <1>2, PTL DEF Spec, CopiesSpec

LEMMA IntentionsRuns == Spec => IntentionsSpec
<1>1. Init => IntentionsInit
  BY DEF Init
<1>2. [Next]_vars => [IntentionsNext]_intent
  BY DEF Next, vars
<1> QED
  BY <1>1, <1>2, PTL DEF Spec, IntentionsSpec

LEMMA LoopRuns == Spec => LoopSpec
<1>1. Init => LoopInit
  BY DEF Init
<1>2. [Next]_vars => [LoopNext]_loopVars
  BY DEF Next, vars
<1> QED
  BY <1>1, <1>2, PTL DEF Spec, LoopSpec

LEMMA HomesRuns == Spec => HomesSpec
<1>1. Init => HomesInit
  BY DEF Init
<1>2. [Next]_vars => [HomesNext]_homeVars
  BY DEF Next, vars
<1> QED
  BY <1>1, <1>2, PTL DEF Spec, HomesSpec

LEMMA LearningRuns == Spec => LearningSpec
<1>1. Init => LearningInit
  BY DEF Init
<1>2. [Next]_vars => [LearningNext]_learningVars
  BY DEF Next, vars
<1> QED
  BY <1>1, <1>2, PTL DEF Spec, LearningSpec

-----------------------------------------------------------------------------
(* The rows of every store and the requests to it are well typed, whatever requests    *)
(* overlap and wherever they break off.                                        *)
THEOREM ServicesTypeCorrect == Spec => []ServicesTypeOK
<1>1. Spec => []NodeTreeTypeOK /\ []PlanCopiesTypeOK /\ []IntentionsTypeOK
  BY TreeRuns, CopiesRuns, IntentionsRuns, TreesAreSound, CopiesAreWhole, IntentionsAreWhole
<1>2. Spec => []DecisionTypeOK /\ []OAuthTypeOK /\ []GoalLinksTypeOK /\ []GoalCriteriaTypeOK
  BY DecisionRuns, OAuthRuns, GoalLinksRuns, CriteriaRuns, DecisionTypeCorrect, OAuthTypeCorrect,
     GoalLinksTypeCorrect, CriteriaTypeCorrect
<1>3. Spec => []PlanSharingTypeOK /\ []KnowledgeLoopTypeOK /\ []HomesTypeOK
  BY SharingRuns, LoopRuns, HomesRuns, SharingTypeCorrect, LoopTypeCorrect, HomesAreKept
<1> QED
  BY <1>1, <1>2, <1>3, PTL DEF ServicesTypeOK

(* What is made out of another plan, a blueprint or an outline is whole when it succeeds,     *)
(* while any other requests are served (planForker, blueprints, intentions).    *)
THEOREM NewPlansAreWhole == Spec => []PlansWhole
<1>1. Spec => []CopyWhole /\ []IntentionSound
  BY CopiesRuns, IntentionsRuns, CopiesAreWhole, IntentionsAreWhole
<1> QED
  BY <1>1, PTL DEF PlansWhole

(* Who was removed stays out, ranks are the owner's to take, and the doors to a plan agree     *)
(* (collaboration and organization routes; plan access).                       *)
THEOREM AccessIsSound == Spec => AccessSound
<1>1. Spec => SharingSound /\ []ListedIsOpen /\ []PublicIsPublic
  BY SharingRuns, SharingSoundness, DoorsAgree
<1>2. ListedIsOpen => (Between => ListedIsOpen)
  OBVIOUS
<1>3. PublicIsPublic => (Between => PublicIsPublic)
  OBVIOUS
<1>4. Spec => [](Between => ListedIsOpen) /\ [](Between => PublicIsPublic)
  BY <1>1, <1>2, <1>3, PTL
<1> QED
  BY <1>1, <1>4 DEF AccessSound
=============================================================================
