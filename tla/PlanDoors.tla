------------------------------ MODULE PlanDoors ------------------------------
(***************************************************************************)
(* The ways to a plan: the lists it appears in and the requests that open it,  *)
(* each decided by a query of its own from the plan's row, its collaborators   *)
(* and the members of its organization.                                      *)
(***************************************************************************)
EXTENDS PlanSharing

Visibility == {"private", "organization", "unlisted", "public"}

(* A plan is filed with the visibility it was created with, and without the older   *)
(* flag; a later change writes both.                                            *)
CreatedAs(v)         == [visibility |-> v, isPublic |-> FALSE]
UpdateVisibility(v)  == [visibility |-> v, isPublic |-> v = "public"]
PlanRows == {CreatedAs(v) : v \in Visibility} \cup {UpdateVisibility(v) : v \in Visibility}

IsOpen(p) == p.visibility = "public" \/ p.isPublic

-----------------------------------------------------------------------------
(* userHasAccess: the role u has on plan p, which belongs to an organization or not *)
UserHasAccess(p, inOrg, u) ==
  LET best == BestRole(collab[u], IF inOrg THEN member[u] ELSE Nil)
  IN  CASE u = PlanOwner -> "owner"
        [] u # PlanOwner /\ best # Nil -> best
        [] OTHER -> IF IsOpen(p) THEN "viewer" ELSE Nil

CheckPlanAccess(p, inOrg, u, roles) ==
  LET role == UserHasAccess(p, inOrg, u)
  IN  role # Nil /\ (roles = {} \/ role \in roles)

(* listForUser: the role under which the list of u shows the plan.  in: the request *)
(* is made in the plan's organization, which is one of the user's.                 *)
ListForUser(p, inOrg, in, u) ==
  CASE u = PlanOwner -> "owner"
    [] u # PlanOwner /\ collab[u] # Nil -> collab[u]
    [] OTHER -> IF inOrg /\ in THEN "member" ELSE Nil

ListPublic(p)    == p.visibility = "public" \/ p.isPublic
GetPublicPlan(p) == p.visibility = "public" \/ p.isPublic

(* The preview of a link, for a user or, without one, for anybody *)
GetPlanForUnfurl(p, inOrg, u) ==
  \/ p.visibility \in {"public", "unlisted"} \/ p.isPublic
  \/ u # Nil /\ CheckPlanAccess(p, inOrg, u, {})

PreviewHasCard(p) == p.visibility \in {"public", "unlisted"}

(* POST /:id/fork *)
MayFork(p, inOrg, u) == p.visibility = "public" \/ UserHasAccess(p, inOrg, u) # Nil

-----------------------------------------------------------------------------
(* The list of a user and the plan's door tell him the same story, whoever was let *)
(* in and thrown out before: what is listed can be opened, in a role that is at     *)
(* least the one shown; what one has been let into is listed where it belongs, it   *)
(* previews and it can be forked; and only the owner passes as the owner.          *)
ListedIsOpen ==
  \A p \in PlanRows, inOrg \in BOOLEAN, u \in registered :
    LET shown == ListForUser(p, inOrg, member[u] # Nil, u)
        role  == UserHasAccess(p, inOrg, u)
    IN  /\ shown # Nil => role # Nil /\ (shown # "member" => Rank(role) >= Rank(shown))
        /\ role # Nil => /\ IsOpen(p) \/ shown # Nil
                         /\ GetPlanForUnfurl(p, inOrg, u) /\ MayFork(p, inOrg, u)
        /\ role = "owner" <=> u = PlanOwner

(* What is listed for everybody opens for everybody, with an account or without,   *)
(* and the card of a preview can be fetched by everybody.    *)
PublicIsPublic ==
  \A p \in PlanRows :
    /\ ListPublic(p) <=> GetPublicPlan(p)
    /\ ListPublic(p) => \A u \in User : UserHasAccess(p, FALSE, u) # Nil
    /\ ListPublic(p) \/ PreviewHasCard(p) => GetPlanForUnfurl(p, FALSE, Nil)
=============================================================================
