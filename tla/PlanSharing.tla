---------------------------- MODULE PlanSharing ----------------------------
(***************************************************************************)
(* Who may do what with a plan: its collaborators, the invites to become      *)
(* one, and the organization it belongs to.                                  *)
(*                                                                         *)
(* Every request reads the role of the one who asks, then what it is about,   *)
(* and writes afterwards; nothing holds what was read until then.             *)
(***************************************************************************)
EXTENDS Slots, Integers, FiniteSets

CONSTANTS
  User,
  PlanOwner, OrgOwner, \* owner_id of the plan; the owner of its organization
  Guest,     \* the users who have no account at first, only an e-mail address
  Offered,   \* the roles that are offered
  MaxShares, \* bound: number of requests
  MaxInvites \* bound: number of invites

VARIABLES
  collab,     \* plan_collaborators: [User -> role or Nil]
  member,     \* organization_members: [User -> role or Nil]
  registered, \* the users who have an account
  invites,    \* pending_invites: [ids -> [user, role, used]]
  share,      \* the request in each slot
  shares,     \* requests so far (bounded by MaxShares)
  mailed,     \* invites made so far (bounded by MaxInvites)
  barred      \* history: the users who were removed from the plan with no grant
              \* underway and no open invite, and to whom no grant was started since

sharingVars == <<collab, member, registered, invites, share, shares, mailed, barred>>

CollabRole == {"viewer", "editor", "admin"}
OrgRole    == {"member", "admin", "owner"}
PlanVerb   == {"share", "add", "remove", "withdraw"}
OrgVerb    == {"enrol", "dismiss", "rank"}

ASSUME SharingAssumption ==
  /\ Guest \subseteq User /\ {PlanOwner, OrgOwner} \subseteq User \ Guest
  /\ Offered \subseteq CollabRole
  /\ Nil \notin CollabRole \cup OrgRole \cup PlanVerb \cup OrgVerb \cup {"accept"} \cup User

(* actor and seen: the one who asks and the role as far as it was read, until the *)
(* request needs them no more; late: history, was the membership of the target    *)
(* changed since it was read?                                                   *)
NoShare == [pc |-> "idle", verb |-> Nil, actor |-> Nil, target |-> Nil, role |-> Nil,
            invite |-> 0, seen |-> Nil, late |-> FALSE]
ShareAt(r, p)      == share[r].pc = p
ShareGoto(r, p)    == share' = [share EXCEPT ![r].pc = p]
ShareDone(r)       == share' = [share EXCEPT ![r] = NoShare]

PlanSharingTypeOK ==
  /\ collab \in [User -> CollabRole \cup {Nil}]
  /\ member \in [User -> OrgRole \cup {Nil}]
  /\ registered \subseteq User
  /\ DOMAIN invites \subseteq 1 .. mailed
  /\ \A i \in DOMAIN invites : invites[i].user \in Guest /\ invites[i].role \in CollabRole
  /\ \A r \in Request : share[r].pc \in
       {"idle", "member", "lookup", "grant", "invite", "drop", "write", "target"}

SharingInit ==
  /\ collab = [u \in User |-> Nil]
  /\ member \in {m \in [User -> OrgRole \cup {Nil}] :
                   /\ \A u \in User : m[u] = "owner" <=> u = OrgOwner
                   /\ \A u \in Guest : m[u] = Nil}
  /\ registered = User \ Guest
  /\ invites \in {<<>>} \cup {<<[user |-> u, role |-> c, used |-> FALSE]>> :
                              u \in Guest, c \in Offered}
  /\ mailed = Cardinality(DOMAIN invites)
  /\ share = [r \in Request |-> NoShare] /\ shares = 0 /\ barred = {}

-----------------------------------------------------------------------------
Rank(role) == CASE role = "owner" -> 3 [] role = "admin" -> 2 [] role = "editor" -> 1
                [] OTHER -> 0

(* owners and administrators of the organization administer its plans *)
OrgPlanRole(m) == IF m \in {"owner", "admin"} THEN "admin" ELSE "editor"

(* userHasAccess: the higher of the two roles; a public plan lets everybody    *)
(* read it, which no request here asks for.                                    *)
BestRole(c, m) ==
  CASE m = Nil -> c
    [] m # Nil /\ c = Nil -> OrgPlanRole(m)
    [] OTHER -> IF Rank(OrgPlanRole(m)) > Rank(c) THEN OrgPlanRole(m) ELSE c

OpenFor(u)  == \E i \in DOMAIN invites : invites[i].user = u /\ ~invites[i].used
Granting(u) == \E r \in Request : share[r].verb \in {"share", "add", "accept"}
                                  /\ share[r].target = u

MayShare(r) == ShareAt(r, "idle") /\ shares < MaxShares

Asks(r, rec) ==
  /\ share' = [share EXCEPT ![r] = rec]
  /\ shares' = shares + 1

(* userHasAccess: the plan and the collaborator row *)
StartPlanRequest(r) ==
  /\ MayShare(r)
  /\ \E u \in registered, v \in PlanVerb : \E t \in User, c \in Offered, i \in 0 .. mailed :
       /\ v \in {"remove", "withdraw"} => c = CHOOSE o \in Offered : TRUE
       /\ v = "add" => t \in registered
       /\ IF v = "withdraw" THEN i # 0 /\ t = PlanOwner ELSE i = 0
       /\ u = PlanOwner \/ collab[u] # Nil \/ member[u] # Nil
       /\ Asks(r, IF u = PlanOwner
                  THEN [NoShare EXCEPT !.pc = "lookup", !.verb = v, !.target = t, !.role = c,
                          !.invite = i]
                  ELSE [NoShare EXCEPT !.pc = "member", !.verb = v, !.target = t, !.role = c,
                          !.invite = i, !.actor = u, !.seen = collab[u]])
       /\ barred' = IF v \in {"share", "add"} THEN barred \ {t} ELSE barred
  /\ UNCHANGED <<collab, member, registered, invites, mailed>>

(* userHasAccess: the membership; then the roles the request asks for *)
CheckRole(r) ==
  LET best == BestRole(share[r].seen, member[share[r].actor])
  IN  /\ ShareAt(r, "member")
      /\ IF best \in {"owner", "admin"}
         THEN share' = [share EXCEPT ![r].pc = "lookup", ![r].actor = Nil, ![r].seen = Nil]
         ELSE ShareDone(r)
      /\ UNCHANGED <<collab, member, registered, invites, shares, mailed, barred>>

(* POST /:id/share looks the address up: whoever has an account is added unless *)
(* he is a collaborator or the owner, everybody else is invited once; the other *)
(* requests look nothing up.                                                   *)
LookUp(r) ==
  LET t == share[r].target
      next == CASE share[r].verb \in {"remove", "withdraw"} -> "write"
                [] share[r].verb = "add" -> "grant"
                [] OTHER ->
                     IF t \in registered
                     THEN IF collab[t] # Nil \/ t = PlanOwner THEN "idle" ELSE "grant"
                     ELSE IF \E i \in DOMAIN invites : invites[i].user = t THEN "idle"
                     ELSE "invite"
  IN  /\ ShareAt(r, "lookup")
      /\ IF next = "idle" THEN ShareDone(r) ELSE ShareGoto(r, next)
      /\ UNCHANGED <<collab, member, registered, invites, shares, mailed, barred>>

(* collaboratorsDal.add: inserts the row or overwrites its role *)
AddCollaborator(r) ==
  LET q == share[r]
  IN  /\ ShareAt(r, "grant")
      /\ collab' = [collab EXCEPT ![q.target] = q.role]
      /\ IF q.verb = "accept"
         THEN /\ ShareGoto(r, "drop")
              /\ invites' = IF q.invite \in DOMAIN invites
                            THEN [invites EXCEPT ![q.invite].used = TRUE] ELSE invites
         ELSE ShareDone(r) /\ UNCHANGED invites
      /\ UNCHANGED <<member, registered, shares, mailed, barred>>

(* The invite is made without an expiry. *)
CreateInvite(r) ==
  LET q == share[r]
  IN  /\ ShareAt(r, "invite") /\ mailed < MaxInvites
      /\ mailed' = mailed + 1
      /\ invites' = Updated(invites, [i \in {mailed'} |->
                      [user |-> q.target, role |-> q.role, used |-> FALSE]])
      /\ ShareDone(r)
      /\ UNCHANGED <<collab, member, registered, shares, barred>>

(* removeCollaborator *)
RemoveCollaborator(r) ==
  LET t == share[r].target
  IN  /\ ShareAt(r, "write") /\ share[r].verb = "remove"
      /\ collab' = [collab EXCEPT ![t] = Nil]
      /\ barred' = IF OpenFor(t) \/ Granting(t) THEN barred ELSE barred \cup {t}
      /\ ShareDone(r)
      /\ UNCHANGED <<member, registered, invites, shares, mailed>>

(* DELETE /:planId/invites/:inviteId *)
WithdrawInvite(r) ==
  /\ ShareAt(r, "write") /\ share[r].verb = "withdraw"
  /\ invites' = Without(invites, {share[r].invite})
  /\ ShareDone(r)
  /\ UNCHANGED <<collab, member, registered, shares, mailed, barred>>

(* POST /accept/:token: the token is the id of the invite *)
StartAccept(r) ==
  /\ MayShare(r)
  /\ \E i \in DOMAIN invites :
       LET u == invites[i].user
       IN  /\ u \in registered
           /\ Asks(r, [NoShare EXCEPT !.pc = "grant", !.verb = "accept",
                         !.target = u, !.role = invites[i].role, !.invite = i])
  /\ UNCHANGED <<collab, member, registered, invites, mailed, barred>>

DropInvite(r) ==
  /\ ShareAt(r, "drop")
  /\ invites' = Without(invites, {share[r].invite})
  /\ ShareDone(r)
  /\ UNCHANGED <<collab, member, registered, shares, mailed, barred>>

(* register: convertPendingInvites asks for invites that expire in the future, *)
(* and these invites have no expiry, so that it finds none.                     *)
Register ==
  /\ \E u \in Guest \ registered : registered' = registered \cup {u}
  /\ UNCHANGED <<collab, member, invites, share, shares, mailed, barred>>

-----------------------------------------------------------------------------
(* The organization routes: the membership of the one who asks *)
StartOrgRequest(r) ==
  /\ MayShare(r)
  /\ \E u \in registered, v \in OrgVerb : \E t \in registered, m \in OrgRole \ {"owner"} :
       /\ member[u] \in IF v = "rank" THEN {"owner"} ELSE {"owner", "admin"}
       /\ v = "dismiss" => m = "member"
       /\ Asks(r, [NoShare EXCEPT !.pc = "target", !.verb = v, !.target = t, !.role = m,
                     !.seen = member[u]])
  /\ UNCHANGED <<collab, member, registered, invites, mailed, barred>>

(* Mutant: an administrator may dismiss another one. *)
MayChange_AnyAdmin(verb, seen, m) ==
  CASE verb = "enrol" -> m = Nil
    [] OTHER -> m \notin {Nil, "owner"}

(* what the membership m of the target must be *)
MayChange(verb, seen, m) ==
  CASE verb = "enrol" -> m = Nil
    [] verb = "rank"  -> m \notin {Nil, "owner"}
    [] OTHER -> m \notin {Nil, "owner"} /\ ~(seen = "admin" /\ m = "admin")

CheckTarget(r) ==
  LET q == share[r]
  IN  /\ ShareAt(r, "target")
      /\ IF MayChange(q.verb, q.seen, member[q.target])
         THEN share' = [share EXCEPT ![r].pc = "write", ![r].late = FALSE]
         ELSE ShareDone(r)
      /\ UNCHANGED <<collab, member, registered, invites, shares, mailed, barred>>

(* addMember inserts or overwrites; updateMemberRole and removeMember go by the *)
(* id of the row, which a removal takes away from those who still hold it.      *)
WriteMember(r) ==
  LET q == share[r]
      m == IF q.verb = "dismiss" THEN Nil ELSE q.role
      Told(p) == share[p].target = q.target /\ share[p].pc = "write"
                 /\ share[p].verb \in OrgVerb
  IN  /\ ShareAt(r, "write") /\ q.verb \in OrgVerb
      /\ member' = [member EXCEPT ![q.target] = m]
      /\ share' = [p \in Request |->
           IF p = r \/ (Told(p) /\ m = Nil /\ share[p].verb # "enrol") THEN NoShare
           ELSE IF Told(p) THEN [share[p] EXCEPT !.late = TRUE]
           ELSE share[p]]
      /\ UNCHANGED <<collab, registered, invites, shares, mailed, barred>>

(* The process stops: an invite that was accepted but not deleted is open. *)
CrashSharing ==
  /\ \E r \in Request : ~ShareAt(r, "idle")
  /\ share' = [r \in Request |-> NoShare]
  /\ invites' = [i \in DOMAIN invites |->
       IF \E r \in Request : ShareAt(r, "drop") /\ share[r].invite = i
       THEN [invites[i] EXCEPT !.used = FALSE] ELSE invites[i]]
  /\ UNCHANGED <<collab, member, registered, shares, mailed, barred>>

ShareStep(r) ==
  \/ CheckRole(r) \/ LookUp(r) \/ AddCollaborator(r) \/ CreateInvite(r)
  \/ RemoveCollaborator(r) \/ WithdrawInvite(r) \/ DropInvite(r)
  \/ CheckTarget(r) \/ WriteMember(r)

SharingNext ==
  \/ \E r \in Request :
       StartPlanRequest(r) \/ StartAccept(r) \/ StartOrgRequest(r) \/ ShareStep(r)
  \/ Register \/ CrashSharing

SharingSpec == SharingInit /\ [][SharingNext]_sharingVars

-----------------------------------------------------------------------------
(* A collaborator who was removed stays out until somebody starts to let him in *)
(* again: no invite brings him back that he had accepted before.                *)
RemovedStaysOut ==
  \A u \in barred : collab[u] = Nil

(* The owner of the organization cannot lose that role, and an administrator    *)
(* loses his only to the owner; unless he became one, or was added, while the    *)
(* request was underway.                                                       *)
RanksKept ==
  [][\A u \in User :
       /\ member[u] = "owner" => member'[u] = "owner"
       /\ member[u] = "admin" /\ member'[u] # "admin" =>
            \E r \in Request : /\ share[r].pc = "write" /\ share[r].target = u
                               /\ share[r].seen = "owner" \/ share[r].late]_sharingVars

(* Access once taken away and ranks once held are lost and won by the owner's    *)
(* and the administrators' decisions only.                                     *)
SharingSound == []RemovedStaysOut /\ RanksKept
=============================================================================
