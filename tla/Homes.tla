------------------------------- MODULE Homes -------------------------------
(***************************************************************************)
(* Accounts, their organizations and workspaces, and where new plans and       *)
(* goals are filed.                                                          *)
(*                                                                         *)
(* Signing up, provisioning the personal organization and creating a workspace *)
(* are sequences of single statements; only unique constraints and foreign     *)
(* keys stand between requests that overlap.                                  *)
(***************************************************************************)
EXTENDS Slots, Integers, FiniteSets

CONSTANTS
  Account,   \* the email addresses; the personal organization is named alike
  Team,      \* the slugs of organizations that users create
  Space,     \* workspace ids
  Doc,       \* ids of plans and goals
  MaxMoves   \* bound: number of requests

ASSUME HomesAssumption ==
  /\ IsFiniteSet(Space)
  /\ Account \cap Team = {} /\ Nil \notin Account \cup Team

VARIABLES
  logins,    \* the ways an account can sign in, none: there is no account
  orgs,      \* the organizations
  rank,      \* organization_members: a role for some pairs of them and accounts
  spaces,    \* the workspaces
  filed,     \* the plans and goals: their organization and workspace
  job,       \* the request in each slot
  moves,     \* requests so far (bounded by MaxMoves)
  stranded,  \* history: accounts whose provisioning never ran through
  crossed    \* history: organizations for which two defaults were under way at once

homeVars == <<logins, orgs, rank, spaces, filed, job, moves, stranded, crossed>>
stores   == <<logins, orgs, rank, spaces, filed>>

Org  == Account \cup Team
Slug == {"default", "other"} \X (1 .. Cardinality(Space) + 1)
NewSpace(o, s, d) == [org |-> o, slug |-> s, default |-> d, archived |-> FALSE]

(* user: who asks, or is provisioned; org, space, slug, default: what is to be   *)
(* written; strict: the backfill, which takes no other slug than 'default'       *)
NoJob == [pc |-> "idle", user |-> Nil, org |-> Nil, space |-> Nil, slug |-> Nil,
          default |-> FALSE, strict |-> FALSE]
JobAt(r, p) == job[r].pc = p
JobDone(r)  == job' = [job EXCEPT ![r] = NoJob]
Goto(r, p)  == job' = [job EXCEPT ![r].pc = p]

Waits == {"account", "link", "sso", "orgs", "org", "found", "member", "home", "slug",
            "insert", "team", "rename", "file"}

HomesTypeOK ==
  /\ logins \in [Account -> SUBSET {"password", "sso"}]
  /\ orgs \subseteq Org /\ stranded \subseteq Account /\ crossed \subseteq Org
  /\ DOMAIN rank \subseteq orgs \X Account
  /\ \A m \in DOMAIN rank : rank[m] \in {"owner", "member"} /\ logins[m[2]] # {}
  /\ DOMAIN spaces \subseteq Space /\ DOMAIN filed \subseteq Doc
  /\ \A s \in DOMAIN spaces : spaces[s].org \in orgs /\ spaces[s].slug \in Slug
  /\ \A s, t \in DOMAIN spaces :
       s # t => <<spaces[s].org, spaces[s].slug>> # <<spaces[t].org, spaces[t].slug>>
  /\ \A d \in DOMAIN filed : filed[d].org \in {Nil} \cup orgs /\ filed[d].space \in DOMAIN spaces
  /\ \A r \in Request : job[r].pc \in {"idle"} \cup Waits

HomesInit ==
  /\ logins = [a \in Account |-> {}] /\ orgs = {}
  /\ rank = <<>> /\ spaces = <<>> /\ filed = <<>>
  /\ job = [r \in Request |-> NoJob] /\ moves = 0
  /\ stranded = {} /\ crossed = {}

-----------------------------------------------------------------------------
(* Reads *)
OrgsOf(a)     == {o \in orgs : <<o, a>> \in DOMAIN rank}
SpacesIn(o)   == {s \in DOMAIN spaces : spaces[s].org = o}
Defaults(o)   == {s \in SpacesIn(o) : spaces[s].default}
Slugged(o, x) == {s \in SpacesIn(o) : spaces[s].slug = x}
May(a, o, R)  == <<o, a>> \in DOMAIN rank /\ rank[<<o, a>>] \in R

(* uniqueSlug: the base, or the base with the first number that is free *)
UniqueSlug(o, base) ==
  LET free == {n \in 1 .. Cardinality(Space) + 1 : Slugged(o, <<base, n>>) = {}}
  IN  <<base, CHOOSE n \in free : \A m \in free : n <= m>>

(* findFallbackWorkspaceForUser: the defaults of the personal organization, or   *)
(* else of the others                                                         *)
Fallback(a) ==
  IF a \in OrgsOf(a) /\ Defaults(a) # {} THEN Defaults(a)
  ELSE UNION {Defaults(o) : o \in OrgsOf(a)}

Start(r, j) ==
  /\ JobAt(r, "idle") /\ moves < MaxMoves /\ moves' = moves + 1
  /\ job' = [job EXCEPT ![r] = j]
Atomic == moves < MaxMoves /\ moves' = moves + 1 /\ UNCHANGED job

-----------------------------------------------------------------------------
(* Accounts *)

(* register: findByEmail; hashing the password takes its time. *)
SignUp(r) ==
  /\ \E a \in Account : logins[a] = {} /\ Start(r, [NoJob EXCEPT !.pc = "account", !.user = a])
  /\ UNCHANGED <<stores, stranded, crossed>>

(* The INSERT fails if the address was taken meanwhile. *)
InsertAccount(r) ==
  LET a == job[r].user
  IN  /\ JobAt(r, "account")
      /\ IF logins[a] # {} THEN UNCHANGED logins /\ JobDone(r)
         ELSE logins' = [logins EXCEPT ![a] = {"password"}] /\ Goto(r, "orgs")
      /\ UNCHANGED <<orgs, rank, spaces, filed, moves, stranded, crossed>>

(* githubCallback, googleCallback: who is unknown to the provider's id is looked  *)
(* up by address.                                                             *)
SignInWithProvider(r) ==
  /\ \E a \in Account :
       /\ "sso" \notin logins[a]
       /\ Start(r, [NoJob EXCEPT !.pc = IF logins[a] # {} THEN "link" ELSE "sso", !.user = a])
  /\ UNCHANGED <<stores, stranded, crossed>>

LinkProvider(r) ==
  /\ JobAt(r, "link")
  /\ logins' = [logins EXCEPT ![job[r].user] = @ \cup {"sso"}]
  /\ JobDone(r)
  /\ UNCHANGED <<orgs, rank, spaces, filed, moves, stranded, crossed>>

(* An account that a provider vouches for is given no home. *)
InsertProviderAccount(r) ==
  LET a == job[r].user
  IN  /\ JobAt(r, "sso") /\ JobDone(r)
      /\ IF logins[a] # {} THEN UNCHANGED <<logins, stranded>>
         ELSE logins' = [logins EXCEPT ![a] = {"sso"}] /\ stranded' = stranded \cup {a}
      /\ UNCHANGED <<orgs, rank, spaces, filed, moves, crossed>>

-----------------------------------------------------------------------------
(* ensurePersonalScope, after registration and from the backfill script *)

Backfill(r) ==
  /\ \E a \in Account :
       /\ logins[a] # {}
       /\ Start(r, [NoJob EXCEPT !.pc = "orgs", !.user = a, !.strict = TRUE])
  /\ UNCHANGED <<stores, stranded, crossed>>

Provisions(r) ==
  \/ job[r].pc \in {"orgs", "org", "found", "member", "home"}
  \/ job[r].pc \in {"slug", "insert"} /\ job[r].user # Nil

GiveUp(r) ==
  JobDone(r) /\ stranded' = IF Provisions(r) THEN stranded \cup {job[r].user} ELSE stranded

(* Whoever belongs to an organization is left alone, even to a team that may go. *)
ListOrgs(r) ==
  LET a == job[r].user
  IN  /\ JobAt(r, "orgs")
      /\ IF OrgsOf(a) = {}
         THEN /\ Goto(r, "org") /\ UNCHANGED stranded
              /\ crossed' = IF \E q \in Request \ {r} : Provisions(q) /\ job[q].user = a
                            THEN crossed \cup {a} ELSE crossed
         ELSE /\ JobDone(r) /\ UNCHANGED crossed
              /\ stranded' = IF a \in OrgsOf(a) /\ Defaults(a) # {} THEN stranded ELSE stranded \cup {a}
      /\ UNCHANGED <<stores, moves>>

(* A run that broke off may have left the organization behind.  It is looked up by its *)
(* slug, made of the first eight characters of the account's id: the model takes it   *)
(* that no two accounts share them and that no team has such a slug (HomesAssumption). *)
FindPersonalOrg(r) ==
  /\ JobAt(r, "org")
  /\ Goto(r, IF job[r].user \in orgs THEN "member" ELSE "found")
  /\ UNCHANGED <<stores, moves, stranded, crossed>>

CreatePersonalOrg(r) ==
  LET a == job[r].user
  IN  /\ JobAt(r, "found")
      /\ IF a \in orgs THEN UNCHANGED orgs /\ GiveUp(r)
         ELSE orgs' = orgs \cup {a} /\ Goto(r, "member") /\ UNCHANGED stranded
      /\ UNCHANGED <<logins, rank, spaces, filed, moves, crossed>>

AddOwner(r) ==
  LET a == job[r].user
  IN  /\ JobAt(r, "member")
      /\ rank' = Updated(rank, [m \in {<<a, a>>} |-> "owner"])
      /\ Goto(r, "home")
      /\ UNCHANGED <<logins, orgs, spaces, filed, moves, stranded, crossed>>

(* Is another default under way in o? *)
Crossing(r, o) ==
  \E q \in Request \ {r} :
    \/ job[q].pc \in {"slug", "insert"} /\ job[q].default /\ job[q].org = o
    \/ job[q].pc = "home" /\ job[q].user = o

(* A workspace with that slug is taken for the default one, whatever it is. *)
FindDefaultSlug(r) ==
  LET a == job[r].user
  IN  /\ JobAt(r, "home")
      /\ IF Slugged(a, <<"default", 1>>) # {}
         THEN /\ JobDone(r) /\ UNCHANGED crossed
              /\ stranded' = IF Defaults(a) = {} THEN stranded \cup {a} ELSE stranded \ {a}
         ELSE /\ job' = [job EXCEPT ![r].pc = IF job[r].strict THEN "insert" ELSE "slug",
                                    ![r].org = a, ![r].slug = <<"default", 1>>,
                                    ![r].default = TRUE]
              /\ crossed' = IF Crossing(r, a) THEN crossed \cup {a} ELSE crossed
              /\ UNCHANGED stranded
      /\ UNCHANGED <<stores, moves>>

-----------------------------------------------------------------------------
(* Workspaces *)

(* Mutant: nobody asks for the default workspace that is there. *)
CreateWorkspace_Again(r) ==
  \E a \in Account, o \in orgs, default \in BOOLEAN, base \in {"default", "other"} :
    /\ May(a, o, {"owner", "member"})
    /\ Start(r, [NoJob EXCEPT !.pc = "slug", !.org = o, !.slug = <<base, 1>>,
                              !.default = default])
    /\ crossed' = IF default /\ Crossing(r, o) THEN crossed \cup {o} ELSE crossed
    /\ UNCHANGED <<stores, stranded>>

(* POST /workspaces: a second default is refused. *)
CreateWorkspace(r) ==
  \E a \in Account, o \in orgs, default \in BOOLEAN, base \in {"default", "other"} :
    /\ May(a, o, {"owner", "member"})
    /\ default => Defaults(o) = {}
    /\ Start(r, [NoJob EXCEPT !.pc = "slug", !.org = o, !.slug = <<base, 1>>,
                              !.default = default])
    /\ crossed' = IF default /\ Crossing(r, o) THEN crossed \cup {o} ELSE crossed
    /\ UNCHANGED <<stores, stranded>>

ChooseSlug(r) ==
  /\ JobAt(r, "slug")
  /\ job' = [job EXCEPT ![r].pc = "insert", ![r].slug = UniqueSlug(job[r].org, @[1])]
  /\ UNCHANGED <<stores, moves, stranded, crossed>>

(* The INSERT fails if the slug was taken or the organization deleted meanwhile. *)
InsertWorkspace(r) ==
  LET o == job[r].org
  IN  /\ JobAt(r, "insert")
      /\ IF o \notin orgs \/ Slugged(o, job[r].slug) # {}
         THEN UNCHANGED spaces /\ GiveUp(r)
         ELSE \E s \in Space \ DOMAIN spaces :
                /\ spaces' = Updated(spaces, [n \in {s} |->
                               NewSpace(o, job[r].slug, job[r].default)])
                /\ JobDone(r)
                /\ stranded' = stranded \ {job[r].user}
      /\ UNCHANGED <<logins, orgs, rank, filed, moves, crossed>>

(* PATCH /workspaces/:id with a slug: taken slugs are numbered, its own included. *)
AskRename(r) ==
  /\ \E a \in Account, s \in DOMAIN spaces, base \in {"default", "other"} :
       /\ May(a, spaces[s].org, {"owner", "member"})
       /\ Start(r, [NoJob EXCEPT !.pc = "rename", !.space = s,
                                 !.slug = UniqueSlug(spaces[s].org, base)])
  /\ UNCHANGED <<stores, stranded, crossed>>

RenameWorkspace(r) ==
  LET s == job[r].space
  IN  /\ JobAt(r, "rename") /\ JobDone(r)
      /\ spaces' = IF s \in DOMAIN spaces /\ Slugged(spaces[s].org, job[r].slug) = {}
                   THEN [spaces EXCEPT ![s].slug = job[r].slug] ELSE spaces
      /\ UNCHANGED <<logins, orgs, rank, filed, moves, stranded, crossed>>

(* archive, restore: a default workspace is never archived. *)
ArchiveWorkspace ==
  /\ Atomic
  /\ \E a \in Account, s \in DOMAIN spaces, archived \in BOOLEAN :
       /\ May(a, spaces[s].org, {"owner", "member"})
       /\ archived => ~spaces[s].default
       /\ spaces' = [spaces EXCEPT ![s].archived = archived]
  /\ UNCHANGED <<logins, orgs, rank, filed, stranded, crossed>>

(* DELETE /workspaces/:id: neither a default nor one in which something is filed *)
DeleteWorkspace ==
  /\ Atomic
  /\ \E a \in Account, s \in DOMAIN spaces :
       /\ May(a, spaces[s].org, {"owner"})
       /\ ~spaces[s].default /\ \A d \in DOMAIN filed : filed[d].space # s
       /\ spaces' = Without(spaces, {s})
  /\ UNCHANGED <<logins, orgs, rank, filed, stranded, crossed>>

-----------------------------------------------------------------------------
(* Organizations *)

(* POST /organizations: the organization, then its owner, and no workspace *)
CreateTeam(r) ==
  /\ \E a \in Account, o \in Team \ orgs :
       /\ logins[a] # {}
       /\ Start(r, [NoJob EXCEPT !.pc = "team", !.user = a, !.org = o])
       /\ orgs' = orgs \cup {o}
  /\ UNCHANGED <<logins, rank, spaces, filed, stranded, crossed>>

AddTeamOwner(r) ==
  /\ JobAt(r, "team") /\ JobDone(r)
  /\ rank' = Updated(rank, [m \in {<<job[r].org, job[r].user>>} |-> "owner"])
  /\ UNCHANGED <<logins, orgs, spaces, filed, moves, stranded, crossed>>

(* The members come and go; the owner is neither added again nor removed. *)
AddMember ==
  /\ Atomic
  /\ \E a, b \in Account, o \in orgs :
       /\ May(a, o, {"owner"}) /\ logins[b] # {} /\ <<o, b>> \notin DOMAIN rank
       /\ rank' = Updated(rank, [m \in {<<o, b>>} |-> "member"])
  /\ UNCHANGED <<logins, orgs, spaces, filed, stranded, crossed>>

RemoveMember ==
  /\ Atomic
  /\ \E a, b \in Account, o \in orgs :
       /\ May(a, o, {"owner"}) /\ May(b, o, {"member"})
       /\ rank' = Without(rank, {<<o, b>>})
  /\ UNCHANGED <<logins, orgs, spaces, filed, stranded, crossed>>

(* Its members and workspaces go with an organization, unless something is filed  *)
(* in them; what is filed elsewhere just loses it. A personal one stays.          *)
DeleteTeam ==
  /\ Atomic
  /\ \E a \in Account, o \in orgs \cap Team :
       /\ May(a, o, {"owner"})
       /\ \A d \in DOMAIN filed : filed[d].space \notin SpacesIn(o)
       /\ orgs' = orgs \ {o}
       /\ rank' = Without(rank, {o} \X Account)
       /\ spaces' = Without(spaces, SpacesIn(o))
       /\ filed' = [d \in DOMAIN filed |->
                      IF filed[d].org = o THEN [filed[d] EXCEPT !.org = Nil] ELSE filed[d]]
  /\ UNCHANGED <<logins, stranded, crossed>>

-----------------------------------------------------------------------------
(* Plans and goals *)

(* createPlan, POST /goals: into the workspace asked for, a default one of the     *)
(* organization asked for, or else the fallback, whose organization a plan         *)
(* without one adopts.                                                          *)
Resolve(r) ==
  \E a \in Account, o \in {Nil} \cup orgs, asked \in {Nil} \cup DOMAIN spaces, adopts \in BOOLEAN :
    /\ logins[a] # {}
    /\ \E s \in IF asked # Nil THEN {asked}
                ELSE IF o # Nil /\ Defaults(o) # {} THEN Defaults(o) ELSE Fallback(a) :
         Start(r, [NoJob EXCEPT !.pc = "file", !.space = s,
                                !.org = IF o = Nil /\ asked = Nil /\ adopts
                                        THEN spaces[s].org ELSE o])
    /\ UNCHANGED <<stores, stranded, crossed>>

(* POST /plans/:id/fork: into a workspace of an organization one belongs to *)
ResolveFork(r) ==
  \E a \in Account : \E o \in OrgsOf(a) : \E s \in SpacesIn(o) :
    /\ Start(r, [NoJob EXCEPT !.pc = "file", !.space = s, !.org = o])
    /\ UNCHANGED <<stores, stranded, crossed>>

(* createIntention: the plan goes where its goal is. *)
ResolveIntention(r) ==
  \E d \in DOMAIN filed, a \in Account :
    \E o \in IF filed[d].org # Nil THEN {filed[d].org} ELSE {Nil} \cup OrgsOf(a) :
      /\ Start(r, [NoJob EXCEPT !.pc = "file", !.space = filed[d].space, !.org = o])
      /\ UNCHANGED <<stores, stranded, crossed>>

(* The INSERT fails if its workspace or organization was deleted meanwhile. *)
InsertDoc(r) ==
  /\ JobAt(r, "file") /\ JobDone(r)
  /\ IF job[r].space \notin DOMAIN spaces \/ job[r].org \notin {Nil} \cup orgs THEN UNCHANGED filed
     ELSE \E d \in Doc \ DOMAIN filed :
            filed' = Updated(filed, [n \in {d} |-> [org |-> job[r].org, space |-> job[r].space]])
  /\ UNCHANGED <<logins, orgs, rank, spaces, moves, stranded, crossed>>

(* updatePlan, PUT /goals/:id: into any workspace there is *)
MoveDoc ==
  /\ Atomic
  /\ \E d \in DOMAIN filed, s \in DOMAIN spaces : filed' = [filed EXCEPT ![d].space = s]
  /\ UNCHANGED <<logins, orgs, rank, spaces, stranded, crossed>>

DeleteDoc ==
  /\ Atomic
  /\ \E d \in DOMAIN filed : filed' = Without(filed, {d})
  /\ UNCHANGED <<logins, orgs, rank, spaces, stranded, crossed>>

-----------------------------------------------------------------------------
(* A statement fails, or the process stops: the rest of the request is lost. *)
AbandonJob(r) ==
  /\ ~JobAt(r, "idle")
  /\ JobDone(r)
  /\ stranded' = IF Provisions(r) /\ logins[job[r].user] # {}
                 THEN stranded \cup {job[r].user} ELSE stranded
  /\ UNCHANGED <<stores, moves, crossed>>

HomeStep(r) ==
  \/ SignUp(r) \/ InsertAccount(r)
  \/ SignInWithProvider(r) \/ LinkProvider(r) \/ InsertProviderAccount(r)
  \/ Backfill(r) \/ ListOrgs(r) \/ FindPersonalOrg(r) \/ CreatePersonalOrg(r) \/ AddOwner(r)
  \/ FindDefaultSlug(r)
  \/ CreateWorkspace(r) \/ ChooseSlug(r) \/ InsertWorkspace(r) \/ AskRename(r) \/ RenameWorkspace(r)
  \/ CreateTeam(r) \/ AddTeamOwner(r)
  \/ Resolve(r) \/ ResolveFork(r) \/ ResolveIntention(r) \/ InsertDoc(r) \/ AbandonJob(r)

HomesNext ==
  \/ \E r \in Request : HomeStep(r)
  \/ ArchiveWorkspace \/ DeleteWorkspace \/ AddMember \/ RemoveMember \/ DeleteTeam
  \/ MoveDoc \/ DeleteDoc

HomesSpec == HomesInit /\ [][HomesNext]_homeVars

-----------------------------------------------------------------------------
(* Whoever has an account has a workspace for what they create, and keeps it,     *)
(* whatever others do to organizations and workspaces; unless the account came     *)
(* from a provider or its provisioning did not run through.                       *)
HomeForAll ==
  \A a \in Account : logins[a] # {} =>
    \/ a \in stranded
    \/ \E r \in Request : Provisions(r) /\ job[r].user = a
    \/ \E s \in Fallback(a) : ~spaces[s].archived

(* An organization has one default workspace, unless two were created at once. *)
OneDefault == \A o \in orgs \ crossed : Cardinality(Defaults(o)) <= 1

(* Whoever creates something has one place where it belongs. *)
HomesSound == HomeForAll /\ OneDefault
=============================================================================
