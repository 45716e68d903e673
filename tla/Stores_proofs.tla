---------------------------- MODULE Stores_proofs ----------------------------
(***************************************************************************)
(* Proofs about what is kept beside the plans: the homes of users and      *)
(* plans, decisions, tokens, goals and knowledge: what is handed out once, *)
(* what closes a goal and counts towards one, and what is checked of what  *)
(* is learned.                                                             *)
(***************************************************************************)
EXTENDS Homes, DecisionQueue, OAuthStore, GoalLinks, GoalCriteria, KnowledgeLoop, Learnings, SequenceTheorems, FiniteSetTheorems, WellFoundedInduction, TLAPS

-----------------------------------------------------------------------------
(***************************************************************************)
(* Homes. Proof that everybody has a home in any interleaving: who has an  *)
(* account has a default workspace in an organization of their own, or a   *)
(* request that is about to provide it; and an organization has one        *)
(* default workspace at most.                                              *)
(*                                                                         *)
(* The invariant says of every request how much of its unit of work is     *)
(* done, and of every organization whose request still owes it an owner or *)
(* a workspace.                                                            *)
(***************************************************************************)
JobRow == [pc : {"idle"} \cup Waits, user : Account \cup {Nil}, org : Org \cup {Nil},
           space : Space \cup {Nil}, slug : Slug \cup {Nil}, default : BOOLEAN, strict : BOOLEAN]
SpaceRow == [org : Org, slug : Slug, default : BOOLEAN, archived : BOOLEAN]

(* The predicates speak of any tables, as a step changes them one by one:  *)
(* L logins, O organizations, R ranks, S workspaces, F what is filed.      *)
Def(S, o) == {s \in DOMAIN S : S[s].org = o /\ S[s].default}

HomeTables(L, O, R, S, F) ==
  /\ L \in [Account -> SUBSET {"password", "sso"}] /\ O \subseteq Org
  /\ DOMAIN R \subseteq O \X Account
  /\ \A m \in DOMAIN R : R[m] \in {"owner", "member"} /\ L[m[2]] # {}
  /\ DOMAIN S \subseteq Space /\ \A s \in DOMAIN S : S[s] \in SpaceRow /\ S[s].org \in O
  /\ \A s, t \in DOMAIN S : s # t => <<S[s].org, S[s].slug>> # <<S[t].org, S[t].slug>>
  /\ DOMAIN F \subseteq Doc
  /\ \A d \in DOMAIN F : F[d].org \in {Nil} \cup O /\ F[d].space \in DOMAIN S
                         /\ F[d] = [org |-> F[d].org, space |-> F[d].space]

(* A personal organization is its owner's, and nobody else's; a default    *)
(* workspace is never archived.                                            *)
Owned(R, S) ==
  /\ \A m \in DOMAIN R : m[1] \in Account => /\ R[m] = "owner" <=> m[1] = m[2]
                                             /\ <<m[1], m[1]>> \in DOMAIN R
  /\ \A s \in DOMAIN S : /\ S[s].org \in Account => <<S[s].org, S[s].org>> \in DOMAIN R
                         /\ S[s].default => ~S[s].archived

(* Does the request provision an account? *)
Prov(j) == \/ j.pc \in {"orgs", "org", "found", "member", "home"}
           \/ j.pc \in {"slug", "insert"} /\ j.user # Nil

Fits(j, L, O, R) ==
  /\ j \in JobRow
  /\ j.pc \in {"account", "link", "sso", "team"} \/ Prov(j) => j.user \in Account
  /\ j.pc \in {"link", "team"} \/ Prov(j) => L[j.user] # {}
  /\ j.pc = "member" => j.user \in O
  /\ j.pc = "home" \/ (j.pc \in {"slug", "insert"} /\ j.user # Nil) => <<j.user, j.user>> \in DOMAIN R
  /\ j.pc \in {"slug", "insert"} => /\ j.org \in Org /\ j.slug \in Slug
                                    /\ j.user # Nil => j.org = j.user /\ j.default
                                    /\ j.org \in Account => <<j.org, j.org>> \in DOMAIN R
  /\ j.pc = "team" => j.org \in O \cap Team /\ \A a \in Account : <<j.org, a>> \notin DOMAIN R
  /\ j.pc = "rename" => j.slug \in Slug

AllFit(jb, L, O, R) ==
  /\ DOMAIN jb = Request /\ \A r \in Request : Fits(jb[r], L, O, R)
  /\ \A q, r \in Request : jb[q].pc = "team" /\ jb[r].pc = "team" /\ jb[q].org = jb[r].org => q = r

HasHome(a, R, S) == <<a, a>> \in DOMAIN R /\ Def(S, a) # {}
ProvidedFor(a, jb) == \E r \in Request : Prov(jb[r]) /\ jb[r].user = a

Homed(L, st, jb, R, S) ==
  \A a \in Account : L[a] # {} => a \in st \/ ProvidedFor(a, jb) \/ HasHome(a, R, S)

(* Is a default of o under way? Is the organization of an account? *)
UnderWay(j, o) == \/ j.pc \in {"slug", "insert"} /\ j.default /\ j.org = o
                  \/ j.pc = "home" /\ j.user = o
Founding(j, o) == j.user = o /\ j.pc \in {"org", "found", "member", "home", "slug", "insert"}

Single(cr, jb, R, S) ==
  \A o \in Org \ cr :
    /\ \A s, t \in Def(S, o) : s = t
    /\ \A r \in Request : UnderWay(jb[r], o) => Def(S, o) = {}
    /\ \A q, r \in Request : UnderWay(jb[q], o) /\ UnderWay(jb[r], o) => q = r
    /\ \A q, r \in Request : Founding(jb[q], o) /\ Founding(jb[r], o) => q = r
    /\ \A r \in Request : Founding(jb[r], o) /\ jb[r].pc \in {"org", "found", "member"} =>
                            <<o, o>> \notin DOMAIN R

HomesInv ==
  /\ HomeTables(logins, orgs, rank, spaces, filed) /\ Owned(rank, spaces)
  /\ stranded \subseteq Account /\ crossed \subseteq Org
  /\ AllFit(job, logins, orgs, rank)
  /\ Homed(logins, stranded, job, rank, spaces)
  /\ Single(crossed, job, rank, spaces)

-----------------------------------------------------------------------------
LEMMA JobRows ==
  /\ NoJob \in JobRow /\ NoJob.pc = "idle" /\ NoJob.user = Nil /\ NoJob.org = Nil
  /\ NoJob.default = FALSE
  /\ \A L, O, R : Fits(NoJob, L, O, R)
  BY DEF NoJob, JobRow, Fits, Prov

(* How the predicates read the variables *)
LEMMA HomesNow ==
  /\ \A o : Defaults(o) = Def(spaces, o)
  /\ \A a : OrgsOf(a) = {o \in orgs : <<o, a>> \in DOMAIN rank}
  /\ \A r : Provisions(r) <=> Prov(job[r])
  /\ \A r \in Request : \A o : Crossing(r, o) <=> \E q \in Request \ {r} : UnderWay(job[q], o)
  BY DEF Defaults, SpacesIn, Def, OrgsOf, Provisions, Prov, Crossing, UnderWay

LEMMA HomesInitInv == HomesInit => HomesInv
<1> SUFFICES ASSUME HomesInit PROVE HomesInv
  OBVIOUS
<1>1. HomeTables(logins, orgs, rank, spaces, filed) /\ Owned(rank, spaces)
  BY DEF HomesInit, HomeTables, Owned
<1>2. AllFit(job, logins, orgs, rank) /\ Homed(logins, stranded, job, rank, spaces)
  BY JobRows DEF HomesInit, AllFit, Homed
<1>3. Single(crossed, job, rank, spaces)
  BY JobRows DEF HomesInit, Single, UnderWay, Founding, Def
<1> QED
  BY <1>1, <1>2, <1>3 DEF HomesInit, HomesInv

(* One request goes on: whoever it provisioned is still provisioned,       *)
(* stranded or has a home, and a new default or a new organization is the  *)
(* only one.                                                               *)
MayMove(R, S, jb, st, cr, st2, cr2, r, new) ==
  /\ new.pc = "team" => \A q \in Request \ {r} : jb[q].pc = "team" => jb[q].org # new.org
  /\ cr \subseteq cr2
  /\ \A a \in Account : a \in st \/ (Prov(jb[r]) /\ jb[r].user = a) =>
       a \in st2 \/ HasHome(a, R, S) \/ (Prov(new) /\ new.user = a)
  /\ \A o \in Org \ cr2 : UnderWay(new, o) =>
       Def(S, o) = {} /\ \A q \in Request \ {r} : ~UnderWay(jb[q], o)
  /\ \A o \in Org \ cr2 : Founding(new, o) =>
       /\ \A q \in Request \ {r} : ~Founding(jb[q], o)
       /\ new.pc \in {"org", "found", "member"} => <<o, o>> \notin DOMAIN R

LEMMA JobMoves ==
  ASSUME NEW L, NEW O, NEW R, NEW S, NEW jb, NEW st, NEW cr, NEW st2, NEW cr2,
         AllFit(jb, L, O, R), Homed(L, st, jb, R, S), Single(cr, jb, R, S),
         NEW r \in Request, NEW new, Fits(new, L, O, R),
         MayMove(R, S, jb, st, cr, st2, cr2, r, new)
  PROVE  LET jb2 == [jb EXCEPT ![r] = new]
         IN  AllFit(jb2, L, O, R) /\ Homed(L, st2, jb2, R, S) /\ Single(cr2, jb2, R, S)
<1> USE DEF MayMove
<1>1. PICK jb2 : jb2 = [jb EXCEPT ![r] = new]
  OBVIOUS
<1>2. DOMAIN jb2 = Request /\ jb2[r] = new /\ \A q \in Request \ {r} : jb2[q] = jb[q]
  BY <1>1 DEF AllFit
<1>3. AllFit(jb2, L, O, R)
  <2>1. /\ \A q \in Request : Fits(jb[q], L, O, R)
        /\ \A p, q \in Request : jb[p].pc = "team" /\ jb[q].pc = "team" /\ jb[p].org = jb[q].org => p = q
    BY DEF AllFit
  <2>2. \A p, q \in Request : jb2[p].pc = "team" /\ jb2[q].pc = "team" /\ jb2[p].org = jb2[q].org => p = q
    BY <1>2, <2>1
  <2> QED
    BY <1>2, <2>1, <2>2 DEF AllFit
<1>4. Homed(L, st2, jb2, R, S)
  <2> SUFFICES ASSUME NEW a \in Account, L[a] # {}, a \notin st2, ~HasHome(a, R, S)
               PROVE  ProvidedFor(a, jb2)
    BY DEF Homed
  <2>1. a \in st \/ ProvidedFor(a, jb)
    BY DEF Homed
  <2>2. CASE a \in st \/ (Prov(jb[r]) /\ jb[r].user = a)
    BY <1>2, <2>2 DEF ProvidedFor
  <2>3. CASE \E q \in Request \ {r} : Prov(jb[q]) /\ jb[q].user = a
    BY <1>2, <2>3 DEF ProvidedFor
  <2> QED
    BY <2>1, <2>2, <2>3 DEF ProvidedFor
<1>5. Single(cr2, jb2, R, S)
  <2> SUFFICES ASSUME NEW o \in Org \ cr2
               PROVE  /\ \A s, t \in Def(S, o) : s = t
                      /\ \A q \in Request : UnderWay(jb2[q], o) => Def(S, o) = {}
                      /\ \A p, q \in Request : UnderWay(jb2[p], o) /\ UnderWay(jb2[q], o) => p = q
                      /\ \A p, q \in Request : Founding(jb2[p], o) /\ Founding(jb2[q], o) => p = q
                      /\ \A q \in Request : Founding(jb2[q], o) /\ jb2[q].pc \in {"org", "found", "member"} =>
                            <<o, o>> \notin DOMAIN R
    BY DEF Single
  <2>1. /\ \A s, t \in Def(S, o) : s = t
        /\ \A q \in Request : UnderWay(jb[q], o) => Def(S, o) = {}
        /\ \A p, q \in Request : UnderWay(jb[p], o) /\ UnderWay(jb[q], o) => p = q
    BY DEF Single
  <2>2. /\ \A p, q \in Request : Founding(jb[p], o) /\ Founding(jb[q], o) => p = q
        /\ \A q \in Request : Founding(jb[q], o) /\ jb[q].pc \in {"org", "found", "member"} =>
                            <<o, o>> \notin DOMAIN R
    BY DEF Single
  <2>3. \A q \in Request : UnderWay(jb2[q], o) => Def(S, o) = {}
    BY <1>2, <2>1
  <2>4. \A p, q \in Request : UnderWay(jb2[p], o) /\ UnderWay(jb2[q], o) => p = q
    BY <1>2, <2>1
  <2>5. \A p, q \in Request : Founding(jb2[p], o) /\ Founding(jb2[q], o) => p = q
    BY <1>2, <2>2
  <2>6. \A q \in Request : Founding(jb2[q], o) /\ jb2[q].pc \in {"org", "found", "member"} =>
                            <<o, o>> \notin DOMAIN R
    BY <1>2, <2>2
  <2> QED
    BY <2>1, <2>3, <2>4, <2>5, <2>6
<1> QED
  BY <1>1, <1>3, <1>4, <1>5

USE DEF JobAt

LEMMA LeastNat ==
  ASSUME NEW T, T \subseteq Nat, T # {}
  PROVE  \E x \in T : \A y \in T : x <= y
<1> DEFINE R == {p \in Nat \X Nat : p[1] < p[2]}
<1>1. IsWellFoundedOn(R, Nat)
  BY NatLessThanWellFounded DEF OpToRel
<1> HIDE DEF R
<1>2. PICK x \in T : \A y \in T : <<y, x>> \notin R
  BY <1>1, WFMin
<1>3. \A y \in T : y \in Nat /\ x \in Nat /\ ~(y < x)
  BY <1>2 DEF R
<1> QED
  BY <1>3

(* There are more numbers for a slug than workspaces. *)
LEMMA UniqueSlugThere ==
  ASSUME HomesInv, NEW o, NEW base \in {"default", "other"}
  PROVE  UniqueSlug(o, base) \in Slug
<1> DEFINE C == Cardinality(Space)
           free == {n \in 1 .. C + 1 : Slugged(o, <<base, n>>) = {}}
           least == CHOOSE n \in free : \A m \in free : n <= m
<1>1. C \in Nat /\ IsFiniteSet(Space)
  BY HomesAssumption, FS_CardinalityType
<1>2. free # {}
  <2> SUFFICES ASSUME free = {} PROVE FALSE
    OBVIOUS
  <2>1. PICK f : f = [n \in 1 .. C + 1 |-> CHOOSE s \in Slugged(o, <<base, n>>) : TRUE]
    OBVIOUS
  <2>2. \A n \in 1 .. C + 1 : f[n] \in Slugged(o, <<base, n>>)
    BY <2>1
  <2>3. \A n \in 1 .. C + 1 : f[n] \in Space /\ spaces[f[n]].slug = <<base, n>>
    BY <2>2 DEF Slugged, SpacesIn, HomesInv, HomeTables
  <2>4. f \in [1 .. C + 1 -> Space]
    BY <2>1, <2>3
  <2>5. \A n \in Nat : IsFiniteSet(1 .. n) /\ Cardinality(1 .. n) = n
    BY FS_Interval
  <2>6. IsFiniteSet(1 .. C + 1) /\ Cardinality(Space) < Cardinality(1 .. C + 1)
    <3>1. C + 1 \in Nat /\ C < C + 1
      BY <1>1
    <3> QED
      BY <2>5, <3>1
  <2>7. PICK x, y \in 1 .. C + 1 : x # y /\ f[x] = f[y]
    BY <1>1, <2>4, <2>6, FS_PigeonHole
  <2> QED
    BY <2>3, <2>7
<1>3. free \subseteq Nat
  BY <1>1
<1>4. PICK x \in free : \A y \in free : x <= y
  BY <1>2, <1>3, LeastNat
<1>5. least \in 1 .. C + 1
  BY <1>4
<1>6. UniqueSlug(o, base) = <<base, least>>
  BY DEF UniqueSlug
<1> HIDE DEF least
<1> QED
  BY <1>5, <1>6 DEF Slug

(* A request goes on, and the tables stay as they are. *)
LEMMA JobStep ==
  ASSUME HomesInv, NEW r \in Request, NEW new, NEW st2, NEW cr2,
         Fits(new, logins, orgs, rank), job' = [job EXCEPT ![r] = new],
         stranded' = st2, crossed' = cr2,
         logins' = logins, orgs' = orgs, rank' = rank, spaces' = spaces, filed' = filed,
         cr2 \subseteq Org, st2 \subseteq Account,
         MayMove(rank, spaces, job, stranded, crossed, st2, cr2, r, new)
  PROVE  HomesInv'
<1>1. AllFit(job, logins, orgs, rank) /\ Homed(logins, stranded, job, rank, spaces)
      /\ Single(crossed, job, rank, spaces)
  BY DEF HomesInv
<1>2. PICK jb2 : jb2 = [job EXCEPT ![r] = new]
  OBVIOUS
<1>3. AllFit(jb2, logins, orgs, rank) /\ Homed(logins, st2, jb2, rank, spaces) /\ Single(cr2, jb2, rank, spaces)
  BY <1>1, <1>2, JobMoves
<1> QED
  BY <1>2, <1>3 DEF HomesInv

(* A request that is no longer about an account or a default one *)
LEMMA PlainStep ==
  ASSUME HomesInv, NEW r \in Request, NEW new, Fits(new, logins, orgs, rank),
         new.pc \in {"idle", "account", "link", "sso", "rename", "file", "orgs"},
         job' = [job EXCEPT ![r] = new], ~Prov(job[r]),
         logins' = logins, orgs' = orgs, rank' = rank, spaces' = spaces, filed' = filed,
         crossed' = crossed, stranded' = stranded
  PROVE  HomesInv'
<1>1. crossed \subseteq Org /\ stranded \subseteq Account
  BY DEF HomesInv
<1>2. \A o : ~UnderWay(new, o) /\ ~Founding(new, o)
  BY DEF UnderWay, Founding
<1>3. MayMove(rank, spaces, job, stranded, crossed, stranded, crossed, r, new)
  BY <1>2 DEF MayMove
<1> QED
  BY <1>1, <1>3, JobStep

LEMMA StartsInv ==
  ASSUME HomesInv, NEW r \in Request,
         SignUp(r) \/ SignInWithProvider(r) \/ Backfill(r) \/ AskRename(r) \/ Resolve(r)
           \/ ResolveFork(r) \/ ResolveIntention(r)
  PROVE  HomesInv'
<1>1. job[r].pc = "idle" /\ UNCHANGED <<logins, orgs, rank, spaces, filed, stranded, crossed>>
  BY DEF SignUp, SignInWithProvider, Backfill, AskRename, Resolve, ResolveFork, ResolveIntention, Start, stores
<1>2. ~Prov(job[r])
  BY <1>1 DEF Prov
<1>3. \E new : /\ Fits(new, logins, orgs, rank) /\ job' = [job EXCEPT ![r] = new]
               /\ new.pc \in {"idle", "account", "link", "sso", "rename", "file", "orgs"}
  <2>1. CASE SignUp(r)
    <3>1. PICK a \in Account : job' = [job EXCEPT ![r] = [NoJob EXCEPT !.pc = "account", !.user = a]]
      BY <2>1 DEF SignUp, Start
    <3>2. PICK new : new = [NoJob EXCEPT !.pc = "account", !.user = a]
      OBVIOUS
    <3>3. Fits(new, logins, orgs, rank) /\ new.pc = "account"
      BY <3>2 DEF Fits, JobRow, NoJob, Waits, Prov
    <3> QED
      BY <3>1, <3>2, <3>3
  <2>2. CASE SignInWithProvider(r)
    <3>1. PICK a \in Account : job' = [job EXCEPT ![r] =
                 [NoJob EXCEPT !.pc = IF logins[a] # {} THEN "link" ELSE "sso", !.user = a]]
      BY <2>2 DEF SignInWithProvider, Start
    <3>2. PICK new : new = [NoJob EXCEPT !.pc = IF logins[a] # {} THEN "link" ELSE "sso", !.user = a]
      OBVIOUS
    <3>3. Fits(new, logins, orgs, rank) /\ new.pc \in {"link", "sso"}
      BY <3>2 DEF Fits, JobRow, NoJob, Waits, Prov
    <3> QED
      BY <3>1, <3>2, <3>3
  <2>3. CASE Backfill(r)
    <3>1. PICK a \in Account : /\ logins[a] # {}
                               /\ job' = [job EXCEPT ![r] = [NoJob EXCEPT !.pc = "orgs", !.user = a, !.strict = TRUE]]
      BY <2>3 DEF Backfill, Start
    <3>2. PICK new : new = [NoJob EXCEPT !.pc = "orgs", !.user = a, !.strict = TRUE]
      OBVIOUS
    <3>3. Fits(new, logins, orgs, rank) /\ new.pc = "orgs"
      BY <3>1, <3>2 DEF Fits, JobRow, NoJob, Waits, Prov
    <3> QED
      BY <3>1, <3>2, <3>3
  <2>4. CASE AskRename(r)
    <3>1. PICK s \in DOMAIN spaces, base \in {"default", "other"} :
            job' = [job EXCEPT ![r] = [NoJob EXCEPT !.pc = "rename", !.space = s,
                                 !.slug = UniqueSlug(spaces[s].org, base)]]
      BY <2>4 DEF AskRename, Start
    <3>2. PICK x : x = UniqueSlug(spaces[s].org, base)
      OBVIOUS
    <3>3. x \in Slug /\ s \in Space
      BY <3>2, UniqueSlugThere DEF HomesInv, HomeTables
    <3>4. PICK new : new = [NoJob EXCEPT !.pc = "rename", !.space = s, !.slug = x]
      OBVIOUS
    <3>5. Fits(new, logins, orgs, rank) /\ new.pc = "rename"
      BY <3>3, <3>4 DEF Fits, JobRow, NoJob, Waits, Prov
    <3> QED
      BY <3>1, <3>2, <3>4, <3>5
  <2>5. ASSUME NEW s \in DOMAIN spaces, NEW o \in {Nil} \cup orgs,
               job' = [job EXCEPT ![r] = [NoJob EXCEPT !.pc = "file", !.space = s, !.org = o]]
        PROVE  \E new : /\ Fits(new, logins, orgs, rank) /\ job' = [job EXCEPT ![r] = new]
                        /\ new.pc \in {"idle", "account", "link", "sso", "rename", "file", "orgs"}
    <3>1. s \in Space /\ o \in Org \cup {Nil}
      BY DEF HomesInv, HomeTables
    <3>2. PICK new : new = [NoJob EXCEPT !.pc = "file", !.space = s, !.org = o]
      OBVIOUS
    <3>3. new = [pc |-> "file", user |-> Nil, org |-> o, space |-> s, slug |-> Nil,
                 default |-> FALSE, strict |-> FALSE]
      BY <3>2 DEF NoJob
    <3>4. new \in JobRow
      BY <3>1, <3>3 DEF JobRow, Waits
    <3>5. Fits(new, logins, orgs, rank)
      BY <3>3, <3>4 DEF Fits, Prov
    <3> QED
      BY <2>5, <3>2, <3>3, <3>5
  <2>6. CASE Resolve(r)
    <3>1. PICK a \in Account, o \in {Nil} \cup orgs, wanted \in {Nil} \cup DOMAIN spaces, adopts \in BOOLEAN :
            /\ logins[a] # {}
            /\ \E s \in IF wanted # Nil THEN {wanted}
                         ELSE IF o # Nil /\ Defaults(o) # {} THEN Defaults(o) ELSE Fallback(a) :
                 Start(r, [NoJob EXCEPT !.pc = "file", !.space = s,
                             !.org = IF o = Nil /\ wanted = Nil /\ adopts THEN spaces[s].org ELSE o])
            /\ UNCHANGED <<stores, stranded, crossed>>
      BY <2>6 DEF Resolve
    <3>2. PICK s \in IF wanted # Nil THEN {wanted}
                ELSE IF o # Nil /\ Defaults(o) # {} THEN Defaults(o) ELSE Fallback(a) :
              job' = [job EXCEPT ![r] = [NoJob EXCEPT !.pc = "file", !.space = s,
                                !.org = IF o = Nil /\ wanted = Nil /\ adopts THEN spaces[s].org ELSE o]]
      BY <3>1 DEF Start
    <3>3. s \in DOMAIN spaces
      BY <3>2 DEF Defaults, SpacesIn, Fallback
    <3>4. spaces[s].org \in orgs
      BY <3>3 DEF HomesInv, HomeTables
    <3> QED
      BY <2>5, <3>2, <3>3, <3>4
  <2>7. CASE ResolveFork(r)
    <3>1. PICK a \in Account : \E o \in OrgsOf(a) : \E s \in SpacesIn(o) :
            job' = [job EXCEPT ![r] = [NoJob EXCEPT !.pc = "file", !.space = s, !.org = o]]
      BY <2>7 DEF ResolveFork, Start
    <3>2. PICK o \in OrgsOf(a) : \E s \in SpacesIn(o) :
            job' = [job EXCEPT ![r] = [NoJob EXCEPT !.pc = "file", !.space = s, !.org = o]]
      BY <3>1
    <3>4. PICK s \in SpacesIn(o) :
            job' = [job EXCEPT ![r] = [NoJob EXCEPT !.pc = "file", !.space = s, !.org = o]]
      BY <3>2
    <3>3. o \in orgs /\ s \in DOMAIN spaces
      BY DEF OrgsOf, SpacesIn
    <3> QED
      BY <2>5, <3>4, <3>3
  <2>8. CASE ResolveIntention(r)
    <3>1. PICK d \in DOMAIN filed, a \in Account :
            \E o \in IF filed[d].org # Nil THEN {filed[d].org} ELSE {Nil} \cup OrgsOf(a) :
              job' = [job EXCEPT ![r] = [NoJob EXCEPT !.pc = "file", !.space = filed[d].space, !.org = o]]
      BY <2>8 DEF ResolveIntention, Start
    <3>2. PICK o \in IF filed[d].org # Nil THEN {filed[d].org} ELSE {Nil} \cup OrgsOf(a) :
              job' = [job EXCEPT ![r] = [NoJob EXCEPT !.pc = "file", !.space = filed[d].space, !.org = o]]
      BY <3>1
    <3>3. o \in {Nil} \cup orgs /\ filed[d].space \in DOMAIN spaces
      BY <3>2 DEF OrgsOf, HomesInv, HomeTables
    <3> QED
      BY <2>5, <3>2, <3>3
  <2> QED
    BY <2>1, <2>2, <2>3, <2>4, <2>6, <2>7, <2>8
<1>4. PICK new : /\ Fits(new, logins, orgs, rank) /\ job' = [job EXCEPT ![r] = new]
                 /\ new.pc \in {"idle", "account", "link", "sso", "rename", "file", "orgs"}
  BY <1>3
<1> QED
  BY <1>1, <1>2, <1>4, PlainStep

(* Organizations come, accounts get their logins; nothing else depends on  *)
(* them.                                                                   *)
LEMMA OrgsGrow ==
  ASSUME NEW L, NEW O, NEW R, NEW S, NEW F, NEW jb, NEW O2, O \subseteq O2, O2 \subseteq Org,
         HomeTables(L, O, R, S, F), AllFit(jb, L, O, R)
  PROVE  HomeTables(L, O2, R, S, F) /\ AllFit(jb, L, O2, R)
<1>1. HomeTables(L, O2, R, S, F)
  BY DEF HomeTables
<1>2. \A r \in Request : Fits(jb[r], L, O2, R)
  <2> TAKE r \in Request
  <2>1. Fits(jb[r], L, O, R)
    BY DEF AllFit
  <2> QED
    BY <2>1 DEF Fits
<1> QED
  BY <1>1, <1>2 DEF AllFit

LEMMA LoginsGrow ==
  ASSUME NEW L, NEW O, NEW R, NEW S, NEW F, NEW jb, NEW st, NEW L2, NEW a \in Account,
         NEW v \in SUBSET {"password", "sso"}, v # {}, L2 = [L EXCEPT ![a] = v],
         HomeTables(L, O, R, S, F), AllFit(jb, L, O, R), Homed(L, st, jb, R, S)
  PROVE  /\ HomeTables(L2, O, R, S, F) /\ AllFit(jb, L2, O, R)
         /\ Homed(L2, IF L[a] # {} THEN st ELSE st \cup {a}, jb, R, S)
<1>1. L \in [Account -> SUBSET {"password", "sso"}]
  BY DEF HomeTables
<1>2. L2 \in [Account -> SUBSET {"password", "sso"}] /\ L2[a] = v
  BY <1>1
<1>3. \A x \in Account \ {a} : L2[x] = L[x]
  BY <1>1
<1>4. \A x \in Account : L[x] # {} => L2[x] # {}
  BY <1>2, <1>3
<1>5. HomeTables(L2, O, R, S, F)
  <2>1. \A m \in DOMAIN R : m[2] \in Account /\ L[m[2]] # {}
    BY DEF HomeTables
  <2> QED
    BY <1>2, <1>4, <2>1 DEF HomeTables
<1>6. AllFit(jb, L2, O, R)
  <2>1. \A r \in Request : Fits(jb[r], L2, O, R)
    <3> TAKE r \in Request
    <3>1. Fits(jb[r], L, O, R)
      BY DEF AllFit
    <3>2. jb[r].pc \in {"link", "team"} \/ Prov(jb[r]) => L2[jb[r].user] # {}
      BY <1>4, <3>1 DEF Fits
    <3> QED
      BY <3>1, <3>2 DEF Fits
  <2> QED
    BY <2>1 DEF AllFit
<1>7. Homed(L2, IF L[a] # {} THEN st ELSE st \cup {a}, jb, R, S)
  BY <1>2, <1>3 DEF Homed
<1> QED
  BY <1>5, <1>6, <1>7

(* A membership is entered: a personal organization's first one is its     *)
(* owner's.                                                                *)
Entered(R, R2, o, a, k) ==
  /\ DOMAIN R2 = DOMAIN R \cup {<<o, a>>} /\ R2[<<o, a>>] = k
  /\ \A m \in DOMAIN R \ {<<o, a>>} : R2[m] = R[m]

MayEnter(L, O, R, jb, cr, o, a, k) ==
  /\ o \in O /\ a \in Account /\ k \in {"owner", "member"} /\ L[a] # {}
  /\ o \in Account =>
       \/ /\ o = a /\ k = "owner"
          /\ o \notin cr => \A r \in Request :
               Founding(jb[r], o) => jb[r].pc \notin {"org", "found", "member"}
       \/ o # a /\ k = "member" /\ <<o, o>> \in DOMAIN R
  /\ \A r \in Request : jb[r].pc = "team" => jb[r].org # o

LEMMA RankGrows ==
  ASSUME NEW L, NEW O, NEW R, NEW S, NEW F, NEW jb, NEW st, NEW cr, NEW R2, NEW o, NEW a, NEW k,
         Entered(R, R2, o, a, k), MayEnter(L, O, R, jb, cr, o, a, k),
         HomeTables(L, O, R, S, F), Owned(R, S), AllFit(jb, L, O, R), Homed(L, st, jb, R, S),
         Single(cr, jb, R, S)
  PROVE  /\ HomeTables(L, O, R2, S, F) /\ Owned(R2, S) /\ AllFit(jb, L, O, R2)
         /\ Homed(L, st, jb, R2, S) /\ Single(cr, jb, R2, S)
<1>1. /\ DOMAIN R2 = DOMAIN R \cup {<<o, a>>} /\ R2[<<o, a>>] = k
      /\ \A m \in DOMAIN R \ {<<o, a>>} : R2[m] = R[m]
  BY DEF Entered
<1> USE DEF MayEnter
<1>2. HomeTables(L, O, R2, S, F)
  <2>1. \A m \in DOMAIN R2 : R2[m] \in {"owner", "member"} /\ L[m[2]] # {}
    BY <1>1 DEF HomeTables
  <2>2. DOMAIN R2 \subseteq O \X Account
    BY <1>1 DEF HomeTables
  <2> QED
    BY <2>1, <2>2 DEF HomeTables
<1>3. Owned(R2, S)
  <2>1. \A m \in DOMAIN R2 : m[1] \in Account => (R2[m] = "owner" <=> m[1] = m[2]) /\ <<m[1], m[1]>> \in DOMAIN R2
    <3> TAKE m \in DOMAIN R2
    <3>1. CASE m = <<o, a>>
      BY <1>1, <3>1
    <3>2. CASE m # <<o, a>>
      BY <1>1, <3>2 DEF Owned
    <3> QED
      BY <3>1, <3>2
  <2>2. \A s \in DOMAIN S : /\ S[s].org \in Account => <<S[s].org, S[s].org>> \in DOMAIN R2
                            /\ S[s].default => ~S[s].archived
    BY <1>1 DEF Owned
  <2> QED
    BY <2>1, <2>2 DEF Owned
<1>4. AllFit(jb, L, O, R2)
  <2>1. \A r \in Request : Fits(jb[r], L, O, R2)
    <3> TAKE r \in Request
    <3>1. Fits(jb[r], L, O, R)
      BY DEF AllFit
    <3>2. jb[r].pc = "team" => \A b \in Account : <<jb[r].org, b>> \notin DOMAIN R2
      BY <1>1, <3>1 DEF Fits
    <3> QED
      BY <1>1, <3>1, <3>2 DEF Fits
  <2> QED
    BY <2>1 DEF AllFit
<1>5. Homed(L, st, jb, R2, S)
  BY <1>1 DEF Homed, HasHome
<1>6. Single(cr, jb, R2, S)
  <2> SUFFICES ASSUME NEW x \in Org \ cr, NEW r \in Request, Founding(jb[r], x),
                      jb[r].pc \in {"org", "found", "member"}
               PROVE  <<x, x>> \notin DOMAIN R2
    BY DEF Single
  <2>1. <<x, x>> \notin DOMAIN R
    BY DEF Single
  <2>2. x \in Account
    <3>1. Prov(jb[r]) /\ jb[r].user = x /\ Fits(jb[r], L, O, R)
      BY DEF Founding, Prov, AllFit
    <3> QED
      BY <3>1 DEF Fits
  <2> QED
    BY <1>1, <2>1, <2>2
<1> QED
  BY <1>2, <1>3, <1>4, <1>5, <1>6

(* Memberships end, but never that of an owner in their personal           *)
(* organization.                                                           *)
LEMMA RankShrinks ==
  ASSUME NEW L, NEW O, NEW R, NEW S, NEW F, NEW jb, NEW st, NEW cr, NEW R2,
         DOMAIN R2 \subseteq DOMAIN R, \A m \in DOMAIN R2 : R2[m] = R[m],
         \A x \in Account : <<x, x>> \in DOMAIN R => <<x, x>> \in DOMAIN R2,
         HomeTables(L, O, R, S, F), Owned(R, S), AllFit(jb, L, O, R), Homed(L, st, jb, R, S),
         Single(cr, jb, R, S)
  PROVE  /\ HomeTables(L, O, R2, S, F) /\ Owned(R2, S) /\ AllFit(jb, L, O, R2)
         /\ Homed(L, st, jb, R2, S) /\ Single(cr, jb, R2, S)
<1>1. HomeTables(L, O, R2, S, F)
  BY DEF HomeTables
<1>2. Owned(R2, S)
  BY DEF Owned
<1>3. AllFit(jb, L, O, R2)
  <2>1. \A r \in Request : Fits(jb[r], L, O, R2)
    <3> TAKE r \in Request
    <3>1. Fits(jb[r], L, O, R)
      BY DEF AllFit
    <3>2. jb[r].pc = "home" \/ (jb[r].pc \in {"slug", "insert"} /\ jb[r].user # Nil) =>
            <<jb[r].user, jb[r].user>> \in DOMAIN R2
      BY <3>1 DEF Fits, Prov
    <3>3. jb[r].pc \in {"slug", "insert"} =>
            (jb[r].org \in Account => <<jb[r].org, jb[r].org>> \in DOMAIN R2)
      BY <3>1 DEF Fits
    <3>4. jb[r].pc = "team" => \A b \in Account : <<jb[r].org, b>> \notin DOMAIN R2
      BY <3>1 DEF Fits
    <3> QED
      BY <3>1, <3>2, <3>3, <3>4 DEF Fits
  <2> QED
    BY <2>1 DEF AllFit
<1>4. Homed(L, st, jb, R2, S)
  BY DEF Homed, HasHome
<1>5. Single(cr, jb, R2, S)
  BY DEF Single
<1> QED
  BY <1>1, <1>2, <1>3, <1>4, <1>5

(* Workspaces change, but every account's default workspaces stay. *)
LEMMA SpacesStay ==
  ASSUME NEW L, NEW O, NEW R, NEW S, NEW jb, NEW st, NEW cr, NEW S2,
         \A o \in Org : Def(S2, o) \subseteq Def(S, o),
         \A a \in Account : Def(S2, a) = Def(S, a),
         Homed(L, st, jb, R, S), Single(cr, jb, R, S)
  PROVE  Homed(L, st, jb, R, S2) /\ Single(cr, jb, R, S2)
<1>1. Homed(L, st, jb, R, S2)
  BY DEF Homed, HasHome
<1>2. Single(cr, jb, R, S2)
  <2> SUFFICES ASSUME NEW o \in Org \ cr
               PROVE  /\ \A s, t \in Def(S2, o) : s = t
                      /\ \A r \in Request : UnderWay(jb[r], o) => Def(S2, o) = {}
    BY DEF Single
  <2>1. /\ \A s, t \in Def(S, o) : s = t
        /\ \A r \in Request : UnderWay(jb[r], o) => Def(S, o) = {}
    BY DEF Single
  <2> QED
    BY <2>1
<1> QED
  BY <1>1, <1>2

(* Some phases of a step, put together: the tables and the request         *)
(* afterwards                                                              *)
LEMMA HomesThen ==
  ASSUME NEW L, NEW O, NEW R, NEW S, NEW F, NEW jb, NEW st, NEW cr,
         HomeTables(L, O, R, S, F), Owned(R, S), st \subseteq Account, cr \subseteq Org,
         AllFit(jb, L, O, R), Homed(L, st, jb, R, S), Single(cr, jb, R, S),
         logins' = L, orgs' = O, rank' = R, spaces' = S, filed' = F, job' = jb,
         stranded' = st, crossed' = cr
  PROVE  HomesInv'
  BY DEF HomesInv

(* A request ends; whom it provisioned is stranded if nothing else         *)
(* provides for them.                                                      *)
LEMMA JobEnds ==
  ASSUME NEW L, NEW O, NEW R, NEW S, NEW jb, NEW st, NEW cr, NEW st2, NEW r \in Request,
         AllFit(jb, L, O, R), Homed(L, st, jb, R, S), Single(cr, jb, R, S),
         \A a \in Account : a \in st \/ (Prov(jb[r]) /\ jb[r].user = a) => a \in st2 \/ HasHome(a, R, S)
  PROVE  LET jb2 == [jb EXCEPT ![r] = NoJob]
         IN  AllFit(jb2, L, O, R) /\ Homed(L, st2, jb2, R, S) /\ Single(cr, jb2, R, S)
<1>1. Fits(NoJob, L, O, R) /\ NoJob.pc = "idle"
  BY JobRows
<1>2. PICK new : new = NoJob
  OBVIOUS
<1>3. \A o : ~UnderWay(new, o) /\ ~Founding(new, o)
  BY <1>1, <1>2 DEF UnderWay, Founding
<1>4. new.pc = "idle"
  BY <1>1, <1>2
<1>5. LET jb2 == [jb EXCEPT ![r] = new]
      IN  AllFit(jb2, L, O, R) /\ Homed(L, st2, jb2, R, S) /\ Single(cr, jb2, R, S)
  <2>1. MayMove(R, S, jb, st, cr, st2, cr, r, new)
    BY <1>3, <1>4 DEF MayMove
  <2> QED
    BY <1>1, <1>2, <2>1, JobMoves
<1> QED
  BY <1>2, <1>5

LEMMA InsertAccountInv ==
  ASSUME HomesInv, NEW r \in Request, InsertAccount(r)
  PROVE  HomesInv'
<1> DEFINE a == job[r].user
<1>1. /\ job[r].pc = "account" /\ orgs' = orgs /\ rank' = rank /\ spaces' = spaces /\ filed' = filed
      /\ stranded' = stranded /\ crossed' = crossed
  BY DEF InsertAccount
<1>2. Fits(job[r], logins, orgs, rank) /\ ~Prov(job[r]) /\ DOMAIN job = Request
  BY <1>1 DEF HomesInv, AllFit, Prov
<1>3. a \in Account /\ job[r] \in JobRow
  BY <1>1, <1>2 DEF Fits
<1>4. CASE logins[a] # {}
  <2>1. logins' = logins /\ job' = [job EXCEPT ![r] = NoJob]
    BY <1>4 DEF InsertAccount, JobDone
  <2> QED
    BY <1>1, <1>2, <2>1, JobRows, PlainStep
<1>5. CASE logins[a] = {}
  <2>1. logins' = [logins EXCEPT ![a] = {"password"}] /\ job' = [job EXCEPT ![r].pc = "orgs"]
    BY <1>5 DEF InsertAccount, Goto
  <2>2. PICK L2 : L2 = [logins EXCEPT ![a] = {"password"}]
    OBVIOUS
  <2>3. HomeTables(L2, orgs, rank, spaces, filed) /\ AllFit(job, L2, orgs, rank)
        /\ Homed(L2, stranded \cup {a}, job, rank, spaces) /\ L2[a] # {}
    <3>1. {"password"} \in SUBSET {"password", "sso"} /\ {"password"} # {}
      OBVIOUS
    <3>2. logins \in [Account -> SUBSET {"password", "sso"}]
      BY DEF HomesInv, HomeTables
    <3>3. HomeTables(logins, orgs, rank, spaces, filed) /\ AllFit(job, logins, orgs, rank)
          /\ Homed(logins, stranded, job, rank, spaces)
      BY DEF HomesInv
    <3>4. HomeTables(L2, orgs, rank, spaces, filed) /\ AllFit(job, L2, orgs, rank)
          /\ Homed(L2, IF logins[a] # {} THEN stranded ELSE stranded \cup {a}, job, rank, spaces)
      <4> HIDE DEF a
      <4>1. PICK v : v = {"password"}
        OBVIOUS
      <4>2. L2 = [logins EXCEPT ![a] = v] /\ v \in SUBSET {"password", "sso"} /\ v # {}
        BY <2>2, <4>1
      <4> QED
        BY <1>3, <3>3, <4>2, LoginsGrow
    <3>5. L2[a] # {}
      BY <1>3, <2>2, <3>2
    <3> QED
      BY <1>5, <3>4, <3>5
  <2>4. PICK new : new = [job[r] EXCEPT !.pc = "orgs"]
    OBVIOUS
  <2>5. new \in JobRow /\ new.pc = "orgs" /\ new.user = a
    BY <1>3, <2>4 DEF JobRow, Waits
  <2>6. Fits(new, L2, orgs, rank) /\ Prov(new) /\ \A o : ~UnderWay(new, o) /\ ~Founding(new, o)
    BY <1>3, <2>3, <2>5 DEF Fits, Prov, UnderWay, Founding
  <2>7. PICK jb2 : jb2 = [job EXCEPT ![r] = new]
    OBVIOUS
  <2>8. Single(crossed, job, rank, spaces) /\ Owned(rank, spaces) /\ stranded \subseteq Account
        /\ crossed \subseteq Org
    BY DEF HomesInv
  <2>9. \A x \in Account : x \in stranded \cup {a} \/ (Prov(job[r]) /\ job[r].user = x) =>
           x \in stranded \/ HasHome(x, rank, spaces) \/ (Prov(new) /\ new.user = x)
    BY <1>2, <2>5, <2>6
  <2>10. AllFit(jb2, L2, orgs, rank) /\ Homed(L2, stranded, jb2, rank, spaces)
         /\ Single(crossed, jb2, rank, spaces)
    <3> HIDE DEF a
    <3>1. MayMove(rank, spaces, job, stranded \cup {a}, crossed, stranded, crossed, r, new)
      BY <2>5, <2>6, <2>9 DEF MayMove
    <3> QED
      BY <2>3, <2>6, <2>7, <2>8, <3>1, JobMoves
  <2>11. job' = jb2 /\ logins' = L2
    BY <1>2, <2>1, <2>2, <2>4, <2>7
  <2> QED
    BY <1>1, <2>3, <2>8, <2>10, <2>11, HomesThen
<1> QED
  BY <1>4, <1>5

LEMMA ProviderInv ==
  ASSUME HomesInv, NEW r \in Request, LinkProvider(r) \/ InsertProviderAccount(r)
  PROVE  HomesInv'
<1>1. /\ job[r].pc \in {"link", "sso"} /\ orgs' = orgs /\ rank' = rank /\ spaces' = spaces
      /\ filed' = filed /\ crossed' = crossed /\ job' = [job EXCEPT ![r] = NoJob]
  BY DEF LinkProvider, InsertProviderAccount, JobDone
<1>2. Fits(job[r], logins, orgs, rank) /\ ~Prov(job[r])
  BY <1>1 DEF HomesInv, AllFit, Prov
<1>3. PICK a : a = job[r].user
  OBVIOUS
<1>4. a \in Account
  BY <1>1, <1>2, <1>3 DEF Fits
<1>5. HomeTables(logins, orgs, rank, spaces, filed) /\ Owned(rank, spaces) /\ stranded \subseteq Account
      /\ crossed \subseteq Org /\ AllFit(job, logins, orgs, rank) /\ Homed(logins, stranded, job, rank, spaces)
      /\ Single(crossed, job, rank, spaces)
  BY DEF HomesInv
<1>6. ASSUME NEW v \in SUBSET {"password", "sso"}, v # {}, NEW st,
             logins' = [logins EXCEPT ![a] = v], stranded' = st,
             st = IF logins[a] # {} THEN stranded ELSE stranded \cup {a}
      PROVE  HomesInv'
  <2>1. PICK L2 : L2 = [logins EXCEPT ![a] = v]
    OBVIOUS
  <2>2. HomeTables(L2, orgs, rank, spaces, filed) /\ AllFit(job, L2, orgs, rank)
        /\ Homed(L2, st, job, rank, spaces)
    BY <1>4, <1>5, <1>6, <2>1, LoginsGrow
  <2>3. PICK jb2 : jb2 = [job EXCEPT ![r] = NoJob]
    OBVIOUS
  <2>4. AllFit(jb2, L2, orgs, rank) /\ Homed(L2, st, jb2, rank, spaces) /\ Single(crossed, jb2, rank, spaces)
    BY <1>2, <1>5, <2>2, <2>3, JobEnds
  <2>5. st \subseteq Account
    BY <1>4, <1>5, <1>6
  <2> QED
    BY <1>1, <1>5, <1>6, <2>1, <2>2, <2>3, <2>4, <2>5, HomesThen
<1>7. CASE LinkProvider(r)
  <2>1. logins' = [logins EXCEPT ![a] = @ \cup {"sso"}] /\ stranded' = stranded /\ job[r].pc = "link"
    BY <1>3, <1>7 DEF LinkProvider
  <2>2. logins[a] # {} /\ logins[a] \in SUBSET {"password", "sso"}
    BY <1>2, <1>3, <1>4, <1>5, <2>1 DEF Fits, HomeTables
  <2>3. PICK v : v = logins[a] \cup {"sso"}
    OBVIOUS
  <2>4. v \in SUBSET {"password", "sso"} /\ v # {} /\ logins' = [logins EXCEPT ![a] = v]
    BY <2>1, <2>2, <2>3
  <2> QED
    BY <1>6, <2>1, <2>2, <2>4
<1>8. CASE InsertProviderAccount(r)
  <2>1. CASE logins[a] # {}
    <3>1. logins' = logins /\ stranded' = stranded
      BY <1>3, <1>8, <2>1 DEF InsertProviderAccount
    <3> QED
      BY <1>1, <1>2, <3>1, JobRows, PlainStep
  <2>2. CASE logins[a] = {}
    <3>1. logins' = [logins EXCEPT ![a] = {"sso"}] /\ stranded' = stranded \cup {a}
      BY <1>3, <1>8, <2>2 DEF InsertProviderAccount
    <3>2. {"sso"} \in SUBSET {"password", "sso"} /\ {"sso"} # {}
      OBVIOUS
    <3> QED
      BY <1>6, <2>2, <3>1, <3>2
  <2> QED
    BY <2>1, <2>2
<1> QED
  BY <1>7, <1>8

(* What the invariant says of the organization and the defaults of an      *)
(* account                                                                 *)
LEMMA HomesFacts ==
  ASSUME HomesInv
  PROVE  /\ \A a \in Account : a \in OrgsOf(a) <=> <<a, a>> \in DOMAIN rank
         /\ \A r \in Request : /\ Fits(job[r], logins, orgs, rank) /\ job[r] \in JobRow
                               /\ (Provisions(r) => job[r].user \in Account)
                               /\ (job[r].pc = "team" => job[r].org \in orgs \cap Team)
         /\ stranded \subseteq Account /\ crossed \subseteq Org /\ orgs \subseteq Org
         /\ Account \subseteq Org
<1>1. \A a \in Account : a \in OrgsOf(a) <=> <<a, a>> \in DOMAIN rank
  BY DEF HomesInv, HomeTables, OrgsOf
<1>2. ASSUME NEW r \in Request
      PROVE  /\ Fits(job[r], logins, orgs, rank) /\ job[r] \in JobRow
             /\ (Provisions(r) => job[r].user \in Account)
             /\ (job[r].pc = "team" => job[r].org \in orgs \cap Team)
  <2>1. Fits(job[r], logins, orgs, rank)
    BY DEF HomesInv, AllFit
  <2> QED
    BY <2>1, HomesNow DEF Fits
<1> QED
  BY <1>1, <1>2 DEF HomesInv, HomeTables, Org

LEMMA ListOrgsInv ==
  ASSUME HomesInv, NEW r \in Request, ListOrgs(r)
  PROVE  HomesInv'
<1>1. /\ job[r].pc = "orgs" /\ logins' = logins /\ orgs' = orgs /\ rank' = rank
      /\ spaces' = spaces /\ filed' = filed
  BY DEF ListOrgs, stores
<1>2. PICK a : a = job[r].user
  OBVIOUS
<1>3. Prov(job[r]) /\ Fits(job[r], logins, orgs, rank) /\ job[r] \in JobRow /\ a \in Account
      /\ stranded \subseteq Account /\ crossed \subseteq Org /\ a \in Org
  BY <1>1, <1>2, HomesFacts, HomesNow DEF Provisions
<1>4. CASE OrgsOf(a) = {}
  <2>1. /\ job' = [job EXCEPT ![r].pc = "org"] /\ stranded' = stranded
        /\ crossed' = IF \E q \in Request \ {r} : Provisions(q) /\ job[q].user = a
                      THEN crossed \cup {a} ELSE crossed
    BY <1>2, <1>4 DEF ListOrgs, Goto
  <2>2. PICK new, cr2 : new = [job[r] EXCEPT !.pc = "org"] /\ cr2 = crossed'
    OBVIOUS
  <2>3. new \in JobRow /\ new.pc = "org" /\ new.user = a
    BY <1>2, <1>3, <2>2 DEF JobRow, Waits
  <2>4. Fits(new, logins, orgs, rank)
    BY <1>1, <1>2, <1>3, <2>3 DEF Fits, Prov
  <2>5. Prov(new) /\ \A o : ~UnderWay(new, o)
    BY <2>3 DEF Prov, UnderWay
  <2>6. job' = [job EXCEPT ![r] = new]
    BY <2>1, <2>2 DEF HomesInv, AllFit
  <2>7. ASSUME NEW o \in Org \ cr2, Founding(new, o)
        PROVE  /\ \A q \in Request \ {r} : ~Founding(job[q], o)
               /\ new.pc \in {"org", "found", "member"} => <<o, o>> \notin DOMAIN rank
    <3>1. o = a
      BY <2>3, <2>7 DEF Founding
    <3>2. <<a, a>> \notin DOMAIN rank
      BY <1>3, <1>4, HomesFacts
    <3>3. ASSUME NEW q \in Request \ {r}, Founding(job[q], a)
          PROVE  FALSE
      <4>1. Provisions(q) /\ job[q].user = a
        BY <3>3, <1>3, HomesAssumption, HomesNow DEF Founding, Prov
      <4> QED
        BY <2>1, <2>2, <2>7, <3>1, <4>1
    <3> QED
      BY <3>1, <3>2, <3>3
  <2>8. crossed \subseteq cr2 /\ cr2 \subseteq Org /\ stranded \subseteq Account /\ crossed' = cr2
    BY <1>3, <2>1, <2>2
  <2>9. \A x \in Account : x \in stranded \/ (Prov(job[r]) /\ job[r].user = x) =>
           x \in stranded \/ HasHome(x, rank, spaces) \/ (Prov(new) /\ new.user = x)
    BY <1>2, <2>1, <2>3, <2>5
  <2>10. new.pc # "team"
    BY <2>3
  <2>11. \A o \in Org \ cr2 : UnderWay(new, o) =>
           Def(spaces, o) = {} /\ \A q \in Request \ {r} : ~UnderWay(job[q], o)
    BY <2>5
  <2>12. \A o \in Org \ cr2 : Founding(new, o) =>
           /\ \A q \in Request \ {r} : ~Founding(job[q], o)
           /\ new.pc \in {"org", "found", "member"} => <<o, o>> \notin DOMAIN rank
    BY <2>7
  <2>13. MayMove(rank, spaces, job, stranded, crossed, stranded, cr2, r, new)
    BY <2>8, <2>9, <2>10, <2>11, <2>12 DEF MayMove
  <2> QED
    BY <1>1, <2>1, <2>4, <2>6, <2>8, <2>13, JobStep
<1>5. CASE OrgsOf(a) # {}
  <2>1. /\ job' = [job EXCEPT ![r] = NoJob] /\ crossed' = crossed
        /\ stranded' = IF a \in OrgsOf(a) /\ Defaults(a) # {} THEN stranded ELSE stranded \cup {a}
    BY <1>2, <1>5 DEF ListOrgs, JobDone
  <2>2. a \in OrgsOf(a) /\ Defaults(a) # {} => HasHome(a, rank, spaces)
    BY <1>3, HomesFacts, HomesNow DEF HasHome
  <2>3. PICK st, jb2 : st = stranded' /\ jb2 = [job EXCEPT ![r] = NoJob]
    OBVIOUS
  <2>4. st \subseteq Account /\
        \A x \in Account : x \in stranded \/ (Prov(job[r]) /\ job[r].user = x) => x \in st \/ HasHome(x, rank, spaces)
    BY <1>2, <1>3, <2>1, <2>2, <2>3
  <2>5. AllFit(jb2, logins, orgs, rank) /\ Homed(logins, st, jb2, rank, spaces) /\ Single(crossed, jb2, rank, spaces)
    BY <2>3, <2>4, JobEnds DEF HomesInv
  <2> QED
    BY <1>1, <2>1, <2>3, <2>4, <2>5 DEF HomesInv
<1> QED
  BY <1>4, <1>5

LEMMA AbandonInv ==
  ASSUME HomesInv, NEW r \in Request, AbandonJob(r)
  PROVE  HomesInv'
<1>1. /\ logins' = logins /\ orgs' = orgs /\ rank' = rank /\ spaces' = spaces /\ filed' = filed
      /\ crossed' = crossed /\ job' = [job EXCEPT ![r] = NoJob]
      /\ stranded' = IF Provisions(r) /\ logins[job[r].user] # {}
                     THEN stranded \cup {job[r].user} ELSE stranded
  BY DEF AbandonJob, stores, JobDone
<1>2. PICK st, jb2 : st = stranded' /\ jb2 = [job EXCEPT ![r] = NoJob]
  OBVIOUS
<1>3. Fits(job[r], logins, orgs, rank) /\ (Provisions(r) => job[r].user \in Account) /\ stranded \subseteq Account
      /\ (Provisions(r) <=> Prov(job[r]))
  BY HomesFacts, HomesNow
<1>4. Prov(job[r]) => logins[job[r].user] # {}
  BY <1>3 DEF Fits
<1>5. st \subseteq Account /\
      \A x \in Account : x \in stranded \/ (Prov(job[r]) /\ job[r].user = x) => x \in st \/ HasHome(x, rank, spaces)
  BY <1>1, <1>2, <1>3, <1>4
<1>6. AllFit(jb2, logins, orgs, rank) /\ Homed(logins, st, jb2, rank, spaces) /\ Single(crossed, jb2, rank, spaces)
  BY <1>2, <1>5, JobEnds DEF HomesInv
<1> QED
  BY <1>1, <1>2, <1>5, <1>6 DEF HomesInv

(* A request that was to provide a home gives up. *)
LEMMA GiveUpInv ==
  ASSUME HomesInv, NEW r \in Request, GiveUp(r),
         logins' = logins, orgs' = orgs, rank' = rank, spaces' = spaces, filed' = filed,
         crossed' = crossed
  PROVE  HomesInv'
<1>1. /\ job' = [job EXCEPT ![r] = NoJob]
      /\ stranded' = IF Provisions(r) THEN stranded \cup {job[r].user} ELSE stranded
  BY DEF GiveUp, JobDone
<1>2. PICK st, jb2 : st = stranded' /\ jb2 = [job EXCEPT ![r] = NoJob]
  OBVIOUS
<1>3. (Provisions(r) => job[r].user \in Account) /\ stranded \subseteq Account
      /\ (Provisions(r) <=> Prov(job[r]))
  BY HomesFacts, HomesNow
<1>4. st \subseteq Account /\
      \A x \in Account : x \in stranded \/ (Prov(job[r]) /\ job[r].user = x) => x \in st \/ HasHome(x, rank, spaces)
  BY <1>1, <1>2, <1>3
<1>5. AllFit(jb2, logins, orgs, rank) /\ Homed(logins, st, jb2, rank, spaces) /\ Single(crossed, jb2, rank, spaces)
  BY <1>2, <1>4, JobEnds DEF HomesInv
<1> QED
  BY <1>1, <1>2, <1>4, <1>5 DEF HomesInv

LEMMA FindPersonalOrgInv ==
  ASSUME HomesInv, NEW r \in Request, FindPersonalOrg(r)
  PROVE  HomesInv'
<1>1. /\ job[r].pc = "org" /\ logins' = logins /\ orgs' = orgs /\ rank' = rank
      /\ spaces' = spaces /\ filed' = filed /\ stranded' = stranded /\ crossed' = crossed
      /\ job' = [job EXCEPT ![r].pc = IF job[r].user \in orgs THEN "member" ELSE "found"]
  BY DEF FindPersonalOrg, stores, Goto
<1>2. Prov(job[r]) /\ Fits(job[r], logins, orgs, rank) /\ job[r] \in JobRow /\ job[r].user \in Account
      /\ stranded \subseteq Account /\ crossed \subseteq Org
  BY <1>1, HomesFacts, HomesNow DEF Provisions
<1>3. PICK new : new = [job[r] EXCEPT !.pc = IF job[r].user \in orgs THEN "member" ELSE "found"]
  OBVIOUS
<1>4. /\ new \in JobRow /\ new.pc \in {"member", "found"} /\ new.user = job[r].user
      /\ new.pc = "member" => new.user \in orgs
  BY <1>2, <1>3 DEF JobRow, Waits
<1>5. Fits(new, logins, orgs, rank) /\ Prov(new) /\ \A o : ~UnderWay(new, o)
  BY <1>2, <1>4 DEF Fits, Prov, UnderWay
<1>6. job' = [job EXCEPT ![r] = new]
  BY <1>1, <1>3 DEF HomesInv, AllFit
<1>7. ASSUME NEW o \in Org \ crossed, Founding(new, o)
      PROVE  /\ \A q \in Request \ {r} : ~Founding(job[q], o)
             /\ new.pc \in {"org", "found", "member"} => <<o, o>> \notin DOMAIN rank
  <2>1. Founding(job[r], o) /\ o \in Org \ crossed
    BY <1>1, <1>4, <1>7 DEF Founding
  <2> QED
    BY <1>1, <2>1 DEF HomesInv, Single
<1>8. crossed \subseteq crossed /\ crossed \subseteq Org /\ stranded \subseteq Account
  BY <1>1, <1>2
<1>9. \A x \in Account : x \in stranded \/ (Prov(job[r]) /\ job[r].user = x) =>
         x \in stranded \/ HasHome(x, rank, spaces) \/ (Prov(new) /\ new.user = x)
  BY <1>1, <1>4, <1>5
<1>10. new.pc # "team"
  BY <1>4
<1>11. \A o \in Org \ crossed : UnderWay(new, o) =>
         Def(spaces, o) = {} /\ \A q \in Request \ {r} : ~UnderWay(job[q], o)
  BY <1>5
<1>12. \A o \in Org \ crossed : Founding(new, o) =>
         /\ \A q \in Request \ {r} : ~Founding(job[q], o)
         /\ new.pc \in {"org", "found", "member"} => <<o, o>> \notin DOMAIN rank
  BY <1>7
<1>13. MayMove(rank, spaces, job, stranded, crossed, stranded, crossed, r, new)
  BY <1>8, <1>9, <1>10, <1>11, <1>12 DEF MayMove
<1> QED
  BY <1>1, <1>5, <1>6, <1>8, <1>13, JobStep

LEMMA CreatePersonalOrgInv ==
  ASSUME HomesInv, NEW r \in Request, CreatePersonalOrg(r)
  PROVE  HomesInv'
<1>1. /\ job[r].pc = "found" /\ logins' = logins /\ rank' = rank
      /\ spaces' = spaces /\ filed' = filed /\ crossed' = crossed
  BY DEF CreatePersonalOrg
<1>2. PICK a : a = job[r].user
  OBVIOUS
<1>3. Prov(job[r]) /\ Fits(job[r], logins, orgs, rank) /\ job[r] \in JobRow /\ a \in Account
      /\ stranded \subseteq Account /\ crossed \subseteq Org /\ a \in Org /\ orgs \subseteq Org
  BY <1>1, <1>2, HomesFacts, HomesNow DEF Provisions
<1>4. CASE a \in orgs
  BY <1>1, <1>2, <1>4, GiveUpInv DEF CreatePersonalOrg
<1>5. CASE a \notin orgs
  <2>1. /\ orgs' = orgs \cup {a} /\ job' = [job EXCEPT ![r].pc = "member"] /\ stranded' = stranded
    BY <1>2, <1>5 DEF CreatePersonalOrg, Goto
  <2>2. PICK O2 : O2 = orgs \cup {a}
    OBVIOUS
  <2>3. HomeTables(logins, O2, rank, spaces, filed) /\ AllFit(job, logins, O2, rank)
    BY <1>3, <2>2, OrgsGrow DEF HomesInv
  <2>4. PICK new : new = [job[r] EXCEPT !.pc = "member"]
    OBVIOUS
  <2>5. new \in JobRow /\ new.pc = "member" /\ new.user = a
    BY <1>2, <1>3, <2>4 DEF JobRow, Waits
  <2>6. Fits(new, logins, O2, rank) /\ Prov(new) /\ \A o : ~UnderWay(new, o)
    BY <1>2, <1>3, <2>2, <2>5 DEF Fits, Prov, UnderWay
  <2>7. PICK jb2 : jb2 = [job EXCEPT ![r] = new]
    OBVIOUS
  <2>8. job' = jb2
    BY <2>1, <2>4, <2>7 DEF HomesInv, AllFit
  <2>9. ASSUME NEW o \in Org \ crossed, Founding(new, o)
        PROVE  /\ \A q \in Request \ {r} : ~Founding(job[q], o)
               /\ new.pc \in {"org", "found", "member"} => <<o, o>> \notin DOMAIN rank
    <3>1. Founding(job[r], o)
      BY <1>1, <1>2, <2>5, <2>9 DEF Founding
    <3> QED
      BY <1>1, <3>1 DEF HomesInv, Single
  <2>10. \A x \in Account : x \in stranded \/ (Prov(job[r]) /\ job[r].user = x) =>
           x \in stranded \/ HasHome(x, rank, spaces) \/ (Prov(new) /\ new.user = x)
    BY <1>2, <2>5, <2>6
  <2>11. new.pc # "team"
    BY <2>5
  <2>12. AllFit(jb2, logins, O2, rank) /\ Homed(logins, stranded, jb2, rank, spaces)
         /\ Single(crossed, jb2, rank, spaces)
    <3>1. MayMove(rank, spaces, job, stranded, crossed, stranded, crossed, r, new)
      BY <2>5, <2>6, <2>9, <2>10, <2>11 DEF MayMove
    <3> QED
      BY <2>3, <2>6, <2>7, <3>1, JobMoves DEF HomesInv
  <2> QED
    BY <1>1, <2>1, <2>2, <2>3, <2>8, <2>12 DEF HomesInv
<1> QED
  BY <1>4, <1>5

LEMMA AddOwnerInv ==
  ASSUME HomesInv, NEW r \in Request, AddOwner(r)
  PROVE  HomesInv'
<1>1. /\ job[r].pc = "member" /\ logins' = logins /\ orgs' = orgs /\ spaces' = spaces
      /\ filed' = filed /\ stranded' = stranded /\ crossed' = crossed
  BY DEF AddOwner
<1>2. PICK a : a = job[r].user
  OBVIOUS
<1>3. Prov(job[r]) /\ Fits(job[r], logins, orgs, rank) /\ job[r] \in JobRow /\ a \in Account
      /\ stranded \subseteq Account /\ crossed \subseteq Org /\ a \in Org /\ orgs \subseteq Org
      /\ a \in orgs /\ logins[a] # {}
  <2>1. Prov(job[r]) /\ Fits(job[r], logins, orgs, rank) /\ job[r] \in JobRow /\ a \in Account
        /\ stranded \subseteq Account /\ crossed \subseteq Org /\ a \in Org /\ orgs \subseteq Org
    BY <1>1, <1>2, HomesFacts, HomesNow DEF Provisions
  <2> QED
    BY <1>1, <1>2, <2>1 DEF Fits
<1>4. rank' = Updated(rank, [m \in {<<a, a>>} |-> "owner"]) /\ job' = [job EXCEPT ![r].pc = "home"]
  BY <1>2 DEF AddOwner, Goto
<1>5. HomeTables(logins, orgs, rank, spaces, filed) /\ Owned(rank, spaces) /\ AllFit(job, logins, orgs, rank)
      /\ Homed(logins, stranded, job, rank, spaces) /\ Single(crossed, job, rank, spaces)
  BY DEF HomesInv
(* without the request *)
<1>6. PICK jb, st : jb = [job EXCEPT ![r] = NoJob] /\ st = stranded \cup {a}
  OBVIOUS
<1>7. AllFit(jb, logins, orgs, rank) /\ Homed(logins, st, jb, rank, spaces) /\ Single(crossed, jb, rank, spaces)
  <2>1. \A x \in Account : x \in stranded \/ (Prov(job[r]) /\ job[r].user = x) => x \in st \/ HasHome(x, rank, spaces)
    BY <1>2, <1>6
  <2> QED
    BY <1>5, <1>6, <2>1, JobEnds
<1>8. jb[r] = NoJob /\ DOMAIN jb = Request /\ \A q \in Request \ {r} : jb[q] = job[q]
  BY <1>6 DEF HomesInv, AllFit
<1>9. a \notin crossed => \A q \in Request \ {r} : ~Founding(job[q], a)
  <2>1. Founding(job[r], a)
    BY <1>1, <1>2 DEF Founding
  <2> QED
    BY <1>3, <1>5, <2>1 DEF Single
<1>10. a \notin crossed => <<a, a>> \notin DOMAIN rank
  <2>1. Founding(job[r], a)
    BY <1>1, <1>2 DEF Founding
  <2> QED
    BY <1>1, <1>3, <1>5, <2>1 DEF Single
<1>11. a \notin crossed => /\ Def(spaces, a) = {}
                           /\ \A q \in Request \ {r} : ~UnderWay(jb[q], a)
  <2> SUFFICES ASSUME a \notin crossed PROVE Def(spaces, a) = {} /\ \A q \in Request \ {r} : ~UnderWay(jb[q], a)
    OBVIOUS
  <2>1. Def(spaces, a) = {}
    BY <1>3, <1>5, <1>10 DEF Owned, Def
  <2>2. ASSUME NEW q \in Request \ {r}, UnderWay(job[q], a)
        PROVE  FALSE
    <3>1. Fits(job[q], logins, orgs, rank)
      BY <1>5 DEF AllFit
    <3> QED
      BY <1>3, <1>10, <2>2, <3>1 DEF UnderWay, Fits
  <2> QED
    BY <1>8, <2>1, <2>2
(* with the membership *)
<1>12. PICK R2 : R2 = Updated(rank, [m \in {<<a, a>>} |-> "owner"])
  OBVIOUS
<1>13. HomeTables(logins, orgs, R2, spaces, filed) /\ Owned(R2, spaces) /\ AllFit(jb, logins, orgs, R2)
       /\ Homed(logins, st, jb, R2, spaces) /\ Single(crossed, jb, R2, spaces) /\ <<a, a>> \in DOMAIN R2
  <2>1. \A q \in Request : jb[q].pc = "team" => jb[q].org # a
    <3>1. \A q \in Request : job[q].pc = "team" => job[q].org \in Team
      BY HomesFacts
    <3> QED
      BY <1>3, <1>8, <3>1, JobRows, HomesAssumption
  <2>2. <<a, a>> \in DOMAIN R2
    BY <1>12 DEF Updated
  <2>3. a \notin crossed => \A q \in Request : ~Founding(jb[q], a)
    BY <1>8, <1>9, JobRows DEF Founding
  <2>4. PICK o, k : o = a /\ k = "owner"
    OBVIOUS
  <2>5. Entered(rank, R2, o, a, k)
    BY <1>12, <2>4 DEF Updated, Entered
  <2>6. o \in Account => \/ /\ o = a /\ k = "owner"
                            /\ o \notin crossed => \A q \in Request :
                                 Founding(jb[q], o) => jb[q].pc \notin {"org", "found", "member"}
                         \/ o # a /\ k = "member" /\ <<o, o>> \in DOMAIN rank
    BY <2>3, <2>4
  <2>7. \A q \in Request : jb[q].pc = "team" => jb[q].org # o
    BY <2>1, <2>4
  <2>8. HomeTables(logins, orgs, R2, spaces, filed) /\ Owned(R2, spaces) /\ AllFit(jb, logins, orgs, R2)
        /\ Homed(logins, st, jb, R2, spaces) /\ Single(crossed, jb, R2, spaces)
    <3>1. MayEnter(logins, orgs, rank, jb, crossed, o, a, k)
      BY <1>3, <2>4, <2>6, <2>7 DEF MayEnter
    <3> QED
      BY <1>5, <1>7, <2>5, <3>1, RankGrows
  <2> QED
    BY <2>2, <2>8
(* with the request again *)
<1>14. PICK new : new = [job[r] EXCEPT !.pc = "home"]
  OBVIOUS
<1>15. new \in JobRow /\ new.pc = "home" /\ new.user = a
  BY <1>2, <1>3, <1>14 DEF JobRow, Waits
<1>16. Fits(new, logins, orgs, R2) /\ Prov(new) /\ new.pc # "team"
  BY <1>3, <1>13, <1>15 DEF Fits, Prov
<1>17. PICK jb2 : jb2 = [jb EXCEPT ![r] = new]
  OBVIOUS
<1>18. AllFit(jb2, logins, orgs, R2) /\ Homed(logins, stranded, jb2, R2, spaces) /\ Single(crossed, jb2, R2, spaces)
  <2>1. \A x \in Account : x \in st \/ (Prov(jb[r]) /\ jb[r].user = x) =>
           x \in stranded \/ HasHome(x, R2, spaces) \/ (Prov(new) /\ new.user = x)
    BY <1>6, <1>8, <1>15, <1>16, JobRows DEF Prov
  <2>2. \A o \in Org \ crossed : UnderWay(new, o) =>
           Def(spaces, o) = {} /\ \A q \in Request \ {r} : ~UnderWay(jb[q], o)
    BY <1>11, <1>15 DEF UnderWay
  <2>3. \A o \in Org \ crossed : Founding(new, o) =>
           /\ \A q \in Request \ {r} : ~Founding(jb[q], o)
           /\ new.pc \in {"org", "found", "member"} => <<o, o>> \notin DOMAIN R2
    BY <1>8, <1>9, <1>15 DEF Founding
  <2>4. Single(crossed, jb, R2, spaces)
    BY <1>13
  <2> QED
    <3>1. MayMove(R2, spaces, jb, st, crossed, stranded, crossed, r, new)
      BY <1>15, <2>1, <2>2, <2>3 DEF MayMove
    <3> QED
      BY <1>13, <1>16, <1>17, <3>1, JobMoves
<1>19. job' = jb2
  BY <1>4, <1>6, <1>8, <1>14, <1>17 DEF HomesInv, AllFit
<1> QED
  BY <1>1, <1>3, <1>4, <1>12, <1>13, <1>18, <1>19, HomesThen

(* What the invariant says of the variables, as the lemmas about tables    *)
(* need it                                                                 *)
LEMMA HomesParts ==
  ASSUME HomesInv
  PROVE  /\ HomeTables(logins, orgs, rank, spaces, filed) /\ Owned(rank, spaces)
         /\ AllFit(job, logins, orgs, rank) /\ Homed(logins, stranded, job, rank, spaces)
         /\ Single(crossed, job, rank, spaces) /\ stranded \subseteq Account /\ crossed \subseteq Org
  BY DEF HomesInv

LEMMA AddTeamOwnerInv ==
  ASSUME HomesInv, NEW r \in Request, AddTeamOwner(r)
  PROVE  HomesInv'
<1>1. /\ job[r].pc = "team" /\ logins' = logins /\ orgs' = orgs /\ spaces' = spaces
      /\ filed' = filed /\ stranded' = stranded /\ crossed' = crossed
      /\ job' = [job EXCEPT ![r] = NoJob]
      /\ rank' = Updated(rank, [m \in {<<job[r].org, job[r].user>>} |-> "owner"])
  BY DEF AddTeamOwner, JobDone
<1>2. PICK o, a, k : o = job[r].org /\ a = job[r].user /\ k = "owner"
  OBVIOUS
<1>3. Fits(job[r], logins, orgs, rank) /\ o \in orgs \cap Team /\ ~Prov(job[r])
  BY <1>1, <1>2, HomesFacts DEF Prov
<1>4. a \in Account /\ logins[a] # {} /\ o \notin Account
  BY <1>1, <1>2, <1>3, HomesAssumption DEF Fits
<1>5. PICK jb, R2 : jb = [job EXCEPT ![r] = NoJob] /\ R2 = rank'
  OBVIOUS
<1>6. AllFit(jb, logins, orgs, rank) /\ Homed(logins, stranded, jb, rank, spaces) /\ Single(crossed, jb, rank, spaces)
  BY <1>3, <1>5, HomesParts, JobEnds
<1>7. \A q \in Request : jb[q].pc = "team" => jb[q].org # o
  <2>1. DOMAIN job = Request /\
        \A p, q \in Request : job[p].pc = "team" /\ job[q].pc = "team" /\ job[p].org = job[q].org => p = q
    BY HomesParts DEF AllFit
  <2> QED
    BY <1>1, <1>2, <1>5, <2>1, JobRows
<1>8. Entered(rank, R2, o, a, k)
  BY <1>1, <1>2, <1>5 DEF Entered, Updated
<1>9. MayEnter(logins, orgs, rank, jb, crossed, o, a, k)
  BY <1>2, <1>3, <1>4, <1>7 DEF MayEnter
<1>10. HomeTables(logins, orgs, R2, spaces, filed) /\ Owned(R2, spaces) /\ AllFit(jb, logins, orgs, R2)
       /\ Homed(logins, stranded, jb, R2, spaces) /\ Single(crossed, jb, R2, spaces)
  BY <1>6, <1>8, <1>9, HomesParts, RankGrows
<1> QED
  BY <1>1, <1>5, <1>10, HomesParts DEF HomesInv

LEMMA AddMemberInv ==
  ASSUME HomesInv, AddMember
  PROVE  HomesInv'
<1>1. PICK a, b \in Account : \E o \in orgs :
       /\ May(a, o, {"owner"}) /\ logins[b] # {} /\ <<o, b>> \notin DOMAIN rank
       /\ rank' = Updated(rank, [m \in {<<o, b>>} |-> "member"])
  BY DEF AddMember
<1>2. PICK o \in orgs :
       /\ May(a, o, {"owner"}) /\ logins[b] # {} /\ <<o, b>> \notin DOMAIN rank
       /\ rank' = Updated(rank, [m \in {<<o, b>>} |-> "member"])
  BY <1>1
<1>3. logins' = logins /\ orgs' = orgs /\ spaces' = spaces /\ job' = job
      /\ filed' = filed /\ stranded' = stranded /\ crossed' = crossed
  BY DEF AddMember, Atomic
<1>4. PICK k, R2 : k = "member" /\ R2 = rank'
  OBVIOUS
<1>5. Entered(rank, R2, o, b, k)
  BY <1>2, <1>4 DEF Entered, Updated
<1>6. MayEnter(logins, orgs, rank, job, crossed, o, b, k)
  <2>1. <<o, a>> \in DOMAIN rank /\ rank[<<o, a>>] = "owner"
    BY <1>2 DEF May
  <2>2. \A q \in Request : job[q].pc = "team" => job[q].org # o
    BY <2>1, HomesFacts DEF Fits
  <2>3. o \in Account => o # b /\ <<o, o>> \in DOMAIN rank
    BY <1>2, <2>1, HomesParts DEF Owned
  <2> QED
    BY <1>2, <1>4, <2>2, <2>3 DEF MayEnter
<1>7. HomeTables(logins, orgs, R2, spaces, filed) /\ Owned(R2, spaces) /\ AllFit(job, logins, orgs, R2)
       /\ Homed(logins, stranded, job, R2, spaces) /\ Single(crossed, job, R2, spaces)
  BY <1>5, <1>6, HomesParts, RankGrows
<1> QED
  BY <1>3, <1>4, <1>7, HomesParts DEF HomesInv

LEMMA RemoveMemberInv ==
  ASSUME HomesInv, RemoveMember
  PROVE  HomesInv'
<1>1. PICK b \in Account, o \in orgs : May(b, o, {"member"}) /\ rank' = Without(rank, {<<o, b>>})
  BY DEF RemoveMember
<1>2. logins' = logins /\ orgs' = orgs /\ spaces' = spaces /\ job' = job
      /\ filed' = filed /\ stranded' = stranded /\ crossed' = crossed
  BY DEF RemoveMember, Atomic
<1>3. PICK R2 : R2 = rank'
  OBVIOUS
<1>4. DOMAIN R2 \subseteq DOMAIN rank /\ (\A m \in DOMAIN R2 : R2[m] = rank[m])
  BY <1>1, <1>3 DEF Without
<1>5. \A x \in Account : <<x, x>> \in DOMAIN rank => <<x, x>> \in DOMAIN R2
  <2> SUFFICES ASSUME NEW x \in Account, <<x, x>> \in DOMAIN rank PROVE <<x, x>> # <<o, b>>
    BY <1>1, <1>3 DEF Without
  <2>1. rank[<<x, x>>] = "owner"
    BY HomesParts DEF Owned
  <2> QED
    BY <1>1, <2>1 DEF May
<1>6. HomeTables(logins, orgs, R2, spaces, filed) /\ Owned(R2, spaces) /\ AllFit(job, logins, orgs, R2)
       /\ Homed(logins, stranded, job, R2, spaces) /\ Single(crossed, job, R2, spaces)
  BY <1>4, <1>5, HomesParts, RankShrinks
<1> QED
  BY <1>2, <1>3, <1>6, HomesParts DEF HomesInv

LEMMA CreateTeamInv ==
  ASSUME HomesInv, NEW r \in Request, CreateTeam(r)
  PROVE  HomesInv'
<1>1. PICK a \in Account, o \in Team \ orgs :
       /\ logins[a] # {} /\ job' = [job EXCEPT ![r] = [NoJob EXCEPT !.pc = "team", !.user = a, !.org = o]]
       /\ orgs' = orgs \cup {o}
  BY DEF CreateTeam, Start
<1>2. logins' = logins /\ rank' = rank /\ spaces' = spaces /\ job[r].pc = "idle"
      /\ filed' = filed /\ stranded' = stranded /\ crossed' = crossed
  BY DEF CreateTeam, Start
<1>3. PICK O2, new, jb2 : /\ O2 = orgs \cup {o} /\ new = [NoJob EXCEPT !.pc = "team", !.user = a, !.org = o]
                          /\ jb2 = [job EXCEPT ![r] = new]
  OBVIOUS
<1>4. HomeTables(logins, O2, rank, spaces, filed) /\ AllFit(job, logins, O2, rank)
  BY <1>3, HomesParts, HomesFacts, OrgsGrow DEF Org
<1>5. new \in JobRow /\ new.pc = "team" /\ new.user = a /\ new.org = o
  BY <1>3 DEF JobRow, NoJob, Waits, Org
<1>6. Fits(new, logins, O2, rank)
  <2>1. \A x : <<o, x>> \notin DOMAIN rank
    BY HomesParts DEF HomeTables
  <2> QED
    BY <1>1, <1>3, <1>5, <2>1 DEF Fits, Prov
<1>7. ~Prov(job[r]) /\ \A x : ~UnderWay(new, x) /\ ~Founding(new, x)
  BY <1>2, <1>5 DEF Prov, UnderWay, Founding
<1>8. \A q \in Request \ {r} : job[q].pc = "team" => job[q].org # new.org
  BY <1>5, HomesFacts
<1>9. AllFit(jb2, logins, O2, rank) /\ Homed(logins, stranded, jb2, rank, spaces) /\ Single(crossed, jb2, rank, spaces)
  <2>1. MayMove(rank, spaces, job, stranded, crossed, stranded, crossed, r, new)
    BY <1>7, <1>8 DEF MayMove
  <2> QED
    BY <1>3, <1>4, <1>6, <2>1, HomesParts, JobMoves
<1> QED
  BY <1>1, <1>2, <1>3, <1>4, <1>9, HomesParts DEF HomesInv

LEMMA FindDefaultSlugInv ==
  ASSUME HomesInv, NEW r \in Request, FindDefaultSlug(r)
  PROVE  HomesInv'
<1>1. /\ job[r].pc = "home" /\ logins' = logins /\ orgs' = orgs /\ rank' = rank
      /\ spaces' = spaces /\ filed' = filed
  BY DEF FindDefaultSlug, stores
<1>2. PICK a : a = job[r].user
  OBVIOUS
<1>3. Prov(job[r]) /\ Fits(job[r], logins, orgs, rank) /\ job[r] \in JobRow /\ a \in Account
      /\ stranded \subseteq Account /\ crossed \subseteq Org /\ a \in Org
  BY <1>1, <1>2, HomesFacts, HomesNow DEF Provisions
<1>4. <<a, a>> \in DOMAIN rank
  BY <1>1, <1>2, <1>3 DEF Fits
<1>5. CASE Slugged(a, <<"default", 1>>) # {}
  <2>1. /\ job' = [job EXCEPT ![r] = NoJob] /\ crossed' = crossed
        /\ stranded' = IF Defaults(a) = {} THEN stranded \cup {a} ELSE stranded \ {a}
    BY <1>2, <1>5 DEF FindDefaultSlug, JobDone
  <2>2. Defaults(a) # {} => HasHome(a, rank, spaces)
    BY <1>4, HomesNow DEF HasHome
  <2>3. PICK st, jb2 : st = stranded' /\ jb2 = [job EXCEPT ![r] = NoJob]
    OBVIOUS
  <2>4. st \subseteq Account /\
        \A x \in Account : x \in stranded \/ (Prov(job[r]) /\ job[r].user = x) => x \in st \/ HasHome(x, rank, spaces)
    BY <1>2, <1>3, <2>1, <2>2, <2>3
  <2>5. AllFit(jb2, logins, orgs, rank) /\ Homed(logins, st, jb2, rank, spaces) /\ Single(crossed, jb2, rank, spaces)
    BY <2>3, <2>4, HomesParts, JobEnds
  <2> QED
    BY <1>1, <2>1, <2>3, <2>4, <2>5, HomesParts DEF HomesInv
<1>6. CASE Slugged(a, <<"default", 1>>) = {}
  <2>1. /\ job' = [job EXCEPT ![r].pc = IF job[r].strict THEN "insert" ELSE "slug",
                              ![r].org = a, ![r].slug = <<"default", 1>>, ![r].default = TRUE]
        /\ crossed' = IF Crossing(r, a) THEN crossed \cup {a} ELSE crossed
        /\ stranded' = stranded
    BY <1>2, <1>6 DEF FindDefaultSlug
  <2>2. PICK new, cr2 : /\ new = [job[r] EXCEPT !.pc = IF job[r].strict THEN "insert" ELSE "slug",
                              !.org = a, !.slug = <<"default", 1>>, !.default = TRUE]
                        /\ cr2 = crossed'
    OBVIOUS
  <2>3. <<"default", 1>> \in Slug
    <3>1. Cardinality(Space) \in Nat
      BY HomesAssumption, FS_CardinalityType
    <3> QED
      BY <3>1 DEF Slug
  <2>4. /\ new.pc \in {"insert", "slug"} /\ new.user = a /\ new.org = a
        /\ new.slug = <<"default", 1>> /\ new.default = TRUE /\ new \in JobRow
    BY <1>2, <1>3, <2>2, <2>3 DEF JobRow, Waits
  <2>5. a # Nil
    BY <1>3, HomesAssumption
  <2>6. Fits(new, logins, orgs, rank) /\ Prov(new) /\ new.pc # "team"
    BY <1>2, <1>3, <1>4, <2>3, <2>4, <2>5 DEF Fits, Prov
  <2>7. job' = [job EXCEPT ![r] = new]
    BY <2>1, <2>2, HomesParts DEF AllFit
  <2>8. UnderWay(job[r], a) /\ Founding(job[r], a)
    BY <1>1, <1>2 DEF UnderWay, Founding
  <2>9. \A o \in Org \ cr2 : UnderWay(new, o) =>
           Def(spaces, o) = {} /\ \A q \in Request \ {r} : ~UnderWay(job[q], o)
    <3> SUFFICES ASSUME NEW o \in Org \ cr2, UnderWay(new, o)
                 PROVE  Def(spaces, o) = {} /\ \A q \in Request \ {r} : ~UnderWay(job[q], o)
      OBVIOUS
    <3>1. o = a /\ a \notin crossed
      BY <2>1, <2>2, <2>4 DEF UnderWay
    <3> QED
      BY <1>3, <2>8, <3>1, HomesParts DEF Single
  <2>10. \A o \in Org \ cr2 : Founding(new, o) =>
           /\ \A q \in Request \ {r} : ~Founding(job[q], o)
           /\ new.pc \in {"org", "found", "member"} => <<o, o>> \notin DOMAIN rank
    <3> SUFFICES ASSUME NEW o \in Org \ cr2, Founding(new, o)
                 PROVE  \A q \in Request \ {r} : ~Founding(job[q], o)
      BY <2>4
    <3>1. o = a /\ a \notin crossed
      BY <2>1, <2>2, <2>4 DEF Founding
    <3> QED
      BY <1>3, <2>8, <3>1, HomesParts DEF Single
  <2>11. \A x \in Account : x \in stranded \/ (Prov(job[r]) /\ job[r].user = x) =>
           x \in stranded \/ HasHome(x, rank, spaces) \/ (Prov(new) /\ new.user = x)
    BY <1>2, <2>4, <2>6
  <2>12. crossed \subseteq cr2 /\ cr2 \subseteq Org /\ crossed' = cr2
    BY <1>3, <2>1, <2>2
  <2>13. MayMove(rank, spaces, job, stranded, crossed, stranded, cr2, r, new)
    BY <2>6, <2>9, <2>10, <2>11, <2>12 DEF MayMove
  <2> QED
    BY <1>1, <1>3, <2>1, <2>6, <2>7, <2>12, <2>13, JobStep
<1> QED
  BY <1>5, <1>6

LEMMA CreateWorkspaceInv ==
  ASSUME HomesInv, NEW r \in Request, CreateWorkspace(r)
  PROVE  HomesInv'
<1>1. PICK a \in Account, o \in orgs, default \in BOOLEAN, base \in {"default", "other"} :
        /\ May(a, o, {"owner", "member"})
        /\ default => Defaults(o) = {}
        /\ job' = [job EXCEPT ![r] = [NoJob EXCEPT !.pc = "slug", !.org = o, !.slug = <<base, 1>>,
                                                   !.default = default]]
        /\ crossed' = IF default /\ Crossing(r, o) THEN crossed \cup {o} ELSE crossed
  BY DEF CreateWorkspace, Start
<1>2. /\ job[r].pc = "idle" /\ logins' = logins /\ orgs' = orgs /\ rank' = rank
      /\ spaces' = spaces /\ filed' = filed /\ stranded' = stranded
  BY DEF CreateWorkspace, Start, stores
<1>3. PICK new, cr2 : /\ new = [NoJob EXCEPT !.pc = "slug", !.org = o, !.slug = <<base, 1>>, !.default = default]
                      /\ cr2 = crossed'
  OBVIOUS
<1>4. o \in Org /\ <<base, 1>> \in Slug
  <2>1. Cardinality(Space) \in Nat
    BY HomesAssumption, FS_CardinalityType
  <2> QED
    BY <2>1, HomesFacts DEF Slug
<1>5. /\ new.pc = "slug" /\ new.user = Nil /\ new.org = o /\ new.slug = <<base, 1>>
      /\ new.default = default /\ new \in JobRow
  BY <1>3, <1>4 DEF JobRow, NoJob, Waits
<1>6. Fits(new, logins, orgs, rank) /\ ~Prov(job[r]) /\ new.pc # "team"
  <2>1. o \in Account => <<o, o>> \in DOMAIN rank
    BY <1>1, HomesParts DEF May, Owned
  <2> QED
    BY <1>2, <1>4, <1>5, <2>1 DEF Fits, Prov
<1>7. \A x \in Org \ cr2 : UnderWay(new, x) =>
        Def(spaces, x) = {} /\ \A q \in Request \ {r} : ~UnderWay(job[q], x)
  <2> SUFFICES ASSUME NEW x \in Org \ cr2, UnderWay(new, x)
               PROVE  Def(spaces, x) = {} /\ \A q \in Request \ {r} : ~UnderWay(job[q], x)
    OBVIOUS
  <2>1. x = o /\ default
    BY <1>5 DEF UnderWay
  <2>2. ~Crossing(r, o)
    BY <1>1, <1>3, <2>1
  <2> QED
    BY <1>1, <2>1, <2>2, HomesNow
<1>8. \A x \in Org : ~Founding(new, x)
  BY <1>5, HomesAssumption DEF Founding, Org
<1>9. crossed \subseteq cr2 /\ cr2 \subseteq Org /\ stranded \subseteq Account /\ crossed' = cr2
  BY <1>1, <1>3, <1>4, HomesParts
<1>10. \A x \in Account : x \in stranded \/ (Prov(job[r]) /\ job[r].user = x) =>
         x \in stranded \/ HasHome(x, rank, spaces) \/ (Prov(new) /\ new.user = x)
  BY <1>6
<1>11. \A x \in Org \ cr2 : Founding(new, x) =>
         /\ \A q \in Request \ {r} : ~Founding(job[q], x)
         /\ new.pc \in {"org", "found", "member"} => <<x, x>> \notin DOMAIN rank
  BY <1>8
<1>12. job' = [job EXCEPT ![r] = new]
  BY <1>1, <1>3
<1>13. MayMove(rank, spaces, job, stranded, crossed, stranded, cr2, r, new)
  BY <1>6, <1>7, <1>9, <1>10, <1>11 DEF MayMove
<1> QED
  BY <1>2, <1>6, <1>9, <1>12, <1>13, JobStep

LEMMA ChooseSlugInv ==
  ASSUME HomesInv, NEW r \in Request, ChooseSlug(r)
  PROVE  HomesInv'
<1>1. /\ job[r].pc = "slug" /\ logins' = logins /\ orgs' = orgs /\ rank' = rank
      /\ spaces' = spaces /\ filed' = filed /\ stranded' = stranded /\ crossed' = crossed
      /\ job' = [job EXCEPT ![r].pc = "insert", ![r].slug = UniqueSlug(job[r].org, @[1])]
  BY DEF ChooseSlug, stores
<1>2. Fits(job[r], logins, orgs, rank) /\ job[r] \in JobRow
  BY HomesFacts
<1>3. job[r].slug \in Slug /\ job[r].org \in Org
  BY <1>1, <1>2 DEF Fits
<1>4. PICK x : x = UniqueSlug(job[r].org, job[r].slug[1])
  OBVIOUS
<1>5. x \in Slug
  <2>1. job[r].slug[1] \in {"default", "other"}
    BY <1>3 DEF Slug
  <2> QED
    BY <1>4, <2>1, UniqueSlugThere
<1>6. PICK new : new = [job[r] EXCEPT !.pc = "insert", !.slug = x]
  OBVIOUS
<1>7. /\ new \in JobRow /\ new.pc = "insert" /\ new.slug = x /\ new.user = job[r].user
      /\ new.org = job[r].org /\ new.default = job[r].default
  BY <1>2, <1>5, <1>6 DEF JobRow, Waits
<1>8. Fits(new, logins, orgs, rank) /\ new.pc # "team" /\ (Prov(new) <=> Prov(job[r]))
  BY <1>1, <1>2, <1>5, <1>7 DEF Fits, Prov
<1>9. job' = [job EXCEPT ![r] = new]
  BY <1>1, <1>4, <1>6, HomesParts DEF AllFit
<1>10. \A o : /\ UnderWay(new, o) => UnderWay(job[r], o)
              /\ Founding(new, o) => Founding(job[r], o)
  BY <1>1, <1>7 DEF UnderWay, Founding
<1>11. \A o \in Org \ crossed : UnderWay(new, o) =>
         Def(spaces, o) = {} /\ \A q \in Request \ {r} : ~UnderWay(job[q], o)
  BY <1>10, HomesParts DEF Single
<1>12. \A o \in Org \ crossed : Founding(new, o) =>
         /\ \A q \in Request \ {r} : ~Founding(job[q], o)
         /\ new.pc \in {"org", "found", "member"} => <<o, o>> \notin DOMAIN rank
  BY <1>7, <1>10, HomesParts DEF Single
<1>13. \A a \in Account : a \in stranded \/ (Prov(job[r]) /\ job[r].user = a) =>
         a \in stranded \/ HasHome(a, rank, spaces) \/ (Prov(new) /\ new.user = a)
  BY <1>7, <1>8
<1>14. crossed \subseteq crossed /\ crossed \subseteq Org /\ stranded \subseteq Account
  BY HomesParts
<1>15. MayMove(rank, spaces, job, stranded, crossed, stranded, crossed, r, new)
  BY <1>8, <1>11, <1>12, <1>13 DEF MayMove
<1> QED
  BY <1>1, <1>8, <1>9, <1>14, <1>15, JobStep

(* A workspace is inserted: as a default one only where no other is, or is *)
(* under way.                                                              *)
MayHost(O, R, S, jb, cr, s, row) ==
  /\ s \in Space \ DOMAIN S /\ row \in SpaceRow /\ row.org \in O /\ ~row.archived
  /\ \A t \in DOMAIN S : <<S[t].org, S[t].slug>> # <<row.org, row.slug>>
  /\ row.org \in Account => <<row.org, row.org>> \in DOMAIN R
  /\ row.default /\ row.org \notin cr =>
       Def(S, row.org) = {} /\ \A q \in Request : ~UnderWay(jb[q], row.org)

SpaceEntered(S, S2, s, row) ==
  DOMAIN S2 = DOMAIN S \cup {s} /\ S2[s] = row /\ \A t \in DOMAIN S : S2[t] = S[t]

LEMMA SpaceAdded ==
  ASSUME NEW L, NEW O, NEW R, NEW S, NEW F, NEW jb, NEW st, NEW cr, NEW S2, NEW s, NEW row,
         HomeTables(L, O, R, S, F), Owned(R, S), Homed(L, st, jb, R, S), Single(cr, jb, R, S),
         MayHost(O, R, S, jb, cr, s, row), SpaceEntered(S, S2, s, row)
  PROVE  /\ HomeTables(L, O, R, S2, F) /\ Owned(R, S2) /\ Homed(L, st, jb, R, S2)
         /\ Single(cr, jb, R, S2)
         /\ row.default => s \in Def(S2, row.org)
<1> USE DEF MayHost, SpaceEntered
<1>1. \A o : Def(S2, o) = Def(S, o) \cup (IF row.org = o /\ row.default THEN {s} ELSE {})
  BY DEF Def
<1>2. HomeTables(L, O, R, S2, F)
  <2>1. \A t \in DOMAIN S2 : S2[t] \in SpaceRow /\ S2[t].org \in O
    BY DEF HomeTables
  <2>2. \A t, u \in DOMAIN S2 : t # u => <<S2[t].org, S2[t].slug>> # <<S2[u].org, S2[u].slug>>
    <3> TAKE t, u \in DOMAIN S2
    <3>1. CASE t = s \/ u = s
      BY <3>1
    <3>2. CASE t # s /\ u # s
      BY <3>2 DEF HomeTables
    <3> QED
      BY <3>1, <3>2
  <2>3. DOMAIN S2 \subseteq Space /\ \A d \in DOMAIN F : F[d].space \in DOMAIN S2
    BY DEF HomeTables
  <2> QED
    BY <2>1, <2>2, <2>3 DEF HomeTables
<1>3. Owned(R, S2)
  BY DEF Owned
<1>4. Homed(L, st, jb, R, S2)
  BY <1>1 DEF Homed, HasHome
<1>5. Single(cr, jb, R, S2)
  <2> SUFFICES ASSUME NEW o \in Org \ cr
               PROVE  /\ \A t, u \in Def(S2, o) : t = u
                      /\ \A q \in Request : UnderWay(jb[q], o) => Def(S2, o) = {}
    BY DEF Single
  <2>1. /\ \A t, u \in Def(S, o) : t = u
        /\ \A q \in Request : UnderWay(jb[q], o) => Def(S, o) = {}
    BY DEF Single
  <2>2. CASE row.org = o /\ row.default
    BY <1>1, <2>2
  <2>3. CASE ~(row.org = o /\ row.default)
    BY <1>1, <2>1, <2>3
  <2> QED
    BY <2>2, <2>3
<1>6. row.default => s \in Def(S2, row.org)
  BY <1>1
<1> QED
  BY <1>2, <1>3, <1>4, <1>5, <1>6

LEMMA InsertWorkspaceInv ==
  ASSUME HomesInv, NEW r \in Request, InsertWorkspace(r)
  PROVE  HomesInv'
<1>1. /\ job[r].pc = "insert" /\ logins' = logins /\ orgs' = orgs /\ rank' = rank
      /\ filed' = filed /\ crossed' = crossed
  BY DEF InsertWorkspace
<1>2. PICK o, x, d, a : o = job[r].org /\ x = job[r].slug /\ d = job[r].default /\ a = job[r].user
  OBVIOUS
<1>3. Fits(job[r], logins, orgs, rank) /\ job[r] \in JobRow /\ stranded \subseteq Account /\ crossed \subseteq Org
  BY HomesFacts
<1>4. /\ x \in Slug /\ o \in Org /\ d \in BOOLEAN
      /\ a # Nil => o = a /\ d /\ <<a, a>> \in DOMAIN rank
      /\ o \in Account => <<o, o>> \in DOMAIN rank
  BY <1>1, <1>2, <1>3 DEF Fits, JobRow
<1>5. CASE o \notin orgs \/ Slugged(o, x) # {}
  <2>1. spaces' = spaces /\ GiveUp(r)
    BY <1>2, <1>5 DEF InsertWorkspace
  <2> QED
    BY <1>1, <2>1, GiveUpInv
<1>6. CASE o \in orgs /\ Slugged(o, x) = {}
  <2>1. PICK s \in Space \ DOMAIN spaces :
          /\ spaces' = Updated(spaces, [n \in {s} |-> NewSpace(o, x, d)])
          /\ job' = [job EXCEPT ![r] = NoJob] /\ stranded' = stranded \ {a}
    BY <1>2, <1>6 DEF InsertWorkspace, JobDone
  (* without the request *)
  <2>2. PICK jb, st : jb = [job EXCEPT ![r] = NoJob] /\ st = stranded \cup ({a} \ {Nil})
    OBVIOUS
  <2>3. AllFit(jb, logins, orgs, rank) /\ Homed(logins, st, jb, rank, spaces) /\ Single(crossed, jb, rank, spaces)
    <3>1. \A b \in Account : b \in stranded \/ (Prov(job[r]) /\ job[r].user = b) => b \in st \/ HasHome(b, rank, spaces)
      BY <1>2, <2>2, HomesAssumption
    <3> QED
      BY <2>2, <3>1, HomesParts, JobEnds
  (* with the workspace *)
  <2>4. PICK row, S2 : row = NewSpace(o, x, d) /\ S2 = spaces'
    OBVIOUS
  <2>5. /\ row \in SpaceRow /\ row.org = o /\ row.slug = x /\ row.default = d /\ ~row.archived
    BY <1>4, <2>4 DEF NewSpace, SpaceRow
  <2>6. SpaceEntered(spaces, S2, s, row)
    BY <2>1, <2>4 DEF SpaceEntered, Updated
  <2>7. MayHost(orgs, rank, spaces, jb, crossed, s, row)
    <3>1. \A t \in DOMAIN spaces : <<spaces[t].org, spaces[t].slug>> # <<o, x>>
      BY <1>6 DEF Slugged, SpacesIn
    <3>2. ASSUME d, o \notin crossed
          PROVE  Def(spaces, o) = {} /\ \A q \in Request : ~UnderWay(jb[q], o)
      <4>1. UnderWay(job[r], o)
        BY <1>1, <1>2, <3>2 DEF UnderWay
      <4>2. Def(spaces, o) = {} /\ \A q \in Request \ {r} : ~UnderWay(job[q], o)
        BY <1>4, <3>2, <4>1, HomesParts DEF Single
      <4>3. ~UnderWay(NoJob, o)
        BY JobRows DEF UnderWay
      <4> QED
        BY <2>2, <4>2, <4>3, HomesParts DEF AllFit
    <3> QED
      BY <1>4, <1>6, <2>5, <3>1, <3>2 DEF MayHost
  <2>8. /\ HomeTables(logins, orgs, rank, S2, filed) /\ Owned(rank, S2) /\ Homed(logins, st, jb, rank, S2)
        /\ Single(crossed, jb, rank, S2)
        /\ row.default => s \in Def(S2, row.org)
    BY <2>3, <2>6, <2>7, HomesParts, SpaceAdded
  (* whose owner is no longer stranded *)
  <2>9. PICK st2 : st2 = stranded'
    OBVIOUS
  <2>10. Homed(logins, st2, jb, rank, S2)
    <3>1. a # Nil => HasHome(a, rank, S2)
      BY <1>4, <2>5, <2>8 DEF HasHome
    <3>2. \A b \in Account : b \in st => b \in st2 \/ HasHome(b, rank, S2)
      BY <2>1, <2>2, <2>9, <3>1, HomesAssumption
    <3> QED
      BY <2>8, <3>2 DEF Homed
  <2> QED
    BY <1>1, <1>3, <2>1, <2>2, <2>3, <2>4, <2>8, <2>9, <2>10 DEF HomesInv
<1> QED
  BY <1>5, <1>6

LEMMA RenameWorkspaceInv ==
  ASSUME HomesInv, NEW r \in Request, RenameWorkspace(r)
  PROVE  HomesInv'
<1>1. /\ job[r].pc = "rename" /\ logins' = logins /\ orgs' = orgs /\ rank' = rank
      /\ filed' = filed /\ stranded' = stranded /\ crossed' = crossed /\ job' = [job EXCEPT ![r] = NoJob]
  BY DEF RenameWorkspace, JobDone
<1>2. PICK s, x, S2, jb : s = job[r].space /\ x = job[r].slug /\ S2 = spaces' /\ jb = job'
  OBVIOUS
<1>3. Fits(job[r], logins, orgs, rank) /\ ~Prov(job[r])
  BY <1>1, HomesFacts DEF Prov
<1>4. x \in Slug
  BY <1>1, <1>2, <1>3 DEF Fits
<1>5. AllFit(jb, logins, orgs, rank) /\ Homed(logins, stranded, jb, rank, spaces) /\ Single(crossed, jb, rank, spaces)
  BY <1>1, <1>2, <1>3, HomesParts, JobEnds
<1>6. CASE s \in DOMAIN spaces /\ Slugged(spaces[s].org, x) = {}
  <2>1. S2 = [spaces EXCEPT ![s].slug = x]
    BY <1>2, <1>6 DEF RenameWorkspace
  <2>2. \A t \in DOMAIN spaces : spaces[t] \in SpaceRow /\ spaces[t].org \in orgs
    BY HomesParts DEF HomeTables
  <2>3. /\ DOMAIN S2 = DOMAIN spaces /\ \A t \in DOMAIN spaces \ {s} : S2[t] = spaces[t]
        /\ S2[s] \in SpaceRow /\ S2[s].org = spaces[s].org /\ S2[s].default = spaces[s].default
        /\ S2[s].archived = spaces[s].archived /\ S2[s].slug = x
    BY <1>4, <1>6, <2>1, <2>2 DEF SpaceRow
  <2>4. \A o : Def(S2, o) = Def(spaces, o)
    BY <1>6, <2>3 DEF Def
  <2>5. HomeTables(logins, orgs, rank, S2, filed)
    <3>1. \A t, u \in DOMAIN S2 : t # u => <<S2[t].org, S2[t].slug>> # <<S2[u].org, S2[u].slug>>
      <4> SUFFICES ASSUME NEW t \in DOMAIN S2, NEW u \in DOMAIN S2, t # u
                   PROVE  S2[t].org # S2[u].org \/ S2[t].slug # S2[u].slug
        OBVIOUS
      <4>1. \A v \in DOMAIN spaces : spaces[v].org = spaces[s].org => spaces[v].slug # x
        BY <1>6 DEF Slugged, SpacesIn
      <4>2. spaces[t].org # spaces[u].org \/ spaces[t].slug # spaces[u].slug
        BY <2>3, HomesParts DEF HomeTables
      <4> QED
        BY <2>3, <4>1, <4>2
    <3>2. \A t \in DOMAIN S2 : S2[t] \in SpaceRow /\ S2[t].org \in orgs
      BY <1>6, <2>2, <2>3
    <3> QED
      BY <2>3, <3>1, <3>2, HomesParts DEF HomeTables
  <2>6. Owned(rank, S2)
    <3>1. \A t \in DOMAIN S2 : /\ S2[t].org = spaces[t].org /\ S2[t].default = spaces[t].default
                               /\ S2[t].archived = spaces[t].archived
      BY <2>3
    <3> QED
      BY <2>3, <3>1, HomesParts DEF Owned
  <2>7. Homed(logins, stranded, jb, rank, S2) /\ Single(crossed, jb, rank, S2)
    BY <1>5, <2>4, SpacesStay
  <2> QED
    BY <1>1, <1>2, <1>5, <2>5, <2>6, <2>7, HomesParts DEF HomesInv
<1>7. CASE ~(s \in DOMAIN spaces /\ Slugged(spaces[s].org, x) = {})
  <2>1. spaces' = spaces
    BY <1>2, <1>7 DEF RenameWorkspace
  <2> QED
    BY <1>1, <1>2, <1>5, <2>1, HomesParts DEF HomesInv
<1> QED
  BY <1>6, <1>7

LEMMA ArchiveWorkspaceInv ==
  ASSUME HomesInv, ArchiveWorkspace
  PROVE  HomesInv'
<1>1. PICK s \in DOMAIN spaces, archived \in BOOLEAN :
        /\ archived => ~spaces[s].default
        /\ spaces' = [spaces EXCEPT ![s].archived = archived]
  BY DEF ArchiveWorkspace
<1>2. logins' = logins /\ orgs' = orgs /\ rank' = rank /\ job' = job
      /\ filed' = filed /\ stranded' = stranded /\ crossed' = crossed
  BY DEF ArchiveWorkspace, Atomic
<1>3. PICK S2 : S2 = spaces'
  OBVIOUS
<1>4. \A t \in DOMAIN spaces : spaces[t] \in SpaceRow /\ spaces[t].org \in orgs
  BY HomesParts DEF HomeTables
<1>5. /\ DOMAIN S2 = DOMAIN spaces /\ \A t \in DOMAIN spaces \ {s} : S2[t] = spaces[t]
      /\ S2[s] \in SpaceRow /\ S2[s].org = spaces[s].org /\ S2[s].default = spaces[s].default
      /\ S2[s].archived = archived /\ S2[s].slug = spaces[s].slug
  BY <1>1, <1>3, <1>4 DEF SpaceRow
<1>6. \A t \in DOMAIN S2 : /\ S2[t].org = spaces[t].org /\ S2[t].default = spaces[t].default
                           /\ S2[t].slug = spaces[t].slug /\ S2[t] \in SpaceRow
  BY <1>4, <1>5
<1>7. \A o : Def(S2, o) = Def(spaces, o)
  BY <1>5, <1>6 DEF Def
<1>8. HomeTables(logins, orgs, rank, S2, filed)
  <2>1. \A t, u \in DOMAIN S2 : t # u => <<S2[t].org, S2[t].slug>> # <<S2[u].org, S2[u].slug>>
    BY <1>5, <1>6, HomesParts DEF HomeTables
  <2> QED
    BY <1>4, <1>5, <1>6, <2>1, HomesParts DEF HomeTables
<1>9. Owned(rank, S2)
  <2>1. \A t \in DOMAIN S2 : S2[t].default => ~S2[t].archived
    BY <1>1, <1>5, HomesParts DEF Owned
  <2> QED
    BY <1>5, <1>6, <2>1, HomesParts DEF Owned
<1>10. Homed(logins, stranded, job, rank, S2) /\ Single(crossed, job, rank, S2)
  BY <1>7, HomesParts, SpacesStay
<1> QED
  BY <1>2, <1>3, <1>8, <1>9, <1>10, HomesParts DEF HomesInv

LEMMA DeleteWorkspaceInv ==
  ASSUME HomesInv, DeleteWorkspace
  PROVE  HomesInv'
<1>1. PICK s \in DOMAIN spaces :
        /\ ~spaces[s].default /\ \A d \in DOMAIN filed : filed[d].space # s
        /\ spaces' = Without(spaces, {s})
  BY DEF DeleteWorkspace
<1>2. logins' = logins /\ orgs' = orgs /\ rank' = rank /\ job' = job
      /\ filed' = filed /\ stranded' = stranded /\ crossed' = crossed
  BY DEF DeleteWorkspace, Atomic
<1>3. PICK S2 : S2 = spaces'
  OBVIOUS
<1>4. DOMAIN S2 = DOMAIN spaces \ {s} /\ \A t \in DOMAIN S2 : S2[t] = spaces[t]
  BY <1>1, <1>3 DEF Without
<1>5. \A o : Def(S2, o) = Def(spaces, o)
  BY <1>1, <1>4 DEF Def
<1>6. HomeTables(logins, orgs, rank, S2, filed)
  BY <1>1, <1>4, HomesParts DEF HomeTables
<1>7. Owned(rank, S2)
  BY <1>4, HomesParts DEF Owned
<1>8. Homed(logins, stranded, job, rank, S2) /\ Single(crossed, job, rank, S2)
  BY <1>5, HomesParts, SpacesStay
<1> QED
  BY <1>2, <1>3, <1>6, <1>7, <1>8, HomesParts DEF HomesInv

LEMMA DeleteTeamInv ==
  ASSUME HomesInv, DeleteTeam
  PROVE  HomesInv'
<1>1. PICK a \in Account, o \in orgs \cap Team :
        /\ May(a, o, {"owner"})
        /\ \A d \in DOMAIN filed : filed[d].space \notin SpacesIn(o)
        /\ orgs' = orgs \ {o}
        /\ rank' = Without(rank, {o} \X Account)
        /\ spaces' = Without(spaces, SpacesIn(o))
        /\ filed' = [d \in DOMAIN filed |->
                       IF filed[d].org = o THEN [filed[d] EXCEPT !.org = Nil] ELSE filed[d]]
  BY DEF DeleteTeam
<1>2. logins' = logins /\ job' = job /\ stranded' = stranded /\ crossed' = crossed
  BY DEF DeleteTeam, Atomic
<1>3. PICK O2, R2, S2, F2 : O2 = orgs' /\ R2 = rank' /\ S2 = spaces' /\ F2 = filed'
  OBVIOUS
<1>4. o \notin Account /\ o # Nil
  BY HomesAssumption
<1>5. DOMAIN R2 = DOMAIN rank \ ({o} \X Account) /\ \A m \in DOMAIN R2 : R2[m] = rank[m]
  BY <1>1, <1>3 DEF Without
<1>6. /\ \A t : t \in DOMAIN S2 <=> t \in DOMAIN spaces /\ spaces[t].org # o
      /\ \A t \in DOMAIN S2 : S2[t] = spaces[t]
  BY <1>1, <1>3 DEF Without, SpacesIn
<1>7. \A x \in Account : <<x, x>> \in DOMAIN rank => <<x, x>> \in DOMAIN R2
  BY <1>4, <1>5
(* without the memberships *)
<1>8. HomeTables(logins, orgs, R2, spaces, filed) /\ Owned(R2, spaces) /\ AllFit(job, logins, orgs, R2)
      /\ Homed(logins, stranded, job, R2, spaces) /\ Single(crossed, job, R2, spaces)
  BY <1>5, <1>7, HomesParts, RankShrinks
(* without the workspaces, the organization and the mention of it *)
<1>9. Homed(logins, stranded, job, R2, S2) /\ Single(crossed, job, R2, S2)
  <2>1. \A x \in Org : Def(S2, x) \subseteq Def(spaces, x)
    BY <1>6 DEF Def
  <2>2. \A x \in Account : Def(S2, x) = Def(spaces, x)
    BY <1>4, <1>6 DEF Def
  <2> QED
    BY <1>8, <2>1, <2>2, SpacesStay
<1>10. Owned(R2, S2)
  BY <1>6, <1>8 DEF Owned
<1>11. AllFit(job, logins, O2, R2)
  <2>1. <<o, a>> \in DOMAIN rank
    BY <1>1 DEF May
  <2>2. ASSUME NEW r \in Request PROVE Fits(job[r], logins, O2, R2)
    <3>1. Fits(job[r], logins, orgs, R2) /\ Fits(job[r], logins, orgs, rank)
      BY <1>8, HomesParts DEF AllFit
    <3>2. job[r].pc = "member" => job[r].user \in O2
      BY <1>1, <1>3, <1>4, <3>1 DEF Fits, Prov
    <3>3. job[r].pc = "team" => job[r].org \in O2 \cap Team
      BY <1>1, <1>3, <2>1, <3>1 DEF Fits
    <3> QED
      BY <3>1, <3>2, <3>3 DEF Fits
  <2> QED
    BY <1>8, <2>2 DEF AllFit
<1>12. HomeTables(logins, O2, R2, S2, F2)
  <2>1. \A d \in DOMAIN filed : /\ filed[d].org \in {Nil} \cup orgs /\ filed[d].space \in DOMAIN spaces
                                /\ filed[d] = [org |-> filed[d].org, space |-> filed[d].space]
    BY HomesParts DEF HomeTables
  <2>2. DOMAIN F2 = DOMAIN filed
    BY <1>1, <1>3
  <2>3. ASSUME NEW d \in DOMAIN F2
        PROVE  /\ F2[d].org \in {Nil} \cup O2 /\ F2[d].space \in DOMAIN S2
               /\ F2[d] = [org |-> F2[d].org, space |-> F2[d].space]
    <3>1. F2[d] = IF filed[d].org = o THEN [filed[d] EXCEPT !.org = Nil] ELSE filed[d]
      BY <1>1, <1>3, <2>2
    <3>2. filed[d] = [org |-> filed[d].org, space |-> filed[d].space]
      BY <2>1, <2>2
    <3>3. filed[d].space \in DOMAIN S2
      BY <1>1, <1>6, <2>1, <2>2 DEF SpacesIn
    <3>4. CASE filed[d].org = o
      <4>1. F2[d] = [org |-> Nil, space |-> filed[d].space]
        BY <3>1, <3>2, <3>4
      <4> QED
        BY <3>3, <4>1
    <3>5. CASE filed[d].org # o
      <4>1. F2[d] = filed[d]
        BY <3>1, <3>5
      <4> QED
        BY <1>1, <1>3, <2>1, <2>2, <3>3, <3>5, <4>1
    <3> QED
      BY <3>4, <3>5
  <2>4. DOMAIN R2 \subseteq O2 \X Account
    <3>1. DOMAIN rank \subseteq orgs \X Account
      BY HomesParts DEF HomeTables
    <3> QED
      BY <1>1, <1>3, <1>5, <3>1
  <2>5. \A s \in DOMAIN S2 : S2[s] \in SpaceRow /\ S2[s].org \in O2
    BY <1>1, <1>3, <1>6, HomesParts DEF HomeTables
  <2>6. /\ logins \in [Account -> SUBSET {"password", "sso"}] /\ O2 \subseteq Org
        /\ \A m \in DOMAIN R2 : R2[m] \in {"owner", "member"} /\ logins[m[2]] # {}
        /\ DOMAIN F2 \subseteq Doc
    BY <1>1, <1>3, <1>8, <2>2 DEF HomeTables
  <2>7. /\ DOMAIN S2 \subseteq Space
        /\ \A s, t \in DOMAIN S2 : s # t => <<S2[s].org, S2[s].slug>> # <<S2[t].org, S2[t].slug>>
    BY <1>6, HomesParts DEF HomeTables
  <2> QED
    BY <2>3, <2>4, <2>5, <2>6, <2>7 DEF HomeTables
<1> QED
  BY <1>2, <1>3, <1>9, <1>10, <1>11, <1>12, HomesParts DEF HomesInv

(* Plans and goals are filed where the tables have a place for them. *)
LEMMA FiledInv ==
  ASSUME HomesInv, NEW F2, NEW jb, filed' = F2, job' = jb,
         DOMAIN F2 \subseteq Doc,
         \A d \in DOMAIN F2 : F2[d].org \in {Nil} \cup orgs /\ F2[d].space \in DOMAIN spaces
                              /\ F2[d] = [org |-> F2[d].org, space |-> F2[d].space],
         jb = job \/ \E r \in Request : ~Prov(job[r]) /\ jb = [job EXCEPT ![r] = NoJob],
         logins' = logins, orgs' = orgs, rank' = rank, spaces' = spaces,
         stranded' = stranded, crossed' = crossed
  PROVE  HomesInv'
<1>1. AllFit(jb, logins, orgs, rank) /\ Homed(logins, stranded, jb, rank, spaces) /\ Single(crossed, jb, rank, spaces)
  <2>1. CASE jb = job
    BY <2>1, HomesParts
  <2>2. CASE \E r \in Request : ~Prov(job[r]) /\ jb = [job EXCEPT ![r] = NoJob]
    <3>1. PICK r \in Request : ~Prov(job[r]) /\ jb = [job EXCEPT ![r] = NoJob]
      BY <2>2
    <3>2. \A a \in Account : a \in stranded \/ (Prov(job[r]) /\ job[r].user = a) =>
            a \in stranded \/ HasHome(a, rank, spaces)
      BY <3>1
    <3> QED
      BY <3>1, <3>2, HomesParts, JobEnds
  <2> QED
    BY <2>1, <2>2
<1>2. HomeTables(logins, orgs, rank, spaces, F2)
  BY HomesParts DEF HomeTables
<1> QED
  BY <1>1, <1>2, HomesParts DEF HomesInv

LEMMA DocInv ==
  ASSUME HomesInv, (\E r \in Request : InsertDoc(r)) \/ MoveDoc \/ DeleteDoc
  PROVE  HomesInv'
<1>1. logins' = logins /\ orgs' = orgs /\ rank' = rank /\ spaces' = spaces
      /\ stranded' = stranded /\ crossed' = crossed
  BY DEF InsertDoc, MoveDoc, DeleteDoc
<1>2. PICK F2, jb : F2 = filed' /\ jb = job'
  OBVIOUS
<1>3. /\ DOMAIN filed \subseteq Doc
      /\ \A d \in DOMAIN filed : /\ filed[d].org \in {Nil} \cup orgs /\ filed[d].space \in DOMAIN spaces
                                 /\ filed[d] = [org |-> filed[d].org, space |-> filed[d].space]
  BY HomesParts DEF HomeTables
<1>4. ASSUME NEW r \in Request, InsertDoc(r)
      PROVE  HomesInv'
  <2>1. job[r].pc = "file" /\ jb = [job EXCEPT ![r] = NoJob]
    BY <1>2, <1>4 DEF InsertDoc, JobDone
  <2>2. ~Prov(job[r])
    BY <2>1 DEF Prov
  <2>3. CASE filed' = filed
    BY <1>1, <1>2, <1>3, <2>1, <2>2, <2>3, FiledInv
  <2>4. CASE filed' # filed
    <3>1. PICK d \in Doc \ DOMAIN filed :
            /\ job[r].space \in DOMAIN spaces /\ job[r].org \in {Nil} \cup orgs
            /\ F2 = Updated(filed, [n \in {d} |-> [org |-> job[r].org, space |-> job[r].space]])
      BY <1>2, <1>4, <2>4 DEF InsertDoc
    <3>2. /\ DOMAIN F2 = DOMAIN filed \cup {d} /\ F2[d] = [org |-> job[r].org, space |-> job[r].space]
          /\ \A e \in DOMAIN filed : F2[e] = filed[e]
      BY <3>1 DEF Updated
    <3>3. \A e \in DOMAIN F2 : /\ F2[e].org \in {Nil} \cup orgs /\ F2[e].space \in DOMAIN spaces
                               /\ F2[e] = [org |-> F2[e].org, space |-> F2[e].space]
      <4> TAKE e \in DOMAIN F2
      <4>1. CASE e = d
        BY <3>1, <3>2, <4>1
      <4>2. CASE e # d
        BY <1>3, <3>2, <4>2
      <4> QED
        BY <4>1, <4>2
    <3>4. DOMAIN F2 \subseteq Doc
      BY <1>3, <3>2
    <3> QED
      BY <1>1, <1>2, <2>1, <2>2, <3>3, <3>4, FiledInv
  <2> QED
    BY <2>3, <2>4
<1>5. CASE MoveDoc
  <2>1. PICK d \in DOMAIN filed, s \in DOMAIN spaces : F2 = [filed EXCEPT ![d].space = s]
    BY <1>2, <1>5 DEF MoveDoc
  <2>2. /\ DOMAIN F2 = DOMAIN filed /\ F2[d] = [filed[d] EXCEPT !.space = s]
        /\ \A e \in DOMAIN filed \ {d} : F2[e] = filed[e]
    BY <2>1
  <2>3. F2[d] = [org |-> filed[d].org, space |-> s]
    BY <1>3, <2>2
  <2>4. \A e \in DOMAIN F2 : /\ F2[e].org \in {Nil} \cup orgs /\ F2[e].space \in DOMAIN spaces
                             /\ F2[e] = [org |-> F2[e].org, space |-> F2[e].space]
    BY <1>3, <2>2, <2>3
  <2>5. jb = job
    BY <1>2, <1>5 DEF MoveDoc, Atomic
  <2> QED
    BY <1>1, <1>2, <1>3, <2>2, <2>4, <2>5, FiledInv
<1>6. CASE DeleteDoc
  <2>1. PICK d \in DOMAIN filed : F2 = Without(filed, {d})
    BY <1>2, <1>6 DEF DeleteDoc
  <2>2. DOMAIN F2 = DOMAIN filed \ {d} /\ \A e \in DOMAIN F2 : F2[e] = filed[e]
    BY <2>1 DEF Without
  <2>3. jb = job
    BY <1>2, <1>6 DEF DeleteDoc, Atomic
  <2> QED
    BY <1>1, <1>2, <1>3, <2>2, <2>3, FiledInv
<1> QED
  BY <1>4, <1>5, <1>6

-----------------------------------------------------------------------------
LEMMA HomesStepInv == HomesInv /\ [HomesNext]_homeVars => HomesInv'
<1> SUFFICES ASSUME HomesInv, [HomesNext]_homeVars PROVE HomesInv'
  OBVIOUS
<1>1. ASSUME NEW r \in Request, HomeStep(r)
      PROVE  HomesInv'
  <2>1. CASE SignUp(r) \/ SignInWithProvider(r) \/ Backfill(r) \/ AskRename(r) \/ Resolve(r)
               \/ ResolveFork(r) \/ ResolveIntention(r)
    BY <2>1, StartsInv
  <2>2. CASE InsertAccount(r) \/ LinkProvider(r) \/ InsertProviderAccount(r)
    BY <2>2, InsertAccountInv, ProviderInv
  <2>3. CASE ListOrgs(r) \/ FindPersonalOrg(r) \/ CreatePersonalOrg(r) \/ AddOwner(r) \/ FindDefaultSlug(r)
    BY <2>3, ListOrgsInv, FindPersonalOrgInv, CreatePersonalOrgInv, AddOwnerInv, FindDefaultSlugInv
  <2>4. CASE CreateWorkspace(r) \/ ChooseSlug(r) \/ InsertWorkspace(r) \/ RenameWorkspace(r)
    BY <2>4, CreateWorkspaceInv, ChooseSlugInv, InsertWorkspaceInv, RenameWorkspaceInv
  <2>5. CASE CreateTeam(r) \/ AddTeamOwner(r) \/ AbandonJob(r)
    BY <2>5, CreateTeamInv, AddTeamOwnerInv, AbandonInv
  <2>6. CASE InsertDoc(r)
    BY <2>6, DocInv
  <2> QED
    BY <1>1, <2>1, <2>2, <2>3, <2>4, <2>5, <2>6 DEF HomeStep
<1>2. CASE ArchiveWorkspace \/ DeleteWorkspace
  BY <1>2, ArchiveWorkspaceInv, DeleteWorkspaceInv
<1>3. CASE AddMember \/ RemoveMember \/ DeleteTeam
  BY <1>3, AddMemberInv, RemoveMemberInv, DeleteTeamInv
<1>4. CASE MoveDoc \/ DeleteDoc
  BY <1>4, DocInv
<1>5. CASE UNCHANGED homeVars
  BY <1>5 DEF homeVars, HomesInv
<1> QED
  BY <1>1, <1>2, <1>3, <1>4, <1>5 DEF HomesNext

LEMMA HomesInvSound == HomesInv => HomesTypeOK /\ HomesSound
<1> SUFFICES ASSUME HomesInv PROVE HomesTypeOK /\ HomesSound
  OBVIOUS
<1>1. HomesTypeOK
  <2>1. \A r \in Request : job[r].pc \in {"idle"} \cup Waits
    BY HomesFacts DEF JobRow
  <2>2. \A s \in DOMAIN spaces : spaces[s].org \in orgs /\ spaces[s].slug \in Slug
    BY HomesParts DEF HomeTables, SpaceRow
  <2> QED
    BY <2>1, <2>2, HomesParts DEF HomesTypeOK, HomeTables
<1>2. HomeForAll
  <2> SUFFICES ASSUME NEW a \in Account, logins[a] # {}, a \notin stranded,
                      ~\E r \in Request : Provisions(r) /\ job[r].user = a
               PROVE  \E s \in Fallback(a) : ~spaces[s].archived
    BY DEF HomeForAll
  <2>1. HasHome(a, rank, spaces)
    BY HomesParts, HomesNow DEF Homed, ProvidedFor
  <2>2. a \in OrgsOf(a) /\ Defaults(a) # {} /\ Defaults(a) = Def(spaces, a)
    BY <2>1, HomesFacts, HomesNow DEF HasHome
  <2>3. Fallback(a) = Defaults(a)
    BY <2>2 DEF Fallback
  <2>4. \A s \in Def(spaces, a) : ~spaces[s].archived
    BY HomesParts DEF Owned, Def
  <2> QED
    BY <2>2, <2>3, <2>4
<1>3. OneDefault
  <2> SUFFICES ASSUME NEW o \in orgs \ crossed PROVE Cardinality(Defaults(o)) <= 1
    BY DEF OneDefault
  <2>1. \A s, t \in Defaults(o) : s = t
    BY HomesFacts, HomesParts, HomesNow DEF Single
  <2>2. CASE Defaults(o) = {}
    BY <2>2, FS_EmptySet
  <2>3. CASE Defaults(o) # {}
    <3>1. PICK s : Defaults(o) = {s}
      BY <2>1, <2>3
    <3>2. Cardinality({s}) = 1
      BY FS_Singleton
    <3> QED
      BY <3>1, <3>2
  <2> QED
    BY <2>2, <2>3
<1> QED
  BY <1>1, <1>2, <1>3 DEF HomesSound

(* Whoever has an account has a workspace for what they create, and keeps  *)
(* it, and an organization has one default workspace: except for accounts  *)
(* that a provider made or whose provisioning broke off, and organizations *)
(* with two defaults under way at once.                                    *)
THEOREM HomesAreKept == HomesSpec => []HomesTypeOK /\ []HomesSound
<1>1. HomesInit => HomesInv
  BY HomesInitInv
<1>2. HomesInv /\ [HomesNext]_homeVars => HomesInv'
  BY HomesStepInv
<1>3. HomesInv => HomesTypeOK /\ HomesSound
  BY HomesInvSound
<1> QED
  BY <1>1, <1>2, <1>3, PTL DEF HomesSpec

HIDE DEF JobAt

-----------------------------------------------------------------------------
(***************************************************************************)
(* DecisionQueue. Proof that an outcome is final, for any number of        *)
(* decisions, answers and concurrent requests.                             *)
(*                                                                         *)
(* ToldTheOutcome alone is not inductive: between the resolving UPDATE and *)
(* the notification the answer is only in the slot of the request          *)
(* (Telling), and whoever writes must still hold a row that was pending    *)
(* (Checked).                                                              *)
(***************************************************************************)
DecisionRow == [status : DecisionStatus, answer : Answer \cup {Nil},
                context : {0, 1}, expires : BOOLEAN]

Writing == {"update", "resolve", "cancel"}

Resolving == [pc : {"idle", "notify"} \cup Writing, id : Decision \cup {Nil},
              answer : Answer \cup {Nil}, row : DecisionRow \cup {Nil}]

(* The rows, and the ids in use *)
Rows ==
  /\ spent \subseteq Decision
  /\ DOMAIN asked \subseteq spent
  /\ asked \in [DOMAIN asked -> DecisionRow]
  /\ \A d \in DOMAIN asked : asked[d].status = "pending" => asked[d].answer = Nil

Slot ==
  /\ resolving \in [Request -> Resolving]
  /\ told \in [Decision -> Answer \cup {Nil}]

(* A request that is going to write has seen a pending row. *)
Checked ==
  \A r \in Request : resolving[r].pc \in Writing =>
    resolving[r].id \in spent /\ resolving[r].row.status = "pending"

(* What a request is about to tell is on record. *)
Telling ==
  \A r \in Request : resolving[r].pc = "notify" =>
    /\ resolving[r].id \in spent
    /\ resolving[r].id \in DOMAIN asked \ contested =>
         /\ asked[resolving[r].id].status = "decided"
         /\ asked[resolving[r].id].answer = resolving[r].answer

(* Nobody is told the outcome of a decision that was never asked. *)
ToldAsked == \A d \in Decision : told[d] # Nil => d \in spent

DecisionInv == Rows /\ Slot /\ Checked /\ Telling /\ ToldAsked /\ ToldTheOutcome

-----------------------------------------------------------------------------
(* At the beginning nothing is asked. *)
LEMMA DecisionInitInv == DecisionInit => DecisionInv
  BY DEF DecisionInit, DecisionInv, Rows, Slot, Checked, Telling, ToldAsked, ToldTheOutcome,
         Resolving, NoResolving, Writing, DecisionRow

(* A new request has a new id, about which nobody was told anything. *)
LEMMA CreateInv ==
  ASSUME DecisionInv, NEW r \in Request, CreateDecisionRequest(r)
  PROVE  DecisionInv'
<1>1. PICK d \in Decision \ spent, deadline \in BOOLEAN :
        /\ asked' = Updated(asked, [x \in {d} |-> [status |-> "pending", answer |-> Nil,
                                      context |-> 0, expires |-> deadline]])
        /\ spent' = spent \cup {d}
  BY DEF CreateDecisionRequest
<1> DEFINE new == [status |-> "pending", answer |-> Nil, context |-> 0, expires |-> deadline]
<1>2. /\ asked' = [x \in DOMAIN asked \cup {d} |-> IF x = d THEN new ELSE asked[x]]
      /\ DOMAIN asked' = DOMAIN asked \cup {d}
      /\ asked'[d] = new
      /\ \A e \in DOMAIN asked : asked'[e] = asked[e]
  BY <1>1 DEF Updated, DecisionInv, Rows
<1>3. UNCHANGED <<resolving, told, due, contested>>
  BY DEF CreateDecisionRequest
<1>4. new \in DecisionRow
  BY DEF DecisionRow, DecisionStatus
<1>5. Rows'
  BY <1>1, <1>2, <1>4 DEF DecisionInv, Rows
<1>6. Slot' /\ Checked' /\ ToldAsked'
  BY <1>1, <1>3 DEF DecisionInv, Slot, Checked, ToldAsked
<1>7. Telling'
  BY <1>1, <1>2, <1>3 DEF DecisionInv, Telling, Slot
<1>8. ToldTheOutcome'
  BY <1>1, <1>2, <1>3 DEF DecisionInv, ToldTheOutcome, ToldAsked, Rows
<1> QED
  BY <1>5, <1>6, <1>7, <1>8 DEF DecisionInv

(* A request begins with a row that is pending. *)
LEMMA CheckInv ==
  ASSUME DecisionInv, NEW r \in Request, CheckPending(r)
  PROVE  DecisionInv'
<1>1. PICK d \in DOMAIN asked, verb \in Writing, a \in Answer :
        /\ asked[d].status = "pending"
        /\ resolving' = [resolving EXCEPT ![r] =
             [pc |-> verb, id |-> d, answer |-> a, row |-> asked[d]]]
  BY DEF CheckPending, Writing
<1>2. UNCHANGED <<asked, spent, told, contested>>
  BY DEF CheckPending
<1>3. d \in Decision /\ d \in spent /\ asked[d] \in DecisionRow
  BY <1>1 DEF DecisionInv, Rows
<1>4. [pc |-> verb, id |-> d, answer |-> a, row |-> asked[d]] \in Resolving
  BY <1>1, <1>3 DEF Resolving
<1>5. Rows' /\ Slot' /\ ToldAsked' /\ ToldTheOutcome'
  BY <1>1, <1>2, <1>4 DEF DecisionInv, Rows, Slot, ToldAsked, ToldTheOutcome
<1>6. Checked'
  BY <1>1, <1>2, <1>3 DEF DecisionInv, Checked, Slot, Writing
<1>7. Telling'
  BY <1>1, <1>2 DEF DecisionInv, Telling, Slot, Writing
<1> QED
  BY <1>5, <1>6, <1>7 DEF DecisionInv

(* The heart of the proof: an UPDATE finds the row as it was checked, and  *)
(* then nobody was told and nobody is telling; or the decision is          *)
(* contested.                                                              *)
LEMMA ChangesInv ==
  ASSUME DecisionInv, NEW r \in Request, resolving[r].pc \in Writing,
         NEW row \in DecisionRow, Changes(r, row),
         row.status = "pending" => row.answer = Nil,
         UNCHANGED <<spent, told>>,
         NEW next \in Resolving, resolving' = [resolving EXCEPT ![r] = next],
         next.pc \in {"idle", "notify"},
         next.pc = "notify" => /\ next.id = resolving[r].id
                               /\ row.status = "decided" /\ row.answer = next.answer
  PROVE  DecisionInv'
<1> DEFINE d == resolving[r].id
<1>1. CASE d \notin DOMAIN asked
  <2>1. UNCHANGED <<asked, contested>>
    BY <1>1 DEF Changes
  <2> QED
    BY <1>1, <2>1 DEF DecisionInv, Rows, Slot, Checked, Telling, ToldAsked, ToldTheOutcome,
                      Writing
<1>2. CASE d \in DOMAIN asked
  <2>1. /\ asked' = [asked EXCEPT ![d] = row]
        /\ DOMAIN asked' = DOMAIN asked
        /\ asked'[d] = row
        /\ \A e \in DOMAIN asked \ {d} : asked'[e] = asked[e]
    BY <1>2 DEF Changes, DecisionInv, Rows
  <2>2. contested \subseteq contested' /\ (d \notin contested' => asked[d].status = "pending")
    BY <1>2 DEF Changes, DecisionInv, Checked
  <2>3. Rows'
    BY <1>2, <2>1 DEF DecisionInv, Rows
  <2>4. Slot' /\ ToldAsked'
    BY DEF DecisionInv, Slot, ToldAsked
  <2>5. Checked'
    BY DEF DecisionInv, Checked, Slot, Writing
  <2>6. Telling'
    <3> SUFFICES ASSUME NEW q \in Request, resolving'[q].pc = "notify"
                 PROVE  /\ resolving'[q].id \in spent'
                        /\ resolving'[q].id \in DOMAIN asked' \ contested' =>
                             /\ asked'[resolving'[q].id].status = "decided"
                             /\ asked'[resolving'[q].id].answer = resolving'[q].answer
      BY DEF Telling
    <3>1. CASE q = r
      BY <3>1, <2>1 DEF DecisionInv, Slot, Checked
    <3>2. CASE q # r
      <4>1. resolving'[q] = resolving[q]
        BY <3>2 DEF DecisionInv, Slot
      <4>2. resolving[q].id = d => d \in contested'
        BY <4>1, <1>2, <2>2 DEF DecisionInv, Telling
      <4> QED
        BY <4>1, <4>2, <2>1, <2>2 DEF DecisionInv, Telling
    <3> QED
      BY <3>1, <3>2
  <2>7. ToldTheOutcome'
    <3>1. told[d] # Nil => d \in contested'
      BY <1>2, <2>2 DEF DecisionInv, ToldTheOutcome
    <3> QED
      BY <3>1, <2>1, <2>2 DEF DecisionInv, ToldTheOutcome
  <2> QED
    BY <2>3, <2>4, <2>5, <2>6, <2>7 DEF DecisionInv
<1> QED
  BY <1>1, <1>2

(* Every step of the specification keeps the invariant. *)
LEMMA DecisionStepInv == DecisionInv /\ [DecisionNext]_decisionVars => DecisionInv'
<1> SUFFICES ASSUME DecisionInv, [DecisionNext]_decisionVars PROVE DecisionInv'
  OBVIOUS
<1> USE DEF ResolvingAt, ResolvingDone
<1>idle. NoResolving \in Resolving /\ NoResolving.pc = "idle"
  BY DEF NoResolving, Resolving
<1>1. CASE UNCHANGED decisionVars
  BY <1>1 DEF decisionVars, DecisionInv, Rows, Slot, Checked, Telling, ToldAsked, ToldTheOutcome
<1>2. CASE DeadlinePasses
  BY <1>2 DEF DeadlinePasses, DecisionInv, Rows, Slot, Checked, Telling, ToldAsked,
              ToldTheOutcome
<1>3. ASSUME NEW r \in Request, CreateDecisionRequest(r) PROVE DecisionInv'
  BY <1>3, CreateInv
<1>4. ASSUME NEW r \in Request, CheckPending(r) PROVE DecisionInv'
  BY <1>4, CheckInv
<1>5. ASSUME NEW r \in Request, DeleteDecisionRequest(r) PROVE DecisionInv'
  <2>1. PICK d \in DOMAIN asked : asked' = Without(asked, {d})
    BY <1>5 DEF DeleteDecisionRequest
  <2>2. /\ DOMAIN asked' = DOMAIN asked \ {d}
        /\ asked' = [e \in DOMAIN asked \ {d} |-> asked[e]]
        /\ \A e \in DOMAIN asked' : asked'[e] = asked[e]
    BY <2>1 DEF Without
  <2>3. UNCHANGED <<spent, resolving, told, contested>>
    BY <1>5 DEF DeleteDecisionRequest
  <2> QED
    BY <2>2, <2>3 DEF DecisionInv, Rows, Slot, Checked, Telling, ToldAsked, ToldTheOutcome
<1>6. ASSUME NEW r \in Request, NotifyDecisionResolved(r) PROVE DecisionInv'
  <2>1. /\ resolving[r].pc = "notify"
        /\ told' = [told EXCEPT ![resolving[r].id] = resolving[r].answer]
        /\ resolving' = [resolving EXCEPT ![r] = NoResolving]
        /\ UNCHANGED <<asked, spent, contested>>
    BY <1>6 DEF NotifyDecisionResolved
  <2>2. resolving[r].id \in spent /\ resolving[r].id \in Decision
    BY <2>1 DEF DecisionInv, Telling, Rows
  <2>3. Rows' /\ Slot'
    BY <2>1, <2>2, <1>idle DEF DecisionInv, Rows, Slot, Resolving
  <2>4. Checked' /\ Telling'
    BY <2>1, <1>idle DEF DecisionInv, Checked, Telling, Slot, Writing
  <2>5. ToldAsked' /\ ToldTheOutcome'
    BY <2>1, <2>2 DEF DecisionInv, ToldAsked, ToldTheOutcome, Telling, Slot, Rows
  <2> QED
    BY <2>3, <2>4, <2>5 DEF DecisionInv
<1>7. ASSUME NEW r \in Request,
             \/ UpdateDecisionRequest(r) \/ ResolveDecisionRequest(r)
             \/ CancelDecisionRequest(r)
      PROVE  DecisionInv'
  <2> DEFINE d == resolving[r].id
  <2>1. resolving[r] \in Resolving /\ resolving[r].pc \in Writing /\ UNCHANGED <<spent, told>>
    BY <1>7 DEF UpdateDecisionRequest, ResolveDecisionRequest, CancelDecisionRequest,
                DecisionInv, Slot, Writing
  <2>2. CASE d \notin DOMAIN asked
    <3>1. UNCHANGED <<asked, contested>> /\ resolving' = [resolving EXCEPT ![r] = NoResolving]
      BY <1>7, <2>2 DEF UpdateDecisionRequest, ResolveDecisionRequest, CancelDecisionRequest,
                        Changes
    <3> QED
      BY <1>idle, <2>1, <3>1 DEF DecisionInv, Rows, Slot, Checked, Telling, ToldAsked,
                                 ToldTheOutcome, Writing
  <2>3. CASE d \in DOMAIN asked
    <3>1. asked[d] \in DecisionRow /\ (asked[d].status = "pending" => asked[d].answer = Nil)
      BY <2>3 DEF DecisionInv, Rows
    <3>2. CASE UpdateDecisionRequest(r)
      <4>1. [asked[d] EXCEPT !.context = 1] \in DecisionRow
        BY <3>1 DEF DecisionRow
      <4>2. /\ [asked[d] EXCEPT !.context = 1].status = asked[d].status
            /\ [asked[d] EXCEPT !.context = 1].answer = asked[d].answer
        BY <3>1 DEF DecisionRow
      <4> QED
        BY <1>idle, <2>1, <3>1, <3>2, <4>1, <4>2, ChangesInv DEF UpdateDecisionRequest
    <3>3. CASE CancelDecisionRequest(r)
      <4>1. /\ [asked[d] EXCEPT !.status = "cancelled"] \in DecisionRow
            /\ [asked[d] EXCEPT !.status = "cancelled"].status = "cancelled"
        BY <3>1 DEF DecisionRow, DecisionStatus
      <4> QED
        BY <1>idle, <2>1, <3>3, <4>1, ChangesInv DEF CancelDecisionRequest
    <3>4. CASE ResolveDecisionRequest(r)
      <4> DEFINE row  == [asked[d] EXCEPT !.status = "decided", !.answer = resolving[r].answer]
                 next == [resolving[r] EXCEPT !.pc = "notify"]
      <4>1. /\ row \in DecisionRow
            /\ row.status = "decided" /\ row.answer = resolving[r].answer
        BY <2>1, <3>1 DEF DecisionRow, DecisionStatus, Resolving
      <4>2. /\ next \in Resolving /\ next.pc = "notify"
            /\ next.id = d /\ next.answer = resolving[r].answer
        BY <2>1 DEF Resolving
      <4>3. Changes(r, row) /\ resolving' = [resolving EXCEPT ![r] = next]
        BY <2>3, <3>4 DEF ResolveDecisionRequest
      <4> HIDE DEF row, next
      <4> QED
        BY <2>1, <4>1, <4>2, <4>3, ChangesInv
    <3> QED
      BY <1>7, <3>2, <3>3, <3>4
  <2> QED
    BY <2>2, <2>3
<1> QED
  BY <1>1, <1>2, <1>3, <1>4, <1>5, <1>6, <1>7 DEF DecisionNext

(* The invariant behind both theorems below *)
LEMMA DecisionInvariant == DecisionSpec => []DecisionInv
  BY DecisionInitInv, DecisionStepInv, PTL DEF DecisionSpec

-----------------------------------------------------------------------------
(* Rows and requests are well typed, whatever requests overlap: in         *)
(* particular a pending decision never has an answer.                      *)
THEOREM DecisionTypeCorrect == DecisionSpec => []DecisionTypeOK
<1>1. DecisionInv => DecisionTypeOK
  BY DEF DecisionInv, Rows, Slot, DecisionTypeOK, DecisionRow, Resolving, Writing
<1> QED
  BY <1>1, DecisionInvariant, PTL

(* What the one who asked was told is and stays on record, unless two      *)
(* requests changed the decision at once.                                  *)
THEOREM OutcomeFinal == DecisionSpec => []ToldTheOutcome
<1>1. DecisionInv => ToldTheOutcome
  BY DEF DecisionInv
<1> QED
  BY <1>1, DecisionInvariant, PTL

-----------------------------------------------------------------------------
(***************************************************************************)
(* OAuthStore. Proofs that a code or a refresh token is spent by using it, *)
(* and that a disconnected client stays disconnected, for any number of    *)
(* grants, connections and concurrent requests.                            *)
(*                                                                         *)
(* Both need to know what a request in the middle of an exchange may still *)
(* rely on: the grant it uses is dead before it issues (Spent), and        *)
(* whoever else holds that grant has made it a grabbed one (Alone, Used).  *)
(***************************************************************************)
(* Ids are given out in order; a code comes from nothing, and a request    *)
(* uses a grant of the kind its statements are for.                        *)
Issued ==
  /\ OAuthTypeOK
  /\ \A g \in GrantId : g > granted <=> grant[g].kind = "none"
  /\ \A g \in GrantId : grant[g].kind = "code" => grant[g].from = 0
  /\ \A g \in GrantId : grant[g].kind = "token" => grant[g].from \in 1 .. granted
  /\ \A r \in Request : exchange[r].pc # "idle" => exchange[r].from \in 1 .. granted
  /\ \A r \in Request : exchange[r].pc = "consume" => grant[exchange[r].from].kind = "code"

(* Two requests with the same grant have grabbed it. *)
Alone ==
  \A q, r \in Request : \A g \in GrantId :
    q # r /\ Holds(q, g) /\ Holds(r, g) => g \in grabbed

(* What is about to yield a token set is dead. *)
Spent == \A r \in Request : exchange[r].pc = "issue" => ~grant[exchange[r].from].live

(* What has yielded one is dead, and whoever still holds it has grabbed    *)
(* it.                                                                     *)
Used ==
  \A t, g \in GrantId :
    grant[t].kind = "token" /\ grant[t].from = g =>
      ~grant[g].live /\ \A r \in Request : Holds(r, g) => g \in grabbed

(* Of a severed connection only expired codes are left, which yield        *)
(* nothing.                                                                *)
CutOff ==
  \A g \in GrantId : grant[g].conn \in severed =>
    /\ grant[g].kind = "token" => ~grant[g].live
    /\ grant[g].kind = "code" /\ grant[g].live => grant[g].late
    /\ \A r \in Request : Holds(r, g) => exchange[r].pc = "consume" /\ grant[g].late

OAuthInv == Issued /\ Alone /\ Spent /\ Used /\ CutOff /\ SpentOnce

USE OAuthAssumption DEF GrantId, ExchangeAt, Holds

-----------------------------------------------------------------------------
(* Revoking, deleting or outdating a row changes one field. *)
LEMMA KilledRow ==
  ASSUME NEW row \in GrantRow
  PROVE  /\ [row EXCEPT !.live = FALSE] \in GrantRow
         /\ [row EXCEPT !.live = FALSE].kind = row.kind
         /\ [row EXCEPT !.live = FALSE].conn = row.conn
         /\ [row EXCEPT !.live = FALSE].from = row.from
         /\ [row EXCEPT !.live = FALSE].late = row.late
         /\ [row EXCEPT !.live = FALSE].live = FALSE
         /\ [row EXCEPT !.late = TRUE] \in GrantRow
         /\ [row EXCEPT !.late = TRUE].kind = row.kind
         /\ [row EXCEPT !.late = TRUE].conn = row.conn
         /\ [row EXCEPT !.late = TRUE].from = row.from
         /\ [row EXCEPT !.late = TRUE].live = row.live
         /\ [row EXCEPT !.late = TRUE].late = TRUE
  BY DEF GrantRow

(* At the beginning there is nothing to use. *)
LEMMA OAuthInitInv == OAuthInit => OAuthInv
  BY DEF OAuthInit, OAuthInv, Issued, Alone, Spent, Used, CutOff, SpentOnce, OAuthTypeOK,
         NoExchange, NoGrant, GrantRow, ExchangePc

(* A new code is a row of its own and opens the connection again. *)
LEMMA CreateCodeInv ==
  ASSUME OAuthInv, CreateCode
  PROVE  OAuthInv'
<1>1. PICK c \in Connection :
        /\ grant' = [grant EXCEPT ![granted + 1] = NewGrant("code", c, 0)]
        /\ severed' = severed \ {c}
  BY DEF CreateCode
<1>2. granted' = granted + 1 /\ granted + 1 \in GrantId /\ UNCHANGED <<exchange, grabbed>>
  BY DEF CreateCode, OAuthInv, Issued, OAuthTypeOK
<1> DEFINE new == NewGrant("code", c, 0)
<1>3. /\ new \in GrantRow
      /\ new.kind = "code" /\ new.conn = c /\ new.from = 0 /\ new.live /\ ~new.late
  BY DEF NewGrant, GrantRow
<1> HIDE DEF new
<1>4. /\ grant' \in [GrantId -> GrantRow] /\ grant'[granted + 1] = new
      /\ \A g \in GrantId \ {granted + 1} : grant'[g] = grant[g]
  BY <1>1, <1>2, <1>3 DEF new, OAuthInv, Issued, OAuthTypeOK
<1>5. grant[granted + 1].kind = "none"
  BY <1>2 DEF OAuthInv, Issued, OAuthTypeOK
<1>6. Issued'
  BY <1>1, <1>2, <1>3, <1>4 DEF OAuthInv, Issued, OAuthTypeOK
<1>7. \A r \in Request : exchange[r].pc # "idle" => exchange[r].from # granted + 1
  BY <1>2 DEF OAuthInv, Issued, OAuthTypeOK
<1>8. Alone' /\ Spent'
  BY <1>2, <1>4, <1>7 DEF OAuthInv, Issued, OAuthTypeOK, Alone, Spent
<1>9. \A t \in GrantId : grant'[t].kind = "token" =>
        t # granted + 1 /\ grant[t].kind = "token" /\ grant'[t].from = grant[t].from
        /\ grant[t].from # granted + 1
  BY <1>2, <1>3, <1>4 DEF OAuthInv, Issued, OAuthTypeOK
<1>10. Used' /\ SpentOnce'
  BY <1>2, <1>4, <1>9 DEF OAuthInv, Used, SpentOnce
<1>11. CutOff'
  BY <1>1, <1>2, <1>3, <1>4, <1>7 DEF OAuthInv, CutOff
<1> QED
  BY <1>6, <1>8, <1>10, <1>11 DEF OAuthInv

(* A request that begins to use a live grant: of a severed connection      *)
(* there are only expired codes to begin with.                             *)
LEMMA StartsUsingInv ==
  ASSUME OAuthInv, NEW r \in Request, exchange[r].pc = "idle",
         NEW g \in GrantId, grant[g].live, grant[g].kind # "none",
         NEW p \in {"consume", "rotate"}, StartsUsing(r, g, p),
         p = "consume" => grant[g].kind = "code",
         p = "rotate" => grant[g].kind = "token",
         UNCHANGED <<grant, granted, severed>>
  PROVE  OAuthInv'
<1>1. /\ exchange' = [exchange EXCEPT ![r] = [pc |-> p, from |-> g]]
      /\ grabbed \subseteq grabbed' /\ grabbed' \subseteq GrantId
      /\ (\E q \in Request : Holds(q, g)) => g \in grabbed'
  BY DEF StartsUsing, OAuthInv, Issued, OAuthTypeOK
<1>2. /\ exchange'[r].pc = p /\ exchange'[r].from = g
      /\ \A q \in Request \ {r} : exchange'[q] = exchange[q]
  BY <1>1 DEF OAuthInv, Issued, OAuthTypeOK
<1>3. g \in 1 .. granted
  BY DEF OAuthInv, Issued, OAuthTypeOK
<1>4. OAuthTypeOK'
  <2>1. exchange' \in [Request -> [pc : ExchangePc, from : 0 .. MaxGrants]]
    BY <1>1 DEF OAuthInv, Issued, OAuthTypeOK, ExchangePc
  <2> QED
    BY <1>1, <2>1 DEF OAuthInv, Issued, OAuthTypeOK
<1>5. Issued'
  BY <1>2, <1>3, <1>4 DEF OAuthInv, Issued
<1>6. Alone'
  BY <1>1, <1>2 DEF OAuthInv, Alone
<1>7. Spent'
  BY <1>2 DEF OAuthInv, Spent
<1>8. Used'
  <2> SUFFICES ASSUME NEW t \in GrantId, NEW h \in GrantId,
                      grant[t].kind = "token", grant[t].from = h
               PROVE  ~grant[h].live /\ \A q \in Request : Holds(q, h)' => h \in grabbed'
    BY DEF Used
  <2>1. ~grant[h].live /\ \A q \in Request : Holds(q, h) => h \in grabbed
    BY DEF OAuthInv, Used
  <2>2. h # g
    BY <2>1
  <2> QED
    BY <1>1, <1>2, <2>1, <2>2
<1>9. CutOff'
  BY <1>2 DEF OAuthInv, CutOff
<1>10. SpentOnce'
  BY <1>1 DEF OAuthInv, SpentOnce
<1> QED
  BY <1>5, <1>6, <1>7, <1>8, <1>9, <1>10 DEF OAuthInv

(* Grants only die: whatever kills or outdates some rows and moves no      *)
(* request but from one that is spent to issuing, or to its end, keeps the *)
(* invariant.                                                              *)
LEMMA DyingInv ==
  ASSUME OAuthInv,
         grant' \in [GrantId -> GrantRow],
         \A g \in GrantId : /\ grant'[g].kind = grant[g].kind /\ grant'[g].conn = grant[g].conn
                            /\ grant'[g].from = grant[g].from
                            /\ grant'[g].live => grant[g].live
                            /\ grant[g].late => grant'[g].late,
         exchange' \in [Request -> [pc : ExchangePc, from : 0 .. MaxGrants]],
         \A r \in Request :
           \/ exchange'[r] = exchange[r]
           \/ exchange'[r].pc = "idle"
           \/ /\ exchange'[r].pc = "issue" /\ exchange'[r].from = exchange[r].from
              /\ exchange[r].pc # "idle" /\ ~grant'[exchange[r].from].live
              /\ grant[exchange[r].from].conn \notin severed,
         UNCHANGED <<granted, grabbed, severed>>
  PROVE  OAuthInv'
<1>1. \A r \in Request : \A g \in GrantId : Holds(r, g)' => Holds(r, g)
  OBVIOUS
<1>2. OAuthTypeOK'
  BY DEF OAuthInv, Issued, OAuthTypeOK
<1>3. \A r \in Request : exchange'[r].pc # "idle" =>
        exchange[r].pc # "idle" /\ exchange'[r].from = exchange[r].from
  OBVIOUS
<1>4. \A r \in Request : exchange'[r].pc = "consume" => exchange[r].pc = "consume"
  OBVIOUS
<1>5. Issued'
  <2>1. \A r \in Request : exchange'[r].pc # "idle" => exchange'[r].from \in 1 .. granted'
    BY <1>3 DEF OAuthInv, Issued
  <2>2. \A r \in Request : exchange'[r].pc = "consume" =>
          grant'[exchange'[r].from].kind = "code"
    BY <1>3, <1>4, <2>1 DEF OAuthInv, Issued, OAuthTypeOK
  <2> QED
    BY <1>2, <2>1, <2>2 DEF OAuthInv, Issued
<1>6. Alone'
  BY <1>1 DEF OAuthInv, Alone
<1>7. Spent'
  BY <1>5 DEF OAuthInv, Issued, OAuthTypeOK, Spent
<1>8. Used' /\ SpentOnce'
  BY <1>1 DEF OAuthInv, Used, SpentOnce
<1>9. CutOff'
  BY DEF OAuthInv, CutOff
<1> QED
  BY <1>5, <1>6, <1>7, <1>8, <1>9 DEF OAuthInv

(* One row dies, or is outdated, and the others stay as they are. *)
LEMMA OneRow ==
  ASSUME grant \in [GrantId -> GrantRow], NEW g \in GrantId,
         \/ grant' = [grant EXCEPT ![g].live = FALSE]
         \/ grant' = [grant EXCEPT ![g].late = TRUE]
  PROVE  /\ grant' \in [GrantId -> GrantRow]
         /\ \A h \in GrantId : /\ grant'[h].kind = grant[h].kind
                               /\ grant'[h].conn = grant[h].conn
                               /\ grant'[h].from = grant[h].from
                               /\ grant'[h].live => grant[h].live
                               /\ grant[h].late => grant'[h].late
<1>1. grant[g] \in GrantRow
  OBVIOUS
<1>2. CASE grant' = [grant EXCEPT ![g].live = FALSE]
  <2> DEFINE row == [grant[g] EXCEPT !.live = FALSE]
  <2>1. grant' = [grant EXCEPT ![g] = row]
    BY <1>2
  <2>2. /\ row \in GrantRow /\ row.kind = grant[g].kind /\ row.conn = grant[g].conn
        /\ row.from = grant[g].from /\ row.late = grant[g].late /\ row.live = FALSE
    BY <1>1, KilledRow
  <2> HIDE DEF row
  <2> QED
    BY <2>1, <2>2
<1>3. CASE grant' = [grant EXCEPT ![g].late = TRUE]
  <2> DEFINE row == [grant[g] EXCEPT !.late = TRUE]
  <2>1. grant' = [grant EXCEPT ![g] = row]
    BY <1>3
  <2>2. /\ row \in GrantRow /\ row.kind = grant[g].kind /\ row.conn = grant[g].conn
        /\ row.from = grant[g].from /\ row.live = grant[g].live /\ row.late = TRUE
    BY <1>1, KilledRow
  <2> HIDE DEF row
  <2> QED
    BY <2>1, <2>2
<1> QED
  BY <1>2, <1>3

(* Two requests can use a code at once; the later DELETE deletes nothing. *)
LEMMA DeleteCodeInv ==
  ASSUME OAuthInv, NEW r \in Request, DeleteCode(r)
  PROVE  OAuthInv'
<1> DEFINE g == exchange[r].from
<1>1. PICK ours \in BOOLEAN :
        exchange' = [exchange EXCEPT
          ![r] = IF ours /\ ~grant[g].late THEN [@ EXCEPT !.pc = "issue"] ELSE NoExchange]
  BY DEF DeleteCode
<1>2. /\ exchange[r].pc = "consume" /\ grant' = [grant EXCEPT ![g].live = FALSE]
      /\ UNCHANGED <<granted, grabbed, severed>>
  BY DEF DeleteCode
<1>3. g \in GrantId /\ exchange[r] \in [pc : ExchangePc, from : 0 .. MaxGrants]
  BY <1>2 DEF OAuthInv, Issued, OAuthTypeOK
<1>4. [exchange[r] EXCEPT !.pc = "issue"] = [pc |-> "issue", from |-> g]
  BY <1>3
<1>5. /\ exchange' \in [Request -> [pc : ExchangePc, from : 0 .. MaxGrants]]
      /\ \A q \in Request \ {r} : exchange'[q] = exchange[q]
      /\ \/ exchange'[r].pc = "idle"
         \/ exchange'[r].pc = "issue" /\ exchange'[r].from = g /\ ~grant[g].late
  BY <1>1, <1>3, <1>4 DEF OAuthInv, Issued, OAuthTypeOK, ExchangePc, NoExchange
<1>6. /\ grant' \in [GrantId -> GrantRow] /\ ~grant'[g].live
      /\ \A h \in GrantId : /\ grant'[h].kind = grant[h].kind /\ grant'[h].conn = grant[h].conn
                            /\ grant'[h].from = grant[h].from
                            /\ grant'[h].live => grant[h].live
                            /\ grant[h].late => grant'[h].late
  <2>1. grant \in [GrantId -> GrantRow]
    BY DEF OAuthInv, Issued, OAuthTypeOK
  <2>2. ~grant'[g].live
    BY <1>2, <1>3, <2>1 DEF GrantRow
  <2> QED
    BY <1>2, <1>3, <2>1, <2>2, OneRow
<1>7. ~grant[g].late => grant[g].conn \notin severed
  BY <1>2, <1>3 DEF OAuthInv, CutOff
<1> QED
  BY <1>2, <1>5, <1>6, <1>7, DyingInv

(* Revoking the token that is used, before a new one is issued *)
LEMMA RevokeOldInv ==
  ASSUME OAuthInv, NEW r \in Request, RevokeOld(r)
  PROVE  OAuthInv'
<1> DEFINE g == exchange[r].from
<1>1. /\ exchange[r].pc = "rotate"
      /\ grant' = [grant EXCEPT ![g].live = FALSE]
      /\ exchange' = [exchange EXCEPT ![r].pc = "issue"]
      /\ UNCHANGED <<granted, grabbed, severed>>
  BY DEF RevokeOld
<1>2. g \in GrantId /\ exchange[r] \in [pc : ExchangePc, from : 0 .. MaxGrants]
  BY <1>1 DEF OAuthInv, Issued, OAuthTypeOK
<1>3. /\ exchange' \in [Request -> [pc : ExchangePc, from : 0 .. MaxGrants]]
      /\ \A q \in Request \ {r} : exchange'[q] = exchange[q]
      /\ exchange'[r].pc = "issue" /\ exchange'[r].from = g
  BY <1>1, <1>2 DEF OAuthInv, Issued, OAuthTypeOK, ExchangePc
<1>4. /\ grant' \in [GrantId -> GrantRow] /\ ~grant'[g].live
      /\ \A h \in GrantId : /\ grant'[h].kind = grant[h].kind /\ grant'[h].conn = grant[h].conn
                            /\ grant'[h].from = grant[h].from
                            /\ grant'[h].live => grant[h].live
                            /\ grant[h].late => grant'[h].late
  <2>1. grant \in [GrantId -> GrantRow]
    BY DEF OAuthInv, Issued, OAuthTypeOK
  <2>2. ~grant'[g].live
    BY <1>1, <1>2, <2>1 DEF GrantRow
  <2> QED
    BY <1>1, <1>2, <2>1, <2>2, OneRow
<1>5. grant[g].conn \notin severed
  BY <1>1, <1>2 DEF OAuthInv, CutOff
<1> QED
  BY <1>1, <1>3, <1>4, <1>5, DyingInv

(* The heart of the proof: the grant that yields a token set is dead by    *)
(* now, so that nobody else can begin to use it; who holds it already has  *)
(* grabbed it.                                                             *)
LEMMA IssueInv ==
  ASSUME OAuthInv, NEW r \in Request, IssueTokenSet(r)
  PROVE  OAuthInv'
<1> DEFINE g == exchange[r].from
           new == NewGrant("token", grant[g].conn, g)
           n == granted + 1
<1>1. /\ exchange[r].pc = "issue" /\ granted' = n /\ n \in GrantId
      /\ grant' = [grant EXCEPT ![n] = new]
      /\ exchange' = [exchange EXCEPT ![r] = NoExchange]
      /\ UNCHANGED <<grabbed, severed>>
  BY DEF IssueTokenSet, OAuthInv, Issued, OAuthTypeOK
<1>2. /\ g \in GrantId /\ g \in 1 .. granted /\ g # n
      /\ ~grant[g].live /\ grant[g].conn \notin severed
  BY <1>1 DEF OAuthInv, Issued, OAuthTypeOK, Spent, CutOff
<1>3. /\ new \in GrantRow
      /\ new.kind = "token" /\ new.conn = grant[g].conn /\ new.from = g
  BY <1>2 DEF NewGrant, GrantRow, OAuthInv, Issued, OAuthTypeOK
<1> HIDE DEF new
<1>4. /\ grant' \in [GrantId -> GrantRow] /\ grant'[n] = new
      /\ \A h \in GrantId \ {n} : grant'[h] = grant[h]
  BY <1>1, <1>3 DEF OAuthInv, Issued, OAuthTypeOK
<1>5. /\ exchange' \in [Request -> [pc : ExchangePc, from : 0 .. MaxGrants]]
      /\ exchange'[r].pc = "idle"
      /\ \A q \in Request \ {r} : exchange'[q] = exchange[q]
  BY <1>1 DEF OAuthInv, Issued, OAuthTypeOK, ExchangePc, NoExchange
<1>6. \A q \in Request : exchange'[q].pc # "idle" =>
        q # r /\ exchange'[q] = exchange[q] /\ exchange[q].from \in 1 .. granted
        /\ exchange[q].from # n
  BY <1>5 DEF OAuthInv, Issued, OAuthTypeOK
<1>7. grant[n].kind = "none"
  BY <1>1 DEF OAuthInv, Issued, OAuthTypeOK
<1>8. OAuthTypeOK'
  BY <1>1, <1>4, <1>5 DEF OAuthInv, Issued, OAuthTypeOK
<1>9. Issued'
  <2>1. \A h \in GrantId : h > granted' <=> grant'[h].kind = "none"
    BY <1>1, <1>3, <1>4 DEF OAuthInv, Issued, OAuthTypeOK
  <2>2. \A h \in GrantId : grant'[h].kind = "code" => grant'[h].from = 0
    BY <1>3, <1>4 DEF OAuthInv, Issued
  <2>3. \A h \in GrantId : grant'[h].kind = "token" => grant'[h].from \in 1 .. granted'
    BY <1>1, <1>2, <1>3, <1>4 DEF OAuthInv, Issued, OAuthTypeOK
  <2>4. \A q \in Request : exchange'[q].pc # "idle" => exchange'[q].from \in 1 .. granted'
    BY <1>1, <1>6 DEF OAuthInv, Issued, OAuthTypeOK
  <2>5. \A q \in Request : exchange'[q].pc = "consume" =>
          grant'[exchange'[q].from].kind = "code"
    BY <1>4, <1>6 DEF OAuthInv, Issued, OAuthTypeOK
  <2> QED
    BY <1>8, <2>1, <2>2, <2>3, <2>4, <2>5 DEF Issued
<1>10. Alone' /\ Spent'
  BY <1>1, <1>4, <1>6 DEF OAuthInv, Issued, OAuthTypeOK, Alone, Spent
<1>11. Used'
  <2> SUFFICES ASSUME NEW t \in GrantId, NEW h \in GrantId,
                      grant'[t].kind = "token", grant'[t].from = h
               PROVE  ~grant'[h].live /\ \A q \in Request : Holds(q, h)' => h \in grabbed'
    BY DEF Used
  <2>1. CASE t = n
    BY <2>1, <1>1, <1>2, <1>3, <1>4, <1>6 DEF OAuthInv, Alone
  <2>2. CASE t # n
    <3>1. grant[t].kind = "token" /\ grant[t].from = h /\ h # n
      BY <2>2, <1>1, <1>4 DEF OAuthInv, Issued, OAuthTypeOK
    <3> QED
      BY <3>1, <1>1, <1>4, <1>6 DEF OAuthInv, Used
  <2> QED
    BY <2>1, <2>2
<1>12. CutOff'
  BY <1>1, <1>2, <1>3, <1>4, <1>6 DEF OAuthInv, CutOff
<1>13. SpentOnce'
  <2>1. \A t \in GrantId : grant[t].kind = "token" /\ grant[t].from = g => g \in grabbed
    BY <1>1, <1>2 DEF OAuthInv, Used
  <2> QED
    BY <1>1, <1>3, <1>4, <2>1 DEF OAuthInv, SpentOnce
<1> QED
  BY <1>9, <1>10, <1>11, <1>12, <1>13 DEF OAuthInv

(* Disconnecting: a connection is severed only when nothing was underway. *)
LEMMA RevokeAppInv ==
  ASSUME OAuthInv, RevokeApp
  PROVE  OAuthInv'
<1>1. PICK c \in Connection :
        /\ grant' = [g \in GrantId |-> IF grant[g].kind = "token" /\ grant[g].conn = c
                                       THEN [grant[g] EXCEPT !.live = FALSE] ELSE grant[g]]
        /\ severed' = IF \/ \E g \in GrantId : grant[g] = NewGrant("code", c, 0)
                         \/ \E r \in Request, g \in GrantId : Holds(r, g) /\ grant[g].conn = c
                      THEN severed ELSE severed \cup {c}
        /\ UNCHANGED <<granted, exchange, grabbed>>
  BY DEF RevokeApp
<1>2. /\ grant' \in [GrantId -> GrantRow]
      /\ \A g \in GrantId : /\ grant'[g].kind = grant[g].kind /\ grant'[g].conn = grant[g].conn
                            /\ grant'[g].from = grant[g].from /\ grant'[g].late = grant[g].late
                            /\ grant'[g].live => grant[g].live
                            /\ grant[g].kind = "token" /\ grant[g].conn = c => ~grant'[g].live
  <2> SUFFICES ASSUME NEW g \in GrantId
               PROVE  /\ grant'[g] \in GrantRow
                      /\ grant'[g].kind = grant[g].kind /\ grant'[g].conn = grant[g].conn
                      /\ grant'[g].from = grant[g].from /\ grant'[g].late = grant[g].late
                      /\ grant'[g].live => grant[g].live
                      /\ grant[g].kind = "token" /\ grant[g].conn = c => ~grant'[g].live
    BY <1>1
  <2>1. grant[g] \in GrantRow
    BY DEF OAuthInv, Issued, OAuthTypeOK
  <2>2. CASE grant[g].kind = "token" /\ grant[g].conn = c
    <3> DEFINE row == [grant[g] EXCEPT !.live = FALSE]
    <3>1. grant'[g] = row
      BY <1>1, <2>2
    <3>2. /\ row \in GrantRow /\ row.kind = grant[g].kind /\ row.conn = grant[g].conn
          /\ row.from = grant[g].from /\ row.late = grant[g].late /\ row.live = FALSE
      BY <2>1, KilledRow
    <3> HIDE DEF row
    <3> QED
      BY <3>1, <3>2
  <2>3. CASE ~(grant[g].kind = "token" /\ grant[g].conn = c)
    BY <1>1, <2>1, <2>3
  <2> QED
    BY <2>2, <2>3
<1>3. Issued'
  BY <1>1, <1>2 DEF OAuthInv, Issued, OAuthTypeOK
<1>4. Alone' /\ Spent'
  BY <1>1, <1>2 DEF OAuthInv, Issued, OAuthTypeOK, Alone, Spent
<1>5. Used' /\ SpentOnce'
  BY <1>1, <1>2 DEF OAuthInv, Used, SpentOnce
<1>6. CutOff'
  <2>1. CASE severed' = severed
    BY <2>1, <1>1, <1>2 DEF OAuthInv, CutOff
  <2>2. CASE severed' # severed
    <3>1. /\ severed' = severed \cup {c}
          /\ \A g \in GrantId : grant[g] # NewGrant("code", c, 0)
          /\ \A r \in Request, g \in GrantId : ~(Holds(r, g) /\ grant[g].conn = c)
      BY <2>2, <1>1
    <3>2. \A g \in GrantId : grant[g].conn = c /\ grant[g].kind = "code" /\ grant[g].live
                               => grant[g].late
      <4> SUFFICES ASSUME NEW g \in GrantId, grant[g].conn = c, grant[g].kind = "code",
                          grant[g].live, ~grant[g].late
                   PROVE  FALSE
        BY DEF OAuthInv, Issued, OAuthTypeOK, GrantRow
      <4>1. grant[g] \in GrantRow /\ grant[g].from = 0
        BY DEF OAuthInv, Issued, OAuthTypeOK
      <4>2. grant[g].live = TRUE /\ grant[g].late = FALSE
        BY <4>1 DEF GrantRow
      <4>3. grant[g] = NewGrant("code", c, 0)
        BY <4>1, <4>2 DEF GrantRow, NewGrant
      <4> QED
        BY <3>1, <4>3
    <3> QED
      BY <1>1, <1>2, <3>1, <3>2 DEF OAuthInv, CutOff
  <2> QED
    BY <2>1, <2>2
<1> QED
  BY <1>3, <1>4, <1>5, <1>6 DEF OAuthInv

(* Every step of the specification keeps the invariant. *)
LEMMA OAuthStepInv == OAuthInv /\ [OAuthNext]_oauthVars => OAuthInv'
<1> SUFFICES ASSUME OAuthInv, [OAuthNext]_oauthVars PROVE OAuthInv'
  OBVIOUS
<1>1. CASE UNCHANGED oauthVars
  BY <1>1 DEF oauthVars, OAuthInv, Issued, Alone, Spent, Used, CutOff, SpentOnce, OAuthTypeOK
<1>2. CASE CreateCode
  BY <1>2, CreateCodeInv
<1>3. CASE RevokeApp
  BY <1>3, RevokeAppInv
<1>4. CASE RevokeToken \/ GrantExpires
  <2>1. /\ grant' \in [GrantId -> GrantRow]
        /\ \A g \in GrantId : /\ grant'[g].kind = grant[g].kind /\ grant'[g].conn = grant[g].conn
                              /\ grant'[g].from = grant[g].from
                              /\ grant'[g].live => grant[g].live
                              /\ grant[g].late => grant'[g].late
    <3>1. grant \in [GrantId -> GrantRow]
      BY DEF OAuthInv, Issued, OAuthTypeOK
    <3>2. PICK g \in GrantId : \/ grant' = [grant EXCEPT ![g].live = FALSE]
                               \/ grant' = [grant EXCEPT ![g].late = TRUE]
      BY <1>4 DEF RevokeToken, GrantExpires
    <3> QED
      BY <3>1, <3>2, OneRow
  <2>2. UNCHANGED <<granted, exchange, grabbed, severed>>
    BY <1>4 DEF RevokeToken, GrantExpires
  <2>3. exchange' \in [Request -> [pc : ExchangePc, from : 0 .. MaxGrants]]
    BY <2>2 DEF OAuthInv, Issued, OAuthTypeOK
  <2> QED
    BY <2>1, <2>2, <2>3, DyingInv
<1>5. CASE CrashOAuth
  <2>1. /\ UNCHANGED <<grant, granted, grabbed, severed>>
        /\ exchange' = [r \in Request |-> NoExchange]
    BY <1>5 DEF CrashOAuth
  <2>2. /\ exchange' \in [Request -> [pc : ExchangePc, from : 0 .. MaxGrants]]
        /\ \A r \in Request : exchange'[r].pc = "idle"
        /\ grant' \in [GrantId -> GrantRow]
    BY <2>1 DEF NoExchange, ExchangePc, OAuthInv, Issued, OAuthTypeOK
  <2> QED
    BY <2>1, <2>2, DyingInv
<1>6. ASSUME NEW r \in Request, SelectCode(r) PROVE OAuthInv'
  BY <1>6, StartsUsingInv DEF SelectCode
<1>7. ASSUME NEW r \in Request, FindValidRefreshToken(r) PROVE OAuthInv'
  BY <1>7, StartsUsingInv DEF FindValidRefreshToken
<1>8. ASSUME NEW r \in Request, DeleteCode(r) \/ RevokeOld(r) \/ IssueTokenSet(r)
      PROVE  OAuthInv'
  BY <1>8, DeleteCodeInv, RevokeOldInv, IssueInv
<1> QED
  BY <1>1, <1>2, <1>3, <1>4, <1>5, <1>6, <1>7, <1>8 DEF OAuthNext, OAuthStep

(* The invariant behind the theorems below *)
LEMMA OAuthInvariant == OAuthSpec => []OAuthInv
  BY OAuthInitInv, OAuthStepInv, PTL DEF OAuthSpec

-----------------------------------------------------------------------------
(* Grants and requests are well typed in every reachable state. *)
THEOREM OAuthTypeCorrect == OAuthSpec => []OAuthTypeOK
<1>1. OAuthInv => OAuthTypeOK
  BY DEF OAuthInv, Issued
<1> QED
  BY <1>1, OAuthInvariant, PTL

(* A code or a refresh token yields one token set at most, whatever fails  *)
(* and however requests interleave, unless two of them used it at once.    *)
THEOREM OneTokenSet == OAuthSpec => []SpentOnce
<1>1. OAuthInv => SpentOnce
  BY DEF OAuthInv
<1> QED
  BY <1>1, OAuthInvariant, PTL

(* A client that was disconnected while nothing was underway has no valid  *)
(* refresh token until the user consents again.                            *)
THEOREM NoReturn == OAuthSpec => []DisconnectEndsAccess
<1>1. OAuthInv => DisconnectEndsAccess
  BY DEF OAuthInv, CutOff, DisconnectEndsAccess
<1> QED
  BY <1>1, OAuthInvariant, PTL

HIDE OAuthAssumption DEF GrantId, ExchangeAt, Holds

-----------------------------------------------------------------------------
(***************************************************************************)
(* Percent. What the rounding of progress makes of all there is.           *)
(***************************************************************************)
(* A quotient lies between two multiples of the divisor. *)
LEMMA DivBounds ==
  ASSUME NEW a \in Nat, NEW b \in Nat \ {0}
  PROVE  /\ a \div b \in Nat
         /\ (a \div b) * b <= a
         /\ a < (a \div b) * b + b
  OBVIOUS

(* Multiplying keeps the order. *)
LEMMA TimesMono ==
  ASSUME NEW x \in Nat, NEW y \in Nat, NEW m \in Nat, x <= y
  PROVE  x * m <= y * m
<1>1. PICK d \in Nat : y = x + d
  <2>1. y - x \in Nat /\ y = x + (y - x)
    OBVIOUS
  <2> QED
    BY <2>1
<1>2. y * m = x * m + d * m /\ d * m \in Nat /\ x * m \in Nat
  BY <1>1
<1> QED
  BY <1>2

(* All of it is 100%, however much there is. *)
LEMMA AllIsHundred ==
  ASSUME NEW n \in Nat \ {0}
  PROVE  Percent(n, n) = 100
<1> DEFINE q == (200 * n + n) \div (2 * n)
<1>1. Percent(n, n) = q
  BY DEF Percent
<1>2. 200 * n + n \in Nat /\ 2 * n \in Nat \ {0}
  OBVIOUS
<1>3. /\ q \in Nat
      /\ q * (2 * n) <= 200 * n + n
      /\ 200 * n + n < q * (2 * n) + 2 * n
  BY <1>2, DivBounds
<1> HIDE DEF q
<1>4. q * (2 * n) <= 201 * n /\ 201 * n < q * (2 * n) + 2 * n
  BY <1>3
<1>5. CASE q <= 99
  <2>1. q * (2 * n) <= 99 * (2 * n)
    BY <1>3, <1>5, TimesMono
  <2>2. PICK p \in Nat : p = q * (2 * n)
    BY <1>3
  <2> QED
    BY <1>4, <2>1, <2>2
<1>6. CASE q >= 101
  <2>1. 101 * (2 * n) <= q * (2 * n)
    BY <1>3, <1>6, TimesMono
  <2>2. PICK p \in Nat : p = q * (2 * n)
    BY <1>3
  <2> QED
    BY <1>4, <2>1, <2>2
<1> QED
  BY <1>1, <1>3, <1>5, <1>6

-----------------------------------------------------------------------------
(***************************************************************************)
(* GoalCriteria. Proof that a goal whose criteria are all met does not     *)
(* stay open, for any number of criteria and of concurrent requests.       *)
(*                                                                         *)
(* A request judges by the row it read: unless somebody wrote in between,  *)
(* that is the row it writes to (RowIsCurrent), and the rounded attainment *)
(* of a full set of criteria is 100 however many there are.                *)
(***************************************************************************)
(* A request that nobody overtook holds the row as it is. *)
RowIsCurrent ==
  \A r \in Request : review[r].pc = "write" /\ ~review[r].late => review[r].row = aim

(* A request asks for new criteria, a new status, or both. *)
AsksSomething ==
  \A r \in Request : review[r].pc = "write" => review[r].met # Nil \/ review[r].status # Nil

CriteriaInv ==
  GoalCriteriaTypeOK /\ RowIsCurrent /\ AsksSomething /\ AchievedWhenMet

Waiting == [pc : {"write"}, row : Aim, met : {Nil} \cup SUBSET Criterion,
            status : GoalStatus \cup {Nil}, late : BOOLEAN]

-----------------------------------------------------------------------------
(* At full attainment a goal that is open is achieved. *)
LEMMA FullAttainment ==
  ASSUME NEW st PROVE AutoAchieveStatus(Criterion, st) \in Terminal
<1>1. Cardinality(Criterion) \in Nat \ {0}
  BY CriteriaAssumption, FS_CardinalityType, FS_EmptySet
<1>2. AttainmentPct(Criterion) = 100
  BY <1>1, AllIsHundred DEF AttainmentPct
<1> QED
  BY <1>2 DEF AutoAchieveStatus, Terminal

(* What autoAchieveStatus answers is a status again. *)
LEMMA AutoType ==
  ASSUME NEW met, NEW st \in GoalStatus PROVE AutoAchieveStatus(met, st) \in GoalStatus
  BY DEF AutoAchieveStatus, GoalStatus

(* The goal begins open, with no criterion met. *)
LEMMA CriteriaInitInv == CriteriaInit => CriteriaInv
<1> SUFFICES ASSUME CriteriaInit PROVE CriteriaInv
  OBVIOUS
<1>1. aim \in Aim /\ aim.met = {} /\ loose = FALSE
  BY DEF CriteriaInit, Aim, GoalStatus
<1>2. review = [r \in Request |-> NoReview] /\ NoReview.pc = "idle"
  BY DEF CriteriaInit, NoReview
<1>3. GoalCriteriaTypeOK
  BY <1>1, <1>2 DEF GoalCriteriaTypeOK
<1> QED
  BY <1>1, <1>2, <1>3, CriteriaAssumption
     DEF CriteriaInv, RowIsCurrent, AsksSomething, AchievedWhenMet

(* Reading the row disturbs nobody. *)
LEMMA StartInv ==
  ASSUME CriteriaInv, NEW r \in Request, NEW met \in {Nil} \cup SUBSET Criterion,
         NEW st \in GoalStatus \cup {Nil}, met # Nil \/ st # Nil,
         StartReview(r, met, st)
  PROVE  CriteriaInv'
<1> DEFINE new == [pc |-> "write", row |-> aim, met |-> met, status |-> st, late |-> FALSE]
<1>1. /\ new \in Waiting /\ new.pc = "write" /\ new.row = aim
      /\ new.met # Nil \/ new.status # Nil
  BY DEF CriteriaInv, GoalCriteriaTypeOK, Waiting
<1>2. review' = [review EXCEPT ![r] = new] /\ aim' = aim /\ loose' = loose
  BY DEF StartReview
<1> HIDE DEF new
<1>3. /\ review \in [Request -> {NoReview} \cup Waiting]
      /\ review'[r] = new
      /\ \A q \in Request \ {r} : review'[q] = review[q]
  BY <1>2 DEF CriteriaInv, GoalCriteriaTypeOK, Waiting
<1>4. GoalCriteriaTypeOK'
  BY <1>1, <1>2, <1>3 DEF CriteriaInv, GoalCriteriaTypeOK, Waiting
<1>5. RowIsCurrent' /\ AsksSomething'
  BY <1>1, <1>2, <1>3 DEF CriteriaInv, RowIsCurrent, AsksSomething
<1>6. AchievedWhenMet'
  BY <1>2 DEF CriteriaInv, AchievedWhenMet
<1> QED
  BY <1>4, <1>5, <1>6 DEF CriteriaInv

(* The UPDATE: whoever else holds the row now holds an outdated one, and   *)
(* the status fits the criteria if it was judged by the row that is there. *)
LEMMA WriteInv ==
  ASSUME CriteriaInv, NEW r \in Request, WriteGoal(r)
  PROVE  CriteriaInv'
<1> DEFINE q == review[r]
           auto == AutoAchieveStatus(q.met, q.row.status)
<1>0. NoReview.pc = "idle" /\ q.pc = "write"
  BY DEF NoReview, WriteGoal
<1>1. q \in Waiting /\ aim \in Aim /\ review \in [Request -> {NoReview} \cup Waiting]
  BY <1>0 DEF CriteriaInv, GoalCriteriaTypeOK, Waiting
<1>2. /\ q.row \in Aim /\ q.met \in {Nil} \cup SUBSET Criterion
      /\ q.status \in GoalStatus \cup {Nil} /\ auto \in GoalStatus
  BY <1>1, AutoType DEF Waiting, Aim
<1>3. PICK st :
        /\ aim' = [status |-> st, met |-> IF q.met = Nil THEN aim.met ELSE q.met]
        /\ q.status # Nil => st = q.status
        /\ q.status = Nil => st = IF auto # q.row.status THEN auto ELSE aim.status
  BY DEF WriteGoal
<1>4. loose' = (q.status # Nil \/ q.late)
  BY DEF WriteGoal
<1>5. review' = [p \in Request |->
        IF p = r THEN NoReview
        ELSE IF review[p].pc = "write" THEN [review[p] EXCEPT !.late = TRUE]
        ELSE review[p]]
  BY DEF WriteGoal
<1>6. st \in GoalStatus
  BY <1>1, <1>2, <1>3 DEF Aim
<1>7. aim' \in Aim
  <2>1. (IF q.met = Nil THEN aim.met ELSE q.met) \in SUBSET Criterion
    <3>1. aim.met \in SUBSET Criterion
      BY <1>1 DEF Aim
    <3> HIDE DEF q, auto
    <3> QED
      BY <1>2, <3>1
  <2> HIDE DEF q, auto
  <2> QED
    BY <1>3, <1>6, <2>1 DEF Aim
<1>8. \A p \in Request : review[p].pc = "write" =>
        /\ [review[p] EXCEPT !.late = TRUE] \in Waiting
        /\ [review[p] EXCEPT !.late = TRUE].late = TRUE
        /\ [review[p] EXCEPT !.late = TRUE].met = review[p].met
        /\ [review[p] EXCEPT !.late = TRUE].status = review[p].status
  <2> SUFFICES ASSUME NEW p \in Request, review[p].pc = "write"
               PROVE  /\ [review[p] EXCEPT !.late = TRUE] \in Waiting
                      /\ [review[p] EXCEPT !.late = TRUE].late = TRUE
                      /\ [review[p] EXCEPT !.late = TRUE].met = review[p].met
                      /\ [review[p] EXCEPT !.late = TRUE].status = review[p].status
    OBVIOUS
  <2>1. review[p] \in Waiting
    BY <1>0, <1>1
  <2> QED
    BY <2>1 DEF Waiting
<1>9. GoalCriteriaTypeOK'
  <2>1. loose' \in BOOLEAN
    BY <1>1, <1>4 DEF Waiting
  <2>2. review' \in [Request -> {NoReview} \cup Waiting]
    BY <1>1, <1>5, <1>8
  <2> QED
    BY <1>7, <2>1, <2>2 DEF GoalCriteriaTypeOK, Waiting
<1>10. \A p \in Request : review'[p].pc = "write" =>
         /\ review[p].pc = "write" /\ review'[p] = [review[p] EXCEPT !.late = TRUE]
  BY <1>0, <1>5
<1>11. RowIsCurrent'
  BY <1>8, <1>10 DEF RowIsCurrent
<1>12. AsksSomething'
  <2> SUFFICES ASSUME NEW p \in Request, review'[p].pc = "write"
               PROVE  review'[p].met # Nil \/ review'[p].status # Nil
    BY DEF AsksSomething
  <2>1. review'[p].met = review[p].met /\ review'[p].status = review[p].status
    BY <1>8, <1>10
  <2>2. review[p].met # Nil \/ review[p].status # Nil
    BY <1>10 DEF CriteriaInv, AsksSomething
  <2> QED
    BY <2>1, <2>2
<1>13. AchievedWhenMet'
  <2> SUFFICES ASSUME aim'.met = Criterion, q.status = Nil, ~q.late
               PROVE  aim'.status \in Terminal
    BY <1>4 DEF AchievedWhenMet
  <2>1. q.row = aim /\ q.met # Nil
    BY <1>0 DEF CriteriaInv, RowIsCurrent, AsksSomething
  <2>2. q.met = Criterion
    BY <1>3, <2>1
  <2>3. auto \in Terminal
    BY <2>2, FullAttainment
  <2> HIDE DEF auto, q
  <2> QED
    BY <1>3, <2>1, <2>3
<1> QED
  BY <1>9, <1>11, <1>12, <1>13 DEF CriteriaInv

(* Every step of the specification keeps the invariant. *)
LEMMA CriteriaStepInv == CriteriaInv /\ [CriteriaNext]_criteriaVars => CriteriaInv'
<1> SUFFICES ASSUME CriteriaInv, [CriteriaNext]_criteriaVars PROVE CriteriaInv'
  OBVIOUS
<1>0. aim.met \in SUBSET Criterion
  BY DEF CriteriaInv, GoalCriteriaTypeOK, Aim
<1>1. CASE UNCHANGED criteriaVars
  BY <1>1 DEF criteriaVars, CriteriaInv, GoalCriteriaTypeOK, RowIsCurrent, AsksSomething,
              AchievedWhenMet
<1>2. ASSUME NEW r \in Request, RecordProgress(r) PROVE CriteriaInv'
  <2>1. PICK m \in SUBSET Criterion : StartReview(r, m, Nil)
    BY <1>0, <1>2 DEF RecordProgress
  <2> QED
    BY <2>1, CriteriaAssumption, StartInv
<1>3. ASSUME NEW r \in Request, UpdateGoal(r) PROVE CriteriaInv'
  <2>1. PICK m \in {Nil} \cup SUBSET Criterion, s \in GoalStatus \cup {Nil} :
          (m # Nil \/ s # Nil) /\ StartReview(r, m, s)
    BY <1>3 DEF UpdateGoal
  <2> QED
    BY <2>1, StartInv
<1>4. ASSUME NEW r \in Request, SoftDelete(r) PROVE CriteriaInv'
  <2>1. StartReview(r, Nil, "abandoned")
    BY <1>4 DEF SoftDelete
  <2>2. "abandoned" \in GoalStatus \cup {Nil} /\ "abandoned" # Nil
    BY CriteriaAssumption DEF GoalStatus
  <2> QED
    <3> DEFINE s == "abandoned"
    <3>1. s \in GoalStatus \cup {Nil} /\ s # Nil /\ StartReview(r, Nil, s)
      BY <2>1, <2>2
    <3> HIDE DEF s
    <3>2. Nil \in {Nil} \cup SUBSET Criterion
      OBVIOUS
    <3> QED
      BY <3>1, <3>2, StartInv
<1>5. ASSUME NEW r \in Request, WriteGoal(r) PROVE CriteriaInv'
  BY <1>5, WriteInv
<1> QED
  BY <1>1, <1>2, <1>3, <1>4, <1>5 DEF CriteriaNext

-----------------------------------------------------------------------------
(* The row of the goal and the requests are always well formed. *)
THEOREM CriteriaTypeCorrect == CriteriaSpec => []GoalCriteriaTypeOK
<1>1. CriteriaInv => GoalCriteriaTypeOK
  BY DEF CriteriaInv
<1> QED
  BY <1>1, CriteriaInitInv, CriteriaStepInv, PTL DEF CriteriaSpec

(* A goal whose criteria are all met is achieved or abandoned, unless its  *)
(* status was set by hand or judged by an outdated row: recordProgress,    *)
(* updateGoal and the auto-achievement in goalCriteria.js.                 *)
THEOREM MetGoalsClose == CriteriaSpec => []AchievedWhenMet
<1>1. CriteriaInv => AchievedWhenMet
  BY DEF CriteriaInv
<1> QED
  BY <1>1, CriteriaInitInv, CriteriaStepInv, PTL DEF CriteriaSpec

-----------------------------------------------------------------------------
(***************************************************************************)
(* GoalLinks. Proof that every task of a linked plan counts towards the    *)
(* goal or is about to, for any number of goals, plans, tasks and          *)
(* concurrent requests.                                                    *)
(*                                                                         *)
(* TasksContribute is inductive once the requests are well formed (Shape): *)
(* whoever writes a link or a task owes the edges that the other kind of   *)
(* request can not have seen to, and hands them on from step to step.      *)
(***************************************************************************)
TieRow == [pc : {"idle", "tasks", "achievers", "goals", "insert"},
           goal : Goal \cup {Nil}, plan : GoalPlans \cup {Nil}, task : Work \cup {Nil},
           seen : SUBSET Work, todo : SUBSET (Work \X Goal)]

(* What a request is about is known from its first statement on. *)
Shape ==
  /\ GoalLinksTypeOK
  /\ tie \in [Request -> TieRow]
  /\ \A r \in Request :
       /\ tie[r].pc \in {"tasks", "achievers"} => tie[r].goal \in Goal
       /\ tie[r].pc = "goals" => tie[r].task \in Work

LinksInv == Shape /\ TasksContribute

USE DEF TieAt, TieDone

-----------------------------------------------------------------------------
(* What a request owes at each of its statements *)
LEMMA OwedAt ==
  ASSUME NEW r \in Request
  PROVE  /\ tie[r].pc = "tasks" => Owed(r) = Tasks(tie[r].plan) \X {tie[r].goal}
         /\ tie[r].pc = "achievers" => Owed(r) = tie[r].seen \X {tie[r].goal}
         /\ tie[r].pc = "goals" => Owed(r) = {tie[r].task} \X Goal
         /\ tie[r].pc = "insert" => Owed(r) = tie[r].todo
         /\ tie[r].pc = "idle" => Owed(r) = {}
  BY DEF Owed

(* The same after a step *)
LEMMA OwedNext ==
  ASSUME NEW r \in Request
  PROVE  /\ tie'[r].pc = "tasks" => Owed(r)' = Tasks(tie[r].plan)' \X {tie'[r].goal}
         /\ tie'[r].pc = "achievers" => Owed(r)' = tie'[r].seen \X {tie'[r].goal}
         /\ tie'[r].pc = "goals" => Owed(r)' = {tie'[r].task} \X Goal
         /\ tie'[r].pc = "insert" => Owed(r)' = tie'[r].todo
         /\ tie'[r].pc = "idle" => Owed(r)' = {}
  BY DEF Owed

(* A request that a step does not move still owes what it owed, as far as  *)
(* the tasks still exist.                                                  *)
LEMMA OwedKept ==
  ASSUME Shape, NEW q \in Request, tie'[q] = tie[q]
  PROVE  \A e \in Owed(q) : e[1] \in works' => e \in Owed(q)'
<1>1. CASE tie[q].pc = "tasks"
  BY <1>1, OwedAt, OwedNext DEF Tasks
<1>2. CASE tie[q].pc # "tasks"
  BY <1>2 DEF Owed
<1> QED
  BY <1>1, <1>2

(* At the beginning nothing is linked. *)
LEMMA LinksInitInv == GoalLinksInit => LinksInv
  BY DEF GoalLinksInit, LinksInv, Shape, GoalLinksTypeOK, TasksContribute, TieRow, NoTie

(* A list of edges to insert, handed over to the statement that does *)
LEMMA InsertingInv ==
  ASSUME Shape, NEW r \in Request, NEW todo \in SUBSET (Work \X Goal), Inserting(r, todo)
  PROVE  /\ tie' \in [Request -> TieRow]
         /\ Owed(r)' = todo
         /\ tie'[r].pc \in {"idle", "insert"} /\ tie'[r].seen = {} /\ tie'[r].todo = todo
         /\ tie'[r].pc = "insert" <=> todo # {}
         /\ \A q \in Request \ {r} : tie'[q] = tie[q]
<1>0. tie[r] \in TieRow /\ NoTie \in TieRow
  BY DEF Shape, TieRow, NoTie
<1>1. CASE todo = {}
  <2>1. tie' = [tie EXCEPT ![r] = NoTie]
    BY <1>1 DEF Inserting
  <2>2. tie'[r] = NoTie /\ NoTie.pc = "idle" /\ NoTie.seen = {} /\ NoTie.todo = {}
    BY <2>1 DEF Shape, NoTie
  <2> QED
    BY <1>0, <1>1, <2>1, <2>2, OwedNext DEF Shape
<1>2. CASE todo # {}
  <2> DEFINE new == [tie[r] EXCEPT !.pc = "insert", !.seen = {}, !.todo = todo]
  <2>1. tie' = [tie EXCEPT ![r] = new]
    BY <1>0, <1>2 DEF Inserting, Shape, TieRow
  <2>2. new \in TieRow /\ new.pc = "insert" /\ new.seen = {} /\ new.todo = todo
    BY <1>0 DEF TieRow
  <2> HIDE DEF new
  <2>3. tie'[r] = new
    BY <2>1 DEF Shape
  <2> QED
    BY <1>2, <2>1, <2>2, <2>3, OwedNext DEF Shape
<1> QED
  BY <1>1, <1>2

(* A request begins, and owes every edge it is the cause of. *)
LEMMA BeginInv ==
  ASSUME Shape, NEW r \in Request, tie[r].pc = "idle",
         NEW rec \in TieRow, tie' = [tie EXCEPT ![r] = rec]
  PROVE  /\ tie' \in [Request -> TieRow]
         /\ tie'[r] = rec
         /\ \A q \in Request \ {r} : tie'[q] = tie[q]
         /\ \A q \in Request : \A e \in Owed(q) : e[1] \in works' => e \in Owed(q)'
<1>1. /\ tie' \in [Request -> TieRow] /\ tie'[r] = rec
      /\ \A q \in Request \ {r} : tie'[q] = tie[q]
  BY DEF Shape
<1>2. Owed(r) = {}
  BY OwedAt
<1> QED
  BY <1>1, <1>2, OwedKept

-----------------------------------------------------------------------------
(* Linking a plan *)
LEMMA AddLinkInv ==
  ASSUME LinksInv, NEW r \in Request, AddLink(r)
  PROVE  LinksInv'
<1>1. PICK g \in Goal, p \in GoalPlans :
        /\ linked' = linked \cup {<<g, p>>}
        /\ tie' = IF <<g, p>> \in linked THEN tie
                  ELSE [tie EXCEPT ![r] = [NoTie EXCEPT !.pc = "tasks", !.goal = g, !.plan = p]]
  BY DEF AddLink
<1>2. UNCHANGED <<works, achieves, gone, lapsed>> /\ tie[r].pc = "idle"
  BY DEF AddLink, MayTie
<1>3. CASE <<g, p>> \in linked
  <2>1. linked' = linked /\ tie' = tie
    BY <1>1, <1>3
  <2>2. Shape'
    BY <1>2, <2>1 DEF LinksInv, Shape, GoalLinksTypeOK
  <2>3. \A z : Tasks(z)' = Tasks(z)
    BY <1>2 DEF Tasks
  <2>4. \A q \in Request : Owed(q)' = Owed(q)
    BY <2>1, <2>3 DEF Owed
  <2>5. TasksContribute'
    BY <1>2, <2>1, <2>3, <2>4 DEF LinksInv, TasksContribute
  <2> QED
    BY <2>2, <2>5 DEF LinksInv
<1>4. CASE <<g, p>> \notin linked
  <2> DEFINE rec == [NoTie EXCEPT !.pc = "tasks", !.goal = g, !.plan = p]
  <2>1. /\ rec \in TieRow /\ rec.pc = "tasks" /\ rec.goal = g /\ rec.plan = p
        /\ rec.seen = {} /\ rec.todo = {}
    BY DEF TieRow, NoTie
  <2>2. tie' = [tie EXCEPT ![r] = rec]
    BY <1>1, <1>4
  <2> HIDE DEF rec
  <2>3. /\ tie' \in [Request -> TieRow] /\ tie'[r] = rec
        /\ \A q \in Request \ {r} : tie'[q] = tie[q]
        /\ \A q \in Request : \A e \in Owed(q) : e[1] \in works' => e \in Owed(q)'
    BY <1>2, <2>1, <2>2, BeginInv DEF LinksInv
  <2>4. Shape'
    <3>1. /\ linked' \subseteq Goal \X GoalPlans
          /\ works' \subseteq Work /\ gone' \subseteq Work
          /\ achieves' \subseteq works' \X Goal /\ lapsed' \subseteq Work \X Goal
      BY <1>1, <1>2 DEF LinksInv, Shape, GoalLinksTypeOK
    <3>2. \A q \in Request :
            /\ tie'[q].pc \in {"idle", "tasks", "achievers", "goals", "insert"}
            /\ tie'[q].seen \subseteq Work /\ tie'[q].todo \subseteq Work \X Goal
            /\ tie'[q].pc = "insert" <=> tie'[q].todo # {}
      BY <2>1, <2>3 DEF LinksInv, Shape, GoalLinksTypeOK
    <3>3. \A q \in Request :
            /\ tie'[q].pc \in {"tasks", "achievers"} => tie'[q].goal \in Goal
            /\ tie'[q].pc = "goals" => tie'[q].task \in Work
      BY <2>1, <2>3 DEF LinksInv, Shape
    <3> QED
      BY <2>3, <3>1, <3>2, <3>3 DEF Shape, GoalLinksTypeOK
  <2>5. Owed(r)' = Tasks(p)' \X {g}
    BY <2>1, <2>3, OwedNext
  <2>6. TasksContribute'
    <3> SUFFICES ASSUME NEW l \in linked', NEW t \in Tasks(l[2])'
                 PROVE  \/ <<t, l[1]>> \in achieves' \cup lapsed'
                        \/ \E q \in Request : <<t, l[1]>> \in Owed(q)'
      BY DEF TasksContribute
    <3>1. CASE l = <<g, p>>
      BY <3>1, <2>5
    <3>2. CASE l \in linked
      <4>1. t \in Tasks(l[2]) /\ t \in works'
        BY <1>2 DEF Tasks
      <4> QED
        BY <3>2, <4>1, <1>2, <2>3 DEF LinksInv, TasksContribute
    <3> QED
      BY <1>1, <3>1, <3>2
  <2> QED
    BY <2>4, <2>6 DEF LinksInv
<1> QED
  BY <1>3, <1>4

(* Creating a task *)
LEMMA CreateWorkInv ==
  ASSUME LinksInv, NEW r \in Request, CreateWork(r)
  PROVE  LinksInv'
<1>1. PICK t \in Work \ (works \cup gone) :
        /\ works' = works \cup {t}
        /\ tie' = [tie EXCEPT ![r] = [NoTie EXCEPT !.pc = "goals", !.task = t]]
  BY DEF CreateWork
<1>2. UNCHANGED <<linked, achieves, gone, lapsed>> /\ tie[r].pc = "idle"
  BY DEF CreateWork, MayTie
<1> DEFINE rec == [NoTie EXCEPT !.pc = "goals", !.task = t]
<1>3. rec \in TieRow /\ rec.pc = "goals" /\ rec.task = t /\ rec.seen = {} /\ rec.todo = {}
  BY DEF TieRow, NoTie
<1>4. tie' = [tie EXCEPT ![r] = rec]
  BY <1>1
<1> HIDE DEF rec
<1>5. /\ tie' \in [Request -> TieRow] /\ tie'[r] = rec
      /\ \A q \in Request \ {r} : tie'[q] = tie[q]
      /\ \A q \in Request : \A e \in Owed(q) : e[1] \in works' => e \in Owed(q)'
  BY <1>2, <1>3, <1>4, BeginInv DEF LinksInv
<1>6. Shape'
  BY <1>1, <1>2, <1>3, <1>5 DEF LinksInv, Shape, GoalLinksTypeOK
<1>7. Owed(r)' = {t} \X Goal
  BY <1>3, <1>5, OwedNext
<1>8. TasksContribute'
  <2> SUFFICES ASSUME NEW l \in linked', NEW u \in Tasks(l[2])'
               PROVE  \/ <<u, l[1]>> \in achieves' \cup lapsed'
                      \/ \E q \in Request : <<u, l[1]>> \in Owed(q)'
    BY DEF TasksContribute
  <2>1. l \in linked /\ l[1] \in Goal /\ u \in works' /\ WorkPlan[u] = l[2]
    BY <1>2 DEF Tasks, LinksInv, Shape, GoalLinksTypeOK
  <2>2. CASE u = t
    BY <2>1, <2>2, <1>7
  <2>3. CASE u # t
    <3>1. u \in Tasks(l[2])
      BY <2>1, <2>3, <1>1 DEF Tasks
    <3> QED
      BY <2>1, <3>1, <1>2, <1>5 DEF LinksInv, TasksContribute
  <2> QED
    BY <2>2, <2>3
<1> QED
  BY <1>6, <1>8 DEF LinksInv

(* A step of one request that changes no link and no task, and leaves      *)
(* every edge it owed in achieves, in lapsed or still owed                 *)
LEMMA HandOnInv ==
  ASSUME LinksInv, NEW r \in Request, Shape',
         UNCHANGED <<linked, works>>,
         achieves \cup lapsed \subseteq achieves' \cup lapsed',
         \A q \in Request \ {r} : tie'[q] = tie[q],
         \A l \in linked : \A t \in Tasks(l[2]) :
           <<t, l[1]>> \in Owed(r) => <<t, l[1]>> \in achieves' \cup lapsed' \cup Owed(r)'
  PROVE  LinksInv'
<1> SUFFICES ASSUME NEW l \in linked, NEW t \in Tasks(l[2])
             PROVE  \/ <<t, l[1]>> \in achieves' \cup lapsed'
                    \/ \E q \in Request : <<t, l[1]>> \in Owed(q)'
  BY DEF LinksInv, TasksContribute, Tasks
<1>1. t \in works'
  BY DEF Tasks
<1>2. CASE <<t, l[1]>> \in achieves \cup lapsed
  BY <1>2
<1>3. ASSUME NEW q \in Request, <<t, l[1]>> \in Owed(q)
      PROVE  \/ <<t, l[1]>> \in achieves' \cup lapsed'
             \/ <<t, l[1]>> \in Owed(q)'
  <2>1. CASE q = r
    BY <1>3, <2>1
  <2>2. CASE q # r
    BY <1>1, <1>3, <2>2, OwedKept DEF LinksInv
  <2> QED
    BY <2>1, <2>2
<1> QED
  BY <1>2, <1>3 DEF LinksInv, TasksContribute

(* The statements of the two cascades *)
LEMMA TieStepInv ==
  ASSUME LinksInv, NEW r \in Request, TieStep(r)
  PROVE  LinksInv'
<1>shape. Shape /\ tie[r] \in TieRow
  BY DEF LinksInv, Shape
<1>1. CASE ListPlanTasks(r)
  <2> DEFINE new == [tie[r] EXCEPT !.pc = "achievers", !.seen = Tasks(tie[r].plan)]
  <2>1. /\ tie[r].pc = "tasks" /\ UNCHANGED <<linked, works, achieves, gone, lapsed>>
        /\ tie' = [tie EXCEPT ![r] = new]
    BY <1>1, <1>shape DEF ListPlanTasks, Shape, TieRow
  <2>2. /\ new \in TieRow /\ new.pc = "achievers" /\ new.seen = Tasks(tie[r].plan)
        /\ new.goal = tie[r].goal /\ new.todo = tie[r].todo
    BY <1>shape DEF TieRow, Tasks, Shape, GoalLinksTypeOK
  <2> HIDE DEF new
  <2>3. /\ tie' \in [Request -> TieRow] /\ tie'[r] = new
        /\ \A q \in Request \ {r} : tie'[q] = tie[q]
    BY <2>1, <2>2 DEF LinksInv, Shape
  <2>4. Shape'
    <3>1. new.seen \in SUBSET Work /\ new.todo \in SUBSET (Work \X Goal)
      BY <2>2 DEF TieRow
    <3> QED
      BY <1>shape, <2>1, <2>2, <2>3, <3>1 DEF Shape, GoalLinksTypeOK
  <2>5. Owed(r)' = Owed(r)
    BY <2>1, <2>2, <2>3, OwedAt, OwedNext
  <2> QED
    BY <2>1, <2>3, <2>4, <2>5, HandOnInv
<1>2. CASE ListAchievers(r)
  <2> DEFINE todo == (tie[r].seen \X {tie[r].goal}) \ achieves
  <2>1. /\ tie[r].pc = "achievers" /\ UNCHANGED <<linked, works, achieves, gone, lapsed>>
        /\ Inserting(r, todo)
    BY <1>2 DEF ListAchievers
  <2>2. tie[r].seen \in SUBSET Work /\ tie[r].goal \in Goal
    BY <1>shape, <2>1 DEF Shape, TieRow
  <2>3. todo \in SUBSET (Work \X Goal)
    BY <2>2
  <2>4. Owed(r) = tie[r].seen \X {tie[r].goal}
    BY <2>1, OwedAt
  <2>5. Owed(r) \subseteq achieves \cup todo
    BY <2>4
  <2> HIDE DEF todo
  <2>6. /\ tie' \in [Request -> TieRow] /\ Owed(r)' = todo
        /\ tie'[r].pc \in {"idle", "insert"} /\ tie'[r].seen = {} /\ tie'[r].todo = todo
        /\ tie'[r].pc = "insert" <=> todo # {}
        /\ \A q \in Request \ {r} : tie'[q] = tie[q]
    BY <1>shape, <2>1, <2>3, InsertingInv
  <2>7. Shape'
    BY <1>shape, <2>1, <2>3, <2>6 DEF Shape, GoalLinksTypeOK
  <2> QED
    BY <2>1, <2>5, <2>6, <2>7, HandOnInv
<1>3. CASE ListLinkedGoals(r)
  <2> DEFINE u == tie[r].task
             todo == {e \in {u} \X Goal : <<e[2], WorkPlan[u]>> \in linked}
  <2>1. /\ tie[r].pc = "goals" /\ UNCHANGED <<linked, works, achieves, gone, lapsed>>
        /\ Inserting(r, todo)
    BY <1>3 DEF ListLinkedGoals
  <2>2. u \in Work
    BY <1>shape, <2>1 DEF Shape
  <2>3. todo \in SUBSET (Work \X Goal)
    BY <2>2
  <2>4. Owed(r) = {u} \X Goal
    BY <2>1, OwedAt
  <2>5. \A l \in linked : \A t \in Tasks(l[2]) : <<t, l[1]>> \in Owed(r) => <<t, l[1]>> \in todo
    <3> SUFFICES ASSUME NEW l \in linked, NEW t \in Tasks(l[2]), <<t, l[1]>> \in Owed(r)
                 PROVE  <<t, l[1]>> \in todo
      OBVIOUS
    <3>1. t = u /\ l[1] \in Goal /\ WorkPlan[u] = l[2]
      BY <2>4 DEF Tasks
    <3>2. l = <<l[1], l[2]>>
      BY <1>shape DEF Shape, GoalLinksTypeOK
    <3> QED
      BY <3>1, <3>2
  <2> HIDE DEF todo
  <2>6. /\ tie' \in [Request -> TieRow] /\ Owed(r)' = todo
        /\ tie'[r].pc \in {"idle", "insert"} /\ tie'[r].seen = {} /\ tie'[r].todo = todo
        /\ tie'[r].pc = "insert" <=> todo # {}
        /\ \A q \in Request \ {r} : tie'[q] = tie[q]
    BY <1>shape, <2>1, <2>3, InsertingInv
  <2>7. Shape'
    BY <1>shape, <2>1, <2>3, <2>6 DEF Shape, GoalLinksTypeOK
  <2> QED
    BY <2>1, <2>5, <2>6, <2>7, HandOnInv
<1>4. CASE InsertEdge(r)
  <2>1. /\ tie[r].pc = "insert" /\ UNCHANGED <<linked, works, gone>>
        /\ tie[r].todo \in SUBSET (Work \X Goal)
    BY <1>4, <1>shape DEF InsertEdge, TieRow
  <2>2. PICK e \in tie[r].todo :
          IF e \in achieves \/ e[1] \notin works
          THEN /\ lapsed' = lapsed \cup tie[r].todo
               /\ tie' = [tie EXCEPT ![r] = NoTie]
               /\ UNCHANGED achieves
          ELSE /\ achieves' = achieves \cup {e}
               /\ Inserting(r, tie[r].todo \ {e})
               /\ UNCHANGED lapsed
    BY <1>4 DEF InsertEdge
  <2>3. Owed(r) = tie[r].todo
    BY <2>1, OwedAt
  <2>4. CASE e \in achieves \/ e[1] \notin works
    <3>1. /\ lapsed' = lapsed \cup tie[r].todo
          /\ tie' = [tie EXCEPT ![r] = NoTie] /\ UNCHANGED achieves
      BY <2>2, <2>4
    <3>2. /\ NoTie \in TieRow /\ NoTie.pc = "idle" /\ NoTie.seen = {} /\ NoTie.todo = {}
      BY DEF NoTie, TieRow
    <3>3. /\ tie' \in [Request -> TieRow] /\ tie'[r] = NoTie
          /\ \A q \in Request \ {r} : tie'[q] = tie[q]
      BY <1>shape, <3>1, <3>2 DEF Shape
    <3>4. Shape'
      BY <1>shape, <2>1, <3>1, <3>2, <3>3 DEF Shape, GoalLinksTypeOK
    <3> QED
      BY <2>1, <2>3, <3>1, <3>3, <3>4, HandOnInv
  <2>5. CASE e \notin achieves /\ e[1] \in works
    <3> DEFINE todo == tie[r].todo \ {e}
    <3>1. achieves' = achieves \cup {e} /\ Inserting(r, todo) /\ UNCHANGED lapsed
      BY <2>2, <2>5
    <3>2. todo \in SUBSET (Work \X Goal)
      BY <2>1
    <3>3. Owed(r) \subseteq todo \cup {e}
      BY <2>3
    <3> HIDE DEF todo
    <3>4. /\ tie' \in [Request -> TieRow] /\ Owed(r)' = todo
          /\ tie'[r].pc \in {"idle", "insert"} /\ tie'[r].seen = {} /\ tie'[r].todo = todo
          /\ tie'[r].pc = "insert" <=> todo # {}
          /\ \A q \in Request \ {r} : tie'[q] = tie[q]
      BY <1>shape, <3>1, <3>2, InsertingInv
    <3>5. e \in works \X Goal
      BY <2>1, <2>5
    <3>6. Shape'
      BY <1>shape, <2>1, <3>1, <3>2, <3>4, <3>5 DEF Shape, GoalLinksTypeOK
    <3> QED
      BY <2>1, <3>1, <3>3, <3>4, <3>6, HandOnInv
  <2> QED
    BY <2>4, <2>5
<1> QED
  BY <1>1, <1>2, <1>3, <1>4 DEF TieStep

(* A step that moves no request: a task, if one is created, comes with the *)
(* excuse that nobody looks for its goals; and an edge that goes is        *)
(* excused, too.                                                           *)
LEMMA AsideInv ==
  ASSUME LinksInv, UNCHANGED tie, Shape',
         linked' \subseteq linked,
         \A l \in linked' : \A t \in Tasks(l[2])' :
           \/ <<t, l[1]>> \in lapsed'
           \/ t \in works /\ (<<t, l[1]>> \in achieves \cup lapsed =>
                                <<t, l[1]>> \in achieves' \cup lapsed')
  PROVE  LinksInv'
<1> SUFFICES ASSUME NEW l \in linked', NEW t \in Tasks(l[2])'
             PROVE  \/ <<t, l[1]>> \in achieves' \cup lapsed'
                    \/ \E q \in Request : <<t, l[1]>> \in Owed(q)'
  BY DEF LinksInv, TasksContribute
<1>1. t \in works' /\ WorkPlan[t] = l[2]
  BY DEF Tasks
<1>2. CASE <<t, l[1]>> \in lapsed'
  BY <1>2
<1>3. CASE <<t, l[1]>> \notin lapsed'
  <2>1. t \in Tasks(l[2]) /\ l \in linked
    BY <1>1, <1>3 DEF Tasks
  <2>2. CASE <<t, l[1]>> \in achieves \cup lapsed
    BY <1>3, <2>2
  <2>3. ASSUME NEW q \in Request, <<t, l[1]>> \in Owed(q) PROVE <<t, l[1]>> \in Owed(q)'
    BY <1>1, <2>3, OwedKept DEF LinksInv
  <2> QED
    BY <2>1, <2>2, <2>3 DEF LinksInv, TasksContribute
<1> QED
  BY <1>2, <1>3

(* The process stops: what was owed is excused. *)
LEMMA CrashInv ==
  ASSUME LinksInv, CrashGoalLinks
  PROVE  LinksInv'
<1>1. /\ tie' = [r \in Request |-> NoTie]
      /\ lapsed' = lapsed \cup UNION {Owed(r) : r \in Request}
      /\ UNCHANGED <<linked, works, achieves, gone>>
  BY DEF CrashGoalLinks
<1>2. /\ NoTie \in TieRow /\ NoTie.pc = "idle" /\ NoTie.seen = {} /\ NoTie.todo = {}
  BY DEF NoTie, TieRow
<1>3. \A r \in Request : Owed(r) \subseteq Work \X Goal
  <2> SUFFICES ASSUME NEW r \in Request PROVE Owed(r) \subseteq Work \X Goal
    OBVIOUS
  <2>1. tie[r] \in TieRow /\ Tasks(tie[r].plan) \subseteq Work
    BY DEF LinksInv, Shape, GoalLinksTypeOK, Tasks
  <2>2. /\ tie[r].pc \in {"tasks", "achievers"} => tie[r].goal \in Goal
        /\ tie[r].pc = "goals" => tie[r].task \in Work
        /\ tie[r].seen \subseteq Work /\ tie[r].todo \subseteq Work \X Goal
        /\ tie[r].pc \in {"idle", "tasks", "achievers", "goals", "insert"}
    BY DEF LinksInv, Shape, GoalLinksTypeOK
  <2> QED
    BY <2>1, <2>2, OwedAt
<1>4. Shape'
  BY <1>1, <1>2, <1>3 DEF LinksInv, Shape, GoalLinksTypeOK
<1>5. TasksContribute'
  BY <1>1 DEF LinksInv, TasksContribute, Tasks
<1> QED
  BY <1>4, <1>5 DEF LinksInv

(* Every step of the specification keeps the invariant. *)
LEMMA LinksStepInv == LinksInv /\ [GoalLinksNext]_goalLinkVars => LinksInv'
<1> SUFFICES ASSUME LinksInv, [GoalLinksNext]_goalLinkVars PROVE LinksInv'
  OBVIOUS
<1>1. CASE UNCHANGED goalLinkVars
  <2>1. UNCHANGED <<linked, works, achieves, tie, gone, lapsed>>
    BY <1>1 DEF goalLinkVars
  <2>2. GoalLinksTypeOK' /\ tie' = tie
    BY <2>1 DEF LinksInv, Shape, GoalLinksTypeOK
  <2>3. Shape'
    BY <2>2 DEF LinksInv, Shape
  <2>4. \A r \in Request : Owed(r)' = Owed(r)
    BY <2>1 DEF Owed, Tasks
  <2>5. \A p : Tasks(p)' = Tasks(p)
    BY <2>1 DEF Tasks
  <2>6. TasksContribute'
    BY <2>1, <2>4, <2>5 DEF LinksInv, TasksContribute
  <2> QED
    BY <2>3, <2>6 DEF LinksInv
<1>2. ASSUME NEW r \in Request, AddLink(r) \/ CreateWork(r) \/ TieStep(r) PROVE LinksInv'
  BY <1>2, AddLinkInv, CreateWorkInv, TieStepInv
<1>3. CASE CreateAside
  <2>1. PICK t \in Work \ (works \cup gone) :
          /\ works' = works \cup {t}
          /\ lapsed' = lapsed \cup {e \in {t} \X Goal : <<e[2], WorkPlan[t]>> \in linked}
    BY <1>3 DEF CreateAside
  <2>2. UNCHANGED <<linked, achieves, tie, gone>>
    BY <1>3 DEF CreateAside
  <2>3. Shape'
    BY <2>1, <2>2 DEF LinksInv, Shape, GoalLinksTypeOK
  <2>4. \A l \in linked' : \A u \in Tasks(l[2])' :
          <<u, l[1]>> \in lapsed' \/ (u \in works /\ lapsed \subseteq lapsed')
    <3> SUFFICES ASSUME NEW l \in linked', NEW u \in Tasks(l[2])', u \notin works
                 PROVE  <<u, l[1]>> \in lapsed'
      BY <2>1
    <3>1. u = t /\ WorkPlan[t] = l[2]
      BY <2>1 DEF Tasks
    <3>2. l \in linked /\ l[1] \in Goal /\ l = <<l[1], l[2]>>
      BY <2>2 DEF LinksInv, Shape, GoalLinksTypeOK
    <3> QED
      BY <2>1, <3>1, <3>2
  <2> QED
    BY <2>2, <2>3, <2>4, AsideInv
<1>4. CASE AddAchiever
  <2>1. UNCHANGED <<linked, works, tie, gone, lapsed>>
        /\ \E e \in works \X Goal : achieves' = achieves \cup {e}
    BY <1>4 DEF AddAchiever
  <2>2. Shape'
    BY <2>1 DEF LinksInv, Shape, GoalLinksTypeOK
  <2> QED
    BY <2>1, <2>2, AsideInv DEF Tasks
<1>5. CASE RemoveAchiever
  <2>1. UNCHANGED <<linked, works, tie, gone>>
        /\ \E e \in achieves : achieves' = achieves \ {e} /\ lapsed' = lapsed \cup {e}
    BY <1>5 DEF RemoveAchiever
  <2>2. Shape'
    BY <2>1 DEF LinksInv, Shape, GoalLinksTypeOK
  <2> QED
    BY <2>1, <2>2, AsideInv DEF Tasks
<1>6. CASE RemoveLink
  <2>1. UNCHANGED <<works, achieves, tie, gone, lapsed>> /\ linked' \subseteq linked
    BY <1>6 DEF RemoveLink
  <2>2. Shape'
    BY <2>1 DEF LinksInv, Shape, GoalLinksTypeOK
  <2> QED
    BY <2>1, <2>2, AsideInv DEF Tasks
<1>7. CASE DeleteWork
  <2>1. PICK t \in works : /\ works' = works \ {t} /\ gone' = gone \cup {t}
                           /\ achieves' = {e \in achieves : e[1] # t}
    BY <1>7 DEF DeleteWork
  <2>2. UNCHANGED <<linked, tie, lapsed>>
    BY <1>7 DEF DeleteWork
  <2>3. Shape'
    BY <2>1, <2>2 DEF LinksInv, Shape, GoalLinksTypeOK
  <2> QED
    BY <2>1, <2>2, <2>3, AsideInv DEF Tasks
<1>8. CASE CrashGoalLinks
  BY <1>8, CrashInv
<1> QED
  BY <1>1, <1>2, <1>3, <1>4, <1>5, <1>6, <1>7, <1>8 DEF GoalLinksNext

(* The invariant behind both theorems below *)
LEMMA LinksInvariant == GoalLinksSpec => []LinksInv
  BY LinksInitInv, LinksStepInv, PTL DEF GoalLinksSpec

-----------------------------------------------------------------------------
(* Links, edges and requests are well typed: in particular no edge         *)
(* outlives its task.                                                      *)
THEOREM GoalLinksTypeCorrect == GoalLinksSpec => []GoalLinksTypeOK
<1>1. LinksInv => GoalLinksTypeOK
  BY DEF LinksInv, Shape
<1> QED
  BY <1>1, LinksInvariant, PTL

(* Whichever of a link and a task comes first, and however their cascades  *)
(* interleave, the task counts towards the goal, is about to, or has an    *)
(* excuse.                                                                 *)
THEOREM EveryTaskContributes == GoalLinksSpec => []TasksContribute
<1>1. LinksInv => TasksContribute
  BY DEF LinksInv
<1> QED
  BY <1>1, LinksInvariant, PTL

HIDE DEF TieAt, TieDone

-----------------------------------------------------------------------------
(***************************************************************************)
(* KnowledgeLoop. Proof that the iterations of a run are counted, numbered *)
(* and judged as the engine means them, for any number of requests and any *)
(* limit.                                                                  *)
(*                                                                         *)
(* A run on which two requests worked at once is muddled and promises      *)
(* nothing; on every other run the request that works holds what is still  *)
(* true of it (RunKept), and unless two starts overlapped there is one     *)
(* running run at most (OneRunning).                                       *)
(***************************************************************************)
Iteration == [number : Nat, small : BOOLEAN]
LoopRow   == [status : {"running", "converged", "stopped"}, iterations : Seq(Iteration)]
Looping   == [pc : {"idle", "create", "find", "append", "complete"}, loop : Nat,
              read : Seq(Iteration), next : Iteration \cup {Nil},
              verdict : {"converged", "stopped", Nil}]

(* The rows and the requests are well formed, and a request holds what it  *)
(* needs.                                                                  *)
LoopShape ==
  /\ loops \in Seq(LoopRow) /\ looping \in [Request -> Looping]
  /\ doubled \in BOOLEAN /\ muddled \subseteq DOMAIN loops
  /\ \A r \in Request :
       /\ looping[r].pc \in {"idle", "create"} <=> looping[r].loop = 0
       /\ looping[r].loop # 0 => looping[r].loop \in DOMAIN loops
       /\ looping[r].pc \in {"find", "append"} => looping[r].next \in Iteration
       /\ looping[r].pc = "complete" => looping[r].verdict # Nil

(* Unless two starts overlapped, a run is created when there is none. *)
OneRunning ==
  ~doubled => /\ \A i, j \in Running : i = j
              /\ \A r, q \in Request : LoopAt(r, "create") =>
                   Running = {} /\ (LoopAt(q, "create") => q = r)

(* its are the iterations of a run, of request r what it is about to do to *)
(* it.                                                                     *)
Numbered(its) == Len(its) <= MaxIterations /\ \A k \in DOMAIN its : its[k].number = k

Extends(q, its) ==
  q.pc \in {"find", "append"} =>
    /\ q.next.number = Len(its) + 1 /\ q.verdict = Verdict(Append(its, q.next))
    /\ Len(its) < MaxIterations
    /\ q.pc = "append" => q.read = its

(* On a run that is not muddled one request works at most, and what it     *)
(* holds is still true of the run.                                         *)
RunKept(i) ==
  /\ Numbered(loops[i].iterations)
  /\ \A r, q \in Request : looping[r].loop = i /\ looping[q].loop = i => r = q
  /\ \A r \in Request : looping[r].loop = i => Extends(looping[r], loops[i].iterations)
  /\ i \in Running /\ (\A r \in Request : looping[r].loop # i) =>
       Verdict(loops[i].iterations) = Nil

LoopInv == LoopShape /\ OneRunning /\ \A i \in DOMAIN loops \ muddled : RunKept(i)

USE DEF LoopAt, LoopDone

LEMMA VerdictFacts ==
  ASSUME NEW its \in Seq(Iteration)
  PROVE  /\ Verdict(its) \in {"converged", "stopped", Nil}
         /\ Verdict(its) = Nil => Len(its) < MaxIterations
<1>1. Len(its) \in Nat
  BY LenProperties
<1> QED
  BY <1>1, LoopAssumption DEF Verdict

LEMMA LoopRows ==
  ASSUME LoopShape
  PROVE  /\ DOMAIN loops = 1 .. Len(loops) /\ Len(loops) \in Nat
         /\ \A i \in DOMAIN loops :
              /\ loops[i] \in LoopRow
              /\ loops[i].iterations \in Seq(Iteration)
              /\ Len(loops[i].iterations) \in Nat
              /\ i \in Nat \ {0}
         /\ NoLooping \in Looping /\ NoLooping.pc = "idle" /\ NoLooping.loop = 0
<1>1. /\ DOMAIN loops = 1 .. Len(loops) /\ Len(loops) \in Nat
      /\ \A i \in DOMAIN loops : loops[i] \in LoopRow
  BY LenProperties, ElementOfSeq DEF LoopShape
<1>2. \A i \in DOMAIN loops : loops[i].iterations \in Seq(Iteration)
  BY <1>1 DEF LoopRow
<1>3. \A i \in DOMAIN loops : Len(loops[i].iterations) \in Nat
  BY <1>2, LenProperties
<1>4. NoLooping \in Looping
  BY EmptySeq DEF NoLooping, Looping
<1> QED
  BY <1>1, <1>2, <1>3, <1>4 DEF NoLooping

LEMMA LoopInitInv == LoopInit => LoopInv
<1> SUFFICES ASSUME LoopInit PROVE LoopInv
  OBVIOUS
<1>1. /\ loops \in Seq(LoopRow) /\ DOMAIN loops = {}
  BY EmptySeq, LenProperties DEF LoopInit
<1>2. NoLooping \in Looping /\ NoLooping.pc = "idle" /\ NoLooping.loop = 0
  BY EmptySeq DEF NoLooping, Looping
<1> QED
  BY <1>1, <1>2 DEF LoopInit, LoopInv, LoopShape, OneRunning, Running

(* The requests on a run may stay as they are, when the row does. *)
LEMMA RunUntouched ==
  ASSUME NEW i \in DOMAIN loops, RunKept(i), i \in DOMAIN loops', loops'[i] = loops[i],
         \A q \in Request : looping[q].loop = i \/ looping'[q].loop = i => looping'[q] = looping[q]
  PROVE  RunKept(i)'
<1>1. i \in Running' <=> i \in Running
  BY DEF Running
<1>2. \A q \in Request : looping'[q].loop = i => Extends(looping'[q], loops'[i].iterations)
  BY DEF RunKept
<1> QED
  BY <1>1, <1>2 DEF RunKept

(* One slot changes, to a well-formed request or to none. *)
LEMMA LoopSlot ==
  ASSUME LoopShape, NEW r \in Request, NEW new \in Looping, looping' = [looping EXCEPT ![r] = new]
  PROVE  /\ looping' \in [Request -> Looping] /\ looping'[r] = new
         /\ \A q \in Request \ {r} : looping'[q] = looping[q]
  BY DEF LoopShape

(* A request that works on no run yet changes nothing about the runs. *)
LEMMA StartLoopInv ==
  ASSUME LoopInv, NEW r \in Request, StartLoop(r)
  PROVE  LoopInv'
<1> DEFINE new == [NoLooping EXCEPT !.pc = "create"]
<1>1. new \in Looping /\ new.pc = "create" /\ new.loop = 0
  BY EmptySeq DEF NoLooping, Looping
<1>2. looping' = [looping EXCEPT ![r] = new] /\ UNCHANGED <<loops, muddled>>
  BY DEF StartLoop
<1> HIDE DEF new
<1>3. /\ looping' \in [Request -> Looping] /\ looping'[r] = new
      /\ \A q \in Request \ {r} : looping'[q] = looping[q]
  BY <1>1, <1>2, LoopSlot DEF LoopInv
<1>4. looping[r].pc = "idle" /\ looping[r].loop = 0
  BY DEF LoopInv, LoopShape, StartLoop, MayLoop
<1>5. LoopShape'
  BY <1>1, <1>2, <1>3 DEF LoopInv, LoopShape, StartLoop
<1>6. OneRunning'
  <2>1. Running = {} /\ Running' = {}
    BY <1>2 DEF StartLoop, Running
  <2> SUFFICES ASSUME ~doubled' PROVE \A p, q \in Request :
                 looping'[p].pc = "create" /\ looping'[q].pc = "create" => q = p
    BY <2>1 DEF OneRunning
  <2>2. \A q \in Request : looping[q].pc # "create"
    BY DEF StartLoop
  <2> QED
    BY <1>3, <2>2
<1>7. \A i \in DOMAIN loops \ muddled : RunKept(i)'
  BY <1>1, <1>2, <1>3, <1>4, LoopRows, RunUntouched DEF LoopInv
<1> QED
  BY <1>2, <1>5, <1>6, <1>7 DEF LoopInv

LEMMA CreateLoopInv ==
  ASSUME LoopInv, NEW r \in Request, CreateLoop(r)
  PROVE  LoopInv'
<1> DEFINE row == [status |-> "running", iterations |-> <<>>]
<1>1. row \in LoopRow
  BY EmptySeq DEF LoopRow
<1>2. /\ loops' \in Seq(LoopRow) /\ DOMAIN loops' = DOMAIN loops \cup {Len(loops) + 1}
      /\ \A i \in DOMAIN loops : loops'[i] = loops[i]
      /\ loops'[Len(loops) + 1] = row /\ Len(loops) + 1 \notin DOMAIN loops
  <2>1. loops' = Append(loops, row)
    BY DEF CreateLoop
  <2> HIDE DEF row
  <2>2. /\ loops' \in Seq(LoopRow) /\ Len(loops') = Len(loops) + 1
        /\ \A i \in 1 .. Len(loops) : loops'[i] = loops[i]
        /\ loops'[Len(loops) + 1] = row
    BY <1>1, <2>1, AppendProperties DEF LoopInv, LoopShape
  <2>3. DOMAIN loops' = 1 .. Len(loops')
    BY <2>2, LenProperties
  <2> QED
    BY <2>2, <2>3, LoopRows DEF LoopInv
<1>3. /\ looping' \in [Request -> Looping] /\ looping'[r] = NoLooping
      /\ \A q \in Request \ {r} : looping'[q] = looping[q]
  BY LoopRows, LoopSlot DEF LoopInv, CreateLoop
<1>4. looping[r].pc = "create" /\ looping[r].loop = 0 /\ muddled' = muddled /\ doubled' = doubled
  BY DEF LoopInv, LoopShape, CreateLoop
<1>5. NoLooping.pc = "idle" /\ NoLooping.loop = 0
  BY DEF NoLooping
<1>6. LoopShape'
  BY <1>2, <1>3, <1>4, <1>5 DEF LoopInv, LoopShape
<1>7. OneRunning'
  <2>1. Running' = Running \cup {Len(loops) + 1}
    BY <1>2 DEF Running
  <2> QED
    BY <1>3, <1>4, <1>5, <2>1 DEF LoopInv, OneRunning
<1>8. \A i \in DOMAIN loops \ muddled : RunKept(i)'
  BY <1>2, <1>3, <1>4, <1>5, LoopRows, RunUntouched DEF LoopInv
<1>9. \A n \in DOMAIN loops' \ DOMAIN loops : RunKept(n)'
  <2> SUFFICES ASSUME NEW n \in DOMAIN loops' \ DOMAIN loops PROVE RunKept(n)'
    OBVIOUS
  <2>1. \A q \in Request : looping'[q].loop # n
    BY <1>2, <1>3, <1>5, <1>6, LoopRows DEF LoopInv, LoopShape
  <2>2. loops'[n].iterations = <<>>
    BY <1>2
  <2>3. Len(<<>>) = 0 /\ DOMAIN <<>> = {}
    OBVIOUS
  <2>4. Numbered(<<>>)
    BY <2>3, LoopAssumption DEF Numbered
  <2>5. Verdict(<<>>) = Nil
    BY <2>3, LoopAssumption DEF Verdict
  <2> QED
    BY <2>1, <2>2, <2>4, <2>5 DEF RunKept
<1>10. \A i \in (DOMAIN loops \ muddled)' : RunKept(i)'
  BY <1>4, <1>8, <1>9
<1> QED
  BY <1>6, <1>7, <1>10 DEF LoopInv

(* A request takes up a run: what it takes with it is what the run is. *)
LEMMA TakesUp ==
  ASSUME LoopInv, NEW r \in Request, looping[r].pc = "idle", NEW j \in Running,
         NEW new \in Looping, WorksOn(r, j, new), new.loop = j,
         new.pc \in {"find", "complete"},
         new.pc = "find" /\ j \notin muddled' => Extends(new, loops[j].iterations),
         new.pc = "find" => new.next \in Iteration,
         new.pc = "complete" => new.verdict # Nil,
         UNCHANGED <<loops, doubled>>
  PROVE  LoopInv'
<1>1. looping' = [looping EXCEPT ![r] = new]
  BY DEF WorksOn
<1>2. /\ looping' \in [Request -> Looping] /\ looping'[r] = new
      /\ \A q \in Request \ {r} : looping'[q] = looping[q]
  BY <1>1, LoopSlot DEF LoopInv
<1>3. j \in DOMAIN loops /\ j # 0 /\ looping[r].loop = 0
  BY LoopRows DEF Running, LoopInv, LoopShape
<1>4. muddled' \subseteq DOMAIN loops' /\ muddled \subseteq muddled'
  BY <1>3 DEF WorksOn, LoopInv, LoopShape
<1>5. LoopShape'
  BY <1>2, <1>3, <1>4 DEF LoopInv, LoopShape
<1>6. OneRunning'
  <2>1. Running' = Running
    BY DEF Running
  <2> QED
    BY <1>2, <2>1 DEF LoopInv, OneRunning
<1>7. ASSUME NEW i \in DOMAIN loops \ muddled', i # j PROVE RunKept(i)'
  <2>1. i \in DOMAIN loops \ muddled /\ i # 0 /\ i \in DOMAIN loops' /\ loops'[i] = loops[i]
    BY <1>4, LoopRows DEF LoopInv
  <2>2. RunKept(i)
    BY <2>1 DEF LoopInv
  <2> QED
    BY <1>2, <1>3, <1>7, <2>1, <2>2, RunUntouched
<1>8. ASSUME j \notin muddled' PROVE RunKept(j)'
  <2>1. \A q \in Request : looping[q].loop # j
    BY <1>8 DEF WorksOn
  <2>2. RunKept(j) /\ Numbered(loops'[j].iterations)
    BY <1>3, <1>4, <1>8 DEF LoopInv, RunKept
  <2>3. \A q \in Request : looping'[q].loop = j => q = r
    BY <1>2, <2>1
  <2>4. Extends(looping'[r], loops'[j].iterations)
    BY <1>2, <1>8 DEF Extends
  <2> QED
    BY <1>2, <2>2, <2>3, <2>4 DEF RunKept
<1> QED
  BY <1>5, <1>6, <1>7, <1>8 DEF LoopInv

LEMMA StartIterationInv ==
  ASSUME LoopInv, NEW r \in Request, StartIteration(r)
  PROVE  LoopInv'
<1>1. PICK j \in Running, small \in BOOLEAN :
        LET read == loops[j].iterations
            it == NextIteration(read, small)
        IN  WorksOn(r, j, [pc |-> "find", loop |-> j, read |-> <<>>, next |-> it,
                           verdict |-> Verdict(Append(read, it))])
  BY DEF StartIteration
<1> DEFINE its == loops[j].iterations
           it  == NextIteration(its, small)
           new == [pc |-> "find", loop |-> j, read |-> <<>>, next |-> it,
                   verdict |-> Verdict(Append(its, it))]
<1>2. j \in DOMAIN loops /\ its \in Seq(Iteration) /\ Len(its) \in Nat /\ j \in Nat \ {0}
  BY LoopRows DEF Running, LoopInv
<1>3. it \in Iteration /\ it.number = Len(its) + 1
  BY <1>2 DEF NextIteration, Iteration
<1>4. Append(its, it) \in Seq(Iteration)
  BY <1>2, <1>3, AppendProperties
<1>5. new \in Looping
  BY <1>2, <1>3, <1>4, VerdictFacts, EmptySeq DEF Looping
<1>6. looping[r].pc = "idle" /\ UNCHANGED <<loops, doubled>>
  BY DEF StartIteration, MayLoop
<1>7. WorksOn(r, j, new)
  BY <1>1
<1>8. ASSUME j \notin muddled' PROVE Extends(new, its)
  <2>1. j \notin muddled /\ \A q \in Request : looping[q].loop # j
    BY <1>7, <1>8 DEF WorksOn
  <2>2. RunKept(j)
    BY <1>2, <2>1 DEF LoopInv
  <2>3. Verdict(its) = Nil
    BY <2>1, <2>2 DEF RunKept
  <2>4. Len(its) < MaxIterations
    BY <1>2, <2>3, VerdictFacts
  <2> QED
    BY <1>3, <2>4 DEF Extends
<1>9. new.loop = j /\ new.pc = "find" /\ new.next = it
  OBVIOUS
<1> HIDE DEF new, it, its
<1> QED
  BY <1>3, <1>5, <1>6, <1>7, <1>8, <1>9, TakesUp DEF its

LEMMA StartStopInv ==
  ASSUME LoopInv, NEW r \in Request, StartStop(r)
  PROVE  LoopInv'
<1>1. PICK j \in Running :
        WorksOn(r, j, [NoLooping EXCEPT !.pc = "complete", !.loop = j, !.verdict = "stopped"])
  BY DEF StartStop
<1> DEFINE new == [NoLooping EXCEPT !.pc = "complete", !.loop = j, !.verdict = "stopped"]
<1>2. /\ new \in Looping /\ new.loop = j /\ new.pc = "complete" /\ new.verdict # Nil
  BY LoopRows, EmptySeq, LoopAssumption DEF Running, LoopInv, NoLooping, Looping
<1>3. WorksOn(r, j, new)
  BY <1>1
<1>4. looping[r].pc = "idle" /\ UNCHANGED <<loops, doubled>>
  BY DEF StartStop, MayLoop
<1> HIDE DEF new
<1> QED
  BY <1>2, <1>3, <1>4, TakesUp

(* What a request at work on a run is entitled to assume *)
LEMMA AtWork ==
  ASSUME LoopInv, NEW r \in Request, looping[r].pc \in {"find", "append", "complete"}
  PROVE  LET i == looping[r].loop
         IN  /\ i \in DOMAIN loops /\ i # 0
             /\ loops[i] \in LoopRow /\ loops[i].iterations \in Seq(Iteration)
             /\ looping[r] \in Looping
             /\ looping[r].pc \in {"find", "append"} => looping[r].next \in Iteration
             /\ i \notin muddled =>
                  /\ RunKept(i) /\ Extends(looping[r], loops[i].iterations)
                  /\ \A q \in Request : looping[q].loop = i => q = r
<1> DEFINE i == looping[r].loop
<1>1. i \in DOMAIN loops /\ i # 0 /\ looping[r] \in Looping
  BY DEF LoopInv, LoopShape
<1>2. i \notin muddled =>
        /\ RunKept(i) /\ Extends(looping[r], loops[i].iterations)
        /\ \A q \in Request : looping[q].loop = i => q = r
  BY <1>1 DEF LoopInv, RunKept
<1>3. looping[r].pc \in {"find", "append"} => looping[r].next \in Iteration
  BY DEF LoopInv, LoopShape
<1> HIDE DEF i
<1>4. loops[i] \in LoopRow /\ loops[i].iterations \in Seq(Iteration)
  BY <1>1, LoopRows DEF LoopInv
<1> QED
  BY <1>1, <1>2, <1>3, <1>4 DEF i

LEMMA FindIterationsInv ==
  ASSUME LoopInv, NEW r \in Request, FindIterations(r)
  PROVE  LoopInv'
<1>0. PICK i : i = looping[r].loop
  OBVIOUS
<1> DEFINE new == [looping[r] EXCEPT !.pc = "append", !.read = loops[i].iterations]
<1>1. looping[r].pc = "find" /\ UNCHANGED <<loops, doubled, muddled>>
  BY DEF FindIterations
<1>2. /\ i \in DOMAIN loops /\ i # 0 /\ loops[i].iterations \in Seq(Iteration)
      /\ looping[r] \in Looping /\ looping[r].next \in Iteration
      /\ i \notin muddled =>
           /\ RunKept(i) /\ Extends(looping[r], loops[i].iterations)
           /\ \A q \in Request : looping[q].loop = i => q = r
  BY <1>0, <1>1, AtWork
<1>3. looping' = [looping EXCEPT ![r] = new]
  BY <1>0, <1>2 DEF FindIterations, LoopInv, LoopShape, Looping
<1>4. /\ new \in Looping /\ new.pc = "append" /\ new.loop = i
      /\ new.next = looping[r].next /\ new.verdict = looping[r].verdict
      /\ new.read = loops[i].iterations
  BY <1>0, <1>2 DEF Looping
<1> HIDE DEF new
<1>5. /\ looping' \in [Request -> Looping] /\ looping'[r] = new
      /\ \A q \in Request \ {r} : looping'[q] = looping[q]
  BY <1>3, <1>4, LoopSlot DEF LoopInv
<1>6. LoopShape'
  BY <1>1, <1>2, <1>4, <1>5 DEF LoopInv, LoopShape
<1>7. OneRunning'
  <2>1. Running' = Running
    BY <1>1 DEF Running
  <2> QED
    BY <1>1, <1>4, <1>5, <2>1 DEF LoopInv, OneRunning
<1>8. ASSUME NEW j \in DOMAIN loops \ muddled, i # j PROVE RunKept(j)'
  <2>1. RunKept(j) /\ loops'[j] = loops[j] /\ j \in DOMAIN loops'
    BY <1>1 DEF LoopInv
  <2> QED
    BY <1>4, <1>5, <1>8, <2>1, RunUntouched, <1>0
<1>9. ASSUME i \notin muddled PROVE RunKept(i)'
  <2>1. Extends(new, loops[i].iterations)
    BY <1>1, <1>2, <1>4, <1>9 DEF Extends
  <2>2. \A q \in Request : looping'[q].loop = i => q = r
    BY <1>2, <1>4, <1>5, <1>9
  <2> QED
    BY <1>1, <1>2, <1>4, <1>5, <1>9, <2>1, <2>2 DEF RunKept
<1>10. \A j \in (DOMAIN loops \ muddled)' : RunKept(j)'
  BY <1>1, <1>8, <1>9
<1> QED
  BY <1>6, <1>7, <1>10 DEF LoopInv

(* One row changes: the others are what they were. *)
LEMMA LoopRowSet ==
  ASSUME LoopShape, NEW i \in DOMAIN loops, NEW row \in LoopRow, loops' = [loops EXCEPT ![i] = row]
  PROVE  /\ loops' \in Seq(LoopRow) /\ DOMAIN loops' = DOMAIN loops /\ loops'[i] = row
         /\ \A j \in DOMAIN loops \ {i} : loops'[j] = loops[j]
<1>1. DOMAIN loops = 1 .. Len(loops) /\ loops \in Seq(LoopRow)
  BY LoopRows DEF LoopShape
<1>2. loops' \in Seq(LoopRow) /\ \A j \in 1 .. Len(loops) : loops'[j] = IF j = i THEN row ELSE loops[j]
  BY <1>1, ExceptSeq
<1> QED
  BY <1>1, <1>2

(* The numbers and the length of a list that is one longer *)
LEMMA NumberedAppend ==
  ASSUME NEW its \in Seq(Iteration), NEW it \in Iteration, Numbered(its),
         it.number = Len(its) + 1, Len(its) < MaxIterations
  PROVE  Numbered(Append(its, it))
<1> DEFINE all == Append(its, it)
<1>1. /\ all \in Seq(Iteration) /\ Len(all) = Len(its) + 1 /\ all[Len(its) + 1] = it
      /\ \A k \in 1 .. Len(its) : all[k] = its[k]
  BY AppendProperties
<1>2. DOMAIN all = 1 .. Len(its) + 1 /\ DOMAIN its = 1 .. Len(its) /\ Len(its) \in Nat
  BY <1>1, LenProperties
<1> HIDE DEF all
<1>3. \A k \in DOMAIN all : all[k].number = k
  BY <1>1, <1>2 DEF Numbered
<1> QED
  BY <1>1, <1>2, <1>3, LoopAssumption DEF Numbered, all

LEMMA WriteIterationsInv ==
  ASSUME LoopInv, NEW r \in Request, WriteIterations(r)
  PROVE  LoopInv'
<1>0. PICK i : i = looping[r].loop
  OBVIOUS
<1> DEFINE its == loops[i].iterations
           it  == looping[r].next
           all == Append(looping[r].read, it)
           row == [loops[i] EXCEPT !.iterations = all]
           new == IF looping[r].verdict = Nil THEN NoLooping
                  ELSE [looping[r] EXCEPT !.pc = "complete"]
<1>1. looping[r].pc = "append" /\ UNCHANGED <<doubled, muddled>>
  BY DEF WriteIterations
<1>2. /\ i \in DOMAIN loops /\ i # 0 /\ its \in Seq(Iteration) /\ loops[i] \in LoopRow
      /\ looping[r] \in Looping /\ it \in Iteration
      /\ i \notin muddled =>
           /\ RunKept(i) /\ Extends(looping[r], its)
           /\ \A q \in Request : looping[q].loop = i => q = r
  BY <1>0, <1>1, AtWork
<1>3. all \in Seq(Iteration)
  BY <1>2, AppendProperties DEF Looping
<1>4. row \in LoopRow /\ row.status = loops[i].status /\ row.iterations = all
  BY <1>2, <1>3 DEF LoopRow
<1>5. loops' = [loops EXCEPT ![i] = row]
  BY <1>0, <1>2 DEF WriteIterations, LoopInv, LoopShape
<1>6. /\ new \in Looping
      /\ new.loop \in {0, i} /\ new.pc \in {"idle", "complete"}
      /\ new.loop = 0 <=> new.pc = "idle"
      /\ new.loop = 0 => looping[r].verdict = Nil
      /\ new.pc = "complete" => new.verdict # Nil
  BY <1>0, <1>2, LoopRows DEF LoopInv, Looping
<1>7. looping' = [looping EXCEPT ![r] = new]
  BY <1>0, <1>2 DEF WriteIterations, LoopInv, LoopShape, Looping
<1> HIDE DEF new, row, all, its, it
<1>8. /\ looping' \in [Request -> Looping] /\ looping'[r] = new
      /\ \A q \in Request \ {r} : looping'[q] = looping[q]
  BY <1>6, <1>7, LoopSlot DEF LoopInv
<1>9. /\ loops' \in Seq(LoopRow) /\ DOMAIN loops' = DOMAIN loops /\ loops'[i] = row
      /\ \A j \in DOMAIN loops \ {i} : loops'[j] = loops[j]
  BY <1>2, <1>4, <1>5, LoopRowSet DEF LoopInv
<1>10. LoopShape'
  BY <1>1, <1>2, <1>6, <1>8, <1>9 DEF LoopInv, LoopShape
<1>11. OneRunning'
  <2>1. Running' = Running
    BY <1>2, <1>4, <1>9 DEF Running
  <2> QED
    BY <1>1, <1>6, <1>8, <2>1 DEF LoopInv, OneRunning
<1>12. ASSUME NEW j \in DOMAIN loops \ muddled, i # j PROVE RunKept(j)'
  <2>1. RunKept(j) /\ loops'[j] = loops[j] /\ j \in DOMAIN loops' /\ j # 0
    BY <1>9, <1>12, LoopRows DEF LoopInv
  <2>2. looping[r].loop # j /\ new.loop # j
    BY <1>6, <1>0, <1>12, <2>1
  <2> QED
    BY <1>8, <2>1, <2>2, RunUntouched
<1>13. ASSUME i \notin muddled PROVE RunKept(i)'
  <2>1. /\ Numbered(its) /\ looping[r].read = its /\ it.number = Len(its) + 1
        /\ looping[r].verdict = Verdict(Append(its, it)) /\ Len(its) < MaxIterations
    BY <1>1, <1>2, <1>13 DEF RunKept, Extends, its, it
  <2>2. all = Append(its, it) /\ Numbered(all)
    BY <1>2, <2>1, NumberedAppend DEF all
  <2>3. \A q \in Request : looping'[q].loop = i => q = r /\ looping'[q].pc = "complete"
    BY <1>2, <1>6, <1>8, <1>13
  <2>4. (\A q \in Request : looping'[q].loop # i) => Verdict(all) = Nil
    BY <1>6, <1>8, <2>1, <2>2
  <2>5. loops'[i].iterations = all
    BY <1>4, <1>9
  <2>6. \A q \in Request : looping'[q].loop = i => Extends(looping'[q], loops'[i].iterations)
    BY <2>3 DEF Extends
  <2> QED
    BY <2>2, <2>3, <2>4, <2>5, <2>6 DEF RunKept
<1>14. \A j \in (DOMAIN loops \ muddled)' : RunKept(j)'
  BY <1>1, <1>9, <1>12, <1>13
<1> QED
  BY <1>10, <1>11, <1>14 DEF LoopInv

LEMMA CompleteLoopInv ==
  ASSUME LoopInv, NEW r \in Request, CompleteLoop(r)
  PROVE  LoopInv'
<1>0. PICK i : i = looping[r].loop
  OBVIOUS
<1> DEFINE row == [loops[i] EXCEPT !.status = looping[r].verdict]
<1>1. looping[r].pc = "complete" /\ UNCHANGED <<doubled, muddled>>
  BY DEF CompleteLoop
<1>2. /\ i \in DOMAIN loops /\ i # 0 /\ loops[i] \in LoopRow /\ looping[r] \in Looping
      /\ i \notin muddled => RunKept(i) /\ \A q \in Request : looping[q].loop = i => q = r
  BY <1>0, <1>1, AtWork
<1>3. looping[r].verdict \in {"converged", "stopped"}
  BY <1>0, <1>1, <1>2 DEF LoopInv, LoopShape, Looping
<1>4. row \in LoopRow /\ row.status # "running" /\ row.iterations = loops[i].iterations
  BY <1>2, <1>3 DEF LoopRow
<1>5. loops' = [loops EXCEPT ![i] = row]
  BY <1>0, <1>2 DEF CompleteLoop, LoopInv, LoopShape
<1>6. looping' = [looping EXCEPT ![r] = NoLooping]
  BY DEF CompleteLoop
<1> HIDE DEF row
<1>7. NoLooping \in Looping /\ NoLooping.pc = "idle" /\ NoLooping.loop = 0
  BY LoopRows DEF LoopInv
<1>8. /\ looping' \in [Request -> Looping] /\ looping'[r] = NoLooping
      /\ \A q \in Request \ {r} : looping'[q] = looping[q]
  BY <1>6, <1>7, LoopSlot DEF LoopInv
<1>9. /\ loops' \in Seq(LoopRow) /\ DOMAIN loops' = DOMAIN loops /\ loops'[i] = row
      /\ \A j \in DOMAIN loops \ {i} : loops'[j] = loops[j]
  BY <1>2, <1>4, <1>5, LoopRowSet DEF LoopInv
<1>10. LoopShape'
  BY <1>1, <1>7, <1>8, <1>9 DEF LoopInv, LoopShape
<1>11. Running' = Running \ {i}
  BY <1>4, <1>9 DEF Running
<1>12. OneRunning'
  BY <1>1, <1>7, <1>8, <1>11 DEF LoopInv, OneRunning
<1>13. ASSUME NEW j \in DOMAIN loops \ muddled, i # j PROVE RunKept(j)'
  <2>1. RunKept(j) /\ loops'[j] = loops[j] /\ j \in DOMAIN loops' /\ j # 0
    BY <1>9, <1>13, LoopRows DEF LoopInv
  <2>2. looping[r].loop # j
    BY <1>0, <1>13
  <2> QED
    BY <1>7, <1>8, <2>1, <2>2, RunUntouched
<1>14. ASSUME i \notin muddled PROVE RunKept(i)'
  <2>1. \A q \in Request : looping'[q].loop # i
    BY <1>2, <1>7, <1>8, <1>14
  <2>2. Numbered(loops'[i].iterations)
    BY <1>2, <1>4, <1>9, <1>14 DEF RunKept
  <2> QED
    BY <1>11, <2>1, <2>2 DEF RunKept
<1>15. \A j \in (DOMAIN loops \ muddled)' : RunKept(j)'
  BY <1>1, <1>9, <1>13, <1>14
<1> QED
  BY <1>10, <1>12, <1>15 DEF LoopInv

LEMMA CrashLoopInv ==
  ASSUME LoopInv, CrashLoop
  PROVE  LoopInv'
<1>1. looping' = [r \in Request |-> NoLooping] /\ UNCHANGED <<loops, doubled>>
  BY DEF CrashLoop
<1>2. NoLooping \in Looping /\ NoLooping.pc = "idle" /\ NoLooping.loop = 0
  BY LoopRows DEF LoopInv
<1>3. /\ muddled' \subseteq DOMAIN loops /\ muddled \subseteq muddled'
      /\ \A q \in Request : looping[q].loop \in muddled' \cup {0}
  BY DEF CrashLoop, LoopInv, LoopShape
<1>4. LoopShape'
  BY <1>1, <1>2, <1>3 DEF LoopInv, LoopShape
<1>5. OneRunning'
  <2>1. Running' = Running
    BY <1>1 DEF Running
  <2> QED
    BY <1>1, <1>2, <2>1 DEF LoopInv, OneRunning
<1>6. ASSUME NEW i \in DOMAIN loops \ muddled' PROVE RunKept(i)'
  <2>1. RunKept(i) /\ i # 0 /\ loops'[i] = loops[i] /\ i \in DOMAIN loops'
    BY <1>1, <1>3, LoopRows DEF LoopInv
  <2>2. \A q \in Request : looping[q].loop # i /\ looping'[q].loop # i
    BY <1>1, <1>2, <1>3, <2>1
  <2> QED
    BY <2>1, <2>2, RunUntouched
<1> QED
  BY <1>1, <1>4, <1>5, <1>6 DEF LoopInv

LEMMA LoopStepInv == LoopInv /\ [LoopNext]_loopVars => LoopInv'
<1> SUFFICES ASSUME LoopInv, [LoopNext]_loopVars PROVE LoopInv'
  OBVIOUS
<1>1. CASE UNCHANGED loopVars
  <2>1. UNCHANGED <<loops, looping, doubled, muddled>>
    BY <1>1 DEF loopVars
  <2>2. LoopShape' /\ OneRunning'
    BY <2>1 DEF LoopInv, LoopShape, OneRunning, Running
  <2>3. \A i \in DOMAIN loops \ muddled : RunKept(i)'
    BY <2>1, RunUntouched DEF LoopInv
  <2> QED
    BY <2>1, <2>2, <2>3 DEF LoopInv
<1>2. CASE LoopNext
  BY <1>2, StartLoopInv, CreateLoopInv, StartIterationInv, FindIterationsInv,
     WriteIterationsInv, CompleteLoopInv, StartStopInv, CrashLoopInv DEF LoopNext
<1> QED
  BY <1>1, <1>2

(* The invariant behind both theorems below *)
LEMMA LoopInvariant == LoopSpec => []LoopInv
  BY LoopInitInv, LoopStepInv, PTL DEF LoopSpec

(* Runs and requests are well typed, and a request that works on a run has *)
(* one.                                                                    *)
THEOREM LoopTypeCorrect == LoopSpec => []KnowledgeLoopTypeOK
<1>1. LoopInv => KnowledgeLoopTypeOK
  <2> SUFFICES ASSUME LoopInv PROVE KnowledgeLoopTypeOK
    OBVIOUS
  <2>1. \A i \in DOMAIN loops : loops[i].status \in {"running", "converged", "stopped"}
    BY LoopRows DEF LoopInv, LoopRow
  <2>2. doubled \in BOOLEAN /\ muddled \subseteq DOMAIN loops
    BY DEF LoopInv, LoopShape
  <2>3. ASSUME NEW r \in Request
        PROVE  /\ looping[r].pc \in {"idle", "create", "find", "append", "complete"}
               /\ looping[r].pc \in {"find", "append", "complete"} =>
                    looping[r].loop \in DOMAIN loops
    BY <2>3 DEF LoopInv, LoopShape, Looping
  <2> QED
    BY <2>1, <2>2, <2>3 DEF KnowledgeLoopTypeOK
<1> QED
  BY <1>1, LoopInvariant, PTL

(* A plan has one running loop at most, unless two starts overlapped; its  *)
(* iterations are numbered without a gap up to the limit and end the run   *)
(* in time, unless requests met on it (loopService).                       *)
THEOREM LoopSoundness == LoopSpec => []LoopSound
<1>1. LoopInv => LoopSound
  <2> SUFFICES ASSUME LoopInv PROVE LoopSound
    OBVIOUS
  <2>1. ~doubled => \A i, j \in Running : i = j
    BY DEF LoopInv, OneRunning
  <2>2. \A i \in DOMAIN loops \ muddled : RunKept(i)
    BY DEF LoopInv
  <2> QED
    BY <2>1, <2>2 DEF LoopSound, RunKept, Numbered
<1> QED
  BY <1>1, LoopInvariant, PTL

HIDE DEF LoopAt, LoopDone

-----------------------------------------------------------------------------
(***************************************************************************)
(* Learnings. Proof that the marks of the checks and the links that explain *)
(* them agree, and that the check for the organization passes no open task *)
(* over, for any number of tasks and requests.                             *)
(*                                                                         *)
(* The invariant says of a task between the two statements that the first   *)
(* was carried out or failed (NowMarked), and follows a superseded fact      *)
(* through the request that will mark the tasks about it (LessonOwed).       *)
(***************************************************************************)
LearningRow == [pc : {"idle", "name", "link", "answer", "done"}, via : {"post", "planned", "update", Nil},
                org : BOOLEAN, task : Lesson \cup {Nil}, subject : Subject \cup {Nil}, episode : Int \cup {Nil}]
CheckRow == [pc : {"idle", "find", "consult", "mark", "tie"}, todo : SUBSET Lesson, now : Lesson \cup {Nil}]

(* A request has its checks done only after its episode is linked. *)
InTurn(q, c) ==
  /\ q.pc \in {"idle", "name", "link"} => \A k \in Checks : c[k].pc = "idle"
  /\ q.pc = "answer" => c["async"].pc = "idle"
  /\ \A k \in Checks : /\ c[k].pc = "mark" => c[k].todo # {}
                       /\ c[k].pc = "tie" => c[k].now \in Lesson

LearningShape ==
  /\ status \in [Lesson -> LessonStates] /\ belief \in [Lesson -> Beliefs]
  /\ ingested \in Nat /\ lessons \in Nat /\ known \subseteq outdated
  /\ learning \in [Request -> LearningRow] /\ check \in [Request -> [Checks -> CheckRow]]
  /\ \A r \in Request : InTurn(learning[r], check[r])
  /\ \A n \in Lesson \ handled : status[n] = "open"

(* Between the two statements the first one is done, or has failed. *)
NowMarked ==
  \A n \in Lesson : Tying(n) => n \in handled \/ belief[n] = "contradicted" \/ Mishap(n, "mark")

(* Is the check of r going to mark task n, if superseded facts on s are    *)
(* found?                                                                  *)
WillMark(r, s, n) ==
  /\ learning[r].subject = s /\ learning[r].org
  /\ \/ check[r]["async"].pc = "find"
     \/ check[r]["async"].pc \in {"consult", "mark", "tie"} /\ n \in check[r]["async"].todo

Missed(s, n) == \E h \in mishaps : h.check = "async" /\ h.subject = s /\ h.task = n /\ h.step # "tie"

LessonDue(s, n) == s \in About[n] /\ LessonPlan[n] \in activePlans /\ Cardinality(Lesson) <= AsyncLimit

LessonOwed ==
  \A s \in known, n \in Lesson \ handled :
    LessonDue(s, n) => belief[n] = "contradicted" \/ Missed(s, n) \/ \E r \in Request : WillMark(r, s, n)

LearningInv == LearningShape /\ NowMarked /\ MarksExplained /\ ConflictsMarked /\ LessonOwed

LEMMA LearningRows ==
  /\ NoLearning \in LearningRow /\ NoLearning.pc = "idle"
  /\ NoCheck \in CheckRow /\ NoCheck.pc = "idle"
  BY DEF NoLearning, LearningRow, NoCheck, CheckRow

LEMMA LearningInitInv == LearningInit => LearningInv
<1> SUFFICES ASSUME LearningInit PROVE LearningInv
  OBVIOUS
<1>1. LearningShape
  BY LearningRows DEF LearningInit, LearningShape, InTurn, Checks, LessonStates, Beliefs
<1>2. NowMarked /\ MarksExplained /\ ConflictsMarked /\ LessonOwed
  BY LearningRows DEF LearningInit, NowMarked, Tying, MarksExplained, ConflictsMarked, Conflicts, Contradicts, LessonOwed
<1> QED
  BY <1>1, <1>2 DEF LearningInv

-----------------------------------------------------------------------------
(* What each part of the invariant survives *)

(* What went wrong, and what people did, is not forgotten. *)
Remembered == handled \subseteq handled' /\ relinked \subseteq relinked' /\ mishaps \subseteq mishaps'

LEMMA MishapKept ==
  ASSUME mishaps \subseteq mishaps', NEW n, NEW step, Mishap(n, step)
  PROVE  Mishap(n, step)'
  BY DEF Mishap

LEMMA NowMarkedKept ==
  ASSUME NowMarked, Remembered,
         \A n \in Lesson \ handled' :
           /\ belief[n] = "contradicted" => belief'[n] = "contradicted"
           /\ Tying(n)' => Tying(n) \/ belief'[n] = "contradicted" \/ Mishap(n, "mark")'
  PROVE  NowMarked'
<1> SUFFICES ASSUME NEW n \in Lesson \ handled', Tying(n)'
             PROVE  belief'[n] = "contradicted" \/ Mishap(n, "mark")'
  BY DEF NowMarked
<1>1. CASE Tying(n)
  <2>1. belief[n] = "contradicted" \/ Mishap(n, "mark")
    BY <1>1 DEF NowMarked, Remembered
  <2>2. CASE Mishap(n, "mark")
    BY <2>2, MishapKept DEF Remembered
  <2> QED
    BY <2>1, <2>2
<1> QED
  BY <1>1

(* Marks are explained as long as links stay and the task being marked is. *)
LEMMA ExplainedKept ==
  ASSUME LearningShape', MarksExplained, Remembered,
         \A n \in Lesson \ (handled' \cup relinked') :
           /\ belief'[n] = "contradicted" => belief[n] = "contradicted"
           /\ Contradicts(n) => Contradicts(n)'
           /\ Tying(n) => Tying(n)' \/ Contradicts(n)' \/ Mishap(n, "tie")'
  PROVE  MarksExplained'
<1> SUFFICES ASSUME NEW n \in Lesson \ (handled' \cup relinked'), belief'[n] = "contradicted"
             PROVE  Contradicts(n)' \/ Tying(n)' \/ Mishap(n, "tie")'
  BY DEF MarksExplained, Conflicts, LearningShape
<1>1. n \in Lesson \ (handled \cup relinked)
  BY DEF Remembered
<1>2. n \in Conflicts \/ Tying(n) \/ Mishap(n, "tie")
  BY <1>1 DEF MarksExplained
<1>3. CASE Mishap(n, "tie")
  BY <1>3, MishapKept DEF Remembered
<1> QED
  BY <1>2, <1>3 DEF Conflicts

LEMMA MarkedKept ==
  ASSUME LearningShape, ConflictsMarked, Remembered,
         \A n \in Lesson \ (handled' \cup relinked') :
           /\ belief[n] = "contradicted" => belief'[n] = "contradicted"
           /\ Contradicts(n)' => Contradicts(n) \/ belief'[n] = "contradicted" \/ Mishap(n, "mark")'
  PROVE  ConflictsMarked'
<1> SUFFICES ASSUME NEW n \in Lesson \ (handled' \cup relinked'), Contradicts(n)'
             PROVE  belief'[n] = "contradicted" \/ Mishap(n, "mark")'
  BY DEF ConflictsMarked, Conflicts
<1>1. n \in Lesson \ (handled \cup relinked)
  BY DEF Remembered
<1>2. CASE Contradicts(n)
  <2>1. n \in Conflicts
    BY <1>1, <1>2 DEF Conflicts, LearningShape
  <2>2. belief[n] = "contradicted" \/ Mishap(n, "mark")
    BY <1>1, <2>1 DEF ConflictsMarked
  <2>3. CASE Mishap(n, "mark")
    BY <2>3, MishapKept DEF Remembered
  <2> QED
    BY <2>2, <2>3
<1> QED
  BY <1>2

LEMMA LessonOwedKept ==
  ASSUME LessonOwed, known' \subseteq known, Remembered,
         \A n \in Lesson \ handled' : /\ belief[n] = "contradicted" => belief'[n] = "contradicted"
                                      /\ LessonPlan[n] \in activePlans' => LessonPlan[n] \in activePlans,
         \A r \in Request, s \in known, n \in Lesson \ handled' :
           WillMark(r, s, n) => WillMark(r, s, n)' \/ belief'[n] = "contradicted" \/ Missed(s, n)'
  PROVE  LessonOwed'
<1> SUFFICES ASSUME NEW s \in known', NEW n \in Lesson \ handled', LessonDue(s, n)'
             PROVE  belief'[n] = "contradicted" \/ Missed(s, n)' \/ \E r \in Request : WillMark(r, s, n)'
  BY DEF LessonOwed
<1>1. s \in known /\ n \in Lesson \ handled /\ LessonDue(s, n)
  BY DEF Remembered, LessonDue
<1>2. belief[n] = "contradicted" \/ Missed(s, n) \/ \E r \in Request : WillMark(r, s, n)
  BY <1>1 DEF LessonOwed
<1>3. CASE Missed(s, n)
  BY <1>3 DEF Missed, Remembered
<1> QED
  BY <1>1, <1>2, <1>3

(* A step that marks nothing, and makes links of another kind at most *)
LEMMA QuietStep ==
  ASSUME LearningInv, LearningShape', UNCHANGED <<status, belief, activePlans, handled, relinked, mishaps>>,
         tied \subseteq tied', \A l \in tied' \ tied : l.type = "informs",
         \A r \in Request, k \in Checks :
           check[r][k].pc = "tie" \/ check'[r][k].pc = "tie" => check'[r][k] = check[r][k],
         LessonOwed'
  PROVE  LearningInv'
<1>1. Remembered
  BY DEF Remembered
<1>2. \A n \in Lesson : Tying(n) <=> Tying(n)'
  BY DEF Tying
<1>3. \A n \in Lesson : Contradicts(n) <=> Contradicts(n)'
  BY DEF Contradicts
<1>6. NowMarked'
  BY <1>1, <1>2, NowMarkedKept DEF LearningInv
<1>4. MarksExplained'
  BY <1>1, <1>2, <1>3, ExplainedKept DEF LearningInv
<1>5. ConflictsMarked'
  BY <1>1, <1>3, MarkedKept DEF LearningInv
<1> QED
  BY <1>4, <1>5, <1>6 DEF LearningInv

(* A step of one request that has nothing to do with its checks *)
LEMMA LearningMoves ==
  ASSUME LearningInv, NEW r \in Request, NEW new \in LearningRow,
         learning' = [learning EXCEPT ![r] = new], InTurn(new, check[r]),
         \/ new.subject = learning[r].subject /\ new.org = learning[r].org
         \/ check[r]["async"].pc = "idle",
         lessons' \in Nat,
         UNCHANGED <<status, belief, activePlans, ingested, outdated, tied, check, known, handled,
                     relinked, mishaps>>
  PROVE  LearningInv'
<1>1. /\ learning' \in [Request -> LearningRow] /\ learning'[r] = new
      /\ \A q \in Request \ {r} : learning'[q] = learning[q]
  BY DEF LearningInv, LearningShape
<1>2. LearningShape'
  BY <1>1 DEF LearningInv, LearningShape
<1>3. \A q \in Request, s \in known, n \in Lesson : WillMark(q, s, n) => WillMark(q, s, n)'
  BY <1>1 DEF WillMark
<1>4. LessonOwed'
  BY <1>3, LessonOwedKept DEF LearningInv, Remembered
<1> QED
  BY <1>2, <1>4, QuietStep

LEMMA Opposite ==
  ASSUME NEW l \in Nat
  PROVE  \E e \in Int : - l = e
<1>1. - l = 0 - l
  OBVIOUS
<1> QED
  BY <1>1

LEMMA AddEpisodeInv ==
  ASSUME LearningInv, NEW r \in Request, NEW via \in {"post", "planned", "update"}, NEW org \in BOOLEAN,
         NEW n \in Lesson, NEW s \in Subject, AddEpisode(r, via, org, n, s)
  PROVE  LearningInv'
<1> DEFINE new == [pc |-> "name", via |-> via, org |-> org /\ via # "update", task |-> n, subject |-> s,
                   episode |-> - lessons']
<1>1. /\ learning[r].pc = "idle" /\ \A k \in Checks : check[r][k].pc = "idle"
      /\ lessons' = lessons + 1 /\ learning' = [learning EXCEPT ![r] = new]
      /\ UNCHANGED <<status, belief, activePlans, ingested, outdated, tied, check, known, handled,
                     relinked, mishaps>>
  BY DEF AddEpisode, OneMoreLesson
<1>2. lessons' \in Nat
  BY <1>1 DEF LearningInv, LearningShape
<1>3. new \in LearningRow /\ new.pc = "name"
  <2>1. PICK e \in Int : - lessons' = e
    BY <1>2, Opposite
  <2>2. PICK b \in BOOLEAN : b = (org /\ via # "update")
    OBVIOUS
  <2>3. new = [pc |-> "name", via |-> via, org |-> b, task |-> n, subject |-> s, episode |-> e]
    BY <2>1, <2>2, Zenon
  <2> HIDE DEF new
  <2> QED
    BY <2>3 DEF LearningRow
<1> HIDE DEF new
<1>4. InTurn(new, check[r]) /\ check[r]["async"].pc = "idle"
  BY <1>1, <1>3 DEF InTurn, Checks
<1> QED
  BY <1>1, <1>2, <1>3, <1>4, LearningMoves

LEMMA ResolveInv ==
  ASSUME LearningInv, NEW r \in Request, ResolveEpisodeIdByName(r)
  PROVE  LearningInv'
<1> DEFINE q     == learning[r]
           match == {e \in 1 .. ingested : accepted[e].name = NameOf(q.via, q.task, q.subject)}
<1>1. PICK e \in {f \in match : \A g \in match : g <= f} \cup {q.episode} :
        learning' = [learning EXCEPT ![r].pc = "link", ![r].episode = e]
  BY DEF ResolveEpisodeIdByName
<1> DEFINE new == [q EXCEPT !.pc = "link", !.episode = e]
<1>2. /\ q.pc = "name" /\ q \in LearningRow /\ InTurn(q, check[r]) /\ ingested \in Nat /\ lessons \in Nat
      /\ UNCHANGED <<status, belief, activePlans, accepted, ingested, outdated, tied, check,
                     lessons, known, handled, relinked, mishaps>>
  BY DEF ResolveEpisodeIdByName, LearningInv, LearningShape
<1>3. e \in Int \cup {Nil}
  <2>1. CASE e \in match
    BY <1>2, <2>1
  <2>2. CASE e = q.episode
    BY <1>2, <2>2 DEF LearningRow
  <2> QED
    BY <1>1, <2>1, <2>2
<1>4. learning' = [learning EXCEPT ![r] = new]
  BY <1>1, <1>2 DEF LearningInv, LearningShape, LearningRow
<1>5. /\ new \in LearningRow /\ new.pc = "link" /\ new.subject = q.subject /\ new.org = q.org
  BY <1>2, <1>3 DEF LearningRow
<1> HIDE DEF new, match
<1>6. InTurn(new, check[r])
  BY <1>2, <1>5 DEF InTurn
<1> QED
  BY <1>2, <1>4, <1>5, <1>6, LearningMoves

LEMMA LearningOverInv ==
  ASSUME LearningInv, NEW r \in Request, LearningOver(r)
  PROVE  LearningInv'
<1>1. InTurn(NoLearning, check[r]) /\ check[r]["async"].pc = "idle"
  BY LearningRows DEF LearningOver, InTurn, LearningInv, LearningShape, Checks
<1>2. /\ lessons' \in Nat /\ learning' = [learning EXCEPT ![r] = NoLearning]
      /\ UNCHANGED <<status, belief, activePlans, ingested, outdated, tied, check, known, handled,
                     relinked, mishaps>>
  BY DEF LearningOver, LearningInv, LearningShape
<1> QED
  BY <1>1, <1>2, LearningRows, LearningMoves, Zenon

(* The check k of request r goes on. *)
LEMMA CheckSlot ==
  ASSUME LearningShape, NEW r \in Request, NEW k \in Checks, NEW new \in CheckRow,
         check' = [check EXCEPT ![r][k] = new]
  PROVE  /\ check' \in [Request -> [Checks -> CheckRow]] /\ check'[r][k] = new
         /\ \A q \in Request, j \in Checks : q # r \/ j # k => check'[q][j] = check[q][j]
<1>1. check \in [Request -> [Checks -> CheckRow]] /\ check[r] \in [Checks -> CheckRow]
  BY DEF LearningShape
<1>2. check' = [check EXCEPT ![r] = [check[r] EXCEPT ![k] = new]]
  BY <1>1
<1> QED
  BY <1>1, <1>2

LEMMA LinkEpisodeInv ==
  ASSUME LearningInv, NEW r \in Request, LinkEpisode(r)
  PROVE  LearningInv'
<1> DEFINE q   == learning[r]
           new == IF q.via = "update" THEN NoLearning ELSE [q EXCEPT !.pc = "answer"]
           c   == IF q.via = "planned" THEN [check[r]["sync"] EXCEPT !.pc = "find"] ELSE check[r]["sync"]
           row == [episode |-> q.episode, task |-> q.task, type |-> "informs"]
<1>1. /\ q.pc = "link" /\ tied' \in {tied, tied \cup {row}}
      /\ learning' = [learning EXCEPT ![r] = new]
      /\ UNCHANGED <<status, belief, activePlans, accepted, ingested, outdated, lessons, known,
                     handled, relinked, mishaps>>
  BY DEF LinkEpisode, TiedTo, LearningInv, LearningShape, LearningRow
<1>2. q \in LearningRow /\ InTurn(q, check[r]) /\ check[r] \in [Checks -> CheckRow]
  BY DEF LearningInv, LearningShape
<1>3. /\ new \in LearningRow /\ new.pc \in {"idle", "answer"}
      /\ new.pc = "idle" => q.via = "update"
  BY <1>2, LearningRows DEF LearningRow
<1>4. c \in CheckRow /\ c.pc \in {"idle", "find"} /\ (q.via = "update" => c.pc = "idle")
  BY <1>1, <1>2 DEF CheckRow, InTurn, Checks
<1>5. check' = [check EXCEPT ![r]["sync"] = c]
  <2>1. CASE q.via = "planned"
    BY <1>2, <2>1 DEF LinkEpisode, LearningInv, LearningShape, CheckRow, Checks
  <2>2. CASE q.via # "planned"
    BY <1>2, <2>2 DEF LinkEpisode, LearningInv, LearningShape, CheckRow, Checks
  <2> QED
    BY <2>1, <2>2
<1>a. tied \subseteq tied' /\ \A l \in tied' \ tied : l.type = "informs"
  BY <1>1
<1> HIDE DEF new, c, q, row
<1>6. /\ learning' \in [Request -> LearningRow] /\ learning'[r] = new
      /\ \A p \in Request \ {r} : learning'[p] = learning[p]
  BY <1>1, <1>3 DEF LearningInv, LearningShape
<1>7. /\ check' \in [Request -> [Checks -> CheckRow]] /\ check'[r]["sync"] = c
      /\ \A p \in Request, j \in Checks : p # r \/ j # "sync" => check'[p][j] = check[p][j]
  BY <1>4, <1>5, CheckSlot DEF LearningInv, Checks
<1>8. check[r]["async"].pc = "idle" /\ check[r]["sync"].pc = "idle" /\ check'[r]["async"].pc = "idle"
  BY <1>1, <1>2, <1>7 DEF InTurn, Checks
<1>9. LearningShape'
  <2>1. InTurn(learning'[r], check'[r])
    BY <1>3, <1>4, <1>6, <1>7, <1>8 DEF LearningInv, LearningShape, InTurn, Checks
  <2>2. ASSUME NEW p \in Request \ {r} PROVE InTurn(learning'[p], check'[p])
    <3>1. learning'[p] = learning[p] /\ \A j \in Checks : check'[p][j] = check[p][j]
      BY <1>6, <1>7
    <3>2. InTurn(learning[p], check[p])
      BY DEF LearningInv, LearningShape
    <3> QED
      BY <3>1, <3>2 DEF InTurn, Checks
  <2> QED
    BY <1>1, <1>6, <1>7, <2>1, <2>2 DEF LearningInv, LearningShape
<1>10. LessonOwed'
  <2>1. \A p \in Request, s \in known, n \in Lesson : WillMark(p, s, n) => WillMark(p, s, n)'
    BY <1>6, <1>7, <1>8 DEF WillMark, Checks
  <2> QED
    BY <1>1, <2>1, LessonOwedKept DEF LearningInv, Remembered
<1>11. \A p \in Request, k \in Checks :
         check[p][k].pc = "tie" \/ check'[p][k].pc = "tie" => check'[p][k] = check[p][k]
  BY <1>4, <1>7, <1>8
<1> QED
  BY <1>1, <1>a, <1>9, <1>10, <1>11, QuietStep

LEMMA PublishEpisodeInv ==
  ASSUME LearningInv, NEW r \in Request, PublishEpisode(r)
  PROVE  LearningInv'
<1> DEFINE q   == learning[r]
           new == [q EXCEPT !.pc = "done"]
           c   == [check[r]["async"] EXCEPT !.pc = "find"]
           now == IF q.org THEN known \cup (outdated \cap {q.subject}) ELSE known
<1>1. /\ q.pc = "answer" /\ q \in LearningRow /\ InTurn(q, check[r]) /\ check[r] \in [Checks -> CheckRow]
      /\ check[r]["async"].pc = "idle" /\ check[r]["async"] \in CheckRow
      /\ UNCHANGED <<status, belief, activePlans, accepted, ingested, outdated, tied, lessons,
                     handled, relinked, mishaps>>
  BY DEF PublishEpisode, LearningInv, LearningShape, InTurn, Checks
<1>2. learning' = [learning EXCEPT ![r] = new]
  BY DEF PublishEpisode, LearningInv, LearningShape, LearningRow
<1>3. new \in LearningRow /\ new.pc = "done" /\ new.subject = q.subject /\ new.org = q.org
  BY <1>1 DEF LearningRow
<1>4. c \in CheckRow /\ c.pc = "find"
  BY <1>1 DEF CheckRow
<1>5. \/ check' = [check EXCEPT ![r]["async"] = c] /\ known' = now
      \/ UNCHANGED <<check, known>>
  BY <1>1 DEF PublishEpisode, LearningInv, LearningShape, Checks
<1>a. now \subseteq outdated /\ \A s \in now \ known : q.org /\ s = q.subject
  BY DEF LearningInv, LearningShape
<1> HIDE DEF new, c, now
<1>6. /\ check' \in [Request -> [Checks -> CheckRow]]
      /\ \A p \in Request, j \in Checks : p # r \/ j # "async" => check'[p][j] = check[p][j]
      /\ \/ check'[r]["async"] = c /\ known' = now
         \/ UNCHANGED <<check, known>>
  <2>1. CASE check' = [check EXCEPT ![r]["async"] = c] /\ known' = now
    BY <1>4, <2>1, CheckSlot DEF LearningInv, Checks
  <2>2. CASE UNCHANGED <<check, known>>
    BY <2>2 DEF LearningInv, LearningShape
  <2> QED
    BY <1>5, <2>1, <2>2
<1>7. /\ learning' \in [Request -> LearningRow] /\ learning'[r] = new
      /\ \A p \in Request \ {r} : learning'[p] = learning[p]
  BY <1>2, <1>3 DEF LearningInv, LearningShape
<1>8. \A p \in Request : learning'[p].subject = learning[p].subject /\ learning'[p].org = learning[p].org
  BY <1>3, <1>7
<1>9. LearningShape'
  <2>1. InTurn(learning'[r], check'[r])
    BY <1>1, <1>3, <1>4, <1>6, <1>7 DEF InTurn, Checks
  <2>2. ASSUME NEW p \in Request \ {r} PROVE InTurn(learning'[p], check'[p])
    <3>1. learning'[p] = learning[p] /\ \A j \in Checks : check'[p][j] = check[p][j]
      BY <1>6, <1>7
    <3>2. InTurn(learning[p], check[p])
      BY DEF LearningInv, LearningShape
    <3> QED
      BY <3>1, <3>2 DEF InTurn, Checks
  <2>3. known' \subseteq outdated
    BY <1>6, <1>a DEF LearningInv, LearningShape
  <2> QED
    BY <1>1, <1>6, <1>7, <2>1, <2>2, <2>3 DEF LearningInv, LearningShape
<1>10. LessonOwed'
  <2> SUFFICES ASSUME NEW s \in known', NEW n \in Lesson \ handled, LessonDue(s, n)
               PROVE  \/ belief[n] = "contradicted" \/ Missed(s, n)
                      \/ \E p \in Request : WillMark(p, s, n)'
    BY <1>1 DEF LessonOwed, LessonDue, Missed
  <2>1. CASE s \in known
    <3>1. belief[n] = "contradicted" \/ Missed(s, n) \/ \E p \in Request : WillMark(p, s, n)
      BY <2>1 DEF LearningInv, LessonOwed
    <3>2. \A p \in Request : WillMark(p, s, n) => WillMark(p, s, n)'
      BY <1>1, <1>6, <1>8 DEF WillMark, Checks
    <3> QED
      BY <3>1, <3>2
  <2>2. CASE s \notin known
    BY <1>4, <1>6, <1>8, <1>a, <2>2 DEF WillMark
  <2> QED
    BY <2>1, <2>2
<1>11. \A p \in Request, k \in Checks :
         check[p][k].pc = "tie" \/ check'[p][k].pc = "tie" => check'[p][k] = check[p][k]
  BY <1>1, <1>4, <1>6
<1> QED
  BY <1>1, <1>9, <1>10, <1>11, QuietStep

-----------------------------------------------------------------------------
(* A step of check k of request r that leaves the request as it is *)
LEMMA CheckMoves ==
  ASSUME LearningInv, NEW r \in Request, NEW k \in Checks, check[r][k].pc # "idle",
         NEW new \in CheckRow, check' = [check EXCEPT ![r][k] = new],
         new.pc = "mark" => new.todo # {}, new.pc = "tie" => new.now \in Lesson,
         UNCHANGED <<status, ingested, outdated, learning, lessons, known, handled>>,
         belief' \in [Lesson -> Beliefs]
  PROVE  /\ LearningShape'
         /\ check'[r][k] = new
         /\ \A q \in Request, j \in Checks : q # r \/ j # k => check'[q][j] = check[q][j]
<1>1. /\ check' \in [Request -> [Checks -> CheckRow]] /\ check'[r][k] = new
      /\ \A q \in Request, j \in Checks : q # r \/ j # k => check'[q][j] = check[q][j]
  <2>1. LearningShape
    BY DEF LearningInv
  <2>2. check' \in [Request -> [Checks -> CheckRow]]
    BY <2>1, CheckSlot
  <2>3. check'[r][k] = new
    BY <2>1, CheckSlot
  <2>4. \A q \in Request, j \in Checks : q # r \/ j # k => check'[q][j] = check[q][j]
    BY <2>1, CheckSlot
  <2> QED
    BY <2>2, <2>3, <2>4
<1>2. \A q \in Request : InTurn(learning[q], check'[q])
  BY <1>1 DEF LearningInv, LearningShape, InTurn, Checks
<1>3. LearningShape'
  BY <1>1, <1>2 DEF LearningInv, LearningShape
<1> QED
  BY <1>1, <1>3

LEMMA MishapsAre ==
  ASSUME NEW r, NEW k, NEW step, NEW N, NEW n \in N, NEW s, s = learning[r].subject,
         Mishaps(r, k, step, N) \subseteq mishaps'
  PROVE  /\ Mishap(n, step)'
         /\ k = "async" /\ step # "tie" => Missed(s, n)'
<1> DEFINE h == [check |-> k, step |-> step, subject |-> s, task |-> n]
<1>1. h \in mishaps'
  BY DEF Mishaps
<1>2. h.check = k /\ h.step = step /\ h.subject = s /\ h.task = n
  OBVIOUS
<1> HIDE DEF h
<1>3. Mishap(n, step)'
  BY <1>1, <1>2 DEF Mishap
<1>4. k = "async" /\ step # "tie" => Missed(s, n)'
  BY <1>1, <1>2 DEF Missed
<1> QED
  BY <1>3, <1>4

(* A step of a check in which no task is marked or linked *)
LEMMA CheckQuiet ==
  ASSUME LearningInv, NEW r \in Request, NEW k \in Checks, check[r][k].pc \in {"find", "consult"},
         NEW new \in CheckRow, check' = [check EXCEPT ![r][k] = new],
         new.pc \in {"idle", "consult", "mark"}, new.pc = "mark" => new.todo # {},
         UNCHANGED <<status, belief, activePlans, ingested, outdated, tied, learning, lessons, known,
                     handled, relinked>>,
         mishaps \subseteq mishaps',
         \A n \in Lesson \ handled :
           /\ k = "async" /\ learning[r].org /\ LessonDue(learning[r].subject, n)
           /\ learning[r].subject \in known /\ WillMark(r, learning[r].subject, n)
           => (new.pc # "idle" /\ n \in new.todo) \/ Missed(learning[r].subject, n)'
  PROVE  LearningInv'
<1>0. learning' = learning
  OBVIOUS
<1>1. belief' \in [Lesson -> Beliefs]
  BY DEF LearningInv, LearningShape
<1>2. LearningShape'
  BY <1>1, CheckMoves, Zenon
<1>3. /\ check'[r][k] = new
      /\ \A q \in Request, j \in Checks : q # r \/ j # k => check'[q][j] = check[q][j]
  <2>1. LearningShape
    BY DEF LearningInv
  <2>2. check'[r][k] = new
    BY <2>1, SMTT(30) DEF LearningShape
  <2>3. \A q \in Request, j \in Checks : q # r \/ j # k => check'[q][j] = check[q][j]
    BY <2>1, CheckSlot
  <2> QED
    BY <2>2, <2>3
<1>4. Remembered
  BY DEF Remembered
<1>6. \A n \in Lesson : (Contradicts(n) <=> Contradicts(n)') /\ (Tying(n) <=> Tying(n)')
  BY <1>3 DEF Contradicts, Tying
<1>5. NowMarked'
  BY <1>4, <1>6, NowMarkedKept DEF LearningInv
<1>7. MarksExplained' /\ ConflictsMarked'
  BY <1>2, <1>4, <1>6, ExplainedKept, MarkedKept DEF LearningInv
<1>8. LessonOwed'
  <2> SUFFICES ASSUME NEW s \in known, NEW n \in Lesson \ handled, LessonDue(s, n)
               PROVE  belief[n] = "contradicted" \/ Missed(s, n)' \/ \E p \in Request : WillMark(p, s, n)'
    BY DEF LessonOwed, LessonDue
  <2>1. belief[n] = "contradicted" \/ Missed(s, n) \/ \E p \in Request : WillMark(p, s, n)
    BY DEF LearningInv, LessonOwed
  <2>2. CASE Missed(s, n)
    BY <2>2 DEF Missed
  <2>3. ASSUME NEW p \in Request, WillMark(p, s, n)
        PROVE  Missed(s, n)' \/ WillMark(p, s, n)'
    <3>1. CASE p = r /\ k = "async"
      <4>1. s = learning[r].subject /\ learning[r].org
        BY <2>3, <3>1 DEF WillMark
      <4>2. (new.pc # "idle" /\ n \in new.todo) \/ Missed(s, n)'
        BY <1>0, <2>3, <3>1, <4>1
      <4> QED
        BY <1>3, <3>1, <4>1, <4>2 DEF WillMark
    <3>2. CASE p # r \/ k # "async"
      BY <1>3, <2>3, <3>2 DEF WillMark, Checks
    <3> QED
      BY <3>1, <3>2
  <2> QED
    BY <2>1, <2>2, <2>3
<1> QED
  BY <1>2, <1>5, <1>7, <1>8 DEF LearningInv

LEMMA FindAffectedTasksInv ==
  ASSUME LearningInv, NEW r \in Request, NEW k \in Checks, FindAffectedTasks(r, k)
  PROVE  LearningInv'
<1> DEFINE match == {n \in Searched(r, k) : status[n] = "open" /\ learning[r].subject \in About[n]}
           limit == IF k = "sync" THEN SyncLimit ELSE AsyncLimit
<1>1. /\ check[r][k].pc = "find"
      /\ UNCHANGED <<status, belief, activePlans, accepted, ingested, outdated, tied, learning,
                     lessons, known, handled, relinked>>
  BY DEF FindAffectedTasks
<1>2. PICK F \in SUBSET match, S \in SUBSET match :
           /\ F \cap S = {}
           /\ Cardinality(S) <= limit /\ (Cardinality(S) < limit => S = match \ F)
           /\ Goes(r, k, "consult", S, Nil)
           /\ Missing(Mishaps(r, k, "search", F))
  BY Zenon DEF FindAffectedTasks
<1> DEFINE new == [pc |-> "consult", todo |-> S, now |-> Nil]
<1>3. match \subseteq Lesson
  BY DEF Searched
<1>4. new \in CheckRow /\ new.pc = "consult" /\ new.todo = S
  BY <1>3 DEF CheckRow
<1>5. check' = [check EXCEPT ![r][k] = new]
  BY <1>2 DEF Goes
<1>6. mishaps' = mishaps \cup Mishaps(r, k, "search", F)
  BY <1>2 DEF Missing
<1>7. k = "async" /\ Cardinality(Lesson) <= AsyncLimit => S = match \ F
  <2> SUFFICES ASSUME k = "async", Cardinality(Lesson) <= AsyncLimit, Cardinality(S) >= AsyncLimit
               PROVE  S = match \ F
    <3>1. Cardinality(S) \in Nat
      BY <1>3, LearningAssumption, FS_Subset, FS_CardinalityType
    <3> QED
      BY <1>2, <3>1, LearningAssumption DEF Checks
  <2>1. S \subseteq Lesson /\ Cardinality(S) \in Nat /\ Cardinality(Lesson) \in Nat
    BY <1>3, LearningAssumption, FS_Subset, FS_CardinalityType
  <2>2. Cardinality(S) <= Cardinality(Lesson)
    BY <2>1, LearningAssumption, FS_Subset
  <2>3. Cardinality(S) = Cardinality(Lesson)
    BY <2>1, <2>2, LearningAssumption
  <2>4. S = Lesson
    BY <2>1, <2>3, LearningAssumption, FS_Subset
  <2> QED
    BY <1>2, <1>3, <2>4
<1>8. ASSUME NEW n \in Lesson \ handled, k = "async", learning[r].org, LessonDue(learning[r].subject, n)
      PROVE  n \in new.todo \/ Missed(learning[r].subject, n)'
  <2>1. n \in match
    BY <1>8 DEF LessonDue, Searched, LearningInv, LearningShape
  <2>2. CASE n \in F
    <3>1. PICK s : s = learning[r].subject
      OBVIOUS
    <3>2. Missed(s, n)'
      BY <1>6, <1>8, <2>2, <3>1, MishapsAre
    <3>3. learning'[r].subject = s
      BY <1>1, <3>1
    <3> QED
      BY <3>2, <3>3
  <2>3. CASE n \notin F
    BY <1>4, <1>7, <1>8, <2>1, <2>3 DEF LessonDue
  <2> QED
    BY <2>2, <2>3
<1> HIDE DEF new, match
<1>9. mishaps \subseteq mishaps' /\ new.pc \in {"idle", "consult", "mark"} /\ (new.pc = "mark" => new.todo # {})
      /\ check[r][k].pc \in {"find", "consult"} /\ new.pc # "idle"
  BY <1>1, <1>4, <1>6
<1> QED
  BY <1>1, <1>4, <1>5, <1>8, <1>9, CheckQuiet

LEMMA DetectContradictionsInv ==
  ASSUME LearningInv, NEW r \in Request, NEW k \in Checks, DetectContradictions(r, k)
  PROVE  LearningInv'
<1> DEFINE q     == check[r][k]
           s     == learning[r].subject
           stale == s \in outdated /\ q.todo # {}
           c1    == [pc |-> "mark", todo |-> q.todo, now |-> Nil]
           c2    == [pc |-> "idle", todo |-> {}, now |-> Nil]
<1>1. /\ q.pc = "consult" /\ q \in CheckRow
      /\ UNCHANGED <<status, belief, activePlans, accepted, ingested, outdated, tied, learning,
                     lessons, known, handled, relinked>>
  BY DEF DetectContradictions, LearningInv, LearningShape
<1>2. \/ stale /\ check' = [check EXCEPT ![r][k] = c1] /\ UNCHANGED mishaps
      \/ ~stale /\ check' = [check EXCEPT ![r][k] = c2] /\ UNCHANGED mishaps
      \/ check' = [check EXCEPT ![r][k] = c2] /\ mishaps' = mishaps \cup Mishaps(r, k, "consult", q.todo)
  BY DEF DetectContradictions, Goes, Missing
<1>3. /\ c1 \in CheckRow /\ c1.pc = "mark" /\ c1.todo = q.todo
      /\ c2 \in CheckRow /\ c2.pc = "idle"
  BY <1>1 DEF CheckRow
<1>4. ASSUME NEW n, k = "async", WillMark(r, s, n) PROVE n \in q.todo
  BY <1>1, <1>4 DEF WillMark
<1>5. known \subseteq outdated
  BY DEF LearningInv, LearningShape
<1> HIDE DEF c1, c2
<1>6. CASE stale /\ check' = [check EXCEPT ![r][k] = c1] /\ UNCHANGED mishaps
  <2>1. \A n \in Lesson \ handled : k = "async" /\ WillMark(r, s, n) => c1.pc # "idle" /\ n \in c1.todo
    BY <1>3, <1>4
  <2>2. mishaps \subseteq mishaps' /\ c1.todo # {} /\ q.pc \in {"find", "consult"}
    BY <1>1, <1>3, <1>6
  <2> QED
    BY <1>1, <1>3, <1>6, <2>1, <2>2, CheckQuiet
<1>7. CASE ~stale /\ check' = [check EXCEPT ![r][k] = c2] /\ UNCHANGED mishaps
  <2>1. \A n \in Lesson \ handled : ~(k = "async" /\ s \in known /\ WillMark(r, s, n))
    BY <1>4, <1>5, <1>7
  <2>2. mishaps \subseteq mishaps' /\ q.pc \in {"find", "consult"}
    BY <1>1, <1>7
  <2> QED
    BY <1>1, <1>3, <1>7, <2>1, <2>2, CheckQuiet
<1>8. CASE check' = [check EXCEPT ![r][k] = c2] /\ mishaps' = mishaps \cup Mishaps(r, k, "consult", q.todo)
  <2>1. ASSUME NEW n \in Lesson \ handled, k = "async", WillMark(r, s, n) PROVE Missed(s, n)'
    <3>1. PICK x : x = s
      OBVIOUS
    <3>2. Missed(x, n)'
      BY <1>4, <1>8, <2>1, <3>1, MishapsAre
    <3>3. s' = x
      BY <1>1, <3>1
    <3> QED
      BY <3>2, <3>3
  <2>2. mishaps \subseteq mishaps' /\ q.pc \in {"find", "consult"}
    BY <1>1, <1>8
  <2> QED
    BY <1>1, <1>3, <1>8, <2>1, <2>2, CheckQuiet
<1> QED
  BY <1>2, <1>6, <1>7, <1>8

LEMMA MarkTaskInv ==
  ASSUME LearningInv, NEW r \in Request, NEW k \in Checks, MarkTask(r, k)
  PROVE  LearningInv'
<1> DEFINE q == check[r][k]
<1>1. PICK n \in q.todo :
        /\ Goes(r, k, "tie", q.todo \ {n}, n)
        /\ \/ belief' = [belief EXCEPT ![n] = "contradicted"] /\ UNCHANGED mishaps
           \/ UNCHANGED belief /\ Missing(Mishaps(r, k, "mark", {n}))
  BY Zenon DEF MarkTask
<1> DEFINE new == [pc |-> "tie", todo |-> q.todo \ {n}, now |-> n]
<1>2. /\ q.pc = "mark" /\ q \in CheckRow
      /\ UNCHANGED <<status, activePlans, accepted, ingested, outdated, tied, learning, lessons,
                     known, handled, relinked>>
      /\ check' = [check EXCEPT ![r][k] = new]
  BY <1>1 DEF MarkTask, Goes, LearningInv, LearningShape
<1>3. n \in Lesson /\ new \in CheckRow /\ new.pc = "tie" /\ new.now = n /\ new.todo = q.todo \ {n}
  BY <1>1, <1>2 DEF CheckRow
<1>4. /\ belief' \in [Lesson -> Beliefs] /\ mishaps \subseteq mishaps'
      /\ \A m \in Lesson \ {n} : belief'[m] = belief[m]
      /\ belief[n] = "contradicted" => belief'[n] = "contradicted"
      /\ belief'[n] = "contradicted" \/ Mishaps(r, k, "mark", {n}) \subseteq mishaps'
  BY <1>1, <1>3 DEF Missing, LearningInv, LearningShape, Beliefs
<1>5. /\ belief'[n] = "contradicted" \/ Mishap(n, "mark")'
      /\ \A s : s = learning[r].subject /\ k = "async" => belief'[n] = "contradicted" \/ Missed(s, n)'
  BY <1>4, MishapsAre
<1> HIDE DEF new, q
<1>6. LearningShape'
  <2>1. check[r][k].pc # "idle" /\ (new.pc = "mark" => new.todo # {}) /\ (new.pc = "tie" => new.now \in Lesson)
    BY <1>2, <1>3 DEF q
  <2> QED
    BY <1>2, <1>3, <1>4, <2>1, CheckMoves, Zenon
<1>7. /\ check'[r][k] = new
      /\ \A p \in Request, j \in Checks : p # r \/ j # k => check'[p][j] = check[p][j]
  <2>1. LearningShape
    BY DEF LearningInv
  <2>2. check'[r][k] = new
    BY <1>2, <1>3, <2>1, CheckSlot
  <2>3. \A p \in Request, j \in Checks : p # r \/ j # k => check'[p][j] = check[p][j]
    BY <1>2, <1>3, <2>1, CheckSlot
  <2> QED
    BY <2>2, <2>3
<1>8. Remembered
  BY <1>2, <1>4 DEF Remembered
<1>9. \A m \in Lesson : belief[m] = "contradicted" => belief'[m] = "contradicted"
  BY <1>4
<1>10. NowMarked'
  <2>1. ASSUME NEW m \in Lesson, m # n, Tying(m)' PROVE Tying(m)
    BY <1>2, <1>3, <1>7, <2>1 DEF Tying, q
  <2>2. \A m \in Lesson : Tying(m)' => Tying(m) \/ belief'[m] = "contradicted" \/ Mishap(m, "mark")'
    BY <1>5, <2>1
  <2> QED
    BY <1>8, <1>9, <2>2, NowMarkedKept DEF LearningInv
<1>11. MarksExplained'
  <2> SUFFICES ASSUME NEW m \in Lesson \ (handled \cup relinked), belief'[m] = "contradicted"
               PROVE  m \in Conflicts' \/ Tying(m)' \/ Mishap(m, "tie")'
    BY <1>2 DEF MarksExplained
  <2>1. CASE m = n
    BY <1>3, <1>7, <2>1 DEF Tying
  <2>2. CASE m # n
    <3>1. m \in Conflicts \/ Tying(m) \/ Mishap(m, "tie")
      BY <1>4, <2>2 DEF LearningInv, MarksExplained
    <3>2. Tying(m) => Tying(m)'
      BY <1>2, <1>7 DEF Tying, q
    <3>3. m \in Conflicts => m \in Conflicts'
      BY <1>2 DEF Conflicts, Contradicts
    <3> QED
      BY <1>4, <3>1, <3>2, <3>3, MishapKept
  <2> QED
    BY <2>1, <2>2
<1>12. ConflictsMarked'
  <2>1. \A m \in Lesson : Contradicts(m)' => Contradicts(m)
    BY <1>2 DEF Contradicts
  <2> QED
    BY <1>8, <1>9, <2>1, MarkedKept DEF LearningInv
<1>13. LessonOwed'
  <2>1. ASSUME NEW p \in Request, NEW s \in known, NEW m \in Lesson \ handled', WillMark(p, s, m)
        PROVE  WillMark(p, s, m)' \/ belief'[m] = "contradicted" \/ Missed(s, m)'
    <3>1. CASE p = r /\ k = "async" /\ m = n
      BY <1>5, <2>1, <3>1 DEF WillMark
    <3>2. CASE p = r /\ k = "async" /\ m # n
      BY <1>2, <1>3, <1>7, <2>1, <3>2 DEF WillMark, q
    <3>3. CASE p # r \/ k # "async"
      BY <1>2, <1>7, <2>1, <3>3 DEF WillMark, Checks
    <3> QED
      BY <3>1, <3>2, <3>3
  <2> QED
    BY <1>2, <1>8, <1>9, <2>1, LessonOwedKept DEF LearningInv
<1> QED
  BY <1>6, <1>10, <1>11, <1>12, <1>13 DEF LearningInv

LEMMA TieTaskInv ==
  ASSUME LearningInv, NEW r \in Request, NEW k \in Checks, TieTask(r, k)
  PROVE  LearningInv'
<1> DEFINE q   == check[r][k]
           row == [episode |-> learning[r].episode, task |-> q.now, type |-> "contradicts"]
           new == [pc |-> IF q.todo = {} THEN "idle" ELSE "mark", todo |-> q.todo, now |-> Nil]
<1>1. /\ q.pc = "tie" /\ q \in CheckRow /\ q.now \in Lesson
      /\ UNCHANGED <<status, belief, activePlans, accepted, ingested, outdated, learning, lessons,
                     known, handled, relinked>>
      /\ check' = [check EXCEPT ![r][k] = new]
      /\ \/ tied' = tied \cup {row} /\ UNCHANGED mishaps
         \/ UNCHANGED tied /\ mishaps' = mishaps \cup Mishaps(r, k, "tie", {q.now})
  BY DEF TieTask, TiedTo, Goes, Missing, LearningInv, LearningShape, InTurn
<1>2. /\ new \in CheckRow /\ new.todo = q.todo /\ (new.pc = "mark" => q.todo # {})
      /\ q.todo # {} => new.pc = "mark"
      /\ new.pc # "tie"
  BY <1>1 DEF CheckRow
<1>3. row.task = q.now /\ row.type = "contradicts"
  OBVIOUS
<1> HIDE DEF new, q, row
<1>4. LearningShape'
  <2>1. /\ check[r][k].pc # "idle" /\ (new.pc = "mark" => new.todo # {})
        /\ (new.pc = "tie" => new.now \in Lesson) /\ belief' \in [Lesson -> Beliefs]
    BY <1>1, <1>2 DEF q, LearningInv, LearningShape
  <2> QED
    BY <1>1, <1>2, <2>1, CheckMoves, Zenon
<1>5. /\ check'[r][k] = new
      /\ \A p \in Request, j \in Checks : p # r \/ j # k => check'[p][j] = check[p][j]
  <2>1. LearningShape
    BY DEF LearningInv
  <2>2. check'[r][k] = new
    BY <1>1, <1>2, <2>1, CheckSlot
  <2>3. \A p \in Request, j \in Checks : p # r \/ j # k => check'[p][j] = check[p][j]
    BY <1>1, <1>2, <2>1, CheckSlot
  <2> QED
    BY <2>2, <2>3
<1>6. Remembered
  BY <1>1 DEF Remembered
<1>7. NowMarked'
  <2>1. \A m \in Lesson : Tying(m)' => Tying(m)
    BY <1>2, <1>5 DEF Tying
  <2> QED
    BY <1>1, <1>6, <2>1, NowMarkedKept DEF LearningInv
<1>a. PICK n \in Lesson : n = q.now
  BY <1>1
<1>8. \A m \in Lesson : Contradicts(m)' => Contradicts(m) \/ m = n
  BY <1>1, <1>3, <1>a DEF Contradicts
<1>9. Contradicts(n)' \/ Mishap(n, "tie")'
  <2>1. CASE tied' = tied \cup {row}
    BY <1>3, <1>a, <2>1 DEF Contradicts
  <2>2. CASE mishaps' = mishaps \cup Mishaps(r, k, "tie", {q.now})
    <3>1. Mishaps(r, k, "tie", {n}) \subseteq mishaps'
      BY <1>a, <2>2
    <3> QED
      BY <3>1, MishapsAre
  <2> QED
    BY <1>1, <2>1, <2>2
<1>10. MarksExplained'
  <2>1. ASSUME NEW m \in Lesson PROVE Contradicts(m) => Contradicts(m)'
    BY <1>1 DEF Contradicts
  <2>2. ASSUME NEW m \in Lesson, Tying(m) PROVE Tying(m)' \/ Contradicts(m)' \/ Mishap(m, "tie")'
    <3>1. PICK p \in Request, j \in Checks : check[p][j].pc = "tie" /\ check[p][j].now = m
      BY <2>2 DEF Tying
    <3>2. CASE p = r /\ j = k
      <4>1. m = n
        BY <1>a, <3>1, <3>2 DEF q
      <4> QED
        BY <1>9, <4>1
    <3>3. CASE p # r \/ j # k
      BY <1>5, <3>1, <3>3 DEF Tying
    <3> QED
      BY <3>2, <3>3
  <2> QED
    BY <1>1, <1>4, <1>6, <2>1, <2>2, ExplainedKept DEF LearningInv
<1>11. ConflictsMarked'
  <2>1. n \in handled \/ belief[n] = "contradicted" \/ Mishap(n, "mark")
    BY <1>1, <1>a DEF LearningInv, NowMarked, Tying, q
  <2>2. Mishap(n, "mark") => Mishap(n, "mark")'
    BY <1>6, MishapKept DEF Remembered
  <2>3. \A m \in Lesson \ (handled' \cup relinked') :
          Contradicts(m)' => Contradicts(m) \/ belief'[m] = "contradicted" \/ Mishap(m, "mark")'
    BY <1>1, <1>8, <2>1, <2>2
  <2> QED
    BY <1>1, <1>6, <2>3, MarkedKept DEF LearningInv
<1>12. LessonOwed'
  <2>1. ASSUME NEW p \in Request, NEW s \in known, NEW m \in Lesson, WillMark(p, s, m)
        PROVE  WillMark(p, s, m)'
    <3>1. CASE p = r /\ k = "async"
      BY <1>1, <1>2, <1>5, <2>1, <3>1 DEF WillMark, q
    <3>2. CASE p # r \/ k # "async"
      BY <1>1, <1>5, <2>1, <3>2 DEF WillMark, Checks
    <3> QED
      BY <3>1, <3>2
  <2> QED
    BY <1>1, <1>6, <2>1, LessonOwedKept DEF LearningInv
<1> QED
  BY <1>4, <1>7, <1>10, <1>11, <1>12 DEF LearningInv

LEMMA LearningRestartInv ==
  ASSUME LearningInv, LearningRestart
  PROVE  LearningInv'
<1>1. /\ learning' = [r \in Request |-> NoLearning]
      /\ check' = [r \in Request |-> [k \in Checks |-> NoCheck]]
      /\ mishaps' = mishaps \cup UNION {LeftUndone(r, k) : r \in Request, k \in Checks}
      /\ UNCHANGED <<status, belief, activePlans, accepted, ingested, outdated, tied, lessons, known,
                     handled, relinked>>
  BY DEF LearningRestart, Missing
<1>2. Remembered
  BY <1>1 DEF Remembered
<1>3. LearningShape'
  BY <1>1, LearningRows DEF LearningInv, LearningShape, InTurn
<1>4. \A r \in Request, k \in Checks : check'[r][k].pc = "idle"
  BY <1>1, LearningRows
<1>5. NowMarked'
  BY <1>4 DEF NowMarked, Tying
<1>6. ASSUME NEW n \in Lesson, Tying(n) PROVE Mishap(n, "tie")'
  <2>1. PICK r \in Request, k \in Checks : check[r][k].pc = "tie" /\ check[r][k].now = n
    BY <1>6 DEF Tying
  <2> DEFINE N == {m \in Lesson : m = check[r][k].now}
  <2>2. LeftUndone(r, k) \subseteq mishaps' /\ n \in N
    BY <1>1, <2>1
  <2>3. Mishaps(r, k, "tie", N) \subseteq mishaps'
    BY <2>2 DEF LeftUndone
  <2> HIDE DEF N
  <2> QED
    BY <2>2, <2>3, MishapsAre
<1>7. \A n \in Lesson : Contradicts(n) <=> Contradicts(n)'
  BY <1>1 DEF Contradicts
<1>8. MarksExplained' /\ ConflictsMarked'
  BY <1>1, <1>2, <1>3, <1>6, <1>7, ExplainedKept, MarkedKept DEF LearningInv
<1>9. LessonOwed'
  <2>1. ASSUME NEW r \in Request, NEW s \in known, NEW n \in Lesson \ handled', WillMark(r, s, n)
        PROVE  Missed(s, n)'
    <3>1. s = learning[r].subject /\ "async" \in Checks
      BY <2>1 DEF WillMark, Checks
    <3>2. LeftUndone(r, "async") \subseteq mishaps'
      BY <1>1, <3>1
    <3>3. CASE check[r]["async"].pc = "find"
      <4> DEFINE N == {m \in Lesson : check[r]["async"].pc = "find"}
      <4>1. Mishaps(r, "async", "search", N) \subseteq mishaps' /\ n \in N
        BY <3>2, <3>3 DEF LeftUndone
      <4> HIDE DEF N
      <4> QED
        BY <3>1, <4>1, MishapsAre
    <3>4. CASE n \in check[r]["async"].todo
      <4>1. Mishaps(r, "async", "mark", check[r]["async"].todo) \subseteq mishaps'
        BY <3>2 DEF LeftUndone
      <4> QED
        BY <3>1, <3>4, <4>1, MishapsAre
    <3> QED
      BY <2>1, <3>3, <3>4 DEF WillMark
  <2> QED
    BY <1>1, <1>2, <2>1, LessonOwedKept DEF LearningInv
<1> QED
  BY <1>3, <1>5, <1>8, <1>9 DEF LearningInv

-----------------------------------------------------------------------------
LEMMA IngestInv ==
  ASSUME LearningInv, Ingest
  PROVE  LearningInv'
<1>1. /\ ingested' \in Nat /\ outdated \subseteq outdated'
      /\ UNCHANGED <<status, belief, activePlans, accepted, tied, learning, check, lessons, known,
                     handled, relinked, mishaps>>
  BY DEF Ingest, LearningInv, LearningShape
<1>2. LearningShape'
  BY <1>1 DEF LearningInv, LearningShape
<1>3. LessonOwed'
  BY <1>1, LessonOwedKept DEF LearningInv, WillMark, Remembered
<1> QED
  BY <1>1, <1>2, <1>3, QuietStep

(* What people do to a task, or to its plan, is remembered and excuses the rest. *)
LEMMA PeopleInv ==
  ASSUME LearningInv, LearningShape', UNCHANGED <<learning, check, known, mishaps>>, Remembered,
         \A n \in Lesson \ handled' : /\ belief'[n] = belief[n]
                                      /\ LessonPlan[n] \in activePlans' => LessonPlan[n] \in activePlans,
         \A n \in Lesson \ relinked' : Contradicts(n) <=> Contradicts(n)'
  PROVE  LearningInv'
<1>2. \A n \in Lesson : Tying(n) <=> Tying(n)'
  BY DEF Tying
<1>1. NowMarked'
  BY <1>2, NowMarkedKept DEF LearningInv
<1>3. MarksExplained' /\ ConflictsMarked'
  BY <1>2, ExplainedKept, MarkedKept DEF LearningInv
<1>4. LessonOwed'
  BY LessonOwedKept DEF LearningInv, WillMark
<1> QED
  BY <1>1, <1>3, <1>4 DEF LearningInv

LEMMA TouchInv ==
  ASSUME LearningInv, NEW n \in Lesson, Touch(n)
  PROVE  LearningInv'
<1>1. /\ lessons' \in Nat /\ handled' = handled \cup {n}
      /\ status' \in [Lesson -> LessonStates] /\ belief' \in [Lesson -> Beliefs]
      /\ \A m \in Lesson \ {n} : status'[m] = status[m] /\ belief'[m] = belief[m]
      /\ UNCHANGED <<activePlans, accepted, ingested, outdated, tied, learning, check, known,
                     relinked, mishaps>>
  BY DEF Touch, OneMoreLesson, LearningInv, LearningShape
<1>2. LearningShape'
  BY <1>1 DEF LearningInv, LearningShape
<1>3. \A m \in Lesson : Contradicts(m) <=> Contradicts(m)'
  BY <1>1 DEF Contradicts
<1> QED
  BY <1>1, <1>2, <1>3, PeopleInv DEF Remembered

LEMMA SwitchPlanInv ==
  ASSUME LearningInv, NEW p, SwitchPlan(p)
  PROVE  LearningInv'
<1>1. /\ lessons' \in Nat /\ handled' = handled \cup {n \in Lesson : LessonPlan[n] = p}
      /\ \A d : d # p => (d \in activePlans' <=> d \in activePlans)
      /\ UNCHANGED <<status, belief, accepted, ingested, outdated, tied, learning, check, known,
                     relinked, mishaps>>
  BY DEF SwitchPlan, OneMoreLesson, LearningInv, LearningShape
<1>2. LearningShape'
  BY <1>1 DEF LearningInv, LearningShape
<1>3. \A m \in Lesson : Contradicts(m) <=> Contradicts(m)'
  BY <1>1 DEF Contradicts
<1> QED
  BY <1>1, <1>2, <1>3, PeopleInv DEF Remembered

LEMMA RelinkInv ==
  ASSUME LearningInv, NEW n \in Lesson, Relink(n)
  PROVE  LearningInv'
<1>1. /\ lessons' \in Nat /\ relinked' = relinked \cup {n}
      /\ UNCHANGED <<status, belief, activePlans, accepted, ingested, outdated, learning, check,
                     known, handled, mishaps>>
  BY DEF Relink, OneMoreLesson, LearningInv, LearningShape
<1>2. \A l : l \in tied \/ l \in tied' => (l \in tied <=> l \in tied') \/ l.task = n
  BY DEF Relink, OneMoreLesson, TiedTo
<1>3. LearningShape'
  BY <1>1 DEF LearningInv, LearningShape
<1>4. \A m \in Lesson \ relinked' : Contradicts(m) <=> Contradicts(m)'
  BY <1>1, <1>2 DEF Contradicts
<1> QED
  BY <1>1, <1>3, <1>4, PeopleInv DEF Remembered

LEMMA LearningStepInv == LearningInv /\ [LearningNext]_learningVars => LearningInv'
<1> SUFFICES ASSUME LearningInv, [LearningNext]_learningVars PROVE LearningInv'
  OBVIOUS
<1>1. CASE UNCHANGED learningVars
  <2>1. UNCHANGED <<status, belief, activePlans, accepted, ingested, outdated, tied, learning,
                    check, lessons, known, handled, relinked, mishaps>>
    BY <1>1 DEF learningVars
  <2>2. LearningShape'
    BY <2>1 DEF LearningInv, LearningShape
  <2>3. \A m \in Lesson : Contradicts(m) <=> Contradicts(m)'
    BY <2>1 DEF Contradicts
  <2> QED
    BY <2>1, <2>2, <2>3, PeopleInv DEF Remembered
<1>2. CASE LearningNext
  BY <1>2, AddEpisodeInv, ResolveInv, LinkEpisodeInv, PublishEpisodeInv, LearningOverInv,
     FindAffectedTasksInv, DetectContradictionsInv, MarkTaskInv, TieTaskInv, LearningRestartInv,
     IngestInv, TouchInv, RelinkInv, SwitchPlanInv
     DEF LearningNext
<1> QED
  BY <1>1, <1>2

(* What the checks find out shows in the marks and in the coverage alike, whatever         *)
(* fails, is broken off or is changed by people meanwhile, but for what this happened      *)
(* to; and the check for the organization passes over no open task of an active plan that  *)
(* its search, its question to the graph and its writes did not fail for                 *)
(* (checkCoherence and applyCoherenceResult).                                       *)
THEOREM LearningSoundness == LearningSpec => []LearningSound
<1>1. LearningInv => LearningSound
  <2> SUFFICES ASSUME LearningInv PROVE LearningSound
    OBVIOUS
  <2>1. NoneMissed
    BY DEF LearningInv, LessonOwed, WillMark, Missed, LessonDue, NoneMissed
  <2> QED
    BY <2>1 DEF LearningInv, LearningSound
<1> QED
  BY <1>1, LearningInitInv, LearningStepInv, PTL DEF LearningSpec
=============================================================================
