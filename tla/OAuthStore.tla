----------------------------- MODULE OAuthStore -----------------------------
(***************************************************************************)
(* The store of the OAuth authorization server: one-time authorization codes *)
(* and refresh tokens, both spent by using them once.                        *)
(*                                                                         *)
(* Using one takes several statements: find it, spend it, issue a new token   *)
(* set.  The process may stop between any two of them.                       *)
(***************************************************************************)
EXTENDS Slots, Integers

CONSTANTS
  Connection,  \* the pairs of a user and a client
  MaxGrants    \* bound: number of codes and refresh tokens

ASSUME OAuthAssumption == MaxGrants \in Nat

VARIABLES
  grant,     \* the rows of oauth_auth_codes and oauth_refresh_tokens, by id
  granted,   \* the number of ids given out (bounded by MaxGrants)
  exchange,  \* the request in each slot
  grabbed,   \* history: the grants that two requests used at once
  severed    \* history: the connections that were disconnected while nothing was
             \* underway for them, and for which no code was made since

oauthVars == <<grant, granted, exchange, grabbed, severed>>

(* live: the row of the code is there, revoked_at of the token is null; late:  *)
(* expires_at has passed; from: the grant that was used to get this one        *)
GrantId  == 1 .. MaxGrants
GrantRow == [kind : {"none", "code", "token"}, conn : Connection \cup {Nil},
             from : 0 .. MaxGrants, live : BOOLEAN, late : BOOLEAN]
NoGrant  == [kind |-> "none", conn |-> Nil, from |-> 0, live |-> FALSE, late |-> FALSE]
NewGrant(k, c, g) == [kind |-> k, conn |-> c, from |-> g, live |-> TRUE, late |-> FALSE]

ExchangePc == {"idle", "consume", "rotate", "issue"}
NoExchange == [pc |-> "idle", from |-> 0]
ExchangeAt(r, p) == exchange[r].pc = p
Holds(r, g)      == exchange[r].pc # "idle" /\ exchange[r].from = g

OAuthTypeOK ==
  /\ grant \in [GrantId -> GrantRow]
  /\ granted \in 0 .. MaxGrants
  /\ exchange \in [Request -> [pc : ExchangePc, from : 0 .. MaxGrants]]
  /\ grabbed \subseteq GrantId
  /\ severed \subseteq Connection

OAuthInit ==
  /\ grant = [g \in GrantId |-> NoGrant] /\ granted = 0
  /\ exchange = [r \in Request |-> NoExchange]
  /\ grabbed = {} /\ severed = {}

-----------------------------------------------------------------------------
(* POST /codes, after the user's consent *)
CreateCode ==
  /\ granted < MaxGrants
  /\ granted' = granted + 1
  /\ \E c \in Connection :
       /\ grant' = [grant EXCEPT ![granted + 1] = NewGrant("code", c, 0)]
       /\ severed' = severed \ {c}
  /\ UNCHANGED <<exchange, grabbed>>

(* From here on r uses g. *)
StartsUsing(r, g, p) ==
  /\ exchange' = [exchange EXCEPT ![r] = [pc |-> p, from |-> g]]
  /\ grabbed' = IF \E q \in Request : Holds(q, g) THEN grabbed \cup {g} ELSE grabbed

(* consumeCode: SELECT in a transaction *)
SelectCode(r) ==
  /\ ExchangeAt(r, "idle")
  /\ \E g \in GrantId :
       /\ grant[g].kind = "code" /\ grant[g].live
       /\ StartsUsing(r, g, "consume")
  /\ UNCHANGED <<grant, granted, severed>>

(* Mutant: the row is left to deleteExpiredCodes. *)
DeleteCode_Later(r) ==
  LET g == exchange[r].from
  IN  /\ ExchangeAt(r, "consume")
      /\ \E ours \in BOOLEAN :
           exchange' = [exchange EXCEPT
             ![r] = IF ours /\ ~grant[g].late THEN [@ EXCEPT !.pc = "issue"] ELSE NoExchange]
      /\ UNCHANGED <<grant, granted, grabbed, severed>>

(* consumeCode: DELETE, no matter whether it deletes anything, and COMMIT.     *)
(* An expired code, or the wrong client or redirect, ends the request.         *)
DeleteCode(r) ==
  LET g == exchange[r].from
  IN  /\ ExchangeAt(r, "consume")
      /\ grant' = [grant EXCEPT ![g].live = FALSE]
      /\ \E ours \in BOOLEAN :
           exchange' = [exchange EXCEPT
             ![r] = IF ours /\ ~grant[g].late THEN [@ EXCEPT !.pc = "issue"] ELSE NoExchange]
      /\ UNCHANGED <<granted, grabbed, severed>>

(* Mutant: a revoked token is found, too. *)
FindValidRefreshToken_Revoked(r) ==
  /\ ExchangeAt(r, "idle")
  /\ \E g \in GrantId :
       /\ grant[g].kind = "token" /\ ~grant[g].late
       /\ StartsUsing(r, g, "rotate")
  /\ UNCHANGED <<grant, granted, severed>>

(* POST /refresh: findValidRefreshToken, and the client it is bound to *)
FindValidRefreshToken(r) ==
  /\ ExchangeAt(r, "idle")
  /\ \E g \in GrantId :
       /\ grant[g].kind = "token" /\ grant[g].live /\ ~grant[g].late
       /\ StartsUsing(r, g, "rotate")
  /\ UNCHANGED <<grant, granted, severed>>

(* revokeRefreshToken: what it returns is not looked at *)
RevokeOld(r) ==
  /\ ExchangeAt(r, "rotate")
  /\ grant' = [grant EXCEPT ![exchange[r].from].live = FALSE]
  /\ exchange' = [exchange EXCEPT ![r].pc = "issue"]
  /\ UNCHANGED <<granted, grabbed, severed>>

IssueTokenSet(r) ==
  LET g == exchange[r].from
  IN  /\ ExchangeAt(r, "issue") /\ granted < MaxGrants
      /\ granted' = granted + 1
      /\ grant' = [grant EXCEPT ![granted + 1] = NewGrant("token", grant[g].conn, g)]
      /\ exchange' = [exchange EXCEPT ![r] = NoExchange]
      /\ UNCHANGED <<grabbed, severed>>

(* POST /revoke *)
RevokeToken ==
  /\ \E g \in GrantId : /\ grant[g].kind = "token" /\ grant[g].live
                        /\ grant' = [grant EXCEPT ![g].live = FALSE]
  /\ UNCHANGED <<granted, exchange, grabbed, severed>>

(* revokeApp: every active token of the user for this client, in one UPDATE *)
RevokeApp ==
  \E c \in Connection :
    /\ grant' = [g \in GrantId |-> IF grant[g].kind = "token" /\ grant[g].conn = c
                                   THEN [grant[g] EXCEPT !.live = FALSE] ELSE grant[g]]
    /\ severed' = IF \/ \E g \in GrantId : grant[g] = NewGrant("code", c, 0)
                     \/ \E r \in Request, g \in GrantId : Holds(r, g) /\ grant[g].conn = c
                  THEN severed ELSE severed \cup {c}
    /\ UNCHANGED <<granted, exchange, grabbed>>

GrantExpires ==
  /\ \E g \in GrantId : /\ grant[g].live /\ ~grant[g].late
                        /\ grant' = [grant EXCEPT ![g].late = TRUE]
  /\ UNCHANGED <<granted, exchange, grabbed, severed>>

(* The process stops: an open transaction is rolled back. *)
CrashOAuth ==
  /\ exchange' = [r \in Request |-> NoExchange]
  /\ exchange' # exchange
  /\ UNCHANGED <<grant, granted, grabbed, severed>>

OAuthStep(r) ==
  SelectCode(r) \/ DeleteCode(r) \/ FindValidRefreshToken(r) \/ RevokeOld(r) \/ IssueTokenSet(r)

OAuthNext ==
  \/ \E r \in Request : OAuthStep(r)
  \/ CreateCode \/ RevokeToken \/ RevokeApp \/ GrantExpires \/ CrashOAuth

OAuthSpec == OAuthInit /\ [][OAuthNext]_oauthVars

-----------------------------------------------------------------------------
(* A code or a refresh token yields one token set at most, whatever fails      *)
(* between finding, spending and issuing; unless two requests used it at once. *)
SpentOnce ==
  \A s, t \in GrantId :
    grant[s].kind = "token" /\ grant[t].kind = "token" /\ s # t
      /\ grant[s].from = grant[t].from => grant[s].from \in grabbed

(* A client that was disconnected has no valid refresh token until the user     *)
(* consents again: no rotation brings it back.                                 *)
DisconnectEndsAccess ==
  \A g \in GrantId : grant[g].conn \in severed /\ grant[g].kind = "token" => ~grant[g].live
=============================================================================
