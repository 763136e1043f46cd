----------------------------- MODULE RefreshTokens -----------------------------
(******************************************************************************)
(* The refresh tokens of the users: login, rotation and logout by concurrent  *)
(* requests.  A request locks the row of its token, looks at it, and commits; *)
(* a request that fails in between is rolled back.                            *)
(******************************************************************************)
EXTENDS Naturals, FiniteSets

CONSTANTS
  Token,
  Request,       \* requests served at once
  NoToken

ASSUME RefreshTokensAssumption == NoToken \notin Token

VARIABLES
  issued,        \* the tokens with a row
  revoked,       \* revoked_at IS NOT NULL
  expired,       \* expires_at has passed
  replacedBy,    \* replaced_by_token_id
  login,         \* the token of the login a token descends from
  requests

tokenVars == <<issued, revoked, expired, replacedBy, login, requests>>

--------------------------------------------------------------------------------
NoRequest == [op |-> "none", token |-> NoToken]

TokensTypeOK ==
  /\ issued \in SUBSET Token
  /\ revoked \in SUBSET issued
  /\ expired \in SUBSET issued
  /\ replacedBy \in [Token -> Token \cup {NoToken}]
  /\ login \in [Token -> Token \cup {NoToken}]
  /\ requests \in [Request -> [op : {"none", "refresh", "logout"},
                               token : Token \cup {NoToken}]]

TokensInit ==
  /\ issued = {}
  /\ revoked = {}
  /\ expired = {}
  /\ replacedBy = [t \in Token |-> NoToken]
  /\ login = [t \in Token |-> NoToken]
  /\ requests = [q \in Request |-> NoRequest]

\* Mutant: the row is read without FOR UPDATE.
TokenReadable(q, t) == TRUE

TokenFree(q, t) == \A p \in Request \ {q} : requests[p].token # t

\* register_user and login_user: a new row in a transaction of its own.
Login(t) ==
  /\ t \notin issued
  /\ issued' = issued \cup {t}
  /\ login' = [login EXCEPT ![t] = t]
  /\ UNCHANGED <<revoked, expired, replacedBy, requests>>

Expire(t) ==
  /\ t \in issued
  /\ expired' = expired \cup {t}
  /\ UNCHANGED <<issued, revoked, replacedBy, login, requests>>

\* Locked and found valid; any other token is refused and nothing changes.
BeginRefresh(q, t) ==
  /\ requests[q] = NoRequest
  /\ t \in issued \ (revoked \cup expired)
  /\ TokenFree(q, t)
  /\ requests' = [requests EXCEPT ![q] = [op |-> "refresh", token |-> t]]
  /\ UNCHANGED <<issued, revoked, expired, replacedBy, login>>

\* Mutant: the token is replaced and stays valid.
RotateUnrevoked(q, u) ==
  LET t == requests[q].token IN
  /\ requests[q].op = "refresh"
  /\ u \notin issued
  /\ issued' = issued \cup {u}
  /\ replacedBy' = [replacedBy EXCEPT ![t] = u]
  /\ login' = [login EXCEPT ![u] = login[t]]
  /\ requests' = [requests EXCEPT ![q] = NoRequest]
  /\ UNCHANGED <<revoked, expired>>

\* The token is revoked and its replacement inserted in one transaction.
Rotate(q, u) ==
  LET t == requests[q].token IN
  /\ requests[q].op = "refresh"
  /\ u \notin issued
  /\ issued' = issued \cup {u}
  /\ revoked' = revoked \cup {t}
  /\ replacedBy' = [replacedBy EXCEPT ![t] = u]
  /\ login' = [login EXCEPT ![u] = login[t]]
  /\ requests' = [requests EXCEPT ![q] = NoRequest]
  /\ UNCHANGED expired

\* logout_user does not ask whether the token has expired.
BeginLogout(q, t) ==
  /\ requests[q] = NoRequest
  /\ t \in issued \ revoked
  /\ TokenFree(q, t)
  /\ requests' = [requests EXCEPT ![q] = [op |-> "logout", token |-> t]]
  /\ UNCHANGED <<issued, revoked, expired, replacedBy, login>>

Logout(q) ==
  /\ requests[q].op = "logout"
  /\ revoked' = revoked \cup {requests[q].token}
  /\ requests' = [requests EXCEPT ![q] = NoRequest]
  /\ UNCHANGED <<issued, expired, replacedBy, login>>

RequestFails(q) ==
  /\ requests[q] # NoRequest
  /\ requests' = [requests EXCEPT ![q] = NoRequest]
  /\ UNCHANGED <<issued, revoked, expired, replacedBy, login>>

TokensNext ==
  \/ \E t \in Token : Login(t) \/ Expire(t)
  \/ \E q \in Request :
       \/ \E t \in Token : BeginRefresh(q, t) \/ Rotate(q, t) \/ BeginLogout(q, t)
       \/ Logout(q) \/ RequestFails(q)

TokensSpec == TokensInit /\ [][TokensNext]_tokenVars

--------------------------------------------------------------------------------
(* Properties.                                                                *)

\* A login is worth one valid refresh token at any time: refreshing one token
\* twice at once, or refreshing while it is logged out, never makes two.
\* (refresh_tokens)
OneTokenPerLogin ==
  \A t, u \in issued \ revoked : login[t] = login[u] => t = u

\* What is revoked stays so, and a token that was revoked without a replacement,
\* by a logout, never gets one. (refresh_tokens, logout_user)
RevokedIsFinal ==
  [][\A t \in revoked : t \in revoked' /\ replacedBy'[t] = replacedBy[t]]_tokenVars

================================================================================
