-------------------------- MODULE RefreshTokens_proofs --------------------------
(******************************************************************************)
(* Proofs about the refresh tokens, for any number of tokens and requests.    *)
(******************************************************************************)
EXTENDS RefreshTokens, TLAPS

--------------------------------------------------------------------------------
(* The inductive invariant.                                                   *)

\* A request works on a valid token, and is alone with it.
Held ==
  \A q \in Request :
    requests[q].op # "none" =>
      /\ requests[q].token \in issued \ revoked
      /\ \A p \in Request \ {q} : requests[p].token # requests[q].token

\* A request without an operation has no token.
Resting == \A q \in Request : requests[q].op = "none" => requests[q] = NoRequest

\* A token descends from a login.
Rooted == \A t \in issued : login[t] \in issued

TokensInv == TokensTypeOK /\ Held /\ Resting /\ Rooted /\ OneTokenPerLogin

--------------------------------------------------------------------------------
LEMMA TokensInitially == TokensInit => TokensInv
BY RefreshTokensAssumption
   DEF TokensInit, TokensInv, TokensTypeOK, Held, Resting, Rooted, OneTokenPerLogin, NoRequest

\* What the steps of one request have in common: the request takes or leaves a
\* token, and the others keep theirs.
LEMMA RequestsKept ==
  ASSUME TokensTypeOK, Held, Resting, NEW q \in Request, NEW next,
         next \in [op : {"none", "refresh", "logout"}, token : Token \cup {NoToken}],
         requests' = [requests EXCEPT ![q] = next],
         next.op = "none" => next = NoRequest,
         next.op # "none" =>
           /\ next.token \in issued' \ revoked'
           /\ TokenFree(q, next.token),
         \A p \in Request \ {q} :
           requests[p].op # "none" => requests[p].token \in issued' \ revoked'
  PROVE  /\ requests' \in [Request -> [op : {"none", "refresh", "logout"},
                                       token : Token \cup {NoToken}]]
         /\ Held' /\ Resting'
<1>1. /\ requests' \in [Request -> [op : {"none", "refresh", "logout"},
                                    token : Token \cup {NoToken}]]
      /\ requests'[q] = next
      /\ \A p \in Request \ {q} : requests'[p] = requests[p]
  BY DEF TokensTypeOK
<1>2. Resting'
  BY <1>1 DEF Resting
<1>3. ASSUME NEW p \in Request, requests'[p].op # "none"
      PROVE  /\ requests'[p].token \in issued' \ revoked'
             /\ \A o \in Request \ {p} : requests'[o].token # requests'[p].token
  <2>1. CASE p = q
    BY <1>1, <1>3, <2>1 DEF TokenFree
  <2>2. CASE p # q
    <3>1. /\ requests[p].op # "none" /\ requests[p].token \in issued' \ revoked'
          /\ requests[p].token \in Token
      BY <1>1, <1>3, <2>2 DEF Held, TokensTypeOK
    <3>2. next.token # requests[p].token
      <4>1. CASE next.op = "none"
        BY <3>1, <4>1, RefreshTokensAssumption DEF NoRequest
      <4>2. CASE next.op # "none"
        BY <2>2, <4>2 DEF TokenFree
      <4> QED BY <4>1, <4>2
    <3>3. \A o \in Request \ {p, q} : requests[o].token # requests[p].token
      BY <3>1 DEF Held
    <3> QED BY <1>1, <2>2, <3>1, <3>2, <3>3
  <2> QED BY <2>1, <2>2
<1> QED BY <1>1, <1>2, <1>3 DEF Held

--------------------------------------------------------------------------------
(* One lemma for each action.                                                 *)

LEMMA LoginKeeps ==
  ASSUME TokensInv, NEW t \in Token, Login(t)
  PROVE  TokensInv'
<1>1. /\ issued' = issued \cup {t} /\ t \notin issued /\ revoked' = revoked
      /\ requests' = requests /\ expired' = expired /\ replacedBy' = replacedBy
      /\ login' = [login EXCEPT ![t] = t]
  BY DEF Login
<1>2. /\ login'[t] = t
      /\ \A u \in issued : login'[u] = login[u] /\ login[u] \in issued /\ u \in Token
      /\ login' \in [Token -> Token \cup {NoToken}]
  BY <1>1 DEF TokensInv, TokensTypeOK, Rooted
<1>3. TokensTypeOK' /\ Held' /\ Resting'
  BY <1>1, <1>2 DEF TokensInv, TokensTypeOK, Held, Resting
<1>4. Rooted' /\ OneTokenPerLogin'
  BY <1>1, <1>2 DEF TokensInv, Rooted, OneTokenPerLogin
<1> QED BY <1>3, <1>4 DEF TokensInv

LEMMA ExpireKeeps ==
  ASSUME TokensInv, NEW t \in Token, Expire(t)
  PROVE  TokensInv'
BY DEF TokensInv, Expire, TokensTypeOK, Held, Resting, Rooted, OneTokenPerLogin

LEMMA BeginKeeps ==
  ASSUME TokensInv, NEW q \in Request, NEW t \in Token,
         BeginRefresh(q, t) \/ BeginLogout(q, t)
  PROVE  TokensInv'
<1>1. PICK op \in {"refresh", "logout"} :
        requests' = [requests EXCEPT ![q] = [op |-> op, token |-> t]]
  BY DEF BeginRefresh, BeginLogout
<1>2. /\ UNCHANGED <<issued, revoked, expired, replacedBy, login>>
      /\ TokenFree(q, t) /\ t \in issued \ revoked
  BY DEF BeginRefresh, BeginLogout
<1>3. /\ requests' \in [Request -> [op : {"none", "refresh", "logout"},
                                    token : Token \cup {NoToken}]]
      /\ Held' /\ Resting'
  <2> DEFINE next == [op |-> op, token |-> t]
  <2>1. next \in [op : {"none", "refresh", "logout"}, token : Token \cup {NoToken}]
    OBVIOUS
  <2>2. next.op # "none" /\ next.token = t
    BY <1>1
  <2>3. \A p \in Request \ {q} :
          requests[p].op # "none" => requests[p].token \in issued' \ revoked'
    BY <1>2 DEF TokensInv, Held
  <2> HIDE DEF next
  <2> QED BY <1>1, <1>2, <2>1, <2>2, <2>3, RequestsKept DEF TokensInv, next
<1> QED BY <1>2, <1>3 DEF TokensInv, TokensTypeOK, Rooted, OneTokenPerLogin

\* A request that ends gives its token back and may have revoked it.
LEMMA EndKeeps ==
  ASSUME TokensInv, NEW q \in Request, Logout(q) \/ RequestFails(q)
  PROVE  TokensInv'
<1> DEFINE t == requests[q].token
<1>1. /\ requests' = [requests EXCEPT ![q] = NoRequest]
      /\ UNCHANGED <<issued, expired, replacedBy, login>>
      /\ requests[q].op # "none" /\ t \in issued
      /\ revoked' = revoked \/ revoked' = revoked \cup {t}
  BY DEF Logout, RequestFails, TokensInv, Held, Resting
<1>2. \A p \in Request \ {q} :
        requests[p].op # "none" => requests[p].token \in issued' \ revoked'
  BY <1>1 DEF TokensInv, Held
<1>3. /\ requests' \in [Request -> [op : {"none", "refresh", "logout"},
                                    token : Token \cup {NoToken}]]
      /\ Held' /\ Resting'
  <2>1. /\ NoRequest \in [op : {"none", "refresh", "logout"}, token : Token \cup {NoToken}]
        /\ NoRequest.op = "none"
    BY DEF NoRequest
  <2> QED BY <1>1, <1>2, <2>1, RequestsKept DEF TokensInv
<1> QED BY <1>1, <1>3 DEF TokensInv, TokensTypeOK, Rooted, OneTokenPerLogin

\* A replacement takes the place of its token among the valid ones.
LEMMA RotateKeeps ==
  ASSUME TokensInv, NEW q \in Request, NEW u \in Token, Rotate(q, u)
  PROVE  TokensInv'
<1> DEFINE t == requests[q].token
<1>1. /\ issued' = issued \cup {u} /\ u \notin issued
      /\ revoked' = revoked \cup {t} /\ expired' = expired
      /\ replacedBy' = [replacedBy EXCEPT ![t] = u]
      /\ login' = [login EXCEPT ![u] = login[t]]
      /\ requests' = [requests EXCEPT ![q] = NoRequest]
      /\ requests[q].op # "none"
  BY DEF Rotate
<1>2. t \in issued \ revoked /\ t \in Token /\ t # u
  BY <1>1 DEF TokensInv, Held, TokensTypeOK
<1>3. /\ login'[u] = login[t] /\ login[t] \in issued
      /\ \A v \in issued : login'[v] = login[v] /\ login[v] \in issued
      /\ login' \in [Token -> Token \cup {NoToken}]
      /\ replacedBy' \in [Token -> Token \cup {NoToken}]
  BY <1>1, <1>2 DEF TokensInv, TokensTypeOK, Rooted
<1>4. \A p \in Request \ {q} :
        requests[p].op # "none" => requests[p].token \in issued' \ revoked'
  BY <1>1 DEF TokensInv, Held
<1>5. /\ requests' \in [Request -> [op : {"none", "refresh", "logout"},
                                    token : Token \cup {NoToken}]]
      /\ Held' /\ Resting'
  <2>1. /\ NoRequest \in [op : {"none", "refresh", "logout"}, token : Token \cup {NoToken}]
        /\ NoRequest.op = "none"
    BY DEF NoRequest
  <2> QED BY <1>1, <1>4, <2>1, RequestsKept DEF TokensInv
<1>6. TokensTypeOK'
  BY <1>1, <1>2, <1>3, <1>5 DEF TokensInv, TokensTypeOK
<1>7. Rooted'
  BY <1>1, <1>3 DEF Rooted
<1>8. OneTokenPerLogin'
  <2> SUFFICES ASSUME NEW v \in issued' \ revoked', NEW w \in issued' \ revoked',
                      login'[v] = login'[w]
               PROVE  v = w
    BY DEF OneTokenPerLogin
  <2>1. \A x \in issued' \ revoked' : x = u \/ x \in (issued \ revoked) \ {t}
    BY <1>1
  <2>2. \A x \in (issued \ revoked) \ {t} : login[x] # login[t]
    BY <1>2 DEF TokensInv, OneTokenPerLogin
  <2>3. CASE v # u /\ w # u
    BY <1>3, <2>1, <2>3 DEF TokensInv, OneTokenPerLogin
  <2>4. CASE v = u \/ w = u
    BY <1>3, <2>1, <2>2, <2>4
  <2> QED BY <2>3, <2>4
<1> QED BY <1>5, <1>6, <1>7, <1>8 DEF TokensInv

--------------------------------------------------------------------------------
LEMMA TokensStep ==
  ASSUME TokensInv, [TokensNext]_tokenVars
  PROVE  TokensInv'
<1>1. CASE TokensNext
  <2>1. ASSUME NEW t \in Token, Login(t) \/ Expire(t) PROVE TokensInv'
    BY <2>1, LoginKeeps, ExpireKeeps
  <2>2. ASSUME NEW q \in Request, NEW t \in Token,
               BeginRefresh(q, t) \/ Rotate(q, t) \/ BeginLogout(q, t)
        PROVE  TokensInv'
    BY <2>2, BeginKeeps, RotateKeeps
  <2>3. ASSUME NEW q \in Request, Logout(q) \/ RequestFails(q) PROVE TokensInv'
    BY <2>3, EndKeeps
  <2> QED BY <1>1, <2>1, <2>2, <2>3 DEF TokensNext
<1>2. CASE UNCHANGED tokenVars
  BY <1>2 DEF tokenVars, TokensInv, TokensTypeOK, Held, Resting, Rooted, OneTokenPerLogin
<1> QED BY <1>1, <1>2

LEMMA TokensInductive == TokensSpec => []TokensInv
<1>1. TokensInv /\ [TokensNext]_tokenVars => TokensInv'
  BY TokensStep
<1> QED BY <1>1, TokensInitially, PTL DEF TokensSpec

\* Every row and every request stays one of its type. (models/entities.py)
THEOREM TokensTypeCorrect == TokensSpec => []TokensTypeOK
<1>1. TokensInv => TokensTypeOK
  BY DEF TokensInv
<1> QED BY <1>1, TokensInductive, PTL

\* However many requests refresh and log out at once, a login has one valid
\* refresh token: the row lock makes the second request see the revocation of
\* the first. (refresh_tokens)
THEOREM LoginHasOneToken == TokensSpec => []OneTokenPerLogin
<1>1. TokensInv => OneTokenPerLogin
  BY DEF TokensInv
<1> QED BY <1>1, TokensInductive, PTL

\* A revoked token stays revoked and keeps the replacement it has, or has not.
\* (refresh_tokens, logout_user)
THEOREM RevocationIsFinal == TokensSpec => RevokedIsFinal
<1> DEFINE Final == \A t \in revoked : t \in revoked' /\ replacedBy'[t] = replacedBy[t]
<1>1. TokensInv /\ [TokensNext]_tokenVars => [Final]_tokenVars
  <2> SUFFICES ASSUME TokensInv, TokensNext PROVE Final
    BY DEF tokenVars
  <2>1. ASSUME NEW q \in Request, NEW u \in Token, Rotate(q, u) PROVE Final
    <3>1. requests[q].token \notin revoked /\ replacedBy \in [Token -> Token \cup {NoToken}]
      BY <2>1 DEF TokensInv, Held, TokensTypeOK, Rotate
    <3>2. \A t \in revoked : t \in Token
      BY DEF TokensInv, TokensTypeOK
    <3> QED BY <2>1, <3>1, <3>2 DEF Rotate
  <2> QED BY <2>1 DEF TokensNext, Login, Expire, BeginRefresh, BeginLogout, Logout, RequestFails
<1> QED BY <1>1, TokensInductive, PTL DEF TokensSpec, RevokedIsFinal

--------------------------------------------------------------------------------
(* The rows of a login.                                                       *)

\* A login has ended when none of its tokens is valid.
LoggedOut(l) == \A t \in issued \ revoked : login[t] # l

\* A login that has ended gives no valid token again.
LoggedOutForGood ==
  [][\A l \in issued : LoggedOut(l) => LoggedOut(l)']_tokenVars

\* The tokens of a login are a chain: a replacement has one predecessor, which is
\* revoked and of the same login, and a token that is not a login has one.
Chained ==
  /\ \A t \in Token : replacedBy[t] # NoToken =>
       /\ t \in revoked
       /\ replacedBy[t] \in issued
       /\ login[replacedBy[t]] = login[t]
       /\ replacedBy[t] # login[t]
       /\ \A u \in Token : replacedBy[u] = replacedBy[t] => u = t
  /\ \A u \in issued : login[u] # u => \E t \in revoked : replacedBy[t] = u

\* Once every token of a login is revoked, no step makes it valid again: a
\* refresh that is still on its way holds a valid token, and a new login is a
\* token of its own. (refresh_tokens, logout_user)
THEOREM LogoutIsFinal == TokensSpec => LoggedOutForGood
<1> DEFINE Final == \A l \in issued : LoggedOut(l) => LoggedOut(l)'
<1>1. TokensInv /\ [TokensNext]_tokenVars => [Final]_tokenVars
  <2> SUFFICES ASSUME TokensInv, TokensNext, NEW l \in issued, LoggedOut(l),
                      NEW x \in issued' \ revoked'
               PROVE  login'[x] # l
    BY DEF LoggedOut, tokenVars
  <2>1. ASSUME NEW t \in Token, Login(t) PROVE login'[x] # l
    <3>1. /\ t \notin issued
          /\ x \in issued \ revoked \/ x = t
          /\ login' = [login EXCEPT ![t] = t]
      BY <2>1 DEF Login
    <3>2. login'[t] = t /\ t # l /\ \A u \in issued : login'[u] = login[u]
      BY <3>1 DEF TokensInv, TokensTypeOK
    <3> QED BY <3>1, <3>2 DEF LoggedOut
  <2>2. ASSUME NEW q \in Request, NEW u \in Token, Rotate(q, u) PROVE login'[x] # l
    <3>1. /\ requests[q].token \in issued \ revoked
          /\ login' = [login EXCEPT ![u] = login[requests[q].token]]
          /\ u \notin issued
          /\ x \in issued \ revoked \/ x = u
      BY <2>2 DEF Rotate, TokensInv, Held
    <3> QED BY <3>1 DEF TokensInv, TokensTypeOK, LoggedOut
  <2>3. ASSUME UNCHANGED <<issued, login>>, revoked \subseteq revoked'
        PROVE  login'[x] # l
    BY <2>3 DEF LoggedOut
  <2> QED BY <2>1, <2>2, <2>3
          DEF TokensNext, Expire, BeginRefresh, BeginLogout, Logout, RequestFails
<1> QED BY <1>1, TokensInductive, PTL DEF TokensSpec, LoggedOutForGood

\* The tokens of a login are one chain, of which OneTokenPerLogin leaves at most
\* the last valid: no token is replaced twice and none by another's replacement.
\* (refresh_tokens)
THEOREM ReplacementsAreChains == TokensSpec => []Chained
<1>1. TokensInit => Chained
  BY DEF TokensInit, Chained
<1>2. TokensInv /\ Chained /\ [TokensNext]_tokenVars => Chained'
  <2> SUFFICES ASSUME TokensInv, Chained, [TokensNext]_tokenVars PROVE Chained'
    OBVIOUS
  <2>1. /\ issued \subseteq Token /\ revoked \subseteq issued
        /\ replacedBy \in [Token -> Token \cup {NoToken}]
        /\ login \in [Token -> Token \cup {NoToken}]
    BY DEF TokensInv, TokensTypeOK
  <2>2. ASSUME NEW t \in Token, Login(t) PROVE Chained'
    <3>1. /\ t \notin issued /\ issued' = issued \cup {t} /\ revoked' = revoked
          /\ replacedBy' = replacedBy
          /\ login'[t] = t /\ \A u \in issued : login'[u] = login[u]
      BY <2>1, <2>2 DEF Login
    <3> QED BY <2>1, <3>1 DEF Chained
  <2>3. ASSUME NEW q \in Request, NEW u \in Token, Rotate(q, u) PROVE Chained'
    <3> DEFINE t == requests[q].token
    <3>1. /\ issued' = issued \cup {u} /\ u \notin issued
          /\ revoked' = revoked \cup {t}
          /\ replacedBy' = [replacedBy EXCEPT ![t] = u]
          /\ login' = [login EXCEPT ![u] = login[t]]
          /\ t \in issued /\ t \notin revoked
      BY <2>3 DEF Rotate, TokensInv, Held
    <3>2. login[t] \in issued
      BY <3>1 DEF TokensInv, Rooted
    <3> HIDE DEF t
    <3>3. /\ t \in Token /\ t # u /\ login'[u] = login[t] /\ replacedBy'[t] = u
          /\ \A v \in issued : login'[v] = login[v]
          /\ \A v \in Token \ {t} : replacedBy'[v] = replacedBy[v]
      BY <2>1, <3>1
    <3>4. \A v \in Token : replacedBy[v] # u
      BY <3>1, RefreshTokensAssumption DEF Chained
    <3>5. ASSUME NEW v \in Token, replacedBy'[v] # NoToken
          PROVE  /\ v \in revoked' /\ replacedBy'[v] \in issued'
                 /\ login'[replacedBy'[v]] = login'[v]
                 /\ replacedBy'[v] # login'[v]
                 /\ \A w \in Token : replacedBy'[w] = replacedBy'[v] => w = v
      <4>1. CASE v = t
        BY <3>1, <3>2, <3>3, <3>4, <4>1
      <4>2. CASE v # t
        <5>1. /\ v \in revoked /\ replacedBy[v] \in issued
              /\ login[replacedBy[v]] = login[v] /\ replacedBy[v] # login[v]
              /\ replacedBy'[v] = replacedBy[v]
              /\ \A w \in Token : replacedBy[w] = replacedBy[v] => w = v
          BY <3>3, <3>5, <4>2 DEF Chained
        <5>2. v \in issued /\ replacedBy[v] # u
          BY <2>1, <3>1, <5>1
        <5> QED BY <3>1, <3>3, <5>1, <5>2
      <4> QED BY <4>1, <4>2
    <3>6. ASSUME NEW v \in issued', login'[v] # v
          PROVE  \E w \in revoked' : replacedBy'[w] = v
      <4>1. CASE v = u
        BY <3>1, <3>3, <4>1
      <4>2. CASE v # u
        <5>1. v \in issued /\ login[v] # v
          BY <3>1, <3>3, <3>6, <4>2
        <5>2. PICK w \in revoked : replacedBy[w] = v
          BY <5>1 DEF Chained
        <5> QED BY <2>1, <3>1, <3>3, <5>2
      <4> QED BY <4>1, <4>2
    <3> QED BY <3>5, <3>6 DEF Chained
  <2>4. ASSUME UNCHANGED <<issued, replacedBy, login>>, revoked \subseteq revoked'
        PROVE  Chained'
    BY <2>4 DEF Chained
  <2> QED BY <2>2, <2>3, <2>4
          DEF TokensNext, Expire, BeginRefresh, BeginLogout, Logout, RequestFails, tokenVars
<1> QED BY <1>1, <1>2, TokensInductive, PTL DEF TokensSpec

================================================================================
